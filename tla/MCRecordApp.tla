---------------------------- MODULE MCRecordApp ----------------------------
(* RecordApp with one leader arm per arm of a bimanual robot.                *)
EXTENDS RecordApp

CONSTANTS left, right

MCLeaders == <<left, right>>
=============================================================================
