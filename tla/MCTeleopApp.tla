---------------------------- MODULE MCTeleopApp ----------------------------
(* TeleopApp for a bimanual robot: one leader arm per follower arm.          *)
EXTENDS TeleopApp

CONSTANTS left, right

MCLeaders == <<left, right>>
=============================================================================
