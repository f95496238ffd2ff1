------------------------------- MODULE MCApps -------------------------------
(* Apps with two tasks that may cancel trajectories at the same time, and one *)
(* leader arm per arm of a bimanual robot.                                    *)
EXTENDS Apps

CONSTANTS c1, c2, left, right

MCCanceller == {c1, c2}
MCLeaders == <<left, right>>
=============================================================================
