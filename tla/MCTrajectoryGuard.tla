------------------------- MODULE MCTrajectoryGuard -------------------------
(* TrajectoryGuard with two tasks that may cancel at the same time.          *)
EXTENDS TrajectoryGuard

CONSTANTS c1, c2

MCCanceller == {c1, c2}
=============================================================================
