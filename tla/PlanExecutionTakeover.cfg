CONSTANTS
  Plan = {p1, p2}
  Joints = 2
  Trajectory <- MCTrajectory
SPECIFICATION Spec
INVARIANTS TakeoversRaise
CHECK_DEADLOCK FALSE
