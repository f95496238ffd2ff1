CONSTANTS
  Plan = {p1, p2}
  Trajectory <- MCTrajectory
  Joints = 2
  Waiter = {w1, w2}
  Capacity = 2
  MaxSeq = 3
  MaxCalls = 2
  App = {a1, a2}
  Resource = {r1}
  MaxTry = 2
  Controller = {c1, c2}
  Caller = {k1, k2}
  Scope = {s1, s2}
  MaxUse = 2
  Kind = {"agent", "camera"}
  Config = {x, y}
  Episode <- MCEpisode
  Ahead = 7
  MaxTime = 5
  MaxPass = 2
  Arm = {"arm", "arm2"}
  Gripper = {"grip"}
  Pose = {"a", "b"}
  Recordings <- MCRecordings
  Count = {1, 2, 3}
  Frame <- MCFrame
  Robot = {"marvin", "piper", "franka"}
SPECIFICATION Spec
INVARIANTS
  TypeOK
  CancelReachesItsGoal
  NoSleepOnNews
  NoRecoveryLeaseLeft
  ReturnedMeansSwitched
  RecordingHasAnEnd
  CloseIsComplete
  PlayedAtRecordedPace
  ReplayStartsWhereItStands
  BuffersGoRound
  NoHalfRobot
PROPERTIES
  WaitsEnd
  OwnedIsLeftAlone
CHECK_DEADLOCK FALSE
