CONSTANTS
  c1 = c1  c2 = c2
  left = left  right = right
  MaxGoal = 3
  Canceller <- MCCanceller
  Leaders <- MCLeaders
  Target = 2
  MaxAttempt = 3
SPECIFICATION AppsSpec
INVARIANTS
  AppsTypeOK
  MotionWatched
  OneGoal
  RelayReachesEntered
  FloatOnlyUnderControl
  ActiveMeansAll
  NothingLeftBehind
  SavedIsSealed
  NoUnattendedRecording
  FloatIsRecorded
  OneMover
PROPERTIES
  DisarmedByItsOwnEnd
  AbandonedGoalStops
CHECK_DEADLOCK FALSE
