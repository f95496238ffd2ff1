CONSTANTS
  c1 = c1  c2 = c2
  MaxGoal = 3
  Canceller <- MCCanceller
SPECIFICATION Spec
INVARIANTS UncertainGoalWatched
CHECK_DEADLOCK FALSE
