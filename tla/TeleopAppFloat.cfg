CONSTANTS
  Target = 1  MaxAttempt = 1
  left = left  right = right
  Leaders <- MCLeaders
SPECIFICATION Spec
INVARIANTS QuitLeavesNobodyFloating
CHECK_DEADLOCK FALSE
