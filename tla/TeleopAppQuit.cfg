CONSTANTS
  Target = 1  MaxAttempt = 1
  left = left  right = right
  Leaders <- MCLeaders
SPECIFICATION Spec
INVARIANTS QuitsSafely
CHECK_DEADLOCK FALSE
