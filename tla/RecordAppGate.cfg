CONSTANTS
  Target = 2
  left = left  right = right
  Leaders <- MCLeaders
  MaxAttempt = 3
SPECIFICATION Spec
INVARIANTS GateHearsOperator
CHECK_DEADLOCK FALSE
