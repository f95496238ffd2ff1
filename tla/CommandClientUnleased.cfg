CONSTANTS
  arm = arm  gripper = gripper
  Key = {arm, gripper}
  MaxLease = 1
SPECIFICATION Spec
INVARIANTS LeasedCommandsOnly
