CONSTANTS
  arm = arm  gripper = gripper
  Key = {arm, gripper}
  MaxLease = 2
SPECIFICATION Spec
INVARIANTS TypeOK QuietRelease NoStrayPublisher
PROPERTIES NoCommandOnceDisplaced
