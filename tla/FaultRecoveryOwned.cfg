CONSTANTS
  App = {a1, a2}
  Resource = {r1}
  MaxTry = 1
SPECIFICATION RecordedSpec
INVARIANTS OwnedIsNeverTaken
CHECK_DEADLOCK FALSE
