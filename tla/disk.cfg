SPECIFICATION Spec
CONSTANTS
  LongUrl = {2}
  MaxObj = 2
  Lengths = {2}
  Pieces = {1, 2}
  MaxRefs = 2
  MaxTime = 3
  MaxRuns = 3
INVARIANT OwnBody
PROPERTY RestartKeeps
CHECK_DEADLOCK FALSE
