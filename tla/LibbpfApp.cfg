SPECIFICATION FairSpec
CONSTANTS
  Ids <- MCIds
  ExecsMax = 2
  MaxCalls = 3
  ErrNos = {1, 133, 524, 4013}
INVARIANTS
  ElementsInUse
  PrintsOwnEvent
  MyPidKnown
  ReleasedAndReported
PROPERTIES
  ElementsReturn
  RefusedOnlyWhenFull
CHECK_DEADLOCK FALSE
