SPECIFICATION FairSpec
CONSTANT RingMax = 3
INVARIANTS
  TypeOK
  EverythingReleased
  FailureReported
  AttachedIsFiltered
PROPERTIES
  StopsOnceQuiet
  StatusOfLastPoll
CHECK_DEADLOCK FALSE
