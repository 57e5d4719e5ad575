SPECIFICATION FairSpec
CONSTANTS
  Threads = {t1, t2}
  RingMax = 2
  MaxCalls = 3
INVARIANTS
  ReleasedInReverse
  UnsetOnlyKnownCases
  CallsAccounted
PROPERTIES
  EveryRecordDelivered
  SignalEndsMain
CHECK_DEADLOCK FALSE
