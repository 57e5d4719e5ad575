SPECIFICATION Spec
CONSTANTS
  Threads = {t1}
  RingMax = 1
  MaxCalls = 1
INVARIANT FailureReported
CHECK_DEADLOCK FALSE
