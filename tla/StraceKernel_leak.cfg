SPECIFICATION Spec
CONSTANTS
  Ids <- MCOneProcess
  InflightMax = 2
  RingMax = 1
  MaxCalls = 3
INVARIANT FullOnlyWithLiveThreads
