SPECIFICATION StraceSpec
CONSTANTS
  Ids <- MCTraced
  InflightMax = 2
  RingMax = 2
  MaxCalls = 2
  Target = 1
PROPERTIES
  MainImplemented
  KernelImplemented
  EveryRecordDelivered
  ImplementsTraceLog
CHECK_DEADLOCK FALSE
