SPECIFICATION Spec
CONSTANTS
  Ids <- MCIds
  InflightMax = 2
  RingMax = 1
  MaxCalls = 3
INVARIANTS
  TypeOK
  EventJoinsOwnEntry
  TargetOnly
  EntriesReportedInOrder
  NoLeakByHandler
  RecordedCallAccounted
PROPERTIES
  SubmittedStable
