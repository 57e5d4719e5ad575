SPECIFICATION FairSpec
CONSTANTS
  IntMax = 3
  Images <- MCImages
INVARIANTS
  FoundBoreName
  TracesOnePid
PROPERTIES
  PatientSearchFinds
  SignalEndsSearch
  ImplementsFind
CHECK_DEADLOCK FALSE
