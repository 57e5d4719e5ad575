SPECIFICATION Spec
CONSTANTS
  MaxWrites = 1
  Texts <- MCTexts
  Lengths <- MCLengths
  Rooms <- MCRooms
  Families <- MCFamilies
  Flags <- MCFlags
INVARIANTS
  TypeOK
  ReadablePathPrinted
  ReadWithinLength
  ConnectBindComplete
  NoHalfAddress
  TextFits
  FlagsReadBack
CHECK_DEADLOCK FALSE
