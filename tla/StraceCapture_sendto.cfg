SPECIFICATION Spec
CONSTANTS
  MaxWrites = 1
  Texts <- MCTexts
  Lengths <- MCLengths
  Rooms <- MCRooms
  Families <- MCFamilies
  Flags <- MCFlags
INVARIANT AddressOfAddressArgument
CHECK_DEADLOCK FALSE
