SPECIFICATION ReadersSpec
CONSTANTS
  ByteBits = 8
  WordBytes = 8
  Sizes <- MCSizes
  Headers <- MCHeaders
  Truncated <- MCTruncated
  Widths <- MCWidths
  Character <- MCCharacters
  MaxLength = 3
INVARIANTS
  StoreHoldsStream
  CharactersSurvive
PROPERTY ImplementsCursor
CHECK_DEADLOCK FALSE
