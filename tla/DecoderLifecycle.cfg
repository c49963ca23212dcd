SPECIFICATION Spec
CONSTANTS
  NoOptions = NoOptions
  NoReader = NoReader
  NoSchema = NoSchema
  OptionSets <- MCOptionSets
  Buffers <- MCBuffers
INVARIANTS
  DecoderTypeOK
  FlagsAreTrue
  SchemaFitsReader
  HeaderValidates
PROPERTY
  InitialisedIsFrozen
CHECK_DEADLOCK FALSE
