SPECIFICATION Spec
CONSTANTS
  NoOptions = NoOptions
  NoReader = NoReader
  NoSchema = NoSchema
  OptionSets <- MCOptionSets
  Buffers <- MCBuffers
INVARIANT OptionsWereGiven
CHECK_DEADLOCK FALSE
