SPECIFICATION Spec
CONSTANTS
  QName = {a, b}
  None = None
  OptionSets <- MCWithoutNS
  StartContent <- MCAnything
  MaxDepth = 3
  MaxLearned = 2
INVARIANT
  DecodesTheTable
CHECK_DEADLOCK FALSE
