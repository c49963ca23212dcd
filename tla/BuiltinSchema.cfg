SPECIFICATION Spec
CONSTANTS
  QName = {a, b}
  None = None
  OptionSets <- MCOptions
  StartContent <- MCOrdinary
  MaxDepth = 3
  MaxLearned = 4
INVARIANTS
  TypeOK
  StackMatchesState
  LearnedOnce
  DecodesTheTable
PROPERTY
  ImplementsGrammar
SYMMETRY QNameSymmetry
CHECK_DEADLOCK FALSE
