SPECIFICATION Spec
CONSTANTS
  MaxNodes = 3
  MaxAttrs = 1
  MaxDepth = 2
INVARIANT
  AttributesKept
CHECK_DEADLOCK FALSE
