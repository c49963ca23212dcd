SPECIFICATION Spec
CONSTANTS
  ByteBits = 8
  WordBytes = 8
  Sizes = {16}
  Headers = {16}
  Truncated = {}
  Widths = {1,8}
INVARIANT EndsWithDocument
CHECK_DEADLOCK FALSE
