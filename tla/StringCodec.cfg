SPECIFICATION CodecSpec
CONSTANTS
  empty = empty
  xml = xml
  xsi = xsi
  u1 = u1
  s1 = s1
  s2 = s2
  Str <- MCStr
  None = None
  UsesSchema = FALSE
  EmptyStr = empty
  XML = xml
  XSI = xsi
  XSD = xsi
  XMLPrefix = xml
  XSIPrefix = xsi
  XMLNames <- MCNoNames
  XSINames <- MCXSINames
  XSDNames <- MCNoNames
  CacheSize = 2
  MaxURIs = 4
  MaxPrefixes = 2
  MaxNames = 5
  MaxGlobals = 3
  Prefixes = TRUE
  Names <- OwnNames
  Values <- OwnValues
  Declarations <- OwnDeclarations
  Redeclares = FALSE
INVARIANTS
  ReadsWhatWasWritten
  SamePartitions
CHECK_DEADLOCK FALSE
