SPECIFICATION ContainersSpec
CONSTANTS
  Key = {k1, k2, k3, k4, k5}
  Value = {v1, v2}
  NoValue = NoValue
  N = 4
  MapKey = {m1, m2, m3, m4}
  MapValue = {w1, w2}
  NoMapValue = NoMapValue
  Hashes <- MCHashes
  MinBuckets = 4
  MaxBuckets = 8
  s1 = s1
  s2 = s2
  Str <- MCStr
  None = None
  UsesSchema = TRUE
  EmptyStr = s1
  XML = s2
  XSI = s2
  XSD = s2
  XMLPrefix = s2
  XSIPrefix = s2
  XMLNames <- MCXMLNames
  XSINames <- MCXSINames
  XSDNames <- MCXSDNames
  CacheSize = 1
  MaxURIs = 5
  MaxPrefixes = 1
  MaxNames = 4
  MaxGlobals = 2
INVARIANTS
  KeysDistinct
  HoldsMostRecent
  CountsAreTrue
  EntriesReachable
  PartitionsInSync
  TypeOK
  CacheAgreesWithMap
  LocalValuesAreGlobal
  ReturnedIDsResolve
PROPERTIES
  OnlyLastAssigned
  OperationsEnd
  ImplementsDictionary
  ImplementsPartitions
CHECK_DEADLOCK FALSE
