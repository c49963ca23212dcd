SPECIFICATION DocumentsSpec
CONSTANTS
  MaxNodes = 6
  MaxAttrs = 1
  MaxDepth = 3
  Path = {"f", "v"}
  Volatile = {"v"}
  Own = "own"
  OwnPath = "v"
  MapMin = 2
  PageSize = 2
  MaxSize = 3
  MaxWrites = 2
INVARIANTS
  TreeTypeOK
  LinksAgree
  MirrorsDocument
  OnlyTextMoves
  TextLives
  FilesTypeOK
  ViewsStayValid
  WholeFileParsed
  Terminated
PROPERTIES
  TextsKeepStill
  CallsReturn
CHECK_DEADLOCK FALSE
