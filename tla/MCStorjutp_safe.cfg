SPECIFICATION Spec
CONSTANTS
  Hash = {h1, h2}
  Sock = {s1, s2}
  NumFiles = 3
  HeaderLen = 2
  MaxSize = 2
  NULL = NULL
  MultiSource = FALSE
  ShortHeader = FALSE
  HandlerCalls = {}
  MaxHandlers = 1
SYMMETRY Symmetry
INVARIANT TypeOK
INVARIANT PointersAgree
INVARIANT CloseIsLegal
INVARIANT ReportedOnce
INVARIANT WholeFile
CHECK_DEADLOCK FALSE
