SPECIFICATION Spec
CONSTANTS
  Hash = {h1, h2}
  Sock = {s1, s2}
  NumFiles = 3
  HeaderLen = 2
  MaxSize = 1
  NULL = NULL
  MultiSource = FALSE
  ShortHeader = TRUE
  HandlerCalls = {}
  MaxHandlers = 1
SYMMETRY Symmetry
INVARIANT NoUseAfterFree
CHECK_DEADLOCK FALSE
