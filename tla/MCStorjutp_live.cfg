SPECIFICATION LiveSpec
CONSTANTS
  Hash = {h1}
  Sock = {s1, s2}
  NumFiles = 2
  HeaderLen = 1
  MaxSize = 1
  NULL = NULL
  MultiSource = TRUE
  ShortHeader = TRUE
  HandlerCalls = {"stop_hash"}
  MaxHandlers = 2
PROPERTY SenderReported
PROPERTY ReceiverReported
PROPERTY ClosedIsFreed
CHECK_DEADLOCK FALSE
