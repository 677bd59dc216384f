SPECIFICATION LiveSpec
CONSTANTS
  End = {"a", "b"}
  Amounts <- Three
  SeqNr <- Near
  Modulus = 16
  ReorderMax = 8
  OutMax = 4
  Window = 2
  Windows = {0, 2}
  DupAcks = 1
  MaxRetrans = 1
  MaxPackets = 1
  MayStop = FALSE
  NULL = NULL
PROPERTY Closes
PROPERTY Unblocks
CHECK_DEADLOCK FALSE
