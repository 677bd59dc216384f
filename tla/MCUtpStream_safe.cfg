SPECIFICATION Spec
CONSTANTS
  End = {"a", "b"}
  Amounts <- TwoThree
  SeqNr <- Near
  Modulus = 16
  ReorderMax = 8
  OutMax = 4
  Window = 2
  Windows = {2}
  DupAcks = 1
  MaxRetrans = 1
  MaxPackets = 2
  MayStop = TRUE
  NULL = NULL
CONSTRAINT Bounded
INVARIANTS TypeOK OldestUnacked WindowAccounting ReorderBuffer AckedIsReceived FinIsLast
PROPERTY ReliableDelivery
CHECK_DEADLOCK FALSE
