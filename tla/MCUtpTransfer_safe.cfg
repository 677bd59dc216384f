SPECIFICATION Spec
CONSTANTS
  NULL = NULL
  NumWrites = 6
  SeqNr <- AtWrap
  Modulus = 16
  InitialSize = 2
  EackBits = 6
  ReorderMax = 8
  OutMax = 8
  DupAcks = 1
  LeastMtu = 2
  UdpMtus = {2, 6}
  Near = 1
  Resets = 1
CONSTRAINT Bounded
INVARIANTS TypeOK BuffersAgree SearchInterval
PROPERTY ReliableDelivery
