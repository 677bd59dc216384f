SPECIFICATION LiveSpec
CONSTANTS
  End = {"a", "b"}
  Seeds = {0}
  Modulus = 8
  MaxSyns = 2
  MaxSockets = 1
  RstLimit = 0
  MaxConnects = 1
  MaxPackets = 2
PROPERTY ConnectEnds OrphanLearns
CHECK_DEADLOCK FALSE
