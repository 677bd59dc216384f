SPECIFICATION Spec
CONSTANTS
  a = a
  b = b
  End = {a, b}
  Seeds = {0, 2}
  Modulus = 8
  MaxSyns = 0
  MaxSockets = 1
  RstLimit = 0
  MaxConnects = 2
  MaxPackets = 2
CONSTRAINTS TwoPackets FirstSeed
SYMMETRY Symmetry
INVARIANTS TypeOK KeysUnique Routing
CHECK_DEADLOCK FALSE
