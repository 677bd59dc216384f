SPECIFICATION Spec
CONSTANTS
  Caller = {c1, c2}
  Thread = {t1, t2, t3}
  Serialized = TRUE
  Raising = TRUE
  HandlerCalls = {"loop"}
SYMMETRY Symmetry
INVARIANT TypeOK
INVARIANT Exclusive
INVARIANT OneLoop
INVARIANT RunsUnlessRaised
CHECK_DEADLOCK FALSE
