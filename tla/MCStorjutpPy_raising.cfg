SPECIFICATION Spec
CONSTANTS
  Caller = {c1}
  Thread = {t1, t2, t3}
  Serialized = TRUE
  Raising = TRUE
  HandlerCalls = {}
SYMMETRY Symmetry
INVARIANT RunsAgain
CHECK_DEADLOCK FALSE
