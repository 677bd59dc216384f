SPECIFICATION LiveSpec
CONSTANTS
  Caller = {c1}
  Thread = {t1, t2, t3}
  Serialized = TRUE
  Raising = TRUE
  HandlerCalls = {"stop_hash"}
INVARIANT NoRuntimeError
PROPERTY Returns
CHECK_DEADLOCK FALSE
