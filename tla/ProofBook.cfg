CONSTANTS
  Threads = {t1, t2}
  MaxAppends = 1
SPECIFICATION Spec
CHECK_DEADLOCK FALSE
INVARIANT ChainVerifies
