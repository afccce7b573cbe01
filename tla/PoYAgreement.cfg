CONSTANTS
  Agents = {a1, a2}
  Inferences = {"a", "b"}
  Yields = {1, 2}
  YieldOf <- MCYieldOf
  SweepSizes = {2}
  MinBatch = 2
  MaxBatch = 2
  MaxOps = 2
  MaxPending = 3
  MaxRoots = 1
  MaxPoYVotes = 3
SPECIFICATION NodeSpec
CHECK_DEADLOCK FALSE
INVARIANTS ValidatorsAgree
