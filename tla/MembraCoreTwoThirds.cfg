CONSTANTS
  Keys = {k1, k2}
  JobIds = {id1}
  Hashes = {h1}
  NoHash = NoHash
  Tallies <- MCTallies
  StatMax = 1
SPECIFICATION Spec
INVARIANTS QuorumIsTwoThirds
