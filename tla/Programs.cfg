CONSTANTS
  Keys = {k1, k2}
  JobIds = {id1}
  Hashes = {h1}
  NoHash = NoHash
  Tallies <- MCTallies
  StatMax = 1
  Buyers = {b1, b2}
  Authorities = {a1}
  SaleParams <- MCSaleParams
  Amounts = {4, 19, 43}
  Indices = {0, 1}
  Funds = 90
  RebateWindow = 2
  MaxSaleTime = 4
SPECIFICATION ProgramsSpec
SYMMETRY KeySymmetry
INVARIANTS TypeOK LifecycleLedger VoteStatsExact AcceptedAtThreshold RaisedIsHeld ReceiptsMatchContributions
PROPERTIES DecisionFrozen ImplementsLifecycle ClosedStaysClosed
