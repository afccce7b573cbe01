CONSTANTS
  Users = {u1, u2}
  Tokens = {"USDC"}
  Amounts = {1}
  Providers = {"VENMO"}
  WorkScores = {4}
  Transfers = {6}
  CreditExpiry = 1
  MaxUserCredit = 5
  ClaimWindow = 1
  ProofWindow = 1
  MinProfit = 1
  MaxGasPerTx = 20
  SupportedTokens = {"USDC", "SOL", "MEMBRA"}
  BlacklistedUsers = {}
  InitialSol = 12
  MaxTime = 1
  MaxIntents = 2
  MaxCredits = 2
  MaxLinks = 1
  MaxProofs = 1
  MaxReserves = 12
  Voters = {v1, v2}
  Powers = {1, 2, 3}
  ProposalWindow = 2
  VotingWindow = 1
  MaxClock = 2
  MaxProposals = 1
  MaxBook = 5
  Prices = {0, 100, 102}
  TwapWindow = 2
  Staleness = 1
  MaxOracleTime = 6
  MaxFeeds = 3
SPECIFICATION Spec
CHECK_DEADLOCK FALSE
SYMMETRY Symmetry
INVARIANTS CoverageKept RelayerMadeWhole DecidedByVotes UnlockedByMarket
PROPERTIES SettledWithinLimit StatusForward ImplementsFeeLedger DecisionKept
