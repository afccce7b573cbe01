CONSTANTS
  Jobs = {j1, j2}
  Types = {"prompt", "file_analysis"}
  Workers = {w1, w2}
  Proofs = {p1}
  MaxTasks = 3
  MaxPayments = 2
  MaxCrashes = 1
  Sessions = {s1, s2}
  Handlers = {h1, h2}
  Torn = Torn
  MaxDuplicates = 1
  MaxUnsigned = 1
  MaxStops = 1
  MaxPending = 3
  Environments <- MCEnvironments
SPECIFICATION ServicesSpec
INVARIANTS ServicesTypeOK TasksAccounted PaymentsBacked RevenueIsPaid
PROPERTIES WorkSurvives DispatchReturns CompletedIsAnswered
