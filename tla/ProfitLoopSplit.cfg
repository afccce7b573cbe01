CONSTANTS
  Jobs = {j1}
  Builders = {b1}
  Amounts = {6}
  MaxVotes = 4
  MaxDeposits = 2
  MaxRestarts = 1
SPECIFICATION Spec
INVARIANT SplitFitsEscrow
