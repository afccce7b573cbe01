CONSTANTS
  Jobs = {j1, j2}
  Builders = {b1}
  Amounts = {6}
  MaxVotes = 4
  MaxDeposits = 2
  MaxRestarts = 1
SYMMETRY Symmetry
SPECIFICATION Spec
INVARIANTS ReleaseConditions MoneyConserved ConsensusLatched
PROPERTIES FrozenAfterLoad
