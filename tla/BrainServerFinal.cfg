CONSTANTS
  plan1 = plan1
  Workers <- MCWorkers
  Clients = {"client"}
  Capability <- MCCapability
  Plans <- MCPlans
  Subtasks <- MCLanSubtasks
  Proofs = {p1}
  MaxFaults = 0
SPECIFICATION FairSpec
PROPERTIES JobFinalized
