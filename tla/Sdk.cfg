CONSTANTS
  plan1 = plan1
  Workers <- MCWorkers
  Clients = {"client"}
  Capability <- MCCapability
  Plans <- MCPlans
  Subtasks <- MCSubtasks
  Proofs = {p1}
  MaxFaults = 1
  EventTypes = {"prompt", "build", "anchor"}
  MaxEvents = 3
  MaxLogged = 4
  CaptureTypes = {"builds", "prompts"}
  MaxHistory = 4
  Agents = {a1}
  Inferences = {"a", "b", "c"}
  Yields = {1, 2}
  YieldOf <- MCYieldOf
  SweepSizes = {2, 3}
  MinBatch = 2
  MaxBatch = 2
  MaxOps = 5
  MaxPending = 3
  MaxRoots = 2
  MaxPoYVotes = 4
  ArtifactIds = {a1, a2}
  ApprovalStatus = {"approved_public", "approved_summary"}
  MaxEntries = 3
  MaxIssued = 1
  MaxRehash = 2
  MaxSessions = 1
  MaxApiRestarts = 1
  MaxJobs = 3
  ScoreInputs <- MCScoreInputs
  MaxBundles = 1
  Brains = {b1}
  Prompts = {"q"}
  KeywordsOf <- MCKeywordsOf
  Submissions <- MCSubmissions
  MemoryLimit = 2
  MaxSpecialists = 2
  MaxWrites = 3
  Writers = {w1, w2}
  FileNames = {"a", "b"}
  Contents = {"x", "y"}
  Scores = {1, 4}
  MaxStores = 3
  MaxUpdates = 2
SPECIFICATION SdkSpec
INVARIANTS SdkTypeOK ResultsEarned RegistryCoherent IntactUnlessHole ConsentFollowsHistory FinalityJustified BatchesInOrder RecordsTraceable NeverFromNewerJob MemoryLossBounded MemoryCoherent
PROPERTIES EventsNeverReplaced
CHECK_DEADLOCK FALSE
