-------------------------- MODULE MembraCoreProofs --------------------------
(***************************************************************************)
(* Proofs about MembraCore for every set of keys, job ids and hashes.      *)
(***************************************************************************)
EXTENDS MembraCore, FiniteSetTheorems, TLAPS

-----------------------------------------------------------------------------
(* Arithmetic of the handlers *)

\* The saturating increment of a counter stays within the counter's range.
LEMMA SaturatingIncType ==
  ASSUME NEW n \in 0 .. StatMax
  PROVE  SaturatingInc(n) \in 0 .. StatMax
BY ConstantsAssumption DEF SaturatingInc

\* A counter can hold zero.
LEMMA StatMaxType == StatMax \in Nat /\ 0 \in 0 .. StatMax
BY ConstantsAssumption

\* A tally is a pair of u16 values.
LEMMA TallyType ==
  ASSUME NEW t \in Tallies
  PROVE  t[1] \in 0 .. U16Max /\ t[2] \in 0 .. U16Max
BY ConstantsAssumption

\* Pausing a configuration gives a configuration.
LEMMA ConfigPauseType ==
  ASSUME NEW c \in ProtocolConfig, NEW b \in BOOLEAN
  PROVE  [c EXCEPT !.paused = b] \in ProtocolConfig
BY DEF ProtocolConfig

\* A verdict is one of two.
LEMMA VerdictType ==
  ASSUME NEW y, NEW n, NEW b
  PROVE  Verdict(y, n, b) \in {"Accepted", "Rejected"}
BY DEF Verdict

-----------------------------------------------------------------------------
(* Type correctness *)

\* No account exists at first, so every account has its type.
LEMMA InitType == Init => TypeOK
<1>1. NoConfig \in ProtocolConfig
  BY DEF NoConfig, ProtocolConfig
<1>2. NoValidator \in ValidatorAccount
  BY StatMaxType DEF NoValidator, ValidatorAccount
<1>3. NoConsensus \in ConsensusAccount
  BY DEF NoConsensus, ConsensusAccount, ConsensusResult, U16Max
<1> QED
  BY <1>1, <1>2, <1>3 DEF Init, TypeOK, VoteValue

\* Every instruction writes values of the declared types.
LEMMA NextType == TypeOK /\ [Next]_vars => TypeOK'
<1> SUFFICES ASSUME TypeOK, [Next]_vars PROVE TypeOK'
  OBVIOUS
<1> USE DEF TypeOK
<1>1. ASSUME NEW k \in Keys, Initialize(k) PROVE TypeOK'
  <2>1. config' \in ProtocolConfig
    BY <1>1 DEF Initialize, ProtocolConfig
  <2> QED
    BY <1>1, <2>1 DEF Initialize
<1>2. ASSUME NEW k \in Keys, NEW b \in BOOLEAN, SetProtocolPause(k, b) PROVE TypeOK'
  <2>1. config' \in ProtocolConfig
    BY <1>2, ConfigPauseType DEF SetProtocolPause
  <2> QED
    BY <1>2, <2>1 DEF SetProtocolPause
<1>3. ASSUME NEW k \in Keys, NEW a \in Keys, RegisterValidator(k, a) PROVE TypeOK'
  <2>1. validator'[k] \in ValidatorAccount
    BY <1>3, StatMaxType DEF RegisterValidator, ValidatorAccount
  <2> QED
    BY <1>3, <2>1 DEF RegisterValidator
<1>4. ASSUME NEW k \in Keys, NEW v \in Keys, NEW b \in BOOLEAN, SetValidatorStatus(k, v, b)
      PROVE  TypeOK'
  BY <1>4 DEF SetValidatorStatus, ValidatorAccount
<1>5. ASSUME NEW k \in Keys, NEW j \in Jobs, CreateJob(k, j) PROVE TypeOK'
  BY <1>5 DEF CreateJob, JobStatus
<1>6. ASSUME NEW k \in Keys, NEW j \in Jobs, NEW h \in Hashes, SubmitArtifactManifest(k, j, h)
      PROVE  TypeOK'
  BY <1>6 DEF SubmitArtifactManifest, JobStatus
<1>7. ASSUME NEW k \in Keys, NEW j \in Jobs, NEW v \in Keys,
             NEW b \in {"Accept", "Reject", "Invalid"}, SubmitValidatorVote(k, j, v, b)
      PROVE  TypeOK'
  <2>1. validator'[v] \in ValidatorAccount
    BY <1>7, SaturatingIncType DEF SubmitValidatorVote, ValidatorAccount
  <2>2. validator' \in [Keys -> ValidatorAccount]
    BY <1>7, <2>1 DEF SubmitValidatorVote
  <2>3. vote' \in [Jobs -> [Keys -> VoteValue]]
    BY <1>7 DEF SubmitValidatorVote, VoteValue
  <2>4. status' \in [Jobs -> JobStatus \cup {"None"}]
    BY <1>7 DEF SubmitValidatorVote, JobStatus
  <2> QED
    BY <1>7, <2>2, <2>3, <2>4 DEF SubmitValidatorVote
<1>8. ASSUME NEW k \in Keys, NEW j \in Jobs, NEW y \in 0 .. U16Max, NEW n \in 0 .. U16Max,
             FinalizeConsensus(k, j, y, n)
      PROVE  TypeOK'
  <2> DEFINE b == config.consensus_threshold_bps
             rec == [yes_votes |-> y, no_votes |-> n, threshold_bps |-> b,
                     result |-> Verdict(y, n, b)]
  <2>1. b \in 0 .. 10000
    BY DEF ProtocolConfig
  <2>2. consensus' = [consensus EXCEPT ![j] = rec]
    BY <1>8 DEF FinalizeConsensus
  <2>3. consensus' \in [Jobs -> ConsensusAccount]
    <3> HIDE DEF b
    <3>1. rec \in ConsensusAccount
      BY <2>1, VerdictType DEF ConsensusAccount, ConsensusResult
    <3> HIDE DEF rec
    <3> QED
      BY <2>2, <3>1
  <2>4. status' \in [Jobs -> JobStatus \cup {"None"}]
    BY <1>8 DEF FinalizeConsensus, JobStatus
  <2> QED
    BY <1>8, <2>3, <2>4 DEF FinalizeConsensus
<1>9. ASSUME NEW k \in Keys, NEW j \in Jobs, RecordYield(k, j) PROVE TypeOK'
  BY <1>9 DEF RecordYield, JobStatus
<1>10. ASSUME NEW k \in Keys, NEW j \in Jobs, NEW s \in {0, 4, 5}, NEW h \in Hashes,
              RecordSettlement(k, j, s, h)
       PROVE  TypeOK'
  BY <1>10 DEF RecordSettlement, JobStatus
<1>11. ASSUME NEW k \in Keys, NEW j \in Jobs, CloseJob(k, j) PROVE TypeOK'
  BY <1>11 DEF CloseJob, JobStatus
<1>12. CASE UNCHANGED vars
  BY <1>12 DEF vars
<1> QED
  BY <1>1, <1>2, <1>3, <1>4, <1>5, <1>6, <1>7, <1>8, <1>9, <1>10, <1>11, <1>12, TallyType
  DEF Next

\* Type correctness: every account of the program keeps values of its types.
THEOREM TypeCorrect == Spec => []TypeOK
BY InitType, NextType, PTL DEF Spec

-----------------------------------------------------------------------------
(* The ledger invariant *)

\* An instruction that writes none of a job's accounts keeps its ledger.
LEMMA LedgerFrame ==
  ASSUME NEW j, status'[j] = status[j], manifest'[j] = manifest[j], vote'[j] = vote[j],
         consensus'[j] = consensus[j], settlement'[j] = settlement[j],
         (j \in yields') <=> (j \in yields), LedgerOf(j)
  PROVE  LedgerOf(j)'
BY DEF LedgerOf, HasManifest, HasVote, Undecided, AcceptedResult, RejectedResult, HasYield,
       HasSettlement

\* Before any account exists status and accounts agree.
LEMMA InitLedger == Init => LifecycleLedger
BY DEF Init, LifecycleLedger, LedgerOf, NoConsensus, HasManifest, HasVote, Undecided,
       AcceptedResult, RejectedResult, HasYield, HasSettlement

\* Each instruction keeps the status and the accounts of every job in step.
LEMMA NextLedger == TypeOK /\ LifecycleLedger /\ [Next]_vars => LifecycleLedger'
<1> SUFFICES ASSUME TypeOK, LifecycleLedger, [Next]_vars, NEW i \in Jobs PROVE LedgerOf(i)'
  BY DEF LifecycleLedger
<1>0. LedgerOf(i)
  BY DEF LifecycleLedger
<1> USE DEF HasManifest, HasVote, Undecided, AcceptedResult, RejectedResult, HasYield,
            HasSettlement
<1>1. ASSUME UNCHANGED <<status, manifest, vote, consensus, yields, settlement>>
      PROVE  LedgerOf(i)'
  BY <1>0, <1>1, LedgerFrame
<1>2. ASSUME NEW k \in Keys, NEW j \in Jobs, CreateJob(k, j) PROVE LedgerOf(i)'
  BY <1>0, <1>2 DEF CreateJob, CreateJobCtx, JobExists, LedgerOf, TypeOK
<1>3. ASSUME NEW k \in Keys, NEW j \in Jobs, NEW h \in Hashes, SubmitArtifactManifest(k, j, h)
      PROVE  LedgerOf(i)'
  BY <1>0, <1>3, ConstantsAssumption DEF SubmitArtifactManifest, LedgerOf, TypeOK
<1>4. ASSUME NEW k \in Keys, NEW j \in Jobs, NEW v \in Keys,
             NEW b \in {"Accept", "Reject", "Invalid"}, SubmitValidatorVote(k, j, v, b)
      PROVE  LedgerOf(i)'
  BY <1>0, <1>4 DEF SubmitValidatorVote, VotingAllowed, LedgerOf, TypeOK
<1>5. ASSUME NEW k \in Keys, NEW j \in Jobs, NEW y \in 0 .. U16Max, NEW n \in 0 .. U16Max,
             FinalizeConsensus(k, j, y, n)
      PROVE  LedgerOf(i)'
  BY <1>0, <1>5, VerdictType DEF FinalizeConsensus, LedgerOf, TypeOK
<1>6. ASSUME NEW k \in Keys, NEW j \in Jobs, RecordYield(k, j) PROVE LedgerOf(i)'
  BY <1>0, <1>6 DEF RecordYield, LedgerOf, TypeOK
<1>7. ASSUME NEW k \in Keys, NEW j \in Jobs, NEW s \in {0, 4, 5}, NEW h \in Hashes,
             RecordSettlement(k, j, s, h)
      PROVE  LedgerOf(i)'
  BY <1>0, <1>7, ConstantsAssumption DEF RecordSettlement, LedgerOf, TypeOK
<1>8. ASSUME NEW k \in Keys, NEW j \in Jobs, CloseJob(k, j) PROVE LedgerOf(i)'
  BY <1>0, <1>8 DEF CloseJob, LedgerOf, TypeOK
<1> QED
  BY <1>1, <1>2, <1>3, <1>4, <1>5, <1>6, <1>7, <1>8, TallyType
  DEF Next, vars, Initialize, SetProtocolPause, RegisterValidator, SetValidatorStatus

\* In every behaviour a job's status byte and its accounts agree.
THEOREM LedgerCorrect == Spec => []LifecycleLedger
BY InitType, NextType, InitLedger, NextLedger, PTL DEF Spec

-----------------------------------------------------------------------------
(* The decision is frozen *)

\* No instruction rewrites what a finalized consensus was about.
LEMMA NextFrozen == TypeOK /\ LifecycleLedger /\ [Next]_vars => [FrozenStep]_vars
<1> SUFFICES ASSUME TypeOK, LifecycleLedger, Next, NEW i \in Jobs
             PROVE  /\ ~Undecided(i) =>
                         /\ consensus'[i] = consensus[i]
                         /\ vote'[i] = vote[i]
                         /\ manifest'[i] = manifest[i]
                    /\ HasSettlement(i) => settlement'[i] = settlement[i]
  BY DEF FrozenStep
<1>0. LedgerOf(i)
  BY DEF LifecycleLedger
<1> USE DEF Undecided, HasSettlement
<1>1. CASE UNCHANGED <<manifest, vote, consensus, settlement>>
  BY <1>1
<1>2. ASSUME NEW k \in Keys, NEW j \in Jobs, NEW h \in Hashes, SubmitArtifactManifest(k, j, h)
      PROVE  /\ UNCHANGED <<consensus, vote, settlement>>
             /\ ~Undecided(i) => manifest'[i] = manifest[i]
  BY <1>0, <1>2 DEF SubmitArtifactManifest, LedgerOf, TypeOK
<1>3. ASSUME NEW k \in Keys, NEW j \in Jobs, NEW v \in Keys,
             NEW b \in {"Accept", "Reject", "Invalid"}, SubmitValidatorVote(k, j, v, b)
      PROVE  /\ UNCHANGED <<consensus, manifest, settlement>>
             /\ ~Undecided(i) => vote'[i] = vote[i]
  BY <1>0, <1>3 DEF SubmitValidatorVote, VotingAllowed, LedgerOf, TypeOK
<1>4. ASSUME NEW k \in Keys, NEW j \in Jobs, NEW y \in 0 .. U16Max, NEW n \in 0 .. U16Max,
             FinalizeConsensus(k, j, y, n)
      PROVE  /\ UNCHANGED <<vote, manifest, settlement>>
             /\ ~Undecided(i) => consensus'[i] = consensus[i]
  BY <1>4 DEF FinalizeConsensus, FinalizeConsensusCtx, TypeOK
<1>5. ASSUME NEW k \in Keys, NEW j \in Jobs, NEW s \in {0, 4, 5}, NEW h \in Hashes,
             RecordSettlement(k, j, s, h)
      PROVE  /\ UNCHANGED <<vote, manifest, consensus>>
             /\ HasSettlement(i) => settlement'[i] = settlement[i]
  BY <1>5 DEF RecordSettlement, RecordSettlementCtx, TypeOK
<1> QED
  BY <1>1, <1>2, <1>3, <1>4, <1>5, TallyType
  DEF Next, Initialize, SetProtocolPause, RegisterValidator, SetValidatorStatus, CreateJob,
      RecordYield, CloseJob

\* A finalized verdict, the votes and manifest behind it and a recorded
\* settlement can never be changed by any instruction.
THEOREM FrozenCorrect == Spec => DecisionFrozen
BY InitType, NextType, InitLedger, NextLedger, NextFrozen, PTL DEF Spec, DecisionFrozen

-----------------------------------------------------------------------------
(* The threshold *)

\* Dividing down to basis points never flips the comparison.
LEMMA FloorThreshold ==
  ASSUME NEW m \in Nat, NEW t \in Nat \ {0}, NEW b \in Nat
  PROVE  m \div t >= b <=> m >= b * t
<1> DEFINE q == m \div t
           r == m % t
<1>1. q \in Nat /\ r \in 0 .. (t - 1) /\ m = q * t + r
  BY SMTT(30)
<1> HIDE DEF q, r
<1>2. ASSUME q >= b PROVE m >= b * t
  <2>1. q * t >= b * t
    BY <1>1, <1>2, SMTT(30)
  <2> QED
    BY <1>1, <2>1, SMTT(30)
<1>3. ASSUME q < b PROVE m < b * t
  <2>1. (q + 1) * t <= b * t
    BY <1>1, <1>3, SMTT(30)
  <2>2. (q + 1) * t = q * t + t
    BY <1>1, SMTT(30)
  <2> QED
    BY <1>1, <2>1, <2>2, SMTT(30)
<1> QED
  BY <1>1, <1>2, <1>3 DEF q

\* What the proof of AcceptedAtThreshold carries along: the one threshold the
\* program ever configures, and verdicts computed from the recorded counts.
ConfiguredThreshold == config.exists => config.consensus_threshold_bps = 6667

VerdictOf(j) ==
  ~Undecided(j) =>
    /\ SaturatingTotal(consensus[j].yes_votes, consensus[j].no_votes) > 0
    /\ consensus[j].result = Verdict(consensus[j].yes_votes, consensus[j].no_votes, 6667)

VerdictInv == ConfiguredThreshold /\ \A j \in Jobs : VerdictOf(j)

\* No threshold and no verdict exist at first.
LEMMA InitVerdict == Init => VerdictInv
BY DEF Init, VerdictInv, ConfiguredThreshold, VerdictOf, Undecided, NoConfig, NoConsensus

\* Only FinalizeConsensus writes a verdict, and it computes it at 6667.
LEMMA NextVerdict == TypeOK /\ VerdictInv /\ [Next]_vars => VerdictInv'
<1> SUFFICES ASSUME TypeOK, VerdictInv, [Next]_vars PROVE VerdictInv'
  OBVIOUS
<1> USE DEF VerdictInv, ConfiguredThreshold, VerdictOf, Undecided
<1>1. ASSUME NEW k \in Keys, Initialize(k) PROVE VerdictInv'
  BY <1>1 DEF Initialize
<1>2. ASSUME NEW k \in Keys, NEW b \in BOOLEAN, SetProtocolPause(k, b) PROVE VerdictInv'
  <2>1. config'.consensus_threshold_bps = config.consensus_threshold_bps
    <3>1. config \in ProtocolConfig
      BY DEF TypeOK
    <3> QED
      BY ONLY <1>2, <3>1 DEF SetProtocolPause, ProtocolConfig
  <2>2. ConfiguredThreshold'
    BY <1>2, <2>1 DEF SetProtocolPause, SetProtocolPauseCtx
  <2> QED
    BY <1>2, <2>2 DEF SetProtocolPause
<1>3. ASSUME NEW k \in Keys, NEW j \in Jobs, NEW y \in 0 .. U16Max, NEW n \in 0 .. U16Max,
             FinalizeConsensus(k, j, y, n)
      PROVE  VerdictInv'
  <2>1. config.consensus_threshold_bps = 6667
    BY <1>3 DEF FinalizeConsensus, FinalizeConsensusCtx
  <2>2. VerdictOf(j)'
    BY <1>3, <2>1 DEF FinalizeConsensus, TypeOK
  <2>3. ASSUME NEW i \in Jobs, i # j PROVE VerdictOf(i)'
    BY <1>3, <2>3 DEF FinalizeConsensus, TypeOK
  <2> QED
    BY <1>3, <2>2, <2>3 DEF FinalizeConsensus
<1> DEFINE Quiet == UNCHANGED <<config, consensus>>
<1>4. Quiet => VerdictInv'
  OBVIOUS
<1>5. ASSUME NEW k \in Keys, NEW a \in Keys, RegisterValidator(k, a) PROVE Quiet
  BY <1>5 DEF RegisterValidator
<1>6. ASSUME NEW k \in Keys, NEW v \in Keys, NEW b \in BOOLEAN, SetValidatorStatus(k, v, b)
      PROVE  Quiet
  BY <1>6 DEF SetValidatorStatus
<1>7. ASSUME NEW k \in Keys, NEW j \in Jobs, CreateJob(k, j) PROVE Quiet
  BY <1>7 DEF CreateJob
<1>8. ASSUME NEW k \in Keys, NEW j \in Jobs, NEW h \in Hashes, SubmitArtifactManifest(k, j, h)
      PROVE  Quiet
  BY <1>8 DEF SubmitArtifactManifest
<1>9. ASSUME NEW k \in Keys, NEW j \in Jobs, NEW v \in Keys,
             NEW b \in {"Accept", "Reject", "Invalid"}, SubmitValidatorVote(k, j, v, b)
      PROVE  Quiet
  BY <1>9 DEF SubmitValidatorVote
<1>10. ASSUME NEW k \in Keys, NEW j \in Jobs, RecordYield(k, j) PROVE Quiet
  BY <1>10 DEF RecordYield
<1>11. ASSUME NEW k \in Keys, NEW j \in Jobs, NEW s \in {0, 4, 5}, NEW h \in Hashes,
              RecordSettlement(k, j, s, h)
       PROVE  Quiet
  BY <1>11 DEF RecordSettlement
<1>12. ASSUME NEW k \in Keys, NEW j \in Jobs, CloseJob(k, j) PROVE Quiet
  BY <1>12 DEF CloseJob
<1>13. CASE UNCHANGED vars
  BY <1>4, <1>13 DEF vars
<1> HIDE DEF VerdictInv, ConfiguredThreshold, VerdictOf, Undecided, Quiet
<1> QED
  BY <1>1, <1>2, <1>3, <1>4, <1>5, <1>6, <1>7, <1>8, <1>9, <1>10, <1>11, <1>12, <1>13, TallyType
  DEF Next

\* A verdict at 6667 basis points is the exact comparison of the counts.
LEMMA VerdictExact ==
  ASSUME NEW y \in Nat, NEW n \in Nat, y + n <= U16Max, SaturatingTotal(y, n) > 0
  PROVE  Verdict(y, n, 6667) = "Accepted" <=> 10000 * y >= 6667 * (y + n)
<1> DEFINE m == y * 10000
           t == y + n
<1>1. SaturatingTotal(y, n) = t /\ m \in Nat /\ t \in Nat \ {0}
  BY DEF SaturatingTotal, U16Max
<1>2. RatioBps(y, n) = m \div t
  BY <1>1 DEF RatioBps
<1>3. Verdict(y, n, 6667) = "Accepted" <=> RatioBps(y, n) >= 6667
  BY DEF Verdict
<1>4. m = 10000 * y /\ t = y + n
  OBVIOUS
<1> HIDE DEF m, t
<1>5. m \div t >= 6667 <=> m >= 6667 * t
  BY <1>1, FloorThreshold
<1>6. Verdict(y, n, 6667) = "Accepted" <=> m >= 6667 * t
  BY <1>1, <1>2, <1>3, <1>5
<1>7. m >= 6667 * t <=> 10000 * y >= 6667 * (y + n)
  BY <1>1, <1>4
<1> QED
  BY <1>1, <1>6, <1>7

\* The counts of a consensus account are natural numbers.
LEMMA ConsensusFields ==
  ASSUME NEW c \in ConsensusAccount
  PROVE  c.yes_votes \in Nat /\ c.no_votes \in Nat
BY DEF ConsensusAccount

\* For every tally whose u16 sum does not saturate, the verdict on record is
\* exact: no rounding of the division ever flips it.
THEOREM ThresholdCorrect == Spec => []AcceptedAtThreshold
<1>1. TypeOK /\ VerdictInv => AcceptedAtThreshold
  <2> SUFFICES ASSUME TypeOK, VerdictInv, NEW j \in Jobs, ~Undecided(j),
                      consensus[j].yes_votes + consensus[j].no_votes <= U16Max
               PROVE  AcceptedResult(j) <=>
                        10000 * consensus[j].yes_votes
                          >= 6667 * (consensus[j].yes_votes + consensus[j].no_votes)
    BY DEF AcceptedAtThreshold
  <2>1. consensus[j].yes_votes \in Nat /\ consensus[j].no_votes \in Nat
    <3>1. consensus[j] \in ConsensusAccount
      BY DEF TypeOK
    <3> QED
      BY ONLY <3>1, ConsensusFields
  <2>2. VerdictOf(j)
    BY DEF VerdictInv
  <2> QED
    <3> DEFINE y == consensus[j].yes_votes
               n == consensus[j].no_votes
    <3>1. y \in Nat /\ n \in Nat /\ y + n <= U16Max /\ SaturatingTotal(y, n) > 0
      BY <2>1, <2>2 DEF VerdictOf
    <3>2. AcceptedResult(j) <=> Verdict(y, n, 6667) = "Accepted"
      BY <2>2 DEF VerdictOf, AcceptedResult
    <3> HIDE DEF y, n
    <3>3. Verdict(y, n, 6667) = "Accepted" <=> 10000 * y >= 6667 * (y + n)
      BY <3>1, VerdictExact
    <3> QED
      BY <3>2, <3>3 DEF y, n
<1> QED
  BY <1>1, InitType, NextType, InitVerdict, NextVerdict, PTL DEF Spec

-----------------------------------------------------------------------------
(* Validator counters *)

\* Saturating increments of a capped count count one more.
LEMMA CappedInc ==
  ASSUME NEW n \in Nat
  PROVE  SaturatingInc(Capped(n)) = Capped(n + 1)
BY ConstantsAssumption DEF SaturatingInc, Capped

\* There are finitely many jobs, so any set of them can be counted.
LEMMA JobsFinite == ASSUME NEW S \in SUBSET Jobs PROVE IsFiniteSet(S) /\ Cardinality(S) \in Nat
BY ConstantsAssumption, FS_Product, FS_Subset, FS_CardinalityType DEF Jobs

\* Counting one more job.
LEMMA OneMoreJob ==
  ASSUME NEW S \in SUBSET Jobs, NEW j \in Jobs, j \notin S
  PROVE  SaturatingInc(Capped(Cardinality(S))) = Capped(Cardinality(S \cup {j}))
BY JobsFinite, FS_AddElement, CappedInc

\* A validator that is not registered has no votes: registration, which sets
\* the counters to zero, forgets none.
NoEarlyVotes == \A v \in Keys : ~validator[v].exists => VotesOf(v) = {} /\ AcceptsOf(v) = {}

\* Nobody has voted at first.
LEMMA InitStats == Init => VoteStatsExact /\ NoEarlyVotes
<1> SUFFICES ASSUME Init, NEW v \in Keys
             PROVE  /\ validator[v].total_votes = Capped(Cardinality(VotesOf(v)))
                    /\ validator[v].accepted_votes = Capped(Cardinality(AcceptsOf(v)))
                    /\ VotesOf(v) = {} /\ AcceptsOf(v) = {}
  BY DEF VoteStatsExact, NoEarlyVotes
<1>1. VotesOf(v) = {} /\ AcceptsOf(v) = {}
  BY DEF Init, VotesOf, AcceptsOf
<1>2. Capped(Cardinality({})) = 0
  BY FS_EmptySet, ConstantsAssumption DEF Capped
<1> QED
  BY <1>1, <1>2 DEF Init, NoValidator

\* Only a vote changes a counter, and it counts the vote account it creates.
LEMMA NextStats ==
  TypeOK /\ VoteStatsExact /\ NoEarlyVotes /\ [Next]_vars => VoteStatsExact' /\ NoEarlyVotes'
<1> DEFINE StatsOf(v) ==
      /\ validator[v].total_votes = Capped(Cardinality(VotesOf(v)))
      /\ validator[v].accepted_votes = Capped(Cardinality(AcceptsOf(v)))
      /\ ~validator[v].exists => VotesOf(v) = {} /\ AcceptsOf(v) = {}
<1> SUFFICES ASSUME TypeOK, VoteStatsExact, NoEarlyVotes, [Next]_vars, NEW u \in Keys
             PROVE  StatsOf(u)'
  BY DEF VoteStatsExact, NoEarlyVotes
<1>0. StatsOf(u)
  BY DEF VoteStatsExact, NoEarlyVotes
<1> DEFINE Quiet == UNCHANGED <<validator, vote>>
<1>1. Quiet => StatsOf(u)'
  BY <1>0 DEF VotesOf, AcceptsOf
<1>2. ASSUME NEW k \in Keys, NEW a \in Keys, RegisterValidator(k, a) PROVE StatsOf(u)'
  <2>1. VotesOf(u)' = VotesOf(u) /\ AcceptsOf(u)' = AcceptsOf(u)
    BY <1>2 DEF RegisterValidator, VotesOf, AcceptsOf
  <2>2. Capped(Cardinality({})) = 0
    BY FS_EmptySet, ConstantsAssumption DEF Capped
  <2>3. CASE u # k
    BY <1>0, <1>2, <2>1, <2>3 DEF RegisterValidator, TypeOK
  <2>4. CASE u = k
    <3>1. VotesOf(u) = {} /\ AcceptsOf(u) = {}
      BY <1>0, <1>2, <2>4 DEF RegisterValidator, RegisterValidatorCtx
    <3>2. /\ validator'[u].total_votes = 0 /\ validator'[u].accepted_votes = 0
      BY <1>2, <2>4 DEF RegisterValidator, TypeOK
    <3> QED
      BY <2>1, <2>2, <3>1, <3>2
  <2> QED
    BY <2>3, <2>4
<1>3. ASSUME NEW k \in Keys, NEW v \in Keys, NEW b \in BOOLEAN, SetValidatorStatus(k, v, b)
      PROVE  StatsOf(u)'
  <2>1. VotesOf(u)' = VotesOf(u) /\ AcceptsOf(u)' = AcceptsOf(u)
    BY <1>3 DEF SetValidatorStatus, VotesOf, AcceptsOf
  <2>2. /\ validator'[u].exists = validator[u].exists
        /\ validator'[u].total_votes = validator[u].total_votes
        /\ validator'[u].accepted_votes = validator[u].accepted_votes
    BY <1>3 DEF SetValidatorStatus, TypeOK, ValidatorAccount
  <2> QED
    BY <1>0, <2>1, <2>2
<1>4. ASSUME NEW k \in Keys, NEW j \in Jobs, NEW v \in Keys,
             NEW b \in {"Accept", "Reject", "Invalid"}, SubmitValidatorVote(k, j, v, b)
      PROVE  StatsOf(u)'
  <2>1. CASE u # v
    <3>1. VotesOf(u)' = VotesOf(u) /\ AcceptsOf(u)' = AcceptsOf(u)
      BY <1>4, <2>1 DEF SubmitValidatorVote, VotesOf, AcceptsOf, TypeOK
    <3>2. validator'[u] = validator[u]
      BY <1>4, <2>1 DEF SubmitValidatorVote, TypeOK
    <3> QED
      BY <1>0, <3>1, <3>2
  <2>2. CASE u = v
    <3>1. j \notin VotesOf(v) /\ j \notin AcceptsOf(v)
      BY <1>4 DEF SubmitValidatorVote, SubmitValidatorVoteCtx, VotesOf, AcceptsOf
    <3>2. VotesOf(v)' = VotesOf(v) \cup {j}
      BY <1>4 DEF SubmitValidatorVote, VotesOf, TypeOK
    <3>3. AcceptsOf(v)' = IF b = "Accept" THEN AcceptsOf(v) \cup {j} ELSE AcceptsOf(v)
      BY <1>4, <3>1 DEF SubmitValidatorVote, AcceptsOf, TypeOK
    <3>4. VotesOf(v) \in SUBSET Jobs /\ AcceptsOf(v) \in SUBSET Jobs
      BY DEF VotesOf, AcceptsOf
    <3>5. /\ validator'[v].exists
          /\ validator'[v].total_votes = SaturatingInc(validator[v].total_votes)
          /\ validator'[v].accepted_votes =
               IF b = "Accept" THEN SaturatingInc(validator[v].accepted_votes)
                               ELSE validator[v].accepted_votes
      BY <1>4 DEF SubmitValidatorVote, SubmitValidatorVoteCtx, TypeOK, ValidatorAccount
    <3>6. validator'[v].total_votes = Capped(Cardinality(VotesOf(v)'))
      BY <1>0, <2>2, <3>1, <3>2, <3>4, <3>5, OneMoreJob
    <3>7. validator'[v].accepted_votes = Capped(Cardinality(AcceptsOf(v)'))
      BY <1>0, <2>2, <3>1, <3>3, <3>4, <3>5, OneMoreJob
    <3> QED
      BY <2>2, <3>5, <3>6, <3>7
  <2> QED
    BY <2>1, <2>2
<1>5. ASSUME NEW k \in Keys, Initialize(k) PROVE Quiet
  BY <1>5 DEF Initialize
<1>6. ASSUME NEW k \in Keys, NEW b \in BOOLEAN, SetProtocolPause(k, b) PROVE Quiet
  BY <1>6 DEF SetProtocolPause
<1>7. ASSUME NEW k \in Keys, NEW j \in Jobs, CreateJob(k, j) PROVE Quiet
  BY <1>7 DEF CreateJob
<1>8. ASSUME NEW k \in Keys, NEW j \in Jobs, NEW h \in Hashes, SubmitArtifactManifest(k, j, h)
      PROVE  Quiet
  BY <1>8 DEF SubmitArtifactManifest
<1>9. ASSUME NEW k \in Keys, NEW j \in Jobs, NEW y, NEW n, FinalizeConsensus(k, j, y, n)
      PROVE  Quiet
  BY <1>9 DEF FinalizeConsensus
<1>10. ASSUME NEW k \in Keys, NEW j \in Jobs, RecordYield(k, j) PROVE Quiet
  BY <1>10 DEF RecordYield
<1>11. ASSUME NEW k \in Keys, NEW j \in Jobs, NEW s \in {0, 4, 5}, NEW h \in Hashes,
              RecordSettlement(k, j, s, h)
       PROVE  Quiet
  BY <1>11 DEF RecordSettlement
<1>12. ASSUME NEW k \in Keys, NEW j \in Jobs, CloseJob(k, j) PROVE Quiet
  BY <1>12 DEF CloseJob
<1>13. CASE UNCHANGED vars
  BY <1>1, <1>13 DEF vars
<1> HIDE DEF StatsOf, Quiet
<1> QED
  BY <1>1, <1>2, <1>3, <1>4, <1>5, <1>6, <1>7, <1>8, <1>9, <1>10, <1>11, <1>12, <1>13 DEF Next

\* A validator's counters are exactly its voting record, in every behaviour.
THEOREM StatsCorrect == Spec => []VoteStatsExact
BY InitType, NextType, InitStats, NextStats, PTL DEF Spec

-----------------------------------------------------------------------------
(* The program implements JobLifecycle *)

\* The empty ledger maps to the initial abstract state.
LEMMA InitRefines == Init => Lifecycle!Init
BY DEF Init, Lifecycle!Init, AbsVerdict, AbsPaid, AbsClosed, Undecided, HasSettlement,
       NoConsensus

\* Every instruction maps to a step of JobLifecycle or leaves its state alone:
\* finalize_consensus is Decide, record_settlement is Pay, close_job is Close.
LEMMA NextRefines == TypeOK /\ LifecycleLedger /\ [Next]_vars => [Lifecycle!Next]_(Lifecycle!vars)
<1> SUFFICES ASSUME TypeOK, LifecycleLedger, [Next]_vars
             PROVE  [Lifecycle!Next]_(Lifecycle!vars)
  OBVIOUS
<1> DEFINE Goal == [Lifecycle!Next]_(Lifecycle!vars)
           Quiet == UNCHANGED <<consensus, settlement, AbsClosed>>
<1>1. Quiet => Goal
  BY DEF Lifecycle!vars, AbsVerdict, AbsPaid, Undecided, AcceptedResult, HasSettlement
<1>2. ASSUME NEW k \in Keys, NEW j \in Jobs, NEW y, NEW n, FinalizeConsensus(k, j, y, n)
      PROVE  Goal
  <2>1. AbsVerdict[j] = "undecided"
    BY <1>2 DEF FinalizeConsensus, FinalizeConsensusCtx, AbsVerdict, Undecided
  <2>2. UNCHANGED <<AbsPaid, AbsClosed>>
    BY <1>2 DEF FinalizeConsensus, AbsPaid, AbsClosed, HasSettlement, TypeOK
  <2>3. PICK r \in {"Accepted", "Rejected"} :
          \A i \in Jobs : consensus'[i].result = IF i = j THEN r ELSE consensus[i].result
    BY <1>2, VerdictType DEF FinalizeConsensus, TypeOK
  <2>4. AbsVerdict' = [AbsVerdict EXCEPT ![j] = IF r = "Accepted" THEN "accepted" ELSE "rejected"]
    BY <2>3 DEF AbsVerdict, Undecided, AcceptedResult
  <2>5. Lifecycle!Decide(j)
    BY <2>1, <2>2, <2>4 DEF Lifecycle!Decide
  <2> QED
    BY <2>5 DEF Lifecycle!Next
<1>3. ASSUME NEW k \in Keys, NEW j \in Jobs, NEW s \in {0, 4, 5}, NEW h \in Hashes,
             RecordSettlement(k, j, s, h)
      PROVE  Goal
  <2>1. AbsVerdict[j] = "accepted" /\ j \notin AbsPaid \cup AbsClosed
    BY <1>3 DEF RecordSettlement, RecordSettlementCtx, LifecycleLedger, LedgerOf, AbsVerdict,
                AbsPaid, AbsClosed, Undecided, AcceptedResult, HasSettlement
  <2>2. UNCHANGED <<AbsVerdict, AbsClosed>>
    BY <1>3 DEF RecordSettlement, AbsVerdict, AbsClosed, Undecided, AcceptedResult, TypeOK
  <2>3. AbsPaid' = AbsPaid \cup {j}
    BY <1>3, ConstantsAssumption DEF RecordSettlement, AbsPaid, HasSettlement, TypeOK
  <2>4. Lifecycle!Pay(j)
    BY <2>1, <2>2, <2>3 DEF Lifecycle!Pay
  <2> QED
    BY <2>4 DEF Lifecycle!Next
<1>4. ASSUME NEW k \in Keys, NEW j \in Jobs, CloseJob(k, j) PROVE Goal
  <2>1. AbsVerdict[j] = "rejected" \/ j \in AbsPaid
    BY <1>4 DEF CloseJob, LifecycleLedger, LedgerOf, AbsVerdict, AbsPaid, Undecided,
                AcceptedResult, RejectedResult, HasSettlement
  <2>2. j \notin AbsClosed
    BY <1>4 DEF CloseJob, AbsClosed
  <2>3. UNCHANGED <<AbsVerdict, AbsPaid>>
    BY <1>4 DEF CloseJob, AbsVerdict, AbsPaid, Undecided, AcceptedResult, HasSettlement
  <2>4. AbsClosed' = AbsClosed \cup {j}
    BY <1>4 DEF CloseJob, AbsClosed, TypeOK
  <2>5. Lifecycle!Close(j)
    BY <2>1, <2>2, <2>3, <2>4 DEF Lifecycle!Close
  <2> QED
    BY <2>5 DEF Lifecycle!Next
<1>5. ASSUME NEW k \in Keys, Initialize(k) PROVE Quiet
  BY <1>5 DEF Initialize, AbsClosed
<1>6. ASSUME NEW k \in Keys, NEW b \in BOOLEAN, SetProtocolPause(k, b) PROVE Quiet
  BY <1>6 DEF SetProtocolPause, AbsClosed
<1>7. ASSUME NEW k \in Keys, NEW a \in Keys, RegisterValidator(k, a) PROVE Quiet
  BY <1>7 DEF RegisterValidator, AbsClosed
<1>8. ASSUME NEW k \in Keys, NEW v \in Keys, NEW b \in BOOLEAN, SetValidatorStatus(k, v, b)
      PROVE  Quiet
  BY <1>8 DEF SetValidatorStatus, AbsClosed
<1>9. ASSUME NEW k \in Keys, NEW j \in Jobs, CreateJob(k, j) PROVE Quiet
  BY <1>9 DEF CreateJob, CreateJobCtx, JobExists, AbsClosed, TypeOK
<1>10. ASSUME NEW k \in Keys, NEW j \in Jobs, NEW h \in Hashes,
              SubmitArtifactManifest(k, j, h)
       PROVE  Quiet
  BY <1>10 DEF SubmitArtifactManifest, AbsClosed, TypeOK
<1>11. ASSUME NEW k \in Keys, NEW j \in Jobs, NEW v \in Keys,
              NEW b \in {"Accept", "Reject", "Invalid"}, SubmitValidatorVote(k, j, v, b)
       PROVE  Quiet
  BY <1>11 DEF SubmitValidatorVote, VotingAllowed, AbsClosed, TypeOK
<1>12. ASSUME NEW k \in Keys, NEW j \in Jobs, RecordYield(k, j) PROVE Quiet
  BY <1>12 DEF RecordYield, AbsClosed, TypeOK
<1>13. ASSUME UNCHANGED vars PROVE Quiet
  BY <1>13 DEF vars, AbsClosed
<1> HIDE DEF Goal, Quiet
<1>14. Goal
  BY <1>1, <1>2, <1>3, <1>4, <1>5, <1>6, <1>7, <1>8, <1>9, <1>10, <1>11, <1>12, <1>13 DEF Next
<1> QED
  BY <1>14 DEF Goal

\* The program implements the abstract life cycle: whatever the signers do, a
\* job is judged once, paid at most once and only when accepted, and closed
\* only when rejected or paid.
THEOREM RefinesLifecycle == Spec => ImplementsLifecycle
BY InitType, NextType, InitLedger, NextLedger, InitRefines, NextRefines, PTL
DEF Spec, ImplementsLifecycle, Lifecycle!Spec
=============================================================================
