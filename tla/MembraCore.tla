----------------------------- MODULE MembraCore -----------------------------
(***************************************************************************)
(* The membra_core Solana program (Proof-of-Job protocol).                 *)
(*                                                                         *)
(* An instruction is atomic: it commits as a whole or fails and leaves     *)
(* every account alone, so each handler is one action, its guard made of   *)
(* the account constraints of its Anchor context (operator XxxCtx) and the *)
(* require! lines of its body.  Transactions of different signers          *)
(* interleave freely.                                                      *)
(*                                                                         *)
(* An account lives at an address derived from its seeds, so the seeds are *)
(* the index here: a job is <<creator, job_id_hash>>, a validator is the   *)
(* key that signed its registration, a vote is <<job, validator>>.  The    *)
(* `init' constraint fails when the address is already in use.  Hashes     *)
(* that no instruction reads, bumps, timestamps, scores, yields and        *)
(* amounts are left out; a manifest and a settlement keep one hash each so *)
(* that overwriting them would show.                                       *)
(***************************************************************************)
EXTENDS Integers, FiniteSets

CONSTANTS
  Keys,           \* public keys that sign transactions
  JobIds,         \* job_id_hash values
  Hashes,         \* manifest and receipt hashes
  Tallies,        \* <<yes_votes, no_votes>> arguments callers submit
  StatMax,        \* the largest value of a validator counter (u64::MAX)
  NoHash          \* the hash of an account that does not exist

U16Max == 65535

ASSUME ConstantsAssumption ==
  /\ IsFiniteSet(Keys) /\ IsFiniteSet(JobIds)
  /\ Tallies \subseteq (0 .. U16Max) \X (0 .. U16Max)
  /\ StatMax \in Nat \ {0}
  /\ NoHash \notin Hashes

Jobs == Keys \X JobIds
Creator(j) == j[1]

JobStatus == {"Created", "ArtifactsSubmitted", "VotingOpen", "ConsensusAccepted",
              "ConsensusRejected", "YieldRecorded", "Settled", "Closed"}
VoteValue == {"None", "Accept", "Reject"}
ConsensusResult == {"None", "Rejected", "Accepted"}

ProtocolConfig == [exists : BOOLEAN, authority : Keys \cup {"None"}, paused : BOOLEAN,
                   consensus_threshold_bps : 0 .. 10000]
ValidatorAccount == [exists : BOOLEAN, authority : Keys \cup {"None"}, active : BOOLEAN,
                     total_votes : 0 .. StatMax, accepted_votes : 0 .. StatMax]
ConsensusAccount == [yes_votes : 0 .. U16Max, no_votes : 0 .. U16Max,
                     threshold_bps : 0 .. 10000, result : ConsensusResult]

VARIABLES
  config,      \* the ProtocolConfig account
  status,      \* status[j]: JobAccount.status, "None" before create_job
  manifest,    \* manifest[j]: ArtifactManifestAccount.manifest_hash
  validator,   \* validator[v]: ValidatorAccount of the key v
  vote,        \* vote[j][v]: VoteAccount.vote, "None" before the vote
  consensus,   \* consensus[j]: ConsensusAccount, result "None" before
  yields,      \* the jobs with a YieldAccount
  settlement   \* settlement[j]: SettlementAccount.receipt_hash

vars == <<config, status, manifest, validator, vote, consensus, yields, settlement>>

NoConfig == [exists |-> FALSE, authority |-> "None", paused |-> FALSE,
             consensus_threshold_bps |-> 0]
NoValidator == [exists |-> FALSE, authority |-> "None", active |-> FALSE,
                total_votes |-> 0, accepted_votes |-> 0]
NoConsensus == [yes_votes |-> 0, no_votes |-> 0, threshold_bps |-> 0, result |-> "None"]

\* The freshly deployed program: no account exists.
Init ==
  /\ config = NoConfig
  /\ status = [j \in Jobs |-> "None"]
  /\ manifest = [j \in Jobs |-> NoHash]
  /\ validator = [v \in Keys |-> NoValidator]
  /\ vote = [j \in Jobs |-> [v \in Keys |-> "None"]]
  /\ consensus = [j \in Jobs |-> NoConsensus]
  /\ yields = {}
  /\ settlement = [j \in Jobs |-> NoHash]

-----------------------------------------------------------------------------
(* Protocol configuration *)

InitializeCtx == ~config.exists

\* Anyone may send it; the authority is an argument.
Initialize(authority) ==
  /\ InitializeCtx
  /\ config' = [exists |-> TRUE, authority |-> authority, paused |-> FALSE,
                consensus_threshold_bps |-> 6667]
  /\ UNCHANGED <<status, manifest, validator, vote, consensus, yields, settlement>>

SetProtocolPauseCtx(authority) == config.exists /\ config.authority = authority

SetProtocolPause(authority, paused) ==
  /\ SetProtocolPauseCtx(authority)
  /\ config' = [config EXCEPT !.paused = paused]
  /\ UNCHANGED <<status, manifest, validator, vote, consensus, yields, settlement>>

-----------------------------------------------------------------------------
(* Validators *)

\* The address comes from the signer, the stored authority from an argument.
RegisterValidatorCtx(signer) == ~validator[signer].exists

RegisterValidator(signer, authority) ==
  /\ RegisterValidatorCtx(signer)
  /\ validator' = [validator EXCEPT ![signer] =
       [exists |-> TRUE, authority |-> authority, active |-> TRUE,
        total_votes |-> 0, accepted_votes |-> 0]]
  /\ UNCHANGED <<config, status, manifest, vote, consensus, yields, settlement>>

SetValidatorStatusCtx(authority, v) == validator[v].exists /\ validator[v].authority = authority

SetValidatorStatus(authority, v, active) ==
  /\ SetValidatorStatusCtx(authority, v)
  /\ validator' = [validator EXCEPT ![v].active = active]
  /\ UNCHANGED <<config, status, manifest, vote, consensus, yields, settlement>>

-----------------------------------------------------------------------------
(* Jobs *)

JobExists(j) == status[j] # "None"

CreateJobCtx(j) == config.exists /\ ~JobExists(j)

CreateJob(signer, j) ==
  /\ Creator(j) = signer
  /\ CreateJobCtx(j)
  /\ ~config.paused
  /\ status' = [status EXCEPT ![j] = "Created"]
  /\ UNCHANGED <<config, manifest, validator, vote, consensus, yields, settlement>>

SubmitArtifactManifestCtx(j) == JobExists(j) /\ manifest[j] = NoHash

SubmitArtifactManifest(signer, j, manifest_hash) ==
  /\ SubmitArtifactManifestCtx(j)
  /\ status[j] = "Created"
  /\ Creator(j) = signer
  /\ manifest' = [manifest EXCEPT ![j] = manifest_hash]
  /\ status' = [status EXCEPT ![j] = "ArtifactsSubmitted"]
  /\ UNCHANGED <<config, validator, vote, consensus, yields, settlement>>

\* Mutant: `init_if_needed' on the vote account, so a validator may vote again.
RevoteCtx(authority, j, v) ==
  JobExists(j) /\ validator[v].exists /\ validator[v].authority = authority

SubmitValidatorVoteCtx(authority, j, v) ==
  /\ JobExists(j)
  /\ validator[v].exists /\ validator[v].authority = authority
  /\ vote[j][v] = "None"

\* Mutant: the status test only rules out jobs without artifacts.
LateVotingAllowed(j) == status[j] \notin {"None", "Created"}

VotingAllowed(j) == status[j] \in {"ArtifactsSubmitted", "VotingOpen"}

\* Mutant: a plain addition on the counters.
PlainInc(n) == n + 1

SaturatingInc(n) == IF n < StatMax THEN n + 1 ELSE StatMax

\* ballot "Invalid" stands for the byte values above 1.
SubmitValidatorVote(authority, j, v, ballot) ==
  /\ SubmitValidatorVoteCtx(authority, j, v)
  /\ VotingAllowed(j)
  /\ validator[v].active
  /\ ballot # "Invalid"
  /\ vote' = [vote EXCEPT ![j][v] = ballot]
  /\ validator' = [validator EXCEPT
       ![v].total_votes = SaturatingInc(@),
       ![v].accepted_votes = IF ballot = "Accept" THEN SaturatingInc(@) ELSE @]
  /\ status' = [status EXCEPT ![j] = "VotingOpen"]
  /\ UNCHANGED <<config, manifest, consensus, yields, settlement>>

SaturatingTotal(yes, no) == IF yes + no <= U16Max THEN yes + no ELSE U16Max

\* Mutant: the ratio is rounded up.
CeilRatioBps(yes, no) ==
  (yes * 10000 + SaturatingTotal(yes, no) - 1) \div SaturatingTotal(yes, no)

\* Integer division; the quotient is at most 10000, so the cast to u16 keeps it.
RatioBps(yes, no) == (yes * 10000) \div SaturatingTotal(yes, no)

Verdict(yes, no, threshold_bps) ==
  IF RatioBps(yes, no) >= threshold_bps THEN "Accepted" ELSE "Rejected"

FinalizeConsensusCtx(signer, j) ==
  /\ JobExists(j) /\ Creator(j) = signer
  /\ config.exists
  /\ consensus[j].result = "None"

\* The two counts are arguments; the votes on record are not read.
FinalizeConsensus(signer, j, yes_votes, no_votes) ==
  /\ FinalizeConsensusCtx(signer, j)
  /\ status[j] = "VotingOpen"
  /\ SaturatingTotal(yes_votes, no_votes) > 0
  /\ LET result == Verdict(yes_votes, no_votes, config.consensus_threshold_bps) IN
     /\ consensus' = [consensus EXCEPT ![j] =
          [yes_votes |-> yes_votes, no_votes |-> no_votes,
           threshold_bps |-> config.consensus_threshold_bps, result |-> result]]
     /\ status' = [status EXCEPT ![j] =
          IF result = "Accepted" THEN "ConsensusAccepted" ELSE "ConsensusRejected"]
  /\ UNCHANGED <<config, manifest, validator, vote, yields, settlement>>

RecordYieldCtx(signer, j) == JobExists(j) /\ Creator(j) = signer /\ j \notin yields

RecordYield(signer, j) ==
  /\ RecordYieldCtx(signer, j)
  /\ status[j] = "ConsensusAccepted"
  /\ yields' = yields \cup {j}
  /\ status' = [status EXCEPT ![j] = "YieldRecorded"]
  /\ UNCHANGED <<config, manifest, validator, vote, consensus, settlement>>

RecordSettlementCtx(signer, j) ==
  JobExists(j) /\ Creator(j) = signer /\ settlement[j] = NoHash

\* Mutant: any finalized consensus can be settled.
SettleAnyVerdict(signer, j, settlement_type, receipt_hash) ==
  /\ RecordSettlementCtx(signer, j)
  /\ status[j] \in {"ConsensusAccepted", "ConsensusRejected", "YieldRecorded", "Settled"}
  /\ settlement_type <= 4
  /\ settlement' = [settlement EXCEPT ![j] = receipt_hash]
  /\ status' = [status EXCEPT ![j] = "Settled"]
  /\ UNCHANGED <<config, manifest, validator, vote, consensus, yields>>

\* The body also admits status Settled; the settlement account then exists and
\* `init' fails.  settlement_type is 0..4, 5 stands for the rejected values.
RecordSettlement(signer, j, settlement_type, receipt_hash) ==
  /\ RecordSettlementCtx(signer, j)
  /\ status[j] \in {"YieldRecorded", "Settled"}
  /\ settlement_type <= 4
  /\ settlement' = [settlement EXCEPT ![j] = receipt_hash]
  /\ status' = [status EXCEPT ![j] = "Settled"]
  /\ UNCHANGED <<config, manifest, validator, vote, consensus, yields>>

CloseJobCtx(signer, j) == JobExists(j) /\ Creator(j) = signer

\* Mutant: an accepted job can be closed before it is settled.
CloseEarly(signer, j) ==
  /\ CloseJobCtx(signer, j)
  /\ status[j] \in {"Settled", "ConsensusRejected", "ConsensusAccepted"}
  /\ status' = [status EXCEPT ![j] = "Closed"]
  /\ UNCHANGED <<config, manifest, validator, vote, consensus, yields, settlement>>

CloseJob(signer, j) ==
  /\ CloseJobCtx(signer, j)
  /\ status[j] \in {"Settled", "ConsensusRejected"}
  /\ status' = [status EXCEPT ![j] = "Closed"]
  /\ UNCHANGED <<config, manifest, validator, vote, consensus, yields, settlement>>

-----------------------------------------------------------------------------

Next ==
  \/ \E k \in Keys : Initialize(k)
  \/ \E k \in Keys, b \in BOOLEAN : SetProtocolPause(k, b)
  \/ \E k, a \in Keys : RegisterValidator(k, a)
  \/ \E k, v \in Keys, b \in BOOLEAN : SetValidatorStatus(k, v, b)
  \/ \E k \in Keys, j \in Jobs :
       \/ CreateJob(k, j)
       \/ \E h \in Hashes : SubmitArtifactManifest(k, j, h)
       \/ \E v \in Keys, b \in {"Accept", "Reject", "Invalid"} : SubmitValidatorVote(k, j, v, b)
       \/ \E t \in Tallies : FinalizeConsensus(k, j, t[1], t[2])
       \/ RecordYield(k, j)
       \/ \E s \in {0, 4, 5}, h \in Hashes : RecordSettlement(k, j, s, h)
       \/ CloseJob(k, j)

Spec == Init /\ [][Next]_vars

-----------------------------------------------------------------------------
(* Properties *)

\* Every account holds values of its declared types.
TypeOK ==
  /\ config \in ProtocolConfig
  /\ status \in [Jobs -> JobStatus \cup {"None"}]
  /\ manifest \in [Jobs -> Hashes \cup {NoHash}]
  /\ validator \in [Keys -> ValidatorAccount]
  /\ vote \in [Jobs -> [Keys -> VoteValue]]
  /\ consensus \in [Jobs -> ConsensusAccount]
  /\ yields \subseteq Jobs
  /\ settlement \in [Jobs -> Hashes \cup {NoHash}]

\* How far a job is, read off the accounts that exist for it.
HasManifest(j) == manifest[j] # NoHash
HasVote(j) == \E v \in Keys : vote[j][v] # "None"
Undecided(j) == consensus[j].result = "None"
AcceptedResult(j) == consensus[j].result = "Accepted"
RejectedResult(j) == consensus[j].result = "Rejected"
HasYield(j) == j \in yields
HasSettlement(j) == settlement[j] # NoHash

\* A job's status and the seven kinds of accounts written beside it never
\* disagree, whatever order its creator, the validators and the authority act
\* in: the one status byte that every handler tests says exactly which of the
\* manifest, vote, consensus, yield and settlement accounts exist, and a closed
\* job was either rejected and never paid or accepted, scored and paid.
LedgerOf(j) ==
  LET s == status[j] IN
  /\ HasManifest(j) <=> s \notin {"None", "Created"}
  /\ HasVote(j) <=> s \notin {"None", "Created", "ArtifactsSubmitted"}
  /\ Undecided(j) <=> s \in {"None", "Created", "ArtifactsSubmitted", "VotingOpen"}
  /\ s \in {"ConsensusAccepted", "YieldRecorded", "Settled"} => AcceptedResult(j)
  /\ s = "ConsensusRejected" => RejectedResult(j)
  /\ HasYield(j) <=> s \in {"YieldRecorded", "Settled"} \/ (s = "Closed" /\ AcceptedResult(j))
  /\ HasSettlement(j) <=> s = "Settled" \/ (s = "Closed" /\ AcceptedResult(j))

LifecycleLedger == \A j \in Jobs : LedgerOf(j)

VotesOf(v) == {j \in Jobs : vote[j][v] # "None"}
AcceptsOf(v) == {j \in Jobs : vote[j][v] = "Accept"}
Capped(n) == IF n <= StatMax THEN n ELSE StatMax

\* A validator's counters are its voting record: over all jobs, total_votes
\* and accepted_votes count the vote accounts written under it (capped where
\* saturating_add caps them), through any mix of deactivations, late votes and
\* votes on other jobs.
VoteStatsExact ==
  \A v \in Keys :
    /\ validator[v].total_votes = Capped(Cardinality(VotesOf(v)))
    /\ validator[v].accepted_votes = Capped(Cardinality(AcceptsOf(v)))

FrozenStep ==
  \A j \in Jobs :
    /\ ~Undecided(j) =>
         /\ consensus'[j] = consensus[j]
         /\ vote'[j] = vote[j]
         /\ manifest'[j] = manifest[j]
    /\ HasSettlement(j) => settlement'[j] = settlement[j]

\* Once consensus is finalized nobody can change the verdict, add a vote or
\* replace the manifest that was judged; a settlement record is never replaced.
DecisionFrozen == [][FrozenStep]_vars

\* The verdict is the 66.67% threshold on the submitted counts in exact
\* arithmetic: dividing down to basis points and narrowing to u16 never flips
\* it, as long as the u16 sum of the counts does not saturate.
AcceptedAtThreshold ==
  \A j \in Jobs :
    LET c == consensus[j] IN
    ~Undecided(j) /\ c.yes_votes + c.no_votes <= U16Max =>
      (AcceptedResult(j) <=> 10000 * c.yes_votes >= 6667 * (c.yes_votes + c.no_votes))

\* The documented rule: a job is accepted when two thirds of the votes accept.
\* The code compares with 6667 basis points, so two accepts in three (6666
\* basis points after the division) are rejected.
QuorumIsTwoThirds ==
  \A j \in Jobs :
    LET c == consensus[j] IN
    ~Undecided(j) /\ c.yes_votes + c.no_votes <= U16Max =>
      (AcceptedResult(j) <=> 3 * c.yes_votes >= 2 * (c.yes_votes + c.no_votes))

\* The abstract state, read from the consensus and settlement accounts.
AbsVerdict == [j \in Jobs |-> IF Undecided(j) THEN "undecided"
                              ELSE IF AcceptedResult(j) THEN "accepted" ELSE "rejected"]
AbsPaid == {j \in Jobs : HasSettlement(j)}
AbsClosed == {j \in Jobs : status[j] = "Closed"}

Lifecycle == INSTANCE JobLifecycle WITH
  verdict <- AbsVerdict, paid <- AbsPaid, closed <- AbsClosed

\* One verdict, at most one payment and only after acceptance, no closing of
\* unfinished jobs: every instruction is a step of JobLifecycle or none.
ImplementsLifecycle == Lifecycle!Spec
=============================================================================
