-------------------------- MODULE ProfitLoopProofs --------------------------
(***************************************************************************)
(* Proofs about the profit loop for every set of jobs, builders and        *)
(* amounts and every bound on votes, deposits and restarts.                *)
(***************************************************************************)
EXTENDS ProfitLoop, DataTheorems

-----------------------------------------------------------------------------
(* Sums over sequences and the consensus rule *)

\* An element appended to a sequence of naturals adds to its sum.
LEMMA SumAppend ==
  ASSUME NEW s \in Seq(Nat), NEW x \in Nat
  PROVE  /\ SumOf(Append(s, x)) = SumOf(s) + x
         /\ SumOf(s) \in Nat
<1> DEFINE t == Append(s, x)
           n == Len(s)
<1>1. n \in Nat /\ DOMAIN s = 1 .. n /\ DOMAIN t = (1 .. n) \cup {n + 1}
  OBVIOUS
<1>2. /\ t[n + 1] = x
      /\ \A i \in 1 .. n : t[i] = s[i] /\ s[i] \in Nat
  OBVIOUS
<1> HIDE DEF t, n
<1>3. IsFiniteSet(1 .. n) /\ n + 1 \notin 1 .. n
  BY <1>1, FS_Interval
<1> DEFINE D == 1 .. n
           k == n + 1
<1>4. /\ IsFiniteSet(D) /\ k \notin D /\ t[k] \in Int
      /\ \A i \in D : t[i] = s[i] /\ s[i] \in Nat /\ t[i] \in Int
  BY <1>2, <1>3
<1>5. DOMAIN s = D /\ DOMAIN t = D \cup {k} /\ t[k] = x
  BY <1>1, <1>2
<1> HIDE DEF D, k
<1>6. SumFunctionOnSet(t, D \cup {k}) = SumFunctionOnSet(t, D) + t[k]
  BY <1>4, SumAdd
<1>7. SumFunctionOnSet(t, D) = SumFunctionOnSet(s, D)
  BY <1>4, SumAgree
<1>8. SumFunctionOnSet(s, D) \in Nat
  BY <1>4, SumNat
<1> QED
  BY <1>5, <1>6, <1>7, <1>8 DEF SumOf, t

\* The code's rule is the two thirds of at least three votes.
LEMMA ConsensusIsTwoThirds ==
  ASSUME NEW v \in Seq(BOOLEAN)
  PROVE  CheckValidatorConsensus(v) <=> TwoThirdsValid(v)
<1> DEFINE c == Cardinality(ValidVotes(v))
<1>1. c \in Nat
  <2>1. DOMAIN v = 1 .. Len(v) /\ Len(v) \in Nat
    OBVIOUS
  <2> DEFINE n == Len(v)
  <2> HIDE DEF n
  <2>2. IsFiniteSet(1 .. n)
    BY <2>1, FS_Interval DEF n
  <2>3. IsFiniteSet(ValidVotes(v))
    BY <2>1, <2>2, FS_Subset DEF ValidVotes, n
  <2> QED
    BY <2>3, FS_CardinalityType
<1>2. c = Cardinality({i \in DOMAIN v : v[i]}) /\ Len(v) \in Nat
  BY DEF ValidVotes
<1> HIDE DEF c
<1>3. CheckValidatorConsensus(v) <=> Len(v) >= 3 /\ c * 3 >= Len(v) * 2
  BY DEF CheckValidatorConsensus, c
<1>4. TwoThirdsValid(v) <=> Len(v) >= 3 /\ 3 * c >= 2 * Len(v)
  BY <1>2 DEF TwoThirdsValid
<1> QED
  BY <1>1, <1>2, <1>3, <1>4

-----------------------------------------------------------------------------
(* The inductive invariant *)

ReleaseRecord ==
  [job : Jobs, amount : Amounts, distribution : UNION {Distributions(a) : a \in Amounts},
   artifact_hash : BOOLEAN, test_passed : BOOLEAN, buyer_approved : BOOLEAN,
   settlement_confirmed : BOOLEAN, votes : Votes]

Releases == Seq(ReleaseRecord)
Deposits == Seq(Amounts)

\* A dictionary of jobs.
Board(d) == DOMAIN d \subseteq Jobs /\ d \in [DOMAIN d -> BuildJob]

LoopTypes ==
  /\ Board(jobs)
  /\ jobFile = [jobs |-> jobFile.jobs, torn |-> jobFile.torn]
  /\ Board(jobFile.jobs) /\ jobFile.torn \in BOOLEAN
  /\ DOMAIN escrows \subseteq Jobs /\ escrows \in [DOMAIN escrows -> Escrow]
  /\ settlements \subseteq Jobs
  /\ deposited \in [Jobs -> Deposits]
  /\ refunded \in [Jobs -> Nat]
  /\ releases \in Releases
  /\ restarts \in 0 .. MaxRestarts

\* A job is final exactly when its votes decide it, and no vote came after the
\* one that did.
Latched(job) ==
  /\ job.status = "finalized" <=> TwoThirdsValid(job.votes)
  /\ \A n \in 0 .. Len(job.votes) - 1 : ~TwoThirdsValid(SubSeq(job.votes, 1, n))

\* What the status of a job says of its past, unless it was read from the file.
Earned(job, settled) ==
  ~job.plain =>
    /\ job.status \in {"delivered", "tested", "approved", "paid", "finalized"} => job.artifact
    /\ job.status \in {"tested", "approved", "paid", "finalized"} => job.test = "passed"
    /\ job.status \in {"approved", "paid", "finalized"} => job.approved
    /\ job.status \in {"paid", "finalized"} => settled

JobsOK ==
  /\ \A j \in Posted : Latched(jobs[j]) /\ Earned(jobs[j], j \in settlements)
  /\ \A j \in DOMAIN jobFile.jobs : Latched(jobFile.jobs[j])

\* A job that was read from the file is there as it was read.
LoadedAsFiled ==
  \A j \in Posted :
    jobs[j].plain => j \in DOMAIN jobFile.jobs /\ jobs[j] = Load(jobFile.jobs[j])

LoopInv == LoopTypes /\ JobsOK /\ LoadedAsFiled /\ ReleaseConditions /\ MoneyConserved

-----------------------------------------------------------------------------
(* The board *)

\* to_dict and _load keep a job's type and its votes.
LEMMA SavedLoaded ==
  ASSUME NEW job \in BuildJob
  PROVE  /\ Saved(job) \in BuildJob /\ Load(job) \in BuildJob
         /\ Latched(job) => Latched(Saved(job)) /\ Latched(Load(job))
         /\ Load(job).plain
<1>1. /\ Saved(job) \in BuildJob /\ Saved(job).status = job.status /\ Saved(job).votes = job.votes
  BY DEF Saved, BuildJob
<1>2. /\ Load(job) \in BuildJob /\ Load(job).status = job.status /\ Load(job).votes = job.votes
      /\ Load(job).plain
  BY DEF Load, BuildJob
<1> QED
  BY <1>1, <1>2 DEF Latched

\* The money is counted from the escrows and the histories alone.
LEMMA MoneyUntouched ==
  ASSUME MoneyConserved, UNCHANGED <<escrows, deposited, refunded, releases>>
  PROVE  MoneyConserved'
BY DEF MoneyConserved, ReleasedTo, InEscrow

\* A change of one job that is not read from the file, with the save that ends
\* it, keeps the invariant when the job's new state is one it may be in.
LEMMA SetInv ==
  ASSUME LoopInv, NEW j \in Jobs, NEW job \in BuildJob, Set(j, job),
         ~job.plain, j \in Posted => ~jobs[j].plain,
         Latched(job), Earned(job, j \in settlements'),
         settlements \subseteq settlements', settlements' \subseteq Jobs,
         UNCHANGED <<escrows, deposited, refunded, releases, restarts>>
  PROVE  LoopInv'
<1>1. LoopTypes /\ JobsOK /\ LoadedAsFiled
  BY DEF LoopInv
<1>2. /\ DOMAIN jobs' = Posted \cup {j}
      /\ jobs'[j] = job
      /\ \A k \in Posted : k # j => jobs'[k] = jobs[k]
      /\ jobs' \in [Posted \cup {j} -> BuildJob]
  BY <1>1 DEF Set, Update, Put, Posted, LoopTypes, Board
<1>3. Board(jobs')
  BY <1>1, <1>2 DEF Board, LoopTypes, Posted
<1>4. \A k \in DOMAIN jobs' : Latched(jobs'[k]) /\ Earned(jobs'[k], k \in settlements')
  <2> SUFFICES ASSUME NEW k \in DOMAIN jobs'
               PROVE  Latched(jobs'[k]) /\ Earned(jobs'[k], k \in settlements')
    OBVIOUS
  <2>1. CASE k = j
    BY <1>2, <2>1
  <2>2. CASE k # j
    BY <1>1, <1>2, <2>2 DEF JobsOK, Earned, Posted
  <2> QED
    BY <2>1, <2>2
<1> DEFINE filed == [k \in DOMAIN jobs' |-> Saved(jobs'[k])]
<1>5. Board(filed) /\ \A k \in DOMAIN filed : Latched(filed[k])
  <2>1. \A k \in DOMAIN jobs' : jobs'[k] \in BuildJob
    BY <1>3 DEF Board
  <2>2. \A k \in DOMAIN filed : filed[k] \in BuildJob /\ Latched(filed[k])
    BY <1>4, <2>1, SavedLoaded
  <2>3. DOMAIN filed = DOMAIN jobs' /\ DOMAIN jobs' \subseteq Jobs
    BY <1>3 DEF Board
  <2>4. filed \in [DOMAIN filed -> BuildJob]
    BY <2>2
  <2> HIDE DEF filed
  <2> QED
    BY <2>2, <2>3, <2>4 DEF Board
<1>6. \/ jobFile' = jobFile
      \/ ~PersistRaises /\ jobFile' = [jobFile EXCEPT !.jobs = filed]
  BY DEF Set, Update
<1> HIDE DEF filed
<1>7. /\ jobFile' = [jobs |-> jobFile'.jobs, torn |-> jobFile'.torn]
      /\ jobFile'.torn \in BOOLEAN /\ Board(jobFile'.jobs)
      /\ \A k \in DOMAIN jobFile'.jobs : Latched(jobFile'.jobs[k])
  <2>1. CASE jobFile' = jobFile
    BY <1>1, <2>1 DEF LoopTypes, JobsOK
  <2>2. CASE jobFile' = [jobFile EXCEPT !.jobs = filed]
    <3>1. jobFile'.jobs = filed /\ jobFile'.torn = jobFile.torn
          /\ jobFile' = [jobs |-> filed, torn |-> jobFile.torn]
      BY <1>1, <2>2 DEF LoopTypes
    <3> QED
      BY <1>1, <1>5, <3>1 DEF LoopTypes
  <2> QED
    BY <1>6, <2>1, <2>2
<1>8. LoopTypes'
  BY <1>1, <1>3, <1>7 DEF LoopTypes
<1>9. JobsOK'
  BY <1>4, <1>7 DEF JobsOK, Posted
<1>10. LoadedAsFiled'
  <2> SUFFICES ASSUME NEW k \in DOMAIN jobs', jobs'[k].plain
               PROVE  k \in DOMAIN jobFile'.jobs /\ jobs'[k] = Load(jobFile'.jobs[k])
    BY DEF LoadedAsFiled, Posted
  <2>1. k # j /\ k \in Posted /\ jobs'[k] = jobs[k]
    BY <1>2
  <2>2. PersistRaises
    BY <2>1 DEF PersistRaises
  <2> QED
    BY <1>1, <1>6, <2>1, <2>2 DEF LoadedAsFiled
<1>11. ReleaseConditions' /\ MoneyConserved'
  BY MoneyUntouched DEF LoopInv, ReleaseConditions
<1> QED
  BY <1>8, <1>9, <1>10, <1>11 DEF LoopInv

\* The state of a job that an operation may change.
LEMMA StatusIsPosted ==
  ASSUME LoopInv, NEW j, NEW status, StatusIs(j, status)
  PROVE  /\ j \in Posted /\ j \in Jobs /\ jobs[j] \in BuildJob /\ ~jobs[j].plain
         /\ jobs[j].status = status
         /\ Latched(jobs[j]) /\ Earned(jobs[j], j \in settlements)
BY DEF LoopInv, LoopTypes, Board, JobsOK, StatusIs, Posted

\* A job that keeps its votes stays latched unless it becomes or ceases to be
\* final.
LEMMA LatchedCarries ==
  ASSUME NEW job, NEW new, Latched(job), new.votes = job.votes,
         job.status # "finalized", new.status # "finalized"
  PROVE  Latched(new)
BY DEF Latched

LEMMA PostJobInv ==
  ASSUME LoopInv, NEW j \in Jobs, PostJob(j)
  PROVE  LoopInv'
<1> DEFINE job == [status |-> "open", plain |-> FALSE, builder |-> None, artifact |-> FALSE,
                   test |-> None, approved |-> FALSE, receipt |-> None, votes |-> <<>>]
<1>1. <<>> \in Votes
  BY LoopAssumption DEF Votes
<1>2. job \in BuildJob
  BY <1>1 DEF BuildJob, JobStatus
<1>3. Latched(job)
  BY DEF Latched, TwoThirdsValid
<1>4. ~job.plain /\ Earned(job, j \in settlements)
  BY DEF Earned
<1>5. Set(j, job) /\ j \notin Posted
  BY DEF PostJob
<1>6. UNCHANGED <<escrows, settlements, deposited, refunded, releases, restarts>>
  BY DEF PostJob
<1>7. settlements \subseteq Jobs
  BY DEF LoopInv, LoopTypes
<1> HIDE DEF job
<1> QED
  BY <1>2, <1>3, <1>4, <1>5, <1>6, <1>7, SetInv

\* An operation that leaves the settlements alone.
LEMMA StepInv ==
  ASSUME LoopInv, NEW j \in Jobs, j \in Posted, ~jobs[j].plain,
         NEW job \in BuildJob, Set(j, job), ~job.plain,
         Latched(job), Earned(job, j \in settlements),
         UNCHANGED <<escrows, settlements, deposited, refunded, releases, restarts>>
  PROVE  LoopInv'
<1>1. settlements \subseteq Jobs /\ settlements' = settlements
  BY DEF LoopInv, LoopTypes
<1> QED
  BY <1>1, SetInv

LEMMA ClaimAndBuildInv ==
  ASSUME LoopInv, NEW j \in Jobs, NEW b \in Builders, ClaimAndBuild(j, b)
  PROVE  LoopInv'
<1> DEFINE old == jobs[j]
           claimed == [old EXCEPT !.builder = b, !.status = "claimed"]
           built == [claimed EXCEPT !.artifact = TRUE, !.status = "delivered"]
           job == IF PersistRaises THEN claimed ELSE built
<1>1. /\ j \in Posted /\ old \in BuildJob /\ ~old.plain /\ old.status = "open"
      /\ Latched(old) /\ Earned(old, j \in settlements)
  BY StatusIsPosted DEF ClaimAndBuild
<1>2. Set(j, job) /\ UNCHANGED <<escrows, settlements, deposited, refunded, releases, restarts>>
  BY DEF ClaimAndBuild
<1> HIDE DEF old
<1>3. /\ claimed \in BuildJob /\ claimed.status = "claimed"
      /\ claimed.plain = old.plain /\ claimed.votes = old.votes
  BY <1>1 DEF BuildJob, JobStatus
<1> HIDE DEF claimed
<1>4. /\ built \in BuildJob /\ built.status = "delivered" /\ built.artifact
      /\ built.plain = claimed.plain /\ built.votes = claimed.votes
  BY <1>3 DEF BuildJob, JobStatus
<1> HIDE DEF built
<1>5. Latched(claimed) /\ Latched(built)
  BY <1>1, <1>3, <1>4, LatchedCarries
<1>6. Earned(claimed, j \in settlements) /\ Earned(built, j \in settlements)
  BY <1>3, <1>4 DEF Earned
<1>7. job \in BuildJob /\ ~job.plain /\ Latched(job) /\ Earned(job, j \in settlements)
  BY <1>1, <1>3, <1>4, <1>5, <1>6
<1> HIDE DEF job
<1> QED
  BY <1>1, <1>2, <1>7, StepInv DEF old

LEMMA RunTestsInv ==
  ASSUME LoopInv, NEW j \in Jobs, NEW passed \in BOOLEAN, RunTests(j, passed)
  PROVE  LoopInv'
<1> DEFINE old == jobs[j]
           test == IF passed THEN "passed" ELSE "failed"
           status == IF passed THEN "tested" ELSE "delivered"
           job == [old EXCEPT !.test = test, !.status = status]
<1>1. /\ j \in Posted /\ old \in BuildJob /\ ~old.plain /\ old.status = "delivered"
      /\ Latched(old) /\ Earned(old, j \in settlements)
  BY StatusIsPosted DEF RunTests
<1>2. Set(j, job) /\ UNCHANGED <<escrows, settlements, deposited, refunded, releases, restarts>>
  BY DEF RunTests
<1>3. /\ test \in {"passed", "failed"} /\ status \in {"tested", "delivered"}
      /\ status = "tested" => test = "passed"
  OBVIOUS
<1> HIDE DEF old, test, status
<1>4. /\ job \in BuildJob /\ job.status = status /\ job.test = test
      /\ job.plain = old.plain /\ job.votes = old.votes /\ job.artifact = old.artifact
  BY <1>1, <1>3 DEF BuildJob, JobStatus
<1> HIDE DEF job
<1>5. Latched(job)
  BY <1>1, <1>3, <1>4, LatchedCarries
<1>6. Earned(job, j \in settlements)
  BY <1>1, <1>3, <1>4 DEF Earned
<1> QED
  BY <1>1, <1>2, <1>4, <1>5, <1>6, StepInv DEF old

LEMMA BuyerApproveInv ==
  ASSUME LoopInv, NEW j \in Jobs, BuyerApprove(j)
  PROVE  LoopInv'
<1> DEFINE old == jobs[j]
           job == [old EXCEPT !.status = "approved", !.approved = TRUE]
<1>1. /\ j \in Posted /\ old \in BuildJob /\ ~old.plain /\ old.status = "tested"
      /\ Latched(old) /\ Earned(old, j \in settlements)
  BY StatusIsPosted DEF BuyerApprove
<1>2. Set(j, job) /\ UNCHANGED <<escrows, settlements, deposited, refunded, releases, restarts>>
  BY DEF BuyerApprove
<1> HIDE DEF old
<1>3. /\ job \in BuildJob /\ job.status = "approved" /\ job.approved
      /\ job.plain = old.plain /\ job.votes = old.votes
      /\ job.artifact = old.artifact /\ job.test = old.test
  BY <1>1 DEF BuildJob, JobStatus
<1> HIDE DEF job
<1>4. Latched(job)
  BY <1>1, <1>3, LatchedCarries
<1>5. Earned(job, j \in settlements)
  BY <1>1, <1>3 DEF Earned
<1> QED
  BY <1>1, <1>2, <1>3, <1>4, <1>5, StepInv DEF old

\* The vote that decides is the last one.
LEMMA VoteLatches ==
  ASSUME NEW job \in BuildJob, Latched(job), job.status # "finalized", NEW valid \in BOOLEAN,
         NEW new, new.votes = Append(job.votes, valid),
         new.status = "finalized" <=> CheckValidatorConsensus(new.votes)
  PROVE  Latched(new)
<1> DEFINE v == job.votes
           w == new.votes
<1>1. v \in Seq(BOOLEAN)
  BY DEF BuildJob, Votes
<1>2. w \in Seq(BOOLEAN) /\ Len(w) = Len(v) + 1 /\ Len(v) \in Nat
  BY <1>1
<1>3. ~TwoThirdsValid(v) /\ \A n \in 0 .. Len(v) - 1 : ~TwoThirdsValid(SubSeq(v, 1, n))
  BY DEF Latched
<1>4. \A n \in 0 .. Len(v) : SubSeq(w, 1, n) = SubSeq(v, 1, n)
  BY <1>1
<1>5. SubSeq(v, 1, Len(v)) = v
  BY <1>1
<1>6. new.status = "finalized" <=> TwoThirdsValid(w)
  BY <1>2, ConsensusIsTwoThirds
<1> HIDE DEF v
<1>7. \A n \in 0 .. Len(w) - 1 : ~TwoThirdsValid(SubSeq(w, 1, n))
  <2> SUFFICES ASSUME NEW n \in 0 .. Len(w) - 1 PROVE ~TwoThirdsValid(SubSeq(w, 1, n))
    OBVIOUS
  <2>1. n \in 0 .. Len(v) /\ (n = Len(v) \/ n \in 0 .. Len(v) - 1)
    BY <1>2
  <2> QED
    BY <1>3, <1>4, <1>5, <2>1
<1> QED
  BY <1>6, <1>7 DEF Latched

LEMMA ValidatorVoteInv ==
  ASSUME LoopInv, NEW j \in Jobs, NEW valid \in BOOLEAN, ValidatorVote(j, valid)
  PROVE  LoopInv'
<1> DEFINE old == jobs[j]
           votes == Append(old.votes, valid)
           status == IF CheckValidatorConsensus(votes) THEN "finalized" ELSE old.status
           job == [old EXCEPT !.votes = votes, !.status = status]
<1>1. /\ j \in Posted /\ old \in BuildJob /\ ~old.plain /\ old.status = "paid"
      /\ Latched(old) /\ Earned(old, j \in settlements)
  BY StatusIsPosted DEF ValidatorVote
<1>2. Set(j, job) /\ UNCHANGED <<escrows, settlements, deposited, refunded, releases, restarts>>
  BY DEF ValidatorVote
<1>3. Len(old.votes) < MaxVotes
  BY DEF ValidatorVote
<1> HIDE DEF old
<1>4. votes \in Votes
  <2>1. old.votes \in Seq(BOOLEAN)
    BY <1>1 DEF BuildJob, Votes
  <2> QED
    BY <1>3, <2>1, LoopAssumption DEF Votes
<1>5. /\ status \in {"paid", "finalized"}
      /\ status = "finalized" <=> CheckValidatorConsensus(votes)
  BY <1>1
<1> HIDE DEF votes, status
<1>6. /\ job \in BuildJob /\ job.status = status /\ job.votes = votes
      /\ job.plain = old.plain /\ job.approved = old.approved
      /\ job.artifact = old.artifact /\ job.test = old.test
  BY <1>1, <1>4, <1>5 DEF BuildJob, JobStatus
<1> HIDE DEF job
<1>7. Latched(job)
  BY <1>1, <1>5, <1>6, VoteLatches DEF votes
<1>8. Earned(job, j \in settlements)
  BY <1>1, <1>5, <1>6 DEF Earned
<1> QED
  BY <1>1, <1>2, <1>6, <1>7, <1>8, StepInv DEF old

LEMMA SettlePaymentInv ==
  ASSUME LoopInv, NEW j \in Jobs, NEW r \in Receipt, SettlePayment(j, r)
  PROVE  LoopInv'
<1>1. /\ settlements' = settlements \cup {j}
      /\ settlements \subseteq settlements' /\ settlements' \subseteq Jobs /\ j \in settlements'
  BY DEF SettlePayment, LoopInv, LoopTypes
<1>2. UNCHANGED <<escrows, deposited, refunded, releases, restarts>>
  BY DEF SettlePayment
<1>3. CASE StatusIs(j, "approved")
  <2> DEFINE old == jobs[j]
             receipt == IF Verify(r) THEN "verified" ELSE "unverified"
             job == [old EXCEPT !.receipt = receipt, !.status = "paid"]
  <2>1. /\ j \in Posted /\ old \in BuildJob /\ ~old.plain /\ old.status = "approved"
        /\ Latched(old) /\ Earned(old, j \in settlements)
    BY <1>3, StatusIsPosted
  <2>2. Set(j, job)
    BY <1>3 DEF SettlePayment
  <2>3. receipt \in {"verified", "unverified"}
    OBVIOUS
  <2> HIDE DEF old, receipt
  <2>4. /\ job \in BuildJob /\ job.status = "paid"
        /\ job.plain = old.plain /\ job.votes = old.votes /\ job.approved = old.approved
        /\ job.artifact = old.artifact /\ job.test = old.test
    BY <2>1, <2>3 DEF BuildJob, JobStatus
  <2> HIDE DEF job
  <2>5. Latched(job)
    BY <2>1, <2>4, LatchedCarries
  <2>6. Earned(job, j \in settlements')
    BY <1>1, <2>1, <2>4 DEF Earned
  <2>7. ~job.plain /\ ~jobs[j].plain
    BY <2>1, <2>4 DEF old
  <2> QED
    BY <1>1, <1>2, <2>2, <2>4, <2>5, <2>6, <2>7, SetInv
<1>4. CASE ~StatusIs(j, "approved")
  <2>1. UNCHANGED <<jobs, jobFile>>
    BY <1>4 DEF SettlePayment
  <2>2. LoopTypes'
    BY <1>1, <1>2, <2>1 DEF LoopInv, LoopTypes, Board
  <2>3. JobsOK'
    BY <1>1, <2>1 DEF LoopInv, JobsOK, Earned, Posted
  <2>4. LoadedAsFiled' /\ ReleaseConditions' /\ MoneyConserved'
    BY <1>2, <2>1, MoneyUntouched DEF LoopInv, LoadedAsFiled, ReleaseConditions, Posted
  <2> QED
    BY <2>2, <2>3, <2>4 DEF LoopInv
<1> QED
  BY <1>3, <1>4

-----------------------------------------------------------------------------
(* The escrow *)

\* What the releases in s paid out for job j, one entry per release.
PaidOut(s, j) == [i \in DOMAIN s |-> IF s[i].job = j THEN s[i].amount ELSE 0]

LEMMA PaidOutType ==
  ASSUME NEW s \in Releases, NEW j
  PROVE  PaidOut(s, j) \in Seq(Nat)
<1>1. s \in Seq(ReleaseRecord) /\ DOMAIN s = 1 .. Len(s) /\ Len(s) \in Nat
  BY DEF Releases
<1>2. \A i \in 1 .. Len(s) : s[i] \in ReleaseRecord
  BY <1>1
<1>3. \A i \in 1 .. Len(s) : s[i].amount \in Nat
  BY <1>2, LoopAssumption DEF ReleaseRecord
<1>4. PaidOut(s, j) \in [1 .. Len(s) -> Nat]
  BY <1>1, <1>3 DEF PaidOut
<1> QED
  BY <1>1, <1>4

\* A release adds its amount to what its own job was paid.
LEMMA PaidOutAppend ==
  ASSUME NEW s \in Releases, NEW r \in ReleaseRecord, NEW j
  PROVE  /\ SumOf(PaidOut(Append(s, r), j))
              = SumOf(PaidOut(s, j)) + IF r.job = j THEN r.amount ELSE 0
         /\ SumOf(PaidOut(s, j)) \in Nat
         /\ Append(s, r) \in Releases
<1> DEFINE x == IF r.job = j THEN r.amount ELSE 0
           p == PaidOut(s, j)
<1>1. s \in Seq(ReleaseRecord) /\ DOMAIN s = 1 .. Len(s) /\ Len(s) \in Nat
  BY DEF Releases
<1>2. p \in Seq(Nat) /\ x \in Nat
  BY PaidOutType, LoopAssumption DEF ReleaseRecord
<1>3. DOMAIN p = DOMAIN s
  BY DEF PaidOut
<1>4. PaidOut(Append(s, r), j) = Append(p, x)
  <2> DEFINE t == Append(s, r)
             u == Append(p, x)
  <2>1. /\ DOMAIN t = 1 .. Len(s) + 1 /\ t[Len(s) + 1] = r
        /\ \A i \in 1 .. Len(s) : t[i] = s[i]
    BY <1>1
  <2>2. Len(p) = Len(s)
    BY <1>1, <1>2, <1>3
  <2>3. /\ u \in Seq(Nat) /\ DOMAIN u = 1 .. Len(s) + 1 /\ u[Len(s) + 1] = x
        /\ \A i \in 1 .. Len(s) : u[i] = p[i]
    BY <1>2, <2>2
  <2>4. u = [i \in DOMAIN u |-> u[i]]
    BY <2>3
  <2>5. \A i \in 1 .. Len(s) : p[i] = IF s[i].job = j THEN s[i].amount ELSE 0
    BY <1>1 DEF PaidOut
  <2> HIDE DEF t, u, p
  <2>6. ASSUME NEW i \in 1 .. Len(s) + 1
        PROVE  (IF t[i].job = j THEN t[i].amount ELSE 0) = u[i]
    <3>1. i \in 1 .. Len(s) \/ i = Len(s) + 1
      BY <1>1
    <3> QED
      BY <2>1, <2>3, <2>5, <3>1
  <2>7. PaidOut(t, j) = [i \in DOMAIN t |-> IF t[i].job = j THEN t[i].amount ELSE 0]
    BY DEF PaidOut
  <2>8. PaidOut(t, j) = u
    BY <2>1, <2>3, <2>4, <2>6, <2>7
  <2> QED
    BY <2>8 DEF t, u
<1> HIDE DEF x, p
<1>5. SumOf(Append(p, x)) = SumOf(p) + x /\ SumOf(p) \in Nat
  BY <1>2, SumAppend
<1>6. Append(s, r) \in Releases
  BY <1>1 DEF Releases
<1> QED
  BY <1>4, <1>5, <1>6 DEF x, p

\* Amounts are natural numbers of cents.
LEMMA DepositsType ==
  ASSUME NEW s \in Deposits
  PROVE  s \in Seq(Nat) /\ s \in Seq(Amounts)
<1>1. s \in Seq(Amounts) /\ Len(s) \in Nat /\ DOMAIN s = 1 .. Len(s)
  BY DEF Deposits
<1>2. \A i \in 1 .. Len(s) : s[i] \in Nat
  <2>1. \A i \in 1 .. Len(s) : s[i] \in Amounts
    BY <1>1
  <2>2. \A x \in Amounts : x \in Nat
    BY LoopAssumption
  <2> QED
    BY <2>1, <2>2
<1>3. s = [i \in 1 .. Len(s) |-> s[i]]
  BY <1>1
<1>4. s \in [1 .. Len(s) -> Nat]
  BY <1>2, <1>3
<1> QED
  BY <1>1, <1>4

\* The three amounts that make up a job's money, and their sum.
LEMMA MoneyTypes ==
  ASSUME LoopTypes, NEW j \in Jobs
  PROVE  /\ ReleasedTo(j) = SumOf(PaidOut(releases, j)) /\ ReleasedTo(j) \in Nat
         /\ refunded[j] \in Nat
         /\ InEscrow(j) \in Nat
         /\ SumOf(deposited[j]) \in Nat
<1>1. ReleasedTo(j) = SumOf(PaidOut(releases, j))
  BY DEF ReleasedTo, PaidOut
<1>2. PaidOut(releases, j) \in Seq(Nat)
  BY PaidOutType DEF LoopTypes
<1>3. SumOf(PaidOut(releases, j)) \in Nat
  <2>1. 0 \in Nat
    OBVIOUS
  <2> QED
    BY <1>2, <2>1, SumAppend
<1>4. InEscrow(j) \in Nat
  BY LoopAssumption DEF InEscrow, LoopTypes, Escrow
<1>5. deposited[j] \in Seq(Nat)
  BY DepositsType DEF LoopTypes
<1>6. SumOf(deposited[j]) \in Nat
  <2>1. 0 \in Nat
    OBVIOUS
  <2> QED
    BY <1>5, <2>1, SumAppend
<1> QED
  BY <1>1, <1>3, <1>4, <1>6 DEF LoopTypes

\* An escrow that is held.
LEMMA HeldEscrow ==
  ASSUME LoopTypes, NEW j, Held(j)
  PROVE  /\ j \in DOMAIN escrows /\ j \in Jobs /\ escrows[j] \in Escrow
         /\ escrows[j].amount \in Amounts /\ escrows[j].amount \in Nat
         /\ InEscrow(j) = escrows[j].amount
<1>1. /\ j \in DOMAIN escrows /\ j \in Jobs /\ escrows[j] \in Escrow
      /\ escrows[j].state = "held"
  BY DEF Held, LoopTypes
<1> QED
  BY <1>1, LoopAssumption DEF InEscrow, Escrow

\* An escrow that leaves the held state keeps the types; released or refunded
\* it no longer counts, frozen it still does.
LEMMA EscrowMoves ==
  ASSUME LoopTypes, NEW j, Held(j), NEW st \in EscrowState \ {"held"},
         escrows' = [escrows EXCEPT ![j].state = st]
  PROVE  /\ DOMAIN escrows' \subseteq Jobs /\ escrows' \in [DOMAIN escrows' -> Escrow]
         /\ InEscrow(j)' = IF st = "frozen" THEN escrows[j].amount ELSE 0
         /\ \A k \in Jobs : k # j => InEscrow(k)' = InEscrow(k)
<1>1. j \in DOMAIN escrows /\ j \in Jobs /\ escrows[j] \in Escrow
  BY HeldEscrow
<1> DEFINE e == [escrows[j] EXCEPT !.state = st]
<1>2. escrows' = [escrows EXCEPT ![j] = e]
  BY <1>1
<1>3. e \in Escrow /\ e.state = st /\ e.amount = escrows[j].amount
  BY <1>1 DEF Escrow
<1> HIDE DEF e
<1>4. /\ DOMAIN escrows' = DOMAIN escrows /\ escrows'[j] = e
      /\ \A k \in DOMAIN escrows : k # j => escrows'[k] = escrows[k]
      /\ escrows' \in [DOMAIN escrows -> Escrow]
  BY <1>1, <1>2, <1>3 DEF LoopTypes
<1>5. InEscrow(j)' = IF st = "frozen" THEN escrows[j].amount ELSE 0
  BY <1>1, <1>3, <1>4 DEF InEscrow, EscrowState
<1>6. \A k \in Jobs : k # j => InEscrow(k)' = InEscrow(k)
  BY <1>4 DEF InEscrow
<1> QED
  BY <1>4, <1>5, <1>6 DEF LoopTypes

\* A step that leaves the board, the file and the settlements alone.
LEMMA BoardUntouched ==
  ASSUME LoopInv, UNCHANGED <<jobs, jobFile, settlements>>
  PROVE  JobsOK' /\ LoadedAsFiled' /\ Board(jobs') /\ Board(jobFile'.jobs)
BY DEF LoopInv, LoopTypes, Board, JobsOK, LoadedAsFiled, Posted

LEMMA DepositEscrowInv ==
  ASSUME LoopInv, NEW j \in Jobs, NEW amount \in Amounts, DepositEscrow(j, amount)
  PROVE  LoopInv'
<1> DEFINE e == [builder |-> jobs[j].builder, amount |-> amount, state |-> "held"]
<1>1. LoopTypes /\ MoneyConserved /\ ReleaseConditions /\ j \in Posted
  BY DEF LoopInv, DepositEscrow
<1>2. e \in Escrow
  BY <1>1 DEF LoopTypes, Board, Posted, BuildJob, Escrow, EscrowState
<1>3. /\ escrows' = Put(escrows, j, e)
      /\ deposited' = [deposited EXCEPT ![j] = Append(@, amount)]
      /\ UNCHANGED <<jobs, jobFile, settlements, refunded, releases, restarts>>
  BY DEF DepositEscrow
<1>4. e.amount = amount /\ e.state = "held" /\ amount \in Nat
  BY LoopAssumption
<1> HIDE DEF e
<1>5. /\ DOMAIN escrows' = DOMAIN escrows \cup {j} /\ escrows'[j] = e
      /\ \A k \in DOMAIN escrows : k # j => escrows'[k] = escrows[k]
      /\ escrows' \in [DOMAIN escrows \cup {j} -> Escrow]
  BY <1>1, <1>2, <1>3 DEF Put, LoopTypes
<1>6. deposited[j] \in Seq(Amounts) /\ deposited[j] \in Seq(Nat)
  BY <1>1, DepositsType DEF LoopTypes
<1> DEFINE d == Append(deposited[j], amount)
<1>7. d \in Deposits
  BY <1>6 DEF Deposits
<1>8. SumOf(d) = SumOf(deposited[j]) + amount
  BY <1>4, <1>6, SumAppend
<1>9. deposited' = [deposited EXCEPT ![j] = d]
  BY <1>3
<1> HIDE DEF d
<1>10. /\ deposited' \in [Jobs -> Deposits] /\ deposited'[j] = d
       /\ \A k \in Jobs : k # j => deposited'[k] = deposited[k]
  BY <1>1, <1>7, <1>9 DEF LoopTypes
<1>11. LoopTypes'
  BY <1>1, <1>3, <1>5, <1>10 DEF LoopTypes, Board
<1>12. MoneyConserved'
  <2> SUFFICES ASSUME NEW k \in Jobs
               PROVE  ReleasedTo(k)' + refunded'[k] + InEscrow(k)' <= SumOf(deposited'[k])
    BY DEF MoneyConserved
  <2>1. /\ ReleasedTo(k) \in Nat /\ refunded[k] \in Nat /\ InEscrow(k) \in Nat
        /\ SumOf(deposited[k]) \in Nat
    BY <1>1, MoneyTypes
  <2>2. ReleasedTo(k) + refunded[k] + InEscrow(k) <= SumOf(deposited[k])
    BY <1>1 DEF MoneyConserved
  <2>3. ReleasedTo(k)' = ReleasedTo(k) /\ refunded'[k] = refunded[k]
    BY <1>3 DEF ReleasedTo
  <2>4. CASE k = j
    <3>1. InEscrow(k)' = amount
      BY <1>4, <1>5, <2>4 DEF InEscrow
    <3> QED
      BY <1>4, <1>8, <1>10, <2>1, <2>2, <2>3, <2>4, <3>1
  <2>5. CASE k # j
    <3>1. InEscrow(k)' = InEscrow(k)
      BY <1>5, <2>5 DEF InEscrow
    <3> QED
      BY <1>10, <2>2, <2>3, <2>5, <3>1
  <2> QED
    BY <2>4, <2>5
<1>13. ReleaseConditions'
  BY <1>1, <1>3 DEF ReleaseConditions
<1> QED
  BY <1>3, <1>11, <1>12, <1>13, BoardUntouched DEF LoopInv

\* The money of one job after a step, when every job's is known to fit before.
LEMMA MoneyFits ==
  ASSUME LoopTypes, MoneyConserved, NEW k \in Jobs,
         NEW r \in Int, NEW f \in Int, NEW e \in Int,
         r + f + e <= ReleasedTo(k) + refunded[k] + InEscrow(k)
  PROVE  r + f + e <= SumOf(deposited[k])
<1>1. /\ ReleasedTo(k) \in Nat /\ refunded[k] \in Nat /\ InEscrow(k) \in Nat
      /\ SumOf(deposited[k]) \in Nat
  BY MoneyTypes
<1>2. ReleasedTo(k) + refunded[k] + InEscrow(k) <= SumOf(deposited[k])
  BY DEF MoneyConserved
<1> QED
  BY <1>1, <1>2

LEMMA ReleaseInv ==
  ASSUME LoopInv, NEW j \in Jobs, ReleaseAndDistribute(j)
  PROVE  LoopInv'
<1>1. LoopTypes /\ MoneyConserved /\ ReleaseConditions
  BY DEF LoopInv
<1>2. /\ Held(j) /\ escrows' = [escrows EXCEPT ![j].state = "released"]
      /\ UNCHANGED <<jobs, jobFile, settlements, deposited, refunded, restarts>>
  BY DEF ReleaseAndDistribute, MarkReleased
<1>3. PICK d \in Distributions(escrows[j].amount) :
        releases' = Append(releases,
          [job |-> j, amount |-> escrows[j].amount, distribution |-> d,
           artifact_hash |-> jobs[j].artifact, test_passed |-> jobs[j].test = "passed",
           buyer_approved |-> jobs[j].approved, settlement_confirmed |-> j \in settlements,
           votes |-> jobs[j].votes])
  BY DEF ReleaseAndDistribute
<1> DEFINE a == escrows[j].amount
           job == jobs[j]
           r == [job |-> j, amount |-> a, distribution |-> d,
                 artifact_hash |-> job.artifact, test_passed |-> job.test = "passed",
                 buyer_approved |-> job.approved, settlement_confirmed |-> j \in settlements,
                 votes |-> job.votes]
<1>4. /\ job \in BuildJob /\ ~job.plain /\ job.status = "finalized"
      /\ Latched(job) /\ Earned(job, j \in settlements)
  BY StatusIsPosted DEF ReleaseAndDistribute
<1>5. a \in Amounts /\ a \in Nat /\ InEscrow(j) = a
  BY <1>1, <1>2, HeldEscrow
<1>6. releases' = Append(releases, r)
  BY <1>3
<1> HIDE DEF a, job
<1>7. /\ job.artifact /\ job.test = "passed" /\ job.approved /\ j \in settlements
      /\ TwoThirdsValid(job.votes)
  BY <1>4 DEF Earned, Latched
<1>8. job.artifact \in BOOLEAN /\ job.approved \in BOOLEAN /\ job.votes \in Votes
  BY <1>4 DEF BuildJob
<1>9. d \in UNION {Distributions(x) : x \in Amounts}
  BY <1>3, <1>5 DEF a
<1>10. /\ r \in ReleaseRecord /\ r.job = j /\ r.amount = a
       /\ r.artifact_hash /\ r.test_passed /\ r.buyer_approved /\ r.settlement_confirmed
       /\ TwoThirdsValid(r.votes)
  BY <1>5, <1>7, <1>8, <1>9 DEF ReleaseRecord
<1> HIDE DEF r
<1>11. releases \in Releases
  BY <1>1 DEF LoopTypes
<1>12. releases' \in Releases
  BY <1>6, <1>10, <1>11, PaidOutAppend
<1>13. ReleaseConditions'
  <2> SUFFICES ASSUME NEW i \in DOMAIN releases'
               PROVE  /\ releases'[i].artifact_hash /\ releases'[i].test_passed
                      /\ releases'[i].buyer_approved /\ releases'[i].settlement_confirmed
                      /\ TwoThirdsValid(releases'[i].votes)
    BY DEF ReleaseConditions
  <2>1. releases'[i] = r \/ (i \in DOMAIN releases /\ releases'[i] = releases[i])
    BY <1>6, <1>11 DEF Releases
  <2> QED
    BY <1>1, <1>10, <2>1 DEF ReleaseConditions
<1>14. /\ DOMAIN escrows' \subseteq Jobs /\ escrows' \in [DOMAIN escrows' -> Escrow]
       /\ InEscrow(j)' = 0
       /\ \A k \in Jobs : k # j => InEscrow(k)' = InEscrow(k)
  <2>1. "released" \in EscrowState \ {"held"}
    BY DEF EscrowState
  <2> QED
    BY <1>1, <1>2, <2>1, EscrowMoves
<1>15. LoopTypes'
  BY <1>1, <1>2, <1>12, <1>14 DEF LoopTypes, Board
<1>16. MoneyConserved'
  <2>1. \A k \in Jobs : ReleasedTo(k)' = ReleasedTo(k) + IF k = j THEN a ELSE 0
    <3> SUFFICES ASSUME NEW k \in Jobs
                 PROVE  ReleasedTo(k)' = ReleasedTo(k) + IF k = j THEN a ELSE 0
      OBVIOUS
    <3>1. SumOf(PaidOut(Append(releases, r), k))
            = SumOf(PaidOut(releases, k)) + IF r.job = k THEN r.amount ELSE 0
      BY <1>10, <1>11, PaidOutAppend
    <3>2. ReleasedTo(k) = SumOf(PaidOut(releases, k)) /\ ReleasedTo(k)' = SumOf(PaidOut(releases', k))
      BY DEF ReleasedTo, PaidOut
    <3> QED
      BY <1>6, <1>10, <3>1, <3>2
  <2> SUFFICES ASSUME NEW k \in Jobs
               PROVE  ReleasedTo(k)' + refunded'[k] + InEscrow(k)' <= SumOf(deposited'[k])
    BY DEF MoneyConserved
  <2>2. ReleasedTo(k) \in Nat /\ refunded[k] \in Nat /\ InEscrow(k) \in Nat
    BY <1>1, MoneyTypes
  <2>3. /\ refunded'[k] = refunded[k] /\ deposited'[k] = deposited[k]
        /\ InEscrow(k)' = IF k = j THEN 0 ELSE InEscrow(k)
    BY <1>2, <1>14
  <2>4. (ReleasedTo(k) + IF k = j THEN a ELSE 0) + refunded[k] + (IF k = j THEN 0 ELSE InEscrow(k))
          <= SumOf(deposited[k])
    BY <1>1, <1>5, <2>2, MoneyFits
  <2> QED
    BY <2>1, <2>3, <2>4
<1> QED
  BY <1>2, <1>13, <1>15, <1>16, BoardUntouched DEF LoopInv

LEMMA RefundInv ==
  ASSUME LoopInv, NEW j \in Jobs, Refund(j)
  PROVE  LoopInv'
<1> DEFINE a == escrows[j].amount
<1>1. LoopTypes /\ MoneyConserved /\ ReleaseConditions
  BY DEF LoopInv
<1>2. /\ Held(j) /\ escrows' = [escrows EXCEPT ![j].state = "refunded"]
      /\ refunded' = [refunded EXCEPT ![j] = @ + a]
      /\ UNCHANGED <<jobs, jobFile, settlements, deposited, releases, restarts>>
  BY DEF Refund
<1>3. a \in Nat /\ InEscrow(j) = a
  BY <1>1, <1>2, HeldEscrow
<1> HIDE DEF a
<1>4. /\ DOMAIN escrows' \subseteq Jobs /\ escrows' \in [DOMAIN escrows' -> Escrow]
      /\ InEscrow(j)' = 0
      /\ \A k \in Jobs : k # j => InEscrow(k)' = InEscrow(k)
  <2>1. "refunded" \in EscrowState \ {"held"}
    BY DEF EscrowState
  <2> QED
    BY <1>1, <1>2, <2>1, EscrowMoves
<1>5. /\ refunded' \in [Jobs -> Nat]
      /\ \A k \in Jobs : refunded'[k] = refunded[k] + IF k = j THEN a ELSE 0
  BY <1>1, <1>2, <1>3 DEF LoopTypes
<1>6. LoopTypes'
  BY <1>1, <1>2, <1>4, <1>5 DEF LoopTypes, Board
<1>7. MoneyConserved'
  <2> SUFFICES ASSUME NEW k \in Jobs
               PROVE  ReleasedTo(k)' + refunded'[k] + InEscrow(k)' <= SumOf(deposited'[k])
    BY DEF MoneyConserved
  <2>1. ReleasedTo(k) \in Nat /\ refunded[k] \in Nat /\ InEscrow(k) \in Nat
    BY <1>1, MoneyTypes
  <2>2. /\ ReleasedTo(k)' = ReleasedTo(k) /\ deposited'[k] = deposited[k]
        /\ InEscrow(k)' = IF k = j THEN 0 ELSE InEscrow(k)
    BY <1>2, <1>4 DEF ReleasedTo
  <2>3. ReleasedTo(k) + (refunded[k] + IF k = j THEN a ELSE 0) + (IF k = j THEN 0 ELSE InEscrow(k))
          <= SumOf(deposited[k])
    BY <1>1, <1>3, <2>1, MoneyFits
  <2> QED
    BY <1>5, <2>2, <2>3
<1>8. ReleaseConditions'
  BY <1>1, <1>2 DEF ReleaseConditions
<1> QED
  BY <1>2, <1>6, <1>7, <1>8, BoardUntouched DEF LoopInv

LEMMA FreezeInv ==
  ASSUME LoopInv, NEW j \in Jobs, Freeze(j)
  PROVE  LoopInv'
<1> DEFINE a == escrows[j].amount
<1>1. LoopTypes /\ MoneyConserved /\ ReleaseConditions
  BY DEF LoopInv
<1>2. /\ Held(j) /\ escrows' = [escrows EXCEPT ![j].state = "frozen"]
      /\ UNCHANGED <<jobs, jobFile, settlements, deposited, refunded, releases, restarts>>
  BY DEF Freeze
<1>3. a \in Nat /\ InEscrow(j) = a
  BY <1>1, <1>2, HeldEscrow
<1>4. /\ DOMAIN escrows' \subseteq Jobs /\ escrows' \in [DOMAIN escrows' -> Escrow]
      /\ InEscrow(j)' = a
      /\ \A k \in Jobs : k # j => InEscrow(k)' = InEscrow(k)
  <2>1. "frozen" \in EscrowState \ {"held"}
    BY DEF EscrowState
  <2> QED
    BY <1>1, <1>2, <2>1, EscrowMoves
<1>5. LoopTypes'
  BY <1>1, <1>2, <1>4 DEF LoopTypes, Board
<1>6. \A k \in Jobs : InEscrow(k)' = InEscrow(k) /\ ReleasedTo(k)' = ReleasedTo(k)
  BY <1>2, <1>3, <1>4 DEF ReleasedTo
<1>7. MoneyConserved'
  BY <1>1, <1>2, <1>6 DEF MoneyConserved
<1>8. ReleaseConditions'
  BY <1>1, <1>2 DEF ReleaseConditions
<1> QED
  BY <1>2, <1>5, <1>7, <1>8, BoardUntouched DEF LoopInv

-----------------------------------------------------------------------------
(* Restart and the theorems *)

LEMMA LoopInitInv == Init => LoopInv
<1> SUFFICES ASSUME Init PROVE LoopInv
  OBVIOUS
<1>1. DOMAIN jobs = {} /\ DOMAIN jobFile.jobs = {} /\ DOMAIN escrows = {} /\ DOMAIN releases = {}
  BY DEF Init, Empty
<1>2. Board(jobs) /\ Board(jobFile.jobs) /\ escrows \in [DOMAIN escrows -> Escrow]
  BY DEF Init, Empty, Board
<1>3. /\ jobFile = [jobs |-> jobFile.jobs, torn |-> jobFile.torn] /\ jobFile.torn \in BOOLEAN
      /\ settlements = {} /\ refunded \in [Jobs -> Nat] /\ restarts \in 0 .. MaxRestarts
  BY LoopAssumption DEF Init
<1>4. deposited \in [Jobs -> Deposits] /\ releases \in Releases
  <2>1. <<>> \in Deposits /\ <<>> \in Releases
    BY DEF Deposits, Releases
  <2> QED
    BY <2>1 DEF Init
<1>5. LoopTypes
  BY <1>1, <1>2, <1>3, <1>4 DEF LoopTypes
<1>6. JobsOK /\ LoadedAsFiled /\ ReleaseConditions
  BY <1>1 DEF JobsOK, LoadedAsFiled, ReleaseConditions, Posted
<1>7. MoneyConserved
  <2> SUFFICES ASSUME NEW j \in Jobs
               PROVE  ReleasedTo(j) + refunded[j] + InEscrow(j) <= SumOf(deposited[j])
    BY DEF MoneyConserved
  <2>1. SumOf(<<>>) = 0
    BY SumEmpty DEF SumOf
  <2>2. PaidOut(releases, j) = <<>>
    BY DEF Init, PaidOut
  <2>3. ReleasedTo(j) = 0 /\ refunded[j] = 0 /\ InEscrow(j) = 0 /\ SumOf(deposited[j]) = 0
    BY <1>1, <1>5, <2>1, <2>2, MoneyTypes DEF Init, InEscrow
  <2> QED
    BY <2>3
<1> QED
  BY <1>5, <1>6, <1>7 DEF LoopInv

\* A restart: every job on the board is one the file had, with its votes.
LEMMA RestartInv ==
  ASSUME LoopInv, NEW tornJobs \in BOOLEAN, NEW tornEscrows \in BOOLEAN,
         Restart(tornJobs, tornEscrows)
  PROVE  LoopInv'
<1> DEFINE filed == jobFile.jobs
<1>1. LoopTypes /\ JobsOK /\ MoneyConserved /\ ReleaseConditions
  BY DEF LoopInv
<1>2. /\ jobFile' = [jobFile EXCEPT !.torn = @ \/ tornJobs]
      /\ jobs' = [j \in DOMAIN filed |-> Load(filed[j])]
      /\ settlements' = {} /\ restarts' \in 0 .. MaxRestarts
      /\ UNCHANGED <<deposited, refunded, releases>>
  BY <1>1, LoopAssumption DEF Restart, LoopTypes
<1>3. escrows' = escrows \/ escrows' = Empty
  BY DEF Restart
<1>4. /\ jobFile'.jobs = filed /\ jobFile'.torn \in BOOLEAN
      /\ jobFile' = [jobs |-> jobFile'.jobs, torn |-> jobFile'.torn]
  BY <1>1, <1>2 DEF LoopTypes
<1>5. Board(filed) /\ \A j \in DOMAIN filed : filed[j] \in BuildJob /\ Latched(filed[j])
  BY <1>1 DEF LoopTypes, JobsOK, Board
<1> HIDE DEF filed
<1>6. DOMAIN jobs' = DOMAIN filed /\ \A j \in DOMAIN filed : jobs'[j] = Load(filed[j])
  BY <1>2
<1>7. \A j \in DOMAIN filed : Load(filed[j]) \in BuildJob /\ Latched(Load(filed[j])) /\ Load(filed[j]).plain
  BY <1>5, SavedLoaded
<1>8. Board(jobs')
  <2>1. jobs' \in [DOMAIN filed -> BuildJob]
    BY <1>2, <1>7
  <2> QED
    BY <1>5, <1>6, <2>1 DEF Board
<1>9. DOMAIN escrows' \subseteq Jobs /\ escrows' \in [DOMAIN escrows' -> Escrow]
  BY <1>1, <1>3 DEF LoopTypes, Empty
<1>10. LoopTypes'
  BY <1>1, <1>2, <1>4, <1>5, <1>8, <1>9 DEF LoopTypes
<1>11. JobsOK'
  BY <1>4, <1>5, <1>6, <1>7 DEF JobsOK, Earned, Posted
<1>12. LoadedAsFiled'
  BY <1>4, <1>6 DEF LoadedAsFiled, Posted
<1>13. ReleaseConditions'
  BY <1>1, <1>2 DEF ReleaseConditions
<1>14. MoneyConserved'
  <2> SUFFICES ASSUME NEW k \in Jobs
               PROVE  ReleasedTo(k)' + refunded'[k] + InEscrow(k)' <= SumOf(deposited'[k])
    BY DEF MoneyConserved
  <2>1. ReleasedTo(k) \in Nat /\ refunded[k] \in Nat /\ InEscrow(k) \in Nat
    BY <1>1, MoneyTypes
  <2>2. ReleasedTo(k)' = ReleasedTo(k) /\ refunded'[k] = refunded[k] /\ deposited'[k] = deposited[k]
    BY <1>2 DEF ReleasedTo
  <2>3. InEscrow(k)' = InEscrow(k) \/ InEscrow(k)' = 0
    BY <1>3 DEF InEscrow, Empty
  <2>4. /\ ReleasedTo(k) + refunded[k] + InEscrow(k) <= SumOf(deposited[k])
        /\ ReleasedTo(k) + refunded[k] + 0 <= SumOf(deposited[k])
    <3>1. ReleasedTo(k) + refunded[k] + InEscrow(k) <= SumOf(deposited[k]) /\ SumOf(deposited[k]) \in Nat
      BY <1>1, MoneyTypes DEF MoneyConserved
    <3> QED
      BY <2>1, <3>1
  <2> QED
    BY <2>2, <2>3, <2>4
<1> QED
  BY <1>10, <1>11, <1>12, <1>13, <1>14 DEF LoopInv

LEMMA LoopNextInv == LoopInv /\ [Next]_vars => LoopInv'
<1> SUFFICES ASSUME LoopInv, [Next]_vars PROVE LoopInv'
  OBVIOUS
<1>1. ASSUME NEW j \in Jobs, PostJob(j) PROVE LoopInv'
  BY <1>1, PostJobInv
<1>2. ASSUME NEW j \in Jobs, NEW b \in Builders, ClaimAndBuild(j, b) PROVE LoopInv'
  BY <1>2, ClaimAndBuildInv
<1>3. ASSUME NEW j \in Jobs, NEW passed \in BOOLEAN, RunTests(j, passed) PROVE LoopInv'
  BY <1>3, RunTestsInv
<1>4. ASSUME NEW j \in Jobs, BuyerApprove(j) PROVE LoopInv'
  BY <1>4, BuyerApproveInv
<1>5. ASSUME NEW j \in Jobs, NEW r \in Receipt, SettlePayment(j, r) PROVE LoopInv'
  BY <1>5, SettlePaymentInv
<1>6. ASSUME NEW j \in Jobs, NEW valid \in BOOLEAN, ValidatorVote(j, valid) PROVE LoopInv'
  BY <1>6, ValidatorVoteInv
<1>7. ASSUME NEW j \in Jobs, NEW a \in Amounts, DepositEscrow(j, a) PROVE LoopInv'
  BY <1>7, DepositEscrowInv
<1>8. ASSUME NEW j \in Jobs, ReleaseAndDistribute(j) PROVE LoopInv'
  BY <1>8, ReleaseInv
<1>9. ASSUME NEW j \in Jobs, Refund(j) PROVE LoopInv'
  BY <1>9, RefundInv
<1>10. ASSUME NEW j \in Jobs, Freeze(j) PROVE LoopInv'
  BY <1>10, FreezeInv
<1>11. ASSUME NEW tornJobs \in BOOLEAN, NEW tornEscrows \in BOOLEAN, Restart(tornJobs, tornEscrows)
       PROVE  LoopInv'
  BY <1>11, RestartInv
<1>12. CASE UNCHANGED vars
  <2>1. UNCHANGED <<jobs, jobFile, escrows, settlements, deposited, refunded, releases, restarts>>
    BY <1>12 DEF vars
  <2>2. LoopTypes' /\ ReleaseConditions'
    BY <2>1 DEF LoopInv, LoopTypes, Board, ReleaseConditions
  <2> QED
    BY <2>1, <2>2, BoardUntouched, MoneyUntouched DEF LoopInv
<1> QED
  BY <1>1, <1>2, <1>3, <1>4, <1>5, <1>6, <1>7, <1>8, <1>9, <1>10, <1>11, <1>12 DEF Next

\* In every reachable state the board, its file, the escrows and the histories
\* agree as the inductive invariant says.
THEOREM LoopInvariant == Spec => []LoopInv
<1>1. Init => LoopInv
  BY LoopInitInv
<1>2. LoopInv /\ [Next]_vars => LoopInv'
  BY LoopNextInv
<1> QED
  BY <1>1, <1>2, PTL DEF Spec

\* No release without artifact, passing tests, approval, settlement and the
\* validators' two thirds, over any number of restarts and deposits
\* (release_and_distribute, EscrowManager.release).
THEOREM ReleasesAreEarned == Spec => []ReleaseConditions
<1>1. LoopInv => ReleaseConditions
  BY DEF LoopInv
<1> QED
  BY <1>1, LoopInvariant, PTL

\* What a job's escrow released, refunded and holds was deposited, though
\* deposits overwrite escrows and restarts lose them (EscrowManager).
THEOREM EscrowConserves == Spec => []MoneyConserved
<1>1. LoopInv => MoneyConserved
  BY DEF LoopInv
<1> QED
  BY <1>1, LoopInvariant, PTL

\* The vote that reaches two thirds is the last one, in memory and after any
\* restart (validator_vote, _check_validator_consensus).
THEOREM ConsensusIsLast == Spec => []ConsensusLatched
<1>1. LoopInv => ConsensusLatched
  BY DEF LoopInv, JobsOK, Latched, ConsensusLatched
<1> QED
  BY <1>1, LoopInvariant, PTL

\* A job that was read back is never changed again, and the file stays as it is
\* while such a job is on the board (_load, _persist).
THEOREM LoadFreezes == Spec => FrozenAfterLoad
<1> DEFINE Step == PersistRaises => /\ jobFile'.jobs = jobFile.jobs
                                    /\ \A j \in Posted : jobs[j].plain => jobs'[j] = jobs[j]
<1>1. LoopInv /\ [Next]_vars => [Step]_vars
  <2> SUFFICES ASSUME LoopInv, Next, PersistRaises
               PROVE  /\ jobFile'.jobs = jobFile.jobs
                      /\ \A j \in Posted : jobs[j].plain => jobs'[j] = jobs[j]
    OBVIOUS
  <2> DEFINE Goal == /\ jobFile'.jobs = jobFile.jobs
                     /\ \A j \in Posted : jobs[j].plain => jobs'[j] = jobs[j]
  <2>1. LoopTypes /\ LoadedAsFiled
    BY DEF LoopInv
  <2>2. ASSUME NEW j \in Jobs, NEW job, Set(j, job), j \in Posted => ~jobs[j].plain
        PROVE  Goal
    BY <2>2 DEF Set, Update, Put, Posted
  <2>3. UNCHANGED <<jobs, jobFile>> => Goal
    OBVIOUS
  <2> HIDE DEF Goal
  <2>4. ASSUME NEW j \in Jobs, PostJob(j) PROVE Goal
    BY <2>2, <2>4 DEF PostJob
  <2>5. ASSUME NEW j \in Jobs, NEW b \in Builders, ClaimAndBuild(j, b) PROVE Goal
    BY <2>2, <2>5 DEF ClaimAndBuild, StatusIs
  <2>6. ASSUME NEW j \in Jobs, NEW passed \in BOOLEAN, RunTests(j, passed) PROVE Goal
    BY <2>2, <2>6 DEF RunTests, StatusIs
  <2>7. ASSUME NEW j \in Jobs, BuyerApprove(j) PROVE Goal
    BY <2>2, <2>7 DEF BuyerApprove, StatusIs
  <2>8. ASSUME NEW j \in Jobs, NEW r \in Receipt, SettlePayment(j, r) PROVE Goal
    BY <2>2, <2>3, <2>8 DEF SettlePayment, StatusIs
  <2>9. ASSUME NEW j \in Jobs, NEW valid \in BOOLEAN, ValidatorVote(j, valid) PROVE Goal
    BY <2>2, <2>9 DEF ValidatorVote, StatusIs
  <2>10. ASSUME NEW j \in Jobs,
                \/ \E a \in Amounts : DepositEscrow(j, a)
                \/ ReleaseAndDistribute(j) \/ Refund(j) \/ Freeze(j)
         PROVE  Goal
    <3>1. UNCHANGED <<jobs, jobFile>>
      BY <2>10 DEF DepositEscrow, ReleaseAndDistribute, Refund, Freeze
    <3> QED
      BY <2>3, <3>1
  <2>11. ASSUME NEW tornJobs \in BOOLEAN, NEW tornEscrows \in BOOLEAN, Restart(tornJobs, tornEscrows)
         PROVE  Goal
    <3>1. jobFile' = [jobFile EXCEPT !.torn = @ \/ tornJobs]
      BY <2>11 DEF Restart
    <3>2. jobFile'.jobs = jobFile.jobs
      BY <2>1, <3>1 DEF LoopTypes
    <3>3. \A j \in DOMAIN jobFile.jobs : jobs'[j] = Load(jobFile.jobs[j])
      BY <2>11 DEF Restart
    <3> QED
      BY <2>1, <3>2, <3>3 DEF LoadedAsFiled, Goal
  <2>12. Goal
    BY <2>4, <2>5, <2>6, <2>7, <2>8, <2>9, <2>10, <2>11 DEF Next
  <2> QED
    BY <2>12 DEF Goal
<1> QED
  BY <1>1, LoopInvariant, PTL DEF Spec, FrozenAfterLoad
=============================================================================
