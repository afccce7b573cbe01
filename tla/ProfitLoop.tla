----------------------------- MODULE ProfitLoop -----------------------------
(***************************************************************************)
(* membra_sdk.profit_loop.MembraProfitLoop with the JobBoard, the          *)
(* EscrowManager, the ReceiptVerifier and the SettlementTracker it drives, *)
(* and the two files that survive a restart of the process.                *)
(*                                                                         *)
(* One Python thread makes the calls, so a call is one step; the process   *)
(* may be restarted between two calls, and may die while it writes a file. *)
(* Texts, hashes and times are left out; amounts are in cents.  A vote is  *)
(* its `receipt_valid' flag: nothing in the code looks at who cast it.     *)
(***************************************************************************)
EXTENDS Integers, Sequences, SequencesExt, FiniteSets, TLC

CONSTANTS
  Jobs, Builders,
  Amounts,       \* the amounts of deposits and receipts, in cents
  MaxVotes,      \* bound on the votes of a job
  MaxDeposits,   \* bound on the deposits
  MaxRestarts    \* bound on the restarts

ASSUME LoopAssumption ==
  /\ Amounts \subseteq Nat
  /\ MaxVotes \in Nat /\ MaxDeposits \in Nat /\ MaxRestarts \in Nat

None == "none"

VARIABLES
  jobs,        \* JobBoard.jobs, a dictionary
  jobFile,     \* [jobs, torn]: the last readable line of each job
  escrows,     \* EscrowManager.escrows, a dictionary by job
  settlements, \* the jobs SettlementTracker holds a settled record for
  deposited,   \* history: the deposits of each job, in order
  refunded,    \* history: the cents returned to the buyer of each job
  releases,    \* history: what release_and_distribute returned, in order
  restarts     \* restarts so far

vars == <<jobs, jobFile, escrows, settlements, deposited, refunded, releases, restarts>>

\* BUILDING, DISPUTED and CANCELLED exist in the enum and are never assigned.
JobStatus == {"open", "claimed", "delivered", "tested", "approved", "paid", "finalized"}

EscrowState == {"held", "released", "refunded", "frozen"}

Votes == {v \in Seq(BOOLEAN) : Len(v) <= MaxVotes}

\* `plain' is TRUE when the status is a string and not a JobStatus: _load
\* passes the stored value to the constructor as it is.
BuildJob ==
  [status : JobStatus, plain : BOOLEAN, builder : Builders \cup {None},
   artifact : BOOLEAN, test : {None, "passed", "failed"}, approved : BOOLEAN,
   receipt : {None, "verified", "unverified"}, votes : Votes]

Escrow == [builder : Builders \cup {None}, amount : Amounts, state : EscrowState]

Posted == DOMAIN jobs

Empty == [j \in {} |-> None]

\* d[key] = value on a dictionary.
Put(d, key, value) == [k \in DOMAIN d \cup {key} |-> IF k = key THEN value ELSE d[k]]

Init ==
  /\ jobs = Empty
  /\ jobFile = [jobs |-> Empty, torn |-> FALSE]
  /\ escrows = Empty
  /\ settlements = {}
  /\ deposited = [j \in Jobs |-> <<>>]
  /\ refunded = [j \in Jobs |-> 0]
  /\ releases = <<>>
  /\ restarts = 0

-----------------------------------------------------------------------------
(* JobBoard *)

\* Mutant: the test compares status values, so a loaded status matches too.
StatusIsValue(j, status) == j \in Posted /\ jobs[j].status = status

\* The test that opens every operation; a status that is a plain string is
\* unequal to every JobStatus.
StatusIs(j, status) == j \in Posted /\ ~jobs[j].plain /\ jobs[j].status = status

\* _persist raises on a job whose status is a plain string.  Loaded jobs come
\* first in the dictionary, so it raises before it has written a line.
PersistRaises == \E j \in Posted : jobs[j].plain

\* to_dict keeps everything but the time of the approval.
Saved(job) == [job EXCEPT !.approved = FALSE]

\* The board after a change, and the file after the _persist that ends the
\* change.  What is appended after a torn line cannot be read back.
Update(newJobs) ==
  /\ jobs' = newJobs
  /\ jobFile' = IF PersistRaises \/ jobFile.torn THEN jobFile
                ELSE [jobFile EXCEPT !.jobs = [j \in DOMAIN newJobs |-> Saved(newJobs[j])]]

Set(j, job) == Update(Put(jobs, j, job))

\* post_job, under a fresh uuid: not one of a job that was lost at a restart.
PostJob(j) ==
  /\ j \notin Posted /\ deposited[j] = <<>>
  /\ Set(j, [status |-> "open", plain |-> FALSE, builder |-> None, artifact |-> FALSE,
             test |-> None, approved |-> FALSE, receipt |-> None, votes |-> <<>>])
  /\ UNCHANGED <<escrows, settlements, deposited, refunded, releases, restarts>>

\* claim_and_build: claim_job and then submit_artifact, which is not reached
\* when the save of the claim raises.
ClaimAndBuild(j, b) ==
  LET claimed == [jobs[j] EXCEPT !.builder = b, !.status = "claimed"] IN
  /\ StatusIs(j, "open")
  /\ Set(j, IF PersistRaises THEN claimed
            ELSE [claimed EXCEPT !.artifact = TRUE, !.status = "delivered"])
  /\ UNCHANGED <<escrows, settlements, deposited, refunded, releases, restarts>>

\* Mutant: submit_tests moves the job on whatever the result.
TestedAnyway(j, passed) ==
  /\ StatusIs(j, "delivered")
  /\ Set(j, [jobs[j] EXCEPT !.test = IF passed THEN "passed" ELSE "failed", !.status = "tested"])
  /\ UNCHANGED <<escrows, settlements, deposited, refunded, releases, restarts>>

\* run_tests: a failing run (or one that raises) leaves the job delivered.
RunTests(j, passed) ==
  /\ StatusIs(j, "delivered")
  /\ Set(j, [jobs[j] EXCEPT !.test = IF passed THEN "passed" ELSE "failed",
                            !.status = IF passed THEN "tested" ELSE "delivered"])
  /\ UNCHANGED <<escrows, settlements, deposited, refunded, releases, restarts>>

BuyerApprove(j) ==
  /\ StatusIs(j, "tested")
  /\ Set(j, [jobs[j] EXCEPT !.status = "approved", !.approved = TRUE])
  /\ UNCHANGED <<escrows, settlements, deposited, refunded, releases, restarts>>

ValidVotes(votes) == {i \in DOMAIN votes : votes[i]}

\* Mutant: the share of valid votes is compared with one half.
SimpleMajority(votes) ==
  /\ Len(votes) >= 3
  /\ Cardinality(ValidVotes(votes)) * 2 >= Len(votes)

\* _check_validator_consensus
CheckValidatorConsensus(votes) ==
  /\ Len(votes) >= 3
  /\ Cardinality(ValidVotes(votes)) * 3 >= Len(votes) * 2

\* One vote of the list validator_consensus passes on to validator_vote.
ValidatorVote(j, valid) ==
  LET votes == Append(jobs[j].votes, valid) IN
  /\ StatusIs(j, "paid")
  /\ Len(jobs[j].votes) < MaxVotes
  /\ Set(j, [jobs[j] EXCEPT !.votes = votes,
                            !.status = IF CheckValidatorConsensus(votes) THEN "finalized" ELSE @])
  /\ UNCHANGED <<escrows, settlements, deposited, refunded, releases, restarts>>

-----------------------------------------------------------------------------
(* Receipts and settlements *)

Processors == {"stripe", "solana", "ethereum", "manual"}

\* ReceiptVerifier.verify; settle_payment sets the status to "settled" itself.
Verify(receipt) ==
  receipt.amount > 0 /\ receipt.processor \in Processors /\ receipt.tx # ""

Receipt == [amount : Amounts, processor : {"stripe", "unknown"}, tx : {"", "tx"}]

\* settle_payment: the settlement is recorded and confirmed whatever the
\* verification says and whatever the job's status is; the job is marked paid,
\* with the outcome of the verification, when it is approved.
SettlePayment(j, receipt) ==
  /\ j \in Posted
  /\ settlements' = settlements \cup {j}
  /\ IF StatusIs(j, "approved")
     THEN Set(j, [jobs[j] EXCEPT !.receipt = IF Verify(receipt) THEN "verified" ELSE "unverified",
                                 !.status = "paid"])
     ELSE UNCHANGED <<jobs, jobFile>>
  /\ UNCHANGED <<escrows, deposited, refunded, releases, restarts>>

-----------------------------------------------------------------------------
(* Escrow *)

\* deposit_escrow: any posted job, at any time; the record replaces whatever
\* escrow the job had.
DepositEscrow(j, amount) ==
  /\ j \in Posted
  /\ MapThenSumSet(LAMBDA k : Len(deposited[k]), Jobs) < MaxDeposits
  /\ escrows' = Put(escrows, j,
                      [builder |-> jobs[j].builder, amount |-> amount, state |-> "held"])
  /\ deposited' = [deposited EXCEPT ![j] = Append(@, amount)]
  /\ UNCHANGED <<jobs, jobFile, settlements, refunded, releases, restarts>>

Held(j) == j \in DOMAIN escrows /\ escrows[j].state = "held"

\* round(x, 2) of a float product, where num / 100 is the product in cents: a
\* nearest cent, and at a tie the one the binary fraction happens to favour.
RoundCents(num) == {k \in 0 .. num : 100 * k - num <= 50 /\ num - 100 * k <= 50}

\* _calculate_distribution with the percentages of DISTRIBUTION_POLICY.
Distributions(amount) ==
  [infrastructure_cost : RoundCents(15 * amount), validator_reward : RoundCents(20 * amount),
   builder_reward : RoundCents(45 * amount), treasury_reserve : RoundCents(10 * amount),
   risk_legal_reserve : RoundCents(10 * amount)]

\* Mutant: the escrow stays held after its release.
ReleaseAgain(j) == escrows' = escrows

\* The state change of EscrowManager.release.
MarkReleased(j) == escrows' = [escrows EXCEPT ![j].state = "released"]

\* release_and_distribute: the escrow of a finalized job, with the receipt that
\* is put together for it.
ReleaseAndDistribute(j) ==
  /\ StatusIs(j, "finalized")
  /\ Held(j)
  /\ MarkReleased(j)
  /\ \E d \in Distributions(escrows[j].amount) :
       releases' = Append(releases,
         [job |-> j, amount |-> escrows[j].amount, distribution |-> d,
          artifact_hash |-> jobs[j].artifact, test_passed |-> jobs[j].test = "passed",
          buyer_approved |-> jobs[j].approved, settlement_confirmed |-> j \in settlements,
          votes |-> jobs[j].votes])
  /\ UNCHANGED <<jobs, jobFile, settlements, deposited, refunded, restarts>>

\* EscrowManager.refund; it does not look at the job.
Refund(j) ==
  /\ Held(j)
  /\ escrows' = [escrows EXCEPT ![j].state = "refunded"]
  /\ refunded' = [refunded EXCEPT ![j] = @ + escrows[j].amount]
  /\ UNCHANGED <<jobs, jobFile, settlements, deposited, releases, restarts>>

\* EscrowManager.freeze; nothing thaws an escrow but a new deposit.
Freeze(j) ==
  /\ Held(j)
  /\ escrows' = [escrows EXCEPT ![j].state = "frozen"]
  /\ UNCHANGED <<jobs, jobFile, settlements, deposited, refunded, releases, restarts>>

-----------------------------------------------------------------------------
(* Restart: a new MembraProfitLoop over the same two files *)

\* JobBoard._load of one job: the status is left a string.
Load(job) == [job EXCEPT !.plain = TRUE]

\* The file has the jobs as last saved, with a torn line at its end when the
\* process died in the append (not when _persist raises before its first
\* write).  Every escrow operation saves before it returns, so the escrow file
\* has the escrows, or nothing readable when the process died rewriting it.
Restart(tornJobs, tornEscrows) ==
  /\ restarts < MaxRestarts
  /\ restarts' = restarts + 1
  /\ tornJobs => Posted # {} /\ ~PersistRaises
  /\ jobFile' = [jobFile EXCEPT !.torn = @ \/ tornJobs]
  /\ jobs' = [j \in DOMAIN jobFile.jobs |-> Load(jobFile.jobs[j])]
  /\ escrows' = IF tornEscrows THEN Empty ELSE escrows
  /\ settlements' = {}
  /\ UNCHANGED <<deposited, refunded, releases>>

-----------------------------------------------------------------------------

Next ==
  \/ \E j \in Jobs :
       \/ PostJob(j)
       \/ \E b \in Builders : ClaimAndBuild(j, b)
       \/ \E passed \in BOOLEAN : RunTests(j, passed)
       \/ BuyerApprove(j)
       \/ \E r \in Receipt : SettlePayment(j, r)
       \/ \E valid \in BOOLEAN : ValidatorVote(j, valid)
       \/ \E a \in Amounts : DepositEscrow(j, a)
       \/ ReleaseAndDistribute(j)
       \/ Refund(j)
       \/ Freeze(j)
  \/ \E tornJobs, tornEscrows \in BOOLEAN : Restart(tornJobs, tornEscrows)

Spec == Init /\ [][Next]_vars

-----------------------------------------------------------------------------
(* Properties *)

TypeOK ==
  /\ \A d \in {jobs, jobFile.jobs} : DOMAIN d \subseteq Jobs /\ Range(d) \subseteq BuildJob
  /\ jobFile.torn \in BOOLEAN
  /\ DOMAIN escrows \subseteq Jobs /\ Range(escrows) \subseteq Escrow
  /\ settlements \subseteq Jobs
  /\ \A j \in Jobs : Range(deposited[j]) \subseteq Amounts
  /\ refunded \in [Jobs -> Nat]
  /\ restarts \in 0 .. MaxRestarts

TwoThirdsValid(votes) ==
  Len(votes) >= 3 /\ 3 * Cardinality({i \in DOMAIN votes : votes[i]}) >= 2 * Len(votes)

\* Every release that was ever made went through each gate of the code, whatever
\* refunds, new deposits, repeated calls and restarts came in between: an
\* artifact, a passing test run, an approval, a settlement that this process
\* recorded, and two thirds of at least three votes.  The gates are the code's
\* own: the votes may all be one validator's, and the receipt behind the
\* settlement need not have been verified.
ReleaseConditions ==
  \A i \in DOMAIN releases :
    /\ releases[i].artifact_hash /\ releases[i].test_passed
    /\ releases[i].buyer_approved /\ releases[i].settlement_confirmed
    /\ TwoThirdsValid(releases[i].votes)

SumOf(s) == SumFunctionOnSet(s, DOMAIN s)
ReleasedTo(j) ==
  SumOf([i \in DOMAIN releases |-> IF releases[i].job = j THEN releases[i].amount ELSE 0])
InEscrow(j) ==
  IF j \in DOMAIN escrows /\ escrows[j].state \in {"held", "frozen"} THEN escrows[j].amount ELSE 0

\* No money out of nothing: what a job's escrow released, refunded and still
\* holds is never more than what was deposited, although deposits overwrite
\* escrows in every state and restarts reload them.
MoneyConserved ==
  \A j \in Jobs : ReleasedTo(j) + refunded[j] + InEscrow(j) <= SumOf(deposited[j])

\* A job is finalized by the first vote that makes two thirds of at least three
\* votes valid, and takes no vote after that; a restart keeps both.
ConsensusLatched ==
  \A j \in Posted :
    LET votes == jobs[j].votes IN
    /\ jobs[j].status = "finalized" <=> TwoThirdsValid(votes)
    /\ \A n \in 0 .. Len(votes) - 1 : ~TwoThirdsValid(SubSeq(votes, 1, n))

\* A restart freezes the board: a job read back from the file is never changed
\* by any operation again, and the file keeps what it had at the restart, so
\* jobs posted later are lost at the next one.
FrozenAfterLoad ==
  [][PersistRaises =>
       /\ jobFile'.jobs = jobFile.jobs
       /\ \A j \in Posted : jobs[j].plain => jobs'[j] = jobs[j]]_vars

DistributionTotal(d) ==
  d.infrastructure_cost + d.validator_reward + d.builder_reward + d.treasury_reserve
    + d.risk_legal_reserve

\* "When escrow releases, yield is split": the shares of a release never add up
\* to more than the escrow held.
SplitFitsEscrow ==
  \A i \in DOMAIN releases :
    DistributionTotal(releases[i].distribution) <= releases[i].amount
=============================================================================
