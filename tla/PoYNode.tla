------------------------------ MODULE PoYNode ------------------------------
(***************************************************************************)
(* A validator node (core/node.py) with its ledger and its proof-of-yield  *)
(* consensus (consensus/poy.py).  The loops of the node are coroutines of  *)
(* one thread: the mining loop submits everything a sweep finds before it  *)
(* awaits, the consensus loop drains a batch, votes on it and then waits   *)
(* for the votes of other agents, which may come late, twice or never.     *)
(*                                                                         *)
(* An operation is a number, in the order of submission; the node's n-th   *)
(* batch that is large enough has state root n.                            *)
(***************************************************************************)
EXTENDS InternalLedger, FiniteSets, Functions

CONSTANTS
  Agents,         \* the other validators
  Inferences,     \* answers an LLM may give
  Yields,         \* yields a vote may carry
  YieldOf,        \* the yield _extract_yield reads in an answer
  SweepSizes,     \* how many files a sweep of the mining loop finds
  MinBatch,       \* 10 in the code: smaller batches are not voted on
  MaxBatch,       \* 100 in the code
  MaxOps,         \* bound on submitted operations
  MaxRoots,       \* bound on state roots
  MaxPoYVotes     \* bound on the votes of all rounds together

ASSUME BatchAssumption ==
  /\ MinBatch \in Nat /\ MaxBatch \in Nat /\ MaxRoots \in Nat
  /\ SweepSizes \subseteq Nat
  /\ YieldOf \in [Inferences -> Yields]
  /\ 0 < MinBatch /\ MinBatch <= MaxBatch

Roots == 1 .. MaxRoots

VARIABLES
  pendingOps,     \* ledger.pending
  processed,      \* ledger.processed
  opsProcessed,   \* stats["ops_processed"]
  batches,        \* the operations of each of the node's own state roots
  waiting,        \* the root run_poy_round waits for, or 0
  rounds,         \* the votes of each root, empty when there is no round
  finality,       \* of each root: the number of votes it was finalized with, or 0
  batchesFinalized \* stats["batches_finalized"]

nodeVars == <<pendingOps, processed, opsProcessed, batches, waiting, rounds, finality, batchesFinalized>>

NodeInit ==
  /\ pendingOps = <<>>
  /\ processed = 0
  /\ opsProcessed = 0
  /\ batches = <<>>
  /\ waiting = 0
  /\ rounds = [r \in Roots |-> <<>>]
  /\ finality = [r \in Roots |-> 0]
  /\ batchesFinalized = 0
-----------------------------------------------------------------------------
\* _file_mining_loop: one sweep.
Mine(n) ==
  /\ opsProcessed + n <= MaxOps
  /\ pendingOps' = SubmitAll(pendingOps, [k \in 1 .. n |-> opsProcessed + k])
  /\ opsProcessed' = opsProcessed + n
  /\ UNCHANGED <<processed, batches, waiting, rounds, finality, batchesFinalized>>
-----------------------------------------------------------------------------
\* cast_vote: the vote hashes the answer and the yield read in it.
CastVote(agent, inference) == [agent |-> agent, inference |-> inference, yield |-> YieldOf[inference]]

Count(votes, n, field, value) == Cardinality({k \in 1 .. n : votes[k][field] = value})
TopCount(votes, n, field) ==
  CHOOSE c \in 0 .. n :
    /\ \E k \in 1 .. n : Count(votes, n, field, votes[k][field]) = c
    /\ \A k \in 1 .. n : Count(votes, n, field, votes[k][field]) <= c

\* Mutant: only the yield hash is compared.
AgreeOnYield(votes, n) == n >= 3 /\ TopCount(votes, n, "yield") * 3 >= n * 2

\* _check_consensus: at least three votes, and two thirds of them exactly on the
\* most frequent inference hash and on the most frequent yield hash.
Agree(votes, n) ==
  /\ n >= 3
  /\ TopCount(votes, n, "inference") * 3 >= n * 2
  /\ TopCount(votes, n, "yield") * 3 >= n * 2

VoteCount == FoldFunction(LAMBDA votes, sum : Len(votes) + sum, 0, rounds)

\* add_external_vote: the round is made if need be, the vote is appended
\* whoever sent it, and a round that is not final is checked.
AddVote(r, vote) ==
  LET votes == Append(rounds[r], vote)
  IN  /\ VoteCount < MaxPoYVotes
      /\ rounds' = [rounds EXCEPT ![r] = votes]
      /\ finality' = IF finality[r] = 0 /\ Agree(votes, Len(votes))
                     THEN [finality EXCEPT ![r] = Len(votes)] ELSE finality

\* The vote of another agent arrives, perhaps before the node's own, perhaps
\* after the node has stopped waiting, perhaps for a second time.  Nothing ties
\* its yield hash to its inference hash.
ExternalVote(r, agent, inference, yield) ==
  /\ AddVote(r, [agent |-> agent, inference |-> inference, yield |-> yield])
  /\ UNCHANGED <<pendingOps, processed, opsProcessed, batches, waiting, batchesFinalized>>
-----------------------------------------------------------------------------
\* _consensus_loop drains a batch.  A small one is dropped; a large one gets a
\* state root, and run_poy_round casts the node's vote and begins to wait.
Drain ==
  LET batch == DrainBatch(pendingOps, MaxBatch)
  IN  /\ waiting = 0 /\ batch # <<>>
      /\ pendingOps' = Remaining(pendingOps, MaxBatch)
      /\ processed' = processed + Len(batch)
      /\ IF Len(batch) < MinBatch
         THEN UNCHANGED <<batches, waiting, rounds, finality>>
         ELSE /\ Len(batches) < MaxRoots
              /\ batches' = Append(batches, batch)
              /\ waiting' = Len(batches')
              /\ \E inference \in Inferences : AddVote(Len(batches'), CastVote("self", inference))
      /\ UNCHANGED <<opsProcessed, batchesFinalized>>

\* run_poy_round returns: the round is final, ...
RoundFinal ==
  /\ waiting # 0 /\ finality[waiting] # 0
  /\ batchesFinalized' = batchesFinalized + 1
  /\ waiting' = 0
  /\ UNCHANGED <<pendingOps, processed, opsProcessed, batches, rounds, finality>>

\* ... or ten seconds have passed.
RoundTimeout ==
  /\ waiting # 0 /\ finality[waiting] = 0
  /\ waiting' = 0
  /\ UNCHANGED <<pendingOps, processed, opsProcessed, batches, rounds, finality, batchesFinalized>>

NodeNext ==
  \/ \E n \in SweepSizes : Mine(n)
  \/ \E r \in Roots, agent \in Agents, inference \in Inferences, yield \in Yields :
       ExternalVote(r, agent, inference, yield)
  \/ Drain \/ RoundFinal \/ RoundTimeout

NodeSpec == NodeInit /\ [][NodeNext]_nodeVars
-----------------------------------------------------------------------------
NodeTypeOK ==
  /\ Len(pendingOps) <= MaxPending
  /\ waiting \in 0 .. Len(batches)
  /\ \A r \in Roots : finality[r] \in 0 .. Len(rounds[r])
  /\ batchesFinalized \in 0 .. MaxRoots

\* The first m votes that have the same value in a field as vote k.
Sharing(votes, m, field, k) == {j \in 1 .. m : votes[j][field] = votes[k][field]}
SharingBoth(votes, m, k) == Sharing(votes, m, "inference", k) \cap Sharing(votes, m, "yield", k)

\* Two thirds of the first m votes have one inference, and two thirds one yield.
OnEach(votes, m) ==
  /\ \E k \in 1 .. m : 3 * Cardinality(Sharing(votes, m, "inference", k)) >= 2 * m
  /\ \E k \in 1 .. m : 3 * Cardinality(Sharing(votes, m, "yield", k)) >= 2 * m

\* The yield of each vote is the one in its answer, as in the votes of cast_vote.
AllRead(votes, m) == \A k \in 1 .. m : votes[k].yield = YieldOf[votes[k].inference]

\* _check_consensus counts inference hashes and yield hashes separately.  A round
\* is final from the first vote, the third or a later one, that makes two thirds
\* on each, and no later vote takes finality back.  One third of these votes then
\* have the same inference and the same yield, and two thirds have if every vote
\* was cast by cast_vote.
FinalityJustified ==
  \A r \in Roots :
    LET n == finality[r]
        votes == rounds[r]
    IN  /\ n # 0 =>
             /\ n >= 3 /\ OnEach(votes, n)
             /\ \E k \in 1 .. n : 3 * Cardinality(SharingBoth(votes, n, k)) >= n
             /\ AllRead(votes, n) => \E k \in 1 .. n : 3 * Cardinality(SharingBoth(votes, n, k)) >= 2 * n
        /\ \A m \in 3 .. Len(votes) : OnEach(votes, m) => n # 0 /\ n <= m

\* "A batch only finalizes if 2/3 of validators agree on BOTH" (poy.py): of the
\* validators that have voted, two thirds have sent one and the same pair of
\* inference and yield.  The code does not count pairs, nor validators.
ValidatorsAgree ==
  \A r \in Roots :
    LET n == finality[r]
        votes == rounds[r]
        VotersAmong(ks) == {votes[k].agent : k \in ks}
    IN  n # 0 => \E k \in 1 .. n :
          3 * Cardinality(VotersAmong(SharingBoth(votes, n, k))) >= 2 * Cardinality(VotersAmong(1 .. n))

\* No operation is in two batches, and batches keep the order of submission,
\* although the deque drops its oldest elements when it is full and small
\* batches are thrown away (ledger.py, submit and drain_batch): the operations
\* of a batch are older than those of every later batch and than the pending
\* ones.  The count of final batches never exceeds the batches that are final.
BatchesInOrder ==
  /\ \A i \in DOMAIN batches : \A a \in DOMAIN batches[i] :
       /\ \A j \in i + 1 .. Len(batches) : \A b \in DOMAIN batches[j] : batches[i][a] < batches[j][b]
       /\ \A b \in DOMAIN pendingOps : batches[i][a] < pendingOps[b]
  /\ batchesFinalized <= Cardinality({r \in DOMAIN batches : finality[r] # 0})
=============================================================================
