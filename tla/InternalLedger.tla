--------------------------- MODULE InternalLedger ---------------------------
(* core/ledger.py: a deque with a maximal length, drained in batches.  The   *)
(* operations work on the value of `pending', a sequence, oldest first.      *)
EXTENDS Integers, Sequences

CONSTANT MaxPending

ASSUME MaxPendingAssumption == MaxPending \in Nat \ {0}

\* Mutant: the deque has no maxlen.
Unbounded(pending, ops) == pending \o ops

\* submit, for each of the operations in turn: a deque with maxlen drops its
\* oldest elements when it is full.
SubmitAll(pending, ops) ==
  LET all == pending \o ops
      lost == IF Len(all) > MaxPending THEN Len(all) - MaxPending ELSE 0
  IN  SubSeq(all, lost + 1, Len(all))

Submit(pending, op) == SubmitAll(pending, <<op>>)

\* drain_batch: up to `size' operations are taken from the front.
BatchSize(pending, size) == IF size < Len(pending) THEN size ELSE Len(pending)
DrainBatch(pending, size) == SubSeq(pending, 1, BatchSize(pending, size))

\* Mutant: the last operation of the batch stays in the deque.
PeekOne(pending, size) == SubSeq(pending, BatchSize(pending, size), Len(pending))

\* What is left of the deque.
Remaining(pending, size) == SubSeq(pending, BatchSize(pending, size) + 1, Len(pending))
=============================================================================
