------------------------------ MODULE ProofBook ------------------------------
(***************************************************************************)
(* The hash-chained log of proof_book.py, appended to by threads of one    *)
(* process.  append creates an entry, seals it with the hash of the last   *)
(* entry, puts it in the list and moves the hash forward, and takes no     *)
(* lock; the interpreter may switch threads between any two of these.      *)
(*                                                                         *)
(* An entry's hash commits to its content and to prev_hash.  Entries are   *)
(* distinct, so the call that made an entry, (thread, number), stands for  *)
(* its hash.                                                               *)
(***************************************************************************)
EXTENDS Integers, Sequences

CONSTANTS Threads, MaxAppends

VARIABLES
  entries,   \* _entries: [hash, prev]
  lastHash,  \* _last_hash
  pc,        \* where each thread is in append
  prev,      \* the prev_hash of the entry the thread is adding
  done       \* the appends each thread has finished

vars == <<entries, lastHash, pc, prev, done>>

Genesis == <<"genesis", 0>>
HashOf(t) == <<t, done[t] + 1>>

Init ==
  /\ entries = <<>>
  /\ lastHash = Genesis
  /\ pc = [t \in Threads |-> "idle"]
  /\ prev = [t \in Threads |-> Genesis]
  /\ done = [t \in Threads |-> 0]

\* entry.seal(self._last_hash)
Seal(t) ==
  /\ pc[t] = "idle" /\ done[t] < MaxAppends
  /\ prev' = [prev EXCEPT ![t] = lastHash]
  /\ pc' = [pc EXCEPT ![t] = "append"]
  /\ UNCHANGED <<entries, lastHash, done>>

\* self._entries.append(entry)
AppendEntry(t) ==
  /\ pc[t] = "append"
  /\ entries' = Append(entries, [hash |-> HashOf(t), prev |-> prev[t]])
  /\ pc' = [pc EXCEPT ![t] = "forward"]
  /\ UNCHANGED <<lastHash, prev, done>>

\* self._last_hash = entry.entry_hash
MoveHash(t) ==
  /\ pc[t] = "forward"
  /\ lastHash' = HashOf(t)
  /\ done' = [done EXCEPT ![t] = @ + 1]
  /\ pc' = [pc EXCEPT ![t] = "idle"]
  /\ UNCHANGED <<entries, prev>>

Next == \E t \in Threads : Seal(t) \/ AppendEntry(t) \/ MoveHash(t)

Spec == Init /\ [][Next]_vars
-----------------------------------------------------------------------------
\* verify_chain: every entry's prev_hash is the hash of the one before it.
VerifyChain ==
  \A k \in DOMAIN entries : entries[k].prev = IF k = 1 THEN Genesis ELSE entries[k - 1].hash

\* "Append-only, hash-chained proof log. Thread-safe for a single process"
\* (proof_book.py, class docstring): whenever no append is under way, the chain
\* verifies.  The code breaks it when two threads seal with the same last hash.
ChainVerifies == (\A t \in Threads : pc[t] = "idle") => VerifyChain
=============================================================================
