---------------------------- MODULE SharedMemory ----------------------------
(***************************************************************************)
(* The memory that the agents of a mixture of agents share                 *)
(* (membra_sdk/memory/shared_memory.py): a SQLite database, each method    *)
(* one transaction, and an artifact store that keeps the files of a job    *)
(* and a manifest of their hashes.                                         *)
(*                                                                         *)
(* ArtifactStore.store takes no lock.  It writes the file, reads the       *)
(* manifest, truncates it and dumps it again, and the stores of other      *)
(* agents may run between these steps.  An agent may die at any of them.   *)
(* The artifacts are those of one job; contents stand for their hashes.    *)
(***************************************************************************)
EXTENDS Integers, Sequences, FiniteSets, Functions

CONSTANTS
    Writers,      \* agents that store artifacts
    FileNames,
    Contents,
    Scores,       \* scores that update_reputation is given
    MaxStores,    \* bound on the store calls
    MaxUpdates    \* bound on the updates of the reputation

VARIABLES
    files,       \* the artifacts on disk
    manifest,    \* manifest.json: absent, not JSON (truncated) or its entries
    writer,      \* per agent: the store call under way
    solo,        \* names whose last store finished and overlapped no other
    stores,
    reputation,  \* the row of one worker in worker_reputation, if any
    updates      \* the calls of update_reputation for that worker

memoryVars == <<files, manifest, writer, solo, stores, reputation, updates>>
tables == <<reputation, updates>>
artifacts == <<files, manifest, writer, solo, stores>>

WriterIdle == [pc |-> "idle"]
Missing == "missing"
NoRow == [total_tasks |-> 0]

ASSUME MemoryAssumption ==
    /\ Missing \notin Contents /\ Scores \subseteq Int
    /\ MaxStores \in Nat /\ MaxUpdates \in Nat

MemoryInit ==
    /\ files = [n \in FileNames |-> Missing]
    /\ manifest = [state |-> "absent"]
    /\ writer = [w \in Writers |-> WriterIdle]
    /\ solo = {} /\ stores = 0
    /\ reputation = NoRow /\ updates = <<>>

----------------------------------------------------------------------------
(* ArtifactStore.                                                          *)

(***************************************************************************)
(* store opens, writes and closes the file.  `alone` records that no other *)
(* store has been under way since the call began.                          *)
(***************************************************************************)
WriteFile(w, n, c) ==
    /\ writer[w].pc = "idle" /\ stores < MaxStores
    /\ LET busy == {v \in Writers: writer[v].pc # "idle"}
       IN  writer' = [v \in Writers |->
              IF v = w THEN [pc |-> "written", name |-> n, content |-> c, alone |-> busy = {}]
              ELSE IF v \in busy THEN [writer[v] EXCEPT !.alone = FALSE] ELSE writer[v]]
    /\ files' = [files EXCEPT ![n] = c]
    /\ solo' = solo \ {n}
    /\ stores' = stores + 1
    /\ UNCHANGED <<manifest, tables>>

\* Mutant: starts from an empty manifest_data.
NewEntries(n, c) == [m \in {n} |-> c]

\* manifest_data: what the manifest holds, if there is one, and the new entry.
ManifestData(n, c) ==
    LET old == IF manifest.state = "absent" THEN {} ELSE DOMAIN manifest.data
    IN  [m \in old \cup {n} |-> IF m = n THEN c ELSE manifest.data[m]]

\* json.load raises on a manifest that is empty or torn: the call fails.
ReadManifest(w) ==
    /\ writer[w].pc = "written"
    /\ writer' = [writer EXCEPT ![w] =
          IF manifest.state = "unreadable" THEN WriterIdle
          ELSE [pc |-> "read", name |-> @.name, alone |-> @.alone,
                data |-> ManifestData(@.name, @.content)]]
    /\ UNCHANGED <<files, manifest, solo, stores, tables>>

TruncateManifest(w) ==
    /\ writer[w].pc = "read"
    /\ manifest' = [state |-> "unreadable"]
    /\ writer' = [writer EXCEPT ![w].pc = "truncated"]
    /\ UNCHANGED <<files, solo, stores, tables>>

(***************************************************************************)
(* json.dump.  Two agents that both truncated the manifest write from its  *)
(* start, the second over the text of the first: a shorter text leaves the *)
(* end of the longer one behind, which json.load refuses.  Entries are of  *)
(* about the same length, so the number of entries decides; with the same  *)
(* number of different names either may be the longer.                     *)
(***************************************************************************)
Dumped(data) ==
    LET old == IF manifest.state = "entries" THEN DOMAIN manifest.data ELSE {}
        size(D) == Cardinality(D)
    IN  {m \in {[state |-> "entries", data |-> data], [state |-> "unreadable"]}:
            /\ m.state = "entries" => size(old) <= size(DOMAIN data)
            /\ m.state = "unreadable" => /\ size(old) >= size(DOMAIN data)
                                         /\ old # DOMAIN data}
DumpManifest(w) ==
    /\ writer[w].pc = "truncated"
    /\ manifest' \in Dumped(writer[w].data)
    /\ solo' = IF writer[w].alone THEN solo \cup {writer[w].name} ELSE solo
    /\ writer' = [writer EXCEPT ![w] = WriterIdle]
    /\ UNCHANGED <<files, stores, tables>>

\* The agent dies during its store call.
Dies(w) ==
    /\ writer[w].pc # "idle"
    /\ writer' = [writer EXCEPT ![w] = WriterIdle]
    /\ UNCHANGED <<files, manifest, solo, stores, tables>>

\* verify is FALSE if there is no such file, manifest or entry.
VerifyArtifact(n) ==
    /\ files[n] # Missing /\ manifest.state = "entries"
    /\ n \in DOMAIN manifest.data /\ manifest.data[n] = files[n]

----------------------------------------------------------------------------
(* SharedMemory.  The averages are kept as fractions.                      *)

\* SQLite reads the old row in every expression of the SET clause.
NewAverage(row, score) ==
    [num |-> row.avg_score.num * row.total_tasks + score * row.avg_score.den,
     den |-> row.avg_score.den * (row.total_tasks + 1)]
One(b) == IF b THEN 1 ELSE 0

\* UPDATE, and INSERT if that changed no row.
UpdateReputation(score, success, violation) ==
    /\ Len(updates) < MaxUpdates
    /\ reputation' =
          IF reputation = NoRow
          THEN [total_tasks |-> 1, successful_tasks |-> One(success),
                avg_score |-> [num |-> score, den |-> 1], safety_violations |-> One(violation)]
          ELSE [total_tasks |-> reputation.total_tasks + 1,
                successful_tasks |-> reputation.successful_tasks + One(success),
                avg_score |-> NewAverage(reputation, score),
                safety_violations |-> reputation.safety_violations + One(violation)]
    /\ updates' = Append(updates, [score |-> score, success |-> success, violation |-> violation])
    /\ UNCHANGED artifacts

MemoryNext ==
    \/ \E w \in Writers, n \in FileNames, c \in Contents: WriteFile(w, n, c)
    \/ \E w \in Writers: ReadManifest(w)
    \/ \E w \in Writers: TruncateManifest(w)
    \/ \E w \in Writers: DumpManifest(w)
    \/ \E w \in Writers: Dies(w)
    \/ \E score \in Scores, success, violation \in BOOLEAN: UpdateReputation(score, success, violation)

MemorySpec == MemoryInit /\ [][MemoryNext]_memoryVars

----------------------------------------------------------------------------
MemoryTypeOK ==
    /\ files \in [FileNames -> Contents \cup {Missing}]
    /\ manifest.state \in {"absent", "unreadable", "entries"}
    /\ manifest.state = "entries" => manifest.data \in
          UNION {[D -> Contents]: D \in SUBSET FileNames}
    /\ \A w \in Writers: writer[w].pc \in {"idle", "written", "read", "truncated"}
    /\ solo \subseteq FileNames /\ stores \in 0..MaxStores
    /\ reputation.total_tasks \in 0..MaxUpdates

(***************************************************************************)
(* A file whose last store finished and overlapped no other store of the   *)
(* job verifies whenever the manifest can be read, whatever stores of      *)
(* other files overlap, fail or die before and after it.                   *)
(***************************************************************************)
SoloStoresVerify ==
    manifest.state = "entries" => \A n \in solo: VerifyArtifact(n)

(***************************************************************************)
(* A worker's reputation is the count and the mean of all the updates made *)
(* to it, as a running average over rows of the same table.                *)
(***************************************************************************)
ReputationIsMean ==
    updates # <<>> =>
        /\ reputation.total_tasks = Len(updates)
        /\ reputation.successful_tasks = Cardinality({i \in DOMAIN updates: updates[i].success})
        /\ reputation.safety_violations = Cardinality({i \in DOMAIN updates: updates[i].violation})
        /\ reputation.avg_score.den > 0
        /\ reputation.avg_score.num * Len(updates)
             = reputation.avg_score.den
                 * SumFunctionOnSet([i \in DOMAIN updates |-> updates[i].score], DOMAIN updates)

(***************************************************************************)
(* What an agent reads from the shared memory: artifacts that verify if    *)
(* they were stored alone, and reputations that are those of the updates   *)
(* (shared_memory.py, ArtifactStore and SharedMemory).                     *)
(***************************************************************************)
MemoryCoherent == SoloStoresVerify /\ ReputationIsMean
============================================================================
