---------------------------- MODULE PersonalChain ----------------------------
(***************************************************************************)
(* personal_chain/chain.py: a user's chain of consented events, one file   *)
(* for each sequence number, and the consent policy that guards it.  A     *)
(* process (a CLI command, the demo) loads the chain, logs and attests     *)
(* events, and ends; it may die while it writes a file, which is then      *)
(* truncated (Torn) and is skipped by the next load.  One process at a     *)
(* time has the chain open; the code takes no lock that would see to it.   *)
(*                                                                         *)
(* full_hash commits to the event and to previous_hash; events differ in   *)
(* their consent token, so an event's number stands for its hash.          *)
(***************************************************************************)
EXTENDS Integers, Sequences, FiniteSets, Selection

CONSTANTS
  EventTypes,     \* the event types that are logged
  MaxEvents,      \* bound on sequence numbers
  MaxLogged       \* bound on the events ever logged

ASSUME ChainAssumption == MaxEvents \in Nat /\ MaxLogged \in Nat

VARIABLES
  chainUp,        \* a process has the chain open
  events,         \* self.events of that process
  sequence,       \* self.sequence
  chainHash,      \* self.last_hash
  policy,         \* self.consent_policy, the settings that guard a capture
  eventFiles,     \* <sequence>.json: an event, or "none", or "torn"
  policyFile,     \* consent_policy.json
  logged          \* the number of events ever made

chainVars == <<chainUp, events, sequence, chainHash, policy, eventFiles, policyFile, logged>>

GenesisHash == 0
DefaultPolicy == [prompts |-> FALSE, builds |-> TRUE]
NoFile == [kind |-> "none"]
TornFile == [kind |-> "torn"]
Holds(f) == f.kind = "event"

ChainInit ==
  /\ chainUp = FALSE
  /\ events = <<>>
  /\ sequence = 0
  /\ chainHash = GenesisHash
  /\ policy = DefaultPolicy
  /\ eventFiles = [k \in 0 .. MaxEvents - 1 |-> NoFile]
  /\ policyFile = NoFile
  /\ logged = 0
-----------------------------------------------------------------------------
\* The events a process finds: the files that parse, in order of their names.
LoadedEvents ==
  LET order == Selected([k \in 1 .. MaxEvents |-> Holds(eventFiles[k - 1])])
  IN  [i \in 1 .. Len(order) |-> eventFiles[order[i] - 1]]

\* Mutant: the sequence is the number of events loaded.
SequenceByCount(es) == Len(es)

\* Mutant: the hash is not moved on.
GenesisAgain(es) == GenesisHash

\* After every event it loads, _load_chain moves the sequence and the hash on.
SequenceAfter(es) == IF es = <<>> THEN 0 ELSE es[Len(es)].seq + 1
HashAfter(es) == IF es = <<>> THEN GenesisHash ELSE es[Len(es)].id

\* PersonalChain(user): _load_chain and _load_policy; a policy that does not
\* parse leaves the default policy.
OpenChain ==
  /\ ~chainUp
  /\ chainUp' = TRUE
  /\ events' = LoadedEvents
  /\ sequence' = SequenceAfter(LoadedEvents)
  /\ chainHash' = HashAfter(LoadedEvents)
  /\ policy' = IF policyFile.kind = "policy" THEN policyFile.policy ELSE DefaultPolicy
  /\ UNCHANGED <<eventFiles, policyFile, logged>>

\* _has_consent: prompts and uploads need one setting each (they are alike and
\* share one here), builds and artifacts another; other events need none.
HasConsent(type) ==
  CASE type \in {"prompt", "upload"} -> policy.prompts
    [] type \in {"build", "artifact"} -> policy.builds
    [] OTHER -> TRUE

\* The event log_event makes.
NewEvent(type) ==
  [kind |-> "event", id |-> logged + 1, type |-> type, seq |-> sequence, prev |-> chainHash,
   attested |-> FALSE, anchored |-> FALSE]

\* log_event: the consent check, which the CLI overrides; the event is added to
\* the chain in memory and then written to its file.
MakeEvent(type, override) ==
  /\ chainUp /\ sequence < MaxEvents /\ logged < MaxLogged
  /\ override \/ HasConsent(type)
  /\ logged' = logged + 1

\* log_solana_anchor and log_stripe_receipt set a field of the event after
\* log_event has written it: the field is in memory only.
LogEvent(type, override) ==
  LET event == NewEvent(type)
  IN  /\ MakeEvent(type, override)
      /\ events' = Append(events, [event EXCEPT !.anchored = (type \in {"anchor", "receipt"})])
      /\ sequence' = sequence + 1
      /\ chainHash' = event.id
      /\ eventFiles' = [eventFiles EXCEPT ![sequence] = event]
      /\ UNCHANGED <<chainUp, policy, policyFile>>

\* add_notary_attestation: the event is written again as it is in memory.
AddNotaryAttestation(k) ==
  LET attested == [events[k] EXCEPT !.attested = TRUE]
  IN  /\ chainUp
      /\ events' = [events EXCEPT ![k] = attested]
      /\ eventFiles' = [eventFiles EXCEPT ![attested.seq] = attested]
      /\ UNCHANGED <<chainUp, sequence, chainHash, policy, policyFile, logged>>

\* update_consent_policy: the policy is saved.
UpdateConsentPolicy(key, value) ==
  /\ chainUp
  /\ policy' = [policy EXCEPT ![key] = value]
  /\ policyFile' = [kind |-> "policy", policy |-> policy']
  /\ UNCHANGED <<chainUp, events, sequence, chainHash, eventFiles, logged>>

\* The process ends, and what it had in memory with it.
Closed ==
  /\ chainUp /\ chainUp' = FALSE
  /\ events' = <<>> /\ sequence' = 0 /\ chainHash' = GenesisHash
  /\ policy' = DefaultPolicy

CloseChain == Closed /\ UNCHANGED <<eventFiles, policyFile, logged>>

\* It dies in _persist_event, writing a new event or attesting an old one, ...
CrashInPersistEvent(type, override) ==
  /\ MakeEvent(type, override)
  /\ eventFiles' = [eventFiles EXCEPT ![sequence] = TornFile]
  /\ Closed
  /\ UNCHANGED policyFile

CrashInAttestation(k) ==
  /\ eventFiles' = [eventFiles EXCEPT ![events[k].seq] = TornFile]
  /\ Closed
  /\ UNCHANGED <<policyFile, logged>>

\* ... or in _save_policy.
CrashInSavePolicy ==
  /\ policyFile' = TornFile
  /\ Closed
  /\ UNCHANGED <<eventFiles, logged>>

ChainNext ==
  \/ OpenChain \/ CloseChain \/ CrashInSavePolicy
  \/ \E type \in EventTypes, override \in BOOLEAN :
        LogEvent(type, override) \/ CrashInPersistEvent(type, override)
  \/ \E k \in DOMAIN events : AddNotaryAttestation(k) \/ CrashInAttestation(k)
  \/ \E key \in DOMAIN DefaultPolicy, value \in BOOLEAN : UpdateConsentPolicy(key, value)

ChainSpec == ChainInit /\ [][ChainNext]_chainVars
-----------------------------------------------------------------------------
Event == [kind : {"event"}, id : 1 .. MaxLogged, type : EventTypes, seq : 0 .. MaxEvents - 1,
          prev : 0 .. MaxLogged, attested : BOOLEAN, anchored : BOOLEAN]

ChainTypeOK ==
  /\ \A k \in DOMAIN events : events[k] \in Event
  /\ sequence \in 0 .. MaxEvents
  /\ chainHash \in 0 .. MaxLogged
  /\ policy \in [DOMAIN DefaultPolicy -> BOOLEAN]
  /\ \A k \in DOMAIN eventFiles : eventFiles[k] \in {NoFile, TornFile} \cup Event

\* verify_chain_integrity: every event names the hash of the one before it.
VerifyChainIntegrity(es) ==
  \A k \in DOMAIN es : es[k].prev = IF k = 1 THEN GenesisHash ELSE es[k - 1].id

\* An event file that was torn, with an event after it.
Hole == \E j, k \in DOMAIN eventFiles : j < k /\ eventFiles[j] = TornFile /\ Holds(eventFiles[k])

\* The chain a process has open verifies (chain.py, verify_chain_integrity),
\* however many processes died while they logged an event: a torn last event is
\* skipped and written over.  Only a process that dies while it attests an event
\* in the middle of the chain breaks it, and then every later process sees it.
IntactUnlessHole == chainUp => (VerifyChainIntegrity(events) <=> ~Hole)

\* No call writes one event over another that is still readable: after any
\* crash, torn file and reload, log_event takes a sequence number whose file
\* holds none, and attesting an event keeps it (chain.py, _load_chain and
\* _persist_event).  Nothing protects an event that is not readable: a process
\* that dies while it attests the last event leaves a torn file, which the next
\* process skips and writes its own event over.
EventsNeverReplaced ==
  [][\A k \in DOMAIN eventFiles :
       Holds(eventFiles[k]) /\ Holds(eventFiles'[k]) => eventFiles'[k].id = eventFiles[k].id]_chainVars
=============================================================================
