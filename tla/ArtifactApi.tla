---------------------------- MODULE ArtifactApi ----------------------------
(***************************************************************************)
(* The chat-to-chain API (membra-chat-to-chain/apps/api/src/server.py).    *)
(*                                                                         *)
(* The handlers are coroutines with no await in them, so each is one step. *)
(* ARTIFACTS_DB, SESSIONS_DB and LEDGER are module variables: a restart    *)
(* empties all three, while the QR payloads and devnet instructions the    *)
(* server handed out stay with their holders.                              *)
(*                                                                         *)
(* A SHA-256 is modelled by what it was computed over.  The first proof    *)
(* hash of an artifact is over its content; hash_artifact computes the     *)
(* next one over the whole record, the old hash and the privacy status     *)
(* included.  A proof is therefore the sequence of privacy statuses at     *)
(* which the record was rehashed, empty for the first hash.                *)
(***************************************************************************)
EXTENDS Naturals, Sequences, FiniteSets, SequencesExt

CONSTANTS
    ArtifactIds,     \* the ids uuid4 gives out, never the same one twice
    ApprovalStatus,  \* privacy statuses a caller sends to approve
    MaxEntries,      \* bound on the entries of LEDGER
    MaxRehash,       \* bound on the rehashes of one artifact
    MaxIssued,       \* bound on the payloads handed out
    MaxSessions,     \* bound on the sessions started
    MaxApiRestarts   \* bound on the restarts of the server

ASSUME ApiAssumption ==
    /\ MaxEntries \in Nat /\ MaxRehash \in Nat /\ MaxIssued \in Nat
    /\ MaxSessions \in Nat /\ MaxApiRestarts \in Nat

VARIABLES
    database,   \* ARTIFACTS_DB
    used,       \* ids given out since the beginning, restarts included
    sessions,   \* Len(SESSIONS_DB)
    auditLog,   \* LEDGER
    issued,     \* proof hashes that left the server in a QR or devnet payload
    payments,   \* artifacts a mainnet payment was prepared for
    apiRestarts

apiVars == <<database, used, sessions, auditLog, issued, payments, apiRestarts>>

ArtifactType == {"prompt_response_pair", "build_epoch", "ui_asset"}

\* "raw" is the hash of the content, "redacted" the one without the prompt.
ContentHash == {"raw", "redacted"}

\* The content of a policy check, by what its three detectors find in it.
Content == [secrets : BOOLEAN, pii : BOOLEAN, blocked : BOOLEAN]

PrivacyStatus == {"private"} \cup ApprovalStatus

ApiTypeOK ==
    /\ used \subseteq ArtifactIds
    /\ DOMAIN database \subseteq used
    /\ \A a \in DOMAIN database :
          /\ database[a].type \in ArtifactType
          /\ database[a].redacted_hash \in ContentHash
          /\ database[a].privacy_status \in PrivacyStatus
          /\ database[a].proof \in Seq(PrivacyStatus)
    /\ sessions \in 0..MaxSessions
    /\ Len(auditLog) <= MaxEntries
    /\ \A p \in issued : p.artifact \in used
    /\ payments \subseteq DOMAIN database
    /\ apiRestarts \in 0..MaxApiRestarts

ApiInit ==
    /\ database = << >> /\ used = {} /\ sessions = 0 /\ auditLog = << >>
    /\ issued = {} /\ payments = {} /\ apiRestarts = 0

\* A creation entry has no status.
NoStatus == "no status"
Entry(action, a, status) == [action |-> action, artifact |-> a, status |-> status]

LogEntry(e) ==
    /\ Len(auditLog) < MaxEntries
    /\ auditLog' = Append(auditLog, e)

StartSession ==
    /\ sessions < MaxSessions
    /\ sessions' = sessions + 1
    /\ UNCHANGED <<database, used, auditLog, issued, payments, apiRestarts>>

----------------------------------------------------------------------------
(* The three constructors differ in the type and in the redacted hash; the *)
(* session id of the request is stored and not looked up.                  *)

NewArtifact(type, redacted) ==
    [type |-> type, redacted_hash |-> redacted, privacy_status |-> "private",
     proof |-> << >>, funding_source |-> "none"]

StoreArtifact(type, redacted) ==
    \E a \in ArtifactIds \ used :
        /\ database' = [x \in DOMAIN database \cup {a} |->
                           IF x = a THEN NewArtifact(type, redacted) ELSE database[x]]
        /\ used' = used \cup {a}
        /\ LogEntry(Entry("artifact_created", a, NoStatus))
        /\ UNCHANGED <<sessions, issued, payments, apiRestarts>>

CreateChatArtifact == StoreArtifact("prompt_response_pair", "redacted")
CreateBuildArtifact == StoreArtifact("build_epoch", "raw")
CreateImageArtifact == StoreArtifact("ui_asset", "raw")

ApproveArtifact ==
    \E a \in DOMAIN database, s \in ApprovalStatus :
        /\ database' = [database EXCEPT ![a].privacy_status = s]
        /\ LogEntry(Entry("artifact_approved", a, s))
        /\ UNCHANGED <<used, sessions, issued, payments, apiRestarts>>

\* Mutant: the old hash is left out of the record.
ProofOfContentOnly(r) == <<r.privacy_status>>

\* sha256 of the sorted record, which still holds the old proof_hash.
ProofOf(r) == Append(r.proof, r.privacy_status)

\* The new hash is stored in the record; LEDGER gets no entry.
HashArtifact ==
    \E a \in DOMAIN database :
        /\ Len(database[a].proof) < MaxRehash
        /\ database' = [database EXCEPT ![a].proof = ProofOf(database[a])]
        /\ UNCHANGED <<used, sessions, auditLog, issued, payments, apiRestarts>>

\* create_qr and devnet/initialize-artifact hand out the proof hash of now.
Payload(a) == [artifact |-> a, proof |-> database[a].proof]
IssuePayload ==
    \E a \in DOMAIN database :
        /\ Cardinality(issued) < MaxIssued
        /\ issued' = issued \cup {Payload(a)}
        /\ UNCHANGED <<database, used, sessions, auditLog, payments, apiRestarts>>

----------------------------------------------------------------------------
\* evaluate_policy_internal: personal data is flagged and does not block.
PolicyAllows(c) == ~c.secrets /\ ~c.blocked

RiskFlags(c) == {f \in {"secrets", "pii"} : c[f]}

\* mainnet_prepare_payment: nothing ever sets the artifact's funding_source,
\* so the request has to bring one.
PreparePayment ==
    \E a \in DOMAIN database, source \in {"none", "buyer"}, c \in Content :
        /\ ~(database[a].funding_source = "none" /\ source = "none")
        /\ PolicyAllows(c)
        /\ payments' = payments \cup {a}
        /\ UNCHANGED <<database, used, sessions, auditLog, issued, apiRestarts>>

ApiRestart ==
    /\ apiRestarts < MaxApiRestarts
    /\ apiRestarts' = apiRestarts + 1
    /\ database' = << >> /\ sessions' = 0 /\ auditLog' = << >> /\ payments' = {}
    /\ UNCHANGED <<used, issued>>

ApiNext ==
    \/ StartSession
    \/ CreateChatArtifact
    \/ CreateBuildArtifact
    \/ CreateImageArtifact
    \/ ApproveArtifact
    \/ HashArtifact
    \/ IssuePayload
    \/ PreparePayment
    \/ ApiRestart

ApiSpec == ApiInit /\ [][ApiNext]_apiVars

----------------------------------------------------------------------------
EntriesOf(log, a) == {i \in DOMAIN log : log[i].artifact = a}

\* What an entry tells of the status: a creation, that it is private.
StatusTold(e) == IF e.action = "artifact_created" THEN "private" ELSE e.status

(* LEDGER accounts for ARTIFACTS_DB: whatever order creations, approvals   *)
(* and restarts come in, the entries of a stored artifact are one creation *)
(* followed by approvals, the last entry tells its present privacy status, *)
(* and there is no entry of an artifact that the restart has lost          *)
(* (server.py create_*_artifact, approve_artifact).                        *)
AuditTrail ==
    /\ \A i \in DOMAIN auditLog : auditLog[i].artifact \in DOMAIN database
    /\ \A a \in DOMAIN database :
          /\ EntriesOf(auditLog, a) # {}
          /\ \A i \in EntriesOf(auditLog, a) :
                /\ (auditLog[i].action = "artifact_created")
                       <=> (\A j \in EntriesOf(auditLog, a) : i <= j)
                /\ (\A j \in EntriesOf(auditLog, a) : j <= i)
                       => StatusTold(auditLog[i]) = database[a].privacy_status

(* The hash in a payload that left the server is the hash of now or one    *)
(* that the present hash was chained from: rehashing makes old payloads    *)
(* stale and never orphans them (server.py hash_artifact, create_qr).      *)
PayloadsTraceable ==
    \A p \in issued :
        p.artifact \in DOMAIN database => IsPrefix(p.proof, database[p.artifact].proof)

(* What the API's records and the payloads it handed out can be held       *)
(* against: the audit trail tells the state of every artifact, and every   *)
(* payload's hash is in the chain of its artifact (server.py).             *)
RecordsTraceable == AuditTrail /\ PayloadsTraceable
=============================================================================
