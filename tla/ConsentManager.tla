--------------------------- MODULE ConsentManager ---------------------------
(* consent/policy.py: what a user allows to be captured, with the history of *)
(* grants and revocations, saved as one file that a crash may truncate.      *)
EXTENDS Integers, Sequences

CONSTANTS
  CaptureTypes,   \* CAPTURE_TYPES; contains "builds"
  MaxHistory      \* bound on the history

ASSUME ConsentAssumption == "builds" \in CaptureTypes /\ MaxHistory \in Nat

VARIABLES
  consent,        \* the manager: [level, approved, history]
  consentFile     \* consent.json: [kind, saved]

consentVars == <<consent, consentFile>>

DefaultConsent == [level |-> "prompt", approved |-> {"builds"}, history |-> <<>>]

\* The file is missing, torn, or holds what was saved.
File(kind, saved) == [kind |-> kind, saved |-> saved]

ConsentInit == consent = DefaultConsent /\ consentFile = File("none", DefaultConsent)

\* _save writes the whole state.
SaveConsent == consentFile' = File("saved", consent')
Noted(action) == Append(consent.history, action)

Grant(t) ==
  /\ Len(consent.history) < MaxHistory
  /\ consent' = [consent EXCEPT !.approved = @ \cup {t}, !.history = Noted(<<"grant", t>>)]
  /\ SaveConsent

\* A revocation is recorded whether or not the type was approved.
Revoke(t) ==
  /\ Len(consent.history) < MaxHistory
  /\ consent' = [consent EXCEPT !.approved = @ \ {t}, !.history = Noted(<<"revoke", t>>)]
  /\ SaveConsent

RevokeAll ==
  /\ Len(consent.history) < MaxHistory
  /\ consent' = [level |-> "none", approved |-> {}, history |-> Noted(<<"revoke_all">>)]
  /\ SaveConsent

\* Mutant: the history is not loaded.
LoadApprovedOnly(f) ==
  IF f.kind = "saved" THEN [f.saved EXCEPT !.history = <<>>] ELSE DefaultConsent

\* A new process: _load keeps the defaults when the file is missing or torn.
LoadConsent(f) == IF f.kind = "saved" THEN f.saved ELSE DefaultConsent

RestartConsent == consent' = LoadConsent(consentFile) /\ UNCHANGED consentFile

\* The process dies in _save, and a new one starts.
CrashInSaveConsent ==
  /\ consentFile' = File("torn", DefaultConsent)
  /\ consent' = LoadConsent(consentFile')

ConsentNext ==
  \/ \E t \in CaptureTypes : Grant(t) \/ Revoke(t)
  \/ RevokeAll \/ RestartConsent \/ CrashInSaveConsent

ConsentSpec == ConsentInit /\ [][ConsentNext]_consentVars
-----------------------------------------------------------------------------
ConsentTypeOK ==
  /\ consent.level \in {"none", "prompt"}
  /\ consent.approved \subseteq CaptureTypes

\* The entries of a history that decide about a type, and the last one of them.
About(t) == {<<"grant", t>>, <<"revoke", t>>, <<"revoke_all">>}
LastAbout(history, t) ==
  {k \in DOMAIN history : /\ history[k] \in About(t)
                          /\ \A j \in k + 1 .. Len(history) : history[j] \notin About(t)}

\* A manager approves a type if its last entry is a grant, or by default.
Follows(c) ==
  \A t \in CaptureTypes :
    t \in c.approved <=>
      IF LastAbout(c.history, t) = {} THEN t = "builds"
      ELSE \E k \in LastAbout(c.history, t) : c.history[k] = <<"grant", t>>

\* "User owns their consent policy and can export/revoke at any time"
\* (consent/policy.py): the types that may be captured are exactly the ones the
\* exported history gives, over restarts and torn files, so a revocation in the
\* history is never undone without a later grant in it.
ConsentFollowsHistory == Follows(consent)
=============================================================================
