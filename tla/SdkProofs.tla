------------------------------ MODULE SdkProofs ------------------------------
(***************************************************************************)
(* Proofs about the parts of the SDK that keep their state to themselves,  *)
(* for every set of files, types, prompts and agents and every bound.      *)
(***************************************************************************)
EXTENDS MCSdk, BrainServerProofs, DataTheorems, SequenceTheorems

-----------------------------------------------------------------------------
(* The consent manager *)

Actions == UNION {About(t) : t \in CaptureTypes}
Histories == Seq(Actions)
ConsentStates == [level : {"none", "prompt"}, approved : SUBSET CaptureTypes, history : Histories]

\* An entry decides about one type, or about all of them.
LEMMA AboutCases ==
  ASSUME NEW t, NEW u
  PROVE  /\ <<"grant", u>> \in About(t) <=> u = t
         /\ <<"revoke", u>> \in About(t) <=> u = t
         /\ <<"revoke_all">> \in About(t)
         /\ <<"revoke", u>> # <<"grant", t>>
         /\ <<"revoke_all">> # <<"grant", t>>
BY DEF About

\* The last entry about a type after one more entry.
LEMMA LastAboutAppend ==
  ASSUME NEW h \in Histories, NEW a \in Actions, NEW t
  PROVE  /\ Append(h, a) \in Histories
         /\ a \in About(t) =>
              /\ LastAbout(Append(h, a), t) # {}
              /\ \A k \in LastAbout(Append(h, a), t) : Append(h, a)[k] = a
         /\ a \notin About(t) =>
              /\ \A k : k \in LastAbout(Append(h, a), t) <=> k \in LastAbout(h, t)
              /\ \A k \in LastAbout(h, t) : Append(h, a)[k] = h[k]
<1> DEFINE g == Append(h, a)
           n == Len(h)
<1>1. /\ g \in Histories /\ n \in Nat /\ Len(g) = n + 1 /\ g[n + 1] = a
      /\ DOMAIN h = 1 .. n /\ DOMAIN g = 1 .. n + 1
      /\ \A k \in 1 .. n : g[k] = h[k]
  BY DEF Histories
<1> HIDE DEF g
<1>2. /\ n = Len(h) /\ \A k \in 1 .. n + 1 : k \in 1 .. n \/ k = n + 1
      /\ n + 1 \in 1 .. n + 1 /\ \A j \in (n + 1) + 1 .. n + 1 : FALSE
      /\ \A k \in 1 .. n : k \in 1 .. n + 1 /\ n + 1 \in k + 1 .. n + 1
      /\ \A k \in 1 .. n : \A j \in k + 1 .. n : j \in 1 .. n /\ j \in k + 1 .. n + 1
      /\ \A k \in 1 .. n : \A j \in k + 1 .. n + 1 : j \in k + 1 .. n \/ j = n + 1
  BY <1>1
<1> HIDE DEF n
<1>3. CASE a \in About(t)
  <2>1. n + 1 \in LastAbout(g, t)
    BY <1>1, <1>2, <1>3 DEF LastAbout
  <2>2. \A k \in LastAbout(g, t) : k = n + 1
    BY <1>1, <1>2, <1>3 DEF LastAbout
  <2> QED
    BY <1>1, <1>3, <2>1, <2>2 DEF g
<1>4. CASE a \notin About(t)
  <2>1. \A k \in LastAbout(g, t) : k \in LastAbout(h, t)
    BY <1>1, <1>2, <1>4 DEF LastAbout
  <2>2. \A k \in LastAbout(h, t) : k \in LastAbout(g, t) /\ g[k] = h[k]
    BY <1>1, <1>2, <1>4 DEF LastAbout
  <2> QED
    BY <1>1, <1>4, <2>1, <2>2 DEF g
<1> QED
  BY <1>3, <1>4

\* A manager, and the one in the file, follow their histories.
ConsentOK(c) == c \in ConsentStates /\ Follows(c)
ConsentInv == ConsentOK(consent) /\ ConsentOK(consentFile.saved)

LEMMA DefaultFollows == ConsentOK(DefaultConsent)
<1>1. <<>> \in Histories /\ DOMAIN (<<>>) = {}
  BY DEF Histories
<1>2. DefaultConsent \in ConsentStates
  BY <1>1, ConsentAssumption DEF DefaultConsent, ConsentStates
<1>3. \A t : LastAbout(<<>>, t) = {}
  BY <1>1 DEF LastAbout
<1>4. DefaultConsent.history = <<>> /\ DefaultConsent.approved = {"builds"}
  BY DEF DefaultConsent
<1> QED
  BY <1>2, <1>3, <1>4 DEF ConsentOK, Follows

\* One more entry, and the approvals it makes.
LEMMA ConsentNoted ==
  ASSUME NEW c, ConsentOK(c), NEW a \in Actions, NEW d,
         d.level \in {"none", "prompt"}, d.approved \subseteq CaptureTypes,
         d = [level |-> d.level, approved |-> d.approved, history |-> Append(c.history, a)],
         \A t \in CaptureTypes : a \in About(t) => (t \in d.approved <=> a = <<"grant", t>>),
         \A t \in CaptureTypes : a \notin About(t) => (t \in d.approved <=> t \in c.approved)
  PROVE  ConsentOK(d)
<1> DEFINE h == c.history
           g == Append(h, a)
<1>1. h \in Histories
  BY DEF ConsentOK, ConsentStates
<1>2. g \in Histories
  BY <1>1, LastAboutAppend
<1>3. d.history = g
  OBVIOUS
<1> HIDE DEF g
<1>4. d \in ConsentStates
  <2> DEFINE l == d.level
             s == d.approved
  <2>1. d = [level |-> l, approved |-> s, history |-> g]
    BY DEF g
  <2>2. l \in {"none", "prompt"} /\ s \in SUBSET CaptureTypes
    OBVIOUS
  <2> HIDE DEF l, s
  <2> QED
    BY <1>2, <2>1, <2>2 DEF ConsentStates
<1>5. ASSUME NEW t \in CaptureTypes
      PROVE  t \in d.approved <=>
               IF LastAbout(g, t) = {} THEN t = "builds"
               ELSE \E k \in LastAbout(g, t) : g[k] = <<"grant", t>>
  <2>1. CASE a \in About(t)
    <3>1. LastAbout(g, t) # {} /\ \A k \in LastAbout(g, t) : g[k] = a
      BY <1>1, <2>1, LastAboutAppend DEF g
    <3> QED
      BY <2>1, <3>1
  <2>2. CASE a \notin About(t)
    <3> HIDE DEF h
    <3>1. /\ \A k : k \in LastAbout(g, t) <=> k \in LastAbout(h, t)
          /\ \A k \in LastAbout(h, t) : g[k] = h[k]
      BY <1>1, <2>2, LastAboutAppend DEF g
    <3>2. t \in c.approved <=>
            IF LastAbout(h, t) = {} THEN t = "builds"
            ELSE \E k \in LastAbout(h, t) : h[k] = <<"grant", t>>
      BY DEF ConsentOK, Follows, h
    <3>3. LastAbout(g, t) = LastAbout(h, t)
      BY <3>1
    <3> QED
      BY <2>2, <3>1, <3>2, <3>3
  <2> QED
    BY <2>1, <2>2
<1> QED
  BY <1>3, <1>4, <1>5 DEF ConsentOK, Follows

LEMMA ConsentNextInv == ConsentInv /\ [ConsentNext]_consentVars => ConsentInv'
<1> SUFFICES ASSUME ConsentInv, [ConsentNext]_consentVars PROVE ConsentInv'
  OBVIOUS
<1>1. ConsentOK(consent) /\ ConsentOK(consentFile.saved) /\ consent \in ConsentStates
  BY DEF ConsentInv, ConsentOK
<1>2. consent.approved \subseteq CaptureTypes /\ consent.level \in {"none", "prompt"}
      /\ consent = [level |-> consent.level, approved |-> consent.approved, history |-> consent.history]
  <2> DEFINE H == Histories
  <2> HIDE DEF H
  <2>1. consent \in [level : {"none", "prompt"}, approved : SUBSET CaptureTypes, history : H]
    BY <1>1 DEF ConsentStates, H
  <2> QED
    BY <2>1
<1>3. ASSUME SaveConsent, ConsentOK(consent') PROVE ConsentInv'
  BY <1>3 DEF SaveConsent, File, ConsentInv
<1>4. ASSUME NEW t \in CaptureTypes, Grant(t) PROVE ConsentInv'
  <2> DEFINE a == <<"grant", t>>
             d == consent'
  <2>1. d = [level |-> consent.level, approved |-> consent.approved \cup {t},
             history |-> Append(consent.history, a)]
    BY <1>2, <1>4 DEF Grant, Noted
  <2>2. a \in Actions
    BY DEF Actions, About
  <2>3. \A u \in CaptureTypes : (a \in About(u) <=> u = t) /\ (a = <<"grant", u>> <=> u = t)
    BY AboutCases
  <2>4. d.level = consent.level /\ d.approved = consent.approved \cup {t}
    BY <2>1
  <2> HIDE DEF a, d
  <2>5. /\ d.level \in {"none", "prompt"} /\ d.approved \subseteq CaptureTypes
        /\ d = [level |-> d.level, approved |-> d.approved, history |-> Append(consent.history, a)]
        /\ \A u \in CaptureTypes : a \in About(u) => (u \in d.approved <=> a = <<"grant", u>>)
        /\ \A u \in CaptureTypes : a \notin About(u) => (u \in d.approved <=> u \in consent.approved)
    BY <1>2, <2>1, <2>3, <2>4
  <2>6. ConsentOK(d)
    BY <1>1, <2>2, <2>5, ConsentNoted
  <2> QED
    BY <1>3, <1>4, <2>6 DEF Grant, d
<1>5. ASSUME NEW t \in CaptureTypes, Revoke(t) PROVE ConsentInv'
  <2> DEFINE a == <<"revoke", t>>
             d == consent'
  <2>1. d = [level |-> consent.level, approved |-> consent.approved \ {t},
             history |-> Append(consent.history, a)]
    BY <1>2, <1>5 DEF Revoke, Noted
  <2>2. a \in Actions
    BY DEF Actions, About
  <2>3. \A u \in CaptureTypes : (a \in About(u) <=> u = t) /\ a # <<"grant", u>>
    BY AboutCases
  <2>4. d.level = consent.level /\ d.approved = consent.approved \ {t}
    BY <2>1
  <2> HIDE DEF a, d
  <2>5. ConsentOK(d)
    BY <1>1, <1>2, <2>1, <2>2, <2>3, <2>4, ConsentNoted
  <2> QED
    BY <1>3, <1>5, <2>5 DEF Revoke, d
<1>6. CASE RevokeAll
  <2> DEFINE a == <<"revoke_all">>
             d == consent'
  <2>1. d = [level |-> "none", approved |-> {}, history |-> Append(consent.history, a)]
    BY <1>6 DEF RevokeAll, Noted
  <2>2. a \in Actions
    BY ConsentAssumption DEF Actions, About
  <2>3. \A u \in CaptureTypes : a \in About(u) /\ a # <<"grant", u>>
    BY AboutCases
  <2>4. d.level = "none" /\ d.approved = {}
    BY <2>1
  <2> HIDE DEF a, d
  <2>5. ConsentOK(d)
    BY <1>1, <2>1, <2>2, <2>3, <2>4, ConsentNoted
  <2> QED
    BY <1>3, <1>6, <2>5 DEF RevokeAll, d
<1>7. CASE RestartConsent
  BY <1>1, <1>7, DefaultFollows DEF RestartConsent, LoadConsent, ConsentInv
<1>8. CASE CrashInSaveConsent
  BY <1>8, DefaultFollows DEF CrashInSaveConsent, LoadConsent, File, ConsentInv
<1>9. CASE UNCHANGED consentVars
  BY <1>9 DEF consentVars, ConsentInv
<1> QED
  BY <1>4, <1>5, <1>6, <1>7, <1>8, <1>9 DEF ConsentNext

\* The manager and its file follow their histories over any sequence of grants,
\* revocations, restarts and torn files, however long the history.
THEOREM ConsentInvariant == ConsentSpec => []ConsentInv
<1>1. ConsentInit => ConsentInv
  BY DefaultFollows DEF ConsentInit, File, ConsentInv
<1> QED
  BY <1>1, ConsentNextInv, PTL DEF ConsentSpec

\* A type may be captured exactly when the last entry about it in the exported
\* history is a grant, or there is none and it is the default.
THEOREM ConsentObeyed == ConsentSpec => []ConsentFollowsHistory
<1>1. ConsentInv => ConsentFollowsHistory
  BY DEF ConsentInv, ConsentOK, ConsentFollowsHistory
<1> QED
  BY <1>1, ConsentInvariant, PTL

-----------------------------------------------------------------------------
(* The job pipeline *)

Inputs == ScoreInputs \cup {{}}
Scored == [job : Nat, report : {Measure(in) : in \in Inputs}]
Verdict == [job : Nat, scored : Nat, result : {"accepted", "rejected"}]
YieldStates == {<<>>} \cup {<<y>> : y \in Scored}
VerdictStates == {<<>>} \cup {<<v>> : v \in Verdict}
SentEvents == [phase : {"sent"}, shown : Nat, in : Inputs]
RunningEvents == [phase : {"running"}, job : Nat, in : Inputs, yields : YieldStates, verdict : VerdictStates]
Events == {NoEvent} \cup SentEvents \cup RunningEvents

\* What a handler reads of the session: a verdict comes after a score, neither
\* is for a newer job, and the verdict is on no newer score.
Session(job, yields, verdict) ==
  /\ yields # <<>> => yields[1].job <= job
  /\ verdict # <<>> =>
       /\ yields # <<>> /\ verdict[1].job <= job
       /\ verdict[1].scored <= yields[1].job /\ verdict[1].scored <= verdict[1].job

\* The copy in flight, cp, carries a job that is not older than job_state and,
\* once the compilation of its click has returned, older than the newest.
CopyOK(cp, co, state, n) ==
  /\ state <= n
  /\ cp.phase = "sent" => state <= cp.shown /\ cp.shown <= n
  /\ co = NoEvent /\ n # 0 => state < n /\ (cp.phase = "sent" => cp.shown < n)
  /\ co # NoEvent => n < MaxJobs

\* A handler that runs has read a session, of a job that is not newer.
ReadOK(e, state) == e.phase = "running" => Session(e.job, e.yields, e.verdict) /\ e.job <= state

\* The score that a handler will write replaces no newer one ...
ScoreOK(e, yields) == e.phase = "running" /\ yields # <<>> => yields[1].job <= e.job

\* ... and the one that the validators read has been replaced by no older one.
ConsensusOK(e, yields) ==
  e.phase = "running" /\ e.yields # <<>> => yields # <<>> /\ e.yields[1].job <= yields[1].job

PipeTypes ==
  /\ compiled \in Nat /\ compiled <= MaxJobs /\ job_output = compiled /\ job_state \in Nat
  /\ yield_state \in YieldStates /\ consensus_state \in VerdictStates
  /\ event \in [Listeners -> Events]
  /\ event["compile"] \in {NoEvent} \cup SentEvents
  /\ event["copy"] \in {NoEvent} \cup SentEvents

BundlesOK == \A b \in bundles : b.preview \in {"unsettlable", "low_yield", "settlable"}

PipeOrder ==
  /\ Session(job_state, yield_state, consensus_state)
  /\ CopyOK(event["copy"], event["compile"], job_state, compiled)
  /\ \A l \in {"score", "consensus", "export"} : ReadOK(event[l], job_state)
  /\ ScoreOK(event["score"], yield_state)
  /\ ConsensusOK(event["consensus"], yield_state)

PipeInv == PipeTypes /\ PipeOrder /\ BundlesOK /\ NeverFromNewerJob

LEMMA EventCases ==
  /\ NoEvent.phase = "idle"
  /\ \A e \in SentEvents : e.phase = "sent" /\ e.shown \in Nat /\ e.in \in Inputs
  /\ \A e \in RunningEvents :
       /\ e.phase = "running" /\ e.job \in Nat /\ e.in \in Inputs
       /\ e.yields \in YieldStates /\ e.verdict \in VerdictStates
  /\ \A e \in Events : (e = NoEvent <=> e.phase = "idle")
                       /\ (e \in SentEvents <=> e.phase = "sent")
                       /\ (e \in RunningEvents <=> e.phase = "running")
<1>1. NoEvent.phase = "idle"
  BY DEF NoEvent
<1>2. \A e \in SentEvents : e.phase = "sent" /\ e.shown \in Nat /\ e.in \in Inputs
  BY DEF SentEvents
<1>3. \A e \in RunningEvents :
        /\ e.phase = "running" /\ e.job \in Nat /\ e.in \in Inputs
        /\ e.yields \in YieldStates /\ e.verdict \in VerdictStates
  BY DEF RunningEvents
<1>4. \A e \in Events : e = NoEvent \/ e \in SentEvents \/ e \in RunningEvents
  BY DEF Events
<1> QED
  BY <1>1, <1>2, <1>3, <1>4

LEMMA YieldCases ==
  /\ \A y \in YieldStates : y # <<>> => y[1] \in Scored /\ y[1].job \in Nat
  /\ \A v \in VerdictStates : v # <<>> => v[1] \in Verdict /\ v[1].job \in Nat /\ v[1].scored \in Nat
  /\ \A y \in Scored : <<y>> \in YieldStates /\ <<y>> # <<>> /\ <<y>>[1] = y
  /\ \A v \in Verdict : <<v>> \in VerdictStates /\ <<v>> # <<>> /\ <<v>>[1] = v
<1>1. \A y \in Scored : y.job \in Nat
  BY DEF Scored
<1>2. \A v \in Verdict : v.job \in Nat /\ v.scored \in Nat
  BY DEF Verdict
<1>3. /\ \A y \in Scored : <<y>> \in YieldStates /\ <<y>> # <<>> /\ <<y>>[1] = y
      /\ \A v \in Verdict : <<v>> \in VerdictStates /\ <<v>> # <<>> /\ <<v>>[1] = v
  BY DEF YieldStates, VerdictStates
<1>4. /\ \A y \in YieldStates : y # <<>> => \E x \in Scored : y = <<x>>
      /\ \A v \in VerdictStates : v # <<>> => \E x \in Verdict : v = <<x>>
  BY DEF YieldStates, VerdictStates
<1>5. /\ \A y \in YieldStates : y # <<>> => y[1] \in Scored
      /\ \A v \in VerdictStates : v # <<>> => v[1] \in Verdict
  BY <1>4
<1> QED
  BY <1>1, <1>2, <1>3, <1>5

LEMMA PipeInitInv == PipeInit => PipeInv
<1> SUFFICES ASSUME PipeInit PROVE PipeInv
  OBVIOUS
<1>1. \A l \in Listeners : event[l] = NoEvent
  BY DEF PipeInit
<1>2. PipeTypes
  BY PipeAssumption DEF PipeInit, PipeTypes, Events, None, YieldStates, VerdictStates, Listeners
<1>3. PipeOrder
  BY <1>1, EventCases DEF PipeInit, PipeOrder, Session, CopyOK, ReadOK, ScoreOK, ConsensusOK, None,
     Listeners
<1> QED
  BY <1>2, <1>3 DEF PipeInit, PipeInv, BundlesOK, NeverFromNewerJob

\* A click sends what the browser shows, and disturbs no handler that runs.
LEMMA PipeClicks ==
  ASSUME PipeInv, ClickCompile \/ ClickScore \/ Click("consensus") \/ ClickExport
  PROVE  PipeInv'
<1> USE DEF Listeners
<1>1. PipeTypes /\ PipeOrder
  BY DEF PipeInv
<1>2. UNCHANGED <<compiled, job_output, job_state, yield_state, consensus_state, bundles>>
  BY DEF ClickCompile, ClickScore, Click, ClickExport
<1>3. \A l \in Listeners, in \in Inputs :
        Sent(l, in) = event[l] \/ (event[l] = NoEvent /\ Sent(l, in) \in SentEvents /\ Sent(l, in).shown = job_output)
  BY <1>1 DEF Sent, SentEvents, PipeTypes
<1>4. {} \in Inputs /\ \A in \in ScoreInputs : in \in Inputs
  BY DEF Inputs
<1>5. CASE ClickCompile
  <2>1. /\ event' = [l \in Listeners |-> IF OnCompileClick(l) THEN Sent(l, {}) ELSE event[l]]
        /\ event' # event /\ compiled < MaxJobs
    BY <1>5 DEF ClickCompile
  <2>2. /\ event'["compile"] = Sent("compile", {}) /\ event'["copy"] = Sent("copy", {})
        /\ \A l \in {"score", "consensus", "export"} : event'[l] = event[l]
        /\ DOMAIN event' = Listeners
    BY <2>1 DEF OnCompileClick
  <2>3. event' \in [Listeners -> Events]
    BY <1>1, <1>3, <1>4, <2>1 DEF PipeTypes, Events
  <2>4. /\ event'["compile"] \in {NoEvent} \cup SentEvents
        /\ event'["copy"] \in {NoEvent} \cup SentEvents
    BY <1>1, <1>3, <1>4, <2>2 DEF PipeTypes
  <2>5. event'["compile"] # NoEvent
    BY <1>1, <1>3, <1>4, <2>2, EventCases DEF Sent, NoEvent
  <2>6. PipeTypes'
    BY <1>1, <1>2, <2>3, <2>4 DEF PipeTypes
  <2>7. CopyOK(event'["copy"], event'["compile"], job_state, compiled)
    <3>1. compiled \in Nat /\ job_state \in Nat /\ job_output = compiled
      BY <1>1 DEF PipeTypes
    <3>2. event'["copy"] = event["copy"] \/ event'["copy"].shown = compiled
      BY <1>3, <1>4, <2>2, <3>1
    <3>3. CopyOK(event["copy"], event["compile"], job_state, compiled)
      BY <1>1 DEF PipeOrder
    <3> QED
      BY <2>1, <2>5, <3>1, <3>2, <3>3 DEF CopyOK
  <2>8. PipeOrder'
    BY <1>1, <1>2, <2>2, <2>7 DEF PipeOrder
  <2> QED
    BY <1>2, <2>6, <2>8 DEF PipeInv, BundlesOK, NeverFromNewerJob
<1>6. CASE ClickScore \/ Click("consensus") \/ ClickExport
  <2>1. PICK l \in {"score", "consensus", "export"}, in \in Inputs :
          event[l] = NoEvent /\ event' = [event EXCEPT ![l] = Sent(l, in)]
    BY <1>4, <1>6 DEF ClickScore, Click, ClickExport
  <2>2. Sent(l, in) \in SentEvents
    BY <1>1, <1>3, <2>1 DEF Sent, SentEvents, PipeTypes
  <2>3. Sent(l, in).phase = "sent"
    BY <2>2, EventCases
  <2>4. /\ event' \in [Listeners -> Events] /\ event'["compile"] = event["compile"]
        /\ event'["copy"] = event["copy"]
        /\ \A k \in {"score", "consensus", "export"} :
             event'[k] = event[k] \/ event'[k].phase = "sent"
    BY <1>1, <2>1, <2>2, <2>3 DEF PipeTypes, Events
  <2>5. PipeTypes'
    BY <1>1, <1>2, <2>4 DEF PipeTypes
  <2>6. PipeOrder'
    BY <1>1, <1>2, <2>4 DEF PipeOrder, ReadOK, ScoreOK, ConsensusOK
  <2> QED
    BY <1>2, <2>5, <2>6 DEF PipeInv, BundlesOK, NeverFromNewerJob
<1> QED
  BY <1>5, <1>6

\* The compilation and the copy of the same click return in either order.
LEMMA PipeCompiles ==
  ASSUME PipeInv, CompileReturns \/ CopyReturns
  PROVE  PipeInv'
<1> USE DEF Listeners
<1>1. /\ compiled \in Nat /\ job_state \in Nat /\ job_output = compiled /\ compiled <= MaxJobs
      /\ event \in [Listeners -> Events] /\ MaxJobs \in Nat
      /\ CopyOK(event["copy"], event["compile"], job_state, compiled)
      /\ event["copy"] \in Events /\ event["compile"] \in Events
      /\ yield_state \in YieldStates /\ consensus_state \in VerdictStates
  BY PipeAssumption DEF PipeInv, PipeTypes, PipeOrder
<1>2. NoEvent \in Events
  BY DEF Events
<1>3. CASE CompileReturns
  <2>1. /\ compiled' = compiled + 1 /\ job_output' = compiled + 1
        /\ event' = [event EXCEPT !["compile"] = NoEvent] /\ event["compile"].phase = "sent"
        /\ UNCHANGED <<job_state, yield_state, consensus_state, bundles>>
    BY <1>3 DEF CompileReturns, Returns
  <2>2. /\ event' \in [Listeners -> Events] /\ event'["compile"] = NoEvent
        /\ \A l \in {"copy", "score", "consensus", "export"} : event'[l] = event[l]
    BY <1>1, <1>2, <2>1
  <2>3. event["compile"] # NoEvent
    BY <1>1, <2>1, EventCases
  <2>4. event["copy"].phase = "sent" => event["copy"].shown \in Nat
    BY <1>1, EventCases
  <2>5. compiled' \in Nat /\ compiled' <= MaxJobs /\ job_output' = compiled'
    BY <1>1, <2>1, <2>3 DEF CopyOK
  <2>6. CopyOK(event'["copy"], event'["compile"], job_state, compiled + 1)
    BY <1>1, <2>2, <2>4 DEF CopyOK
  <2>7. PipeTypes'
    BY <2>1, <2>2, <2>5 DEF PipeInv, PipeTypes
  <2>8. PipeOrder'
    BY <2>1, <2>2, <2>6 DEF PipeInv, PipeOrder
  <2> QED
    BY <2>1, <2>7, <2>8 DEF PipeInv, BundlesOK, NeverFromNewerJob
<1>4. CASE CopyReturns
  <2> DEFINE shown == event["copy"].shown
  <2>1. /\ job_state' = shown /\ event' = [event EXCEPT !["copy"] = NoEvent]
        /\ event["copy"].phase = "sent"
        /\ UNCHANGED <<compiled, job_output, yield_state, consensus_state, bundles>>
    BY <1>4 DEF CopyReturns, Returns
  <2>2. /\ event' \in [Listeners -> Events] /\ event'["copy"] = NoEvent
        /\ \A l \in {"compile", "score", "consensus", "export"} : event'[l] = event[l]
    BY <1>1, <1>2, <2>1
  <2>3. shown \in Nat
    BY <1>1, <2>1, EventCases
  <2>4. job_state <= shown /\ shown <= compiled
    BY <1>1, <2>1 DEF CopyOK
  <2>5. CopyOK(event'["copy"], event'["compile"], shown, compiled)
    BY <1>1, <2>1, <2>2, <2>4, EventCases DEF CopyOK
  <2> HIDE DEF shown
  <2>6. PipeTypes'
    BY <2>1, <2>2, <2>3 DEF PipeInv, PipeTypes
  <2>7. Session(shown, yield_state, consensus_state)
    BY <1>1, <2>3, <2>4, YieldCases DEF PipeInv, PipeOrder, Session
  <2>8. \A l \in {"score", "consensus", "export"} : ReadOK(event'[l], shown)
    <3> SUFFICES ASSUME NEW l \in {"score", "consensus", "export"}, event[l].phase = "running"
                 PROVE  Session(event[l].job, event[l].yields, event[l].verdict) /\ event[l].job <= shown
      BY <2>2 DEF ReadOK
    <3>1. event[l] \in Events
      BY <1>1
    <3>2. event[l].job \in Nat
      BY <3>1, EventCases
    <3> QED
      BY <1>1, <2>3, <2>4, <3>2 DEF PipeInv, PipeOrder, ReadOK
  <2>9. PipeOrder'
    BY <2>1, <2>2, <2>5, <2>7, <2>8 DEF PipeInv, PipeOrder
  <2> QED
    BY <2>1, <2>6, <2>9 DEF PipeInv, BundlesOK, NeverFromNewerJob
<1> QED
  BY <1>3, <1>4

\* A handler starts: it reads the session as it is.
LEMMA PipeStarts ==
  ASSUME PipeInv, NEW l \in {"score", "consensus", "export"}, Starts(l)
  PROVE  PipeInv'
<1> USE DEF Listeners
<1> DEFINE e == [phase |-> "running", job |-> job_state, in |-> event[l].in,
                 yields |-> yield_state, verdict |-> consensus_state]
<1>1. /\ event' = [event EXCEPT ![l] = e] /\ event[l].phase = "sent"
      /\ UNCHANGED <<compiled, job_output, job_state, yield_state, consensus_state, bundles>>
  BY DEF Starts, JobGiven
<1>2. /\ job_state \in Nat /\ yield_state \in YieldStates /\ consensus_state \in VerdictStates
      /\ event \in [Listeners -> Events] /\ event[l] \in Events
  BY DEF PipeInv, PipeTypes
<1>3. event[l].in \in Inputs
  BY <1>1, <1>2, EventCases
<1>4. e \in RunningEvents
  BY <1>2, <1>3 DEF RunningEvents
<1>5. e.job = job_state /\ e.yields = yield_state /\ e.verdict = consensus_state
  OBVIOUS
<1> HIDE DEF e
<1>6. /\ event' \in [Listeners -> Events] /\ event'[l] = e
      /\ \A k \in Listeners : k # l => event'[k] = event[k]
  BY <1>1, <1>2, <1>4 DEF Events
<1>7. event'["compile"] = event["compile"] /\ event'["copy"] = event["copy"]
  BY <1>6
<1>8. PipeTypes'
  BY <1>1, <1>6, <1>7 DEF PipeInv, PipeTypes
<1>9. ReadOK(e, job_state) /\ ScoreOK(e, yield_state) /\ ConsensusOK(e, yield_state)
  BY <1>2, <1>5, YieldCases DEF PipeInv, PipeOrder, ReadOK, ScoreOK, ConsensusOK, Session
<1>10. /\ \A k \in {"score", "consensus", "export"} : ReadOK(event'[k], job_state)
       /\ ScoreOK(event'["score"], yield_state) /\ ConsensusOK(event'["consensus"], yield_state)
  BY <1>6, <1>9 DEF PipeInv, PipeOrder
<1>11. PipeOrder'
  BY <1>1, <1>7, <1>10 DEF PipeInv, PipeOrder
<1> QED
  BY <1>1, <1>8, <1>11 DEF PipeInv, BundlesOK, NeverFromNewerJob

\* A handler returns what it made of the session it had read.
LEMMA PipeReturns ==
  ASSUME PipeInv, ScoreReturns \/ ConsensusReturns \/ ExportReturns
  PROVE  PipeInv'
<1> USE DEF Listeners
<1>1. /\ job_state \in Nat /\ yield_state \in YieldStates /\ consensus_state \in VerdictStates
      /\ event \in [Listeners -> Events] /\ Session(job_state, yield_state, consensus_state)
  BY DEF PipeInv, PipeTypes, PipeOrder
<1>2. NoEvent \in Events /\ NoEvent.phase = "idle"
  BY EventCases DEF Events
<1>3. ASSUME NEW l \in {"score", "consensus", "export"}, Returns(l)
      PROVE  /\ event' \in [Listeners -> Events] /\ event'[l] = NoEvent
             /\ \A k \in Listeners : k # l => event'[k] = event[k]
             /\ event'["compile"] = event["compile"] /\ event'["copy"] = event["copy"]
  BY <1>1, <1>2, <1>3 DEF Returns
<1>4. ASSUME NEW l \in {"score", "consensus", "export"}, Running(l)
      PROVE  /\ event[l] \in RunningEvents /\ event[l].job \in Nat /\ event[l].in \in Inputs
             /\ event[l].yields \in YieldStates /\ event[l].verdict \in VerdictStates
             /\ Session(event[l].job, event[l].yields, event[l].verdict) /\ event[l].job <= job_state
  <2>1. event[l] \in Events /\ event[l].phase = "running"
    BY <1>1, <1>4 DEF Running
  <2> QED
    BY <2>1, EventCases DEF PipeInv, PipeOrder, ReadOK
<1>5. ASSUME NEW l \in {"score", "consensus", "export"}, Returns(l)
      PROVE  \A k \in {"score", "consensus", "export"} : ReadOK(event'[k], job_state)
  BY <1>2, <1>3, <1>5 DEF PipeInv, PipeOrder, ReadOK
<1>6. CASE ScoreReturns
  <2> DEFINE e == event["score"]
             y == [job |-> e.job, report |-> Measure(e.in)]
  <2>1. /\ Running("score") /\ Returns("score")
        /\ yield_state' = IF e.job = None THEN yield_state ELSE <<y>>
        /\ UNCHANGED <<compiled, job_output, job_state, consensus_state, bundles>>
    BY <1>6 DEF ScoreReturns
  <2>2. y \in Scored /\ y.job = e.job /\ e.job \in Nat /\ e.job <= job_state
    BY <1>4, <2>1 DEF Scored
  <2>3. yield_state # <<>> => yield_state[1].job <= e.job
    BY <2>1 DEF PipeInv, PipeOrder, ScoreOK, Running
  <2>4. /\ event' \in [Listeners -> Events] /\ event'["score"] = NoEvent
        /\ event'["consensus"] = event["consensus"]
        /\ event'["compile"] = event["compile"] /\ event'["copy"] = event["copy"]
    BY <1>3, <2>1
  <2> HIDE DEF e, y
  <2>5. CASE yield_state' = yield_state
    <3>1. PipeTypes'
      BY <2>1, <2>4, <2>5 DEF PipeInv, PipeTypes
    <3>2. PipeOrder'
      BY <1>2, <1>5, <2>1, <2>4, <2>5 DEF PipeInv, PipeOrder, ScoreOK
    <3> QED
      BY <2>1, <3>1, <3>2 DEF PipeInv, BundlesOK, NeverFromNewerJob
  <2>6. CASE yield_state' = <<y>>
    <3>1. yield_state' \in YieldStates /\ yield_state' # <<>> /\ yield_state'[1] = y
      BY <2>2, <2>6, YieldCases
    <3>2. PipeTypes'
      BY <2>1, <2>4, <3>1 DEF PipeInv, PipeTypes
    <3> DEFINE new == yield_state'
    <3>3. new # <<>> /\ new[1].job = e.job
      BY <2>2, <3>1
    <3> HIDE DEF new
    <3>4. Session(job_state, new, consensus_state)
      BY <1>1, <2>2, <2>3, <3>3, YieldCases DEF Session
    <3>5. ConsensusOK(event["consensus"], new)
      <4> DEFINE c == event["consensus"]
      <4> SUFFICES ASSUME c.phase = "running", c.yields # <<>>
                   PROVE  c.yields[1].job <= e.job
        BY <3>3 DEF ConsensusOK
      <4>1. yield_state # <<>> /\ c.yields[1].job <= yield_state[1].job
        BY DEF PipeInv, PipeOrder, ConsensusOK
      <4>2. c.yields \in YieldStates
        BY <1>4 DEF Running
      <4>3. c.yields[1].job \in Nat /\ yield_state[1].job \in Nat
        BY <1>1, <4>1, <4>2, YieldCases
      <4> QED
        BY <2>2, <2>3, <4>1, <4>3
    <3>6. PipeOrder'
      BY <1>2, <1>5, <2>1, <2>4, <3>4, <3>5 DEF PipeInv, PipeOrder, ScoreOK, new
    <3> QED
      BY <2>1, <3>2, <3>6 DEF PipeInv, BundlesOK, NeverFromNewerJob
  <2> QED
    BY <2>1, <2>5, <2>6
<1>7. CASE ConsensusReturns
  <2> DEFINE e == event["consensus"]
             v == [job |-> e.job, scored |-> e.yields[1].job,
                   result |-> Evaluate(ExpectedOutputs, e.yields[1].report)]
  <2>1. /\ Running("consensus") /\ Returns("consensus")
        /\ consensus_state' = IF e.job = None \/ e.yields = <<>> THEN consensus_state ELSE <<v>>
        /\ UNCHANGED <<compiled, job_output, job_state, yield_state, bundles>>
    BY <1>7 DEF ConsensusReturns
  <2>2. /\ e.job \in Nat /\ e.job <= job_state /\ e.yields \in YieldStates
        /\ e.yields # <<>> => e.yields[1].job <= e.job
    BY <1>4, <2>1 DEF Session
  <2>3. e.yields # <<>> => yield_state # <<>> /\ e.yields[1].job <= yield_state[1].job
    BY <2>1 DEF PipeInv, PipeOrder, ConsensusOK, Running
  <2>4. /\ event' \in [Listeners -> Events] /\ event'["consensus"] = NoEvent
        /\ event'["score"] = event["score"]
        /\ event'["compile"] = event["compile"] /\ event'["copy"] = event["copy"]
    BY <1>3, <2>1
  <2>5. e.yields # <<>> => v \in Verdict /\ v.job = e.job /\ v.scored = e.yields[1].job
    BY <2>2, YieldCases DEF Verdict, Evaluate
  <2> HIDE DEF e, v
  <2>6. consensus_state' = consensus_state \/ (e.yields # <<>> /\ consensus_state' = <<v>>)
    BY <2>1
  <2>7. consensus_state' \in VerdictStates
    BY <1>1, <2>5, <2>6, YieldCases
  <2>8. Session(job_state, yield_state, consensus_state')
    <3>1. CASE consensus_state' = consensus_state
      BY <1>1, <3>1
    <3>2. CASE e.yields # <<>> /\ consensus_state' = <<v>>
      <4>1. consensus_state'[1] = v
        BY <2>5, <3>2, YieldCases
      <4> QED
        BY <1>1, <2>2, <2>3, <2>5, <3>2, <4>1 DEF Session
    <3> QED
      BY <2>6, <3>1, <3>2
  <2>9. PipeTypes'
    BY <2>1, <2>4, <2>7 DEF PipeInv, PipeTypes
  <2>10. PipeOrder'
    BY <1>2, <1>5, <2>1, <2>4, <2>8 DEF PipeInv, PipeOrder, ConsensusOK
  <2> QED
    BY <2>1, <2>9, <2>10 DEF PipeInv, BundlesOK, NeverFromNewerJob
<1>8. CASE ExportReturns
  <2> DEFINE e == event["export"]
             b == Bundle(e)
  <2>1. /\ Running("export") /\ Returns("export")
        /\ bundles' = IF e.job = None \/ e.verdict = <<>> THEN bundles ELSE bundles \cup {b}
        /\ UNCHANGED <<compiled, job_output, job_state, yield_state, consensus_state>>
    BY <1>8 DEF ExportReturns
  <2>2. Session(e.job, e.yields, e.verdict)
    BY <1>4, <2>1
  <2>3. /\ event' \in [Listeners -> Events] /\ event'["consensus"] = event["consensus"]
        /\ event'["score"] = event["score"]
        /\ event'["compile"] = event["compile"] /\ event'["copy"] = event["copy"]
    BY <1>3, <2>1
  <2>4. /\ b.job = e.job /\ b.scored = e.yields[1].job /\ b.consensus = e.verdict[1]
        /\ b.preview \in {"unsettlable", "low_yield", "settlable"}
    BY DEF Bundle, Preview
  <2>5. e.verdict # <<>> => /\ b.scored <= b.job /\ b.consensus.job <= b.job
                            /\ b.consensus.scored <= b.scored
                            /\ b.consensus.scored <= b.consensus.job
    BY <2>2, <2>4 DEF Session
  <2> HIDE DEF e, b
  <2>6. PipeTypes'
    BY <2>1, <2>3 DEF PipeInv, PipeTypes
  <2>7. PipeOrder'
    BY <1>5, <2>1, <2>3 DEF PipeInv, PipeOrder
  <2>8. BundlesOK' /\ NeverFromNewerJob'
    BY <2>1, <2>4, <2>5 DEF PipeInv, BundlesOK, NeverFromNewerJob
  <2> QED
    BY <2>6, <2>7, <2>8 DEF PipeInv
<1> QED
  BY <1>6, <1>7, <1>8

LEMMA PipeNextInv == PipeInv /\ [PipeNext]_pipeVars => PipeInv'
<1> SUFFICES ASSUME PipeInv, [PipeNext]_pipeVars PROVE PipeInv'
  OBVIOUS
<1>1. CASE UNCHANGED pipeVars
  BY <1>1 DEF pipeVars, PipeInv, PipeTypes, PipeOrder, BundlesOK, NeverFromNewerJob
<1>2. CASE PipeNext
  BY <1>2, PipeClicks, PipeCompiles, PipeStarts, PipeReturns DEF PipeNext
<1> QED
  BY <1>1, <1>2

\* However many jobs are compiled and however the five listeners interleave,
\* the session is ordered as PipeOrder says.
THEOREM PipeInvariant == PipeSpec => []PipeInv
<1>1. PipeInit => PipeInv
  BY PipeInitInv
<1> QED
  BY <1>1, PipeNextInv, PTL DEF PipeSpec

\* No bundle of the demo holds a verdict or a score of a job newer than its own,
\* and its verdict was not reached on a score newer than its own (app.py
\* run_consensus, export_proof).
THEOREM PipeNeverFromNewerJob == PipeSpec => []NeverFromNewerJob
<1>1. PipeInv => NeverFromNewerJob
  BY DEF PipeInv
<1> QED
  BY <1>1, PipeInvariant, PTL

-----------------------------------------------------------------------------
(* The votes of a round *)

VoteSet == [agent : Agents \cup {"self"}, inference : Inferences, yield : Yields]
VoteLists == Seq(VoteSet)

\* The most frequent value of a field is the value of some vote, and no value
\* is more frequent.
LEMMA TopCountIsMax ==
  ASSUME NEW votes, NEW n \in Nat, n # 0, NEW field
  PROVE  /\ TopCount(votes, n, field) \in Nat
         /\ \E k \in 1 .. n : Count(votes, n, field, votes[k][field]) = TopCount(votes, n, field)
         /\ \A k \in 1 .. n : /\ Count(votes, n, field, votes[k][field]) \in Nat
                              /\ Count(votes, n, field, votes[k][field]) <= TopCount(votes, n, field)
<1> DEFINE C(k) == Count(votes, n, field, votes[k][field])
           Gaps == {n - C(k) : k \in 1 .. n}
<1>1. ASSUME NEW k \in 1 .. n PROVE C(k) \in 0 .. n
  <2> DEFINE S == {j \in 1 .. n : votes[j][field] = votes[k][field]}
  <2>1. IsFiniteSet(1 .. n) /\ Cardinality(1 .. n) = n
    BY FS_Interval
  <2>2. S \in SUBSET (1 .. n)
    OBVIOUS
  <2> HIDE DEF S
  <2>3. IsFiniteSet(S) /\ Cardinality(S) <= n
    BY <2>1, <2>2, FS_Subset
  <2>4. Cardinality(S) \in Nat
    BY <2>3, FS_CardinalityType
  <2> QED
    BY <2>3, <2>4 DEF Count, S
<1> HIDE DEF C
<1>2. Gaps \in SUBSET Nat /\ Gaps # {}
  BY <1>1
<1>3. PICK g \in Gaps : \A x \in Gaps : g <= x
  BY <1>2, LeastNatural
<1>4. PICK k \in 1 .. n : g = n - C(k)
  BY <1>3
<1>5. ASSUME NEW j \in 1 .. n PROVE C(j) <= C(k)
  <2>1. n - C(j) \in Gaps
    OBVIOUS
  <2>2. n - C(k) <= n - C(j)
    BY <1>3, <1>4, <2>1
  <2>3. C(j) \in 0 .. n /\ C(k) \in 0 .. n
    BY <1>1
  <2> QED
    BY <2>2, <2>3
<1>6. \E c \in 0 .. n : (\E j \in 1 .. n : C(j) = c) /\ (\A j \in 1 .. n : C(j) <= c)
  BY <1>1, <1>5
<1>7. TopCount(votes, n, field) =
        CHOOSE c \in 0 .. n : (\E j \in 1 .. n : C(j) = c) /\ (\A j \in 1 .. n : C(j) <= c)
  BY DEF TopCount, C
<1> DEFINE top == TopCount(votes, n, field)
<1>8. top \in 0 .. n /\ (\E j \in 1 .. n : C(j) = top) /\ (\A j \in 1 .. n : C(j) <= top)
  BY <1>6, <1>7
<1> HIDE DEF top
<1>9. top \in Nat /\ \A j \in 1 .. n : C(j) \in Nat
  BY <1>1, <1>8
<1> QED
  BY <1>8, <1>9 DEF C, top

\* Sharing counts what Count counts.
LEMMA SharingCount ==
  ASSUME NEW votes, NEW n \in Nat, NEW field, NEW k \in 1 .. n
  PROVE  /\ Cardinality(Sharing(votes, n, field, k)) = Count(votes, n, field, votes[k][field])
         /\ IsFiniteSet(Sharing(votes, n, field, k))
         /\ Cardinality(Sharing(votes, n, field, k)) \in Nat
         /\ Sharing(votes, n, field, k) \in SUBSET (1 .. n)
<1> DEFINE S == Sharing(votes, n, field, k)
<1>1. Cardinality(S) = Count(votes, n, field, votes[k][field]) /\ S \in SUBSET (1 .. n)
  BY DEF Sharing, Count
<1> HIDE DEF S
<1>2. IsFiniteSet(1 .. n)
  BY FS_Interval
<1>3. IsFiniteSet(S) /\ Cardinality(S) \in Nat
  BY <1>1, <1>2, FS_Subset, FS_CardinalityType
<1> QED
  BY <1>1, <1>3 DEF S

\* The most frequent hash has two thirds exactly when some vote's hash has.
LEMMA TopIsShared ==
  ASSUME NEW votes, NEW n \in Nat, n # 0, NEW field
  PROVE  TopCount(votes, n, field) * 3 >= n * 2
           <=> \E k \in 1 .. n : 3 * Cardinality(Sharing(votes, n, field, k)) >= 2 * n
<1> DEFINE C(k) == Count(votes, n, field, votes[k][field])
           S(k) == Cardinality(Sharing(votes, n, field, k))
           top == TopCount(votes, n, field)
<1>1. /\ top \in Nat /\ (\E k \in 1 .. n : C(k) = top)
      /\ \A k \in 1 .. n : C(k) \in Nat /\ C(k) <= top
  BY TopCountIsMax
<1>2. \A k \in 1 .. n : S(k) = C(k)
  BY SharingCount
<1> HIDE DEF C, S, top
<1>3. top * 3 >= n * 2 <=> \E k \in 1 .. n : 3 * S(k) >= 2 * n
  BY <1>1, <1>2
<1> QED
  BY <1>3 DEF S, top

\* _check_consensus finds two thirds on each hash, and nothing more.
LEMMA AgreeIsOnEach ==
  ASSUME NEW votes, NEW n \in Nat
  PROVE  Agree(votes, n) <=> (n >= 3 /\ OnEach(votes, n))
<1>1. ASSUME n >= 3 PROVE Agree(votes, n) <=> OnEach(votes, n)
  BY <1>1, TopIsShared DEF Agree, OnEach
<1>2. ASSUME ~(n >= 3) PROVE ~Agree(votes, n)
  BY <1>2 DEF Agree
<1> QED
  BY <1>1, <1>2

\* Two sets of two thirds of the votes have one third in common.
LEMMA ThirdInCommon ==
  ASSUME NEW n \in Nat, NEW A \in SUBSET (1 .. n), NEW B \in SUBSET (1 .. n),
         3 * Cardinality(A) >= 2 * n, 3 * Cardinality(B) >= 2 * n
  PROVE  /\ Cardinality(A \cap B) \in Nat
         /\ 3 * Cardinality(A \cap B) >= n
<1> DEFINE one == 1
           D == one .. n
<1>1. IsFiniteSet(D) /\ Cardinality(D) = n
  <2>1. one \in Int /\ n \in Int /\ one = 1
    OBVIOUS
  <2> HIDE DEF one
  <2>2. IsFiniteSet(one .. n) /\ Cardinality(one .. n) = IF one > n THEN 0 ELSE n - one + 1
    BY <2>1, FS_Interval
  <2>3. (IF one > n THEN 0 ELSE n - one + 1) = n
    BY <2>1
  <2> QED
    BY <2>2, <2>3
<1>2. A \in SUBSET D /\ B \in SUBSET D /\ A \cup B \in SUBSET D
  OBVIOUS
<1> HIDE DEF D
<1>3. IsFiniteSet(A) /\ IsFiniteSet(B)
  BY <1>1, <1>2, FS_Subset
<1>4. Cardinality(A \cup B) <= n /\ IsFiniteSet(A \cup B)
  BY <1>1, <1>2, FS_Subset
<1>5. IsFiniteSet(A \cap B)
  BY <1>3, FS_Intersection
<1>6. Cardinality(A \cup B) = Cardinality(A) + Cardinality(B) - Cardinality(A \cap B)
  BY <1>3, FS_Union
<1>7. /\ Cardinality(A) \in Nat /\ Cardinality(B) \in Nat
      /\ Cardinality(A \cup B) \in Nat /\ Cardinality(A \cap B) \in Nat
  BY <1>3, <1>4, <1>5, FS_CardinalityType
<1> DEFINE a == Cardinality(A)
           b == Cardinality(B)
           u == Cardinality(A \cup B)
           c == Cardinality(A \cap B)
<1>8. u = a + b - c /\ u <= n /\ 3 * a >= 2 * n /\ 3 * b >= 2 * n
      /\ a \in Nat /\ b \in Nat /\ u \in Nat /\ c \in Nat
  BY <1>4, <1>6, <1>7
<1> HIDE DEF a, b, u, c
<1>9. 3 * c >= n
  BY <1>8
<1> QED
  BY <1>8, <1>9 DEF c

\* Two thirds on each hash: one third have both in common, and two thirds have
\* if every vote carries the yield that is read in its inference.
LEMMA OnEachIsShared ==
  ASSUME NEW votes, NEW n \in Nat, n >= 3, OnEach(votes, n)
  PROVE  /\ \E k \in 1 .. n : 3 * Cardinality(SharingBoth(votes, n, k)) >= n
         /\ AllRead(votes, n) => \E k \in 1 .. n : 3 * Cardinality(SharingBoth(votes, n, k)) >= 2 * n
<1> DEFINE I(k) == Sharing(votes, n, "inference", k)
           Y(k) == Sharing(votes, n, "yield", k)
<1>1. PICK i \in 1 .. n : 3 * Cardinality(I(i)) >= 2 * n
  BY DEF OnEach
<1>2. PICK y \in 1 .. n : 3 * Cardinality(Y(y)) >= 2 * n
  BY DEF OnEach
<1>3. I(i) \in SUBSET (1 .. n) /\ Y(y) \in SUBSET (1 .. n)
  BY DEF Sharing
<1>4. \A k \in 1 .. n : SharingBoth(votes, n, k) = I(k) \cap Y(k)
  BY DEF SharingBoth
<1>5. ASSUME NEW k \in I(i) \cap Y(y) PROVE I(k) = I(i) /\ Y(k) = Y(y) /\ k \in 1 .. n
  BY <1>5 DEF Sharing
<1>6. AllRead(votes, n) => I(i) \in SUBSET Y(i)
  BY DEF AllRead, Sharing
<1> HIDE DEF I, Y
<1>7. Cardinality(I(i) \cap Y(y)) \in Nat /\ 3 * Cardinality(I(i) \cap Y(y)) >= n
  BY <1>1, <1>2, <1>3, ThirdInCommon
<1>8. I(i) \cap Y(y) # {}
  <2>1. ASSUME I(i) \cap Y(y) = {} PROVE FALSE
    <3>1. Cardinality(I(i) \cap Y(y)) = 0
      BY <2>1, FS_EmptySet
    <3> QED
      BY <1>7, <3>1
  <2> QED
    BY <2>1
<1>9. \E k \in 1 .. n : 3 * Cardinality(SharingBoth(votes, n, k)) >= n
  <2>1. PICK k \in I(i) \cap Y(y) : TRUE
    BY <1>8
  <2>2. k \in 1 .. n /\ SharingBoth(votes, n, k) = I(i) \cap Y(y)
    BY <1>4, <1>5, <2>1
  <2> QED
    BY <1>7, <2>2
<1>10. ASSUME AllRead(votes, n) PROVE \E k \in 1 .. n : 3 * Cardinality(SharingBoth(votes, n, k)) >= 2 * n
  <2>1. SharingBoth(votes, n, i) = I(i)
    BY <1>4, <1>6, <1>10
  <2> QED
    BY <1>1, <2>1
<1> QED
  BY <1>9, <1>10

\* One more vote does not change the agreement of the votes before it.
LEMMA OnEachAppend ==
  ASSUME NEW votes \in VoteLists, NEW v \in VoteSet
  PROVE  /\ Append(votes, v) \in VoteLists /\ Len(Append(votes, v)) = Len(votes) + 1
         /\ Len(votes) \in Nat
         /\ \A m \in 0 .. Len(votes) : OnEach(Append(votes, v), m) <=> OnEach(votes, m)
<1> DEFINE new == Append(votes, v)
           n == Len(votes)
<1>1. /\ new \in VoteLists /\ n \in Nat /\ Len(new) = n + 1
      /\ \A j \in 1 .. n : new[j] = votes[j]
  BY DEF VoteLists
<1> HIDE DEF new, n
<1>2. ASSUME NEW m \in 0 .. n PROVE OnEach(new, m) <=> OnEach(votes, m)
  <2>1. \A j \in 1 .. m : new[j] = votes[j]
    BY <1>1
  <2>2. \A k \in 1 .. m : /\ Sharing(new, m, "inference", k) = Sharing(votes, m, "inference", k)
                           /\ Sharing(new, m, "yield", k) = Sharing(votes, m, "yield", k)
    BY <2>1 DEF Sharing
  <2> QED
    BY <2>2 DEF OnEach
<1> QED
  BY <1>1, <1>2 DEF new, n

\* The votes of a round, and the number of them that made it final.
RoundOK(votes, n) ==
  /\ votes \in VoteLists /\ n \in 0 .. Len(votes)
  /\ n # 0 => n >= 3 /\ OnEach(votes, n)
  /\ \A m \in 3 .. Len(votes) : OnEach(votes, m) => n # 0 /\ n <= m

LEMMA VoteKeepsRound ==
  ASSUME NEW votes, NEW n, RoundOK(votes, n), NEW v \in VoteSet
  PROVE  LET new == Append(votes, v)
         IN  RoundOK(new, IF n = 0 /\ Agree(new, Len(new)) THEN Len(new) ELSE n)
<1> DEFINE new == Append(votes, v)
           k == Len(votes)
<1>1. votes \in VoteLists /\ n \in 0 .. k
  BY DEF RoundOK
<1>2. /\ new \in VoteLists /\ Len(new) = k + 1 /\ k \in Nat
      /\ \A m \in 0 .. k : OnEach(new, m) <=> OnEach(votes, m)
  BY <1>1, OnEachAppend
<1> HIDE DEF new
<1>3. Agree(new, k + 1) <=> (k + 1 >= 3 /\ OnEach(new, k + 1))
  <2>1. k + 1 \in Nat
    BY <1>2
  <2> QED
    BY <2>1, AgreeIsOnEach
<1>4. k = Len(votes)
  OBVIOUS
<1> HIDE DEF k
<1>5. \A m \in 3 .. k + 1 : (m \in 3 .. k /\ m \in 0 .. k) \/ m = k + 1
  BY <1>2
<1>6. CASE n = 0 /\ Agree(new, k + 1)
  <2>1. \A m \in 3 .. k + 1 : OnEach(new, m) => k + 1 # 0 /\ k + 1 <= m
    BY <1>2, <1>4, <1>5, <1>6 DEF RoundOK
  <2>2. k + 1 \in 0 .. k + 1
    BY <1>2
  <2>3. RoundOK(new, k + 1)
    BY <1>2, <1>3, <1>6, <2>1, <2>2 DEF RoundOK
  <2> QED
    BY <1>2, <1>6, <2>3 DEF new
<1>7. CASE ~(n = 0 /\ Agree(new, k + 1))
  <2>1. \A m \in 3 .. k + 1 : OnEach(new, m) => n # 0 /\ n <= m
    <3> SUFFICES ASSUME NEW m \in 3 .. k + 1, OnEach(new, m) PROVE n # 0 /\ n <= m
      OBVIOUS
    <3>1. CASE m \in 3 .. k
      BY <1>2, <1>4, <1>5, <3>1 DEF RoundOK
    <3>2. CASE m = k + 1
      BY <1>1, <1>2, <1>3, <1>4, <1>7, <3>2
    <3> QED
      BY <1>5, <3>1, <3>2
  <2>2. n \in 0 .. k + 1 /\ n \in 0 .. k
    BY <1>1, <1>2, <1>4
  <2>3. RoundOK(new, n)
    BY <1>2, <2>1, <2>2 DEF RoundOK
  <2> QED
    BY <1>2, <1>7, <2>3 DEF new
<1> QED
  BY <1>6, <1>7

-----------------------------------------------------------------------------
(* The ledger of the node *)

OpList == Seq(Nat)
BatchList == Seq(OpList)

\* The part of a list after its first lo elements, up to its hi-th.
LEMMA CutOps ==
  ASSUME NEW s \in OpList, NEW lo \in Nat, NEW hi \in Nat, lo <= hi, hi <= Len(s)
  PROVE  LET c == SubSeq(s, lo + 1, hi) IN
         c \in OpList /\ Len(c) = hi - lo /\ \A i \in 1 .. hi - lo : c[i] = s[lo + i]
<1> DEFINE a == lo + 1
           c == SubSeq(s, a, hi)
<1>1. s \in Seq(Nat) /\ Len(s) \in Nat
  BY DEF OpList
<1>2. a \in Int /\ hi \in Int /\ \A i \in a .. hi : s[i] \in Nat
  BY <1>1
<1>3. a = lo + 1
  OBVIOUS
<1> HIDE DEF a
<1>4. /\ c \in Seq(Nat) /\ Len(c) = (IF a <= hi THEN hi - a + 1 ELSE 0)
      /\ \A i \in 1 .. hi - a + 1 : c[i] = s[a + i - 1]
  BY <1>2, SubSeqProperties
<1> HIDE DEF c
<1>5. Len(c) = hi - lo /\ hi - a + 1 = hi - lo /\ \A i \in 1 .. hi - lo : a + i - 1 = lo + i
  BY <1>3, <1>4
<1>6. c \in OpList /\ \A i \in 1 .. hi - lo : c[i] = s[lo + i]
  BY <1>4, <1>5 DEF OpList
<1> QED
  BY <1>5, <1>6 DEF c, a

\* Operations in the order of their numbers, up to ops.
Ordered(s, ops) ==
  /\ s \in OpList
  /\ \A a \in 1 .. Len(s) : s[a] <= ops
  /\ \A a, b \in 1 .. Len(s) : a < b => s[a] < s[b]

\* Every operation of the batch is older than every one of the list s.
Before(batch, s) == \A a \in 1 .. Len(batch) : \A b \in 1 .. Len(s) : batch[a] < s[b]

LedgerOK(p, bs, ops) ==
  /\ ops \in Nat /\ Ordered(p, ops) /\ Len(p) <= MaxPending
  /\ bs \in BatchList
  /\ \A i \in 1 .. Len(bs) :
       /\ \A a \in 1 .. Len(bs[i]) : bs[i][a] <= ops
       /\ \A j \in i + 1 .. Len(bs) : Before(bs[i], bs[j])
       /\ Before(bs[i], p)

\* submit, for every operation that a sweep finds: whatever the deque drops.
LEMMA LedgerSubmit ==
  ASSUME NEW p, NEW bs, NEW ops, LedgerOK(p, bs, ops), NEW n \in Nat
  PROVE  LedgerOK(SubmitAll(p, [k \in 1 .. n |-> ops + k]), bs, ops + n)
<1> DEFINE new == [k \in 1 .. n |-> ops + k]
           all == p \o new
           len == Len(p)
           lost == IF Len(all) > MaxPending THEN Len(all) - MaxPending ELSE 0
           q == SubSeq(all, lost + 1, Len(all))
<1>1. /\ ops \in Nat /\ p \in OpList /\ len \in Nat /\ MaxPending \in Nat
      /\ \A a \in 1 .. len : p[a] \in Nat /\ p[a] <= ops
  BY MaxPendingAssumption DEF LedgerOK, Ordered, OpList
<1>2. new \in Seq(Nat) /\ Len(new) = n /\ \A k \in 1 .. n : new[k] = ops + k
  BY <1>1
<1> HIDE DEF new
<1>3. /\ all \in Seq(Nat) /\ Len(all) = len + Len(new)
      /\ \A i \in 1 .. len + Len(new) : all[i] = IF i <= len THEN p[i] ELSE new[i - len]
  BY <1>1, <1>2, ConcatProperties DEF OpList
<1> HIDE DEF all
<1>4. /\ all \in OpList /\ Len(all) = len + n
      /\ \A i \in 1 .. len : all[i] = p[i]
      /\ \A i \in len + 1 .. len + n : all[i] = ops + (i - len)
  <2>1. /\ \A i \in 1 .. len : i \in 1 .. len + n /\ i <= len
        /\ \A i \in len + 1 .. len + n : i \in 1 .. len + n /\ ~(i <= len) /\ i - len \in 1 .. n
    BY <1>1
  <2> HIDE DEF len
  <2> QED
    BY <1>2, <1>3, <2>1 DEF OpList
<1>5. \A i \in 1 .. len + n : i \in 1 .. len \/ i \in len + 1 .. len + n
  BY <1>1
<1>6. \A i \in 1 .. len + n : all[i] <= ops + n /\ all[i] \in Nat
  BY <1>1, <1>4, <1>5
<1>7. \A i, k \in 1 .. len + n : i < k => all[i] < all[k]
  <2> SUFFICES ASSUME NEW i \in 1 .. len + n, NEW k \in 1 .. len + n, i < k PROVE all[i] < all[k]
    OBVIOUS
  <2>1. CASE k \in 1 .. len
    <3>1. i \in 1 .. len
      BY <1>1, <2>1
    <3> QED
      BY <1>4, <2>1, <3>1 DEF LedgerOK, Ordered
  <2>2. CASE i \in 1 .. len /\ k \in len + 1 .. len + n
    BY <1>1, <1>4, <2>2
  <2>3. CASE i \in len + 1 .. len + n /\ k \in len + 1 .. len + n
    BY <1>1, <1>4, <2>3
  <2> QED
    BY <1>5, <2>1, <2>2, <2>3
<1>8. lost \in Nat /\ lost <= len + n /\ len + n - lost <= MaxPending
  BY <1>1, <1>4
<1>9. \A i \in 1 .. Len(bs) : \A a \in 1 .. Len(bs[i]) : bs[i][a] \in Nat
  BY DEF LedgerOK, BatchList, OpList
<1> HIDE DEF lost
<1> DEFINE m == len + n
<1>10. m \in Nat /\ m = Len(all) /\ lost <= m /\ m <= Len(all)
  BY <1>1, <1>4, <1>8
<1>11. q \in OpList /\ Len(q) = m - lost /\ \A i \in 1 .. m - lost : q[i] = all[lost + i]
  <2> HIDE DEF m
  <2> QED
    BY <1>4, <1>8, <1>10, CutOps
<1> HIDE DEF q
<1>12. \A i \in 1 .. m - lost : lost + i \in 1 .. m
  BY <1>8, <1>10
<1>13. Ordered(q, ops + n) /\ Len(q) <= MaxPending
  BY <1>6, <1>7, <1>8, <1>10, <1>11, <1>12 DEF Ordered
<1>14. ASSUME NEW i \in 1 .. Len(bs) PROVE Before(bs[i], q)
  <2> SUFFICES ASSUME NEW a \in 1 .. Len(bs[i]), NEW b \in 1 .. m PROVE bs[i][a] < all[b]
    BY <1>11, <1>12 DEF Before
  <2>1. CASE b \in 1 .. len
    BY <1>4, <2>1 DEF LedgerOK, Before
  <2>2. CASE b \in len + 1 .. len + n
    <3>1. bs[i][a] <= ops /\ bs[i][a] \in Nat
      BY <1>9 DEF LedgerOK
    <3> QED
      BY <1>1, <1>4, <2>2, <3>1
  <2> QED
    BY <1>5, <2>1, <2>2
<1>15. \A i \in 1 .. Len(bs) : \A a \in 1 .. Len(bs[i]) : bs[i][a] <= ops + n
  <2> SUFFICES ASSUME NEW i \in 1 .. Len(bs), NEW a \in 1 .. Len(bs[i]) PROVE bs[i][a] <= ops + n
    OBVIOUS
  <2>1. bs[i][a] <= ops /\ bs[i][a] \in Nat
    BY <1>9 DEF LedgerOK
  <2> QED
    BY <1>1, <2>1
<1>16. ops + n \in Nat
  BY <1>1
<1>17. LedgerOK(q, bs, ops + n)
  BY <1>13, <1>14, <1>15, <1>16 DEF LedgerOK
<1>18. SubmitAll(p, new) = q
  BY DEF SubmitAll, q, lost, all
<1> QED
  BY <1>17, <1>18 DEF new

\* drain_batch: what is taken is older than what is left.
LEMMA LedgerDrain ==
  ASSUME NEW p, NEW bs, NEW ops, LedgerOK(p, bs, ops), NEW size \in Nat
  PROVE  LET batch == DrainBatch(p, size)
             rest == Remaining(p, size)
         IN  LedgerOK(rest, bs, ops) /\ LedgerOK(rest, Append(bs, batch), ops)
<1> DEFINE batch == DrainBatch(p, size)
           rest == Remaining(p, size)
           n == Len(p)
           k == BatchSize(p, size)
<1>1. p \in OpList /\ n \in Nat /\ ops \in Nat /\ MaxPending \in Nat /\ bs \in BatchList
      /\ n <= MaxPending
  BY MaxPendingAssumption DEF LedgerOK, Ordered, OpList
<1>2. k \in Nat /\ k <= n
  BY <1>1 DEF BatchSize
<1> HIDE DEF k
<1>3. batch \in OpList /\ Len(batch) = k /\ \A i \in 1 .. k : batch[i] = p[i]
  <2> DEFINE z == 0
  <2>1. z \in Nat /\ z <= k /\ k <= Len(p)
    BY <1>2
  <2> HIDE DEF z
  <2>2. LET c == SubSeq(p, z + 1, k) IN c \in OpList /\ Len(c) = k - z /\ \A i \in 1 .. k - z : c[i] = p[z + i]
    BY <1>1, <1>2, <2>1, CutOps
  <2>3. z + 1 = 1 /\ k - z = k /\ \A i \in 1 .. k : z + i = i
    BY <1>2 DEF z
  <2> QED
    BY <2>2, <2>3 DEF DrainBatch, k
<1>4. rest \in OpList /\ Len(rest) = n - k /\ \A i \in 1 .. n - k : rest[i] = p[k + i]
  <2>1. n <= Len(p)
    BY <1>1
  <2>2. n = Len(p)
    OBVIOUS
  <2> HIDE DEF n
  <2>3. LET c == SubSeq(p, k + 1, n) IN c \in OpList /\ Len(c) = n - k /\ \A i \in 1 .. n - k : c[i] = p[k + i]
    BY <1>1, <1>2, <2>1, CutOps
  <2> QED
    BY <2>2, <2>3 DEF Remaining, k
<1> HIDE DEF batch, rest
<1>5. \A i \in 1 .. n - k : k + i \in 1 .. n /\ \A a \in 1 .. k : a < k + i
  BY <1>1, <1>2
<1>6. \A a \in 1 .. k : a \in 1 .. n
  BY <1>1, <1>2
<1>7. \A i, j \in 1 .. n - k : i < j => k + i < k + j
  BY <1>1, <1>2
<1>8. Ordered(p, ops)
  BY DEF LedgerOK
<1>9. n = Len(p)
  OBVIOUS
<1> HIDE DEF n
<1>10. Ordered(rest, ops)
  BY <1>4, <1>5, <1>7, <1>8, <1>9 DEF Ordered
<1>11. Before(batch, rest)
  BY <1>3, <1>4, <1>5, <1>6, <1>8, <1>9 DEF Ordered, Before
<1>12. Len(rest) <= MaxPending
  BY <1>1, <1>2, <1>4
<1>13. \A i \in 1 .. Len(bs) : Before(bs[i], rest) /\ Before(bs[i], batch)
  BY <1>3, <1>4, <1>5, <1>6, <1>9 DEF LedgerOK, Before
<1>14. LedgerOK(rest, bs, ops)
  BY <1>10, <1>12, <1>13 DEF LedgerOK
<1> DEFINE new == Append(bs, batch)
           m == Len(bs)
<1>15. /\ m \in Nat /\ new \in BatchList /\ Len(new) = m + 1 /\ new[m + 1] = batch
       /\ \A i \in 1 .. m : new[i] = bs[i]
  BY <1>1, <1>3 DEF BatchList
<1>16. m = Len(bs)
  OBVIOUS
<1> HIDE DEF new, m
<1>17. ASSUME NEW i \in 1 .. m + 1
       PROVE  /\ \A a \in 1 .. Len(new[i]) : new[i][a] <= ops
              /\ \A j \in i + 1 .. m + 1 : Before(new[i], new[j])
              /\ Before(new[i], rest)
  <2>1. CASE i \in 1 .. m
    <3>1. \A j \in i + 1 .. m + 1 : j \in i + 1 .. m \/ j = m + 1
      BY <1>15, <2>1
    <3>2. \A j \in i + 1 .. m : j \in 1 .. m
      BY <1>15, <2>1
    <3> QED
      BY <1>13, <1>15, <1>16, <2>1, <3>1, <3>2 DEF LedgerOK
  <2>2. CASE i = m + 1
    <3>1. \A j \in i + 1 .. m + 1 : FALSE
      BY <1>15, <2>2
    <3>2. \A a \in 1 .. Len(batch) : batch[a] <= ops
      BY <1>3, <1>6, <1>8, <1>9 DEF Ordered
    <3> QED
      BY <1>11, <1>15, <2>2, <3>1, <3>2
  <2> QED
    BY <1>15, <2>1, <2>2
<1>18. LedgerOK(rest, new, ops)
  BY <1>1, <1>10, <1>12, <1>15, <1>17 DEF LedgerOK
<1> QED
  BY <1>14, <1>18 DEF new, batch, rest

-----------------------------------------------------------------------------
(* The node *)

\* The final roots among the node's first n that run_poy_round has left.
Counted(n, fin, w) == {r \in 1 .. n : fin[r] # 0 /\ r # w}

NodeInv ==
  /\ LedgerOK(pendingOps, batches, opsProcessed)
  /\ rounds \in [Roots -> VoteLists] /\ finality \in [Roots -> Nat]
  /\ \A r \in Roots : RoundOK(rounds[r], finality[r])
  /\ Len(batches) <= MaxRoots /\ waiting \in 0 .. Len(batches)
  /\ batchesFinalized \in Nat
  /\ batchesFinalized <= Cardinality(Counted(Len(batches), finality, waiting))

LEMMA CountedGrows ==
  ASSUME NEW n \in Nat, NEW fin, NEW w, NEW m \in Nat, NEW fin2, NEW w2,
         \A r \in Counted(n, fin, w) : r \in Counted(m, fin2, w2)
  PROVE  /\ Cardinality(Counted(n, fin, w)) \in Nat /\ Cardinality(Counted(m, fin2, w2)) \in Nat
         /\ Cardinality(Counted(n, fin, w)) <= Cardinality(Counted(m, fin2, w2))
         /\ \A x \in Counted(m, fin2, w2) : x \notin Counted(n, fin, w) =>
              Cardinality(Counted(n, fin, w)) + 1 <= Cardinality(Counted(m, fin2, w2))
<1> DEFINE A == Counted(n, fin, w)
           B == Counted(m, fin2, w2)
<1>1. IsFiniteSet(1 .. m) /\ B \in SUBSET (1 .. m)
  BY FS_Interval DEF Counted
<1>2. A \in SUBSET B
  OBVIOUS
<1> HIDE DEF A, B
<1>3. IsFiniteSet(B)
  BY <1>1, FS_Subset
<1>4. IsFiniteSet(A) /\ Cardinality(A) <= Cardinality(B)
  BY <1>2, <1>3, FS_Subset
<1>5. Cardinality(A) \in Nat /\ Cardinality(B) \in Nat
  BY <1>3, <1>4, FS_CardinalityType
<1>6. ASSUME NEW x \in B, x \notin A PROVE Cardinality(A) + 1 <= Cardinality(B)
  <2>1. Cardinality(A) # Cardinality(B)
    BY <1>2, <1>3, <1>6, FS_Subset
  <2> QED
    BY <1>4, <1>5, <2>1
<1> QED
  BY <1>4, <1>5, <1>6 DEF A, B

\* A vote, the node's own or another's, for root r.
LEMMA NodeVotes ==
  ASSUME NodeInv, NEW r \in Roots, NEW v \in VoteSet, AddVote(r, v)
  PROVE  /\ rounds' \in [Roots -> VoteLists] /\ finality' \in [Roots -> Nat]
         /\ \A x \in Roots : RoundOK(rounds'[x], finality'[x])
         /\ \A x \in Roots : finality[x] # 0 => finality'[x] # 0
<1> DEFINE new == Append(rounds[r], v)
           fin == IF finality[r] = 0 /\ Agree(new, Len(new)) THEN Len(new) ELSE finality[r]
<1>1. /\ rounds \in [Roots -> VoteLists] /\ finality \in [Roots -> Nat]
      /\ \A x \in Roots : RoundOK(rounds[x], finality[x])
  BY DEF NodeInv
<1>2. RoundOK(new, fin)
  BY <1>1, VoteKeepsRound
<1>3. rounds' = [rounds EXCEPT ![r] = new]
  BY DEF AddVote
<1>4. finality' = [finality EXCEPT ![r] = fin]
  <2>1. finality' = IF finality[r] = 0 /\ Agree(new, Len(new))
                    THEN [finality EXCEPT ![r] = Len(new)] ELSE finality
    BY DEF AddVote
  <2>2. [finality EXCEPT ![r] = finality[r]] = finality
    BY <1>1
  <2> HIDE DEF new
  <2> QED
    BY <2>1, <2>2
<1>5. new \in VoteLists /\ fin \in 0 .. Len(new)
  BY <1>2 DEF RoundOK
<1>6. Len(new) \in Nat /\ Len(new) # 0
  <2>1. rounds[r] \in VoteLists
    BY <1>1
  <2>2. Len(new) = Len(rounds[r]) + 1 /\ Len(rounds[r]) \in Nat
    BY <2>1, OnEachAppend
  <2> QED
    BY <2>2
<1>7. fin \in Nat /\ (finality[r] # 0 => fin # 0)
  BY <1>1, <1>5, <1>6
<1> HIDE DEF new, fin
<1> QED
  BY <1>1, <1>2, <1>3, <1>4, <1>5, <1>7

LEMMA NodeInitInv == NodeInit => NodeInv
<1> SUFFICES ASSUME NodeInit PROVE NodeInv
  OBVIOUS
<1>1. <<>> \in OpList /\ <<>> \in BatchList /\ <<>> \in VoteLists /\ Len(<<>>) = 0
  BY DEF OpList, BatchList, VoteLists
<1>2. LedgerOK(pendingOps, batches, opsProcessed)
  BY <1>1, MaxPendingAssumption DEF NodeInit, LedgerOK, Ordered
<1>3. \A r \in Roots : RoundOK(rounds[r], finality[r])
  BY <1>1 DEF NodeInit, RoundOK
<1>4. Cardinality(Counted(Len(batches), finality, waiting)) = 0
  <2>1. Counted(0, finality, waiting) = {}
    BY DEF Counted
  <2> QED
    BY <1>1, <2>1, FS_EmptySet DEF NodeInit
<1> QED
  BY <1>1, <1>2, <1>3, <1>4, BatchAssumption DEF NodeInit, NodeInv

LEMMA NodeNextInv == NodeInv /\ [NodeNext]_nodeVars => NodeInv'
<1> SUFFICES ASSUME NodeInv, [NodeNext]_nodeVars PROVE NodeInv'
  OBVIOUS
<1> DEFINE n == Len(batches)
           count == Cardinality(Counted(n, finality, waiting))
<1>1. /\ LedgerOK(pendingOps, batches, opsProcessed) /\ n \in Nat /\ MaxRoots \in Nat
      /\ n <= MaxRoots /\ waiting \in 0 .. n /\ batchesFinalized \in Nat /\ batchesFinalized <= count
      /\ rounds \in [Roots -> VoteLists] /\ finality \in [Roots -> Nat]
      /\ \A r \in Roots : RoundOK(rounds[r], finality[r])
  BY BatchAssumption DEF NodeInv, LedgerOK, BatchList
<1>2. \A r \in 1 .. n : r \in Roots
  BY <1>1 DEF Roots
<1>3. ASSUME NEW k \in SweepSizes, Mine(k) PROVE NodeInv'
  <2>1. k \in Nat
    BY BatchAssumption
  <2>2. LedgerOK(pendingOps', batches, opsProcessed')
    BY <1>1, <1>3, <2>1, LedgerSubmit DEF Mine
  <2> QED
    BY <1>1, <1>3, <2>2 DEF Mine, NodeInv
<1>4. ASSUME NEW r \in Roots, NEW agent \in Agents, NEW inference \in Inferences,
             NEW yield \in Yields, ExternalVote(r, agent, inference, yield)
      PROVE  NodeInv'
  <2>1. [agent |-> agent, inference |-> inference, yield |-> yield] \in VoteSet
    BY DEF VoteSet
  <2>2. /\ rounds' \in [Roots -> VoteLists] /\ finality' \in [Roots -> Nat]
        /\ \A x \in Roots : RoundOK(rounds'[x], finality'[x])
        /\ \A x \in Roots : finality[x] # 0 => finality'[x] # 0
    BY <1>4, <2>1, NodeVotes DEF ExternalVote
  <2>3. \A x \in Counted(n, finality, waiting) : x \in Counted(n, finality', waiting)
    BY <1>2, <2>2 DEF Counted
  <2> DEFINE fin == finality'
             count2 == Cardinality(Counted(n, fin, waiting))
  <2>4. count \in Nat /\ count2 \in Nat /\ count <= count2
    <3> HIDE DEF n, fin
    <3>1. \A x \in Counted(n, finality, waiting) : x \in Counted(n, fin, waiting)
      BY <2>3 DEF fin
    <3> QED
      BY <1>1, <3>1, CountedGrows
  <2>5. batchesFinalized <= count2
    <3> HIDE DEF count, count2
    <3> QED
      BY <1>1, <2>4
  <2> QED
    BY <1>1, <1>4, <2>2, <2>5 DEF ExternalVote, NodeInv
<1>5. CASE Drain
  <2> DEFINE batch == DrainBatch(pendingOps, MaxBatch)
             m == n + 1
  <2>1. /\ pendingOps' = Remaining(pendingOps, MaxBatch) /\ waiting = 0
        /\ UNCHANGED <<opsProcessed, batchesFinalized>>
    BY <1>5 DEF Drain
  <2>2. MaxBatch \in Nat
    BY BatchAssumption
  <2>3. /\ LedgerOK(pendingOps', batches, opsProcessed)
        /\ LedgerOK(pendingOps', Append(batches, batch), opsProcessed)
    BY <1>1, <2>1, <2>2, LedgerDrain
  <2>4. CASE Len(batch) < MinBatch
    BY <1>1, <1>5, <2>1, <2>3, <2>4 DEF Drain, NodeInv
  <2>5. CASE ~(Len(batch) < MinBatch)
    <3>1. /\ n < MaxRoots /\ batches' = Append(batches, batch) /\ waiting' = Len(batches')
          /\ \E inference \in Inferences : AddVote(Len(batches'), CastVote("self", inference))
      BY <1>5, <2>5 DEF Drain
    <3>2. batches' \in BatchList /\ LedgerOK(pendingOps', batches', opsProcessed')
      BY <2>1, <2>3, <3>1 DEF LedgerOK
    <3>3. Len(batches') = m
      <4>1. batches \in BatchList /\ batch \in OpList
        <5>1. pendingOps \in OpList
          BY <1>1 DEF LedgerOK, Ordered
        <5>2. \A i \in 1 .. Len(Append(batches, batch)) : Append(batches, batch)[i] \in OpList
          BY <2>3 DEF LedgerOK, BatchList
        <5>3. batches \in Seq(OpList)
          BY <1>1 DEF LedgerOK, BatchList
        <5> HIDE DEF batch
        <5>4. Len(Append(batches, batch)) = n + 1 /\ Append(batches, batch)[n + 1] = batch
          BY <5>3
        <5> QED
          BY <1>1, <5>2, <5>3, <5>4 DEF BatchList
      <4> HIDE DEF batch
      <4> QED
        BY <3>1, <4>1 DEF BatchList
    <3> HIDE DEF batch
    <3>4. m \in Roots /\ m \in Nat /\ m <= MaxRoots
      BY <1>1, <3>1 DEF Roots
    <3>5. PICK inference \in Inferences : AddVote(m, CastVote("self", inference))
      BY <3>1, <3>3
    <3>6. CastVote("self", inference) \in VoteSet
      BY BatchAssumption DEF VoteSet, CastVote
    <3>7. /\ rounds' \in [Roots -> VoteLists] /\ finality' \in [Roots -> Nat]
          /\ \A x \in Roots : RoundOK(rounds'[x], finality'[x])
          /\ \A x \in Roots : finality[x] # 0 => finality'[x] # 0
      BY <3>4, <3>5, <3>6, NodeVotes
    <3> DEFINE fin == finality'
               count2 == Cardinality(Counted(m, fin, m))
    <3>8. \A x \in Counted(n, finality, waiting) : x \in Counted(m, fin, m)
      BY <1>1, <1>2, <3>7 DEF Counted
    <3>9. count \in Nat /\ count2 \in Nat /\ count <= count2
      <4> HIDE DEF n, fin, m
      <4> QED
        BY <1>1, <3>4, <3>8, CountedGrows
    <3>10. batchesFinalized <= count2
      <4> HIDE DEF count, count2
      <4> QED
        BY <1>1, <3>9
    <3>11. waiting' = m /\ m \in 0 .. m
      BY <3>1, <3>3, <3>4
    <3> QED
      BY <1>1, <2>1, <3>2, <3>3, <3>4, <3>7, <3>10, <3>11 DEF NodeInv
  <2> QED
    BY <2>4, <2>5
<1>6. ASSUME waiting # 0, waiting' = 0,
             UNCHANGED <<pendingOps, processed, opsProcessed, batches, rounds, finality>>,
             \/ batchesFinalized' = batchesFinalized
             \/ batchesFinalized' = batchesFinalized + 1 /\ finality[waiting] # 0
      PROVE  NodeInv'
  <2> DEFINE z == 0
             count2 == Cardinality(Counted(n, finality, z))
  <2>1. /\ \A x \in Counted(n, finality, waiting) : x \in Counted(n, finality, z)
        /\ finality[waiting] # 0 => waiting \in Counted(n, finality, z)
        /\ waiting \notin Counted(n, finality, waiting)
    BY <1>1, <1>6 DEF Counted
  <2> HIDE DEF z
  <2>2. /\ count \in Nat /\ count2 \in Nat /\ count <= count2
        /\ finality[waiting] # 0 => count + 1 <= count2
    <3> HIDE DEF n
    <3> QED
      BY <1>1, <2>1, CountedGrows
  <2>3. batchesFinalized' \in Nat /\ batchesFinalized' <= count2
    <3> HIDE DEF count, count2
    <3> QED
      BY <1>1, <1>6, <2>2
  <2> QED
    BY <1>1, <1>6, <2>3 DEF NodeInv, z
<1>7. CASE RoundFinal \/ RoundTimeout
  BY <1>6, <1>7 DEF RoundFinal, RoundTimeout
<1>8. CASE UNCHANGED nodeVars
  BY <1>8 DEF nodeVars, NodeInv
<1> QED
  BY <1>3, <1>4, <1>5, <1>7, <1>8 DEF NodeNext

\* The node's ledger, its batches and its rounds stay as NodeInv says, for any
\* number of operations, agents, votes and roots.
THEOREM NodeInvariant == NodeSpec => []NodeInv
<1>1. NodeInit => NodeInv
  BY NodeInitInv
<1> QED
  BY <1>1, NodeNextInv, PTL DEF NodeSpec

\* A round is final from the first vote that makes two thirds on each hash
\* (poy.py _check_consensus), for every set of inferences and yields; one third of
\* its votes then carry both, and two thirds if cast_vote cast them all.
THEOREM NodeFinalityJustified == NodeSpec => []FinalityJustified
<1>1. ASSUME NodeInv PROVE FinalityJustified
  <2> SUFFICES ASSUME NEW r \in Roots
               PROVE  LET n == finality[r]
                          votes == rounds[r]
                      IN  /\ n # 0 =>
                               /\ n >= 3 /\ OnEach(votes, n)
                               /\ \E k \in 1 .. n : 3 * Cardinality(SharingBoth(votes, n, k)) >= n
                               /\ AllRead(votes, n) =>
                                    \E k \in 1 .. n : 3 * Cardinality(SharingBoth(votes, n, k)) >= 2 * n
                          /\ \A m \in 3 .. Len(votes) : OnEach(votes, m) => n # 0 /\ n <= m
    BY DEF FinalityJustified
  <2>1. RoundOK(rounds[r], finality[r]) /\ finality[r] \in Nat
    BY <1>1 DEF NodeInv
  <2> QED
    BY <2>1, OnEachIsShared DEF RoundOK
<1> QED
  BY <1>1, NodeInvariant, PTL

\* No operation is in two batches and batches keep the order of submission
\* (ledger.py submit, drain_batch), and no batch is counted final that is not.
THEOREM NodeBatchesInOrder == NodeSpec => []BatchesInOrder
<1>1. ASSUME NodeInv PROVE BatchesInOrder
  <2> DEFINE n == Len(batches)
             own == {r \in DOMAIN batches : finality[r] # 0}
  <2>1. /\ LedgerOK(pendingOps, batches, opsProcessed) /\ n \in Nat /\ DOMAIN batches = 1 .. n
        /\ pendingOps \in OpList /\ batchesFinalized \in Nat
        /\ batchesFinalized <= Cardinality(Counted(n, finality, waiting))
    BY <1>1 DEF NodeInv, LedgerOK, BatchList, Ordered
  <2>2. \A i \in 1 .. n : batches[i] \in OpList
    BY <2>1 DEF LedgerOK, BatchList
  <2>3. /\ DOMAIN pendingOps = 1 .. Len(pendingOps)
        /\ \A i \in 1 .. n : DOMAIN batches[i] = 1 .. Len(batches[i])
    BY <2>1, <2>2 DEF OpList
  <2>4. \A i \in 1 .. n : \A j \in i + 1 .. n : j \in 1 .. n
    BY <2>1
  <2>5. \A i \in DOMAIN batches : \A a \in DOMAIN batches[i] :
          /\ \A j \in i + 1 .. n : \A b \in DOMAIN batches[j] : batches[i][a] < batches[j][b]
          /\ \A b \in DOMAIN pendingOps : batches[i][a] < pendingOps[b]
    BY <2>1, <2>3, <2>4 DEF LedgerOK, Before
  <2>6. Cardinality(Counted(n, finality, waiting)) <= Cardinality(own)
        /\ Cardinality(Counted(n, finality, waiting)) \in Nat /\ Cardinality(own) \in Nat
    <3>1. IsFiniteSet(1 .. n) /\ own \in SUBSET (1 .. n)
      BY <2>1, FS_Interval
    <3>2. Counted(n, finality, waiting) \in SUBSET own
      BY <2>1 DEF Counted
    <3> HIDE DEF own, n
    <3>3. IsFiniteSet(own)
      BY <3>1, FS_Subset
    <3>4. IsFiniteSet(Counted(n, finality, waiting))
      BY <3>2, <3>3, FS_Subset
    <3> QED
      BY <3>2, <3>3, <3>4, FS_Subset, FS_CardinalityType
  <2>7. batchesFinalized <= Cardinality(own)
    BY <2>1, <2>6
  <2> QED
    BY <2>5, <2>7 DEF BatchesInOrder
<1> QED
  BY <1>1, NodeInvariant, PTL

-----------------------------------------------------------------------------
(* The file of reward events *)

Writes == {[event |-> e, cut |-> cut] :
             e \in [prompt : Prompts, reasons : SUBSET DOMAIN Weights,
                    verdict : {"accepted", "punished"}, policy_violation : BOOLEAN],
             cut \in Cuts}
WriteList == Seq(Writes)

\* The whole events that a search finds in the file f, and the writes cut short.
Found(f) == {i \in 1 .. Len(f) : f[i].cut = "whole" /\ (i > 1 => f[i - 1].cut = "whole")}
Broken(f) == {i \in 1 .. Len(f) : f[i].cut # "whole"}

\* The line that the next write will continue, if there is one.
Unfinished(f) == IF Len(f) > 0 /\ f[Len(f)].cut # "whole" THEN 1 ELSE 0

\* A file f after n scores that returned.  An unfinished line has not cost its
\* event yet: the next write will be lost with it.
LossOK(f, n) ==
  /\ f \in WriteList /\ n \in Nat /\ n <= Len(f)
  /\ n + Unfinished(f) <= Cardinality(Found(f)) + Cardinality(Broken(f))

LEMMA FoundFinite ==
  ASSUME NEW f \in WriteList
  PROVE  /\ IsFiniteSet(Found(f)) /\ IsFiniteSet(Broken(f))
         /\ Cardinality(Found(f)) \in Nat /\ Cardinality(Broken(f)) \in Nat
<1>1. Len(f) \in Nat
  BY DEF WriteList
<1>2. IsFiniteSet(1 .. Len(f)) /\ Found(f) \in SUBSET (1 .. Len(f)) /\ Broken(f) \in SUBSET (1 .. Len(f))
  BY <1>1, FS_Interval DEF Found, Broken
<1>3. IsFiniteSet(Found(f)) /\ IsFiniteSet(Broken(f))
  BY <1>2, FS_Subset
<1> QED
  BY <1>3, FS_CardinalityType

\* One more write, whole or cut short.
LEMMA WriteKeepsLoss ==
  ASSUME NEW f, NEW n, LossOK(f, n), NEW w \in Writes
  PROVE  LossOK(Append(f, w), n + (IF w.cut = "whole" THEN 1 ELSE 0))
<1> DEFINE g == Append(f, w)
           k == Len(f)
           m == k + 1
           found == Found(f)
           broken == Broken(f)
<1>1. f \in WriteList /\ n \in Nat /\ n <= k /\ w.cut \in Cuts
  BY DEF LossOK, Writes
<1>2. /\ k \in Nat /\ g \in WriteList /\ Len(g) = m /\ g[m] = w
      /\ \A i \in 1 .. k : g[i] = f[i]
  BY <1>1 DEF WriteList
<1>3. /\ \A i \in 1 .. m : i \in 1 .. k \/ i = m
      /\ \A i \in 1 .. k : i \in 1 .. m /\ i # m /\ (i > 1 => i - 1 \in 1 .. k)
      /\ m \in 1 .. m /\ (m > 1 <=> k > 0) /\ (k > 0 => k \in 1 .. k) /\ m - 1 = k
  BY <1>2
<1>4. /\ IsFiniteSet(found) /\ IsFiniteSet(broken)
      /\ Cardinality(found) \in Nat /\ Cardinality(broken) \in Nat
  BY <1>1, FoundFinite
<1>5. m \notin found /\ m \notin broken
  BY <1>3 DEF Found, Broken
<1>6. /\ Cardinality(found \cup {m}) = Cardinality(found) + 1
      /\ Cardinality(broken \cup {m}) = Cardinality(broken) + 1
  BY <1>4, <1>5, FS_AddElement
<1>7. n + Unfinished(f) <= Cardinality(found) + Cardinality(broken)
  BY DEF LossOK
<1>8. k = Len(f) /\ m = k + 1 /\ m \in Nat
  BY <1>2
<1> HIDE DEF g, k, m
<1>9. \A i \in 1 .. k : i \in Found(g) <=> i \in found
  BY <1>2, <1>3, <1>8 DEF Found
<1>10. \A i \in 1 .. k : i \in Broken(g) <=> i \in broken
  BY <1>2, <1>3, <1>8 DEF Broken
<1>11. \A i \in Found(g) \cup Broken(g) \cup found \cup broken : i \in 1 .. k \/ i = m
  BY <1>2, <1>3, <1>8 DEF Found, Broken
<1>12. m \in Broken(g) <=> w.cut # "whole"
  BY <1>2, <1>3 DEF Broken
<1>13. m \in Found(g) <=> (w.cut = "whole" /\ Unfinished(f) = 0)
  BY <1>2, <1>3, <1>8 DEF Found, Unfinished
<1>14. Unfinished(g) = IF w.cut # "whole" THEN 1 ELSE 0
  BY <1>2, <1>8 DEF Unfinished
<1>15. Unfinished(f) \in {0, 1}
  BY DEF Unfinished
<1>16. CASE w.cut # "whole"
  <2>1. Found(g) = found /\ Broken(g) = broken \cup {m}
    BY <1>5, <1>9, <1>10, <1>11, <1>12, <1>13, <1>16
  <2>2. n + 0 \in Nat /\ n + 0 <= Len(g) /\ n + 0 + 1 <= Cardinality(found) + (Cardinality(broken) + 1)
    BY <1>1, <1>2, <1>4, <1>7, <1>8, <1>15
  <2> HIDE DEF found, broken
  <2> QED
    BY <1>2, <1>6, <1>14, <1>16, <2>1, <2>2 DEF LossOK, g
<1>17. CASE w.cut = "whole" /\ Unfinished(f) = 1
  <2>1. Found(g) = found /\ Broken(g) = broken
    BY <1>5, <1>9, <1>10, <1>11, <1>12, <1>13, <1>17
  <2>2. n + 1 \in Nat /\ n + 1 <= Len(g) /\ n + 1 + 0 <= Cardinality(found) + Cardinality(broken)
    BY <1>1, <1>2, <1>4, <1>7, <1>8, <1>17
  <2> HIDE DEF found, broken
  <2> QED
    BY <1>2, <1>14, <1>17, <2>1, <2>2 DEF LossOK, g
<1>18. CASE w.cut = "whole" /\ Unfinished(f) = 0
  <2>1. Found(g) = found \cup {m} /\ Broken(g) = broken
    BY <1>5, <1>9, <1>10, <1>11, <1>12, <1>13, <1>18
  <2>2. n + 1 \in Nat /\ n + 1 <= Len(g) /\ n + 1 + 0 <= (Cardinality(found) + 1) + Cardinality(broken)
    BY <1>1, <1>2, <1>4, <1>7, <1>8, <1>18
  <2> HIDE DEF found, broken
  <2> QED
    BY <1>2, <1>6, <1>14, <1>18, <2>1, <2>2 DEF LossOK, g
<1> QED
  BY <1>15, <1>16, <1>17, <1>18

\* What a score writes is an event of the table.
LEMMA EventOK ==
  ASSUME NEW p \in Prompts, NEW f, f.policy_violation \in BOOLEAN,
         NEW c, c \subseteq Circumstances, NEW cut \in Cuts
  PROVE  [event |-> RewardEvent(p, f, c), cut |-> cut] \in Writes
<1>1. Reasons(f, c) \subseteq DOMAIN Weights
  BY DEF Reasons, Weights, Circumstances
<1>2. /\ RewardEvent(p, f, c) \in [prompt : Prompts, reasons : SUBSET DOMAIN Weights,
                                   verdict : {"accepted", "punished"}, policy_violation : BOOLEAN]
  <2> DEFINE v == IF Reward(Reasons(f, c)) > 0 THEN "accepted" ELSE "punished"
  <2>1. v \in {"accepted", "punished"}
    OBVIOUS
  <2>2. RewardEvent(p, f, c) = [prompt |-> p, reasons |-> Reasons(f, c), verdict |-> v,
                                policy_violation |-> f.policy_violation]
    BY DEF RewardEvent
  <2> HIDE DEF v
  <2> QED
    BY <1>1, <2>1, <2>2
<1> QED
  BY <1>2 DEF Writes

\* The file loses no more than it may, and a brain that scores has a prompt.
RivlInv ==
  /\ LossOK(rewardFile, scored)
  /\ Len(rewardFile) <= MaxWrites
  /\ DOMAIN brain = Brains
  /\ \A b \in Brains : /\ brain[b].pc \in {"idle", "scoring", "done"}
                       /\ brain[b].pc = "scoring" => brain[b].prompt \in Prompts

LEMMA PersistKeepsLoss ==
  ASSUME NEW p \in Prompts, NEW f, f.policy_violation \in BOOLEAN,
         NEW c, c \subseteq Circumstances, NEW cut \in Cuts,
         LossOK(rewardFile, scored), Len(rewardFile) < MaxWrites,
         Persist(RewardEvent(p, f, c), cut)
  PROVE  LossOK(rewardFile', scored') /\ Len(rewardFile') <= MaxWrites
<1> DEFINE w == [event |-> RewardEvent(p, f, c), cut |-> cut]
<1>1. w \in Writes /\ w.cut = cut
  BY EventOK
<1>2. rewardFile' = Append(rewardFile, w) /\ scored' = scored + (IF w.cut = "whole" THEN 1 ELSE 0)
  BY DEF Persist, Appended
<1>3. rewardFile \in WriteList
  BY DEF LossOK
<1> HIDE DEF w
<1>4. LossOK(rewardFile', scored')
  BY <1>1, <1>2, WriteKeepsLoss
<1>5. Len(rewardFile') = Len(rewardFile) + 1 /\ Len(rewardFile) \in Nat
  BY <1>2, <1>3 DEF WriteList
<1> QED
  BY <1>4, <1>5, WritesAssumption

\* A write that was cut short costs the reward memory at most one event whose
\* score had returned (RivlInv is the inductive invariant).
THEOREM RivlInvariant == RivlSpec => []RivlInv
<1>1. RivlInit => RivlInv
  <2> SUFFICES ASSUME RivlInit PROVE RivlInv
    OBVIOUS
  <2> DEFINE f == rewardFile
  <2>1. f \in WriteList /\ Len(f) = 0 /\ scored = 0
    BY DEF RivlInit, WriteList
  <2>2. Unfinished(f) = 0
    BY <2>1 DEF Unfinished
  <2>3. Cardinality(Found(f)) \in Nat /\ Cardinality(Broken(f)) \in Nat
    BY <2>1, FoundFinite
  <2> HIDE DEF f
  <2>4. LossOK(f, scored)
    BY <2>1, <2>2, <2>3 DEF LossOK
  <2> QED
    BY <2>1, <2>4, WritesAssumption DEF RivlInit, RivlInv, BrainIdle, f
<1>2. RivlInv /\ [RivlNext]_rivlVars => RivlInv'
  <2> SUFFICES ASSUME RivlInv, [RivlNext]_rivlVars PROVE RivlInv'
    OBVIOUS
  <2>1. CASE UNCHANGED rivlVars
    BY <2>1 DEF RivlInv, rivlVars
  <2>2. ASSUME NEW b \in Brains, NEW p \in Prompts, Process(b, p) PROVE RivlInv'
    BY <2>2 DEF RivlInv, Process
  <2>3. ASSUME NEW b \in Brains, NEW cut \in Cuts, ScoreNext(b, cut) PROVE RivlInv'
    <3> DEFINE code == brain[b].outputs[brain[b].next]
    <3>1. Flags(code).policy_violation \in BOOLEAN
      BY DEF Flags
    <3>2. brain[b].prompt \in Prompts /\ {} \subseteq Circumstances
      BY <2>3 DEF RivlInv, ScoreNext
    <3>3. Persist(RewardEvent(brain[b].prompt, Flags(code), {}), cut) /\ Len(rewardFile) < MaxWrites
      BY <2>3 DEF ScoreNext
    <3> HIDE DEF code
    <3>4. LossOK(rewardFile', scored') /\ Len(rewardFile') <= MaxWrites
      BY <3>1, <3>2, <3>3, PersistKeepsLoss DEF RivlInv
    <3> QED
      BY <2>3, <3>4 DEF RivlInv, ScoreNext, BrainIdle
  <2>4. ASSUME NEW b \in Brains, FinishProcess(b) PROVE RivlInv'
    BY <2>4 DEF RivlInv, FinishProcess
  <2>5. ASSUME NEW p \in Prompts, NEW s \in Submissions, NEW cut \in Cuts, ScoreSubmission(p, s, cut)
        PROVE  RivlInv'
    <3>1. FullVerification(s).policy_violation \in BOOLEAN
      BY DEF FullVerification
    <3>2. s.circumstances \subseteq Circumstances
      BY SubmissionsAssumption
    <3>3. Persist(RewardEvent(p, FullVerification(s), s.circumstances), cut) /\ Len(rewardFile) < MaxWrites
      BY <2>5 DEF ScoreSubmission
    <3>4. LossOK(rewardFile', scored') /\ Len(rewardFile') <= MaxWrites
      BY <3>1, <3>2, <3>3, PersistKeepsLoss DEF RivlInv
    <3> QED
      BY <2>5, <3>4 DEF RivlInv, ScoreSubmission
  <2> QED
    BY <2>1, <2>2, <2>3, <2>4, <2>5 DEF RivlNext
<1> QED
  BY <1>1, <1>2, PTL DEF RivlSpec

\* MemoryLossBounded: every score that returned is found by the later searches
\* of every brain, but for one event for each write that was cut short.
THEOREM RivlMemoryLossBounded == RivlSpec => []MemoryLossBounded
<1>1. RivlInv => MemoryLossBounded
  <2> SUFFICES ASSUME RivlInv PROVE MemoryLossBounded
    OBVIOUS
  <2>1. rewardFile \in WriteList /\ LossOK(rewardFile, scored)
    BY DEF RivlInv, LossOK
  <2>2. DOMAIN rewardFile = 1 .. Len(rewardFile) /\ Len(rewardFile) \in Nat
    BY <2>1 DEF WriteList
  <2>3. {i \in LoadEvents : rewardFile[i].cut = "whole"} = Found(rewardFile)
    BY <2>2 DEF LoadEvents, Readable, Found
  <2>4. {i \in DOMAIN rewardFile : rewardFile[i].cut # "whole"} = Broken(rewardFile)
    BY <2>2 DEF Broken
  <2>5. Cardinality(Found(rewardFile)) \in Nat /\ Cardinality(Broken(rewardFile)) \in Nat
    BY <2>1, FoundFinite
  <2>6. /\ scored \in Nat /\ Unfinished(rewardFile) \in {0, 1}
        /\ scored + Unfinished(rewardFile)
             <= Cardinality(Found(rewardFile)) + Cardinality(Broken(rewardFile))
    BY <2>1 DEF LossOK, Unfinished
  <2> DEFINE found == Cardinality(Found(rewardFile))
             broken == Cardinality(Broken(rewardFile))
  <2>7. MemoryLossBounded <=> scored - found <= broken
    BY <2>3, <2>4 DEF MemoryLossBounded
  <2>8. found \in Nat /\ broken \in Nat /\ scored + Unfinished(rewardFile) <= found + broken
    BY <2>5, <2>6
  <2> HIDE DEF found, broken
  <2> QED
    BY <2>6, <2>7, <2>8
<1> QED
  BY <1>1, RivlInvariant, PTL

-----------------------------------------------------------------------------
(* The artifact store and the reputations *)

Tables == UNION {[D -> Contents] : D \in SUBSET FileNames}
IdleCalls == {WriterIdle}
WrittenCalls == [pc : {"written"}, name : FileNames, content : Contents, alone : BOOLEAN]
ReadCalls == [pc : {"read", "truncated"}, name : FileNames, alone : BOOLEAN, data : Tables]

\* The table d has the hashes of the files stored alone.
Covers(d, f, done) == \A n \in done : n \in DOMAIN d /\ d[n] = f[n]

\* A store call: it has taken its name out of the files stored alone, what it
\* read of the manifest has the others, and if nothing overlapped it so far
\* then its file is as it wrote it.
CallOK(call, f, done) ==
  /\ call \in IdleCalls \cup WrittenCalls \cup ReadCalls
  /\ call.pc # "idle" => call.name \notin done
  /\ call.pc = "written" => (call.alone => f[call.name] = call.content)
  /\ call.pc \in {"read", "truncated"} =>
       /\ Covers(call.data, f, done)
       /\ call.name \in DOMAIN call.data
       /\ call.alone => f[call.name] = call.data[call.name]

ManifestOK(m, f, done) ==
  /\ m.state \in {"absent", "unreadable", "entries"}
  /\ m.state = "absent" => done = {}
  /\ m.state = "entries" => m.data \in Tables /\ Covers(m.data, f, done)

FilesOK(f, done) ==
  /\ f \in [FileNames -> Contents \cup {Missing}]
  /\ done \in SUBSET FileNames /\ \A n \in done : f[n] \in Contents

StoreInv ==
  /\ FilesOK(files, solo)
  /\ ManifestOK(manifest, files, solo)
  /\ DOMAIN writer = Writers
  /\ \A w \in Writers : CallOK(writer[w], files, solo)
  /\ \A v, w \in Writers : v # w /\ writer[v].pc # "idle" /\ writer[w].pc # "idle" => ~writer[v].alone
  /\ stores \in 0 .. MaxStores

\* The shapes of the calls, by where they are.
LEMMA CallShape ==
  ASSUME NEW call, NEW f, NEW done, CallOK(call, f, done)
  PROVE  /\ call.pc \in {"idle", "written", "read", "truncated"}
         /\ call.pc = "written" => call \in WrittenCalls
         /\ call.pc \in {"read", "truncated"} => call \in ReadCalls
         /\ call.pc = "idle" => call = WriterIdle
BY DEF CallOK, IdleCalls, WrittenCalls, ReadCalls, WriterIdle

LEMMA IdleOK == ASSUME NEW f, NEW done PROVE CallOK(WriterIdle, f, done)
BY DEF CallOK, IdleCalls, WriterIdle

\* A call that another one overlaps is not alone any more, and what it holds
\* is as good as before: the other takes its name out of the files stored alone.
LEMMA OverlappedCall ==
  ASSUME NEW call, NEW f, NEW done, CallOK(call, f, done), call.pc # "idle",
         FilesOK(f, done), NEW n \in FileNames, NEW c \in Contents
  PROVE  /\ CallOK([call EXCEPT !.alone = FALSE], [f EXCEPT ![n] = c], done \ {n})
         /\ [call EXCEPT !.alone = FALSE].pc = call.pc
         /\ [call EXCEPT !.alone = FALSE].alone = FALSE
<1> DEFINE other == [call EXCEPT !.alone = FALSE]
           g == [f EXCEPT ![n] = c]
<1>1. \A m \in done \ {n} : g[m] = f[m]
  BY DEF FilesOK
<1>2. CASE call.pc = "written"
  <2>1. call \in WrittenCalls
    BY <1>2, CallShape
  <2>2. other \in WrittenCalls /\ other.pc = "written" /\ other.alone = FALSE /\ other.name = call.name
    BY <2>1 DEF WrittenCalls
  <2> QED
    BY <1>2, <2>2 DEF CallOK
<1>3. CASE call.pc \in {"read", "truncated"}
  <2>1. call \in ReadCalls
    BY <1>3, CallShape
  <2>2. /\ other \in ReadCalls /\ other.pc = call.pc /\ other.alone = FALSE
        /\ other.name = call.name /\ other.data = call.data
    BY <2>1 DEF ReadCalls
  <2>3. Covers(call.data, f, done) /\ call.name \in DOMAIN call.data /\ call.name \notin done
    BY <1>3 DEF CallOK
  <2>4. Covers(call.data, g, done \ {n})
    BY <1>1, <2>3 DEF Covers
  <2> HIDE DEF g, other
  <2>5. CallOK(other, g, done \ {n})
    BY <1>3, <2>2, <2>3, <2>4 DEF CallOK
  <2> QED
    BY <2>2, <2>5 DEF g, other
<1> QED
  BY <1>2, <1>3, CallShape

LEMMA WriteFileKeepsStore ==
  ASSUME StoreInv, NEW w \in Writers, NEW n \in FileNames, NEW c \in Contents, WriteFile(w, n, c)
  PROVE  StoreInv'
<1> DEFINE busy == {v \in Writers : writer[v].pc # "idle"}
           call == [pc |-> "written", name |-> n, content |-> c, alone |-> busy = {}]
<1>1. /\ writer' = [v \in Writers |-> IF v = w THEN call
                                       ELSE IF v \in busy THEN [writer[v] EXCEPT !.alone = FALSE]
                                       ELSE writer[v]]
      /\ files' = [files EXCEPT ![n] = c] /\ solo' = solo \ {n} /\ manifest' = manifest
      /\ writer[w].pc = "idle" /\ stores < MaxStores /\ stores' = stores + 1
  BY DEF WriteFile
<1>2. FilesOK(files, solo) /\ ManifestOK(manifest, files, solo)
  BY DEF StoreInv
<1>3. \A m \in solo \ {n} : files'[m] = files[m]
  BY <1>1, <1>2 DEF FilesOK
<1>4. FilesOK(files', solo') /\ files'[n] = c /\ n \notin solo'
  BY <1>1, <1>2 DEF FilesOK
<1>5. ManifestOK(manifest', files', solo')
  BY <1>1, <1>2, <1>3 DEF ManifestOK, Covers
<1>6. call \in WrittenCalls /\ call.pc = "written" /\ call.name = n /\ call.content = c
      /\ call.alone = (busy = {})
  BY DEF WrittenCalls
<1>7. \A v \in Writers : v # w /\ v \in busy =>
        /\ CallOK(writer'[v], files', solo')
        /\ writer'[v].pc = writer[v].pc /\ writer'[v].alone = FALSE
  BY <1>1, <1>2, OverlappedCall DEF StoreInv
<1>8. \A v \in Writers : v # w /\ v \notin busy => writer'[v] = writer[v] /\ writer[v] = WriterIdle
  BY <1>1, CallShape DEF StoreInv
<1>9. writer'[w] = call
  BY <1>1
<1> HIDE DEF call
<1>10. CallOK(call, files', solo')
  BY <1>4, <1>6 DEF CallOK
<1>11. \A v \in Writers : CallOK(writer'[v], files', solo')
  BY <1>7, <1>8, <1>9, <1>10, IdleOK
<1>12. \A v \in Writers : v # w /\ writer'[v].pc # "idle" => v \in busy
  BY <1>8
<1>13. \A u, v \in Writers : u # v /\ writer'[u].pc # "idle" /\ writer'[v].pc # "idle" => ~writer'[u].alone
  <2> SUFFICES ASSUME NEW u \in Writers, NEW v \in Writers, u # v,
                      writer'[u].pc # "idle", writer'[v].pc # "idle"
               PROVE  ~writer'[u].alone
    OBVIOUS
  <2>1. CASE u = w
    <3>1. v \in busy
      BY <1>12, <2>1
    <3> QED
      BY <1>6, <1>9, <2>1, <3>1
  <2>2. CASE u # w
    BY <1>7, <1>12, <2>2
  <2> QED
    BY <2>1, <2>2
<1>14. stores' \in 0 .. MaxStores /\ DOMAIN writer' = Writers
  BY <1>1, MemoryAssumption DEF StoreInv
<1> QED
  BY <1>4, <1>5, <1>11, <1>13, <1>14 DEF StoreInv

\* One call changes and no other: what remains to be shown of it.
LEMMA CallChanges ==
  ASSUME StoreInv, NEW w \in Writers, NEW call, writer' = [writer EXCEPT ![w] = call],
         CallOK(call, files, solo),
         call.pc # "idle" => writer[w].pc # "idle" /\ call.alone = writer[w].alone,
         files' = files, solo' = solo, stores' = stores, ManifestOK(manifest', files, solo)
  PROVE  StoreInv'
<1>1. /\ writer'[w] = call /\ DOMAIN writer' = Writers
      /\ \A v \in Writers : v # w => writer'[v] = writer[v]
  BY DEF StoreInv
<1>2. \A v \in Writers : CallOK(writer'[v], files', solo')
  BY <1>1 DEF StoreInv
<1>3. \A u, v \in Writers : u # v /\ writer'[u].pc # "idle" /\ writer'[v].pc # "idle" => ~writer'[u].alone
  BY <1>1 DEF StoreInv
<1> QED
  BY <1>1, <1>2, <1>3 DEF StoreInv

LEMMA ReadKeepsStore ==
  ASSUME StoreInv, NEW w \in Writers, ReadManifest(w)
  PROVE  StoreInv'
<1> DEFINE old == writer[w]
           d == ManifestData(old.name, old.content)
           call == [pc |-> "read", name |-> old.name, alone |-> old.alone, data |-> d]
<1>1. CallOK(old, files, solo) /\ ManifestOK(manifest, files, solo) /\ old.pc = "written"
  BY DEF StoreInv, ReadManifest
<1>2. /\ old \in WrittenCalls /\ old.name \in FileNames /\ old.content \in Contents /\ old.alone \in BOOLEAN
      /\ old.name \notin solo /\ (old.alone => files[old.name] = old.content)
  <2>1. old \in WrittenCalls
    BY <1>1, CallShape
  <2> QED
    BY <1>1, <2>1 DEF CallOK, WrittenCalls
<1>3. /\ files' = files /\ solo' = solo /\ stores' = stores /\ manifest' = manifest
      /\ writer' = [writer EXCEPT ![w] = IF manifest.state = "unreadable" THEN WriterIdle ELSE call]
  BY DEF ReadManifest
<1>4. CASE manifest.state = "unreadable"
  <2>1. WriterIdle.pc = "idle"
    BY DEF WriterIdle
  <2>2. writer' = [writer EXCEPT ![w] = WriterIdle]
    BY <1>3, <1>4
  <2> QED
    BY <1>1, <1>3, <2>1, <2>2, IdleOK, CallChanges
<1>5. CASE manifest.state # "unreadable"
  <2> DEFINE known == IF manifest.state = "absent" THEN {} ELSE DOMAIN manifest.data
  <2>1. d = [m \in known \cup {old.name} |-> IF m = old.name THEN old.content ELSE manifest.data[m]]
    BY DEF ManifestData
  <2>2. known \subseteq FileNames /\ \A m \in known : manifest.data[m] \in Contents
    BY <1>1, <1>5 DEF ManifestOK, Tables
  <2>3. \A m \in solo : m \in known /\ manifest.data[m] = files[m]
    BY <1>1, <1>5 DEF ManifestOK, Covers
  <2> HIDE DEF known
  <2>4. d \in [known \cup {old.name} -> Contents]
    BY <1>2, <2>1, <2>2
  <2>5. d \in Tables
    BY <1>2, <2>2, <2>4 DEF Tables
  <2>6. Covers(d, files, solo) /\ old.name \in DOMAIN d /\ d[old.name] = old.content
    BY <1>2, <2>1, <2>3 DEF Covers
  <2> HIDE DEF d
  <2>7. call \in ReadCalls /\ call.pc = "read" /\ call.name = old.name /\ call.alone = old.alone /\ call.data = d
    BY <1>2, <2>5 DEF ReadCalls
  <2> HIDE DEF call
  <2>8. CallOK(call, files, solo)
    BY <1>2, <2>6, <2>7 DEF CallOK
  <2>9. writer' = [writer EXCEPT ![w] = call]
    BY <1>3, <1>5
  <2> QED
    BY <1>1, <1>3, <2>7, <2>8, <2>9, CallChanges
<1> QED
  BY <1>4, <1>5

LEMMA TruncateKeepsStore ==
  ASSUME StoreInv, NEW w \in Writers, TruncateManifest(w)
  PROVE  StoreInv'
<1> DEFINE old == writer[w]
           call == [old EXCEPT !.pc = "truncated"]
<1>1. CallOK(old, files, solo) /\ old.pc = "read"
  BY DEF StoreInv, TruncateManifest
<1>2. old \in ReadCalls
  BY <1>1, CallShape
<1>3. /\ call \in ReadCalls /\ call.pc = "truncated" /\ call.name = old.name
      /\ call.alone = old.alone /\ call.data = old.data
  BY <1>2 DEF ReadCalls
<1>4. writer' = [writer EXCEPT ![w] = call] /\ files' = files /\ solo' = solo /\ stores' = stores
  BY DEF TruncateManifest
<1>5. ManifestOK(manifest', files, solo)
  BY DEF TruncateManifest, ManifestOK
<1> HIDE DEF call
<1>6. CallOK(call, files, solo)
  BY <1>1, <1>3 DEF CallOK
<1> QED
  BY <1>1, <1>3, <1>4, <1>5, <1>6, CallChanges

\* A call that dumps the manifest alone finds no other under way.
LEMMA DumpKeepsStore ==
  ASSUME StoreInv, NEW w \in Writers, DumpManifest(w)
  PROVE  StoreInv'
<1> DEFINE old == writer[w]
<1>1. CallOK(old, files, solo) /\ old.pc = "truncated" /\ FilesOK(files, solo)
  BY DEF StoreInv, DumpManifest
<1>2. old \in ReadCalls
  BY <1>1, CallShape
<1>3. /\ old.name \in FileNames /\ old.data \in Tables /\ old.name \in DOMAIN old.data
      /\ Covers(old.data, files, solo) /\ (old.alone => files[old.name] = old.data[old.name])
  BY <1>1, <1>2 DEF CallOK, ReadCalls
<1>4. /\ manifest'.state \in {"entries", "unreadable"}
      /\ manifest'.state = "entries" => manifest'.data = old.data
  BY DEF DumpManifest, Dumped
<1>5. /\ writer' = [writer EXCEPT ![w] = WriterIdle] /\ files' = files /\ stores' = stores
      /\ solo' = IF old.alone THEN solo \cup {old.name} ELSE solo
  BY DEF DumpManifest
<1>6. Covers(old.data, files, solo')
  BY <1>3, <1>5 DEF Covers
<1>7. ManifestOK(manifest', files, solo')
  BY <1>3, <1>4, <1>6 DEF ManifestOK
<1>8. CASE ~old.alone
  <2>1. WriterIdle.pc = "idle" /\ solo' = solo
    BY <1>5, <1>8 DEF WriterIdle
  <2> QED
    BY <1>5, <1>7, <2>1, IdleOK, CallChanges
<1>9. CASE old.alone
  <2>1. \A v \in Writers : v # w => writer[v].pc = "idle"
    BY <1>1, <1>9 DEF StoreInv
  <2>2. \A v \in Writers : writer'[v] = WriterIdle
    BY <1>5, <2>1, CallShape DEF StoreInv
  <2>3. WriterIdle.pc = "idle" /\ DOMAIN writer' = Writers
    BY <1>5 DEF WriterIdle, StoreInv
  <2>4. old.data[old.name] \in Contents
    BY <1>3 DEF Tables
  <2>5. FilesOK(files, solo')
    BY <1>1, <1>3, <1>5, <1>9, <2>4 DEF FilesOK
  <2> QED
    BY <1>5, <1>7, <2>2, <2>3, <2>5, IdleOK DEF StoreInv
<1> QED
  BY <1>8, <1>9

Updates == [score : Scores, success : BOOLEAN, violation : BOOLEAN]
UpdateList == Seq(Updates)
Rows == [total_tasks : Nat, successful_tasks : Nat,
         avg_score : [num : Int, den : Nat \ {0}], safety_violations : Nat]

Succeeded(us) == {i \in 1 .. Len(us) : us[i].success}
Violating(us) == {i \in 1 .. Len(us) : us[i].violation}
ScoreOf(us) == [i \in 1 .. Len(us) |-> us[i].score]
TotalScore(us) == SumFunctionOnSet(ScoreOf(us), 1 .. Len(us))

\* The row after the updates us; the mean is kept as a fraction.
RowOK(row, us) ==
  /\ us \in UpdateList /\ Len(us) <= MaxUpdates
  /\ Len(us) = 0 => row = NoRow
  /\ Len(us) > 0 =>
       /\ row \in Rows
       /\ row.total_tasks = Len(us)
       /\ row.successful_tasks = Cardinality(Succeeded(us))
       /\ row.safety_violations = Cardinality(Violating(us))
       /\ row.avg_score.num * Len(us) = row.avg_score.den * TotalScore(us)

\* The counts and the total after one more update.
LEMMA OneMoreUpdate ==
  ASSUME NEW us \in UpdateList, NEW u \in Updates
  PROVE  /\ Append(us, u) \in UpdateList /\ Len(Append(us, u)) = Len(us) + 1 /\ Len(us) \in Nat
         /\ Cardinality(Succeeded(us)) \in Nat /\ Cardinality(Violating(us)) \in Nat
         /\ TotalScore(us) \in Int
         /\ Cardinality(Succeeded(Append(us, u))) = Cardinality(Succeeded(us)) + One(u.success)
         /\ Cardinality(Violating(Append(us, u))) = Cardinality(Violating(us)) + One(u.violation)
         /\ TotalScore(Append(us, u)) = TotalScore(us) + u.score
<1> DEFINE vs == Append(us, u)
           k == Len(us)
           m == k + 1
<1>1. /\ k \in Nat /\ vs \in UpdateList /\ Len(vs) = m /\ vs[m] = u
      /\ \A i \in 1 .. k : vs[i] = us[i] /\ us[i] \in Updates
  BY DEF UpdateList
<1>2. /\ \A i \in 1 .. m : i \in 1 .. k \/ i = m
      /\ \A i \in 1 .. k : i \in 1 .. m /\ i # m
      /\ m \in 1 .. m /\ m \notin 1 .. k /\ 1 .. m = (1 .. k) \cup {m}
      /\ IsFiniteSet(1 .. k)
  <2>1. /\ \A i \in 1 .. m : i \in 1 .. k \/ i = m
        /\ \A i \in 1 .. k : i \in 1 .. m /\ i # m
        /\ m \in 1 .. m /\ m \notin 1 .. k
    BY <1>1
  <2>2. IsFiniteSet(1 .. k)
    BY <1>1, FS_Interval
  <2>3. 1 .. m = (1 .. k) \cup {m}
    BY <1>1
  <2> QED
    BY <2>1, <2>2, <2>3
<1>3. u.score \in Int /\ u.success \in BOOLEAN /\ u.violation \in BOOLEAN /\ \A i \in 1 .. k : us[i].score \in Int
  BY <1>1, MemoryAssumption DEF Updates
<1>4. k = Len(us)
  OBVIOUS
<1> HIDE DEF vs, k, m
<1>5. /\ Cardinality(Succeeded(us)) \in Nat
      /\ Cardinality(Succeeded(vs)) = Cardinality(Succeeded(us)) + One(u.success)
  <2> DEFINE S == Succeeded(us)
  <2>1. S \in SUBSET (1 .. k) /\ m \notin S
    BY <1>2, <1>4 DEF Succeeded
  <2>2. \A i \in 1 .. m : i \in Succeeded(vs) <=> (i \in S \/ (i = m /\ u.success))
    BY <1>1, <1>2, <1>4 DEF Succeeded
  <2>3. Succeeded(vs) \in SUBSET (1 .. m)
    BY <1>1 DEF Succeeded
  <2>4. Succeeded(vs) = IF u.success THEN S \cup {m} ELSE S
    BY <1>2, <2>1, <2>2, <2>3
  <2> HIDE DEF S
  <2>5. IsFiniteSet(S)
    BY <1>2, <2>1, FS_Subset
  <2>6. Cardinality(S) \in Nat /\ Cardinality(S \cup {m}) = Cardinality(S) + 1
    BY <2>1, <2>5, FS_AddElement, FS_CardinalityType
  <2> QED
    BY <1>3, <2>4, <2>6 DEF One, S
<1>6. /\ Cardinality(Violating(us)) \in Nat
      /\ Cardinality(Violating(vs)) = Cardinality(Violating(us)) + One(u.violation)
  <2> DEFINE S == Violating(us)
  <2>1. S \in SUBSET (1 .. k) /\ m \notin S
    BY <1>2, <1>4 DEF Violating
  <2>2. \A i \in 1 .. m : i \in Violating(vs) <=> (i \in S \/ (i = m /\ u.violation))
    BY <1>1, <1>2, <1>4 DEF Violating
  <2>3. Violating(vs) \in SUBSET (1 .. m)
    BY <1>1 DEF Violating
  <2>4. Violating(vs) = IF u.violation THEN S \cup {m} ELSE S
    BY <1>2, <2>1, <2>2, <2>3
  <2> HIDE DEF S
  <2>5. IsFiniteSet(S)
    BY <1>2, <2>1, FS_Subset
  <2>6. Cardinality(S) \in Nat /\ Cardinality(S \cup {m}) = Cardinality(S) + 1
    BY <2>1, <2>5, FS_AddElement, FS_CardinalityType
  <2> QED
    BY <1>3, <2>4, <2>6 DEF One, S
<1>7. TotalScore(us) \in Int /\ TotalScore(vs) = TotalScore(us) + u.score
  <2> DEFINE g == ScoreOf(us)
             h == ScoreOf(vs)
             D == 1 .. k
             E == 1 .. m
  <2>1. \A i \in D : g[i] = us[i].score /\ h[i] = us[i].score /\ g[i] \in Int /\ h[i] \in Int
    BY <1>1, <1>2, <1>3, <1>4 DEF ScoreOf
  <2>2. h[m] = u.score /\ h[m] \in Int
    BY <1>1, <1>2, <1>3 DEF ScoreOf
  <2>3. E = D \cup {m} /\ m \notin D /\ IsFiniteSet(D)
    BY <1>2
  <2>4. TotalScore(us) = SumFunctionOnSet(g, D) /\ TotalScore(vs) = SumFunctionOnSet(h, E)
    BY <1>1, <1>4 DEF TotalScore
  <2> HIDE DEF g, h, D, E
  <2>5. SumFunctionOnSet(h, D \cup {m}) = SumFunctionOnSet(h, D) + h[m]
    BY <2>1, <2>2, <2>3, SumAdd
  <2>6. SumFunctionOnSet(h, D) = SumFunctionOnSet(g, D)
    BY <2>1, <2>3, SumAgree
  <2>7. SumFunctionOnSet(g, D) \in Int
    BY <2>1, <2>3, SumType
  <2> QED
    BY <2>2, <2>3, <2>4, <2>5, <2>6, <2>7
<1> QED
  BY <1>1, <1>4, <1>5, <1>6, <1>7 DEF vs, m

\* The running average of the UPDATE is the mean of one score more.
LEMMA RunningMean ==
  ASSUME NEW n \in Int, NEW d \in Nat \ {0}, NEW t \in Nat, NEW total \in Int, NEW x \in Int,
         n * t = d * total
  PROVE  /\ n * t + x * d \in Int /\ d * (t + 1) \in Nat \ {0}
         /\ (n * t + x * d) * (t + 1) = (d * (t + 1)) * (total + x)
<1> DEFINE a == d * total
           b == d * x
           s == t + 1
<1>1. a \in Int /\ b \in Int /\ s \in Nat \ {0} /\ total + x \in Int /\ x * d = b
  OBVIOUS
<1>2. d * (total + x) = a + b
  OBVIOUS
<1>3. d * s \in Nat \ {0}
  BY <1>1
<1>4. (d * s) * (total + x) = (d * (total + x)) * s
  BY <1>1
<1> QED
  BY <1>1, <1>2, <1>3, <1>4

LEMMA UpdateKeepsRow ==
  ASSUME RowOK(reputation, updates), NEW score \in Scores, NEW success \in BOOLEAN,
         NEW violation \in BOOLEAN, UpdateReputation(score, success, violation)
  PROVE  RowOK(reputation', updates')
<1> DEFINE us == updates
           u == [score |-> score, success |-> success, violation |-> violation]
           vs == Append(us, u)
           r == reputation
           done == Cardinality(Succeeded(us))
           bad == Cardinality(Violating(us))
           total == TotalScore(us)
           k == Len(us)
<1>1. us \in UpdateList /\ u \in Updates /\ updates' = vs /\ Len(us) < MaxUpdates /\ score \in Int
  BY MemoryAssumption DEF RowOK, UpdateReputation, Updates
<1>2. u.score = score /\ u.success = success /\ u.violation = violation
  OBVIOUS
<1> HIDE DEF u
<1>3. /\ vs \in UpdateList /\ Len(vs) = k + 1 /\ k \in Nat
      /\ done \in Nat /\ bad \in Nat /\ total \in Int
      /\ Cardinality(Succeeded(vs)) = done + One(success)
      /\ Cardinality(Violating(vs)) = bad + One(violation)
      /\ TotalScore(vs) = total + score
  BY <1>1, <1>2, OneMoreUpdate
<1>4. One(success) \in Nat /\ One(violation) \in Nat
  BY DEF One
<1>5. Len(vs) <= MaxUpdates
  BY <1>1, <1>3, MemoryAssumption
<1>6. CASE k = 0
  <2>1. r = NoRow
    BY <1>6 DEF RowOK
  <2>2. done = 0 /\ bad = 0 /\ total = 0
    <3>1. 1 .. k = {}
      BY <1>6
    <3>2. Succeeded(us) = {} /\ Violating(us) = {}
      BY <3>1 DEF Succeeded, Violating
    <3>3. total = 0
      BY <3>1, SumEmpty DEF TotalScore
    <3> QED
      BY <3>2, <3>3, FS_EmptySet
  <2>3. reputation' = [total_tasks |-> 1, successful_tasks |-> One(success),
                       avg_score |-> [num |-> score, den |-> 1], safety_violations |-> One(violation)]
    BY <2>1 DEF UpdateReputation
  <2>4. /\ reputation' \in Rows /\ reputation'.total_tasks = 1
        /\ reputation'.successful_tasks = One(success) /\ reputation'.safety_violations = One(violation)
        /\ reputation'.avg_score.num = score /\ reputation'.avg_score.den = 1
    BY <1>1, <1>4, <2>3 DEF Rows
  <2>5. score * (k + 1) = 1 * (total + score)
    BY <1>1, <1>6, <2>2
  <2> HIDE DEF us, vs, done, bad, total, k
  <2> QED
    BY <1>1, <1>3, <1>4, <1>5, <1>6, <2>2, <2>4, <2>5 DEF RowOK
<1>7. CASE k > 0
  <2>1. /\ r \in Rows /\ r.total_tasks = k /\ r.successful_tasks = done /\ r.safety_violations = bad
        /\ r.avg_score.num * k = r.avg_score.den * total
    BY <1>7 DEF RowOK
  <2>2. r # NoRow
    BY <1>3, <1>7, <2>1 DEF NoRow
  <2> DEFINE n == r.avg_score.num
             d == r.avg_score.den
             n2 == n * k + score * d
             d2 == d * (k + 1)
  <2>3. n \in Int /\ d \in Nat \ {0} /\ n * k = d * total
    BY <2>1 DEF Rows
  <2>4. reputation' = [total_tasks |-> k + 1, successful_tasks |-> done + One(success),
                       avg_score |-> [num |-> n2, den |-> d2], safety_violations |-> bad + One(violation)]
    BY <2>1, <2>2 DEF UpdateReputation, NewAverage
  <2> HIDE DEF n, d, k, total
  <2>5. n2 \in Int /\ d2 \in Nat \ {0} /\ n2 * (k + 1) = d2 * (total + score)
    BY <1>1, <1>3, <2>3, RunningMean
  <2> HIDE DEF n2, d2, us, vs, done, bad
  <2>6. /\ reputation' \in Rows /\ reputation'.total_tasks = k + 1
        /\ reputation'.successful_tasks = done + One(success)
        /\ reputation'.safety_violations = bad + One(violation)
        /\ reputation'.avg_score.num = n2 /\ reputation'.avg_score.den = d2
    BY <1>3, <1>4, <2>4, <2>5 DEF Rows
  <2>7. Len(vs) # 0
    BY <1>3
  <2> QED
    BY <1>1, <1>3, <1>5, <2>5, <2>6, <2>7 DEF RowOK
<1> QED
  BY <1>3, <1>6, <1>7

\* The files stored alone are the ones of the manifest, and the row of a
\* worker is that of its updates (MemoryInv is the inductive invariant).
MemoryInv == StoreInv /\ RowOK(reputation, updates)

THEOREM MemoryInvariant == MemorySpec => []MemoryInv
<1>1. MemoryInit => MemoryInv
  <2> SUFFICES ASSUME MemoryInit PROVE MemoryInv
    OBVIOUS
  <2>1. FilesOK(files, solo) /\ ManifestOK(manifest, files, solo)
    BY DEF MemoryInit, FilesOK, ManifestOK
  <2>2. DOMAIN writer = Writers /\ \A w \in Writers : writer[w] = WriterIdle /\ writer[w].pc = "idle"
    BY DEF MemoryInit, WriterIdle
  <2>3. \A w \in Writers : CallOK(writer[w], files, solo)
    BY <2>2, IdleOK
  <2>4. stores \in 0 .. MaxStores
    BY MemoryAssumption DEF MemoryInit
  <2>5. StoreInv
    BY <2>1, <2>2, <2>3, <2>4 DEF StoreInv
  <2>6. updates \in UpdateList /\ Len(updates) = 0 /\ reputation = NoRow
    BY DEF MemoryInit, UpdateList
  <2>7. RowOK(reputation, updates)
    BY <2>6, MemoryAssumption DEF RowOK
  <2> QED
    BY <2>5, <2>7 DEF MemoryInv
<1>2. MemoryInv /\ [MemoryNext]_memoryVars => MemoryInv'
  <2> SUFFICES ASSUME MemoryInv, [MemoryNext]_memoryVars PROVE MemoryInv'
    OBVIOUS
  <2> USE DEF MemoryInv
  <2>1. CASE UNCHANGED memoryVars
    BY <2>1 DEF memoryVars, StoreInv
  <2>2. ASSUME NEW w \in Writers, NEW n \in FileNames, NEW c \in Contents, WriteFile(w, n, c)
        PROVE  MemoryInv'
    <3>1. reputation' = reputation /\ updates' = updates
      BY <2>2 DEF WriteFile, tables
    <3> QED
      BY <2>2, <3>1, WriteFileKeepsStore
  <2>3. ASSUME NEW w \in Writers, ReadManifest(w) PROVE MemoryInv'
    <3>1. reputation' = reputation /\ updates' = updates
      BY <2>3 DEF ReadManifest, tables
    <3> QED
      BY <2>3, <3>1, ReadKeepsStore
  <2>4. ASSUME NEW w \in Writers, TruncateManifest(w) PROVE MemoryInv'
    <3>1. reputation' = reputation /\ updates' = updates
      BY <2>4 DEF TruncateManifest, tables
    <3> QED
      BY <2>4, <3>1, TruncateKeepsStore
  <2>5. ASSUME NEW w \in Writers, DumpManifest(w) PROVE MemoryInv'
    <3>1. reputation' = reputation /\ updates' = updates
      BY <2>5 DEF DumpManifest, tables
    <3> QED
      BY <2>5, <3>1, DumpKeepsStore
  <2>6. ASSUME NEW w \in Writers, Dies(w) PROVE MemoryInv'
    <3>1. /\ reputation' = reputation /\ updates' = updates
          /\ writer' = [writer EXCEPT ![w] = WriterIdle] /\ WriterIdle.pc = "idle"
          /\ files' = files /\ solo' = solo /\ stores' = stores /\ manifest' = manifest
      BY <2>6 DEF Dies, tables, WriterIdle
    <3>2. ManifestOK(manifest', files, solo)
      BY <3>1 DEF StoreInv
    <3>3. StoreInv'
      BY <3>1, <3>2, IdleOK, CallChanges
    <3> QED
      BY <3>1, <3>3
  <2>7. ASSUME NEW score \in Scores, NEW success \in BOOLEAN, NEW violation \in BOOLEAN,
               UpdateReputation(score, success, violation)
        PROVE  MemoryInv'
    <3>1. UNCHANGED <<files, manifest, writer, solo, stores>>
      BY <2>7 DEF UpdateReputation, artifacts
    <3>2. StoreInv'
      BY <3>1 DEF StoreInv
    <3> QED
      BY <2>7, <3>2, UpdateKeepsRow
  <2> QED
    BY <2>1, <2>2, <2>3, <2>4, <2>5, <2>6, <2>7 DEF MemoryNext
<1> QED
  BY <1>1, <1>2, PTL DEF MemorySpec

\* MemoryCoherent: a file stored alone verifies whenever the manifest can be
\* read, however the stores of other files overlap, fail or die; and the
\* running averages of the database are the counts and means of all updates.
THEOREM MemoryStaysCoherent == MemorySpec => []MemoryCoherent
<1>1. MemoryInv => MemoryCoherent
  <2> SUFFICES ASSUME MemoryInv PROVE MemoryCoherent
    OBVIOUS
  <2>1. SoloStoresVerify
    BY MemoryAssumption DEF SoloStoresVerify, VerifyArtifact, MemoryInv, StoreInv, ManifestOK, FilesOK, Covers
  <2>2. ReputationIsMean
    <3> SUFFICES ASSUME updates # <<>> PROVE ReputationIsMean
      BY DEF ReputationIsMean
    <3>1. updates \in UpdateList /\ RowOK(reputation, updates)
      BY DEF MemoryInv, RowOK
    <3>2. Len(updates) \in Nat /\ Len(updates) > 0 /\ DOMAIN updates = 1 .. Len(updates)
      BY <3>1 DEF UpdateList
    <3>3. /\ Succeeded(updates) = {i \in DOMAIN updates : updates[i].success}
          /\ Violating(updates) = {i \in DOMAIN updates : updates[i].violation}
      BY <3>2 DEF Succeeded, Violating
    <3>4. TotalScore(updates) = SumFunctionOnSet([i \in DOMAIN updates |-> updates[i].score], DOMAIN updates)
      BY <3>2 DEF TotalScore, ScoreOf
    <3>5. /\ reputation \in Rows /\ reputation.total_tasks = Len(updates)
          /\ reputation.successful_tasks = Cardinality(Succeeded(updates))
          /\ reputation.safety_violations = Cardinality(Violating(updates))
          /\ reputation.avg_score.num * Len(updates) = reputation.avg_score.den * TotalScore(updates)
      BY <3>1, <3>2 DEF RowOK
    <3>6. reputation.avg_score.den > 0
      BY <3>5 DEF Rows
    <3> QED
      BY <3>3, <3>4, <3>5, <3>6 DEF ReputationIsMean
  <2> QED
    BY <2>1, <2>2 DEF MemoryCoherent
<1> QED
  BY <1>1, MemoryInvariant, PTL

-----------------------------------------------------------------------------
(* The chat-to-chain API *)

ProofList == Seq(PrivacyStatus)
Artifacts == [type : ArtifactType, redacted_hash : ContentHash, privacy_status : PrivacyStatus,
              proof : ProofList, funding_source : {"none"}]
Entries == [action : {"artifact_created", "artifact_approved"}, artifact : ArtifactIds,
            status : PrivacyStatus \cup {NoStatus}]
EntryList == Seq(Entries)

\* The log accounts for the artifacts db.
TrailOK(log, db) ==
  /\ log \in EntryList
  /\ \A i \in DOMAIN log : log[i].artifact \in DOMAIN db
  /\ \A a \in DOMAIN db :
       /\ EntriesOf(log, a) # {}
       /\ \A i \in EntriesOf(log, a) :
            /\ (log[i].action = "artifact_created") <=> (\A j \in EntriesOf(log, a) : i <= j)
            /\ (\A j \in EntriesOf(log, a) : j <= i) => StatusTold(log[i]) = db[a].privacy_status

\* A later proof q was chained from p.
Chained(p, q) == p \in ProofList /\ q \in ProofList /\ Len(p) <= Len(q) /\ \A i \in 1 .. Len(p) : p[i] = q[i]

PayloadsOK(out, db, ids) ==
  \A p \in out : /\ p.artifact \in ids
                 /\ p.artifact \in DOMAIN db => Chained(p.proof, db[p.artifact].proof)

DatabaseOK(db, ids) ==
  /\ db \in [DOMAIN db -> Artifacts]
  /\ DOMAIN db \subseteq ids /\ ids \subseteq ArtifactIds

ApiInv ==
  /\ DatabaseOK(database, used)
  /\ TrailOK(auditLog, database) /\ Len(auditLog) <= MaxEntries
  /\ PayloadsOK(issued, database, used)
  /\ sessions \in 0 .. MaxSessions /\ apiRestarts \in 0 .. MaxApiRestarts
  /\ payments \subseteq DOMAIN database

\* The entries of an artifact after one more entry.
LEMMA OneMoreEntry ==
  ASSUME NEW log \in EntryList, NEW e \in Entries
  PROVE  /\ Append(log, e) \in EntryList /\ Len(Append(log, e)) = Len(log) + 1 /\ Len(log) \in Nat
         /\ DOMAIN log = 1 .. Len(log) /\ DOMAIN Append(log, e) = 1 .. (Len(log) + 1)
         /\ \A i \in 1 .. Len(log) : Append(log, e)[i] = log[i]
         /\ Append(log, e)[Len(log) + 1] = e
BY DEF EntryList

LEMMA TrailAfterEntry ==
  ASSUME NEW log, NEW db, TrailOK(log, db), NEW e \in Entries,
         NEW new, DOMAIN new = DOMAIN db \cup {e.artifact},
         e.action = "artifact_created" <=> e.artifact \notin DOMAIN db,
         new[e.artifact].privacy_status = StatusTold(e),
         \A x \in DOMAIN db : x # e.artifact => new[x].privacy_status = db[x].privacy_status
  PROVE  TrailOK(Append(log, e), new)
<1> DEFINE more == Append(log, e)
           k == Len(log)
           m == k + 1
           a == e.artifact
<1>1. log \in EntryList
  BY DEF TrailOK
<1>2. /\ more \in EntryList /\ k \in Nat /\ DOMAIN log = 1 .. k /\ DOMAIN more = 1 .. m
      /\ \A i \in 1 .. k : more[i] = log[i]
      /\ more[m] = e
  BY <1>1, OneMoreEntry
<1> HIDE DEF more, k
<1>3. /\ \A i \in 1 .. m : i \in 1 .. k \/ i = m
      /\ \A i \in 1 .. k : i \in 1 .. m /\ i < m /\ i # m
      /\ m \in 1 .. m /\ m \in Int /\ \A i \in 1 .. m : i \in Int /\ i <= m
  BY <1>2
<1> HIDE DEF m
<1>4. \A i \in DOMAIN more : more[i].artifact \in DOMAIN new
  BY <1>2, <1>3 DEF TrailOK
<1>5. ASSUME NEW x \in DOMAIN new, x # a
      PROVE  /\ EntriesOf(more, x) # {}
             /\ \A i \in EntriesOf(more, x) :
                  /\ (more[i].action = "artifact_created") <=> (\A j \in EntriesOf(more, x) : i <= j)
                  /\ (\A j \in EntriesOf(more, x) : j <= i) => StatusTold(more[i]) = new[x].privacy_status
  <2>1. \A i : i \in EntriesOf(more, x) <=> i \in EntriesOf(log, x)
    BY <1>2, <1>3, <1>5 DEF EntriesOf
  <2>2. EntriesOf(more, x) = EntriesOf(log, x)
    BY <2>1
  <2>3. x \in DOMAIN db /\ new[x].privacy_status = db[x].privacy_status
    BY <1>5
  <2>4. \A i \in EntriesOf(log, x) : more[i] = log[i]
    BY <1>2 DEF EntriesOf
  <2> QED
    BY <2>2, <2>3, <2>4 DEF TrailOK
<1>6. /\ EntriesOf(more, a) # {}
      /\ \A i \in EntriesOf(more, a) :
           /\ (more[i].action = "artifact_created") <=> (\A j \in EntriesOf(more, a) : i <= j)
           /\ (\A j \in EntriesOf(more, a) : j <= i) => StatusTold(more[i]) = new[a].privacy_status
  <2>1. /\ m \in EntriesOf(more, a)
        /\ \A i : i \in EntriesOf(more, a) <=> (i \in EntriesOf(log, a) \/ i = m)
    BY <1>2, <1>3 DEF EntriesOf
  <2>2. \A i \in EntriesOf(log, a) : i \in 1 .. k /\ more[i] = log[i] /\ i < m /\ i \in Int
    BY <1>2, <1>3 DEF EntriesOf
  <2>3. ASSUME NEW i \in EntriesOf(more, a), \A j \in EntriesOf(more, a) : j <= i
        PROVE  StatusTold(more[i]) = new[a].privacy_status
    <3>1. m <= i /\ (i \in EntriesOf(log, a) \/ i = m)
      BY <2>1, <2>3
    <3>2. i \in EntriesOf(log, a) => i < m /\ i \in Int /\ m \in Int
      BY <1>3, <2>2
    <3>3. i = m
      BY <3>1, <3>2
    <3> QED
      BY <1>2, <3>3
  <2>4. CASE a \in DOMAIN db
    <3>1. EntriesOf(log, a) # {}
      BY <2>4 DEF TrailOK
    <3>2. PICK l \in EntriesOf(log, a) : TRUE
      BY <3>1
    <3>3. ASSUME NEW i \in EntriesOf(more, a)
          PROVE  (more[i].action = "artifact_created") <=> (\A j \in EntriesOf(more, a) : i <= j)
      <4>1. CASE i = m
        <5>1. e.action # "artifact_created"
          BY <2>4
        <5>2. l < m /\ l \in Int /\ m \in Int /\ l \in EntriesOf(more, a)
          BY <1>3, <2>1, <2>2
        <5>3. ~ (m <= l)
          BY <5>2
        <5> QED
          BY <1>2, <4>1, <5>1, <5>2, <5>3
      <4>2. CASE i \in EntriesOf(log, a)
        <5>1. (log[i].action = "artifact_created") <=> (\A j \in EntriesOf(log, a) : i <= j)
          BY <2>4, <4>2 DEF TrailOK
        <5>2. more[i] = log[i] /\ i <= m
          BY <1>3, <2>2, <4>2
        <5> QED
          BY <2>1, <5>1, <5>2
      <4> QED
        BY <2>1, <3>3, <4>1, <4>2
    <3> QED
      BY <2>1, <2>3, <3>3
  <2>5. CASE a \notin DOMAIN db
    <3>1. EntriesOf(log, a) = {}
      BY <2>5 DEF TrailOK, EntriesOf
    <3>2. \A i \in EntriesOf(more, a) : i = m
      BY <2>1, <3>1
    <3>3. more[m].action = "artifact_created" /\ m <= m
      BY <1>2, <1>3, <2>5
    <3> QED
      BY <2>1, <2>3, <3>2, <3>3
  <2> QED
    BY <2>4, <2>5
<1>7. \A x \in DOMAIN new :
        /\ EntriesOf(more, x) # {}
        /\ \A i \in EntriesOf(more, x) :
             /\ (more[i].action = "artifact_created") <=> (\A j \in EntriesOf(more, x) : i <= j)
             /\ (\A j \in EntriesOf(more, x) : j <= i) => StatusTold(more[i]) = new[x].privacy_status
  BY <1>5, <1>6
<1>8. TrailOK(more, new)
  BY <1>2, <1>4, <1>7 DEF TrailOK
<1> QED
  BY <1>8 DEF more

\* What the log says depends on the privacy statuses only.
LEMMA TrailOfStatuses ==
  ASSUME NEW log, NEW db, TrailOK(log, db), NEW new, DOMAIN new = DOMAIN db,
         \A x \in DOMAIN db : new[x].privacy_status = db[x].privacy_status
  PROVE  TrailOK(log, new)
BY DEF TrailOK

LEMMA StoreKeepsApi ==
  ASSUME ApiInv, NEW type \in ArtifactType, NEW redacted \in ContentHash, StoreArtifact(type, redacted)
  PROVE  ApiInv'
<1>1. PICK a \in ArtifactIds \ used :
        /\ database' = [x \in DOMAIN database \cup {a} |->
                          IF x = a THEN NewArtifact(type, redacted) ELSE database[x]]
        /\ used' = used \cup {a}
        /\ LogEntry(Entry("artifact_created", a, NoStatus))
        /\ UNCHANGED <<sessions, issued, payments, apiRestarts>>
  BY DEF StoreArtifact
<1> DEFINE e == Entry("artifact_created", a, NoStatus)
           n == NewArtifact(type, redacted)
<1>2. e \in Entries /\ e.artifact = a /\ e.action = "artifact_created" /\ StatusTold(e) = "private"
  BY <1>1 DEF Entry, Entries, StatusTold, PrivacyStatus
<1>3. n \in Artifacts /\ n.privacy_status = "private"
  BY DEF NewArtifact, Artifacts, PrivacyStatus, ProofList
<1>4. auditLog' = Append(auditLog, e) /\ Len(auditLog) < MaxEntries /\ auditLog \in EntryList
  BY <1>1 DEF LogEntry, ApiInv, TrailOK
<1>5. /\ DatabaseOK(database, used) /\ a \notin DOMAIN database /\ DOMAIN database' = DOMAIN database \cup {a}
      /\ database'[a] = n /\ \A x \in DOMAIN database : x # a /\ database'[x] = database[x]
  BY <1>1 DEF ApiInv, DatabaseOK
<1> HIDE DEF e, n
<1>6. DatabaseOK(database', used')
  BY <1>1, <1>3, <1>5 DEF DatabaseOK
<1>7. TrailOK(auditLog, database)
  BY DEF ApiInv
<1>8. TrailOK(auditLog', database')
  <2> DEFINE new == database'
  <2>1. /\ DOMAIN new = DOMAIN database \cup {e.artifact}
        /\ e.action = "artifact_created" <=> e.artifact \notin DOMAIN database
        /\ new[e.artifact].privacy_status = StatusTold(e)
        /\ \A x \in DOMAIN database : x # e.artifact => new[x].privacy_status = database[x].privacy_status
    BY <1>2, <1>3, <1>5
  <2> HIDE DEF new
  <2>2. TrailOK(Append(auditLog, e), new)
    BY <1>2, <1>7, <2>1, TrailAfterEntry
  <2> QED
    BY <1>4, <2>2 DEF new
<1>9. Len(auditLog') <= MaxEntries
  BY <1>2, <1>4, OneMoreEntry, ApiAssumption
<1>10. PayloadsOK(issued', database', used')
  BY <1>1, <1>5 DEF ApiInv, PayloadsOK
<1> QED
  BY <1>1, <1>5, <1>6, <1>8, <1>9, <1>10 DEF ApiInv

LEMMA ApproveKeepsApi ==
  ASSUME ApiInv, ApproveArtifact
  PROVE  ApiInv'
<1>1. PICK a \in DOMAIN database, s \in ApprovalStatus :
        /\ database' = [database EXCEPT ![a].privacy_status = s]
        /\ LogEntry(Entry("artifact_approved", a, s))
        /\ UNCHANGED <<used, sessions, issued, payments, apiRestarts>>
  BY DEF ApproveArtifact
<1> DEFINE e == Entry("artifact_approved", a, s)
           n == [database[a] EXCEPT !.privacy_status = s]
<1>2. DatabaseOK(database, used) /\ database[a] \in Artifacts /\ s \in PrivacyStatus /\ a \in ArtifactIds
  BY DEF ApiInv, DatabaseOK, PrivacyStatus
<1>3. e \in Entries /\ e.artifact = a /\ e.action = "artifact_approved" /\ StatusTold(e) = s
  BY <1>2 DEF Entry, Entries, StatusTold
<1>4. n \in Artifacts /\ n.privacy_status = s /\ n.proof = database[a].proof
  BY <1>2 DEF Artifacts
<1>5. auditLog' = Append(auditLog, e) /\ Len(auditLog) < MaxEntries /\ auditLog \in EntryList
  BY <1>1 DEF LogEntry, ApiInv, TrailOK
<1>6. /\ database' = [database EXCEPT ![a] = n]
      /\ DOMAIN database' = DOMAIN database
      /\ database'[a] = n /\ \A x \in DOMAIN database : x # a => database'[x] = database[x]
  BY <1>1
<1> HIDE DEF e, n
<1>7. DatabaseOK(database', used')
  BY <1>1, <1>2, <1>4, <1>6 DEF DatabaseOK
<1>8. TrailOK(auditLog, database)
  BY DEF ApiInv
<1>10. TrailOK(auditLog', database')
  <2> DEFINE new == database'
  <2>1. /\ DOMAIN new = DOMAIN database \cup {e.artifact}
        /\ e.action = "artifact_created" <=> e.artifact \notin DOMAIN database
        /\ new[e.artifact].privacy_status = StatusTold(e)
        /\ \A x \in DOMAIN database : x # e.artifact => new[x].privacy_status = database[x].privacy_status
    BY <1>3, <1>4, <1>6
  <2> HIDE DEF new
  <2>2. TrailOK(Append(auditLog, e), new)
    BY <1>3, <1>8, <2>1, TrailAfterEntry
  <2> QED
    BY <1>5, <2>2 DEF new
<1>11. Len(auditLog') <= MaxEntries
  BY <1>3, <1>5, OneMoreEntry, ApiAssumption
<1>12. \A x \in DOMAIN database : database'[x].proof = database[x].proof
  BY <1>4, <1>6
<1>13. PayloadsOK(issued', database', used')
  BY <1>1, <1>6, <1>12 DEF ApiInv, PayloadsOK
<1> QED
  BY <1>1, <1>6, <1>7, <1>10, <1>11, <1>13 DEF ApiInv

\* A new proof is chained from the old one, and so from all before it.
LEMMA HashKeepsApi ==
  ASSUME ApiInv, HashArtifact
  PROVE  ApiInv'
<1>1. PICK a \in DOMAIN database :
        /\ database' = [database EXCEPT ![a].proof = ProofOf(database[a])]
        /\ UNCHANGED <<used, sessions, auditLog, issued, payments, apiRestarts>>
  BY DEF HashArtifact
<1> DEFINE old == database[a].proof
           new == ProofOf(database[a])
           n == [database[a] EXCEPT !.proof = new]
<1>2. DatabaseOK(database, used) /\ database[a] \in Artifacts
  BY DEF ApiInv, DatabaseOK
<1>3. old \in ProofList /\ database[a].privacy_status \in PrivacyStatus
  BY <1>2 DEF Artifacts
<1>4. /\ new \in ProofList /\ Len(new) = Len(old) + 1 /\ Len(old) \in Nat
      /\ \A i \in 1 .. Len(old) : new[i] = old[i]
  BY <1>3 DEF ProofOf, ProofList
<1> HIDE DEF new, old
<1>5. n \in Artifacts /\ n.privacy_status = database[a].privacy_status /\ n.proof = new
  BY <1>2, <1>4 DEF Artifacts
<1>6. /\ database' = [database EXCEPT ![a] = n]
      /\ DOMAIN database' = DOMAIN database
      /\ database'[a] = n /\ \A x \in DOMAIN database : x # a => database'[x] = database[x]
  BY <1>1 DEF new
<1> HIDE DEF n
<1>7. DatabaseOK(database', used')
  BY <1>1, <1>2, <1>5, <1>6 DEF DatabaseOK
<1>8. TrailOK(auditLog, database)
  BY DEF ApiInv
<1>9. \A x \in DOMAIN database : database'[x].privacy_status = database[x].privacy_status
  BY <1>5, <1>6
<1>10. TrailOK(auditLog', database')
  BY <1>1, <1>6, <1>8, <1>9, TrailOfStatuses
<1>11. ASSUME NEW p, Chained(p, old) PROVE Chained(p, new)
  <2>1. p \in ProofList /\ Len(p) <= Len(old) /\ \A i \in 1 .. Len(p) : p[i] = old[i]
    BY <1>11 DEF Chained
  <2>2. Len(p) \in Nat
    BY <2>1 DEF ProofList
  <2>3. Len(p) <= Len(new) /\ \A i \in 1 .. Len(p) : i \in 1 .. Len(old)
    BY <1>4, <2>1, <2>2
  <2> QED
    BY <1>4, <2>1, <2>3 DEF Chained
<1>12. PayloadsOK(issued, database, used)
  BY DEF ApiInv
<1>13. PayloadsOK(issued', database', used')
  BY <1>1, <1>5, <1>6, <1>11, <1>12 DEF PayloadsOK, old
<1> QED
  BY <1>1, <1>6, <1>7, <1>10, <1>13 DEF ApiInv

\* What the API holds stays accounted for (ApiInv is the inductive invariant).
THEOREM ApiInvariant == ApiSpec => []ApiInv
<1>1. ApiInit => ApiInv
  <2> SUFFICES ASSUME ApiInit PROVE ApiInv
    OBVIOUS
  <2>1. DOMAIN database = {} /\ database = [x \in {} |-> 0]
    BY DEF ApiInit
  <2>2. auditLog \in EntryList /\ Len(auditLog) = 0 /\ DOMAIN auditLog = {}
    BY DEF ApiInit, EntryList
  <2>3. DatabaseOK(database, used) /\ PayloadsOK(issued, database, used)
    BY <2>1 DEF ApiInit, DatabaseOK, PayloadsOK
  <2>4. TrailOK(auditLog, database)
    BY <2>1, <2>2 DEF TrailOK
  <2> QED
    BY <2>2, <2>3, <2>4, ApiAssumption DEF ApiInit, ApiInv
<1>2. ApiInv /\ [ApiNext]_apiVars => ApiInv'
  <2> SUFFICES ASSUME ApiInv, [ApiNext]_apiVars PROVE ApiInv'
    OBVIOUS
  <2>1. CASE UNCHANGED apiVars
    BY <2>1 DEF apiVars, ApiInv
  <2>2. CASE StartSession
    BY <2>2, ApiAssumption DEF StartSession, ApiInv
  <2>3. CASE CreateChatArtifact \/ CreateBuildArtifact \/ CreateImageArtifact
    <3>1. "raw" \in ContentHash /\ "redacted" \in ContentHash
      BY DEF ContentHash
    <3>2. {"prompt_response_pair", "build_epoch", "ui_asset"} = ArtifactType
      BY DEF ArtifactType
    <3>3. \E type \in ArtifactType, redacted \in ContentHash : StoreArtifact(type, redacted)
      BY <2>3, <3>1, <3>2 DEF CreateChatArtifact, CreateBuildArtifact, CreateImageArtifact
    <3> QED
      BY <3>3, StoreKeepsApi
  <2>4. CASE ApproveArtifact
    BY <2>4, ApproveKeepsApi
  <2>5. CASE HashArtifact
    BY <2>5, HashKeepsApi
  <2>6. CASE IssuePayload
    <3>1. PICK a \in DOMAIN database :
            /\ issued' = issued \cup {Payload(a)}
            /\ UNCHANGED <<database, used, sessions, auditLog, payments, apiRestarts>>
      BY <2>6 DEF IssuePayload
    <3>2. a \in used /\ database[a].proof \in ProofList
      BY DEF ApiInv, DatabaseOK, Artifacts
    <3>3. Chained(database[a].proof, database[a].proof)
      BY <3>2 DEF Chained, ProofList
    <3>4. Payload(a).artifact = a /\ Payload(a).proof = database[a].proof
      BY DEF Payload
    <3>5. PayloadsOK(issued', database', used')
      BY <3>1, <3>2, <3>3, <3>4 DEF PayloadsOK, ApiInv
    <3> QED
      BY <3>1, <3>5 DEF ApiInv
  <2>7. CASE PreparePayment
    BY <2>7 DEF PreparePayment, ApiInv
  <2>8. CASE ApiRestart
    <3>1. /\ DOMAIN database' = {} /\ database' = [x \in {} |-> 0]
          /\ UNCHANGED <<used, issued>> /\ payments' = {} /\ sessions' = 0
      BY <2>8 DEF ApiRestart
    <3>2. auditLog' \in EntryList /\ Len(auditLog') = 0 /\ DOMAIN auditLog' = {}
      BY <2>8 DEF ApiRestart, EntryList
    <3>3. DatabaseOK(database', used') /\ PayloadsOK(issued', database', used')
      BY <3>1 DEF DatabaseOK, PayloadsOK, ApiInv
    <3>4. TrailOK(auditLog', database')
      BY <3>1, <3>2 DEF TrailOK
    <3>5. apiRestarts' \in 0 .. MaxApiRestarts /\ sessions' \in 0 .. MaxSessions
      BY <2>8, <3>1, ApiAssumption DEF ApiRestart, ApiInv
    <3> QED
      BY <3>1, <3>2, <3>3, <3>4, <3>5, ApiAssumption DEF ApiInv
  <2> QED
    BY <2>1, <2>2, <2>3, <2>4, <2>5, <2>6, <2>7, <2>8 DEF ApiNext
<1> QED
  BY <1>1, <1>2, PTL DEF ApiSpec

\* RecordsTraceable: the audit log tells the state of every artifact across
\* creations, approvals and restarts, and the hash of every payload that left
\* the server is in the chain of hashes of its artifact.
THEOREM ApiRecordsTraceable == ApiSpec => []RecordsTraceable
<1>1. ApiInv => RecordsTraceable
  <2> SUFFICES ASSUME ApiInv PROVE RecordsTraceable
    OBVIOUS
  <2>1. AuditTrail
    BY DEF ApiInv, TrailOK, AuditTrail
  <2>2. ASSUME NEW p, NEW q, Chained(p, q) PROVE IsPrefix(p, q)
    <3>1. p \in ProofList /\ q \in ProofList /\ Len(p) <= Len(q) /\ \A i \in 1 .. Len(p) : p[i] = q[i]
      BY <2>2 DEF Chained
    <3>2. Len(p) \in Nat /\ Len(q) \in Nat
      BY <3>1 DEF ProofList
    <3>3. SubSeq(p, 1, Len(p)) = SubSeq(q, 1, Len(p))
      BY <3>1, <3>2, SubSeqProperties DEF ProofList
    <3> QED
      BY <3>1, <3>3 DEF IsPrefix
  <2>3. PayloadsTraceable
    BY <2>2 DEF ApiInv, PayloadsOK, PayloadsTraceable
  <2> QED
    BY <2>1, <2>3 DEF RecordsTraceable
<1> QED
  BY <1>1, ApiInvariant, PTL

-----------------------------------------------------------------------------
(* The personal chain *)

EventList == Seq(Event)
Places == 0 .. MaxEvents - 1

\* The files f after n events were made.  The files that were ever written are
\* the first ones; an event names the event that its predecessor's file held
\* when it was logged, and every event before that one is older.
FilesInOrder(f, n) ==
  /\ f \in [Places -> {NoFile, TornFile} \cup Event]
  /\ \A k \in Places : Holds(f[k]) => /\ f[k] \in Event /\ f[k].seq = k
                                      /\ f[k].prev < f[k].id /\ f[k].id <= n
                                      /\ k = 0 => f[k].prev = 0
                                      /\ k > 0 => f[k].prev > 0
  /\ \A j, k \in Places : j = k - 1 /\ f[k] # NoFile => f[j] # NoFile
  /\ \A j, k \in Places : j = k - 1 /\ Holds(f[j]) /\ Holds(f[k]) => f[k].prev = f[j].id
  /\ \A j, k \in Places : j < k - 1 /\ Holds(f[j]) /\ Holds(f[k]) => f[j].id < f[k].prev

\* The events es of an open chain are those of the files f, in order.
MirrorOK(es, f) ==
  /\ es \in EventList
  /\ \A k \in 1 .. Len(es) : /\ es[k].seq \in Places /\ Holds(f[es[k].seq])
                             /\ f[es[k].seq].id = es[k].id /\ f[es[k].seq].prev = es[k].prev
  /\ \A j, k \in 1 .. Len(es) : j < k => es[j].seq < es[k].seq
  /\ \A i \in Places : Holds(f[i]) => \E k \in 1 .. Len(es) : es[k].seq = i

Policies == [DOMAIN DefaultPolicy -> BOOLEAN]

ChainInv ==
  /\ logged \in 0 .. MaxLogged
  /\ FilesInOrder(eventFiles, logged)
  /\ chainUp \in BOOLEAN
  /\ ~chainUp => events = <<>> /\ sequence = 0 /\ chainHash = GenesisHash
  /\ chainUp => /\ MirrorOK(events, eventFiles)
                /\ sequence = SequenceAfter(events) /\ chainHash = HashAfter(events)
  /\ policy \in Policies
  /\ policyFile.kind = "policy" => policyFile.policy \in Policies

LEMMA PlacesAreNumbers ==
  /\ \A k \in Places : k \in Nat /\ k < MaxEvents
  /\ \A k \in Nat : k < MaxEvents => k \in Places
  /\ \A k \in Places : k # 0 => k - 1 \in Places
BY ChainAssumption DEF Places

\* A file that holds an event is no other kind of file.
LEMMA KindsOfFiles ==
  /\ ~Holds(NoFile) /\ ~Holds(TornFile) /\ NoFile # TornFile
  /\ \A e \in Event : Holds(e) /\ e # NoFile /\ e # TornFile
BY DEF Holds, NoFile, TornFile, Event

\* Where the next event goes and what it names.
LEMMA EndOfChain ==
  ASSUME NEW es, NEW f, NEW n, MirrorOK(es, f), FilesInOrder(f, n)
  PROVE  /\ SequenceAfter(es) \in 0 .. MaxEvents /\ HashAfter(es) \in 0 .. MaxLogged
         /\ \A i \in Places : i >= SequenceAfter(es) => ~Holds(f[i])
         /\ SequenceAfter(es) = 0 => HashAfter(es) = 0
         /\ SequenceAfter(es) > 0 =>
              /\ SequenceAfter(es) - 1 \in Places /\ Holds(f[SequenceAfter(es) - 1])
              /\ HashAfter(es) = f[SequenceAfter(es) - 1].id /\ HashAfter(es) > 0
<1> DEFINE m == Len(es)
<1>1. es \in EventList /\ m \in Nat /\ (es = <<>> <=> m = 0)
  BY DEF MirrorOK, EventList
<1>2. CASE m = 0
  <2>1. SequenceAfter(es) = 0 /\ HashAfter(es) = 0
    BY <1>1, <1>2 DEF SequenceAfter, HashAfter, GenesisHash
  <2>2. \A i \in Places : ~Holds(f[i])
    BY <1>2 DEF MirrorOK
  <2> QED
    BY <2>1, <2>2, ChainAssumption
<1>3. CASE m > 0
  <2> DEFINE q == es[m].seq
  <2>1. m \in 1 .. m /\ \A k \in 1 .. m : k \in Int /\ (k = m \/ k < m)
    BY <1>1, <1>3
  <2>2. SequenceAfter(es) = q + 1 /\ HashAfter(es) = es[m].id
    BY <1>1, <1>3 DEF SequenceAfter, HashAfter
  <2>3. q \in Places /\ Holds(f[q]) /\ f[q].id = es[m].id
    BY <2>1 DEF MirrorOK
  <2>4. es[m].id \in 1 .. MaxLogged
    <3>1. f[q] \in Event
      BY <2>3 DEF FilesInOrder
    <3> QED
      BY <2>3, <3>1 DEF Event
  <2>5. \A i \in Places : Holds(f[i]) => i <= q
    <3> SUFFICES ASSUME NEW i \in Places, Holds(f[i]) PROVE i <= q
      OBVIOUS
    <3>1. PICK k \in 1 .. m : es[k].seq = i
      BY DEF MirrorOK
    <3>2. k < m => es[k].seq < es[m].seq
      BY <2>1, <3>1 DEF MirrorOK
    <3> QED
      BY <2>1, <2>3, <3>1, <3>2, PlacesAreNumbers
  <2> HIDE DEF q
  <2>6. q \in Nat /\ q < MaxEvents /\ q + 1 - 1 = q /\ q + 1 > 0
    BY <2>3, PlacesAreNumbers
  <2>7. \A i \in Places : i >= q + 1 => ~Holds(f[i])
    BY <2>5, <2>6, PlacesAreNumbers
  <2> QED
    BY <2>2, <2>3, <2>4, <2>6, <2>7, ChainAssumption
<1> QED
  BY <1>1, <1>2, <1>3

\* Opening the chain.
LEMMA LoadMirrors ==
  ASSUME NEW n, FilesInOrder(eventFiles, n)
  PROVE  MirrorOK(LoadedEvents, eventFiles)
<1> DEFINE f == eventFiles
           keep == [k \in 1 .. MaxEvents |-> Holds(f[k - 1])]
           order == Selected(keep)
           es == [i \in 1 .. Len(order) |-> f[order[i] - 1]]
<1>1. \A k \in 1 .. MaxEvents : k - 1 \in Places /\ (Holds(f[k - 1]) \in BOOLEAN) /\ k \in Int
  BY ChainAssumption DEF Places, Holds
<1>2. keep \in Seq(BOOLEAN) /\ Len(keep) = MaxEvents
  <2>1. keep \in [1 .. MaxEvents -> BOOLEAN]
    BY <1>1
  <2> HIDE DEF keep
  <2> QED
    BY <2>1, ChainAssumption
<1>3. \A k : k \in Kept(keep) <=> k \in 1 .. MaxEvents /\ Holds(f[k - 1])
  BY <1>2 DEF Kept
<1>4. LoadedEvents = es
  BY DEF LoadedEvents
<1> HIDE DEF keep, f
<1>5. /\ order \in Seq(Kept(keep))
      /\ \A k \in Kept(keep) : \E i \in 1 .. Len(order) : order[i] = k
      /\ \A i, j \in 1 .. Len(order) : i < j => order[i] < order[j]
  BY <1>2, SelectedIsKept
<1> HIDE DEF order
<1>6. /\ Len(order) \in Nat
      /\ \A i \in 1 .. Len(order) : order[i] \in Kept(keep)
  BY <1>5
<1>7. \A i \in 1 .. Len(order) : /\ order[i] - 1 \in Places /\ order[i] \in Int /\ Holds(f[order[i] - 1])
                                 /\ f[order[i] - 1] \in Event /\ f[order[i] - 1].seq = order[i] - 1
                                 /\ es[i] = f[order[i] - 1]
  BY <1>1, <1>3, <1>6 DEF FilesInOrder, f
<1>8. es \in EventList /\ Len(es) = Len(order)
  <2>1. es \in [1 .. Len(order) -> Event]
    BY <1>7
  <2> HIDE DEF es
  <2> QED
    BY <1>6, <2>1 DEF EventList
<1> HIDE DEF es
<1>9. \A j, k \in 1 .. Len(es) : j < k => es[j].seq < es[k].seq
  <2> SUFFICES ASSUME NEW j \in 1 .. Len(order), NEW k \in 1 .. Len(order), j < k
               PROVE  es[j].seq < es[k].seq
    BY <1>8
  <2>1. order[j] < order[k] /\ order[j] \in Int /\ order[k] \in Int
    BY <1>5, <1>7
  <2>2. es[j].seq = order[j] - 1 /\ es[k].seq = order[k] - 1
    BY <1>7
  <2> QED
    BY <2>1, <2>2
<1>10. \A i \in Places : Holds(f[i]) => \E k \in 1 .. Len(es) : es[k].seq = i
  <2> SUFFICES ASSUME NEW i \in Places, Holds(f[i]) PROVE \E k \in 1 .. Len(es) : es[k].seq = i
    OBVIOUS
  <2>1. i + 1 \in 1 .. MaxEvents /\ (i + 1) - 1 = i
    BY ChainAssumption DEF Places
  <2>2. i + 1 \in Kept(keep)
    BY <1>3, <2>1
  <2>3. PICK k \in 1 .. Len(order) : order[k] = i + 1
    BY <1>5, <2>2
  <2> QED
    BY <1>7, <1>8, <2>1, <2>3
<1> QED
  BY <1>4, <1>7, <1>8, <1>9, <1>10 DEF MirrorOK, f

\* Older events have smaller numbers.
LEMMA IdsGrow ==
  ASSUME NEW f, NEW n, FilesInOrder(f, n)
  PROVE  \A j, k \in Places : j < k /\ Holds(f[j]) /\ Holds(f[k]) => f[j].id < f[k].id
<1> SUFFICES ASSUME NEW j \in Places, NEW k \in Places, j < k, Holds(f[j]), Holds(f[k])
             PROVE  f[j].id < f[k].id
  OBVIOUS
<1>1. f[j].id \in Int /\ f[k].id \in Int /\ f[k].prev \in Int /\ f[k].prev < f[k].id
  BY DEF FilesInOrder, Event
<1>2. j = k - 1 \/ j < k - 1
  BY PlacesAreNumbers
<1>3. f[j].id <= f[k].prev
  BY <1>1, <1>2 DEF FilesInOrder
<1> QED
  BY <1>1, <1>3

\* A new event e at the end of the chain; its file is written, or torn.
LEMMA WriteAtEnd ==
  ASSUME NEW es, NEW f, NEW n, n \in 0 .. MaxLogged - 1, MirrorOK(es, f), FilesInOrder(f, n),
         NEW s, s = SequenceAfter(es), s < MaxEvents, NEW e \in Event \cup {TornFile},
         Holds(e) => e \in Event /\ e.seq = s /\ e.id = n + 1 /\ e.prev = HashAfter(es)
  PROVE  /\ s \in Places /\ ~Holds(f[s])
         /\ FilesInOrder([f EXCEPT ![s] = e], n + 1)
<1> DEFINE g == [f EXCEPT ![s] = e]
           h == HashAfter(es)
<1>1. /\ s \in 0 .. MaxEvents /\ h \in 0 .. MaxLogged
      /\ \A i \in Places : i >= s => ~Holds(f[i])
      /\ s = 0 => h = 0
      /\ s > 0 => s - 1 \in Places /\ Holds(f[s - 1]) /\ h = f[s - 1].id /\ h > 0
  BY EndOfChain
<1>2. s \in Places /\ s \in Nat /\ n \in Nat /\ h \in Nat
  BY <1>1, PlacesAreNumbers, ChainAssumption
<1>3. \A k \in Places : k \in Nat /\ k <= k
  BY PlacesAreNumbers
<1>4. f \in [Places -> {NoFile, TornFile} \cup Event]
  BY DEF FilesInOrder
<1>5. /\ g \in [Places -> {NoFile, TornFile} \cup Event] /\ g[s] = e
      /\ \A k \in Places : k # s => g[k] = f[k]
  BY <1>2, <1>4
<1>6. e # NoFile
  BY KindsOfFiles
<1> HIDE DEF g, h
<1>7. \A k \in Places : /\ Holds(g[k]) => k <= s
                        /\ Holds(g[k]) /\ k # s => k < s /\ Holds(f[k])
  BY <1>1, <1>2, <1>3, <1>5
<1>8. h <= n
  <2>1. CASE s = 0
    BY <1>1, <1>2, <2>1
  <2>2. CASE s > 0
    BY <1>1, <2>2 DEF FilesInOrder
  <2> QED
    BY <1>2, <2>1, <2>2
<1>9. ASSUME NEW k \in Places, Holds(g[k])
      PROVE  /\ g[k] \in Event /\ g[k].seq = k /\ g[k].prev < g[k].id /\ g[k].id <= n + 1
             /\ k = 0 => g[k].prev = 0
             /\ k > 0 => g[k].prev > 0
  <2>1. CASE k = s
    <3>1. e \in Event /\ e.seq = s /\ e.id = n + 1 /\ e.prev = h
      BY <1>5, <1>9, <2>1 DEF h
    <3> QED
      BY <1>1, <1>2, <1>5, <1>8, <2>1, <3>1
  <2>2. CASE k # s
    <3>1. /\ f[k] \in Event /\ f[k].seq = k /\ f[k].prev < f[k].id /\ f[k].id <= n
          /\ k = 0 => f[k].prev = 0
          /\ k > 0 => f[k].prev > 0
      BY <1>5, <1>9, <2>2 DEF FilesInOrder
    <3>2. f[k].id \in Int
      BY <3>1 DEF Event
    <3> QED
      BY <1>2, <1>5, <2>2, <3>1, <3>2
  <2> QED
    BY <2>1, <2>2
<1>10. ASSUME NEW j \in Places, NEW k \in Places, j = k - 1, g[k] # NoFile PROVE g[j] # NoFile
  <2>1. CASE j = s
    BY <1>5, <1>6, <2>1
  <2>2. CASE j # s /\ k = s
    <3>1. j = s - 1 /\ s > 0
      BY <1>3, <1>10, <2>2
    <3> QED
      BY <1>1, <1>5, <2>2, <3>1, KindsOfFiles
  <2>3. CASE j # s /\ k # s
    BY <1>5, <1>10, <2>3 DEF FilesInOrder
  <2> QED
    BY <2>1, <2>2, <2>3
<1>11. ASSUME NEW j \in Places, NEW k \in Places, j = k - 1, Holds(g[j]), Holds(g[k])
       PROVE  g[k].prev = g[j].id
  <2>1. j < s /\ j # s /\ Holds(f[j]) /\ g[j] = f[j]
    BY <1>2, <1>3, <1>5, <1>7, <1>11
  <2>2. CASE k = s
    <3>1. e.prev = h
      BY <1>5, <1>11, <2>2 DEF h
    <3>2. h = f[j].id
      BY <1>1, <1>3, <1>11, <2>1, <2>2
    <3> QED
      BY <1>5, <2>1, <2>2, <3>1, <3>2
  <2>3. CASE k # s
    BY <1>5, <1>7, <1>11, <2>1, <2>3 DEF FilesInOrder
  <2> QED
    BY <2>2, <2>3
<1>12. ASSUME NEW j \in Places, NEW k \in Places, j < k - 1, Holds(g[j]), Holds(g[k])
       PROVE  g[j].id < g[k].prev
  <2>1. j < s /\ j # s /\ Holds(f[j]) /\ g[j] = f[j]
    BY <1>2, <1>3, <1>5, <1>7, <1>12
  <2>2. CASE k = s
    <3>1. e.prev = h
      BY <1>5, <1>12, <2>2 DEF h
    <3>2. j < s - 1 /\ s > 0
      BY <1>2, <1>3, <1>12, <2>1, <2>2
    <3>3. f[j].id < f[s - 1].id
      BY <1>1, <2>1, <3>2, IdsGrow
    <3> QED
      BY <1>1, <1>5, <2>1, <2>2, <3>1, <3>2, <3>3
  <2>3. CASE k # s
    BY <1>5, <1>7, <1>12, <2>1, <2>3 DEF FilesInOrder
  <2> QED
    BY <2>2, <2>3
<1>13. FilesInOrder(g, n + 1)
  BY <1>5, <1>9, <1>10, <1>11, <1>12 DEF FilesInOrder
<1> QED
  BY <1>1, <1>2, <1>3, <1>13 DEF g

\* The same events in memory after a new one, and in the files.
LEMMA MirrorAfterLog ==
  ASSUME NEW es, NEW f, NEW n, MirrorOK(es, f), FilesInOrder(f, n),
         NEW s \in Places, s = SequenceAfter(es),
         NEW e \in Event, NEW c \in Event, e.seq = s, c.seq = s, c.id = e.id, c.prev = e.prev
  PROVE  /\ MirrorOK(Append(es, c), [f EXCEPT ![s] = e])
         /\ SequenceAfter(Append(es, c)) = s + 1 /\ HashAfter(Append(es, c)) = e.id
<1> DEFINE g == [f EXCEPT ![s] = e]
           k == Len(es)
           m == k + 1
           vs == Append(es, c)
<1>1. es \in EventList /\ k \in Nat
  BY DEF MirrorOK, EventList
<1>2. /\ vs \in EventList /\ Len(vs) = m /\ vs[m] = c /\ vs # <<>>
      /\ \A i \in 1 .. k : vs[i] = es[i]
  BY <1>1 DEF EventList
<1>3. /\ g[s] = e /\ \A i \in Places : i # s => g[i] = f[i]
  BY DEF FilesInOrder
<1>4. \A i \in 1 .. k : es[i].seq \in Places /\ Holds(f[es[i].seq]) /\ es[i].seq < s
  <2>1. \A i \in Places : i >= s => ~Holds(f[i])
    BY EndOfChain
  <2>2. \A i \in 1 .. k : es[i].seq \in Places /\ Holds(f[es[i].seq])
    BY DEF MirrorOK
  <2> QED
    BY <2>1, <2>2, PlacesAreNumbers
<1>5. /\ \A i \in 1 .. m : i \in 1 .. k \/ i = m
      /\ \A i \in 1 .. k : i \in 1 .. m /\ i < m /\ ~(m < i)
      /\ m \in 1 .. m /\ ~(m < m)
  BY <1>1
<1>6. Holds(e) /\ s \in Int
  BY KindsOfFiles, PlacesAreNumbers
<1>7. SequenceAfter(vs) = s + 1 /\ HashAfter(vs) = e.id
  BY <1>2 DEF SequenceAfter, HashAfter
<1> HIDE DEF vs, g, m, k
<1>8. \A i \in 1 .. k : es[i].seq # s
  BY <1>4, <1>6, PlacesAreNumbers
<1>9. ASSUME NEW i \in 1 .. m
      PROVE  /\ vs[i].seq \in Places /\ Holds(g[vs[i].seq])
             /\ g[vs[i].seq].id = vs[i].id /\ g[vs[i].seq].prev = vs[i].prev
  <2>1. CASE i = m
    BY <1>2, <1>3, <1>6, <2>1
  <2>2. CASE i \in 1 .. k
    BY <1>2, <1>3, <1>4, <1>8, <2>2 DEF MirrorOK, k
  <2> QED
    BY <1>5, <2>1, <2>2
<1>10. ASSUME NEW i \in 1 .. m, NEW j \in 1 .. m, i < j PROVE vs[i].seq < vs[j].seq
  <2>1. i \in 1 .. k
    BY <1>5, <1>10
  <2>2. CASE j = m
    BY <1>2, <1>4, <2>1, <2>2
  <2>3. CASE j \in 1 .. k
    BY <1>2, <1>10, <2>1, <2>3 DEF MirrorOK, k
  <2> QED
    BY <1>5, <2>2, <2>3
<1>11. ASSUME NEW i \in Places, Holds(g[i]) PROVE \E l \in 1 .. m : vs[l].seq = i
  <2>1. CASE i = s
    BY <1>2, <1>5, <2>1
  <2>2. CASE i # s
    <3>1. PICK l \in 1 .. k : es[l].seq = i
      BY <1>3, <1>11, <2>2 DEF MirrorOK, k
    <3> QED
      BY <1>2, <1>5, <3>1
  <2> QED
    BY <2>1, <2>2
<1>12. MirrorOK(vs, g)
  BY <1>2, <1>9, <1>10, <1>11 DEF MirrorOK
<1> QED
  BY <1>7, <1>12 DEF vs, g

\* A file that holds an event is torn.
LEMMA TearOne ==
  ASSUME NEW f, NEW n, FilesInOrder(f, n), NEW q \in Places, Holds(f[q])
  PROVE  FilesInOrder([f EXCEPT ![q] = TornFile], n)
<1> DEFINE g == [f EXCEPT ![q] = TornFile]
<1>1. f \in [Places -> {NoFile, TornFile} \cup Event]
  BY DEF FilesInOrder
<1>2. /\ g \in [Places -> {NoFile, TornFile} \cup Event]
      /\ g[q] = TornFile /\ \A k \in Places : k # q => g[k] = f[k]
  BY <1>1
<1> HIDE DEF g
<1>3. \A k \in Places : Holds(g[k]) => g[k] = f[k]
  BY <1>2, KindsOfFiles
<1>4. \A k \in Places : g[k] = NoFile <=> f[k] = NoFile
  BY <1>2, KindsOfFiles
<1>5. \A j, k \in Places : j = k - 1 /\ g[k] # NoFile => g[j] # NoFile
  BY <1>4 DEF FilesInOrder
<1>6. FilesInOrder(g, n)
  BY <1>2, <1>3, <1>5 DEF FilesInOrder
<1> QED
  BY <1>6 DEF g

\* An event is written again with its attestation.
LEMMA AttestOne ==
  ASSUME NEW es, NEW f, NEW n, MirrorOK(es, f), FilesInOrder(f, n), NEW k \in 1 .. Len(es),
         NEW e \in Event, e.seq = es[k].seq, e.id = es[k].id, e.prev = es[k].prev
  PROVE  /\ es[k].seq \in Places /\ Holds(f[es[k].seq]) /\ f[es[k].seq].id = e.id
         /\ FilesInOrder([f EXCEPT ![e.seq] = e], n)
         /\ MirrorOK([es EXCEPT ![k] = e], [f EXCEPT ![e.seq] = e])
         /\ SequenceAfter([es EXCEPT ![k] = e]) = SequenceAfter(es)
         /\ HashAfter([es EXCEPT ![k] = e]) = HashAfter(es)
<1> DEFINE q == e.seq
           g == [f EXCEPT ![q] = e]
           vs == [es EXCEPT ![k] = e]
           m == Len(es)
<1>1. q \in Places /\ Holds(f[q]) /\ f[q].id = e.id /\ f[q].prev = e.prev
  BY DEF MirrorOK
<1>2. f \in [Places -> {NoFile, TornFile} \cup Event] /\ es \in EventList /\ m \in Nat
  BY DEF FilesInOrder, MirrorOK, EventList
<1>3. /\ g \in [Places -> {NoFile, TornFile} \cup Event]
      /\ g[q] = e /\ \A i \in Places : i # q => g[i] = f[i]
  BY <1>1, <1>2
<1>4. /\ vs \in EventList /\ Len(vs) = m /\ vs[k] = e
      /\ \A i \in 1 .. m : i # k => vs[i] = es[i]
      /\ (vs = <<>> <=> m = 0) /\ (es = <<>> <=> m = 0)
  BY <1>2 DEF EventList
<1>5. Holds(e) /\ e # NoFile /\ f[q] # NoFile
  BY <1>1, KindsOfFiles
<1>6. f[q] \in Event /\ f[q].seq = q
  BY <1>1 DEF FilesInOrder
<1> HIDE DEF g, vs, m, q
<1>7. \A i \in Places : /\ Holds(g[i]) <=> Holds(f[i])
                        /\ g[i] = NoFile <=> f[i] = NoFile
                        /\ Holds(f[i]) => g[i].id = f[i].id /\ g[i].prev = f[i].prev /\ g[i].seq = f[i].seq
                        /\ Holds(f[i]) /\ f[i] \in Event => g[i] \in Event
  BY <1>1, <1>3, <1>5, <1>6 DEF q
<1>8. FilesInOrder(g, n)
  <2>1. \A i \in Places : Holds(g[i]) => /\ g[i] \in Event /\ g[i].seq = i
                                         /\ g[i].prev < g[i].id /\ g[i].id <= n
                                         /\ i = 0 => g[i].prev = 0
                                         /\ i > 0 => g[i].prev > 0
    BY <1>7 DEF FilesInOrder
  <2>2. \A i, j \in Places : j = i - 1 /\ g[i] # NoFile => g[j] # NoFile
    BY <1>7 DEF FilesInOrder
  <2>3. \A j, i \in Places : j = i - 1 /\ Holds(g[j]) /\ Holds(g[i]) => g[i].prev = g[j].id
    BY <1>7 DEF FilesInOrder
  <2>4. \A j, i \in Places : j < i - 1 /\ Holds(g[j]) /\ Holds(g[i]) => g[j].id < g[i].prev
    BY <1>7 DEF FilesInOrder
  <2> QED
    BY <1>3, <2>1, <2>2, <2>3, <2>4 DEF FilesInOrder
<1>9. \A i \in 1 .. m : vs[i].seq = es[i].seq /\ vs[i].id = es[i].id /\ vs[i].prev = es[i].prev
  BY <1>4
<1>10. \A i \in 1 .. m : /\ vs[i].seq \in Places /\ Holds(g[vs[i].seq])
                         /\ g[vs[i].seq].id = vs[i].id /\ g[vs[i].seq].prev = vs[i].prev
  BY <1>7, <1>9 DEF MirrorOK, m
<1>11. \A i, j \in 1 .. m : i < j => vs[i].seq < vs[j].seq
  BY <1>9 DEF MirrorOK, m
<1>12. \A i \in Places : Holds(g[i]) => \E l \in 1 .. m : vs[l].seq = i
  BY <1>7, <1>9 DEF MirrorOK, m
<1>13. MirrorOK(vs, g)
  BY <1>4, <1>10, <1>11, <1>12 DEF MirrorOK
<1>14. m > 0 => m \in 1 .. m
  BY <1>2
<1>15. SequenceAfter(vs) = SequenceAfter(es) /\ HashAfter(vs) = HashAfter(es)
  <2>1. CASE m = 0
    BY <1>4, <2>1 DEF SequenceAfter, HashAfter
  <2>2. CASE m > 0
    <3>1. vs # <<>> /\ es # <<>> /\ vs[m].seq = es[m].seq /\ vs[m].id = es[m].id
      BY <1>4, <1>9, <1>14, <2>2
    <3> QED
      BY <1>4, <3>1 DEF SequenceAfter, HashAfter, m
  <2> QED
    BY <1>2, <2>1, <2>2
<1> QED
  BY <1>1, <1>8, <1>13, <1>15 DEF g, vs, q

\* The event a process logs.
LEMMA NewEventIsEvent ==
  ASSUME ChainInv, chainUp, sequence < MaxEvents, logged < MaxLogged, NEW type \in EventTypes
  PROVE  /\ NewEvent(type) \in Event /\ [NewEvent(type) EXCEPT !.anchored = (type \in {"anchor", "receipt"})] \in Event
         /\ NewEvent(type).seq = sequence /\ NewEvent(type).id = logged + 1 /\ NewEvent(type).prev = chainHash
         /\ [NewEvent(type) EXCEPT !.anchored = (type \in {"anchor", "receipt"})].seq = sequence
         /\ [NewEvent(type) EXCEPT !.anchored = (type \in {"anchor", "receipt"})].id = logged + 1
         /\ [NewEvent(type) EXCEPT !.anchored = (type \in {"anchor", "receipt"})].prev = chainHash
         /\ logged \in 0 .. MaxLogged - 1 /\ logged + 1 \in 0 .. MaxLogged
<1>1. MirrorOK(events, eventFiles) /\ FilesInOrder(eventFiles, logged)
      /\ sequence = SequenceAfter(events) /\ chainHash = HashAfter(events)
  BY DEF ChainInv
<1>2. sequence \in 0 .. MaxEvents /\ chainHash \in 0 .. MaxLogged
  BY <1>1, EndOfChain
<1>3. logged \in 0 .. MaxLogged - 1 /\ logged + 1 \in 1 .. MaxLogged
  BY ChainAssumption DEF ChainInv
<1>4. sequence \in 0 .. MaxEvents - 1
  BY <1>2, ChainAssumption
<1>5. (type \in {"anchor", "receipt"}) \in BOOLEAN
  OBVIOUS
<1>6. NewEvent(type) \in Event
  BY <1>2, <1>3, <1>4 DEF NewEvent, Event
<1>7. [NewEvent(type) EXCEPT !.anchored = (type \in {"anchor", "receipt"})] \in Event
  BY <1>5, <1>6 DEF Event
<1> QED
  BY <1>3, <1>6, <1>7 DEF NewEvent

LEMMA DefaultIsPolicy == DefaultPolicy \in Policies
<1>1. DOMAIN DefaultPolicy = {"prompts", "builds"}
  BY DEF DefaultPolicy
<1>2. DefaultPolicy["prompts"] \in BOOLEAN /\ DefaultPolicy["builds"] \in BOOLEAN
  BY DEF DefaultPolicy
<1>3. DefaultPolicy = [key \in DOMAIN DefaultPolicy |-> DefaultPolicy[key]]
  BY DEF DefaultPolicy
<1>4. \A key \in DOMAIN DefaultPolicy : DefaultPolicy[key] \in BOOLEAN
  BY <1>1, <1>2
<1> QED
  BY <1>3, <1>4 DEF Policies

\* A process that ended or died leaves files in order.
LEMMA AfterClose ==
  ASSUME ChainInv, Closed, logged' \in 0 .. MaxLogged, FilesInOrder(eventFiles', logged'),
         policyFile' = policyFile \/ policyFile' = TornFile
  PROVE  ChainInv'
<1>1. /\ chainUp' = FALSE /\ events' = <<>> /\ sequence' = 0 /\ chainHash' = GenesisHash
      /\ policy' = DefaultPolicy
  BY DEF Closed
<1>2. DefaultPolicy \in Policies
  BY DefaultIsPolicy
<1>3. policyFile'.kind = "policy" => policyFile'.policy \in Policies
  BY DEF ChainInv, TornFile
<1> QED
  BY <1>1, <1>2, <1>3 DEF ChainInv

LEMMA LogKeepsChain ==
  ASSUME ChainInv, NEW type \in EventTypes, NEW override \in BOOLEAN, LogEvent(type, override)
  PROVE  ChainInv' /\ ~Holds(eventFiles[sequence]) /\ sequence \in Places
<1> DEFINE e == NewEvent(type)
           c == [e EXCEPT !.anchored = (type \in {"anchor", "receipt"})]
<1>1. /\ chainUp /\ sequence < MaxEvents /\ logged < MaxLogged /\ logged' = logged + 1
      /\ events' = Append(events, c) /\ sequence' = sequence + 1 /\ chainHash' = e.id
      /\ eventFiles' = [eventFiles EXCEPT ![sequence] = e]
      /\ UNCHANGED <<chainUp, policy, policyFile>>
  BY DEF LogEvent, MakeEvent
<1>2. /\ e \in Event /\ c \in Event /\ e.seq = sequence /\ e.id = logged + 1 /\ e.prev = chainHash
      /\ c.seq = sequence /\ c.id = logged + 1 /\ c.prev = chainHash
      /\ logged \in 0 .. MaxLogged - 1 /\ logged + 1 \in 0 .. MaxLogged
  BY <1>1, NewEventIsEvent
<1> HIDE DEF e, c
<1>3. /\ MirrorOK(events, eventFiles) /\ FilesInOrder(eventFiles, logged)
      /\ sequence = SequenceAfter(events) /\ chainHash = HashAfter(events)
  BY <1>1 DEF ChainInv
<1>4. /\ sequence \in Places /\ ~Holds(eventFiles[sequence])
      /\ FilesInOrder([eventFiles EXCEPT ![sequence] = e], logged + 1)
  BY <1>1, <1>2, <1>3, WriteAtEnd
<1>5. /\ MirrorOK(Append(events, c), [eventFiles EXCEPT ![sequence] = e])
      /\ SequenceAfter(Append(events, c)) = sequence + 1 /\ HashAfter(Append(events, c)) = e.id
  BY <1>2, <1>3, <1>4, MirrorAfterLog
<1> QED
  BY <1>1, <1>2, <1>4, <1>5 DEF ChainInv

LEMMA AttestKeepsChain ==
  ASSUME ChainInv, NEW k \in DOMAIN events, AddNotaryAttestation(k)
  PROVE  /\ ChainInv'
         /\ \A i \in Places : eventFiles'[i].id = eventFiles[i].id \/ eventFiles'[i] = eventFiles[i]
<1> DEFINE e == [events[k] EXCEPT !.attested = TRUE]
<1>1. /\ chainUp /\ events' = [events EXCEPT ![k] = e]
      /\ eventFiles' = [eventFiles EXCEPT ![e.seq] = e]
      /\ UNCHANGED <<chainUp, sequence, chainHash, policy, policyFile, logged>>
  BY DEF AddNotaryAttestation
<1>2. /\ MirrorOK(events, eventFiles) /\ FilesInOrder(eventFiles, logged)
      /\ sequence = SequenceAfter(events) /\ chainHash = HashAfter(events)
  BY <1>1 DEF ChainInv
<1>3. k \in 1 .. Len(events) /\ events[k] \in Event
  BY <1>2 DEF MirrorOK, EventList
<1>4. e \in Event /\ e.seq = events[k].seq /\ e.id = events[k].id /\ e.prev = events[k].prev
  BY <1>3 DEF Event
<1> HIDE DEF e
<1>5. /\ events[k].seq \in Places /\ Holds(eventFiles[events[k].seq]) /\ eventFiles[events[k].seq].id = e.id
      /\ FilesInOrder([eventFiles EXCEPT ![e.seq] = e], logged)
      /\ MirrorOK([events EXCEPT ![k] = e], [eventFiles EXCEPT ![e.seq] = e])
      /\ SequenceAfter([events EXCEPT ![k] = e]) = SequenceAfter(events)
      /\ HashAfter([events EXCEPT ![k] = e]) = HashAfter(events)
  BY <1>2, <1>3, <1>4, AttestOne
<1>6. ChainInv'
  BY <1>1, <1>2, <1>5 DEF ChainInv
<1>7. \A i \in Places : eventFiles'[i].id = eventFiles[i].id \/ eventFiles'[i] = eventFiles[i]
  BY <1>1, <1>2, <1>4, <1>5 DEF FilesInOrder
<1> QED
  BY <1>6, <1>7

LEMMA CrashKeepsChain ==
  ASSUME ChainInv
  PROVE  /\ \A type \in EventTypes, override \in BOOLEAN : CrashInPersistEvent(type, override) => ChainInv'
         /\ \A k \in DOMAIN events : CrashInAttestation(k) => ChainInv'
<1>1. ASSUME NEW type \in EventTypes, NEW override \in BOOLEAN, CrashInPersistEvent(type, override)
      PROVE  ChainInv'
  <2>1. /\ chainUp /\ sequence < MaxEvents /\ logged < MaxLogged /\ logged' = logged + 1 /\ Closed
        /\ eventFiles' = [eventFiles EXCEPT ![sequence] = TornFile] /\ policyFile' = policyFile
    BY <1>1 DEF CrashInPersistEvent, MakeEvent
  <2>2. logged \in 0 .. MaxLogged - 1 /\ logged + 1 \in 0 .. MaxLogged
    BY <2>1, ChainAssumption DEF ChainInv
  <2>3. /\ MirrorOK(events, eventFiles) /\ FilesInOrder(eventFiles, logged)
        /\ sequence = SequenceAfter(events)
    BY <2>1 DEF ChainInv
  <2> DEFINE e == TornFile
  <2>4. e \in Event \cup {TornFile} /\ ~Holds(e)
    BY KindsOfFiles
  <2> HIDE DEF e
  <2>5. FilesInOrder([eventFiles EXCEPT ![sequence] = e], logged + 1)
    BY <2>1, <2>2, <2>3, <2>4, WriteAtEnd
  <2> QED
    BY <2>1, <2>2, <2>5, AfterClose DEF e
<1>2. ASSUME NEW k \in DOMAIN events, CrashInAttestation(k) PROVE ChainInv'
  <2>1. /\ chainUp /\ Closed /\ logged' = logged /\ policyFile' = policyFile
        /\ eventFiles' = [eventFiles EXCEPT ![events[k].seq] = TornFile]
    BY <1>2 DEF CrashInAttestation, Closed
  <2>2. MirrorOK(events, eventFiles) /\ FilesInOrder(eventFiles, logged) /\ logged \in 0 .. MaxLogged
    BY <2>1 DEF ChainInv
  <2>3. k \in 1 .. Len(events)
    BY <2>2 DEF MirrorOK, EventList
  <2>4. events[k].seq \in Places /\ Holds(eventFiles[events[k].seq])
    BY <2>2, <2>3 DEF MirrorOK
  <2>5. FilesInOrder([eventFiles EXCEPT ![events[k].seq] = TornFile], logged)
    BY <2>2, <2>4, TearOne
  <2> QED
    BY <2>1, <2>2, <2>5, AfterClose
<1> QED
  BY <1>1, <1>2

LEMMA ChainInitInv == ChainInit => ChainInv
<1> SUFFICES ASSUME ChainInit PROVE ChainInv
  OBVIOUS
<1>1. eventFiles = [k \in Places |-> NoFile]
  BY DEF ChainInit, Places
<1>2. \A k \in Places : ~Holds(eventFiles[k]) /\ eventFiles[k] = NoFile
  BY <1>1, KindsOfFiles
<1>3. FilesInOrder(eventFiles, logged)
  BY <1>1, <1>2 DEF FilesInOrder
<1>4. logged \in 0 .. MaxLogged
  BY ChainAssumption DEF ChainInit
<1>5. DefaultPolicy \in Policies
  BY DefaultIsPolicy
<1>6. policyFile.kind # "policy"
  BY DEF ChainInit, NoFile
<1> QED
  BY <1>3, <1>4, <1>5, <1>6 DEF ChainInit, ChainInv

LEMMA ChainNextInv == ChainInv /\ [ChainNext]_chainVars => ChainInv'
<1> SUFFICES ASSUME ChainInv, [ChainNext]_chainVars PROVE ChainInv'
  OBVIOUS
<1>1. CASE UNCHANGED chainVars
  BY <1>1 DEF chainVars, ChainInv
<1>2. CASE OpenChain
  <2>1. MirrorOK(LoadedEvents, eventFiles)
    BY LoadMirrors DEF ChainInv
  <2>2. DefaultPolicy \in Policies
    BY DefaultIsPolicy
  <2>3. policy' \in Policies
    BY <1>2, <2>2 DEF OpenChain, ChainInv
  <2> QED
    BY <1>2, <2>1, <2>3 DEF OpenChain, ChainInv
<1>3. CASE CloseChain
  BY <1>3, AfterClose DEF CloseChain, ChainInv
<1>4. CASE CrashInSavePolicy
  BY <1>4, AfterClose DEF CrashInSavePolicy, ChainInv
<1>5. ASSUME NEW type \in EventTypes, NEW override \in BOOLEAN,
             LogEvent(type, override) \/ CrashInPersistEvent(type, override)
      PROVE  ChainInv'
  BY <1>5, LogKeepsChain, CrashKeepsChain
<1>6. ASSUME NEW k \in DOMAIN events, AddNotaryAttestation(k) \/ CrashInAttestation(k) PROVE ChainInv'
  BY <1>6, AttestKeepsChain, CrashKeepsChain
<1>7. ASSUME NEW key \in DOMAIN DefaultPolicy, NEW value \in BOOLEAN, UpdateConsentPolicy(key, value)
      PROVE  ChainInv'
  <2>1. policy' = [policy EXCEPT ![key] = value] /\ policyFile' = [kind |-> "policy", policy |-> policy']
    BY <1>7 DEF UpdateConsentPolicy
  <2>2. policy' \in Policies
    BY <2>1 DEF Policies, ChainInv
  <2>3. policyFile'.policy = policy'
    BY <2>1
  <2> QED
    BY <1>7, <2>2, <2>3 DEF UpdateConsentPolicy, ChainInv
<1> QED
  BY <1>1, <1>2, <1>3, <1>4, <1>5, <1>6, <1>7 DEF ChainNext

\* The files stay in order and an open chain has their events, whatever
\* processes logged, attested, ended and died (ChainInv is inductive).
THEOREM ChainInvariant == ChainSpec => []ChainInv
BY ChainInitInv, ChainNextInv, PTL DEF ChainSpec

\* EventsNeverReplaced: no crash, torn file and reload makes log_event write
\* over the file of another event.
THEOREM ChainKeepsEvents == ChainSpec => EventsNeverReplaced
<1> DEFINE NoneReplaced == \A k \in DOMAIN eventFiles :
                      Holds(eventFiles[k]) /\ Holds(eventFiles'[k]) => eventFiles'[k].id = eventFiles[k].id
<1>1. ChainInv /\ [ChainNext]_chainVars => [NoneReplaced]_chainVars
  <2> SUFFICES ASSUME ChainInv, [ChainNext]_chainVars, ~(UNCHANGED chainVars) PROVE NoneReplaced
    OBVIOUS
  <2>1. eventFiles \in [Places -> {NoFile, TornFile} \cup Event] /\ DOMAIN eventFiles = Places
    BY DEF ChainInv, FilesInOrder
  <2>2. ASSUME eventFiles' = eventFiles PROVE NoneReplaced
    BY <2>2
  <2>3. ASSUME NEW q, eventFiles' = [eventFiles EXCEPT ![q] = TornFile] PROVE NoneReplaced
    <3>1. \A k \in Places : eventFiles'[k] = eventFiles[k] \/ ~Holds(eventFiles'[k])
      BY <2>1, <2>3, KindsOfFiles
    <3> QED
      BY <2>1, <3>1
  <2>4. ASSUME NEW type \in EventTypes, NEW override \in BOOLEAN, LogEvent(type, override) PROVE NoneReplaced
    <3>1. ~Holds(eventFiles[sequence])
      BY <2>4, LogKeepsChain
    <3>2. eventFiles' = [eventFiles EXCEPT ![sequence] = NewEvent(type)]
      BY <2>4 DEF LogEvent
    <3>3. \A k \in Places : k # sequence => eventFiles'[k] = eventFiles[k]
      BY <2>1, <3>2
    <3> QED
      BY <2>1, <3>1, <3>3
  <2>5. ASSUME NEW k \in DOMAIN events, AddNotaryAttestation(k) PROVE NoneReplaced
    <3>1. \A i \in Places : eventFiles'[i].id = eventFiles[i].id \/ eventFiles'[i] = eventFiles[i]
      BY <2>5, AttestKeepsChain
    <3> QED
      BY <2>1, <3>1
  <2>6. CASE OpenChain \/ CloseChain \/ CrashInSavePolicy
    BY <2>2, <2>6 DEF OpenChain, CloseChain, CrashInSavePolicy
  <2>7. ASSUME NEW type \in EventTypes, NEW override \in BOOLEAN, CrashInPersistEvent(type, override)
        PROVE  NoneReplaced
    BY <2>3, <2>7 DEF CrashInPersistEvent
  <2>8. ASSUME NEW k \in DOMAIN events, CrashInAttestation(k) PROVE NoneReplaced
    BY <2>3, <2>8 DEF CrashInAttestation
  <2>9. ASSUME NEW key \in DOMAIN DefaultPolicy, NEW value \in BOOLEAN, UpdateConsentPolicy(key, value)
        PROVE  NoneReplaced
    BY <2>2, <2>9 DEF UpdateConsentPolicy
  <2> HIDE DEF NoneReplaced
  <2> QED
    BY <2>4, <2>5, <2>6, <2>7, <2>8, <2>9 DEF ChainNext
<1>2. [][NoneReplaced]_chainVars => EventsNeverReplaced
  BY DEF EventsNeverReplaced
<1> HIDE DEF NoneReplaced
<1> QED
  BY <1>1, <1>2, ChainInvariant, PTL DEF ChainSpec

\* IntactUnlessHole: an open chain verifies exactly when no torn file has an
\* event after it.
THEOREM ChainIntactUnlessHole == ChainSpec => []IntactUnlessHole
<1>1. ChainInv => IntactUnlessHole
  <2> SUFFICES ASSUME ChainInv, chainUp PROVE VerifyChainIntegrity(events) <=> ~Hole
    BY DEF IntactUnlessHole
  <2> DEFINE es == events
             f == eventFiles
             m == Len(es)
  <2>1. MirrorOK(es, f) /\ FilesInOrder(f, logged)
    BY DEF ChainInv
  <2>2. es \in EventList /\ m \in Nat /\ DOMAIN es = 1 .. m /\ DOMAIN f = Places
    BY <2>1 DEF MirrorOK, EventList, FilesInOrder
  <2>3. \A k \in 1 .. m : /\ k \in Int /\ (k # 1 => k - 1 \in 1 .. m /\ k - 1 < k) /\ k >= 1
    BY <2>2
  <2>4. \A k \in 1 .. m : /\ es[k].seq \in Places /\ Holds(f[es[k].seq])
                          /\ f[es[k].seq].id = es[k].id /\ f[es[k].seq].prev = es[k].prev
    BY <2>1 DEF MirrorOK
  <2>5. \A k \in Places : Holds(f[k]) => f[k].id \in Int /\ f[k].prev \in Int
    BY <2>1 DEF FilesInOrder, Event
  <2>6. VerifyChainIntegrity(events) <=> \A k \in 1 .. m : es[k].prev = IF k = 1 THEN 0 ELSE es[k - 1].id
    BY <2>2 DEF VerifyChainIntegrity, GenesisHash
  <2>7. Hole <=> \E j, k \in Places : j < k /\ f[j] = TornFile /\ Holds(f[k])
    BY <2>2 DEF Hole
  <2> HIDE DEF es, f, m
  <2>8. ASSUME NEW j \in Places, NEW k0 \in Places, j < k0, f[j] = TornFile, Holds(f[k0])
        PROVE  \E p \in 1 .. m : es[p].prev # (IF p = 1 THEN 0 ELSE es[p - 1].id)
    <3> DEFINE T == {k \in Places : j < k /\ Holds(f[k])}
    <3>1. T \in SUBSET Nat /\ T # {}
      BY <2>8, PlacesAreNumbers
    <3>2. PICK k \in T : \A l \in T : k <= l
      BY <3>1, LeastNatural
    <3>3. k \in Places /\ j < k /\ Holds(f[k]) /\ k \in Nat /\ j \in Nat /\ k > 0
      BY <3>2, PlacesAreNumbers
    <3>4. k - 1 \in Places /\ ~Holds(f[k - 1])
      <4>1. k - 1 \in Places /\ (j = k - 1 \/ j < k - 1) /\ ~(k <= k - 1)
        BY <3>3, PlacesAreNumbers
      <4>2. k - 1 \notin T
        BY <3>2, <4>1
      <4> QED
        BY <2>8, <4>1, <4>2, KindsOfFiles
    <3>5. PICK p \in 1 .. m : es[p].seq = k
      BY <2>1, <3>3 DEF MirrorOK, m
    <3>6. es[p].prev = f[k].prev /\ f[k].prev > 0 /\ f[k].prev \in Int
      BY <2>1, <2>4, <2>5, <3>3, <3>5 DEF FilesInOrder
    <3>7. CASE p = 1
      BY <3>6, <3>7
    <3>8. CASE p # 1
      <4> DEFINE i == es[p - 1].seq
      <4>1. p - 1 \in 1 .. m /\ p - 1 < p
        BY <2>3, <3>8
      <4>2. i \in Places /\ Holds(f[i]) /\ f[i].id = es[p - 1].id /\ i < k
        BY <2>1, <2>4, <3>5, <4>1 DEF MirrorOK, m
      <4> HIDE DEF i
      <4>3. i < k - 1
        <5>1. i # k - 1
          BY <3>4, <4>2
        <5>2. i \in Int /\ k \in Int
          BY <3>3, <4>2, PlacesAreNumbers
        <5> QED
          BY <4>2, <5>1, <5>2
      <4>4. f[i].id < f[k].prev /\ f[i].id \in Int
        BY <2>1, <2>5, <3>3, <4>2, <4>3 DEF FilesInOrder
      <4>5. es[p].prev # es[p - 1].id
        BY <3>6, <4>2, <4>4
      <4> QED
        BY <3>8, <4>5
    <3> QED
      BY <3>7, <3>8
  <2>9. ASSUME ~Hole, NEW p \in 1 .. m PROVE es[p].prev = IF p = 1 THEN 0 ELSE es[p - 1].id
    <3> DEFINE k == es[p].seq
    <3>1. k \in Places /\ Holds(f[k]) /\ f[k].prev = es[p].prev /\ k \in Nat
      BY <2>4, PlacesAreNumbers
    <3>2. p # 1 => /\ p - 1 \in 1 .. m /\ es[p - 1].seq < k /\ es[p - 1].seq \in Nat
      BY <2>1, <2>3, <2>4, PlacesAreNumbers DEF MirrorOK, m
    <3> HIDE DEF k
    <3>3. CASE k = 0
      <4>1. p = 1
        BY <3>2, <3>3
      <4>2. f[k].prev = 0
        BY <2>1, <3>1, <3>3 DEF FilesInOrder
      <4> QED
        BY <3>1, <4>1, <4>2
    <3>4. CASE k > 0
      <4> DEFINE j == k - 1
      <4>1. j \in Places /\ j < k /\ j = k - 1 /\ j \in Nat
        BY <3>1, <3>4, PlacesAreNumbers
      <4> HIDE DEF j
      <4>2. f[k] # NoFile
        BY <3>1, KindsOfFiles
      <4>3. f[j] # NoFile
        BY <2>1, <3>1, <4>1, <4>2 DEF FilesInOrder
      <4>4. f[j] # TornFile
        BY <2>7, <2>9, <3>1, <4>1
      <4>5. Holds(f[j])
        <5>1. f[j] \in {NoFile, TornFile} \cup Event
          BY <2>1, <4>1 DEF FilesInOrder
        <5> QED
          BY <4>3, <4>4, <5>1, KindsOfFiles
      <4>6. f[k].prev = f[j].id
        BY <2>1, <3>1, <4>1, <4>5 DEF FilesInOrder
      <4>7. PICK q \in 1 .. m : es[q].seq = j
        BY <2>1, <4>1, <4>5 DEF MirrorOK, m
      <4>8. \A a, b \in 1 .. m : a < b => es[a].seq < es[b].seq
        BY <2>1 DEF MirrorOK, m
      <4>9. q < p
        <5>1. p < q => k < j
          BY <4>7, <4>8 DEF k
        <5>2. q # p
          BY <4>1, <4>7 DEF k
        <5>3. p \in Int /\ q \in Int
          BY <2>3
        <5> QED
          BY <3>1, <4>1, <5>1, <5>2, <5>3
      <4>10. p # 1 /\ q = p - 1
        <5>1. p \in Int /\ q \in Int /\ q >= 1 /\ p >= 1
          BY <2>3
        <5>2. p # 1
          BY <4>9, <5>1
        <5>3. q < p - 1 => j < es[p - 1].seq
          BY <3>2, <4>7, <4>8, <5>2
        <5> QED
          BY <3>1, <3>2, <4>1, <4>9, <5>1, <5>2, <5>3
      <4>11. es[p - 1].id = f[j].id
        BY <2>4, <4>7, <4>10
      <4> QED
        BY <3>1, <4>6, <4>10, <4>11
    <3> QED
      BY <3>1, <3>3, <3>4
  <2> QED
    BY <2>6, <2>7, <2>8, <2>9
<1> QED
  BY <1>1, ChainInvariant, PTL

-----------------------------------------------------------------------------
(* All the parts *)

LEMMA ConsentTypes == ConsentInv => ConsentTypeOK
BY DEF ConsentInv, ConsentOK, ConsentStates, ConsentTypeOK

LEMMA PipeKeepsTypes == PipeInv => PipeTypeOK
<1> SUFFICES ASSUME PipeInv PROVE PipeTypeOK
  OBVIOUS
<1>1. compiled \in 0 .. MaxJobs /\ job_output \in 0 .. compiled
  BY PipeAssumption DEF PipeInv, PipeTypes
<1>2. job_state \in 0 .. compiled
  BY DEF PipeInv, PipeTypes, PipeOrder, CopyOK
<1>3. DOMAIN event = Listeners /\ \A l \in Listeners : event[l].phase \in {"idle", "sent", "running"}
  <2>1. event \in [Listeners -> Events]
    BY DEF PipeInv, PipeTypes
  <2>2. \A e \in Events : e.phase \in {"idle", "sent", "running"}
    BY EventCases DEF Events
  <2> QED
    BY <2>1, <2>2
<1> QED
  BY <1>1, <1>2, <1>3 DEF PipeTypeOK, PipeInv, BundlesOK

LEMMA NodeTypes == NodeInv => NodeTypeOK
<1> SUFFICES ASSUME NodeInv PROVE NodeTypeOK
  OBVIOUS
<1> DEFINE n == Len(batches)
           C == Counted(n, finality, waiting)
<1>1. n \in Nat /\ n <= MaxRoots /\ waiting \in 0 .. n /\ batchesFinalized \in Nat
      /\ batchesFinalized <= Cardinality(C) /\ MaxRoots \in Nat
  BY BatchAssumption DEF NodeInv, LedgerOK, BatchList
<1>2. IsFiniteSet(1 .. n) /\ Cardinality(1 .. n) = n /\ C \in SUBSET (1 .. n)
  <2>1. C \in SUBSET (1 .. n)
    BY DEF Counted
  <2> DEFINE one == 1
  <2>2. one \in Int /\ n \in Int /\ one = 1
    BY <1>1
  <2> HIDE DEF one, n, C
  <2>3. IsFiniteSet(one .. n) /\ Cardinality(one .. n) = IF one > n THEN 0 ELSE n - one + 1
    BY <2>2, FS_Interval
  <2>4. (IF one > n THEN 0 ELSE n - one + 1) = n
    BY <1>1, <2>2
  <2> QED
    BY <2>1, <2>2, <2>3, <2>4
<1> HIDE DEF C, n
<1>3. Cardinality(C) \in Nat /\ Cardinality(C) <= n
  <2> DEFINE D == 1 .. n
  <2>1. IsFiniteSet(D) /\ Cardinality(D) = n /\ C \in SUBSET D
    BY <1>2
  <2> HIDE DEF D
  <2>2. IsFiniteSet(C) /\ Cardinality(C) <= Cardinality(D)
    BY <2>1, FS_Subset
  <2> QED
    BY <2>1, <2>2, FS_CardinalityType
<1>4. batchesFinalized \in 0 .. MaxRoots
  BY <1>1, <1>3
<1>5. \A r \in Roots : finality[r] \in 0 .. Len(rounds[r])
  BY DEF NodeInv, RoundOK
<1>6. Len(pendingOps) <= MaxPending /\ waiting \in 0 .. Len(batches)
  BY DEF NodeInv, LedgerOK
<1> QED
  BY <1>4, <1>5, <1>6 DEF NodeTypeOK

LEMMA RivlTypes == RivlInv => RivlTypeOK
<1> SUFFICES ASSUME RivlInv PROVE RivlTypeOK
  OBVIOUS
<1>1. rewardFile \in WriteList /\ scored \in Nat /\ scored <= Len(rewardFile) /\ Len(rewardFile) <= MaxWrites
  BY DEF RivlInv, LossOK
<1>2. Len(rewardFile) \in Nat /\ \A i \in DOMAIN rewardFile : rewardFile[i] \in Writes
  BY <1>1 DEF WriteList
<1>3. \A w \in Writes : /\ w.event.prompt \in Prompts /\ w.event.reasons \subseteq DOMAIN Weights
                        /\ w.event.verdict \in {"accepted", "punished"} /\ w.cut \in Cuts
  BY DEF Writes
<1>4. scored \in 0 .. MaxWrites
  BY <1>1, <1>2, WritesAssumption
<1> QED
  BY <1>2, <1>3, <1>4 DEF RivlTypeOK, RivlInv

LEMMA MemoryTypes == MemoryInv => MemoryTypeOK
<1> SUFFICES ASSUME MemoryInv PROVE MemoryTypeOK
  OBVIOUS
<1>1. /\ files \in [FileNames -> Contents \cup {Missing}] /\ solo \subseteq FileNames
      /\ manifest.state \in {"absent", "unreadable", "entries"}
      /\ manifest.state = "entries" => manifest.data \in UNION {[D -> Contents] : D \in SUBSET FileNames}
      /\ stores \in 0 .. MaxStores
  BY DEF MemoryInv, StoreInv, FilesOK, ManifestOK, Tables
<1>2. \A w \in Writers : writer[w].pc \in {"idle", "written", "read", "truncated"}
  BY CallShape DEF MemoryInv, StoreInv
<1>3. reputation.total_tasks \in 0 .. MaxUpdates
  <2>1. updates \in UpdateList /\ Len(updates) <= MaxUpdates /\ RowOK(reputation, updates)
    BY DEF MemoryInv, RowOK
  <2>2. Len(updates) \in Nat
    BY <2>1 DEF UpdateList
  <2>3. reputation.total_tasks = Len(updates)
    BY <2>1, <2>2 DEF RowOK, NoRow
  <2> QED
    BY <2>1, <2>2, <2>3, MemoryAssumption
<1> QED
  BY <1>1, <1>2, <1>3 DEF MemoryTypeOK

LEMMA ApiTypes == ApiInv => ApiTypeOK
<1> SUFFICES ASSUME ApiInv PROVE ApiTypeOK
  OBVIOUS
<1>1. \A a \in DOMAIN database : database[a] \in Artifacts
  BY DEF ApiInv, DatabaseOK
<1>2. \A r \in Artifacts : /\ r.type \in ArtifactType /\ r.redacted_hash \in ContentHash
                           /\ r.privacy_status \in PrivacyStatus /\ r.proof \in Seq(PrivacyStatus)
  BY DEF Artifacts, ProofList
<1> QED
  BY <1>1, <1>2 DEF ApiTypeOK, ApiInv, DatabaseOK, PayloadsOK

LEMMA ChainTypes == ChainInv => ChainTypeOK
<1> SUFFICES ASSUME ChainInv PROVE ChainTypeOK
  OBVIOUS
<1>1. sequence \in 0 .. MaxEvents /\ chainHash \in 0 .. MaxLogged
  <2>1. CASE chainUp
    BY <2>1, EndOfChain DEF ChainInv
  <2>2. CASE ~chainUp
    BY <2>2, ChainAssumption DEF ChainInv, GenesisHash
  <2> QED
    BY <2>1, <2>2
<1>2. \A k \in DOMAIN events : events[k] \in Event
  <2>1. CASE chainUp
    BY <2>1 DEF ChainInv, MirrorOK, EventList
  <2>2. CASE ~chainUp
    BY <2>2 DEF ChainInv
  <2> QED
    BY <2>1, <2>2
<1>3. \A k \in DOMAIN eventFiles : eventFiles[k] \in {NoFile, TornFile} \cup Event
  BY DEF ChainInv, FilesInOrder
<1> QED
  BY <1>1, <1>2, <1>3 DEF ChainTypeOK, ChainInv, Policies

\* A behaviour of the SDK is a behaviour of each of its parts.
THEOREM SdkRunsParts ==
  SdkSpec => /\ Spec /\ ChainSpec /\ ConsentSpec /\ NodeSpec
             /\ ApiSpec /\ PipeSpec /\ RivlSpec /\ MemorySpec
<1> DEFINE Step == BrainPart \/ ChainPart \/ ConsentPart \/ NodePart
                     \/ ApiPart \/ PipelinePart \/ RivlPart \/ MemoryPart
<1>1. SdkInit => /\ Init /\ ChainInit /\ ConsentInit /\ NodeInit
                 /\ ApiInit /\ PipeInit /\ RivlInit /\ MemoryInit
  BY DEF SdkInit
<1>2. [Step]_sdkVars => /\ [Next]_vars /\ [ChainNext]_chainVars /\ [ConsentNext]_consentVars
                        /\ [NodeNext]_nodeVars /\ [ApiNext]_apiVars /\ [PipeNext]_pipeVars
                        /\ [RivlNext]_rivlVars /\ [MemoryNext]_memoryVars
  BY DEF BrainPart, ChainPart, ConsentPart, NodePart, ApiPart, PipelinePart, RivlPart, MemoryPart, sdkVars
<1> QED
  BY <1>1, <1>2, PTL DEF SdkSpec, Spec, ChainSpec, ConsentSpec, NodeSpec, ApiSpec, PipeSpec, RivlSpec, MemorySpec

\* SdkTypeOK: the state of every part of the SDK keeps its type.
THEOREM SdkTypes == SdkSpec => []SdkTypeOK
<1>1. TypeOK /\ ChainInv /\ ConsentInv /\ NodeInv /\ ApiInv /\ PipeInv /\ RivlInv /\ MemoryInv => SdkTypeOK
  BY ChainTypes, ConsentTypes, NodeTypes, ApiTypes, PipeKeepsTypes, RivlTypes, MemoryTypes DEF SdkTypeOK
<1> QED
  BY <1>1, SdkRunsParts, BrainKeepsTypes, ChainInvariant, ConsentInvariant, NodeInvariant, ApiInvariant,
     PipeInvariant, RivlInvariant, MemoryInvariant, PTL
=============================================================================
