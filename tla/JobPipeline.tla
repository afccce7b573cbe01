---------------------------- MODULE JobPipeline ----------------------------
(***************************************************************************)
(* The Proof-of-Job pipeline (membra_sdk/job/) behind the tabs of the demo *)
(* (app.py): compile a prompt, score its yield, run the validators, export *)
(* the proof bundle.                                                       *)
(*                                                                         *)
(* A click sends the values of the visible components along; a gr.State is *)
(* read on the server when the handler starts and written when it returns. *)
(* Each of the five listeners has at most one event in flight, and the     *)
(* handlers of different listeners interleave.  The compile button has two *)
(* listeners: one compiles, the other copies job_output to job_state.      *)
(*                                                                         *)
(* Jobs are numbered in the order in which they are compiled; 0 is None.   *)
(***************************************************************************)
EXTENDS Integers, FiniteSets

CONSTANTS
    MaxJobs,      \* bound on the compilations
    ScoreInputs,  \* values of the fields of the yield tab
    MaxBundles    \* bound on the exports

ASSUME PipeAssumption == MaxJobs \in Nat

VARIABLES
    compiled,        \* jobs compiled so far
    job_output,      \* the job shown in the browser
    job_state,       \* the three gr.State values of the session
    yield_state,
    consensus_state,
    event,           \* per listener: the event in flight
    bundles          \* proof bundles exported, with their settlement preview

pipeVars == <<compiled, job_output, job_state, yield_state, consensus_state, event, bundles>>

None == 0
Listeners == {"compile", "copy", "score", "consensus", "export"}
NoEvent == [phase |-> "idle"]

PipeInit ==
    /\ compiled = 0 /\ job_output = None
    /\ job_state = None /\ yield_state = <<>> /\ consensus_state = <<>>
    /\ event = [l \in Listeners |-> NoEvent]
    /\ bundles = {}

----------------------------------------------------------------------------
(* The library.  Scores are in tenths, as round(x, 1) leaves them.         *)

AtMost(a, b) == IF a < b THEN a ELSE b

\* round(a/b) for b > 0, halves up.
Rounded(a, b) == (2 * a + b) \div (2 * b)

\* The demo's artifacts have 1000 bytes each.
ScoreArtifactYield(n) == AtMost(1000, 200 * n + AtMost(200, n))

ScoreValidationYield(in) ==
    LET tests == IF in.total = 0 THEN 500 ELSE Rounded(1000 * in.passed, in.total)
        score == tests + (IF in.lint THEN 100 ELSE 0) - AtMost(500, 100 * in.flags)
    IN  IF score < 0 THEN 0 ELSE score

\* No market or chain receipts are passed: only two of the weights count.
Measure(in) ==
    [total_score |-> Rounded(35 * (ScoreArtifactYield(in.count) + ScoreValidationYield(in)), 100),
     passed |-> in.passed, total |-> in.total]

Roles == {"structure", "security", "usefulness", "tests", "policy"}

\* The demo passes the expected outputs as the artifacts found, and a policy
\* that _build_policy made without a context: no mainnet.
ExpectedOutputs == {"README.md", "proof.json"}
Mainnet == FALSE

RoleAccepts(role, found, results) ==
    CASE role = "structure" -> ExpectedOutputs \subseteq found
      [] role = "security" -> TRUE
      [] role = "usefulness" -> found # {}
      [] role = "tests" -> results.total = 0 \/ results.passed = results.total
      [] role = "policy" -> ~Mainnet

\* ConsensusEngine.evaluate with the default threshold 2/3.
Evaluate(found, results) ==
    LET yes == Cardinality({r \in Roles : RoleAccepts(r, found, results)})
    IN  IF 3 * yes >= 2 * Cardinality(Roles) THEN "accepted" ELSE "rejected"

LowScore == 600

\* SettlementAdapter.preview of a bundle.
Preview(score, result) ==
    CASE result # "accepted" -> "unsettlable"
      [] result = "accepted" /\ score < LowScore -> "low_yield"
      [] OTHER -> "settlable"

----------------------------------------------------------------------------
(* Clicks.  An event captures what the browser shows; a listener whose     *)
(* event is in flight ignores the click (trigger_mode "once").             *)

Sent(l, in) ==
    IF event[l] = NoEvent THEN [phase |-> "sent", shown |-> job_output, in |-> in]
    ELSE event[l]

\* The listeners that a click on the compile button triggers.
OnCompileClick(l) == l \in {"compile", "copy"}

ClickCompile ==
    /\ compiled < MaxJobs
    /\ event' = [l \in Listeners |-> IF OnCompileClick(l) THEN Sent(l, {}) ELSE event[l]]
    /\ event' # event
    /\ UNCHANGED <<compiled, job_output, job_state, yield_state, consensus_state, bundles>>

ClickScore ==
    \E in \in ScoreInputs :
        /\ event["score"] = NoEvent
        /\ event' = [event EXCEPT !["score"] = Sent("score", in)]
        /\ UNCHANGED <<compiled, job_output, job_state, yield_state, consensus_state, bundles>>

Click(l) ==
    /\ event[l] = NoEvent
    /\ event' = [event EXCEPT ![l] = Sent(l, {})]
    /\ UNCHANGED <<compiled, job_output, job_state, yield_state, consensus_state, bundles>>

\* The handler of l returns or raises.
Returns(l) == event' = [event EXCEPT ![l] = NoEvent]

\* compile_chat: a new job id; the browser shows the job once it returns.
CompileReturns ==
    /\ event["compile"].phase = "sent"
    /\ compiled' = compiled + 1
    /\ job_output' = compiled'
    /\ Returns("compile")
    /\ UNCHANGED <<job_state, yield_state, consensus_state, bundles>>

\* lambda x: x on the job_output that the click sent, which is the job of
\* before the compile that the same click started.
CopyReturns ==
    /\ event["copy"].phase = "sent"
    /\ job_state' = event["copy"].shown
    /\ Returns("copy")
    /\ UNCHANGED <<compiled, job_output, yield_state, consensus_state, bundles>>

\* Mutant: the later handlers are given job_output, as the click sent it.
JobSent(l) == event[l].shown

\* The job of the later handlers, inputs=[job_state, ...].
JobGiven(l) == job_state

\* The three later handlers read the session when they start.
Starts(l) ==
    /\ event[l].phase = "sent"
    /\ event' = [event EXCEPT ![l] =
                   [phase |-> "running", job |-> JobGiven(l), in |-> event[l].in,
                    yields |-> yield_state, verdict |-> consensus_state]]
    /\ UNCHANGED <<compiled, job_output, job_state, yield_state, consensus_state, bundles>>

Running(l) == event[l].phase = "running"

\* json.loads(None) raises, the handler returns one value where two are due.
ScoreReturns ==
    /\ Running("score") /\ Returns("score")
    /\ LET e == event["score"]
       IN  yield_state' = IF e.job = None THEN yield_state
                          ELSE <<[job |-> e.job, report |-> Measure(e.in)]>>
    /\ UNCHANGED <<compiled, job_output, job_state, consensus_state, bundles>>

\* Without a job or a yield report the handler raises and no state changes.
ConsensusReturns ==
    /\ Running("consensus") /\ Returns("consensus")
    /\ LET e == event["consensus"]
       IN  consensus_state' =
             IF e.job = None \/ e.yields = <<>> THEN consensus_state
             ELSE <<[job |-> e.job, scored |-> e.yields[1].job,
                     result |-> Evaluate(ExpectedOutputs, e.yields[1].report)]>>
    /\ UNCHANGED <<compiled, job_output, job_state, yield_state, bundles>>

\* ProofBundle.build over the job, the yield report and the consensus report
\* that the handler read, and the preview of its settlement.
Bundle(e) ==
    [job |-> e.job, scored |-> e.yields[1].job, consensus |-> e.verdict[1],
     preview |-> Preview(e.yields[1].report.total_score, e.verdict[1].result)]

\* preview raises on a consensus that is None: nothing is exported.
ExportReturns ==
    /\ Running("export") /\ Returns("export")
    /\ LET e == event["export"]
       IN  bundles' =
             IF e.job = None \/ e.verdict = <<>> THEN bundles
             ELSE bundles \cup {Bundle(e)}
    /\ UNCHANGED <<compiled, job_output, job_state, yield_state, consensus_state>>

ClickExport == Cardinality(bundles) < MaxBundles /\ Click("export")

PipeNext ==
    \/ ClickCompile \/ CompileReturns \/ CopyReturns
    \/ ClickScore \/ Click("consensus") \/ ClickExport
    \/ \E l \in {"score", "consensus", "export"} : Starts(l)
    \/ ScoreReturns \/ ConsensusReturns \/ ExportReturns

PipeSpec == PipeInit /\ [][PipeNext]_pipeVars

----------------------------------------------------------------------------
PipeTypeOK ==
    /\ compiled \in 0..MaxJobs /\ job_output \in 0..compiled /\ job_state \in 0..compiled
    /\ DOMAIN event = Listeners
    /\ \A l \in Listeners : event[l].phase \in {"idle", "sent", "running"}
    /\ \A b \in bundles : b.preview \in {"unsettlable", "low_yield", "settlable"}

(* However the clicks and the handlers interleave, the session is stale in *)
(* one direction only.  The parts of an exported bundle are ordered: its   *)
(* verdict was reached on a score no newer than the bundle's, for a job no *)
(* newer than the bundle's.  A job is never exported with a verdict that   *)
(* was reached for a later one (app.py run_consensus, export_proof).       *)
NeverFromNewerJob ==
    \A b \in bundles :
        /\ b.scored <= b.job
        /\ b.consensus.job <= b.job
        /\ b.consensus.scored <= b.scored
        /\ b.consensus.scored <= b.consensus.job
=============================================================================
