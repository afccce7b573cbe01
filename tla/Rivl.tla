-------------------------------- MODULE Rivl --------------------------------
(***************************************************************************)
(* Reinforcement Inverted Validator Learning (membra_sdk/rivl/): brains    *)
(* that warn their specialists of past failures, verify and score what     *)
(* they return, and merge it; and library clients that run the verifier    *)
(* stack over a submission of their own and score that.  All of them share *)
(* one file of reward events.                                              *)
(*                                                                         *)
(* A score is one buffered write to a file opened for appending, so whole  *)
(* writes do not mix; a full disk or a power loss may cut one short, and   *)
(* the next write then continues the unfinished line.  The file is the     *)
(* sequence of the writes made to it.  Later writes have later timestamps. *)
(***************************************************************************)
EXTENDS Integers, Sequences, FiniteSets, FiniteSetsExt

CONSTANTS
    Brains,        \* RIVLBrain objects, each in a process of its own
    Prompts,
    KeywordsOf,    \* the reasons that contain a word of the prompt
    Submissions,   \* what clients verify: artifact, receipt, votes, policy
    MemoryLimit,   \* events of each verdict that a search returns (5)
    MaxSpecialists,
    MaxWrites      \* bound on the scores

ASSUME WritesAssumption == MaxWrites \in Nat

VARIABLES
    rewardFile,  \* reward_events.jsonl: the writes, in order
    brain,       \* per brain: the call of process() under way, or its result
    scored       \* score() calls that have returned

rivlVars == <<rewardFile, brain, scored>>

BrainIdle == [pc |-> "idle"]

RivlInit ==
    /\ rewardFile = <<>>
    /\ brain = [b \in Brains |-> BrainIdle]
    /\ scored = 0

----------------------------------------------------------------------------
(* The verifier stack.  A piece of code is the kinds of issue it has.      *)

ScanSecurity(code) == "security" \notin code
CheckSyntax(code) == "syntax" \notin code

\* The tests run only when the caller asks for them; "tests" means that they
\* did and failed, or could not be started.
VerifyCode(code) ==
    [passed |-> ScanSecurity(code) /\ CheckSyntax(code) /\ "tests" \notin code,
     secure |-> ScanSecurity(code)]

\* A missing field counts as absent; amounts are only compared with zero.
VerifyPayment(receipt) ==
    /\ receipt.complete
    /\ receipt.status = "succeeded"
    /\ receipt.amount > 0

\* The threshold is 0.66.
VerifyConsensus(votes) == votes.total > 0 /\ 100 * votes.yes >= 66 * votes.total

\* The action is the text of the artifact: what it mentions.
VerifyPolicy(mentions, config) ==
    /\ "defi" \in mentions =>
          /\ config.defi_enabled
          /\ config.mode # "simulation" => config.mainnet_enabled
          /\ config.require_human_approval
    /\ "mainnet" \in mentions => config.mainnet_enabled

\* run_full_verification: a part that is not supplied is not checked.
FullVerification(s) ==
    LET code == VerifyCode(s.code)
    IN  [tests_passed       |-> code.passed,
         security_passed    |-> code.secure,
         payment_verified   |-> s.receipt # {} /\ \A r \in s.receipt: VerifyPayment(r),
         consensus_verified |-> s.votes # {} /\ \A v \in s.votes: VerifyConsensus(v),
         policy_violation   |-> \E c \in s.policy: ~VerifyPolicy(s.mentions, c)]

----------------------------------------------------------------------------
(* The reward engine.                                                      *)

Weights ==
    [tests_passed |-> 10, tests_failed |-> -25, security_passed |-> 10, security_failed |-> -50,
     payment_verified |-> 25, payment_missing |-> -5,
     consensus_verified |-> 15, consensus_missing |-> -10,
     artifact_downloaded |-> 5, refund_requested |-> -50, financial_loss |-> -100,
     policy_violation |-> -100, mainnet_without_approval |-> -1000, loss_of_funds |-> -10000,
     slippage_too_high |-> -50, unauthorized_contract |-> -100]

\* The circumstances that a caller may report besides the four checks.
Circumstances ==
    {"artifact_downloaded", "refund_requested", "financial_loss", "mainnet_without_approval",
     "loss_of_funds", "slippage_too_high", "unauthorized_contract"}

ASSUME SubmissionsAssumption == \A s \in Submissions: s.circumstances \subseteq Circumstances

\* The entries of the table that apply; policy_violation never does.
Reasons(f, circumstances) ==
    {IF f.tests_passed THEN "tests_passed" ELSE "tests_failed",
     IF f.security_passed THEN "security_passed" ELSE "security_failed",
     IF f.payment_verified THEN "payment_verified" ELSE "payment_missing",
     IF f.consensus_verified THEN "consensus_verified" ELSE "consensus_missing"}
        \cup circumstances

Reward(reasons) == MapThenSumSet(LAMBDA r: Weights[r], reasons)

RewardEvent(p, f, circumstances) ==
    LET reasons == Reasons(f, circumstances)
    IN  [prompt |-> p, reasons |-> reasons,
         verdict |-> IF Reward(reasons) > 0 THEN "accepted" ELSE "punished",
         policy_violation |-> f.policy_violation]

(***************************************************************************)
(* _persist: the write is "whole", or cut short after part of the event    *)
(* ("partial") or before its newline ("open").                             *)
(***************************************************************************)
\* Mutant: the file is opened with mode "w".
Opened(file, write) == <<write>>
Appended(file, write) == Append(file, write)
Persist(event, cut) ==
    /\ rewardFile' = Appended(rewardFile, [event |-> event, cut |-> cut])
    /\ scored' = scored + (IF cut = "whole" THEN 1 ELSE 0)

\* _load_all and _load_events: a line that holds one whole event and no more
\* is an event; any other line is skipped.
Readable(i) ==
    /\ rewardFile[i].cut # "partial"
    /\ i > 1 => rewardFile[i - 1].cut = "whole"
    /\ i < Len(rewardFile) => rewardFile[i].cut = "whole"
LoadEvents == {i \in DOMAIN rewardFile: Readable(i)}

----------------------------------------------------------------------------
(* Punishment memory.                                                      *)

\* Events of the same prompt; if there are none, those with a reason that
\* contains one of its words.
Related(p) ==
    LET exact == {i \in LoadEvents: rewardFile[i].event.prompt = p}
    IN  IF exact # {} THEN exact
        ELSE {i \in LoadEvents: rewardFile[i].event.reasons \cap KeywordsOf[p] # {}}

MostRecent(S) == {i \in S: Cardinality({j \in S: j >= i}) <= MemoryLimit}

ReasonsOf(p, verdict) ==
    UNION {rewardFile[i].event.reasons:
              i \in MostRecent({j \in Related(p): rewardFile[j].event.verdict = verdict})}

WarningReasons ==
    {"tests_failed", "security_failed", "payment_missing", "consensus_missing", "financial_loss",
     "policy_violation", "mainnet_without_approval", "loss_of_funds", "refund_requested",
     "slippage_too_high", "unauthorized_contract"}
SuggestionReasons ==
    {"tests_passed", "security_passed", "payment_verified", "consensus_verified",
     "artifact_downloaded"}

ExtractWarnings(p) == ReasonsOf(p, "punished") \cap WarningReasons
ExtractSuggestions(p) == ReasonsOf(p, "accepted") \cap SuggestionReasons

\* What the specialists are told besides their task.
SystemPromptAddon(p) == ExtractWarnings(p) \cup ExtractSuggestions(p)

----------------------------------------------------------------------------
(* The brain.                                                              *)

(***************************************************************************)
(* process, up to the verification: the memory is read, and the outputs of *)
(* the specialists come back, none for a role without a worker.            *)
(***************************************************************************)
Process(b, p) ==
    /\ brain[b].pc # "scoring"
    /\ \E n \in 0..MaxSpecialists: \E outputs \in [1..n -> {{}, {"security"}, {"syntax"}}]:
          brain' = [brain EXCEPT ![b] = [pc |-> "scoring", prompt |-> p, addon |-> SystemPromptAddon(p),
                                         outputs |-> outputs, next |-> 1]]
    /\ UNCHANGED <<rewardFile, scored>>

\* What process reports of an output: no payment, and consensus assumed.
Flags(code) ==
    [tests_passed |-> VerifyCode(code).passed, security_passed |-> VerifyCode(code).secure,
     payment_verified |-> FALSE, consensus_verified |-> TRUE, policy_violation |-> FALSE]

\* process scores the outputs in turn; a failed write ends it.
ScoreNext(b, cut) ==
    /\ brain[b].pc = "scoring" /\ brain[b].next \in DOMAIN brain[b].outputs
    /\ Len(rewardFile) < MaxWrites
    /\ Persist(RewardEvent(brain[b].prompt, Flags(brain[b].outputs[brain[b].next]), {}), cut)
    /\ brain' = [brain EXCEPT ![b] = IF cut = "whole" THEN [@ EXCEPT !.next = @ + 1] ELSE BrainIdle]

\* The outputs that passed, or the first one when none did.
ValidOutputs(outputs) ==
    LET passed == {i \in DOMAIN outputs: VerifyCode(outputs[i]).passed}
    IN  IF passed # {} THEN passed ELSE {i \in DOMAIN outputs: i = 1}

(***************************************************************************)
(* The synthesizer merges those that the judge scores high enough, or else *)
(* the best: some nonempty part, as far as the scores are concerned.       *)
(***************************************************************************)
Synthesize(outputs) ==
    LET valid == ValidOutputs(outputs)
    IN  IF valid = {} THEN {{}} ELSE SUBSET valid \ {{}}

FinishProcess(b) ==
    /\ brain[b].pc = "scoring" /\ brain[b].next = Len(brain[b].outputs) + 1
    /\ \E merged \in Synthesize(brain[b].outputs):
          brain' = [brain EXCEPT ![b] =
                       [pc |-> "done", merged |-> merged,
                        overall_passed |-> \A i \in DOMAIN brain[b].outputs: brain[b].outputs[i] = {}]]
    /\ UNCHANGED <<rewardFile, scored>>

\* A client verifies a submission and scores it.
ScoreSubmission(p, s, cut) ==
    /\ Len(rewardFile) < MaxWrites
    /\ Persist(RewardEvent(p, FullVerification(s), s.circumstances), cut)
    /\ UNCHANGED brain

Cuts == {"whole", "partial", "open"}

RivlNext ==
    \/ \E b \in Brains: \E p \in Prompts: Process(b, p)
    \/ \E b \in Brains: \E cut \in Cuts: ScoreNext(b, cut)
    \/ \E b \in Brains: FinishProcess(b)
    \/ \E p \in Prompts: \E s \in Submissions: \E cut \in Cuts: ScoreSubmission(p, s, cut)

RivlSpec == RivlInit /\ [][RivlNext]_rivlVars

----------------------------------------------------------------------------
RivlTypeOK ==
    /\ \A i \in DOMAIN rewardFile:
          /\ rewardFile[i].event.prompt \in Prompts
          /\ rewardFile[i].event.reasons \subseteq DOMAIN Weights
          /\ rewardFile[i].event.verdict \in {"accepted", "punished"}
          /\ rewardFile[i].cut \in Cuts
    /\ \A b \in Brains: brain[b].pc \in {"idle", "scoring", "done"}
    /\ scored \in 0..MaxWrites

(***************************************************************************)
(* A write that was cut short costs the memory at most one event whose     *)
(* score() had returned: the one that continued its line.  All the others  *)
(* are found by every later search, whichever brain or client wrote them.  *)
(***************************************************************************)
MemoryLossBounded ==
    scored - Cardinality({i \in LoadEvents: rewardFile[i].cut = "whole"})
        <= Cardinality({i \in DOMAIN rewardFile: rewardFile[i].cut # "whole"})
============================================================================
