# MEMBRA: a TLA+ verification project

MEMBRA turns AI work into *proofs of job*: a job is created, its artifacts are
hashed, validators vote, a verdict is recorded, yield and settlement follow.  The
repository holds several independent systems around that idea.  This directory
models the ones that carry the protocol's own logic, checks them with TLC on small
instances and proves every safety property of the passing runs with TLAPS for all
values of the constants (section 5).

## 1. Inventory

| Component | State | Operations | Hard behaviour | What makes it correct |
|---|---|---|---|---|
| **membra_core** (`programs/membra_core`), Solana program | accounts at derived addresses: config, job, manifest, validator, vote, consensus, yield, settlement | 11 instructions | transactions of creators, validators and the authority interleave; only a status byte and `init` guard the order | status and accounts agree; a verdict is final and right at the threshold; counters equal votes; at most one payment, after acceptance |
| **Job queue** (`scheduler/job_queue.py`) | tasks and results, one JSON file | submit, claim, result, verify | saves in place; a claim and a result are check-then-write | a task has at most one owner and one result |
| **Coordinator, worker nodes** (`coordinator/`, `worker/worker_node.py`) | queue, workers' current task, payment queue | register, submit and dispatch, claim and run, collect, pay | crash between claim and result, crash inside a save, exception in a task | no task runs twice; payments are backed; saved work survives; dispatch ends |
| **Brain server, worker client** (`brain_server/`, `worker/worker_client.py`) | queue, worker registry, job table | 7 HTTP handlers in threads, polling clients | unlocked queue under threads, stale snapshots, lost answers, expiring heartbeats, restart | results come from assigned workers, once unless they are sent again; registry is coherent; jobs complete |
| **Profit loop** (`profit_loop.py`, `marketplace/`, `payments/receipts.py`, `payments/settlement.py`) | job board, escrows, settlements; two files | post, deposit, claim, test, approve, settle, vote, release, refund, freeze | restart between calls, torn files, repeated and re-ordered calls, rounding, receipts that fail verification | funds leave escrow only under the stated conditions, and never more than was deposited |
| **membra_tokenomics** (the sale so far; `programs/membra_tokenomics`) | token sale, provenance, collateral, seigniorage, gas, compute, microtask accounts | about 50 instructions | caps, nullifiers, time windows, overflow | caps hold, proofs are used once, reserves cover claims |
| **membra-l3** (Python) | intents, identity links and scores, fee credits, reserves, proof book, proposals, price window and report | create, claim, cancel, relay, issue, reimburse, withdraw, link, revoke, propose, vote, finalize, feed, assess | one of several steps fails; lazy expiry; a batch with a stale list; a window pruned on one clock and judged on another; threads on the proof book | a reimbursed credit has been paid, once; coverage is kept; decisions are those of the recorded votes; rebases are unlocked by real moves; the chain verifies |
| **Stripe checkout, webhook server, artifact builder** (`payments/stripe_checkout.py`, `payments/webhook_server.py`, `builder/`) | payments file, one in-memory copy for each process, builds, ledger | create a session, webhook, build, report, split | duplicate and concurrent deliveries, requests that nobody signed, whole-file rewrites from stale copies, truncated files, restarts | where events are signed, revenue is what Stripe was paid; a completed checkout is answered; what is paid is delivered |
| **Proof-of-Yield node** (`core/node.py`, `core/ledger.py`, `consensus/poy.py`) | bounded deque of operations, rounds of votes | sweep, drain, vote, external vote, time-out | late, repeated and missing votes with independent hashes; a full deque | two thirds of the votes agree on each hash at finality; no operation in two batches |
| **Personal chain**, **consent manager** (`personal_chain/`, `consent/`) | one file for each event, policy file, consent file with history | log, attest, anchor, grant, revoke, load | death in a write, torn files skipped by the next load | links verify; readable events are never replaced; what is allowed is what the history says |
| **Job pipeline** and demo (`job/`, `app.py`) | session states of six tabs | compile, copy, score, judge, export | two listeners on one button; handlers that interleave | a bundle never mixes in parts of a later job |
| **Chat-to-chain API** (`apps/api`) | artifacts, sessions, audit ledger, payloads handed out | create, approve, hash, issue, prepare | rehashing under issued payloads, restart | the ledger tells the present state; old payloads stay traceable |
| **RIVL** (`rivl/`) | JSONL file of reward events, one call of each brain | verify, score, search, process | writes cut short, shared by processes | the memory loses at most what a cut write damages |
| **Shared memory** (`memory/`) | artifact files and manifest, reputations | store, verify, update | unlocked read-modify-write | a store that ran alone verifies; reputations are means |
| membra-l3-cpp | vaults, stakes, futures, mempool | C++ classes with mutexes | limits, slashing, epochs | conservation of rewards and stakes |
| QR gateway program | QR job accounts | 4 instructions | ordering of claims | one claim for each job |
| Applications, adapters, KYI, LLM runtime, templates | none that others read | | | not modelled |

How they interact: the coordinator and the brain server each own a `JobQueue`; the
brain server's clients reach it only over HTTP.  The profit loop calls the job board,
the escrow manager, the verifier and the tracker in one thread.  membra_core is
reached by signed transactions only; nothing in the SDK shares memory with it.  The
seller's script and the webhook server meet in the payments file, CLI commands in the
files of the personal chain, brains and library clients in the file of reward events,
agents in the artifact store.
`PROJECT.json` lists every component with its status and, under `hazards`, what is
hard to test in each, with the property that watches it.

## 2. Modules

| Module | Models | Notes |
|---|---|---|
| `JobLifecycle` | (abstract) what a job's history may be | `Decide`, `Pay`, `Close` |
| `MembraCore` | `programs/membra_core/src/lib.rs` | an action for each instruction, an operator `XxxCtx` for each Anchor context; implements `JobLifecycle` |
| `Selection` | (general) the indices a filtering loop visits, in order | `Selected`; the form of `SelectSeq` that can be reasoned about |
| `DataTheorems` | lemmas on least naturals, sums over finite sets and `Selected` | used by every module of proofs but the first |
| `MembraCoreProofs`, `TokenSaleProofs`, `ServicesProofs`, `ProfitLoopProofs`, `BrainServerProofs`, `SdkProofs`, `L3Proofs` | theorems | section 5 |
| `JobQueue` | `scheduler/job_queue.py` | operators on a queue value, used by the next two modules |
| `Coordinator` | `coordinator.py`, `worker_node.py`, the queue's file | |
| `BrainServer` | `brain_server/server.py`, `worker_client.py` | |
| `ProfitLoop` | `profit_loop.py`, `marketplace/*`, `payments/receipts.py`, `payments/settlement.py` | |
| `FeeLedger` | (abstract) what the gas vault promises | how a credit ends: paid in full, lapsed, or handed in for nothing |
| `GasVault` | `membra_l3/gas_vault.py` | operators on a vault value |
| `L3Relay` | `intent_network.py`, `identity.py`, `relayer.py` with `GasVault` | implements `FeeLedger` |
| `Governance` | `membra_l3/governance.py` | |
| `TokenSale` | the sale of `programs/membra_tokenomics/src/lib.rs` | one sale; provenance, collateral and seigniorage are not in it |
| `ProofBook` | `append` and `verify_chain` of `proof_book.py` under threads | |
| `VolatilityOracle` | `membra_l3/volatility_oracle.py` | |
| `InternalLedger` | `core/ledger.py` | operators on a deque, used by the next two modules |
| `StripePayments` | `payments/stripe_checkout.py`, `payments/webhook_server.py`, `builder/artifact_builder.py` | with fairness |
| `PoYNode` | `core/node.py`, `consensus/poy.py` | |
| `PersonalChain` | `personal_chain/chain.py` | |
| `ConsentManager` | `consent/policy.py` | |
| `ArtifactApi` | `apps/api/src/server.py` | |
| `JobPipeline` | `membra_sdk/job/`, `app.py` | |
| `Rivl` | `membra_sdk/rivl/`, `brain/synthesizer.py` | |
| `SharedMemory` | `memory/shared_memory.py` | |
| `MCPrograms`, `MCServices`, `MCSdk`, `MCL3` | unions of components for TLC | a behaviour runs one component, section 3 |
| other `MC...` | constants for TLC | |

Definitions named *Mutant* in their comments are altered versions of the definition
below them; they are used only to confirm that a property fails when the code is
wrong in that way.

### MembraCore
An instruction commits as a whole or changes nothing, so a handler is one action.
Addresses derived from seeds become indices (`status[j]` with `j = <<creator, id>>`,
`vote[j][v]`); `init` is the test that nothing is there yet.  Callers choose every
argument, including the tallies of `finalize_consensus`.  Timestamps, bumps, scores
and hashes no instruction reads are left out.

### JobQueue, Coordinator
A task's id is its position in the dictionary.  The coordinator is one thread; its
dispatch loop is cut wherever the queue is saved, since the process may die there
(`Crash`) or inside the save (`CrashInPersist`, after which `_load` finds nothing).
`ExecuteRaises` is the exception of a `file_analysis` task.

### BrainServer
Each request is a thread.  Sections under `worker_lock` or `job_lock` are atomic; the
queue has no lock, so finding a pending task and assigning it are two steps
(`NextTaskFind`/`NextTaskClaim`, `DispatchFind`/`DispatchClaim`), as are testing and
storing a result.  A worker asks for one task at a time.  `job_queue.submit_result` looks at the
assigned worker and not at the status, so a client that hears no answer to its result and sends
it again (`AfterResult`) has it taken a second time; `resent` remembers which results that may
happen to.  `MaxFaults` bounds lost answers, restarts and stopped workers together.
`WorkerClient`s read a key that the answer lacks, so they never work on a task;
`Workers \ Clients` are other HTTP clients (outside the repository) that read the answer
as sent.  `Subtasks` is what the router returns for a prompt.

### ProfitLoop
Each call of the loop is one step.  A job's status carries whether it is a `JobStatus`
or the plain string `_load` leaves (`plain`); all operations compare with the enum, so
loaded jobs are refused, and `_persist` raises as soon as one is on the board.  The
job file is appended to and may end in a torn line; the escrow file is rewritten and
may be lost.  Rounding to cents is a choice between the nearest cents, because at a
tie Python's binary fraction decides.  `deposited`, `refunded` and `releases` are
history.  A settlement is confirmed and the job is paid whatever `verify` says of the receipt; the
field `receipt` keeps what it said.  Votes carry no identity that the board compares, so all
of them may be one validator's.  The verifier's table of verified receipts and log are never read and are
left out.

### GasVault, L3Relay
The L3 is one process whose calls do not interleave.  What does change under a caller
is the clock: `relay_all_profitable` takes its list of intents once (`batch`), and the
clock may move before each intent's turn; while the batch runs no other call is
served.  Credits expire only when a call looks at the vault, so each operator starts
from `ExpireStaleCredits` exactly where the method does, and `reimburse_relayer` does
not: it can spend a credit that is past its time.  A refused call that still expired
credits is `LookAtVault`.  `consume_credits` is public and pays nobody when it is called by itself
(`Consume`); the model calls the credits it took "consumed" and those of a reimbursement "used",
where the code writes USED for both and compares with ACTIVE only.  Amounts are in units of 5000 lamports (gas 1 or 3, minimum
profit 1); the float comparison with 1.5 is exact for such integers and is written as
`2 * sol >= 3 * outstanding`.  Scores are hundredths and dollar amounts cents.  A
receiver that settles without the relayer is `ClaimIntent` and `ConfirmSettlement`.

### Governance, ProofBook
Votes are a list, as in the code, so that voting twice is expressible.  `vote` does not
read `voting_ends_at`: votes are taken until somebody finalizes.  The proof book
is its length: `propose` finds an entry only among the latest `ProposalWindow`.
`ProofBook` cuts `append` at the reads and writes between which threads may switch.

### TokenSale
One sale account; other sales share nothing with it but wallets.  `Contribute` takes
its prices and caps from the sale as stored and writes the contribution, the receipt and
the balances; what it assigns to the sale goes through `WrittenBack`, which keeps
nothing, because the context lacks `mut`.  `claim_rebate` is modelled in full, but
`ClaimRebateCtx` can never hold: `contribute` does not store the receipt's bump, so the
field stays 0 while the address was derived with the bump `init` found.  The action
is therefore part of `SaleNextWithClaims` only, which the hard cap run uses.  Rent is
left out, and the four wallets are taken to be distinct.

### VolatilityOracle
Of gas and liquidity only the tests of `assess` matter; neither is checked for age, and
the newest of each is never pruned.  Price changes are thousandths, rounded down, which
is exact for the threshold of 2%.  `fed` keeps every price ever fed, so that what the
pruned list gives can be compared with what happened.

### InternalLedger, StripePayments
Each `MembraStripeCheckout` has its own copy of the payments, loaded when the object is
made and written back whole.  A save is two steps, truncation and dump, with anything in
between; a seller that stops there leaves the file torn.  The handler's steps are cut
at those points and before the build.  `env` says which keys are configured; without the
webhook secret the event of Stripe's is parsed as raw JSON, in which no payment status is found where
the handler looks, while a request of anyone's that has one there passes for an event
(`UnsignedRequest`, at most `MaxUnsigned` sessions, remembered in `posted`).  `Passes` is what
running a generated artifact gives, and is false for the type the webhook asks for, whose
template uses `json` without importing it.  Stripe delivers until it is answered and may
deliver once more.

### PoYNode
The coroutines switch only at their awaits, so a sweep is one step, and a drain with the
node's own vote another.  An operation is its number; a batch large enough gets the next
state root.  The node's own vote hashes an answer and the yield read in it; votes of others
are any inference with any yield, from anyone, any number of times, since
`add_external_vote` looks at none of them.

### PersonalChain, ConsentManager
A process opens the chain, logs, and ends, or dies in a write; the file is then torn and
every later load skips it.  Processes come one after the other: `chain.py` takes no lock, and two that
have the chain open at once (the CLI opens it for each command) are not modelled.  The hash of an event stands for the event and its previous hash.
The consent file holds level, types and history together, so a torn file loses all three.

### ArtifactApi, JobPipeline
A handler of the API has no await and is one step.  A proof hash is the list of privacy
statuses over which it was chained.  The demo's handlers start and return in separate
steps; a click carries the values on screen, a `gr.State` is read at the start and written
at the return.  The second listener of the compile button copies what the screen showed at the click,
so `job_state` is the job before the one being compiled.  Yield scores are tenths.

### Rivl, SharedMemory
The event file is the sequence of the writes made to it, each whole or cut short; a line
is readable if it holds exactly one whole event.  A prompt is a name and the reasons its
words occur in.  `store` is four steps: write, read the manifest, truncate, dump; an agent may
die after each.  A running average is an exact fraction.

## 3. Runs

| Run | Expect | Shows |
|---|---|---|
| `programs` | pass | membra_core: `LifecycleLedger`, `VoteStatsExact`, `AcceptedAtThreshold`, `DecisionFrozen` and the refinement `ImplementsLifecycle`; token sale: `RaisedIsHeld`, `ReceiptsMatchContributions`, `ClosedStaysClosed` |
| `membra_core_two_thirds` | violation | two of three votes are documented to accept a job; 6666 < 6667 rejects it |
| `token_sale_hard_cap` | violation | two contributions that each fit under the hard cap exceed it together |
| `services` | pass | coordinator: `TasksAccounted`, `PaymentsBacked`, `WorkSurvives`, and `DispatchReturns` under fairness; Stripe, with and without the webhook secret: `RevenueIsPaid`, and `CompletedIsAnswered` under fairness |
| `stripe_delivery` | violation | a paid build gets no report although everything is fair |
| `sdk` | pass | brain server: `ResultsEarned`, `RegistryCoherent`; chain: `IntactUnlessHole`, `EventsNeverReplaced`; consent: `ConsentFollowsHistory`; node: `FinalityJustified`, `BatchesInOrder`; API: `RecordsTraceable`; pipeline: `NeverFromNewerJob`; RIVL: `MemoryLossBounded`; shared memory: `MemoryCoherent` |
| `poy_agreement` | violation | votes a/1, a/2, b/2 (or the like) finalize a batch on which two thirds do not agree |
| `brain_job_finalized` | violation | the documented LAN test outcome "job finalized" is not reached |
| `profit_loop` | pass | `ReleaseConditions`, `MoneyConserved`, `ConsensusLatched`, `FrozenAfterLoad` |
| `profit_loop_split` | violation | five separately rounded shares exceed the escrow |
| `l3` | pass | relay: `CoverageKept`, `RelayerMadeWhole`, `SettledWithinLimit`, `StatusForward`, the refinement `ImplementsFeeLedger`; governance: `DecidedByVotes`, `DecisionKept`; oracle: `UnlockedByMarket` |
| `l3_proof_book_threads` | violation | two concurrent appends break the hash chain documented as thread-safe |

**Unions.**  `programs`, `services`, `sdk` and `l3` each hold components that share no
state.  The initial state chooses one, and only that one steps, so the states
are the sum of the components' states, and each property is about its own component
alone.  Deadlock stays checked for membra_core, the coordinator, the
profit loop and, in `brain_job_finalized`, the brain server, which can always go on; the other parts
end at their bounds and then rest.

**Bounds.**  membra_core: two keys that play every role give two jobs (one for each
creator), self-votes and two validators; the four tallies are the empty one, two
thirds, the exact threshold and a saturating one; `StatMax = 1` lets the counters
saturate.  Larger instances are the theorems' business.  Coordinator: three tasks
over two jobs let a dispatch meet a stranded task and both workers share a job; one
crash, two queued payments.  Brain server: one plan of two coder subtasks makes the
dispatch, a `WorkerClient` and another client compete for the same task; one fault: a
restart, a worker that stops and may register again while its request is served, or an
answer to a result that is lost, so that the result is sent again; the theorem is for
any number of them.
`profit_loop`: two jobs share the board and the file (symmetric), two deposits allow a
re-deposit, four votes reach both a late consensus and none, one restart; six cents
is the smallest amount whose shares certainly add up to too much.  `l3`: two symmetric users, two
intents and two credits let intents compete for credits and users for the reserves; a
work score of 4 and a cap of 5 give a credit of 4 and one cut to 1; reserves of 12 cover
exactly both users' credits (1.5 times 8), and withdrawals of 6 are refused or not
according to what is outstanding, 4 outstanding being exactly covered by what one leaves; one tick passes every expiry.  USDC intents of a dollar need a full
credit of 4 (gas 3, profit 1) and exceed the risk limit after a revocation.  Powers 1, 2 and 3
(tenths) miss the quorum of 2 and meet the threshold of 0.6 exactly (3 against 2).
Token sale: two buyers with two indices each give repeated contributions and a second
buyer; the amounts 19 and 43 leave remainders in the split, 4 is below the minimum;
two of the four parameter sets are refused; the clock runs past the end of the sale.
Oracle: six instants against a window of two prune the first price, and prices 100 and
102 move by 2% upwards and by less downwards; 0 is the price that is not divided by.
Stripe: two sessions and two handlers give two rewrites of one file at once; one
duplicate, one stop, and one session that an unsigned request names.  Chain: three files and four events let a torn last file be
written over.  Node: a deque of three, batches of two, sweeps of two and of three (which leave
too small a batch, and together drop operations), four votes over two roots, with three
inferences that the node reads the same yield in, so that three votes need not agree, and
votes of others with either of two yields; `poy_agreement` has three votes on one root.
API: two artifacts, three ledger entries, one restart.  Pipeline: a full pass and a
failing run.  RIVL: three writes, any of them cut, by a brain and by
clients, about one prompt; the theorem covers any number of prompts.
Shared memory: two agents and two file names.

**Fairness.**  `DispatchReturns` assumes weak fairness of the steps of a call that has
started: Python runs on unless the process dies.  `JobFinalized` assumes weak fairness
of request threads and of each running worker's poll loop (`while self.running`), and
is conditional on workers staying up and on no fault (`MaxFaults = 0` in its run).  `CompletedIsAnswered` and
`PaidIsDelivered` assume that a handler thread that has begun runs on and that Stripe,
which retries until it is answered, delivers an unanswered event again; they do not
assume that sellers go on, that buyers pay or that the server stays up.
Nothing else assumes fairness: users may stop calling at any time.  In a union the fair
actions of the part that does not run are never enabled.

## 4. Findings

1. *Two thirds.*  The threshold constant 6667 with truncating division rejects 2 of 3.
2. *Jobs never complete.*  `_check_job_completion` searches the job table by the queue's
   job id instead of the plan id; tasks are never marked verified; the client reads the
   wrong key.
3. *Shares exceed the escrow.*  $0.06, and every amount with the same remainder modulo
   20 cents, is distributed with a cent too much.
4. *The proof book is not thread-safe.*  `append` takes no lock; two threads seal with
   the same previous hash and `verify_chain` fails from then on.
5. *The hard cap is compared with a total that stays 0.*  `Contribute` lacks `mut` on
   the sale, so the running totals are dropped; the early reward cap and the bonding
   curve are affected in the same way.
6. *A paid build is not delivered.*  The script that the webhook has generated calls
   `json.dumps` without importing `json`; its test run fails, so the handler writes no
   report and splits no revenue, and answers Stripe with success.
7. *Two thirds on each hash are not two thirds on both.*  A proof-of-yield round counts the two
   hashes apart, over votes rather than validators; three votes that pairwise differ can be final.

Also visible in the passing models, as facts the properties are careful about: a job
loaded after a restart is frozen (`FrozenAfterLoad`); a task assigned when its worker
dies is never offered again; `collect_results` called twice queues its payments twice;
three votes of one validator finalize a bounty job; `settle_payment`
verifies a receipt and then marks the job paid whatever the result, so that a job whose receipt failed
is released (`docs/PROFIT_LOOP.md:103-108` and `receipts.py:6-11` ask for a verified one); RIVL's
verdict is the sign of a sum in which failed tests (-25) weigh less than payment, consensus and a clean
scan (+50), against `docs/RIVL.md:6`; without the webhook secret any request
that parses confirms, builds and splits (`verify_webhook` calls it "less secure"); a result sent twice
is recorded twice; votes after `voting_ends_at` count, and power moved from one voter to another
between their votes counts for both; `consume_credits` by itself ends credits and pays nobody, and it
and `reimburse_relayer` take a credit that has lapsed when no call has looked at it since;
`start_voting` never reads the end of the review window; a quorum of abstentions makes `finalize` raise; an
intent whose claimer stops stays `settling`; a second delivery of a Stripe event builds
and splits again; a process that dies while it attests an event in the middle of the chain breaks the chain for good,
and one that dies while it attests the last event leaves its number to the next event;
a torn consent file returns the user to the defaults; the demo's later tabs work on the
job before the one on screen, because the listener that fills `job_state` (`app.py:256`) is sent
what the screen showed at the click; overlapping stores of a job lose each other's manifest
entries; a report that unlocked a rebase stays in force until the next `assess`, however
old its prices get; the counts given to `finalize_consensus` are the caller's; and their
sum saturates.  On the other hand the two refusals of
`reimburse_relayer` that would burn credits cannot happen: the coverage that issuing
and withdrawing preserve is at least what a reimbursement needs.

## 5. Proofs

Each theorem holds for every value of the constants that the named assumption of its
module allows; the assumptions only say that bounds and amounts are naturals, that
distinguished values are distinct, and what the code itself guarantees of its inputs.
TLC evaluates them in every run.

**Method.**  A property is strengthened to an inductive invariant, `XxxInv`, and each
`XxxInvariant` theorem has a step for each action.  Where an action rebuilds several
records the invariant is a predicate of values (`QueueOK(q)`, `VaultOK(v)`, `TrailOK(log,
db)`), so that a lemma about an operator says what it makes of such a value and
the action's step only cites it.  The prover cannot use induction schemes over
data; `DataTheorems` replaces them by first-order facts.  `LeastNatural` gives a least
element of a set of naturals and `InductiveSet` the induction on a set.  From these follow
the laws of `SumFunctionOnSet` (`SumAdd`, `SumRemove`, `SumAgree`, `SumDisjoint`,
`SumSubset`), and that `Selected` lists exactly the indices that pass a test, once and
in increasing order.  The models are therefore written with `Selected` where the code
filters a list, and with sums and sets of indices instead of recursion over sequences.

### membra_core (`MembraCoreProofs`, from `ConstantsAssumption`)

| Theorem | Statement | Argument |
|---|---|---|
| `TypeCorrect` | `Spec => []TypeOK` | inductive as it stands; the saturating operators get lemmas of their own |
| `LedgerCorrect` | `Spec => []LifecycleLedger` | inductive together with `TypeOK`: for each job the status determines the accounts, and each action moves one job from one row of that table to the next |
| `FrozenCorrect` | `Spec => DecisionFrozen` | a step property from `LifecycleLedger`: voting and submitting need a status that a decided job no longer has |
| `ThresholdCorrect` | `Spec => []AcceptedAtThreshold` | strengthened to: the configured threshold is 6667 once it exists, and each recorded result is `Verdict` of the recorded counts; then a lemma on integer division |
| `StatsCorrect` | `Spec => []VoteStatsExact` | strengthened by: a key without a validator account has no votes; each vote adds one element to a finite set |
| `RefinesLifecycle` | `Spec => ImplementsLifecycle` | initial states map to initial states; each action maps to `Decide`, `Pay`, `Close` or a stutter, using `LifecycleLedger` for the preconditions |

### Token sale (`TokenSaleProofs`, from `SaleAssumption`)

`SaleAssumption` includes that the four wallets buy nothing themselves.  `SaleInv` is the
types, *a contribution implies a receipt*, and the two sums.

| Theorem | Argument |
|---|---|
| `SaleTypes`, `WalletsHoldTheRaise`, `ReceiptsAddUp` | a contribution adds one element to the domains of the sums; the fourth wallet gets the remainder, so the rounding of the other three does not matter |
| `RebatesUnclaimable` | the stored bump of a receipt is 0 in every state, so `ClaimRebateCtx` never holds: the rebate instruction is dead |
| `ClosedForGood` | a step property: of a closed sale only the clock and `MigrateLiquidity` move on |

### Coordinator and Stripe (`ServicesProofs`, from `CoordinatorAssumption`, `StripeAssumption`)

| Theorem | Argument |
|---|---|
| `CoordinatorAccounts` (`TasksAccounted`), `CoordinatorPays` (`PaymentsBacked`) | `CoordinatorInv`: `QueueOK` of the queue (status, owner and result of each task agree, one result for a task), the file is the queue, the running worker owns an unfinished task, and each payment is backed by a verified task of a finished job |
| `CoordinatorKeepsWork` (`WorkSurvives`) | a step property: the operators of `JobQueue` only extend the results and only raise a status, and a restart loads what was last in memory, since every change is saved |
| `RevenueVerified` (`RevenueIsPaid`) | `CopiesPaid`: no copy of the file, in whichever process, names a payment that was neither made nor, without the secret, said to be made by a request; and a thread past the verification works on a session that is paid for in that sense |
| `ServicesTypes` | the same for the composition that the run checks |

### Brain server (`BrainServerProofs`, from `BrainAssumption`)

`BrainResultsEarned` and `BrainRegistryCoherent` follow from `BrainInv`, a predicate of
the queue, the claims made, the registry, and of what each thread and client holds:
a task that was ever assigned is never pending again, a result comes from an assignment
and there is one for each worker and task that was not sent again; a worker at work has claimed its task
and has no result for it, unless it did not hear that it was taken; a task that a polling thread found, though others may have claimed it since, has
none of that worker's either.

### Profit loop (`ProfitLoopProofs`, from `LoopAssumption`)

`LoopInv` adds to the two properties the types, what a job in each status has on record,
in memory and in the file (`JobsOK`), and that a loaded job is the file's (`LoadedAsFiled`).

| Theorem | Argument |
|---|---|
| `ReleasesAreEarned` | a release is recorded with the job's state at that moment, and `JobsOK` says what that state has behind it |
| `EscrowConserves` | the deposits made are never less than released, refunded and held together; overwriting or losing an escrow only lowers the right side |
| `ConsensusIsLast` | counting votes: one vote more moves the two tallies by at most one, and a final job takes none |
| `LoadFreezes` | a step property: `_persist` raises while a loaded job is on the board |

### Other SDK parts (`SdkProofs`, each from the assumption of its module)

| Theorem | Inductive invariant and argument |
|---|---|
| `ConsentObeyed` (`ConsentFollowsHistory`) | `ConsentInv`: the manager and its file each follow their own history; the last entry about a type decides it |
| `PipeNeverFromNewerJob` (`NeverFromNewerJob`) | `PipeInv`: the three session states are ordered in age, and so is what each listener read when it started |
| `NodeFinalityJustified` (`FinalityJustified`), `NodeBatchesInOrder` | `NodeInv`: a round is final at the first vote that gives two thirds on each hash; two sets of two thirds share a third, and the votes with one answer are among those with its yield when the answer determines it; pending operations are increasing and above all that were drained, whatever the deque dropped |
| `RivlMemoryLossBounded` (`MemoryLossBounded`) | `LossOK`: events returned but unreadable are at most the cut writes, an unfinished last line being counted before it costs an event |
| `MemoryStaysCoherent` (`MemoryCoherent`) | `StoreInv` for files and manifest under overlapping stores; `RowOK`: a running mean times its count is the sum of the scores |
| `ApiRecordsTraceable` (`RecordsTraceable`) | `ApiInv`: the last log entry of each artifact has its status (`TrailOK`); a payload's proof is a prefix of the artifact's present chain (`PayloadsOK`) |
| `ChainKeepsEvents` (`EventsNeverReplaced`), `ChainIntactUnlessHole` (`IntactUnlessHole`) | `ChainInv`: files that were ever written are the first ones, neighbours are linked, and across a hole the link misses because identities increase (`FilesInOrder`); an open chain mirrors the readable files (`MirrorOK`) |
| `SdkTypes` | the eight parts' types, from their invariants |
| `SdkRunsParts` | `SdkSpec` implies the specification of each part |

### MEMBRA L3 (`L3Proofs`, from `VaultAssumption`, `RelayAssumption`, `GovernanceAssumption`, `OracleAssumption`)

| Theorem | Argument |
|---|---|
| `CoverageHolds` (`CoverageKept`) | `VaultOK` is kept by each operator of the vault: paying a set of credits lowers the reserves by as much as what is outstanding, and 1.5 times the rest stays covered |
| `RelayerIsMadeWhole` (`RelayerMadeWhole`) | `Settled`: the credits spent on different intents are disjoint, all of them used, and the books are their sums |
| `LimitIsFresh` (`SettledWithinLimit`) | `Fresh`: a cached score is what the links give; `ActiveInTime`: once the vault has been looked at, an active credit is not past its time |
| `IntentsMoveForward` (`StatusForward`) | a step property; the relayer's list may be stale, but each turn looks at the intent again |
| `VaultIsFeeLedger` (`ImplementsFeeLedger`) | each operator of the vault is a `Moves(v, w)`: a deposit, the closing of credits by payment, lapse or a bare `consume_credits`, or an issue after a lapse; each maps to a step of `FeeLedger` or a stutter |
| `VotesDecide` (`DecidedByVotes`), `DecisionsAreKept` (`DecisionKept`) | `ProposalOK`: one recorded vote for each voter, so the tallies are the sums the property names |
| `OracleUnlockedByMarket` (`UnlockedByMarket`) | `Tracks`: an order-preserving map from the pruned list into all prices fed, onto those inside the window; hence the report is that of the unpruned history |
| `RelayTypeCorrect`, `GovernanceTypes` | from the inductive invariants |
| `L3RunsParts` | the composed specification implies that of each part |

**Only model-checked.**  `DispatchReturns` and `CompletedIsAnswered`, because the prover
handles neither fairness nor ENABLED, and the counterexamples of the violation runs.
Every other property of a passing run is proved.  `OracleTypeOK` and `ProfitLoop!TypeOK`
are stated in their modules and are neither in a run nor proved as they stand.

## 6. Not modelled

Text, prompts, model outputs, network formats, timestamps (other than expiries) and
costs.  User interfaces, most of the CLI, LLM and DeFi adapters, the token gate, the LLM
runtime and generated code have no protocol state.  The KYI notary keeps flags nobody reads;
the token router is never reached.  Two processes that have one personal chain
open at once.  The identity of validators on the job board.  A save of the brain server's queue is one
step: two threads that write the file at once are not modelled.  `_finalize_job` would
deadlock on `job_lock`, but no job completes (finding 2), so it is not reached.

## 7. Plan

Next, in this order:

1. Proofs: the type invariants `OracleTypeOK` and `ProfitLoop!TypeOK` as stated (the
   inductive invariants hold most of their conjuncts); that the chain of the proof book
   verifies when appends do not overlap; that the shares of a split exceed the escrow by
   at most the cents that rounding adds.
2. membra_tokenomics: collateral locks and `Seigniorage` (proofs, nullifiers, mint
   caps), `GasReimbursement` and `MicrotaskBacking` (task and claim life cycles); the
   rebate claim that the program's test expects to succeed.
3. membra-l3-cpp: `RewardVault`, `ComputeStaking`, `ReceiverPaidGas`; the QR gateway.
