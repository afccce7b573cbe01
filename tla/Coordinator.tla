---------------------------- MODULE Coordinator ----------------------------
(***************************************************************************)
(* membra_sdk.coordinator.Coordinator with the WorkerNodes that share its  *)
(* queue and the JSON file the queue is saved to.                          *)
(*                                                                         *)
(* One Python thread runs everything: a call of submit_job creates the     *)
(* tasks and then loops over the pending ones, handing each to the first   *)
(* idle worker, whose claim_and_run claims a task of that type, executes   *)
(* it and submits the result before it returns.  The loop is split where   *)
(* the process can die: after each save of the queue.  Saves are taken to  *)
(* succeed unless the process dies in one; then the file is cut short and  *)
(* the next start finds no queue in it.                                    *)
(***************************************************************************)
EXTENDS JobQueue, FiniteSets

CONSTANTS
  Jobs, Types, Workers, Proofs,
  MaxTasks,      \* bound on the tasks ever created
  MaxPayments,   \* bound on the length of the payment queue
  MaxCrashes     \* bound on the crashes

\* The bounds are bounds, and None is not the id of a worker.
ASSUME CoordinatorAssumption ==
  /\ MaxTasks \in Nat /\ MaxPayments \in Nat /\ MaxCrashes \in Nat
  /\ NoWorker \notin Workers

VARIABLES
  queue,      \* the JobQueue in memory
  disk,       \* the queue as last saved
  workers,    \* the registered workers, in order of registration
  current,    \* current[w]: current_task of the worker object, 0 for None
  pc,         \* "idle", "dispatch" (in the loop) or "running" (in a worker)
  todo,       \* the pending tasks the dispatch loop has still to visit
  runner,     \* the worker whose claim_and_run is executing
  payments,   \* payment_queue
  crashes     \* crashes so far

vars == <<queue, disk, workers, current, pc, todo, runner, payments, crashes>>

Payment == [task : 1 .. MaxTasks, job : Jobs, worker : Workers \cup {NoWorker}]

Init ==
  /\ queue = EmptyQueue
  /\ disk = EmptyQueue
  /\ workers = <<>>
  /\ current = [w \in Workers |-> 0]
  /\ pc = "idle"
  /\ todo = <<>>
  /\ runner = NoWorker
  /\ payments = <<>>
  /\ crashes = 0

\* Mutant: job_results is left out of what _persist writes.
SaveTasksOnly(q) == queue' = q /\ disk' = [q EXCEPT !.results = <<>>]

\* A queue operation followed by its _persist.
Save(q) == queue' = q /\ disk' = q

-----------------------------------------------------------------------------
(* Calls into the coordinator *)

\* A new WorkerNode object; an object with the same id is replaced.
RegisterWorker(w) ==
  /\ pc = "idle"
  /\ workers' = IF w \in Range(workers) THEN workers ELSE Append(workers, w)
  /\ current' = [current EXCEPT ![w] = 0]
  /\ UNCHANGED <<queue, disk, pc, todo, runner, payments, crashes>>

\* The job id is a fresh uuid.
SubmitNewJob(job, type, n) ==
  /\ pc = "idle"
  /\ TasksOf(queue, job) = {}
  /\ Len(queue.tasks) + n <= MaxTasks
  /\ LET q == SubmitJob(queue, job, type, n) IN
       /\ Save(q)
       /\ todo' = ListPending(q)
  /\ pc' = "dispatch"
  /\ UNCHANGED <<workers, current, runner, payments, crashes>>

\* The places of the idle workers in the dictionary, in its order.
IdleWorkers == Selected([i \in DOMAIN workers |-> current[workers[i]] = 0])

\* Mutant: the loop retries the task instead of going on to the next.
DispatchSpin ==
  /\ pc = "dispatch" /\ todo # <<>>
  /\ IdleWorkers = <<>> \/ Claimable(queue, queue.tasks[Head(todo)].type) = <<>>
  /\ UNCHANGED vars

\* One iteration of the dispatch loop that finds no idle worker, or whose
\* worker finds nothing left to claim for this task's type.
DispatchSkip ==
  /\ pc = "dispatch" /\ todo # <<>>
  /\ IdleWorkers = <<>> \/ Claimable(queue, queue.tasks[Head(todo)].type) = <<>>
  /\ todo' = Tail(todo)
  /\ UNCHANGED <<queue, disk, workers, current, pc, runner, payments, crashes>>

\* claim_and_run(w) up to the execution: the first claimable task is assigned
\* and saved.
Claim(w, capability) ==
  LET t == Head(Claimable(queue, capability)) IN
  /\ Claimable(queue, capability) # <<>>
  /\ Save(Assign(queue, t, w))
  /\ current' = [current EXCEPT ![w] = t]
  /\ runner' = w
  /\ pc' = "running"

\* One iteration of the dispatch loop: the first idle worker claims.
DispatchClaim ==
  /\ pc = "dispatch" /\ todo # <<>> /\ IdleWorkers # <<>>
  /\ Claim(workers[Head(IdleWorkers)], queue.tasks[Head(todo)].type)
  /\ todo' = Tail(todo)
  /\ UNCHANGED <<workers, payments, crashes>>

DispatchReturn ==
  /\ pc = "dispatch" /\ todo = <<>>
  /\ pc' = "idle"
  /\ UNCHANGED <<queue, disk, workers, current, todo, runner, payments, crashes>>

\* The owner of a worker calls claim_and_run itself.
WorkerClaim(w, capability) ==
  /\ pc = "idle" /\ w \in Range(workers)
  /\ Claim(w, capability)
  /\ UNCHANGED <<workers, todo, payments, crashes>>

BackToCaller == IF todo = <<>> THEN "idle" ELSE "dispatch"

\* The rest of claim_and_run: the result is submitted and saved.  A refusal
\* (submit_result returning False) cannot happen, see RunnerOwnsTask.
Finish(proof) ==
  LET t == current[runner] IN
  /\ pc = "running"
  /\ Accepts(queue, t, runner)
  /\ Save(SubmitResult(queue, t, runner, proof))
  /\ current' = [current EXCEPT ![runner] = 0]
  /\ runner' = NoWorker
  /\ pc' = BackToCaller
  /\ UNCHANGED <<workers, todo, payments, crashes>>

\* _execute_task raises (a file_analysis item that is no path): the exception
\* leaves claim_and_run and the dispatch loop, and current_task stays set.
ExecuteRaises ==
  /\ pc = "running"
  /\ queue.tasks[current[runner]].type = "file_analysis"
  /\ pc' = "idle" /\ runner' = NoWorker /\ todo' = <<>>
  /\ UNCHANGED <<queue, disk, workers, current, payments, crashes>>

\* The results of a job whose recorded hash is the task's get verified.
VerifyResults(q, job) ==
  LET Confirmed(t) == \E i \in DOMAIN q.results : /\ q.results[i].task = t /\ q.results[i].job = job
                                                  /\ q.results[i].proof = q.tasks[t].proof
  IN  [tasks |-> [t \in TaskIds(q) |-> IF Confirmed(t) THEN MarkVerified(q.tasks[t]) ELSE q.tasks[t]],
       results |-> q.results]

\* The payment entries for a done job, one for each result of a verified task.
PaymentsFor(q, job) ==
  LET verified == Selected([i \in DOMAIN q.results |->
                     q.results[i].job = job /\ q.tasks[q.results[i].task].status = "verified"])
      Entry(t) == [task |-> t, job |-> job, worker |-> q.tasks[t].worker]
  IN  [k \in DOMAIN verified |-> Entry(q.results[verified[k]].task)]

\* collect_results: verify, save, and queue payments when the job is done.
\* Nothing remembers that a job was already collected.
CollectResults(job) ==
  LET q == VerifyResults(queue, job) IN
  /\ pc = "idle"
  /\ Save(q)
  /\ payments' = IF Done(q, job) THEN payments \o PaymentsFor(q, job) ELSE payments
  /\ Len(payments') <= MaxPayments
  /\ UNCHANGED <<workers, current, pc, todo, runner, crashes>>

DistributePayments ==
  /\ pc = "idle"
  /\ payments' = <<>>
  /\ UNCHANGED <<queue, disk, workers, current, pc, todo, runner, crashes>>

-----------------------------------------------------------------------------
(* The process dies and is started again: JobQueue._load reads the file. *)

Restart(file) ==
  /\ crashes < MaxCrashes
  /\ crashes' = crashes + 1
  /\ disk' = file
  /\ queue' = file
  /\ workers' = <<>>
  /\ current' = [w \in Workers |-> 0]
  /\ pc' = "idle" /\ todo' = <<>> /\ runner' = NoWorker
  /\ payments' = <<>>

Crash == Restart(disk)

\* The process dies inside open(..., "w") / json.dump: the file does not parse
\* and _load leaves the queue empty.
CrashInPersist == Restart(EmptyQueue)

-----------------------------------------------------------------------------

Progress == DispatchSkip \/ DispatchClaim \/ DispatchReturn \/ ExecuteRaises
            \/ \E p \in Proofs : Finish(p)

Next ==
  \/ \E w \in Workers : RegisterWorker(w)
  \/ \E j \in Jobs, ty \in Types, n \in 0 .. 2 : SubmitNewJob(j, ty, n)
  \/ \E w \in Workers, c \in Types \cup {AnyCapability} : WorkerClaim(w, c)
  \/ \E j \in Jobs : CollectResults(j)
  \/ DistributePayments
  \/ Progress
  \/ Crash
  \/ CrashInPersist

\* A call that has started runs on unless the process dies.
Fairness == WF_vars(Progress)

Spec == Init /\ [][Next]_vars /\ Fairness

-----------------------------------------------------------------------------
(* Properties *)

TypeOK ==
  /\ \A q \in {queue, disk} :
       /\ Len(q.tasks) <= MaxTasks
       /\ \A t \in TaskIds(q) :
            /\ q.tasks[t].job \in Jobs /\ q.tasks[t].type \in Types
            /\ q.tasks[t].status \in TaskStatus
            /\ q.tasks[t].worker \in Workers \cup {NoWorker}
            /\ q.tasks[t].proof \in Proofs \cup {NoProof}
       /\ Range(q.results) \subseteq
            [task : TaskIds(q), job : Jobs, worker : Workers, proof : Proofs]
  /\ Range(workers) \subseteq Workers
  /\ current \in [Workers -> 0 .. MaxTasks]
  /\ pc \in {"idle", "dispatch", "running"}
  /\ Range(todo) \subseteq TaskIds(queue)
  /\ runner \in Workers \cup {NoWorker}
  /\ Range(payments) \subseteq Payment
  /\ crashes \in 0 .. MaxCrashes

\* The result list is the history of the tasks: a completed or verified task
\* has exactly one result, from the worker it is assigned to and with the hash
\* it stores, and no other task has one.  Crashes, restarts, workers that died
\* in a task and direct claims by workers do not run a task twice.
ResultsMatchTasks ==
  \A t \in TaskIds(queue) :
    LET task == queue.tasks[t]
        entries == {i \in DOMAIN queue.results : queue.results[i].task = t}
    IN  /\ task.status \in {"completed", "verified"} <=> entries # {}
        /\ Cardinality(entries) <= 1
        /\ \A i \in entries : /\ queue.results[i].worker = task.worker
                              /\ queue.results[i].proof = task.proof

\* No payment is ever queued for work that is not verified, or for a job some
\* task of which is still open, and it goes to the worker that did the task.
PaymentsBacked ==
  \A i \in DOMAIN payments :
    LET p == payments[i] IN
    /\ p.task \in TaskIds(queue)
    /\ queue.tasks[p.task].status = "verified"
    /\ \A t \in TasksOf(queue, p.job) : queue.tasks[t].status = "verified"
    /\ \E k \in DOMAIN queue.results :
         queue.results[k].task = p.task /\ queue.results[k].worker = p.worker

StatusRank == [pending |-> 0, assigned |-> 1, completed |-> 2, verified |-> 3]

\* Work that was saved is not undone: from any state to the next, and across a
\* crash that leaves the file whole, no result is dropped and no task goes back
\* to an earlier status.  (Nor does an assigned task whose worker died return
\* to pending: nothing runs it again.)
WorkSurvives ==
  [][\/ CrashInPersist
     \/ /\ IsPrefix(queue.results, queue'.results)
        /\ \A t \in TaskIds(queue) :
             /\ t \in TaskIds(queue')
             /\ StatusRank[queue.tasks[t].status] <= StatusRank[queue'.tasks[t].status]]_vars

\* A claimed task belongs to the worker running it: while a worker executes,
\* its task is assigned to it, so the submit at the end is never refused.
RunnerOwnsTask ==
  pc = "running" => /\ runner # NoWorker /\ current[runner] # 0
                    /\ queue.tasks[current[runner]].status = "assigned"
                    /\ queue.tasks[current[runner]].worker = runner

\* Every task is accounted for: what ran has one result, what runs belongs to
\* the worker that runs it.
TasksAccounted == ResultsMatchTasks /\ RunnerOwnsTask

\* submit_job returns: no dispatch loop runs for ever, whatever the workers do.
DispatchReturns == pc # "idle" ~> pc = "idle"
=============================================================================
