---------------------------- MODULE BrainServer ----------------------------
(***************************************************************************)
(* membra_sdk.brain_server.BrainServer, a threaded Flask application, with *)
(* the WorkerClients that poll it.                                         *)
(*                                                                         *)
(* Every request is a thread.  worker_lock and job_lock protect the worker *)
(* registry and the job table, and each section under a lock is atomic     *)
(* here; the queue has no lock, so the two halves of claim_task (find a    *)
(* pending task; write its status and worker) and of submit_result (test   *)
(* the assigned worker; write the result) are steps of their own and other *)
(* threads run between them.                                               *)
(*                                                                         *)
(* Clients are WorkerClients: they read the key "task" of the answer to    *)
(* next-task, which an answer with a task does not have.  The other        *)
(* workers are HTTP clients that take the task from the answer as the      *)
(* server sends it; they are not part of the repository.                   *)
(***************************************************************************)
EXTENDS JobQueue, FiniteSets

CONSTANTS
  Workers,       \* worker ids
  Clients,       \* those that are WorkerClients of this repository
  Capability,    \* Capability[w]: the role a worker polls with
  Plans,         \* plan ids, one for each submitted prompt
  Subtasks,      \* Subtasks[p]: the roles of a plan's subtasks, in order
  Proofs,
  MaxFaults      \* bound on stopped workers, restarts of the server and lost answers, together

ASSUME BrainAssumption ==
  /\ Clients \subseteq Workers /\ MaxFaults \in Nat
  /\ \A p \in Plans : Len(Subtasks[p]) \in Nat /\ DOMAIN Subtasks[p] = 1 .. Len(Subtasks[p])

VARIABLES
  queue,      \* the JobQueue, saved at every change
  registry,   \* registry[w]: self.workers[w]
  fresh,      \* fresh[w]: its last heartbeat is at most five minutes old
  jobs,       \* jobs[p]: self.jobs[p]["status"], "none" if there is no entry
  submit,     \* submit[p]: the submit-job thread of the plan
  poll,       \* poll[w]: the task a next-task thread found pending, or 0
  client,     \* client[w]: what the worker process is doing, and its task
  claims,     \* history: <<t, w>> for every assignment of t to w
  resent,     \* history: <<t, w>> where w did not hear that its result for t was taken
  faults

vars == <<queue, registry, fresh, jobs, submit, poll, client, claims, resent, faults>>

Unregistered == [known |-> FALSE, status |-> "idle", current |-> 0]
Registered(status, t) == [known |-> TRUE, status |-> status, current |-> t]

Ended(how) == [pc |-> how, todo |-> <<>>, first |-> NoWorker, pick |-> 0]
NoThread == Ended("none")

Init ==
  /\ queue = EmptyQueue
  /\ registry = [w \in Workers |-> Unregistered]
  /\ fresh = [w \in Workers |-> FALSE]
  /\ jobs = [p \in Plans |-> "none"]
  /\ submit = [p \in Plans |-> NoThread]
  /\ poll = [w \in Workers |-> 0]
  /\ client = [w \in Workers |-> [pc |-> "off", task |-> 0]]
  /\ claims = {}
  /\ resent = {}
  /\ faults = 0

\* Mutant: only the status field is written.
SetStatusOnly(w, status, t) ==
  registry' = IF registry[w].known THEN [registry EXCEPT ![w].status = status] ELSE registry

\* Under worker_lock: nothing happens for a worker the registry has dropped.
SetRegistry(w, status, t) ==
  registry' = IF registry[w].known THEN [registry EXCEPT ![w] = Registered(status, t)]
              ELSE registry

-----------------------------------------------------------------------------
(* Worker registry *)

\* WorkerClient.register and the register-worker handler.
RegisterWorker(w) ==
  /\ client[w].pc = "off"
  /\ registry' = [registry EXCEPT ![w] = Registered("idle", 0)]
  /\ fresh' = [fresh EXCEPT ![w] = TRUE]
  /\ client' = [client EXCEPT ![w] = [pc |-> "ready", task |-> 0]]
  /\ UNCHANGED <<queue, jobs, submit, poll, claims, resent, faults>>

\* A worker between two polls always reports that it is idle.  An unknown
\* worker gets a 404, which WorkerClient ignores.
WorkerHeartbeat(w) ==
  /\ client[w].pc = "ready"
  /\ SetRegistry(w, "idle", 0)
  /\ fresh' = [fresh EXCEPT ![w] = registry[w].known]
  /\ UNCHANGED <<queue, jobs, submit, poll, client, claims, resent, faults>>

\* Five minutes pass without a heartbeat of w (a long task, a lost network).
HeartbeatExpires(w) ==
  /\ fresh[w]
  /\ fresh' = [fresh EXCEPT ![w] = FALSE]
  /\ UNCHANGED <<queue, registry, jobs, submit, poll, client, claims, resent, faults>>

\* The workers handler drops every worker with an old heartbeat.
ListWorkers ==
  /\ registry' = [w \in Workers |-> IF fresh[w] THEN registry[w] ELSE Unregistered]
  /\ UNCHANGED <<queue, fresh, jobs, submit, poll, client, claims, resent, faults>>

\* The worker process ends; what it was doing is lost.  A request it has sent
\* is still served.
WorkerStops(w) ==
  /\ faults < MaxFaults
  /\ client[w].pc \in {"ready", "waiting", "working"}
  /\ client' = [client EXCEPT ![w] = [pc |-> "off", task |-> 0]]
  /\ faults' = faults + 1
  /\ UNCHANGED <<queue, registry, fresh, jobs, submit, poll, claims, resent>>

-----------------------------------------------------------------------------
(* Jobs *)

\* The workers the dispatch would use; the first in the order of the registry
\* gets every task, and any of them may be that one.
IdleWorkers == {w \in Workers : registry[w].known /\ registry[w].status = "idle" /\ fresh[w]}

\* A queue job of its own for each subtask, never with the plan's id.
QueueJob(p, i) == <<p, i>>

\* submit-job up to its loop over the subtasks.  The plan id is taken to be new
\* (it is the time in seconds).
SubmitPlan(p) ==
  /\ submit[p].pc = "none"
  /\ submit' = [submit EXCEPT ![p] = [pc |-> "plan", todo |-> [i \in DOMAIN Subtasks[p] |-> i],
                                      first |-> NoWorker, pick |-> 0]]
  /\ UNCHANGED <<queue, registry, fresh, jobs, poll, client, claims, resent, faults>>

\* One subtask becomes a task of the queue, and can be claimed from then on.
SubmitSubtask(p) ==
  LET i == Head(submit[p].todo) IN
  /\ submit[p].pc = "plan" /\ submit[p].todo # <<>>
  /\ queue' = SubmitJob(queue, QueueJob(p, i), Subtasks[p][i], 1)
  /\ submit' = [submit EXCEPT ![p].todo = Tail(@)]
  /\ UNCHANGED <<registry, fresh, jobs, poll, client, claims, resent, faults>>

\* The entry in the job table, and the two snapshots of the dispatch loop.
AcceptPlan(p) ==
  /\ submit[p].pc = "plan" /\ submit[p].todo = <<>>
  /\ jobs' = [jobs EXCEPT ![p] = "accepted"]
  /\ \E first \in IF IdleWorkers = {} THEN {NoWorker} ELSE IdleWorkers :
       submit' = [submit EXCEPT ![p] =
         [pc |-> "dispatch", todo |-> ListPending(queue), first |-> first, pick |-> 0]]
  /\ UNCHANGED <<queue, registry, fresh, poll, client, claims, resent, faults>>

\* The next task of the loop: the first half of claim_task for the first idle
\* worker, unless the task has got a worker meanwhile.
DispatchFind(p) ==
  LET s == submit[p]
      t == Head(s.todo)
      found == Claimable(queue, queue.tasks[t].type)
  IN
  /\ s.pc = "dispatch" /\ s.todo # <<>>
  /\ submit' = [submit EXCEPT ![p] =
       IF s.first = NoWorker \/ queue.tasks[t].worker # NoWorker \/ found = <<>>
       THEN [s EXCEPT !.todo = Tail(@)]
       ELSE [s EXCEPT !.pc = "claim", !.pick = Head(found)]]
  /\ UNCHANGED <<queue, registry, fresh, jobs, poll, client, claims, resent, faults>>

\* The second half of claim_task and the registry update.  A worker that
\* ListWorkers dropped since the snapshot makes the handler fail (KeyError).
DispatchClaim(p) ==
  LET s == submit[p] IN
  /\ s.pc = "claim"
  /\ queue' = Assign(queue, s.pick, s.first)
  /\ claims' = claims \cup {<<s.pick, s.first>>}
  /\ SetRegistry(s.first, "busy", s.pick)
  /\ submit' = [submit EXCEPT ![p] =
       IF registry[s.first].known THEN [s EXCEPT !.pc = "dispatch", !.todo = Tail(@), !.pick = 0]
       ELSE Ended("failed")]
  /\ UNCHANGED <<fresh, jobs, poll, client, resent, faults>>

DispatchReturn(p) ==
  /\ submit[p].pc = "dispatch" /\ submit[p].todo = <<>>
  /\ submit' = [submit EXCEPT ![p] = Ended("done")]
  /\ UNCHANGED <<queue, registry, fresh, jobs, poll, client, claims, resent, faults>>

-----------------------------------------------------------------------------
(* Polling for tasks *)

\* next-task up to the first half of claim_task; with nothing to claim the
\* answer is {"task": None} and the client goes on polling.
NextTaskFind(w) ==
  LET found == Claimable(queue, Capability[w]) IN
  /\ client[w].pc = "ready" /\ poll[w] = 0
  /\ fresh' = [fresh EXCEPT ![w] = registry[w].known]
  /\ IF found = <<>>
     THEN UNCHANGED <<poll, client>>
     ELSE /\ poll' = [poll EXCEPT ![w] = Head(found)]
          /\ client' = [client EXCEPT ![w].pc = "waiting"]
  /\ UNCHANGED <<queue, registry, jobs, submit, claims, resent, faults>>

\* What the answer to next-task makes of the client, if it still waits.
AnswerTo(w) ==
  IF client[w].pc # "waiting" THEN {client[w]}
  ELSE {[pc |-> "ready", task |-> 0]} \cup
       (IF w \in Clients THEN {} ELSE {[pc |-> "working", task |-> poll[w]]})

\* The second half of claim_task, the registry update and the answer.  A
\* WorkerClient finds no "task" in it and polls on; another client takes the
\* task, or has given up waiting (requests timeout).
NextTaskClaim(w) ==
  /\ poll[w] # 0
  /\ queue' = Assign(queue, poll[w], w)
  /\ claims' = claims \cup {<<poll[w], w>>}
  /\ SetRegistry(w, "busy", poll[w])
  /\ poll' = [poll EXCEPT ![w] = 0]
  /\ \E c \in AnswerTo(w) : client' = [client EXCEPT ![w] = c]
  /\ UNCHANGED <<fresh, jobs, submit, resent, faults>>

\* submit-result up to the test of the assigned worker; a refusal still marks
\* the worker idle.
SubmitResultCheck(w) ==
  /\ client[w].pc = "working"
  /\ IF Accepts(queue, client[w].task, w)
     THEN /\ client' = [client EXCEPT ![w].pc = "storing"]
          /\ UNCHANGED registry
     ELSE /\ client' = [client EXCEPT ![w] = [pc |-> "ready", task |-> 0]]
          /\ SetRegistry(w, "idle", 0)
  /\ UNCHANGED <<queue, fresh, jobs, submit, poll, claims, resent, faults>>

\* _check_job_completion(t), with the queue as the result left it: the job
\* table is searched for the queue's job id, and a job counts as done when all
\* its tasks are verified, which nothing in the server does to a task.
CheckJobCompletion(q, t) ==
  LET job == q.tasks[t].job IN
  jobs' = IF job \in Plans /\ jobs[job] # "none" /\ Done(q, job)
          THEN [jobs EXCEPT ![job] = "completed"]
          ELSE jobs

\* What a client makes of the answer to submit-result: it has done its task.  A
\* WorkerClient takes a failed request for the end of it too; another client
\* may not hear the answer and, still with the task in hand, send it again.
AfterResult(w) ==
  {[pc |-> "ready", task |-> 0]} \cup
  (IF w \in Clients \/ faults = MaxFaults THEN {}
   ELSE {[pc |-> "working", task |-> client[w].task]})

\* The rest of submit-result.
SubmitResultStore(w, proof) ==
  LET t == client[w].task
      q == SubmitResult(queue, t, w, proof)
  IN
  /\ client[w].pc = "storing"
  /\ queue' = q
  /\ SetRegistry(w, "idle", 0)
  /\ CheckJobCompletion(q, t)
  /\ \E c \in AfterResult(w) :
       /\ client' = [client EXCEPT ![w] = c]
       /\ IF c.pc = "working"
          THEN resent' = resent \cup {<<t, w>>} /\ faults' = faults + 1
          ELSE UNCHANGED <<resent, faults>>
  /\ UNCHANGED <<fresh, submit, poll, claims>>

-----------------------------------------------------------------------------

\* The server process ends and is started again: the queue comes back from
\* its file (taken to be whole: the coordinator's model has the torn one), the
\* registry and the job table are gone, open requests fail.
ServerRestart ==
  /\ faults < MaxFaults
  /\ faults' = faults + 1
  /\ registry' = [w \in Workers |-> Unregistered]
  /\ fresh' = [w \in Workers |-> FALSE]
  /\ jobs' = [p \in Plans |-> "none"]
  /\ submit' = [p \in Plans |->
       IF submit[p].pc \in {"plan", "dispatch", "claim"} THEN Ended("failed")
       ELSE submit[p]]
  /\ poll' = [w \in Workers |-> 0]
  /\ client' = [w \in Workers |->
       IF client[w].pc \in {"waiting", "storing"} THEN [pc |-> "ready", task |-> 0] ELSE client[w]]
  /\ UNCHANGED <<queue, claims, resent>>

ServerStep(p) ==
  SubmitSubtask(p) \/ AcceptPlan(p) \/ DispatchFind(p) \/ DispatchClaim(p) \/ DispatchReturn(p)

WorkerStep(w) ==
  NextTaskFind(w) \/ NextTaskClaim(w) \/ SubmitResultCheck(w)
  \/ \E proof \in Proofs : SubmitResultStore(w, proof)

Next ==
  \/ \E p \in Plans : SubmitPlan(p) \/ ServerStep(p)
  \/ \E w \in Workers :
       \/ RegisterWorker(w)
       \/ WorkerHeartbeat(w)
       \/ HeartbeatExpires(w)
       \/ WorkerStops(w)
       \/ WorkerStep(w)
  \/ ListWorkers
  \/ ServerRestart

Spec == Init /\ [][Next]_vars

\* Request threads run on, and the poll loop of a running worker keeps polling
\* and registering at its start.
FairSpec ==
  /\ Spec
  /\ \A p \in Plans : WF_vars(ServerStep(p))
  /\ \A w \in Workers : WF_vars(WorkerStep(w)) /\ WF_vars(RegisterWorker(w))

-----------------------------------------------------------------------------
(* Properties *)

TypeOK ==
  /\ \A t \in TaskIds(queue) : queue.tasks[t].status \in TaskStatus
  /\ \A r \in Range(queue.results) : r.task \in TaskIds(queue) /\ r.worker \in Workers
  /\ registry \in [Workers -> [known : BOOLEAN, status : {"idle", "busy"},
                               current : TaskIds(queue) \cup {0}]]
  /\ fresh \in [Workers -> BOOLEAN]
  /\ jobs \in [Plans -> {"none", "accepted", "completed"}]
  /\ poll \in [Workers -> TaskIds(queue) \cup {0}]
  /\ client \in [Workers -> [pc : {"off", "ready", "waiting", "working", "storing"},
                             task : TaskIds(queue) \cup {0}]]
  /\ claims \subseteq TaskIds(queue) \X Workers
  /\ resent \subseteq claims

\* Every recorded result comes from a worker the task was once assigned to.  The
\* same worker has two for a task only if it sent the first again for want of an
\* answer (submit_result looks at the worker, not at the status, and takes it
\* again): two threads that claim the same task, a dispatch that claims for a
\* polling worker, refused and late results and a restart do not make a worker
\* do a task again.
ResultsEarned ==
  /\ \A r \in Range(queue.results) : <<r.task, r.worker>> \in claims
  /\ \A i, k \in DOMAIN queue.results :
       /\ queue.results[i].task = queue.results[k].task
       /\ queue.results[i].worker = queue.results[k].worker
       => i = k \/ <<queue.results[i].task, queue.results[i].worker>> \in resent

\* The registry shows a task exactly for the workers it calls busy, and only a
\* task that was assigned to that worker, although heartbeats, polls, results
\* and dispatches of several threads all write the entry.
RegistryCoherent ==
  \A w \in Workers :
    /\ registry[w].status = "busy" <=> registry[w].current # 0
    /\ registry[w].current # 0 => <<registry[w].current, w>> \in claims

AllWorkersUp == \A w \in Workers : client[w].pc # "off" /\ registry[w].known /\ fresh[w]

\* The LAN test: with the workers up from some point on, a job that was
\* accepted is finalized, its status becoming "completed".  It never does.
JobFinalized ==
  (<>[](AllWorkersUp /\ faults = 0)) =>
    \A p \in Plans : jobs[p] = "accepted" ~> jobs[p] = "completed"
=============================================================================
