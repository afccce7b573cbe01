------------------------------ MODULE JobQueue ------------------------------
(***************************************************************************)
(* The JobQueue of membra_sdk.scheduler as a value: an operator per method,*)
(* each the queue the method leaves.  The coordinator and the brain server *)
(* hold one queue each.                                                    *)
(*                                                                         *)
(* A queue is [tasks, results].  tasks is the dictionary in insertion      *)
(* order, and a task's id is its position; results is job_results in the   *)
(* order of the appends (the per-job lists are its subsequences).  A       *)
(* payload is left out; a result is the value `proof' of its proof_hash.   *)
(***************************************************************************)
EXTENDS Selection, SequencesExt

TaskStatus == {"pending", "assigned", "completed", "verified"}

NoWorker == "none"
NoProof == "none"

EmptyQueue == [tasks |-> <<>>, results |-> <<>>]

TaskIds(q) == DOMAIN q.tasks

\* A fresh TaskSplit.
NewTask(job, type) ==
  [job |-> job, type |-> type, status |-> "pending", worker |-> NoWorker, proof |-> NoProof]

\* submit_job: the job's items become n tasks of one type; a payload with an
\* empty item list gives none.
SubmitJob(q, job, type, n) ==
  [tasks |-> q.tasks \o [i \in 1 .. n |-> NewTask(job, type)], results |-> q.results]

\* list_pending, in dictionary order.
ListPending(q) == Selected([t \in TaskIds(q) |-> q.tasks[t].status = "pending"])

\* The filter of claim_task; no capability stands for None or "".
AnyCapability == "any"
Matches(q, t, capability) == capability \in {AnyCapability, q.tasks[t].type}

\* Mutant: the scan of claim_task also takes tasks that are already completed.
ClaimableAgain(q, capability) ==
  Selected([t \in TaskIds(q) |-> /\ q.tasks[t].status \in {"pending", "completed"}
                                 /\ Matches(q, t, capability)])

\* The tasks claim_task can return to a worker with this capability, first
\* one first.
Claimable(q, capability) ==
  Selected([t \in TaskIds(q) |-> q.tasks[t].status = "pending" /\ Matches(q, t, capability)])

\* Mutant: the task is marked but not tied to the worker.
AssignNobody(q, t, worker) == [q EXCEPT !.tasks[t].status = "assigned"]

\* The assignments claim_task makes to the task it picked.
Assign(q, t, worker) ==
  [tasks |-> [q.tasks EXCEPT ![t] = [@ EXCEPT !.status = "assigned", !.worker = worker]],
   results |-> q.results]

\* submit_result accepts a result only from the task's assigned worker.
Accepts(q, t, worker) == t \in TaskIds(q) /\ q.tasks[t].worker = worker

\* Mutant: a status that is not one of TaskStatus.
SubmitResultDone(q, t, worker, proof) ==
  [q EXCEPT !.tasks[t].status = "done", !.tasks[t].proof = proof]

\* The state change of submit_result.
SubmitResult(q, t, worker, proof) ==
  [tasks |-> [q.tasks EXCEPT ![t] = [@ EXCEPT !.status = "completed", !.proof = proof]],
   results |-> Append(q.results, [task |-> t, job |-> q.tasks[t].job,
                                  worker |-> worker, proof |-> proof])]

\* Mutant: a status that is not one of TaskStatus.
MarkDone(task) ==
  IF task.status = "completed" THEN [task EXCEPT !.status = "done"] ELSE task

\* mark_verified, for the task it finds: only a completed one.
MarkVerified(task) ==
  IF task.status = "completed" THEN [task EXCEPT !.status = "verified"] ELSE task

TasksOf(q, job) == {t \in TaskIds(q) : q.tasks[t].job = job}

\* Mutant: the job counts as done while a task of it is still unverified.
DoneWhenAnyVerified(q, job) == \E t \in TasksOf(q, job) : q.tasks[t].status = "verified"

\* The `done' flag of get_job_status.
Done(q, job) ==
  TasksOf(q, job) # {} /\ \A t \in TasksOf(q, job) : q.tasks[t].status = "verified"
=============================================================================
