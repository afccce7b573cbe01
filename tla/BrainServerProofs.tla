-------------------------- MODULE BrainServerProofs --------------------------
(***************************************************************************)
(* Proofs about the brain server, for every set of workers, WorkerClients  *)
(* and plans.  The inductive invariant is BrainInv: a task that was ever   *)
(* assigned is never pending again, so a worker that polls cannot be given *)
(* one it has already done, and a worker at work has no result for its     *)
(* task yet, unless it has not heard that the result was taken.            *)
(***************************************************************************)
EXTENDS BrainServer, DataTheorems, SequenceTheorems

-----------------------------------------------------------------------------
(* The brain server's queue *)

JobNames == {QueueJob(p, i) : p \in Plans, i \in Nat}
RoleNames == {Subtasks[p][i] : p \in Plans, i \in Nat}

BrainTask == [job : JobNames, type : RoleNames, status : TaskStatus,
              worker : Workers \cup {NoWorker}, proof : Proofs \cup {NoProof}]
BrainResult == [task : Nat, job : JobNames, worker : Workers, proof : Proofs]
TaskList == Seq(BrainTask)
ResultList == Seq(BrainResult)
BrainQueue == [tasks : TaskList, results : ResultList]

\* Worker w has a result for task t in the queue q.
Did(q, t, w) ==
  \E i \in 1 .. Len(q.results) : q.results[i].task = t /\ q.results[i].worker = w

\* The queue q, the assignments cl ever made and those, rs, whose worker missed
\* the answer to its result: a task that was assigned is not pending, a result
\* comes from an assignment, and but for those in rs there is one for each.
BrainQueueOK(q, cl, rs) ==
  /\ q \in BrainQueue
  /\ cl \subseteq (1 .. Len(q.tasks)) \X Workers /\ rs \subseteq cl
  /\ \A t \in 1 .. Len(q.tasks), w \in Workers : <<t, w>> \in cl => q.tasks[t].status # "pending"
  /\ \A i \in 1 .. Len(q.results) : <<q.results[i].task, q.results[i].worker>> \in cl
  /\ \A i, k \in 1 .. Len(q.results) :
       (q.results[i].task = q.results[k].task /\ q.results[i].worker = q.results[k].worker)
         => i = k \/ <<q.results[i].task, q.results[i].worker>> \in rs

LEMMA BrainQueueType ==
  ASSUME NEW q \in BrainQueue
  PROVE  /\ q.tasks \in Seq(BrainTask) /\ q.results \in Seq(BrainResult)
         /\ Len(q.tasks) \in Nat /\ Len(q.results) \in Nat
         /\ DOMAIN q.tasks = 1 .. Len(q.tasks) /\ DOMAIN q.results = 1 .. Len(q.results)
<1>1. q.tasks \in Seq(BrainTask) /\ q.results \in Seq(BrainResult)
  BY DEF BrainQueue, TaskList, ResultList
<1> QED
  BY <1>1

\* A queue is made of its two lists.
LEMMA BrainQueueMade ==
  ASSUME NEW tasks \in TaskList, NEW results \in ResultList, NEW q,
         q = [tasks |-> tasks, results |-> results]
  PROVE  q \in BrainQueue /\ q.tasks = tasks /\ q.results = results
BY DEF BrainQueue

\* The server starts with an empty queue.
LEMMA BrainQueueEmpty == BrainQueueOK(EmptyQueue, {}, {})
<1>1. <<>> \in TaskList /\ <<>> \in ResultList
  BY DEF TaskList, ResultList
<1>2. EmptyQueue = [tasks |-> <<>>, results |-> <<>>]
  BY DEF EmptyQueue
<1>3. EmptyQueue \in BrainQueue /\ EmptyQueue.results = <<>> /\ EmptyQueue.tasks = <<>>
  BY <1>1, <1>2, BrainQueueMade
<1> QED
  BY <1>3 DEF BrainQueueOK

LEMMA ConcatOne ==
  ASSUME NEW S, NEW old \in Seq(S), NEW new \in Seq(S), Len(new) = 1
  PROVE  /\ old \o new \in Seq(S) /\ Len(old \o new) = Len(old) + 1
         /\ \A t \in 1 .. Len(old) : (old \o new)[t] = old[t]
<1> DEFINE both == old \o new
           n == Len(old)
<1>1. /\ both \in Seq(S) /\ Len(both) = n + Len(new)
      /\ \A i \in 1 .. n + Len(new) : both[i] = IF i <= n THEN old[i] ELSE new[i - n]
  BY ConcatProperties
<1>2. n \in Nat
  OBVIOUS
<1> HIDE DEF both, n
<1>3. \A t \in 1 .. n : t \in 1 .. n + Len(new) /\ t <= n
  BY <1>2
<1>4. /\ both \in Seq(S) /\ Len(both) = n + 1
      /\ \A t \in 1 .. n : both[t] = old[t]
  BY <1>1, <1>3
<1> QED
  BY <1>4 DEF both, n

\* submit_job adds one pending task.
LEMMA BrainSubmitJob ==
  ASSUME NEW q, NEW cl, NEW rs, BrainQueueOK(q, cl, rs), NEW job \in JobNames, NEW type \in RoleNames
  PROVE  LET p == SubmitJob(q, job, type, 1) IN
         BrainQueueOK(p, cl, rs) /\ Len(p.tasks) = Len(q.tasks) + 1 /\ p.results = q.results
<1> DEFINE p == SubmitJob(q, job, type, 1)
           new == [i \in 1 .. 1 |-> NewTask(job, type)]
           tasks == q.tasks \o new
<1>1. q \in BrainQueue
  BY DEF BrainQueueOK
<1>2. /\ q.tasks \in Seq(BrainTask) /\ q.results \in ResultList
      /\ Len(q.tasks) \in Nat
  BY <1>1, BrainQueueType DEF BrainQueue
<1>3. NewTask(job, type) \in BrainTask
  BY DEF NewTask, BrainTask, TaskStatus
<1>4. new \in Seq(BrainTask) /\ Len(new) = 1
  BY <1>3
<1> HIDE DEF new
<1>5. /\ tasks \in TaskList /\ Len(tasks) = Len(q.tasks) + 1
      /\ \A t \in 1 .. Len(q.tasks) : tasks[t] = q.tasks[t]
  BY <1>2, <1>4, ConcatOne DEF TaskList
<1>6. p = [tasks |-> tasks, results |-> q.results]
  BY DEF SubmitJob, new
<1> HIDE DEF p, tasks
<1>7. p \in BrainQueue /\ p.tasks = tasks /\ p.results = q.results
  BY <1>2, <1>5, <1>6, BrainQueueMade
<1>8. cl \subseteq (1 .. Len(q.tasks)) \X Workers /\ rs \subseteq cl
  BY DEF BrainQueueOK
<1>9. cl \subseteq (1 .. Len(p.tasks)) \X Workers /\ rs \subseteq cl
  <2>1. 1 .. Len(q.tasks) \subseteq 1 .. Len(p.tasks)
    BY <1>2, <1>5, <1>7
  <2> QED
    BY <1>8, <2>1
<1>10. \A t \in 1 .. Len(p.tasks), w \in Workers : <<t, w>> \in cl => p.tasks[t].status # "pending"
  <2> SUFFICES ASSUME NEW t \in 1 .. Len(p.tasks), NEW w \in Workers, <<t, w>> \in cl
               PROVE  p.tasks[t].status # "pending"
    OBVIOUS
  <2>1. t \in 1 .. Len(q.tasks)
    BY <1>8
  <2> QED
    BY <1>5, <1>7, <2>1 DEF BrainQueueOK
<1>11. BrainQueueOK(p, cl, rs)
  BY <1>7, <1>9, <1>10 DEF BrainQueueOK
<1> QED
  BY <1>5, <1>7, <1>11 DEF p

\* The second half of claim_task: the task may have got another worker since it
\* was found, but it is not pending afterwards.
LEMMA BrainAssign ==
  ASSUME NEW q, NEW cl, NEW rs, BrainQueueOK(q, cl, rs), NEW t \in 1 .. Len(q.tasks), NEW w \in Workers
  PROVE  LET p == Assign(q, t, w) IN
         /\ BrainQueueOK(p, cl \cup {<<t, w>>}, rs)
         /\ Len(p.tasks) = Len(q.tasks) /\ p.results = q.results
<1> DEFINE p == Assign(q, t, w)
           task == [q.tasks[t] EXCEPT !.status = "assigned", !.worker = w]
           tasks == [q.tasks EXCEPT ![t] = task]
<1>1. q \in BrainQueue
  BY DEF BrainQueueOK
<1>2. /\ q.tasks \in Seq(BrainTask) /\ q.results \in ResultList
      /\ Len(q.tasks) \in Nat /\ q.tasks[t] \in BrainTask
  BY <1>1, BrainQueueType DEF BrainQueue
<1>3. task \in BrainTask /\ task.status = "assigned"
  BY <1>2 DEF BrainTask, TaskStatus
<1>4. p = [tasks |-> tasks, results |-> q.results]
  BY DEF Assign
<1> HIDE DEF task
<1>5. /\ tasks \in TaskList /\ Len(tasks) = Len(q.tasks) /\ tasks[t] = task
      /\ \A u \in 1 .. Len(q.tasks) : u # t => tasks[u] = q.tasks[u]
  BY <1>2, <1>3 DEF TaskList
<1> HIDE DEF p, tasks
<1>6. p \in BrainQueue /\ p.tasks = tasks /\ p.results = q.results
  BY <1>2, <1>4, <1>5, BrainQueueMade
<1>7. cl \cup {<<t, w>>} \subseteq (1 .. Len(p.tasks)) \X Workers /\ rs \subseteq cl \cup {<<t, w>>}
  BY <1>5, <1>6 DEF BrainQueueOK
<1>8. \A u \in 1 .. Len(p.tasks), v \in Workers :
        <<u, v>> \in cl \cup {<<t, w>>} => p.tasks[u].status # "pending"
  <2> SUFFICES ASSUME NEW u \in 1 .. Len(p.tasks), NEW v \in Workers, <<u, v>> \in cl \cup {<<t, w>>}
               PROVE  p.tasks[u].status # "pending"
    OBVIOUS
  <2>1. CASE u = t
    BY <1>3, <1>5, <1>6, <2>1
  <2>2. CASE u # t
    BY <1>5, <1>6, <2>2 DEF BrainQueueOK
  <2> QED
    BY <2>1, <2>2
<1>9. BrainQueueOK(p, cl \cup {<<t, w>>}, rs)
  BY <1>6, <1>7, <1>8 DEF BrainQueueOK
<1> QED
  BY <1>5, <1>6, <1>9 DEF p

\* An answer more is missed.
LEMMA BrainMissed ==
  ASSUME NEW q, NEW cl, NEW rs, BrainQueueOK(q, cl, rs), NEW more, rs \subseteq more, more \subseteq cl
  PROVE  BrainQueueOK(q, cl, more)
BY DEF BrainQueueOK

\* submit_result adds the one result of an assignment that had none, or one more
\* of a worker that missed the answer.
LEMMA BrainSubmitResult ==
  ASSUME NEW q, NEW cl, NEW rs, BrainQueueOK(q, cl, rs), NEW t \in 1 .. Len(q.tasks), NEW w \in Workers,
         NEW proof \in Proofs, <<t, w>> \in cl, ~Did(q, t, w) \/ <<t, w>> \in rs
  PROVE  LET p == SubmitResult(q, t, w, proof) IN
         /\ BrainQueueOK(p, cl, rs) /\ Len(p.tasks) = Len(q.tasks)
         /\ \A u, v : Did(p, u, v) => Did(q, u, v) \/ (u = t /\ v = w)
<1> DEFINE p == SubmitResult(q, t, w, proof)
           task == [q.tasks[t] EXCEPT !.status = "completed", !.proof = proof]
           r == [task |-> t, job |-> q.tasks[t].job, worker |-> w, proof |-> proof]
           tasks == [q.tasks EXCEPT ![t] = task]
           results == Append(q.results, r)
           n == Len(q.results)
<1>1. q \in BrainQueue
  BY DEF BrainQueueOK
<1>2. /\ q.tasks \in Seq(BrainTask) /\ q.results \in Seq(BrainResult)
      /\ Len(q.tasks) \in Nat /\ n \in Nat /\ q.tasks[t] \in BrainTask
  BY <1>1, BrainQueueType
<1>3. task \in BrainTask /\ task.status = "completed"
  BY <1>2 DEF BrainTask, TaskStatus
<1>4. r \in BrainResult /\ r.task = t /\ r.worker = w
  BY <1>2 DEF BrainResult, BrainTask
<1>5. p = [tasks |-> tasks, results |-> results]
  BY DEF SubmitResult
<1> HIDE DEF task, r
<1>6. /\ tasks \in TaskList /\ Len(tasks) = Len(q.tasks) /\ tasks[t] = task
      /\ \A u \in 1 .. Len(q.tasks) : u # t => tasks[u] = q.tasks[u]
  BY <1>2, <1>3 DEF TaskList
<1>7. /\ results \in ResultList /\ Len(results) = n + 1 /\ results[n + 1] = r
      /\ \A i \in 1 .. n : results[i] = q.results[i]
  BY <1>2, <1>4 DEF ResultList
<1> HIDE DEF p, tasks, results
<1>8. p \in BrainQueue /\ p.tasks = tasks /\ p.results = results
  BY <1>5, <1>6, <1>7, BrainQueueMade
<1>9. cl \subseteq (1 .. Len(p.tasks)) \X Workers /\ rs \subseteq cl
  BY <1>6, <1>8 DEF BrainQueueOK
<1>10. \A u \in 1 .. Len(p.tasks), v \in Workers : <<u, v>> \in cl => p.tasks[u].status # "pending"
  <2> SUFFICES ASSUME NEW u \in 1 .. Len(p.tasks), NEW v \in Workers, <<u, v>> \in cl
               PROVE  p.tasks[u].status # "pending"
    OBVIOUS
  <2>1. CASE u = t
    BY <1>3, <1>6, <1>8, <2>1
  <2>2. CASE u # t
    BY <1>6, <1>8, <2>2 DEF BrainQueueOK
  <2> QED
    BY <2>1, <2>2
<1>11. \A i \in 1 .. n + 1 : i \in 1 .. n \/ i = n + 1
  BY <1>2
<1>12. \A i \in 1 .. n : q.results[i].task = t /\ q.results[i].worker = w => <<t, w>> \in rs
  BY DEF Did
<1>13. n = Len(q.results) /\ n \in Nat
  BY <1>2
<1> HIDE DEF n
<1>14. \A i \in 1 .. Len(p.results) : <<p.results[i].task, p.results[i].worker>> \in cl
  BY <1>4, <1>7, <1>8, <1>11, <1>13 DEF BrainQueueOK
<1>15. \A i, k \in 1 .. Len(p.results) :
         (p.results[i].task = p.results[k].task /\ p.results[i].worker = p.results[k].worker)
           => i = k \/ <<p.results[i].task, p.results[i].worker>> \in rs
  <2> SUFFICES ASSUME NEW i \in 1 .. n + 1, NEW k \in 1 .. n + 1,
                      results[i].task = results[k].task, results[i].worker = results[k].worker
               PROVE  i = k \/ <<results[i].task, results[i].worker>> \in rs
    BY <1>7, <1>8
  <2>1. CASE i \in 1 .. n /\ k \in 1 .. n
    BY <1>7, <1>13, <2>1 DEF BrainQueueOK
  <2>2. CASE i \in 1 .. n /\ k = n + 1
    BY <1>4, <1>7, <1>12, <2>2
  <2>3. CASE i = n + 1 /\ k \in 1 .. n
    BY <1>4, <1>7, <1>12, <2>3
  <2> QED
    BY <1>11, <2>1, <2>2, <2>3
<1>16. BrainQueueOK(p, cl, rs)
  BY <1>8, <1>9, <1>10, <1>14, <1>15 DEF BrainQueueOK
<1>17. \A u, v : Did(p, u, v) => Did(q, u, v) \/ (u = t /\ v = w)
  <2> SUFFICES ASSUME NEW u, NEW v, NEW i \in 1 .. n + 1,
                      results[i].task = u, results[i].worker = v
               PROVE  Did(q, u, v) \/ (u = t /\ v = w)
    BY <1>7, <1>8 DEF Did
  <2> QED
    BY <1>4, <1>7, <1>11, <1>13 DEF Did
<1> QED
  BY <1>6, <1>8, <1>16, <1>17 DEF p

\* claim_task finds a pending task.
LEMMA BrainFound ==
  ASSUME NEW q, NEW cl, NEW rs, BrainQueueOK(q, cl, rs), NEW c, Claimable(q, c) # <<>>
  PROVE  LET t == Head(Claimable(q, c)) IN
         /\ t \in 1 .. Len(q.tasks)
         /\ \A w \in Workers : <<t, w>> \notin cl /\ ~Did(q, t, w)
<1> DEFINE keep == [t \in TaskIds(q) |-> q.tasks[t].status = "pending" /\ Matches(q, t, c)]
<1>1. Len(q.tasks) \in Nat /\ TaskIds(q) = 1 .. Len(q.tasks)
  BY BrainQueueType DEF BrainQueueOK, TaskIds
<1>2. keep \in Seq(BOOLEAN) /\ Len(keep) = Len(q.tasks)
  BY <1>1
<1>3. \A t \in 1 .. Len(q.tasks) : keep[t] => q.tasks[t].status = "pending"
  BY <1>1
<1>4. Claimable(q, c) = Selected(keep)
  BY DEF Claimable
<1> HIDE DEF keep
<1>5. Head(Selected(keep)) \in Kept(keep)
  BY <1>2, <1>4, SelectedHead
<1> DEFINE t == Head(Claimable(q, c))
<1>6. t \in 1 .. Len(q.tasks) /\ q.tasks[t].status = "pending"
  BY <1>2, <1>3, <1>4, <1>5 DEF Kept
<1> HIDE DEF t
<1>7. \A w \in Workers : <<t, w>> \notin cl
  BY <1>6 DEF BrainQueueOK
<1>8. \A w \in Workers : ~Did(q, t, w)
  BY <1>7 DEF BrainQueueOK, Did
<1> QED
  BY <1>6, <1>7, <1>8 DEF t

-----------------------------------------------------------------------------
(* The brain server's threads and workers *)

Todo == Seq(Nat)
SubmitThread(n) ==
  [pc : {"none", "plan", "dispatch", "claim", "done", "failed"}, todo : Todo,
   first : Workers \cup {NoWorker}, pick : 0 .. n]
ClientState(n) == [pc : {"off", "ready", "waiting", "working", "storing"}, task : 0 .. n]
WorkerEntry(n) == [known : BOOLEAN, status : {"idle", "busy"}, current : 0 .. n]

\* A submit-job thread that is about to claim has found a task for a worker.
ThreadOK(s, n) ==
  /\ s \in SubmitThread(n)
  /\ s.pc = "claim" => s.todo # <<>> /\ s.first \in Workers /\ s.pick \in 1 .. n

\* Worker w, whose process is in state c and for which a next-task thread holds
\* task p: a task it works on is assigned to it and has no result of it yet (or
\* it missed the answer), and the task that the thread will assign has none.
ClientOK(q, cl, rs, w, c, p) ==
  /\ c \in ClientState(Len(q.tasks)) /\ p \in 0 .. Len(q.tasks)
  /\ c.pc \in {"working", "storing"} =>
       /\ c.task \in 1 .. Len(q.tasks) /\ <<c.task, w>> \in cl
       /\ (~Did(q, c.task, w) \/ <<c.task, w>> \in rs) /\ p = 0
  /\ p # 0 => ~Did(q, p, w)

\* The registry entry r of worker w.
EntryOK(cl, w, r, n) ==
  /\ r \in WorkerEntry(n)
  /\ r.status = "busy" <=> r.current # 0
  /\ r.current # 0 => <<r.current, w>> \in cl

\* The state of the server: its queue and the assignments made, the registry,
\* the request threads and the worker processes.
BrainState(q, cl, rs, reg, fr, jb, sub, pl, ct) ==
  /\ BrainQueueOK(q, cl, rs)
  /\ reg \in [Workers -> WorkerEntry(Len(q.tasks))]
  /\ fr \in [Workers -> BOOLEAN]
  /\ jb \in [Plans -> {"none", "accepted", "completed"}]
  /\ sub \in [Plans -> SubmitThread(Len(q.tasks))]
  /\ pl \in [Workers -> 0 .. Len(q.tasks)]
  /\ ct \in [Workers -> ClientState(Len(q.tasks))]
  /\ \A w \in Workers : ClientOK(q, cl, rs, w, ct[w], pl[w])
  /\ \A w \in Workers : EntryOK(cl, w, reg[w], Len(q.tasks))
  /\ \A p \in Plans : ThreadOK(sub[p], Len(q.tasks))

BrainInv == BrainState(queue, claims, resent, registry, fresh, jobs, submit, poll, client)

\* What the invariant says of one state of the server.
LEMMA BrainInvImplies == BrainInv => TypeOK /\ ResultsEarned /\ RegistryCoherent
<1> SUFFICES ASSUME BrainInv PROVE TypeOK /\ ResultsEarned /\ RegistryCoherent
  OBVIOUS
<1> DEFINE n == Len(queue.tasks)
<1>1. queue \in BrainQueue
  BY DEF BrainInv, BrainState, BrainQueueOK
<1>2. /\ queue.tasks \in Seq(BrainTask) /\ queue.results \in Seq(BrainResult)
      /\ n \in Nat /\ DOMAIN queue.tasks = 1 .. n /\ DOMAIN queue.results = 1 .. Len(queue.results)
  BY <1>1, BrainQueueType
<1>3. TaskIds(queue) = 1 .. n /\ TaskIds(queue) \cup {0} = 0 .. n
  BY <1>2 DEF TaskIds
<1>4. \A r \in Range(queue.results) :
        \E i \in 1 .. Len(queue.results) : r = queue.results[i]
  BY <1>2 DEF Range
<1>5. \A i \in 1 .. Len(queue.results) :
        /\ <<queue.results[i].task, queue.results[i].worker>> \in claims
        /\ queue.results[i].task \in 1 .. n /\ queue.results[i].worker \in Workers
  BY DEF BrainInv, BrainState, BrainQueueOK
<1>6. ResultsEarned
  <2>1. \A r \in Range(queue.results) : <<r.task, r.worker>> \in claims
    BY <1>4, <1>5
  <2> QED
    BY <1>2, <2>1 DEF ResultsEarned, BrainInv, BrainState, BrainQueueOK
<1>7. RegistryCoherent
  BY DEF RegistryCoherent, BrainInv, BrainState, EntryOK
<1>8. TypeOK
  <2>1. \A t \in 1 .. n : queue.tasks[t].status \in TaskStatus
    <3>1. \A t \in 1 .. n : queue.tasks[t] \in BrainTask
      BY <1>2
    <3> QED
      BY <3>1 DEF BrainTask
  <2>2. \A r \in Range(queue.results) : r.task \in 1 .. n /\ r.worker \in Workers
    BY <1>4, <1>5
  <2>3. claims \subseteq (1 .. n) \X Workers /\ resent \subseteq claims
    BY DEF BrainInv, BrainState, BrainQueueOK
  <2> HIDE DEF n
  <2>4. /\ registry \in [Workers -> WorkerEntry(n)] /\ fresh \in [Workers -> BOOLEAN]
        /\ jobs \in [Plans -> {"none", "accepted", "completed"}]
        /\ poll \in [Workers -> 0 .. n] /\ client \in [Workers -> ClientState(n)]
    BY DEF BrainInv, BrainState, n
  <2> QED
    BY <1>3, <2>1, <2>2, <2>3, <2>4 DEF TypeOK, WorkerEntry, ClientState
<1> QED
  BY <1>6, <1>7, <1>8

LEMMA BrainInitInv == Init => BrainInv
<1> SUFFICES ASSUME Init PROVE BrainInv
  OBVIOUS
<1>1. BrainQueueOK(queue, claims, resent) /\ claims = {}
  BY BrainQueueEmpty DEF Init
<1>2. Len(queue.tasks) = 0
  BY DEF Init, EmptyQueue
<1>3. <<>> \in Todo
  BY DEF Todo
<1>4. NoThread \in SubmitThread(0) /\ NoThread.pc = "none"
  BY <1>3 DEF NoThread, Ended, SubmitThread
<1>5. Unregistered \in WorkerEntry(0) /\ Unregistered.status = "idle" /\ Unregistered.current = 0
  BY DEF Unregistered, WorkerEntry
<1> DEFINE off == [pc |-> "off", task |-> 0]
<1>6. off \in ClientState(0) /\ off.pc = "off"
  BY DEF ClientState
<1> HIDE DEF off
<1>7. /\ registry \in [Workers -> WorkerEntry(0)] /\ fresh \in [Workers -> BOOLEAN]
      /\ jobs \in [Plans -> {"none", "accepted", "completed"}]
      /\ submit \in [Plans -> SubmitThread(0)]
      /\ poll \in [Workers -> 0 .. 0] /\ client \in [Workers -> ClientState(0)]
  BY <1>4, <1>5, <1>6 DEF Init, off
<1>8. \A w \in Workers : ClientOK(queue, claims, resent, w, client[w], poll[w])
  BY <1>2, <1>6 DEF Init, ClientOK, off
<1>9. \A w \in Workers : EntryOK(claims, w, registry[w], 0)
  BY <1>5 DEF Init, EntryOK
<1>10. \A p \in Plans : ThreadOK(submit[p], 0)
  BY <1>4 DEF Init, ThreadOK
<1> QED
  BY <1>1, <1>2, <1>7, <1>8, <1>9, <1>10 DEF BrainInv, BrainState

\* The queue changes, the assignments and the missed answers grow; a worker with
\* a new result for a task is not about to get it, nor works on it unless it
\* missed the answer.
LEMMA BrainQueueMoves ==
  ASSUME NEW q, NEW cl, NEW rs, NEW reg, NEW fr, NEW jb, NEW sub, NEW pl, NEW ct,
         BrainState(q, cl, rs, reg, fr, jb, sub, pl, ct),
         NEW p, NEW dl, NEW ms, BrainQueueOK(p, dl, ms), Len(q.tasks) <= Len(p.tasks),
         cl \subseteq dl, rs \subseteq ms,
         \A w \in Workers : \A u : Did(p, u, w) =>
           Did(q, u, w) \/ (pl[w] # u /\ (ct[w].pc \notin {"working", "storing"} \/ <<u, w>> \in ms))
  PROVE  BrainState(p, dl, ms, reg, fr, jb, sub, pl, ct)
<1> DEFINE n == Len(q.tasks)
           m == Len(p.tasks)
<1>1. n \in Nat /\ m \in Nat /\ n <= m
  BY BrainQueueType DEF BrainState, BrainQueueOK
<1>2. 0 .. n \subseteq 0 .. m /\ 1 .. n \subseteq 1 .. m
  BY <1>1
<1> HIDE DEF n, m
<1>3. WorkerEntry(n) \subseteq WorkerEntry(m) /\ SubmitThread(n) \subseteq SubmitThread(m)
      /\ ClientState(n) \subseteq ClientState(m)
  BY <1>2 DEF WorkerEntry, SubmitThread, ClientState
<1>4. /\ reg \in [Workers -> WorkerEntry(m)] /\ sub \in [Plans -> SubmitThread(m)]
      /\ pl \in [Workers -> 0 .. m] /\ ct \in [Workers -> ClientState(m)]
  <2>1. /\ reg \in [Workers -> WorkerEntry(n)] /\ sub \in [Plans -> SubmitThread(n)]
        /\ pl \in [Workers -> 0 .. n] /\ ct \in [Workers -> ClientState(n)]
    BY DEF BrainState, n
  <2> QED
    BY <1>2, <1>3, <2>1
<1>5. ASSUME NEW w \in Workers PROVE ClientOK(p, dl, ms, w, ct[w], pl[w])
  <2>1. ClientOK(q, cl, rs, w, ct[w], pl[w])
    BY DEF BrainState
  <2> QED
    BY <1>2, <1>3, <2>1 DEF ClientOK, n, m
<1>6. ASSUME NEW w \in Workers PROVE EntryOK(dl, w, reg[w], m)
  <2>1. EntryOK(cl, w, reg[w], n)
    BY DEF BrainState, n
  <2> QED
    BY <1>3, <2>1 DEF EntryOK
<1>7. ASSUME NEW x \in Plans PROVE ThreadOK(sub[x], m)
  <2>1. ThreadOK(sub[x], n)
    BY DEF BrainState, n
  <2> QED
    BY <1>2, <1>3, <2>1 DEF ThreadOK
<1> QED
  BY <1>4, <1>5, <1>6, <1>7 DEF BrainState, m

\* The registry entry of one worker changes.
LEMMA BrainEntrySet ==
  ASSUME NEW q, NEW cl, NEW rs, NEW reg, NEW fr, NEW jb, NEW sub, NEW pl, NEW ct,
         BrainState(q, cl, rs, reg, fr, jb, sub, pl, ct),
         NEW w \in Workers, NEW r, EntryOK(cl, w, r, Len(q.tasks))
  PROVE  BrainState(q, cl, rs, [reg EXCEPT ![w] = r], fr, jb, sub, pl, ct)
<1>1. r \in WorkerEntry(Len(q.tasks))
  BY DEF EntryOK
<1> DEFINE new == [reg EXCEPT ![w] = r]
<1>2. /\ new \in [Workers -> WorkerEntry(Len(q.tasks))] /\ new[w] = r
      /\ \A v \in Workers : v # w => new[v] = reg[v]
  BY <1>1 DEF BrainState
<1> HIDE DEF new
<1>3. \A v \in Workers : EntryOK(cl, v, new[v], Len(q.tasks))
  BY <1>2 DEF BrainState
<1>4. BrainState(q, cl, rs, new, fr, jb, sub, pl, ct)
  BY <1>2, <1>3 DEF BrainState
<1> QED
  BY <1>4 DEF new

\* The process of one worker, and the next-task thread that serves it, change.
LEMMA BrainClientSet ==
  ASSUME NEW q, NEW cl, NEW rs, NEW reg, NEW fr, NEW jb, NEW sub, NEW pl, NEW ct,
         BrainState(q, cl, rs, reg, fr, jb, sub, pl, ct),
         NEW w \in Workers, NEW c, NEW x, ClientOK(q, cl, rs, w, c, x)
  PROVE  BrainState(q, cl, rs, reg, fr, jb, sub, [pl EXCEPT ![w] = x], [ct EXCEPT ![w] = c])
<1>1. c \in ClientState(Len(q.tasks)) /\ x \in 0 .. Len(q.tasks)
  BY DEF ClientOK
<1> DEFINE pn == [pl EXCEPT ![w] = x]
           cn == [ct EXCEPT ![w] = c]
<1>2. /\ pn \in [Workers -> 0 .. Len(q.tasks)] /\ pn[w] = x
      /\ \A v \in Workers : v # w => pn[v] = pl[v]
  BY <1>1 DEF BrainState
<1>3. /\ cn \in [Workers -> ClientState(Len(q.tasks))] /\ cn[w] = c
      /\ \A v \in Workers : v # w => cn[v] = ct[v]
  BY <1>1 DEF BrainState
<1> HIDE DEF pn, cn
<1>4. \A v \in Workers : ClientOK(q, cl, rs, v, cn[v], pn[v])
  BY <1>2, <1>3 DEF BrainState
<1>5. BrainState(q, cl, rs, reg, fr, jb, sub, pn, cn)
  BY <1>2, <1>3, <1>4 DEF BrainState
<1> QED
  BY <1>5 DEF pn, cn

LEMMA BrainProcessSet ==
  ASSUME NEW q, NEW cl, NEW rs, NEW reg, NEW fr, NEW jb, NEW sub, NEW pl, NEW ct,
         BrainState(q, cl, rs, reg, fr, jb, sub, pl, ct),
         NEW w \in Workers, NEW c, ClientOK(q, cl, rs, w, c, pl[w])
  PROVE  BrainState(q, cl, rs, reg, fr, jb, sub, pl, [ct EXCEPT ![w] = c])
<1> DEFINE pn == [pl EXCEPT ![w] = pl[w]]
           cn == [ct EXCEPT ![w] = c]
<1>1. pn = pl
  BY DEF BrainState
<1>2. BrainState(q, cl, rs, reg, fr, jb, sub, pn, cn)
  BY BrainClientSet
<1> HIDE DEF pn, cn
<1>3. BrainState(q, cl, rs, reg, fr, jb, sub, pl, cn)
  BY <1>1, <1>2
<1> QED
  BY <1>3 DEF cn

\* A submit-job thread moves on.
LEMMA BrainThreadSet ==
  ASSUME NEW q, NEW cl, NEW rs, NEW reg, NEW fr, NEW jb, NEW sub, NEW pl, NEW ct,
         BrainState(q, cl, rs, reg, fr, jb, sub, pl, ct),
         NEW p \in Plans, NEW s, ThreadOK(s, Len(q.tasks))
  PROVE  BrainState(q, cl, rs, reg, fr, jb, [sub EXCEPT ![p] = s], pl, ct)
<1>1. s \in SubmitThread(Len(q.tasks))
  BY DEF ThreadOK
<1> DEFINE new == [sub EXCEPT ![p] = s]
<1>2. /\ new \in [Plans -> SubmitThread(Len(q.tasks))] /\ new[p] = s
      /\ \A x \in Plans : x # p => new[x] = sub[x]
  BY <1>1 DEF BrainState
<1> HIDE DEF new
<1>3. \A x \in Plans : ThreadOK(new[x], Len(q.tasks))
  BY <1>2 DEF BrainState
<1>4. BrainState(q, cl, rs, reg, fr, jb, new, pl, ct)
  BY <1>2, <1>3 DEF BrainState
<1> QED
  BY <1>4 DEF new

\* Heartbeat times and the job table are bound to nothing else.
LEMMA BrainTableSet ==
  ASSUME NEW q, NEW cl, NEW rs, NEW reg, NEW fr, NEW jb, NEW sub, NEW pl, NEW ct,
         BrainState(q, cl, rs, reg, fr, jb, sub, pl, ct),
         NEW f \in [Workers -> BOOLEAN], NEW j \in [Plans -> {"none", "accepted", "completed"}]
  PROVE  BrainState(q, cl, rs, reg, f, j, sub, pl, ct)
BY DEF BrainState

LEMMA BrainLen ==
  ASSUME NEW q, NEW cl, NEW rs, BrainQueueOK(q, cl, rs)
  PROVE  Len(q.tasks) \in Nat
BY BrainQueueType DEF BrainQueueOK

\* The entries that handlers write.
LEMMA BrainEntries ==
  ASSUME NEW cl, NEW n \in Nat, NEW w
  PROVE  /\ EntryOK(cl, w, Registered("idle", 0), n)
         /\ EntryOK(cl, w, Unregistered, n)
         /\ \A t \in 1 .. n : <<t, w>> \in cl => EntryOK(cl, w, Registered("busy", t), n)
<1>1. 0 \in 0 .. n /\ \A t \in 1 .. n : t \in 0 .. n /\ t # 0
  OBVIOUS
<1> QED
  BY <1>1 DEF EntryOK, Registered, Unregistered, WorkerEntry

LEMMA BrainSetRegistry ==
  ASSUME NEW q, NEW cl, NEW rs, NEW fr, NEW jb, NEW sub, NEW pl, NEW ct,
         BrainState(q, cl, rs, registry, fr, jb, sub, pl, ct),
         NEW w \in Workers, NEW status, NEW t,
         EntryOK(cl, w, Registered(status, t), Len(q.tasks)), SetRegistry(w, status, t)
  PROVE  BrainState(q, cl, rs, registry', fr, jb, sub, pl, ct)
<1>1. BrainState(q, cl, rs, [registry EXCEPT ![w] = Registered(status, t)], fr, jb, sub, pl, ct)
  BY BrainEntrySet
<1> QED
  BY <1>1 DEF SetRegistry

\* A client that is not at work.
LEMMA BrainIdleClient ==
  ASSUME NEW q, NEW cl, NEW rs, BrainQueueOK(q, cl, rs), NEW w, NEW c, NEW x, ClientOK(q, cl, rs, w, c, x),
         NEW pc \in {"off", "ready", "waiting"}
  PROVE  ClientOK(q, cl, rs, w, [pc |-> pc, task |-> 0], x)
<1>1. Len(q.tasks) \in Nat
  BY BrainLen
<1>2. 0 \in 0 .. Len(q.tasks)
  BY <1>1
<1> DEFINE d == [pc |-> pc, task |-> 0]
<1>3. d \in ClientState(Len(q.tasks)) /\ d.pc = pc
  BY <1>2 DEF ClientState
<1> HIDE DEF d
<1>4. ClientOK(q, cl, rs, w, d, x)
  BY <1>3 DEF ClientOK
<1> QED
  BY <1>4 DEF d

\* register-worker, the heartbeat, its expiry and the end of a worker process.
LEMMA BrainRegistryInv ==
  ASSUME BrainInv, NEW w \in Workers,
         RegisterWorker(w) \/ WorkerHeartbeat(w) \/ HeartbeatExpires(w) \/ WorkerStops(w)
  PROVE  BrainInv'
<1>1. /\ BrainState(queue, claims, resent, registry, fresh, jobs, submit, poll, client)
      /\ BrainQueueOK(queue, claims, resent) /\ ClientOK(queue, claims, resent, w, client[w], poll[w])
      /\ fresh \in [Workers -> BOOLEAN] /\ jobs \in [Plans -> {"none", "accepted", "completed"}]
      /\ registry \in [Workers -> WorkerEntry(Len(queue.tasks))] /\ poll \in [Workers -> 0 .. Len(queue.tasks)]
  BY DEF BrainInv, BrainState
<1>2. Len(queue.tasks) \in Nat
  BY <1>1, BrainLen
<1>3. EntryOK(claims, w, Registered("idle", 0), Len(queue.tasks))
  BY <1>2, BrainEntries
<1>4. registry[w].known \in BOOLEAN
  BY <1>1 DEF WorkerEntry
<1>6. CASE RegisterWorker(w)
  <2>1. BrainState(queue, claims, resent, registry', fresh, jobs, submit, poll, client)
    BY <1>1, <1>3, <1>6, BrainEntrySet DEF RegisterWorker
  <2>2. BrainState(queue, claims, resent, registry', fresh', jobs, submit, poll, client)
    <3>1. fresh' \in [Workers -> BOOLEAN]
      BY <1>1, <1>6 DEF RegisterWorker
    <3> QED
      BY <1>1, <2>1, <3>1, BrainTableSet
  <2>3. ClientOK(queue, claims, resent, w, [pc |-> "ready", task |-> 0], poll[w])
    BY <1>1, BrainIdleClient
  <2>4. BrainState(queue, claims, resent, registry', fresh', jobs, submit, poll, client')
    BY <1>6, <2>2, <2>3, BrainProcessSet DEF RegisterWorker
  <2> QED
    BY <1>6, <2>4 DEF BrainInv, RegisterWorker
<1>7. CASE WorkerHeartbeat(w)
  <2>1. BrainState(queue, claims, resent, registry', fresh, jobs, submit, poll, client)
    BY <1>1, <1>3, <1>7, BrainSetRegistry DEF WorkerHeartbeat
  <2>2. BrainState(queue, claims, resent, registry', fresh', jobs, submit, poll, client)
    <3>1. fresh' \in [Workers -> BOOLEAN]
      BY <1>1, <1>4, <1>7 DEF WorkerHeartbeat
    <3> QED
      BY <1>1, <2>1, <3>1, BrainTableSet
  <2> QED
    BY <1>7, <2>2 DEF BrainInv, WorkerHeartbeat
<1>8. CASE HeartbeatExpires(w)
  <2>1. fresh' \in [Workers -> BOOLEAN]
    BY <1>1, <1>8 DEF HeartbeatExpires
  <2>2. BrainState(queue, claims, resent, registry, fresh', jobs, submit, poll, client)
    BY <1>1, <2>1, BrainTableSet
  <2> QED
    BY <1>8, <2>2 DEF BrainInv, HeartbeatExpires
<1>9. CASE WorkerStops(w)
  <2>1. ClientOK(queue, claims, resent, w, [pc |-> "off", task |-> 0], poll[w])
    BY <1>1, BrainIdleClient
  <2>2. BrainState(queue, claims, resent, registry, fresh, jobs, submit, poll, client')
    BY <1>1, <1>9, <2>1, BrainProcessSet DEF WorkerStops
  <2> QED
    BY <1>9, <2>2 DEF BrainInv, WorkerStops
<1> QED
  BY <1>6, <1>7, <1>8, <1>9

\* The list of workers and the restart of the server.
LEMMA BrainServerInv ==
  ASSUME BrainInv, ListWorkers \/ ServerRestart
  PROVE  BrainInv'
<1>1. /\ BrainState(queue, claims, resent, registry, fresh, jobs, submit, poll, client)
      /\ BrainQueueOK(queue, claims, resent)
  BY DEF BrainInv, BrainState
<1> DEFINE n == Len(queue.tasks)
<1>2. n \in Nat
  BY <1>1, BrainLen
<1>3. \A w \in Workers : EntryOK(claims, w, Unregistered, n) /\ EntryOK(claims, w, registry[w], n)
  BY <1>1, <1>2, BrainEntries DEF BrainState
<1>4. CASE ListWorkers
  <2>1. \A w \in Workers : EntryOK(claims, w, registry'[w], n)
    BY <1>3, <1>4 DEF ListWorkers
  <2>2. registry' \in [Workers -> WorkerEntry(n)]
    BY <1>3, <1>4 DEF ListWorkers, EntryOK
  <2> QED
    BY <1>1, <1>4, <2>1, <2>2 DEF ListWorkers, BrainInv, BrainState
<1>5. CASE ServerRestart
  <2>1. registry' \in [Workers -> WorkerEntry(n)] /\ \A w \in Workers : EntryOK(claims, w, registry'[w], n)
    BY <1>3, <1>5 DEF ServerRestart, EntryOK
  <2>2. ThreadOK(Ended("failed"), n)
    <3>1. <<>> \in Todo
      BY DEF Todo
    <3> QED
      BY <1>2, <3>1 DEF Ended, ThreadOK, SubmitThread
  <2>3. \A p \in Plans : ThreadOK(submit[p], n)
    BY <1>1 DEF BrainState
  <2>4. \A p \in Plans : ThreadOK(submit'[p], n)
    BY <1>5, <2>2, <2>3 DEF ServerRestart
  <2>5. submit' \in [Plans -> SubmitThread(n)]
    BY <1>5, <2>2, <2>3 DEF ServerRestart, ThreadOK
  <2>6. \A w \in Workers : ClientOK(queue, claims, resent, w, client[w], 0)
        /\ ClientOK(queue, claims, resent, w, [pc |-> "ready", task |-> 0], 0)
    <3>1. \A w \in Workers : ClientOK(queue, claims, resent, w, client[w], 0)
      <4>1. \A w \in Workers : ClientOK(queue, claims, resent, w, client[w], poll[w])
        BY <1>1 DEF BrainState
      <4>2. 0 \in 0 .. n
        BY <1>2
      <4> QED
        BY <4>1, <4>2 DEF ClientOK
    <3> QED
      BY <1>1, <3>1, BrainIdleClient
  <2>7. \A w \in Workers : client'[w] = IF client[w].pc \in {"waiting", "storing"}
                                        THEN [pc |-> "ready", task |-> 0] ELSE client[w]
    BY <1>5 DEF ServerRestart
  <2>8. \A w \in Workers : ClientOK(queue, claims, resent, w, client'[w], 0)
    BY <2>6, <2>7
  <2>9. client' \in [Workers -> ClientState(n)]
    BY <1>5, <2>6 DEF ServerRestart, ClientOK
  <2>10. poll' \in [Workers -> 0 .. n] /\ \A w \in Workers : poll'[w] = 0
    BY <1>2, <1>5 DEF ServerRestart
  <2>11. /\ fresh' \in [Workers -> BOOLEAN] /\ jobs' \in [Plans -> {"none", "accepted", "completed"}]
         /\ UNCHANGED <<queue, claims, resent>>
    BY <1>5 DEF ServerRestart
  <2> HIDE DEF n
  <2>12. BrainState(queue, claims, resent, registry', fresh', jobs', submit', poll', client')
    BY <1>1, <2>1, <2>4, <2>5, <2>8, <2>9, <2>10, <2>11 DEF BrainState, n
  <2> QED
    BY <2>11, <2>12 DEF BrainInv
<1> QED
  BY <1>4, <1>5

\* Lists of task and subtask numbers.
LEMMA TodoTail ==
  ASSUME NEW s \in Todo, s # <<>>
  PROVE  Tail(s) \in Todo /\ Head(s) \in Nat
BY DEF Todo

LEMMA TodoPending ==
  ASSUME NEW q, NEW cl, NEW rs, BrainQueueOK(q, cl, rs)
  PROVE  ListPending(q) \in Todo
<1> DEFINE keep == [t \in TaskIds(q) |-> q.tasks[t].status = "pending"]
<1>1. Len(q.tasks) \in Nat /\ TaskIds(q) = 1 .. Len(q.tasks)
  BY BrainQueueType DEF BrainQueueOK, TaskIds
<1>2. keep \in Seq(BOOLEAN) /\ Len(keep) = Len(q.tasks)
  BY <1>1
<1>3. ListPending(q) = Selected(keep)
  BY DEF ListPending
<1> HIDE DEF keep
<1>4. Selected(keep) \in Seq(Kept(keep))
  BY <1>2, SelectedIsKept
<1>5. Kept(keep) \subseteq Nat
  BY <1>2 DEF Kept
<1> QED
  BY <1>3, <1>4, <1>5, SeqMonotonic DEF Todo

LEMMA TodoPlan == ASSUME NEW p \in Plans PROVE [i \in DOMAIN Subtasks[p] |-> i] \in Todo
<1> DEFINE n == Len(Subtasks[p])
<1>1. n \in Nat /\ DOMAIN Subtasks[p] = 1 .. n
  BY BrainAssumption
<1> HIDE DEF n
<1>2. [i \in 1 .. n |-> i] \in Seq(Nat)
  BY <1>1
<1> QED
  BY <1>1, <1>2 DEF Todo

\* One claim: the task and the worker are tied, in the queue and in the registry.
LEMMA BrainClaims ==
  ASSUME NEW reg, NEW fr, NEW jb, NEW sub, NEW pl, NEW ct,
         BrainState(queue, claims, resent, reg, fr, jb, sub, pl, ct),
         NEW w \in Workers, NEW t \in 1 .. Len(queue.tasks),
         queue' = Assign(queue, t, w), claims' = claims \cup {<<t, w>>}
  PROVE  /\ BrainState(queue', claims', resent, reg, fr, jb, sub, pl, ct)
         /\ Len(queue'.tasks) = Len(queue.tasks)
         /\ queue'.results = queue.results
         /\ EntryOK(claims', w, Registered("busy", t), Len(queue'.tasks))
<1>1. BrainQueueOK(queue, claims, resent)
  BY DEF BrainState
<1>2. /\ BrainQueueOK(queue', claims', resent) /\ Len(queue'.tasks) = Len(queue.tasks)
      /\ queue'.results = queue.results
  BY <1>1, BrainAssign
<1> DEFINE q == queue'
           cl == claims'
<1>3. Len(queue.tasks) \in Nat /\ <<t, w>> \in cl /\ claims \subseteq cl
  BY <1>1, BrainLen
<1> HIDE DEF q, cl
<1>4. \A v \in Workers : \A u : Did(q, u, v) => Did(queue, u, v)
  BY <1>2 DEF Did, q
<1>5. BrainQueueOK(q, cl, resent) /\ Len(queue.tasks) <= Len(q.tasks) /\ Len(q.tasks) \in Nat
  BY <1>2, <1>3 DEF q, cl
<1>6. BrainState(q, cl, resent, reg, fr, jb, sub, pl, ct)
  BY <1>3, <1>4, <1>5, BrainQueueMoves
<1>7. EntryOK(cl, w, Registered("busy", t), Len(q.tasks))
  BY <1>2, <1>3, BrainEntries DEF q
<1> QED
  BY <1>2, <1>6, <1>7 DEF q, cl

\* The submit-job thread of a plan.
LEMMA BrainSubmitInv ==
  ASSUME BrainInv, NEW p \in Plans, SubmitPlan(p) \/ ServerStep(p)
  PROVE  BrainInv'
<1> DEFINE n == Len(queue.tasks)
           s == submit[p]
<1>1. /\ BrainState(queue, claims, resent, registry, fresh, jobs, submit, poll, client)
      /\ BrainQueueOK(queue, claims, resent) /\ s \in SubmitThread(n) /\ ThreadOK(s, n)
      /\ fresh \in [Workers -> BOOLEAN] /\ jobs \in [Plans -> {"none", "accepted", "completed"}]
  BY DEF BrainInv, BrainState
<1>2. n \in Nat
  BY <1>1, BrainLen
<1>3. 0 \in 0 .. n
  BY <1>2
<1>4. s.todo \in Todo /\ s.first \in Workers \cup {NoWorker} /\ s.pick \in 0 .. n
  BY <1>1 DEF SubmitThread
<1>5. CASE SubmitPlan(p)
  <2> DEFINE x == [pc |-> "plan", todo |-> [i \in DOMAIN Subtasks[p] |-> i],
                   first |-> NoWorker, pick |-> 0]
  <2>1. ThreadOK(x, n)
    BY <1>3, TodoPlan DEF ThreadOK, SubmitThread
  <2>2. submit' = [submit EXCEPT ![p] = x]
    BY <1>5 DEF SubmitPlan
  <2> HIDE DEF x
  <2>3. BrainState(queue, claims, resent, registry, fresh, jobs, submit', poll, client)
    BY <1>1, <2>1, <2>2, BrainThreadSet
  <2> QED
    BY <1>5, <2>3 DEF BrainInv, SubmitPlan
<1>6. CASE SubmitSubtask(p)
  <2> DEFINE i == Head(s.todo)
             x == [s EXCEPT !.todo = Tail(s.todo)]
  <2>1. Tail(s.todo) \in Todo /\ i \in Nat /\ s.pc = "plan"
    BY <1>4, <1>6, TodoTail DEF SubmitSubtask
  <2>2. QueueJob(p, i) \in JobNames /\ Subtasks[p][i] \in RoleNames
    BY <2>1 DEF JobNames, RoleNames
  <2>3. queue' = SubmitJob(queue, QueueJob(p, i), Subtasks[p][i], 1)
    BY <1>6 DEF SubmitSubtask
  <2>4. BrainQueueOK(queue', claims, resent) /\ Len(queue'.tasks) = n + 1 /\ queue'.results = queue.results
    BY <1>1, <2>2, <2>3, BrainSubmitJob
  <2>5. x \in SubmitThread(n) /\ x.pc = "plan"
    BY <1>1, <2>1 DEF SubmitThread
  <2>6. submit' = [submit EXCEPT ![p] = x]
    BY <1>6 DEF SubmitSubtask
  <2>7. ThreadOK(x, n)
    BY <2>5 DEF ThreadOK
  <2> HIDE DEF x
  <2>8. BrainState(queue, claims, resent, registry, fresh, jobs, submit', poll, client)
    BY <1>1, <2>6, <2>7, BrainThreadSet
  <2> DEFINE q == queue'
  <2>9. \A w \in Workers : \A u : Did(q, u, w) => Did(queue, u, w)
    BY <2>4 DEF Did
  <2>10. n <= Len(q.tasks) /\ BrainQueueOK(q, claims, resent) /\ claims \subseteq claims
    BY <1>2, <2>4
  <2> HIDE DEF q
  <2>11. BrainState(q, claims, resent, registry, fresh, jobs, submit', poll, client)
    BY <2>8, <2>9, <2>10, BrainQueueMoves
  <2> QED
    BY <1>6, <2>11 DEF BrainInv, SubmitSubtask, q
<1>7. CASE AcceptPlan(p)
  <2>1. PICK first \in IF IdleWorkers = {} THEN {NoWorker} ELSE IdleWorkers :
          submit' = [submit EXCEPT ![p] =
            [pc |-> "dispatch", todo |-> ListPending(queue), first |-> first, pick |-> 0]]
    BY <1>7 DEF AcceptPlan
  <2> DEFINE x == [pc |-> "dispatch", todo |-> ListPending(queue), first |-> first, pick |-> 0]
  <2>2. first \in Workers \cup {NoWorker}
    BY DEF IdleWorkers
  <2>3. ThreadOK(x, n)
    BY <1>1, <1>3, <2>2, TodoPending DEF ThreadOK, SubmitThread
  <2> HIDE DEF x
  <2>4. BrainState(queue, claims, resent, registry, fresh, jobs, submit', poll, client)
    BY <1>1, <2>1, <2>3, BrainThreadSet DEF x
  <2>5. jobs' \in [Plans -> {"none", "accepted", "completed"}]
    BY <1>1, <1>7 DEF AcceptPlan
  <2>6. BrainState(queue, claims, resent, registry, fresh, jobs', submit', poll, client)
    BY <1>1, <2>4, <2>5, BrainTableSet
  <2> QED
    BY <1>7, <2>6 DEF BrainInv, AcceptPlan
<1>8. CASE DispatchFind(p)
  <2> DEFINE found == Claimable(queue, queue.tasks[Head(s.todo)].type)
             skip == [s EXCEPT !.todo = Tail(s.todo)]
             take == [s EXCEPT !.pc = "claim", !.pick = Head(found)]
  <2>1. s.pc = "dispatch" /\ s.todo # <<>>
    BY <1>8 DEF DispatchFind
  <2>2. ThreadOK(skip, n)
    <3>1. Tail(s.todo) \in Todo
      BY <1>4, <2>1, TodoTail
    <3>2. skip \in SubmitThread(n) /\ skip.pc = "dispatch"
      BY <1>1, <2>1, <3>1 DEF SubmitThread
    <3> QED
      BY <3>2 DEF ThreadOK
  <2>3. ASSUME s.first # NoWorker, found # <<>> PROVE ThreadOK(take, n)
    <3>1. Head(found) \in 1 .. n
      BY <1>1, <2>3, BrainFound
    <3> DEFINE t == Head(found)
    <3> HIDE DEF found, t
    <3>2. t \in 0 .. n /\ t \in 1 .. n
      BY <1>2, <3>1 DEF t
    <3>3. [s EXCEPT !.pc = "claim", !.pick = t] \in SubmitThread(n)
      BY <1>1, <3>2 DEF SubmitThread
    <3>4. /\ [s EXCEPT !.pc = "claim", !.pick = t].first \in Workers
          /\ [s EXCEPT !.pc = "claim", !.pick = t].pick \in 1 .. n
          /\ [s EXCEPT !.pc = "claim", !.pick = t].todo # <<>>
      BY <1>1, <1>4, <2>1, <2>3, <3>2 DEF SubmitThread
    <3> QED
      BY <3>3, <3>4 DEF ThreadOK, t
  <2>4. \E x \in {skip, take} : ThreadOK(x, n) /\ submit' = [submit EXCEPT ![p] = x]
    <3>1. submit' = [submit EXCEPT ![p] =
             IF s.first = NoWorker \/ queue.tasks[Head(s.todo)].worker # NoWorker \/ found = <<>>
             THEN skip ELSE take]
      BY <1>8 DEF DispatchFind
    <3> HIDE DEF skip, take, found
    <3> QED
      BY <2>2, <2>3, <3>1
  <2>5. BrainState(queue, claims, resent, registry, fresh, jobs, submit', poll, client)
    <3>1. PICK x : ThreadOK(x, n) /\ submit' = [submit EXCEPT ![p] = x]
      BY <2>4
    <3> QED
      BY <1>1, <3>1, BrainThreadSet
  <2> QED
    BY <1>8, <2>5 DEF BrainInv, DispatchFind
<1>9. CASE DispatchClaim(p)
  <2> DEFINE next == [s EXCEPT !.pc = "dispatch", !.todo = Tail(s.todo), !.pick = 0]
             x == IF registry[s.first].known THEN next ELSE Ended("failed")
  <2>1. s.todo # <<>> /\ s.first \in Workers /\ s.pick \in 1 .. n
    BY <1>1, <1>9 DEF ThreadOK, DispatchClaim
  <2>2. /\ queue' = Assign(queue, s.pick, s.first) /\ claims' = claims \cup {<<s.pick, s.first>>}
        /\ SetRegistry(s.first, "busy", s.pick) /\ submit' = [submit EXCEPT ![p] = x]
    BY <1>9 DEF DispatchClaim
  <2>3. /\ BrainState(queue', claims', resent, registry, fresh, jobs, submit, poll, client)
        /\ Len(queue'.tasks) = n
        /\ EntryOK(claims', s.first, Registered("busy", s.pick), Len(queue'.tasks))
    BY <1>1, <2>1, <2>2, BrainClaims
  <2>4. BrainState(queue', claims', resent, registry', fresh, jobs, submit, poll, client)
    BY <2>1, <2>2, <2>3, BrainSetRegistry
  <2>5. ThreadOK(x, n)
    <3>1. Tail(s.todo) \in Todo /\ <<>> \in Todo
      BY <1>4, <2>1, TodoTail DEF Todo
    <3>2. next \in SubmitThread(n) /\ next.pc = "dispatch"
      BY <1>1, <1>3, <3>1 DEF SubmitThread
    <3>3. Ended("failed") \in SubmitThread(n) /\ Ended("failed").pc = "failed"
      BY <1>3, <3>1 DEF SubmitThread, Ended
    <3> HIDE DEF next
    <3> QED
      BY <3>2, <3>3 DEF ThreadOK
  <2> HIDE DEF x
  <2>6. BrainState(queue', claims', resent, registry', fresh, jobs, submit', poll, client)
    BY <2>2, <2>3, <2>4, <2>5, BrainThreadSet
  <2> QED
    BY <1>9, <2>6 DEF BrainInv, DispatchClaim
<1>10. CASE DispatchReturn(p)
  <2>1. ThreadOK(Ended("done"), n)
    <3>1. <<>> \in Todo
      BY DEF Todo
    <3> QED
      BY <1>3, <3>1 DEF ThreadOK, SubmitThread, Ended
  <2>2. BrainState(queue, claims, resent, registry, fresh, jobs, submit', poll, client)
    BY <1>1, <1>10, <2>1, BrainThreadSet DEF DispatchReturn
  <2> QED
    BY <1>10, <2>2 DEF BrainInv, DispatchReturn
<1> QED
  BY <1>5, <1>6, <1>7, <1>8, <1>9, <1>10 DEF ServerStep

\* The requests of a worker that polls, works and sends its result.
LEMMA BrainWorkerInv ==
  ASSUME BrainInv, NEW w \in Workers, WorkerStep(w)
  PROVE  BrainInv'
<1> DEFINE n == Len(queue.tasks)
           c == client[w]
           x == poll[w]
           ready == [pc |-> "ready", task |-> 0]
<1>1. /\ BrainState(queue, claims, resent, registry, fresh, jobs, submit, poll, client)
      /\ BrainQueueOK(queue, claims, resent) /\ ClientOK(queue, claims, resent, w, c, x)
      /\ fresh \in [Workers -> BOOLEAN] /\ jobs \in [Plans -> {"none", "accepted", "completed"}]
      /\ c \in ClientState(n) /\ x \in 0 .. n /\ registry[w] \in WorkerEntry(n)
      /\ client \in [Workers -> ClientState(n)]
  BY DEF BrainInv, BrainState
<1>2. n \in Nat
  BY <1>1, BrainLen
<1>3. EntryOK(claims, w, Registered("idle", 0), n)
  BY <1>2, BrainEntries
<1>4. c.pc \in {"off", "ready", "waiting", "working", "storing"} /\ c.task \in 0 .. n
  BY <1>1 DEF ClientState
<1>5. ClientOK(queue, claims, resent, w, ready, x)
  BY <1>1, BrainIdleClient
<1> HIDE DEF ready
<1>6. CASE NextTaskFind(w)
  <2> DEFINE found == Claimable(queue, Capability[w])
  <2>1. fresh' \in [Workers -> BOOLEAN]
    BY <1>1, <1>6 DEF NextTaskFind, WorkerEntry
  <2>2. BrainState(queue, claims, resent, registry, fresh', jobs, submit, poll, client)
    BY <1>1, <2>1, BrainTableSet
  <2>3. CASE found = <<>>
    BY <1>6, <2>2, <2>3 DEF BrainInv, NextTaskFind
  <2>4. CASE found # <<>>
    <3> DEFINE t == Head(found)
               d == [c EXCEPT !.pc = "waiting"]
    <3>1. t \in 1 .. n /\ ~Did(queue, t, w)
      BY <1>1, <2>4, BrainFound
    <3>2. poll' = [poll EXCEPT ![w] = t] /\ client' = [client EXCEPT ![w] = d]
      BY <1>6, <2>4 DEF NextTaskFind
    <3> HIDE DEF found, t
    <3>3. t \in 0 .. n
      BY <1>2, <3>1
    <3>4. d \in ClientState(n) /\ d.pc = "waiting"
      BY <1>1 DEF ClientState
    <3> HIDE DEF d
    <3>5. ClientOK(queue, claims, resent, w, d, t)
      BY <3>1, <3>3, <3>4 DEF ClientOK
    <3>6. BrainState(queue, claims, resent, registry, fresh', jobs, submit, poll', client')
      BY <2>2, <3>2, <3>5, BrainClientSet
    <3> QED
      BY <1>6, <3>6 DEF BrainInv, NextTaskFind
  <2> QED
    BY <2>3, <2>4
<1>7. CASE NextTaskClaim(w)
  <2> DEFINE q == queue'
             cl == claims'
             working == [pc |-> "working", task |-> x]
  <2>1. x \in 1 .. n
    BY <1>1, <1>2, <1>7 DEF NextTaskClaim
  <2>2. /\ queue' = Assign(queue, x, w) /\ claims' = claims \cup {<<x, w>>}
        /\ SetRegistry(w, "busy", x) /\ poll' = [poll EXCEPT ![w] = 0]
        /\ \E d \in AnswerTo(w) : client' = [client EXCEPT ![w] = d]
    BY <1>7 DEF NextTaskClaim
  <2>3. /\ BrainState(q, cl, resent, registry, fresh, jobs, submit, poll, client)
        /\ Len(q.tasks) = n /\ q.results = queue.results
        /\ EntryOK(cl, w, Registered("busy", x), Len(q.tasks))
    BY <1>1, <2>1, <2>2, BrainClaims
  <2>4. BrainState(q, cl, resent, registry', fresh, jobs, submit, poll, client)
    BY <2>2, <2>3, BrainSetRegistry
  <2>5. <<x, w>> \in cl
    BY <2>2
  <2> HIDE DEF q, cl
  <2>6. ClientOK(q, cl, resent, w, c, x) /\ BrainQueueOK(q, cl, resent)
    BY <2>3 DEF BrainState
  <2>7. 0 \in 0 .. n /\ x # 0 /\ x \in 0 .. n
    BY <1>2, <2>1
  <2>8. ~Did(q, x, w) \/ <<x, w>> \in resent
    BY <2>6, <2>7 DEF ClientOK
  <2>9. ClientOK(q, cl, resent, w, c, 0)
    BY <2>3, <2>6, <2>7 DEF ClientOK
  <2>10. ClientOK(q, cl, resent, w, ready, 0)
    BY <2>6, <2>9, BrainIdleClient DEF ready
  <2>11. ClientOK(q, cl, resent, w, working, 0)
    <3>1. working \in ClientState(n) /\ working.task = x
      BY <2>7 DEF ClientState
    <3> HIDE DEF working
    <3> QED
      BY <2>1, <2>3, <2>5, <2>7, <2>8, <3>1 DEF ClientOK
  <2>12. PICK d \in AnswerTo(w) : client' = [client EXCEPT ![w] = d]
    BY <2>2
  <2>13. d \in {c, ready, working}
    BY DEF AnswerTo, ready
  <2> HIDE DEF working
  <2>14. ClientOK(q, cl, resent, w, d, 0)
    BY <2>9, <2>10, <2>11, <2>13
  <2>15. BrainState(q, cl, resent, registry', fresh, jobs, submit, poll', client')
    BY <2>2, <2>4, <2>12, <2>14, BrainClientSet
  <2> QED
    BY <1>7, <2>15 DEF BrainInv, NextTaskClaim, q, cl
<1>8. CASE SubmitResultCheck(w)
  <2>1. CASE Accepts(queue, c.task, w)
    <3> DEFINE d == [c EXCEPT !.pc = "storing"]
    <3>1. client' = [client EXCEPT ![w] = d] /\ registry' = registry /\ c.pc = "working"
      BY <1>8, <2>1 DEF SubmitResultCheck
    <3>2. d \in ClientState(n) /\ d.pc = "storing" /\ d.task = c.task
      BY <1>1 DEF ClientState
    <3> HIDE DEF d
    <3>3. ClientOK(queue, claims, resent, w, d, x)
      BY <1>1, <3>1, <3>2 DEF ClientOK
    <3>4. BrainState(queue, claims, resent, registry, fresh, jobs, submit, poll, client')
      BY <1>1, <3>1, <3>3, BrainProcessSet
    <3> QED
      BY <1>8, <3>1, <3>4 DEF BrainInv, SubmitResultCheck
  <2>2. CASE ~Accepts(queue, c.task, w)
    <3>1. client' = [client EXCEPT ![w] = ready] /\ SetRegistry(w, "idle", 0)
      BY <1>8, <2>2 DEF SubmitResultCheck, ready
    <3>2. BrainState(queue, claims, resent, registry', fresh, jobs, submit, poll, client)
      BY <1>1, <1>3, <3>1, BrainSetRegistry
    <3>3. BrainState(queue, claims, resent, registry', fresh, jobs, submit, poll, client')
      BY <1>5, <3>1, <3>2, BrainProcessSet
    <3> QED
      BY <1>8, <3>3 DEF BrainInv, SubmitResultCheck
  <2> QED
    BY <2>1, <2>2
<1>9. ASSUME NEW proof \in Proofs, SubmitResultStore(w, proof) PROVE BrainInv'
  <2> DEFINE t == c.task
             q == queue'
             ct == client'
             rs == resent'
             working == [pc |-> "working", task |-> t]
  <2>1. /\ queue' = SubmitResult(queue, t, w, proof) /\ SetRegistry(w, "idle", 0)
        /\ CheckJobCompletion(queue', t) /\ c.pc = "storing"
    BY <1>9 DEF SubmitResultStore
  <2>2. PICK d \in AfterResult(w) :
          /\ client' = [client EXCEPT ![w] = d]
          /\ resent' = IF d.pc = "working" THEN resent \cup {<<t, w>>} ELSE resent
    BY <1>9 DEF SubmitResultStore
  <2>3. d \in {ready, working}
    BY DEF AfterResult, ready
  <2>4. /\ t \in 1 .. n /\ <<t, w>> \in claims /\ x = 0
        /\ ~Did(queue, t, w) \/ <<t, w>> \in resent
    BY <1>1, <2>1 DEF ClientOK
  <2>5. /\ BrainQueueOK(q, claims, resent) /\ Len(q.tasks) = n
        /\ \A u, v : Did(q, u, v) => Did(queue, u, v) \/ (u = t /\ v = w)
    BY <1>1, <2>1, <2>4, BrainSubmitResult
  <2>6. resent \subseteq claims
    BY <1>1 DEF BrainQueueOK
  <2>7. resent \subseteq rs /\ rs \subseteq claims
    BY <2>2, <2>4, <2>6
  <2> HIDE DEF q, rs
  <2>8. BrainQueueOK(q, claims, rs)
    BY <2>5, <2>7, BrainMissed
  <2>9. BrainState(queue, claims, resent, registry', fresh, jobs, submit, poll, client)
    BY <1>1, <1>3, <2>1, BrainSetRegistry
  <2>10. ClientOK(queue, claims, resent, w, working, x)
    <3>1. working \in ClientState(n) /\ working.task = t
      BY <1>4 DEF ClientState
    <3> HIDE DEF working
    <3> QED
      BY <1>1, <2>1, <2>4, <3>1 DEF ClientOK
  <2>11. ClientOK(queue, claims, resent, w, d, x)
    BY <1>5, <2>3, <2>10
  <2>12. BrainState(queue, claims, resent, registry', fresh, jobs, submit, poll, ct)
    BY <2>2, <2>9, <2>11, BrainProcessSet
  <2>13. jobs' \in [Plans -> {"none", "accepted", "completed"}]
    BY <1>1, <2>1 DEF CheckJobCompletion
  <2>14. BrainState(queue, claims, resent, registry', fresh, jobs', submit, poll, ct)
    BY <1>1, <2>12, <2>13, BrainTableSet
  <2>15. ct[w].pc = "ready" \/ <<t, w>> \in rs
    <3>1. ct[w] = d
      BY <1>1, <2>2
    <3>2. CASE d = ready
      BY <3>1, <3>2 DEF ready
    <3>3. CASE d = working
      BY <2>2, <3>3 DEF rs
    <3> QED
      BY <2>3, <3>2, <3>3
  <2>16. poll[w] # t
    BY <2>4
  <2> HIDE DEF ct, t
  <2>17. \A v \in Workers : \A u : Did(q, u, v) =>
           Did(queue, u, v) \/ (poll[v] # u /\ (ct[v].pc \notin {"working", "storing"} \/ <<u, v>> \in rs))
    BY <2>5, <2>15, <2>16
  <2>18. n <= Len(q.tasks) /\ claims \subseteq claims
    BY <1>2, <2>5
  <2>19. BrainState(q, claims, rs, registry', fresh, jobs', submit, poll, ct)
    BY <2>7, <2>8, <2>14, <2>17, <2>18, BrainQueueMoves
  <2> QED
    BY <1>9, <2>19 DEF BrainInv, SubmitResultStore, q, ct, rs
<1> QED
  BY <1>6, <1>7, <1>8, <1>9 DEF WorkerStep

LEMMA BrainNextInv == BrainInv /\ [Next]_vars => BrainInv'
<1> SUFFICES ASSUME BrainInv, [Next]_vars PROVE BrainInv'
  OBVIOUS
<1>1. CASE UNCHANGED vars
  BY <1>1 DEF vars, BrainInv
<1>2. ASSUME NEW p \in Plans, SubmitPlan(p) \/ ServerStep(p) PROVE BrainInv'
  BY <1>2, BrainSubmitInv
<1>3. ASSUME NEW w \in Workers,
             RegisterWorker(w) \/ WorkerHeartbeat(w) \/ HeartbeatExpires(w) \/ WorkerStops(w)
      PROVE  BrainInv'
  BY <1>3, BrainRegistryInv
<1>4. ASSUME NEW w \in Workers, WorkerStep(w) PROVE BrainInv'
  BY <1>4, BrainWorkerInv
<1>5. CASE ListWorkers \/ ServerRestart
  BY <1>5, BrainServerInv
<1> QED
  BY <1>1, <1>2, <1>3, <1>4, <1>5 DEF Next

\* Whatever the request threads of the server do between the unlocked halves of
\* claim_task and submit_result, the queue, the registry, the threads and the
\* workers' processes stay as BrainState says.
THEOREM BrainInvariant == Spec => []BrainInv
<1>1. Init => BrainInv
  BY BrainInitInv
<1>2. BrainInv /\ [Next]_vars => BrainInv'
  BY BrainNextInv
<1> QED
  BY <1>1, <1>2, PTL DEF Spec

\* Every variable of the brain server keeps its type.
THEOREM BrainKeepsTypes == Spec => []TypeOK
BY BrainInvariant, BrainInvImplies, PTL

\* submit_result never records a result of a worker that claim_task did not
\* assign the task to, nor a second one of the same worker for the task but one
\* that the worker sent again because it missed the answer to the first.
THEOREM BrainResultsEarned == Spec => []ResultsEarned
BY BrainInvariant, BrainInvImplies, PTL

\* The worker registry shows a task exactly for its busy workers, and one that
\* claim_task assigned to them.
THEOREM BrainRegistryCoherent == Spec => []RegistryCoherent
BY BrainInvariant, BrainInvImplies, PTL
=============================================================================
