--------------------------- MODULE ServicesProofs ---------------------------
(***************************************************************************)
(* Proofs about the two services, for every set of sessions, request       *)
(* threads, jobs and workers.                                              *)
(***************************************************************************)
EXTENDS MCServices, DataTheorems

-----------------------------------------------------------------------------
(* The revenue deque *)

Pendings(S) == UNION {[1 .. n -> S] : n \in 0 .. MaxPending}

\* A deque of bounded length is a sequence.
LEMMA PendingsSeq ==
  ASSUME NEW S, NEW p
  PROVE  p \in Pendings(S) <=> p \in Seq(S) /\ Len(p) <= MaxPending
<1>1. ASSUME p \in Pendings(S) PROVE p \in Seq(S) /\ Len(p) <= MaxPending
  BY <1>1, MaxPendingAssumption DEF Pendings
<1>2. ASSUME p \in Seq(S), Len(p) <= MaxPending PROVE p \in Pendings(S)
  <2>1. Len(p) \in 0 .. MaxPending /\ p \in [1 .. Len(p) -> S]
    BY <1>2, MaxPendingAssumption
  <2> QED
    BY <2>1 DEF Pendings
<1> QED
  BY <1>1, <1>2

\* The empty deque is one.
LEMMA EmptyDeque == \A S : <<>> \in Pendings(S)
<1> SUFFICES ASSUME NEW S PROVE <<>> \in Pendings(S)
  OBVIOUS
<1>1. <<>> \in Seq(S) /\ Len(<<>>) <= MaxPending
  BY MaxPendingAssumption
<1> QED
  BY <1>1, PendingsSeq

\* submit keeps the deque within its length, and what is in it was there before
\* or is the operation submitted.
LEMMA SubmitKeeps ==
  ASSUME NEW S, NEW p \in Pendings(S), NEW op \in S
  PROVE  /\ Submit(p, op) \in Pendings(S)
         /\ \A k \in DOMAIN Submit(p, op) :
              Submit(p, op)[k] = op \/ \E i \in DOMAIN p : Submit(p, op)[k] = p[i]
<1> DEFINE all == p \o <<op>>
           lost == IF Len(all) > MaxPending THEN Len(all) - MaxPending ELSE 0
           s == SubSeq(all, lost + 1, Len(all))
<1>1. p \in Seq(S) /\ Len(p) \in Nat /\ Len(p) <= MaxPending
  BY PendingsSeq
<1>2. all \in Seq(S) /\ Len(all) = Len(p) + 1
  BY <1>1
<1>3. \A i \in 1 .. Len(p) : all[i] = p[i]
  BY <1>1
<1>4. all[Len(p) + 1] = op
  BY <1>1
<1> HIDE DEF all
<1>5. lost \in Nat /\ lost <= Len(all)
  BY <1>1, <1>2, MaxPendingAssumption
<1>6. Len(all) - lost <= MaxPending
  BY <1>1, <1>2, MaxPendingAssumption
<1> HIDE DEF lost
<1>7. s \in Seq(S) /\ Len(s) = Len(all) - lost
  BY <1>1, <1>2, <1>5
<1>8. ASSUME NEW k \in DOMAIN s PROVE s[k] = op \/ \E i \in DOMAIN p : s[k] = p[i]
  <2>1. k \in 1 .. Len(s)
    BY <1>7
  <2>2. s[k] = all[lost + k] /\ lost + k \in 1 .. Len(p) + 1
    BY <2>1, <1>1, <1>2, <1>5, <1>7
  <2> HIDE DEF s
  <2>3. CASE lost + k = Len(p) + 1
    BY <2>2, <2>3, <1>4
  <2>4. CASE lost + k \in 1 .. Len(p)
    BY <2>2, <2>4, <1>1, <1>3
  <2> QED
    BY <2>2, <2>3, <2>4, <1>1
<1>9. s \in Pendings(S)
  BY <1>6, <1>7, PendingsSeq
<1> QED
  BY <1>8, <1>9 DEF Submit, SubmitAll, all, lost

-----------------------------------------------------------------------------
(* Stripe checkout and webhook server *)

\* What the seller's script and the request threads are about: the script's
\* session is not completed before its URL is shown, a thread past the
\* verification works on a session that is paid for, and no copy of the file claims a
\* payment that was not made.
CopiesPaid ==
  /\ \A s \in Sessions : seller.copy[s] = "confirmed" => PaidFor(s)
  /\ seller.pc = "create" => stripe[seller.session] = "none"
  /\ seller.pc \in {"open", "dump"} => stripe[seller.session] = "open"
  /\ \A h \in Handlers : handler[h].pc # "idle" => PaidFor(handler[h].session)

StripeInv == StripeTypeOK /\ RevenueIsPaid /\ CopiesPaid

\* An idle process holds no record.
LEMMA IdleType ==
  /\ Idle \in [pc : {"idle"}, session : Sessions, copy : Records]
  /\ \A s \in Sessions : Idle.copy[s] = "none"
  /\ NoRecords \in Records
BY StripeAssumption DEF Idle, NoRecords, Records

\* What _load_payments returns is always a dictionary of records, and it claims
\* no payment that the file does not claim.
LEMMA LoadType ==
  ASSUME NEW f \in Records \cup {Torn}
  PROVE  /\ LoadPayments(f) \in Records
         /\ \A s \in Sessions : LoadPayments(f)[s] = "confirmed" => f # Torn /\ f[s] = "confirmed"
BY IdleType DEF LoadPayments, NoRecords, Records

\* A completed payment, and what an unsigned request said, is never taken back.
LEMMA PaidStays ==
  ASSUME StripeInv, [StripeNext]_stripeVars
  PROVE  \A s \in Sessions : PaidFor(s) => PaidFor(s)'
<1> USE DEF StripeInv, StripeTypeOK, CopiesPaid, PaidFor
<1>1. CASE CreateSession
  BY <1>1 DEF CreateSession
<1>2. CASE SellerSaves
  BY <1>2 DEF SellerSaves
<1>3. ASSUME NEW s \in Sessions, BuyerCompletes(s)
      PROVE  \A t \in Sessions : PaidFor(t) => PaidFor(t)'
  BY <1>3 DEF BuyerCompletes
<1>4. CASE stripe' = stripe /\ env' = env /\ posted \subseteq posted'
  BY <1>4
<1> QED
  BY <1>1, <1>2, <1>3, <1>4
     DEF StripeNext, stripeVars, SellerLoads, SellerStops, SellerOpensFile, FirstDelivery,
         DuplicateDelivery, ReceiveEvent, UnsignedRequest, HandlerStep, HandlerOpensFile,
         HandlerConfirms, HandlerBuilds, ServerRestarts

\* No session exists at first.
LEMMA StripeInitInv == StripeInit => StripeInv
<1> SUFFICES ASSUME StripeInit PROVE StripeInv
  OBVIOUS
<1> USE DEF StripeInit
<1>1. revenue \in Pendings(Sessions)
  BY EmptyDeque
<1>2. StripeTypeOK
  BY <1>1, IdleType DEF StripeTypeOK, Pendings
<1>3. RevenueIsPaid
  BY IdleType, StripeAssumption DEF RevenueIsPaid, NoRecords
<1>4. CopiesPaid
  BY IdleType, StripeAssumption DEF CopiesPaid
<1> QED
  BY <1>2, <1>3, <1>4 DEF StripeInv

\* Every step of the seller, the buyer, Stripe and the server keeps the types.
LEMMA StripeNextType ==
  ASSUME StripeInv, [StripeNext]_stripeVars
  PROVE  StripeTypeOK'
<1> USE DEF StripeInv, StripeTypeOK
<1>1. ASSUME NEW s \in Sessions, SellerLoads(s) PROVE StripeTypeOK'
  BY <1>1, LoadType DEF SellerLoads
<1>2. ASSUME NEW s \in Sessions, BuyerCompletes(s) PROVE StripeTypeOK'
  BY <1>2 DEF BuyerCompletes
<1>3. CASE CreateSession
  BY <1>3 DEF CreateSession, Records
<1>4. CASE SellerStops
  BY <1>4, IdleType DEF SellerStops
<1>5. CASE SellerOpensFile
  BY <1>5 DEF SellerOpensFile, Truncate
<1>6. CASE SellerSaves
  BY <1>6, IdleType DEF SellerSaves, Dump
<1>7. ASSUME NEW h \in Handlers, NEW s \in Sessions, ReceiveEvent(h, s) PROVE StripeTypeOK'
  <2>1. [LoadPayments(file) EXCEPT ![s] = "confirmed"] \in Records
    BY LoadType DEF Records
  <2>2. handler' \in [Handlers -> [pc : {"idle", "open", "dump", "build"}, session : Sessions, copy : Records]]
    <3>1. CASE Verified(s)
      <4> DEFINE copy == [LoadPayments(file) EXCEPT ![s] = "confirmed"]
                 new == [pc |-> "open", session |-> s, copy |-> copy]
      <4>1. handler' = [handler EXCEPT ![h] = new]
        BY <1>7, <3>1 DEF ReceiveEvent
      <4> HIDE DEF copy
      <4>2. new \in [pc : {"idle", "open", "dump", "build"}, session : Sessions, copy : Records]
        BY <2>1 DEF copy
      <4> HIDE DEF new
      <4> QED
        BY <4>1, <4>2
    <3>2. CASE ~ Verified(s)
      BY <1>7, <3>2 DEF ReceiveEvent
    <3> QED
      BY <3>1, <3>2
  <2>3. answered' \subseteq Sessions
    BY <1>7 DEF ReceiveEvent
  <2> QED
    BY <1>7, <2>2, <2>3 DEF ReceiveEvent
<1>8. ASSUME NEW h \in Handlers, HandlerOpensFile(h) PROVE StripeTypeOK'
  BY <1>8 DEF HandlerOpensFile, Truncate
<1>9. ASSUME NEW h \in Handlers, HandlerConfirms(h) PROVE StripeTypeOK'
  BY <1>9 DEF HandlerConfirms, Dump
<1>10. ASSUME NEW h \in Handlers, HandlerBuilds(h) PROVE StripeTypeOK'
  <2>1. handler[h].session \in Sessions
    OBVIOUS
  <2>2. SplitRevenue(handler[h].session) \in Pendings(Sessions)
    BY <2>1, SubmitKeeps DEF SplitRevenue, Pendings
  <2>3. revenue' \in Pendings(Sessions)
    BY <1>10, <2>2 DEF HandlerBuilds, Pendings
  <2>4. handler' \in [Handlers -> [pc : {"idle", "open", "dump", "build"}, session : Sessions, copy : Records]]
    BY <1>10, IdleType DEF HandlerBuilds
  <2> QED
    BY <1>10, <2>1, <2>3, <2>4 DEF HandlerBuilds, GenerateReportZip, BuildStatus, Pendings
<1>11. CASE ServerRestarts
  <2>1. <<>> \in Pendings(Sessions)
    BY EmptyDeque
  <2> QED
    BY <1>11, <2>1, IdleType DEF ServerRestarts, Pendings
<1>12. CASE UNCHANGED stripeVars
  BY <1>12 DEF stripeVars
<1>13. ASSUME NEW h \in Handlers, NEW s \in Sessions, UnsignedRequest(h, s) PROVE StripeTypeOK'
  <2> DEFINE copy == [LoadPayments(file) EXCEPT ![s] = "confirmed"]
             new == [pc |-> "open", session |-> s, copy |-> copy]
  <2>1. copy \in Records
    BY LoadType DEF Records
  <2>2. handler' = [handler EXCEPT ![h] = new]
    BY <1>13 DEF UnsignedRequest
  <2> HIDE DEF copy
  <2>3. new \in [pc : {"idle", "open", "dump", "build"}, session : Sessions, copy : Records]
    BY <2>1
  <2> HIDE DEF new
  <2>4. handler' \in [Handlers -> [pc : {"idle", "open", "dump", "build"}, session : Sessions, copy : Records]]
    BY <2>2, <2>3
  <2> QED
    BY <1>13, <2>4 DEF UnsignedRequest
<1> QED
  BY <1>1, <1>2, <1>3, <1>4, <1>5, <1>6, <1>7, <1>8, <1>9, <1>10, <1>11, <1>12, <1>13
     DEF StripeNext, HandlerStep, FirstDelivery, DuplicateDelivery

\* Every step keeps the copies and the processes honest.
LEMMA StripeNextCopies ==
  ASSUME StripeInv, [StripeNext]_stripeVars
  PROVE  CopiesPaid'
<1>0. \A s \in Sessions : PaidFor(s) => PaidFor(s)'
  BY PaidStays
<1> USE <1>0 DEF StripeInv, StripeTypeOK, CopiesPaid
<1>1. ASSUME NEW s \in Sessions, SellerLoads(s) PROVE CopiesPaid'
  BY <1>1, LoadType DEF SellerLoads, RevenueIsPaid
<1>2. ASSUME NEW s \in Sessions, BuyerCompletes(s) PROVE CopiesPaid'
  BY <1>2, PaidStays DEF BuyerCompletes
<1>3. CASE CreateSession
  BY <1>3, PaidStays DEF CreateSession, Records
<1>4. CASE SellerStops
  BY <1>4, IdleType DEF SellerStops
<1>5. CASE SellerOpensFile
  BY <1>5 DEF SellerOpensFile
<1>6. CASE SellerSaves
  BY <1>6, PaidStays, IdleType DEF SellerSaves
<1>7. ASSUME NEW h \in Handlers, NEW s \in Sessions, ReceiveEvent(h, s) PROVE CopiesPaid'
  <2>1. CASE Verified(s)
    <3>1. handler'[h].session = s
      BY <1>7, <2>1 DEF ReceiveEvent
    <3>2. \A g \in Handlers : g # h => handler'[g] = handler[g]
      BY <1>7, <2>1 DEF ReceiveEvent
    <3>3. PaidFor(s)'
      BY <2>1 DEF Verified, PaymentStatus, PaidFor
    <3>4. seller' = seller /\ stripe' = stripe
      BY <1>7 DEF ReceiveEvent
    <3>5. \A g \in Handlers : handler'[g].pc # "idle" => PaidFor(handler[g].session)'
      BY <3>1, <3>2, <3>3, <3>4
    <3> QED
      BY <3>4, <3>5
  <2>2. CASE ~ Verified(s)
    BY <1>7, <2>2 DEF ReceiveEvent
  <2> QED
    BY <2>1, <2>2
<1>8. ASSUME NEW h \in Handlers, HandlerOpensFile(h) PROVE CopiesPaid'
  BY <1>8 DEF HandlerOpensFile
<1>9. ASSUME NEW h \in Handlers, HandlerConfirms(h) PROVE CopiesPaid'
  BY <1>9 DEF HandlerConfirms
<1>10. ASSUME NEW h \in Handlers, HandlerBuilds(h) PROVE CopiesPaid'
  BY <1>10, IdleType DEF HandlerBuilds
<1>11. CASE ServerRestarts
  BY <1>11, IdleType DEF ServerRestarts
<1>12. CASE UNCHANGED stripeVars
  BY <1>12 DEF stripeVars
<1>13. ASSUME NEW h \in Handlers, NEW s \in Sessions, UnsignedRequest(h, s) PROVE CopiesPaid'
  <2>1. handler'[h].session = s /\ PaidFor(s)'
    BY <1>13 DEF UnsignedRequest, PaidFor
  <2>2. \A g \in Handlers : g # h => handler'[g] = handler[g]
    BY <1>13 DEF UnsignedRequest
  <2>3. seller' = seller /\ stripe' = stripe
    BY <1>13 DEF UnsignedRequest
  <2> QED
    BY <2>1, <2>2, <2>3, PaidStays
<1> QED
  BY <1>1, <1>2, <1>3, <1>4, <1>5, <1>6, <1>7, <1>8, <1>9, <1>10, <1>11, <1>12, <1>13
     DEF StripeNext, HandlerStep, FirstDelivery, DuplicateDelivery

\* The parts of RevenueIsPaid, one for each place that can say a session is paid.
PaidInFile == \A s \in Sessions : file # Torn /\ file[s] = "confirmed" => PaidFor(s)
PaidInMemory == \A s \in Sessions : s \in confirmed \cup reports => PaidFor(s)
PaidIfBuilt == \A s \in Sessions : builds[s] # "none" => PaidFor(s)
PaidIfSplit == \A s \in Sessions : \A k \in DOMAIN revenue : revenue[k] = s => PaidFor(s)
PaidInCopies == \A s \in Sessions, h \in Handlers : handler[h].copy[s] = "confirmed" => PaidFor(s)

\* Together they say RevenueIsPaid.
LEMMA RevenueParts ==
  RevenueIsPaid <=> PaidInFile /\ PaidInMemory /\ PaidIfBuilt /\ PaidIfSplit /\ PaidInCopies
BY DEF RevenueIsPaid, PaidInFile, PaidInMemory, PaidIfBuilt, PaidIfSplit, PaidInCopies

\* Every step keeps RevenueIsPaid: a copy that is dumped claims only payments
\* that were made, however old it is.
LEMMA StripeNextRevenue ==
  ASSUME StripeInv, [StripeNext]_stripeVars
  PROVE  RevenueIsPaid'
<1> DEFINE Parts == PaidInFile /\ PaidInMemory /\ PaidIfBuilt /\ PaidIfSplit /\ PaidInCopies
<1>0. Parts /\ (Parts' => RevenueIsPaid')
  BY RevenueParts DEF StripeInv, RevenueIsPaid, PaidInFile, PaidInMemory, PaidIfBuilt, PaidIfSplit, PaidInCopies
<1> SUFFICES Parts'
  BY <1>0
<1>a. \A s \in Sessions : PaidFor(s) => PaidFor(s)'
  BY PaidStays
<1> USE <1>a DEF StripeInv, StripeTypeOK, PaidInFile, PaidInMemory, PaidIfBuilt, PaidIfSplit, PaidInCopies
<1>1. ASSUME NEW s \in Sessions, SellerLoads(s) PROVE Parts'
  BY <1>0, <1>1 DEF SellerLoads
<1>2. ASSUME NEW s \in Sessions, BuyerCompletes(s) PROVE Parts'
  BY <1>0, <1>2, PaidStays DEF BuyerCompletes
<1>3. CASE CreateSession
  BY <1>0, <1>3, PaidStays DEF CreateSession
<1>4. CASE SellerStops
  BY <1>0, <1>4 DEF SellerStops
<1>5. CASE SellerOpensFile
  BY <1>0, <1>5 DEF SellerOpensFile, Truncate
<1>6. CASE SellerSaves
  BY <1>0, <1>6, PaidStays DEF SellerSaves, Dump, CopiesPaid
<1>7. ASSUME NEW h \in Handlers, NEW s \in Sessions, ReceiveEvent(h, s) PROVE Parts'
  <2>1. ASSUME Verified(s) PROVE PaidInCopies'
    <3> DEFINE loaded == LoadPayments(file)
    <3>1. handler'[h].copy = [loaded EXCEPT ![s] = "confirmed"]
      BY <1>7, <2>1 DEF ReceiveEvent
    <3>2. \A g \in Handlers : g # h => handler'[g] = handler[g]
      BY <1>7, <2>1 DEF ReceiveEvent
    <3>3. PaidFor(s)
      BY <1>7, <2>1 DEF ReceiveEvent, Verified, PaymentStatus, PaidFor
    <3>4. loaded \in Records /\ \A t \in Sessions : loaded[t] = "confirmed" => PaidFor(t)
      BY <1>0, LoadType
    <3> HIDE DEF loaded
    <3>5. \A t \in Sessions : handler'[h].copy[t] = "confirmed" => PaidFor(t)
      BY <3>1, <3>3, <3>4 DEF Records
    <3> QED
      BY <1>0, <3>2, <3>3, <3>5
  <2>2. ASSUME ~ Verified(s) PROVE PaidInCopies'
    BY <1>0, <1>7, <2>2 DEF ReceiveEvent
  <2>3. PaidInCopies'
    BY <2>1, <2>2
  <2> QED
    BY <1>0, <1>7, <2>3 DEF ReceiveEvent
<1>8. ASSUME NEW h \in Handlers, HandlerOpensFile(h) PROVE Parts'
  BY <1>0, <1>8 DEF HandlerOpensFile, Truncate
<1>9. ASSUME NEW h \in Handlers, HandlerConfirms(h) PROVE Parts'
  BY <1>0, <1>9 DEF HandlerConfirms, Dump, CopiesPaid
<1>10. ASSUME NEW h \in Handlers, HandlerBuilds(h) PROVE Parts'
  <2> DEFINE s == handler[h].session
  <2>1. s \in Sessions /\ PaidFor(s)
    BY <1>10 DEF HandlerBuilds, CopiesPaid
  <2>2. \A k \in DOMAIN revenue' : revenue'[k] = s \/ \E i \in DOMAIN revenue : revenue'[k] = revenue[i]
    <3>1. revenue' = Submit(revenue, s) \/ revenue' = revenue
      BY <1>10 DEF HandlerBuilds, SplitRevenue
    <3>2. revenue \in Pendings(Sessions)
      BY DEF Pendings
    <3> HIDE DEF s
    <3>3. CASE revenue' = Submit(revenue, s)
      BY <3>2, <3>3, <2>1, SubmitKeeps
    <3>4. CASE revenue' = revenue
      BY <3>4
    <3> QED
      BY <3>1, <3>3, <3>4
  <2>3. PaidIfSplit'
    BY <1>0, <2>1, <2>2
  <2>4. PaidInCopies'
    BY <1>0, <1>10, IdleType DEF HandlerBuilds
  <2> QED
    BY <1>0, <1>10, <2>1, <2>3, <2>4 DEF HandlerBuilds, GenerateReportZip
<1>11. CASE ServerRestarts
  BY <1>0, <1>11, IdleType DEF ServerRestarts
<1>12. CASE UNCHANGED stripeVars
  BY <1>0, <1>12 DEF stripeVars
<1>13. ASSUME NEW h \in Handlers, NEW s \in Sessions, UnsignedRequest(h, s) PROVE Parts'
  <2> DEFINE loaded == LoadPayments(file)
  <2>1. handler'[h].copy = [loaded EXCEPT ![s] = "confirmed"]
    BY <1>13 DEF UnsignedRequest
  <2>2. \A g \in Handlers : g # h => handler'[g] = handler[g]
    BY <1>13 DEF UnsignedRequest
  <2>3. PaidFor(s)'
    BY <1>13 DEF UnsignedRequest, PaidFor
  <2>4. loaded \in Records /\ \A t \in Sessions : loaded[t] = "confirmed" => PaidFor(t)
    BY <1>0, LoadType
  <2> HIDE DEF loaded
  <2>5. \A t \in Sessions : handler'[h].copy[t] = "confirmed" => PaidFor(t)'
    BY <2>1, <2>3, <2>4, PaidStays DEF Records
  <2>6. PaidInCopies'
    BY <1>0, <2>2, <2>5, PaidStays
  <2> QED
    BY <1>0, <1>13, <2>6 DEF UnsignedRequest
<1> QED
  BY <1>1, <1>2, <1>3, <1>4, <1>5, <1>6, <1>7, <1>8, <1>9, <1>10, <1>11, <1>12, <1>13
     DEF StripeNext, HandlerStep, FirstDelivery, DuplicateDelivery

\* StripeInv holds in every state of the checkout and its webhook server.
THEOREM StripeInvariant == StripeSpec => []StripeInv
<1>1. StripeInv /\ [StripeNext]_stripeVars => StripeInv'
  BY StripeNextType, StripeNextCopies, StripeNextRevenue DEF StripeInv
<1> QED
  BY <1>1, StripeInitInv, PTL DEF StripeSpec

\* The state keeps its types whatever the seller, the buyers, Stripe's retries,
\* the request threads and the restarts do.
THEOREM StripeTypes == StripeSpec => []StripeTypeOK
<1>1. StripeInv => StripeTypeOK
  BY DEF StripeInv
<1> QED
  BY <1>1, StripeInvariant, PTL

\* Whatever copies of the payments file are written back in whatever order, a
\* session that anything says is paid for was paid at Stripe or, in a server
\* without the webhook secret, named as paid by an unsigned request.
THEOREM RevenueVerified == StripeSpec => []RevenueIsPaid
<1>1. StripeInv => RevenueIsPaid
  BY DEF StripeInv
<1> QED
  BY <1>1, StripeInvariant, PTL

-----------------------------------------------------------------------------
(* The coordinator's queue *)

Task == [job : Jobs, type : Types, status : TaskStatus, worker : Workers \cup {NoWorker},
         proof : Proofs \cup {NoProof}]
Result == [task : Nat, job : Jobs, worker : Workers, proof : Proofs]
Queue == [tasks : Seq(Task), results : Seq(Result)]

Ran(q, t) == q.tasks[t].status \in {"completed", "verified"}

\* The result list is the history of the tasks that ran: a result is that of
\* its task, no task has two, and every task that ran has one.
ResultOK(q, i) ==
  LET r == q.results[i] IN
  /\ r.task \in 1 .. Len(q.tasks) /\ Ran(q, r.task)
  /\ q.tasks[r.task].job = r.job
  /\ q.tasks[r.task].worker = r.worker
  /\ q.tasks[r.task].proof = r.proof
OneResult(q) ==
  \A i, j \in 1 .. Len(q.results) : q.results[i].task = q.results[j].task => i = j
HasResult(q, t) == \E i \in 1 .. Len(q.results) : q.results[i].task = t

QueueOK(q) ==
  /\ q \in Queue
  /\ Len(q.tasks) <= MaxTasks
  /\ \A i \in 1 .. Len(q.results) : ResultOK(q, i)
  /\ OneResult(q)
  /\ \A t \in 1 .. Len(q.tasks) : Ran(q, t) => HasResult(q, t)

\* p is a later state of the queue q: nothing is dropped, no task goes back.
Later(q, p) ==
  /\ Len(q.tasks) <= Len(p.tasks)
  /\ Len(q.results) <= Len(p.results)
  /\ \A i \in 1 .. Len(q.results) : p.results[i] = q.results[i]
  /\ \A t \in 1 .. Len(q.tasks) :
       /\ p.tasks[t].job = q.tasks[t].job
       /\ StatusRank[q.tasks[t].status] <= StatusRank[p.tasks[t].status]
       /\ q.tasks[t].status = "verified" => p.tasks[t] = q.tasks[t]

\* The ranks are those of the order pending, assigned, completed, verified.
LEMMA Ranks ==
  /\ StatusRank["pending"] = 0 /\ StatusRank["assigned"] = 1
  /\ StatusRank["completed"] = 2 /\ StatusRank["verified"] = 3
BY DEF StatusRank

\* Every queue is a later state of itself.
LEMMA LaterItself == ASSUME NEW q \in Queue PROVE Later(q, q)
<1>0. q.tasks \in Seq(Task)
  BY DEF Queue
<1>1. \A t \in 1 .. Len(q.tasks) : q.tasks[t].status \in TaskStatus
  <2>1. \A t \in 1 .. Len(q.tasks) : q.tasks[t] \in Task
    BY <1>0
  <2> QED
    BY <2>1 DEF Task
<1>2. \A s \in TaskStatus : StatusRank[s] <= StatusRank[s]
  BY Ranks DEF TaskStatus
<1> QED
  BY <1>1, <1>2 DEF Later, Queue

\* A queue without tasks.
LEMMA EmptyQueueOK == QueueOK(EmptyQueue)
BY CoordinatorAssumption DEF QueueOK, EmptyQueue, Queue, OneResult

\* submit_job adds pending tasks at the end.
LEMMA SubmitJobOK ==
  ASSUME NEW q, QueueOK(q), NEW job \in Jobs, NEW type \in Types, NEW n \in 0 .. 2,
         Len(q.tasks) + n <= MaxTasks
  PROVE  LET p == SubmitJob(q, job, type, n) IN
         /\ QueueOK(p) /\ Later(q, p)
         /\ \A t \in 1 .. Len(p.tasks) : t > Len(q.tasks) => p.tasks[t].job = job
         /\ \A t \in 1 .. Len(q.tasks) : p.tasks[t] = q.tasks[t]
<1> DEFINE p == SubmitJob(q, job, type, n)
           new == [i \in 1 .. n |-> NewTask(job, type)]
<1>1. q \in Queue /\ q.tasks \in Seq(Task) /\ q.results \in Seq(Result)
  BY DEF QueueOK, Queue
<1>2. new \in Seq(Task) /\ Len(new) = n
  BY DEF NewTask, Task, TaskStatus
<1>3. \A i \in 1 .. n : new[i] = NewTask(job, type)
  OBVIOUS
<1> HIDE DEF new
<1>4. p.tasks = q.tasks \o new /\ p.results = q.results /\ p \in Queue
  <2>1. p = [tasks |-> q.tasks \o new, results |-> q.results]
    BY DEF SubmitJob, new
  <2>2. q.tasks \o new \in Seq(Task)
    BY <1>1, <1>2
  <2> QED
    BY <1>1, <2>1, <2>2 DEF Queue
<1>5. Len(p.tasks) = Len(q.tasks) + n
  BY <1>1, <1>2, <1>4
<1>6. \A t \in 1 .. Len(q.tasks) : p.tasks[t] = q.tasks[t]
  BY <1>1, <1>2, <1>4
<1>7. ASSUME NEW t \in 1 .. Len(p.tasks), t > Len(q.tasks) PROVE p.tasks[t] = NewTask(job, type)
  <2>1. t - Len(q.tasks) \in 1 .. n
    BY <1>1, <1>5, <1>7
  <2>2. p.tasks[t] = new[t - Len(q.tasks)]
    BY <1>1, <1>2, <1>4, <1>7, <2>1
  <2> QED
    BY <2>1, <2>2, <1>3
<1> HIDE DEF p
<1>8. \A i \in 1 .. Len(p.results) : ResultOK(p, i)
  BY <1>1, <1>4, <1>5, <1>6 DEF QueueOK, ResultOK, Ran
<1>9. \A t \in 1 .. Len(p.tasks) : Ran(p, t) => HasResult(p, t)
  <2>1. ASSUME NEW t \in 1 .. Len(p.tasks), Ran(p, t) PROVE HasResult(p, t)
    <3>1. t \in 1 .. Len(q.tasks)
      BY <1>1, <1>5, <1>7, <2>1 DEF Ran, NewTask
    <3> QED
      BY <3>1, <2>1, <1>4, <1>6 DEF QueueOK, HasResult, Ran
  <2> QED
    BY <2>1
<1>10. QueueOK(p)
  BY <1>4, <1>5, <1>8, <1>9 DEF QueueOK, OneResult
<1>11. Later(q, p)
  <2>1. Later(q, q)
    BY <1>1, LaterItself
  <2> QED
    BY <2>1, <1>1, <1>4, <1>5, <1>6 DEF Later
<1>12. \A t \in 1 .. Len(p.tasks) : t > Len(q.tasks) => p.tasks[t].job = job
  BY <1>7 DEF NewTask
<1> QED
  BY <1>6, <1>10, <1>11, <1>12 DEF p

\* claim_task assigns a pending task, which has no result.
LEMMA AssignOK ==
  ASSUME NEW q, QueueOK(q), NEW t \in 1 .. Len(q.tasks), q.tasks[t].status = "pending",
         NEW w \in Workers
  PROVE  LET p == Assign(q, t, w) IN
         /\ QueueOK(p) /\ Later(q, p) /\ Len(p.tasks) = Len(q.tasks)
         /\ p.tasks[t].status = "assigned" /\ p.tasks[t].worker = w
<1> DEFINE p == Assign(q, t, w)
           task == [q.tasks[t] EXCEPT !.status = "assigned", !.worker = w]
<1>1. q \in Queue /\ q.tasks \in Seq(Task) /\ q.results \in Seq(Result) /\ q.tasks[t] \in Task
  BY DEF QueueOK, Queue
<1>2. task \in Task /\ task.status = "assigned" /\ task.worker = w /\ task.job = q.tasks[t].job
  BY <1>1 DEF Task, TaskStatus
<1>3. p = [tasks |-> [q.tasks EXCEPT ![t] = task], results |-> q.results]
  BY DEF Assign
<1> HIDE DEF task
<1>4. p.tasks = [q.tasks EXCEPT ![t] = task] /\ p.results = q.results /\ p \in Queue
  <2>1. [q.tasks EXCEPT ![t] = task] \in Seq(Task)
    BY <1>1, <1>2
  <2> HIDE DEF p
  <2> QED
    BY <1>1, <1>3, <2>1 DEF Queue
<1> HIDE DEF p
<1>5. Len(p.tasks) = Len(q.tasks) /\ p.tasks[t] = task
  BY <1>1, <1>4
<1>6. \A u \in 1 .. Len(q.tasks) : u # t => p.tasks[u] = q.tasks[u]
  BY <1>1, <1>4
<1>7. \A i \in 1 .. Len(p.results) : ResultOK(p, i)
  BY <1>1, <1>4, <1>5, <1>6 DEF QueueOK, ResultOK, Ran
<1>8. \A u \in 1 .. Len(p.tasks) : Ran(p, u) => HasResult(p, u)
  BY <1>2, <1>4, <1>5, <1>6 DEF QueueOK, HasResult, Ran
<1>9. QueueOK(p)
  BY <1>4, <1>5, <1>7, <1>8 DEF QueueOK, OneResult
<1>10. Later(q, p)
  <2>1. Later(q, q)
    BY <1>1, LaterItself
  <2> QED
    BY <2>1, <1>1, <1>2, <1>4, <1>5, <1>6, Ranks DEF Later
<1> QED
  BY <1>2, <1>5, <1>9, <1>10 DEF p

\* submit_result completes the task of the worker that runs it.
LEMMA SubmitResultOK ==
  ASSUME NEW q, QueueOK(q), NEW t \in 1 .. Len(q.tasks), NEW w \in Workers, NEW proof \in Proofs,
         q.tasks[t].status = "assigned", q.tasks[t].worker = w
  PROVE  LET p == SubmitResult(q, t, w, proof) IN
         QueueOK(p) /\ Later(q, p) /\ Len(p.tasks) = Len(q.tasks)
<1> DEFINE p == SubmitResult(q, t, w, proof)
           task == [q.tasks[t] EXCEPT !.status = "completed", !.proof = proof]
           r == [task |-> t, job |-> q.tasks[t].job, worker |-> w, proof |-> proof]
           n == Len(q.results)
<1>1. q \in Queue /\ q.tasks \in Seq(Task) /\ q.results \in Seq(Result) /\ q.tasks[t] \in Task
      /\ Len(q.tasks) \in Nat /\ n \in Nat
  BY DEF QueueOK, Queue
<1>2. /\ task \in Task /\ task.status = "completed" /\ task.worker = w /\ task.proof = proof
      /\ task.job = q.tasks[t].job
  BY <1>1 DEF Task, TaskStatus
<1>3. r \in Result /\ r.task = t /\ r.job = q.tasks[t].job /\ r.worker = w /\ r.proof = proof
  BY <1>1 DEF Result, Task
<1>4. p = [tasks |-> [q.tasks EXCEPT ![t] = task], results |-> Append(q.results, r)]
  BY DEF SubmitResult
<1> HIDE DEF task, r
<1>5. p.tasks = [q.tasks EXCEPT ![t] = task] /\ p.results = Append(q.results, r) /\ p \in Queue
  <2> DEFINE tasks == [q.tasks EXCEPT ![t] = task]
             results == Append(q.results, r)
  <2>1. tasks \in Seq(Task) /\ results \in Seq(Result)
    BY <1>1, <1>2, <1>3
  <2>2. p = [tasks |-> tasks, results |-> results]
    BY <1>4
  <2> HIDE DEF p, tasks, results
  <2>3. p.tasks = tasks /\ p.results = results /\ p \in Queue
    BY <2>1, <2>2 DEF Queue
  <2> QED
    BY <2>3 DEF tasks, results
<1> HIDE DEF p
<1>6. Len(p.tasks) = Len(q.tasks) /\ p.tasks[t] = task
  BY <1>1, <1>5
<1>7. \A u \in 1 .. Len(q.tasks) : u # t => p.tasks[u] = q.tasks[u]
  BY <1>1, <1>5
<1>8. /\ Len(p.results) = n + 1 /\ p.results[n + 1] = r
      /\ \A i \in 1 .. n : p.results[i] = q.results[i]
  BY <1>1, <1>5
<1>9. \A i \in 1 .. n : ResultOK(q, i) /\ q.results[i].task # t
  BY DEF QueueOK, ResultOK, Ran
<1> HIDE DEF n
<1>10. \A i \in 1 .. Len(p.results) : ResultOK(p, i)
  <2>1. ASSUME NEW i \in 1 .. n PROVE ResultOK(p, i)
    <3> DEFINE u == q.results[i].task
    <3>1. u \in 1 .. Len(q.tasks) /\ u # t /\ ResultOK(q, i)
      BY <1>9 DEF ResultOK
    <3>2. p.results[i] = q.results[i] /\ p.tasks[u] = q.tasks[u]
      BY <3>1, <1>7, <1>8
    <3> QED
      BY <3>1, <3>2, <1>6 DEF ResultOK, Ran
  <2>2. ResultOK(p, n + 1)
    BY <1>1, <1>2, <1>3, <1>6, <1>8 DEF ResultOK, Ran
  <2> QED
    BY <2>1, <2>2, <1>1, <1>8
<1>11. OneResult(p)
  <2>1. OneResult(q)
    BY DEF QueueOK
  <2>2. ASSUME NEW i \in 1 .. n + 1, NEW j \in 1 .. n + 1, p.results[i].task = p.results[j].task
        PROVE  i = j
    <3>1. \A k \in 1 .. n + 1 : k \in 1 .. n \/ k = n + 1
      BY <1>1 DEF n
    <3>2. p.results[n + 1].task = t /\ \A k \in 1 .. n : p.results[k].task # t
      BY <1>3, <1>8, <1>9
    <3>3. CASE i \in 1 .. n /\ j \in 1 .. n
      BY <3>3, <2>1, <2>2, <1>8 DEF OneResult, n
    <3> QED
      BY <3>1, <3>2, <3>3, <2>2
  <2> QED
    BY <2>2, <1>8 DEF OneResult
<1>12. \A u \in 1 .. Len(p.tasks) : Ran(p, u) => HasResult(p, u)
  <2>1. HasResult(p, t)
    BY <1>1, <1>3, <1>8 DEF HasResult
  <2>2. ASSUME NEW u \in 1 .. Len(q.tasks), u # t, Ran(p, u) PROVE HasResult(p, u)
    <3>1. HasResult(q, u)
      BY <2>2, <1>7 DEF QueueOK, Ran
    <3> QED
      BY <3>1, <1>1, <1>8 DEF HasResult, n
  <2> QED
    BY <2>1, <2>2, <1>6
<1>13. QueueOK(p)
  BY <1>5, <1>6, <1>10, <1>11, <1>12 DEF QueueOK
<1>14. Later(q, p)
  <2>1. Later(q, q)
    BY <1>1, LaterItself
  <2> QED
    <3>1. ASSUME NEW u \in 1 .. Len(q.tasks)
          PROVE  /\ p.tasks[u].job = q.tasks[u].job
                 /\ StatusRank[q.tasks[u].status] <= StatusRank[p.tasks[u].status]
                 /\ q.tasks[u].status = "verified" => p.tasks[u] = q.tasks[u]
      <4>1. CASE u = t
        BY <4>1, <1>2, <1>6, Ranks
      <4>2. CASE u # t
        BY <4>2, <2>1, <1>7 DEF Later
      <4> QED
        BY <4>1, <4>2
    <3> QED
      BY <3>1, <1>1, <1>6, <1>8 DEF Later, n
<1> QED
  BY <1>6, <1>13, <1>14 DEF p

\* collect_results only turns completed tasks into verified ones.
LEMMA VerifyResultsOK ==
  ASSUME NEW q, QueueOK(q), NEW job
  PROVE  LET p == VerifyResults(q, job) IN
         /\ QueueOK(p) /\ Later(q, p) /\ Len(p.tasks) = Len(q.tasks)
         /\ p.results = q.results
<1> DEFINE p == VerifyResults(q, job)
<1>1. q \in Queue /\ q.tasks \in Seq(Task) /\ q.results \in Seq(Result) /\ Len(q.tasks) \in Nat
  BY DEF QueueOK, Queue
<1>2. ASSUME NEW t \in 1 .. Len(q.tasks)
      PROVE  /\ MarkVerified(q.tasks[t]) \in Task
             /\ \/ MarkVerified(q.tasks[t]) = q.tasks[t]
                \/ /\ q.tasks[t].status = "completed"
                   /\ MarkVerified(q.tasks[t]) = [q.tasks[t] EXCEPT !.status = "verified"]
  <2>1. q.tasks[t] \in Task
    BY <1>1
  <2> QED
    BY <2>1 DEF MarkVerified, Task, TaskStatus
<1>3. /\ p \in Queue /\ p.results = q.results /\ Len(p.tasks) = Len(q.tasks)
      /\ \A t \in 1 .. Len(q.tasks) :
           \/ p.tasks[t] = q.tasks[t]
           \/ /\ q.tasks[t].status = "completed"
              /\ p.tasks[t] = [q.tasks[t] EXCEPT !.status = "verified"]
  <2> DEFINE Confirmed(t) == \E i \in DOMAIN q.results : /\ q.results[i].task = t /\ q.results[i].job = job
                                                         /\ q.results[i].proof = q.tasks[t].proof
             tasks == [t \in DOMAIN q.tasks |-> IF Confirmed(t) THEN MarkVerified(q.tasks[t])
                                                   ELSE q.tasks[t]]
  <2>1. p = [tasks |-> tasks, results |-> q.results]
    BY DEF VerifyResults, TaskIds
  <2> HIDE DEF Confirmed
  <2>5. DOMAIN q.tasks = 1 .. Len(q.tasks)
    BY <1>1
  <2>2. tasks \in Seq(Task) /\ Len(tasks) = Len(q.tasks)
    <3>1. ASSUME NEW t \in 1 .. Len(q.tasks) PROVE tasks[t] \in Task
      <4>1. q.tasks[t] \in Task
        BY <1>1
      <4>2. MarkVerified(q.tasks[t]) \in Task
        BY <1>2
      <4> QED
        BY <2>5, <4>1, <4>2
    <3>2. DOMAIN tasks = 1 .. Len(q.tasks) /\ tasks = [t \in DOMAIN tasks |-> tasks[t]]
      BY <2>5
    <3> HIDE DEF tasks
    <3> QED
      BY <1>1, <3>1, <3>2
  <2>3. \A t \in 1 .. Len(q.tasks) :
           \/ tasks[t] = q.tasks[t]
           \/ /\ q.tasks[t].status = "completed"
              /\ tasks[t] = [q.tasks[t] EXCEPT !.status = "verified"]
    BY <1>2, <2>5
  <2> HIDE DEF tasks, p
  <2>4. p.tasks = tasks /\ p.results = q.results /\ p \in Queue
    BY <1>1, <2>1, <2>2 DEF Queue
  <2> QED
    BY <2>2, <2>3, <2>4
<1> HIDE DEF p
<1>4. \A t \in 1 .. Len(q.tasks) :
        /\ p.tasks[t].job = q.tasks[t].job /\ p.tasks[t].worker = q.tasks[t].worker
        /\ p.tasks[t].proof = q.tasks[t].proof
        /\ \/ p.tasks[t] = q.tasks[t]
           \/ q.tasks[t].status = "completed" /\ p.tasks[t].status = "verified"
  <2>1. \A t \in 1 .. Len(q.tasks) : q.tasks[t] \in Task
    BY <1>1
  <2> QED
    BY <2>1, <1>3 DEF Task
<1>5. ASSUME NEW i \in 1 .. Len(p.results) PROVE ResultOK(p, i)
  <2> DEFINE u == q.results[i].task
  <2>1. ResultOK(q, i) /\ p.results[i] = q.results[i] /\ u \in 1 .. Len(q.tasks)
    BY <1>3 DEF QueueOK, ResultOK
  <2> QED
    BY <2>1, <1>3, <1>4 DEF ResultOK, Ran
<1>6. \A u \in 1 .. Len(p.tasks) : Ran(p, u) => HasResult(p, u)
  BY <1>3, <1>4 DEF QueueOK, HasResult, Ran
<1>7. QueueOK(p)
  BY <1>3, <1>5, <1>6 DEF QueueOK, OneResult
<1>8. Later(q, p)
  <2>1. Later(q, q)
    BY <1>1, LaterItself
  <2> QED
    BY <2>1, <1>1, <1>3, <1>4, Ranks DEF Later
<1> QED
  BY <1>3, <1>7, <1>8 DEF p

-----------------------------------------------------------------------------
(* The coordinator *)

\* The worker that executes is registered under its own id and runs a task of
\* the queue that is assigned to it.
RunnerOK ==
  pc = "running" => /\ runner \in Workers /\ current[runner] \in 1 .. Len(queue.tasks)
                    /\ queue.tasks[current[runner]].status = "assigned"
                    /\ queue.tasks[current[runner]].worker = runner

\* A payment is for a task of its job, every task of which is verified, and goes
\* to the worker whose result the queue holds.
PaymentOK(q, p) ==
  /\ p \in Payment
  /\ p.task \in 1 .. Len(q.tasks)
  /\ q.tasks[p.task].status = "verified" /\ q.tasks[p.task].job = p.job
  /\ \A t \in 1 .. Len(q.tasks) : q.tasks[t].job = p.job => q.tasks[t].status = "verified"
  /\ \E k \in 1 .. Len(q.results) : q.results[k].task = p.task /\ q.results[k].worker = p.worker

CoordinatorInv ==
  /\ QueueOK(queue) /\ disk = queue
  /\ workers \in Seq(Workers)
  /\ current \in [Workers -> 0 .. MaxTasks]
  /\ pc \in {"idle", "dispatch", "running"}
  /\ todo \in Seq(1 .. Len(queue.tasks))
  /\ runner \in Workers \cup {NoWorker}
  /\ payments \in Seq(Payment)
  /\ \A i \in 1 .. Len(payments) : PaymentOK(queue, payments[i])
  /\ RunnerOK
  /\ crashes \in 0 .. MaxCrashes

\* The invariant implies the type invariant and the safety invariants.
LEMMA CoordinatorInvImplies == CoordinatorInv => TypeOK /\ TasksAccounted /\ PaymentsBacked
<1> SUFFICES ASSUME CoordinatorInv PROVE TypeOK /\ TasksAccounted /\ PaymentsBacked
  OBVIOUS
<1>1. /\ queue \in Queue /\ queue.tasks \in Seq(Task) /\ queue.results \in Seq(Result)
      /\ Len(queue.tasks) \in Nat /\ Len(queue.tasks) <= MaxTasks
      /\ DOMAIN queue.tasks = 1 .. Len(queue.tasks) /\ DOMAIN queue.results = 1 .. Len(queue.results)
  BY DEF CoordinatorInv, QueueOK, Queue
<1>2. \A t \in 1 .. Len(queue.tasks) : queue.tasks[t] \in Task
  BY <1>1
<1>3. \A i \in 1 .. Len(queue.results) : queue.results[i] \in Result /\ ResultOK(queue, i)
  BY <1>1 DEF CoordinatorInv, QueueOK
<1>4. TypeOK
  <2>1. \A t \in TaskIds(queue) :
          /\ queue.tasks[t].job \in Jobs /\ queue.tasks[t].type \in Types
          /\ queue.tasks[t].status \in TaskStatus
          /\ queue.tasks[t].worker \in Workers \cup {NoWorker}
          /\ queue.tasks[t].proof \in Proofs \cup {NoProof}
    BY <1>1, <1>2 DEF Task, TaskIds
  <2>2. Range(queue.results) \subseteq [task : TaskIds(queue), job : Jobs, worker : Workers, proof : Proofs]
    <3>1. ASSUME NEW i \in 1 .. Len(queue.results)
          PROVE  queue.results[i] \in [task : TaskIds(queue), job : Jobs, worker : Workers, proof : Proofs]
      BY <1>1, <1>3 DEF Result, ResultOK, TaskIds
    <3> QED
      BY <1>1, <3>1 DEF Range
  <2>3. Range(workers) \subseteq Workers /\ Range(todo) \subseteq TaskIds(queue) /\ Range(payments) \subseteq Payment
    BY <1>1 DEF CoordinatorInv, Range, TaskIds
  <2> QED
    BY <1>1, <2>1, <2>2, <2>3 DEF TypeOK, CoordinatorInv
<1>5. ResultsMatchTasks
  <2>1. ASSUME NEW t \in TaskIds(queue)
        PROVE  LET task == queue.tasks[t]
                   entries == {i \in DOMAIN queue.results : queue.results[i].task = t}
               IN  /\ task.status \in {"completed", "verified"} <=> entries # {}
                   /\ Cardinality(entries) <= 1
                   /\ \A i \in entries : /\ queue.results[i].worker = task.worker
                                         /\ queue.results[i].proof = task.proof
    <3> DEFINE entries == {i \in DOMAIN queue.results : queue.results[i].task = t}
    <3>1. t \in 1 .. Len(queue.tasks) /\ entries = {i \in 1 .. Len(queue.results) : queue.results[i].task = t}
      BY <1>1 DEF TaskIds
    <3>2. queue.tasks[t].status \in {"completed", "verified"} <=> entries # {}
      BY <1>3, <3>1 DEF CoordinatorInv, QueueOK, ResultOK, Ran, HasResult
    <3>3. \A i \in entries : queue.results[i].worker = queue.tasks[t].worker /\ queue.results[i].proof = queue.tasks[t].proof
      BY <1>3, <3>1 DEF ResultOK
    <3>4. \A i, j \in entries : i = j
      BY <3>1 DEF CoordinatorInv, QueueOK, OneResult
    <3> HIDE DEF entries
    <3>5. Cardinality(entries) <= 1
      <4>1. CASE entries = {}
        BY <4>1, FS_EmptySet
      <4>2. CASE entries # {}
        <5>1. PICK i : i \in entries
          BY <4>2
        <5>2. entries = {i}
          BY <3>4, <5>1
        <5> QED
          BY <5>2, FS_Singleton
      <4> QED
        BY <4>1, <4>2
    <3> QED
      BY <3>2, <3>3, <3>5 DEF entries
  <2> QED
    BY <2>1 DEF ResultsMatchTasks
<1>6. RunnerOwnsTask
  BY CoordinatorAssumption DEF CoordinatorInv, RunnerOK, RunnerOwnsTask
<1>7. PaymentsBacked
  <2>1. DOMAIN payments = 1 .. Len(payments)
    BY DEF CoordinatorInv
  <2> QED
    BY <1>1, <2>1 DEF CoordinatorInv, PaymentOK, PaymentsBacked, TaskIds, TasksOf
<1> QED
  BY <1>4, <1>5, <1>6, <1>7 DEF TasksAccounted

\* At the start there is no task, worker or payment.
LEMMA CoordinatorInitInv == Init => CoordinatorInv
BY EmptyQueueOK, CoordinatorAssumption DEF Init, CoordinatorInv, RunnerOK

\* A payment stays backed when the queue moves on without new tasks of its job.
LEMMA PaymentKept ==
  ASSUME NEW q, QueueOK(q), NEW r, QueueOK(r), Later(q, r), NEW p, PaymentOK(q, p),
         \A t \in 1 .. Len(r.tasks) : t > Len(q.tasks) => r.tasks[t].job # p.job
  PROVE  PaymentOK(r, p)
<1>1. Len(q.tasks) \in Nat /\ Len(r.tasks) \in Nat /\ Len(q.results) \in Nat /\ Len(r.results) \in Nat
  BY DEF QueueOK, Queue
<1>2. ASSUME NEW t \in 1 .. Len(r.tasks), r.tasks[t].job = p.job
      PROVE  r.tasks[t].status = "verified"
  <2>1. t \in 1 .. Len(q.tasks)
    BY <1>1, <1>2
  <2>2. q.tasks[t].job = p.job
    BY <1>2, <2>1 DEF Later
  <2>3. q.tasks[t].status = "verified"
    BY <2>1, <2>2 DEF PaymentOK
  <2> QED
    BY <2>1, <2>3 DEF Later
<1>3. p.task \in 1 .. Len(r.tasks) /\ r.tasks[p.task] = q.tasks[p.task]
  BY <1>1 DEF PaymentOK, Later
<1>4. \E k \in 1 .. Len(r.results) : r.results[k].task = p.task /\ r.results[k].worker = p.worker
  <2>1. PICK k \in 1 .. Len(q.results) : q.results[k].task = p.task /\ q.results[k].worker = p.worker
    BY DEF PaymentOK
  <2>2. k \in 1 .. Len(r.results) /\ r.results[k] = q.results[k]
    BY <1>1, <2>1 DEF Later
  <2> QED
    BY <2>1, <2>2
<1> QED
  BY <1>2, <1>3, <1>4 DEF PaymentOK

\* When the queue moves on without new tasks, the payments stay backed and the
\* dispatch loop's list stays one of task ids.
LEMMA QueueMoves ==
  ASSUME CoordinatorInv, QueueOK(queue'), Later(queue, queue'),
         Len(queue'.tasks) = Len(queue.tasks)
  PROVE  /\ \A i \in 1 .. Len(payments) : PaymentOK(queue', payments[i])
         /\ todo \in Seq(1 .. Len(queue'.tasks))
<1>1. \A t \in 1 .. Len(queue'.tasks) : ~ (t > Len(queue.tasks))
  BY DEF QueueOK, Queue, CoordinatorInv
<1>2. ASSUME NEW p, PaymentOK(queue, p) PROVE PaymentOK(queue', p)
  BY <1>1, <1>2, PaymentKept DEF CoordinatorInv
<1> QED
  BY <1>2 DEF CoordinatorInv

\* The tail of a list of ids is one.
LEMMA TailType == ASSUME NEW S, NEW s \in Seq(S), s # <<>> PROVE Tail(s) \in Seq(S) /\ Head(s) \in S
OBVIOUS

\* claim_task picks a pending task.
LEMMA ClaimableOK ==
  ASSUME NEW q, QueueOK(q), NEW c, Claimable(q, c) # <<>>
  PROVE  LET t == Head(Claimable(q, c)) IN t \in 1 .. Len(q.tasks) /\ q.tasks[t].status = "pending"
<1> DEFINE keep == [t \in TaskIds(q) |-> q.tasks[t].status = "pending" /\ Matches(q, t, c)]
<1>1. Len(q.tasks) \in Nat /\ TaskIds(q) = 1 .. Len(q.tasks)
  BY DEF QueueOK, Queue, TaskIds
<1>2. keep \in Seq(BOOLEAN) /\ Len(keep) = Len(q.tasks)
  BY <1>1
<1>3. \A t \in 1 .. Len(q.tasks) : keep[t] => q.tasks[t].status = "pending"
  BY <1>1
<1>4. Claimable(q, c) = Selected(keep)
  BY DEF Claimable
<1> HIDE DEF keep
<1>5. Head(Selected(keep)) \in Kept(keep)
  BY <1>2, <1>4, SelectedHead
<1> QED
  BY <1>2, <1>3, <1>4, <1>5 DEF Kept

\* list_pending returns ids of tasks.
LEMMA ListPendingType ==
  ASSUME NEW q, QueueOK(q)
  PROVE  ListPending(q) \in Seq(1 .. Len(q.tasks))
<1> DEFINE keep == [t \in TaskIds(q) |-> q.tasks[t].status = "pending"]
<1>1. Len(q.tasks) \in Nat /\ TaskIds(q) = 1 .. Len(q.tasks)
  BY DEF QueueOK, Queue, TaskIds
<1>2. keep \in Seq(BOOLEAN) /\ Len(keep) = Len(q.tasks)
  BY <1>1
<1>3. ListPending(q) = Selected(keep)
  BY DEF ListPending
<1> HIDE DEF keep
<1>4. Selected(keep) \in Seq(Kept(keep))
  BY <1>2, SelectedIsKept
<1>5. Kept(keep) \subseteq 1 .. Len(q.tasks)
  BY <1>2 DEF Kept
<1> QED
  BY <1>3, <1>4, <1>5

\* claim_and_run keeps the invariant up to the execution.
LEMMA ClaimInv ==
  ASSUME CoordinatorInv, NEW w \in Workers, NEW c, Claim(w, c), UNCHANGED <<workers, payments, crashes>>,
         todo' = todo \/ (todo # <<>> /\ todo' = Tail(todo))
  PROVE  CoordinatorInv' /\ Later(queue, queue')
<1> DEFINE t == Head(Claimable(queue, c))
<1>1. t \in 1 .. Len(queue.tasks) /\ queue.tasks[t].status = "pending"
  BY ClaimableOK DEF Claim, CoordinatorInv
<1>2. queue' = Assign(queue, t, w) /\ disk' = queue'
  BY DEF Claim, Save
<1>3. current' = [current EXCEPT ![w] = t] /\ runner' = w /\ pc' = "running"
  BY DEF Claim
<1> HIDE DEF t
<1>4. /\ QueueOK(queue') /\ Later(queue, queue') /\ Len(queue'.tasks) = Len(queue.tasks)
      /\ queue'.tasks[t].status = "assigned" /\ queue'.tasks[t].worker = w
  BY <1>1, <1>2, AssignOK DEF CoordinatorInv
<1>5. Len(queue.tasks) \in Nat /\ Len(queue.tasks) <= MaxTasks
  BY DEF CoordinatorInv, QueueOK, Queue
<1>6. current' \in [Workers -> 0 .. MaxTasks] /\ current'[w] = t
  BY <1>1, <1>3, <1>5, CoordinatorAssumption DEF CoordinatorInv
<1>7. RunnerOK'
  BY <1>1, <1>3, <1>4, <1>6 DEF RunnerOK
<1>8. /\ \A i \in 1 .. Len(payments) : PaymentOK(queue', payments[i])
      /\ todo' \in Seq(1 .. Len(queue'.tasks))
  BY <1>4, QueueMoves, TailType
<1> QED
  BY <1>2, <1>3, <1>4, <1>6, <1>7, <1>8 DEF CoordinatorInv

\* The payments queued for a done job are backed.
LEMMA PaymentsForOK ==
  ASSUME NEW q, QueueOK(q), NEW job \in Jobs, Done(q, job)
  PROVE  /\ PaymentsFor(q, job) \in Seq(Payment)
         /\ \A k \in 1 .. Len(PaymentsFor(q, job)) : PaymentOK(q, PaymentsFor(q, job)[k])
<1> DEFINE keep == [i \in DOMAIN q.results |->
                      q.results[i].job = job /\ q.tasks[q.results[i].task].status = "verified"]
           sel == Selected(keep)
           Entry(t) == [task |-> t, job |-> job, worker |-> q.tasks[t].worker]
           P == PaymentsFor(q, job)
<1>1. /\ q.tasks \in Seq(Task) /\ Len(q.tasks) \in Nat /\ Len(q.tasks) <= MaxTasks
      /\ Len(q.results) \in Nat /\ DOMAIN q.results = 1 .. Len(q.results)
      /\ DOMAIN q.tasks = 1 .. Len(q.tasks)
  BY DEF QueueOK, Queue
<1>2. keep \in Seq(BOOLEAN) /\ Len(keep) = Len(q.results)
  BY <1>1
<1>3. \A i \in 1 .. Len(q.results) :
        keep[i] => q.results[i].job = job /\ q.tasks[q.results[i].task].status = "verified"
  BY <1>1
<1>4. P = [k \in DOMAIN sel |-> Entry(q.results[sel[k]].task)]
  BY DEF PaymentsFor
<1> HIDE DEF keep, P
<1>5. sel \in Seq(Kept(keep))
  BY <1>2, SelectedIsKept
<1> HIDE DEF sel
<1>6. ASSUME NEW i \in Kept(keep) PROVE PaymentOK(q, Entry(q.results[i].task))
  <2> DEFINE t == q.results[i].task
  <2>1. /\ i \in 1 .. Len(q.results) /\ q.results[i].job = job
        /\ q.tasks[t].status = "verified"
    BY <1>2, <1>3 DEF Kept
  <2>2. ResultOK(q, i) /\ t \in 1 .. Len(q.tasks) /\ q.tasks[t].job = job
    BY <2>1 DEF QueueOK, ResultOK
  <2>3. q.tasks[t] \in Task /\ q.tasks[t].worker \in Workers \cup {NoWorker} /\ t \in 1 .. MaxTasks
    <3>1. q.tasks[t] \in Task
      BY <1>1, <2>2
    <3> QED
      BY <3>1, <2>2, <1>1, CoordinatorAssumption DEF Task
  <2>4. Entry(t) \in Payment
    BY <2>3 DEF Payment
  <2>5. \A u \in 1 .. Len(q.tasks) : q.tasks[u].job = job => q.tasks[u].status = "verified"
    BY <1>1 DEF Done, TasksOf, TaskIds
  <2>6. q.results[i].worker = q.tasks[t].worker
    BY <2>2 DEF ResultOK
  <2> HIDE DEF t
  <2> QED
    BY <2>1, <2>2, <2>4, <2>5, <2>6 DEF PaymentOK, t
<1>7. \A i \in Kept(keep) : Entry(q.results[i].task) \in Payment
  BY <1>6 DEF PaymentOK
<1>8. /\ P \in Seq(Payment) /\ Len(P) = Len(sel)
      /\ \A k \in 1 .. Len(P) : P[k] = Entry(q.results[sel[k]].task) /\ sel[k] \in Kept(keep)
  <2> HIDE DEF Entry
  <2>1. DOMAIN sel = 1 .. Len(sel) /\ Len(sel) \in Nat /\ \A k \in 1 .. Len(sel) : sel[k] \in Kept(keep)
    BY <1>5
  <2>2. P \in [1 .. Len(sel) -> Payment]
    BY <1>4, <1>7, <2>1
  <2> QED
    BY <1>4, <2>1, <2>2
<1>9. \A k \in 1 .. Len(P) : PaymentOK(q, P[k])
  <2> HIDE DEF Entry
  <2> QED
    BY <1>6, <1>8
<1> QED
  BY <1>8, <1>9 DEF P

\* Every step keeps the invariant, and unless the process dies while it writes
\* the file, the queue only moves on.
LEMMA CoordinatorNextInv ==
  ASSUME CoordinatorInv, [Next]_vars
  PROVE  CoordinatorInv' /\ (Later(queue, queue') \/ CrashInPersist)
<1> DEFINE Goal == CoordinatorInv' /\ Later(queue, queue')
<1>0. queue \in Queue /\ Later(queue, queue) /\ Len(queue.tasks) \in Nat
  BY LaterItself DEF CoordinatorInv, QueueOK, Queue
<1>1. ASSUME NEW w \in Workers, RegisterWorker(w) PROVE Goal
  <2>1. workers' \in Seq(Workers)
    BY <1>1 DEF RegisterWorker, CoordinatorInv
  <2>2. current' \in [Workers -> 0 .. MaxTasks]
    BY <1>1, CoordinatorAssumption DEF RegisterWorker, CoordinatorInv
  <2> QED
    BY <1>0, <1>1, <2>1, <2>2 DEF RegisterWorker, CoordinatorInv, RunnerOK
<1>2. ASSUME NEW j \in Jobs, NEW ty \in Types, NEW n \in 0 .. 2, SubmitNewJob(j, ty, n) PROVE Goal
  <2> DEFINE q == SubmitJob(queue, j, ty, n)
  <2>1. /\ QueueOK(q) /\ Later(queue, q)
        /\ \A t \in 1 .. Len(q.tasks) : t > Len(queue.tasks) => q.tasks[t].job = j
    BY <1>2, SubmitJobOK DEF CoordinatorInv, SubmitNewJob
  <2>2. queue' = q /\ disk' = q /\ todo' = ListPending(q) /\ pc' = "dispatch"
    BY <1>2 DEF SubmitNewJob, Save
  <2> HIDE DEF q
  <2>3. todo' \in Seq(1 .. Len(queue'.tasks))
    BY <2>1, <2>2, ListPendingType
  <2>4. ASSUME NEW p, PaymentOK(queue, p) PROVE PaymentOK(queue', p)
    <3>1. \A t \in 1 .. Len(queue.tasks) : queue.tasks[t].job # j
      BY <1>0, <1>2 DEF SubmitNewJob, TasksOf, TaskIds, CoordinatorInv, QueueOK, Queue
    <3>2. p.job # j
      BY <3>1, <2>4 DEF PaymentOK
    <3> QED
      BY <3>2, <2>1, <2>2, <2>4, PaymentKept DEF CoordinatorInv
  <2>5. UNCHANGED <<workers, current, runner, payments, crashes>>
    BY <1>2 DEF SubmitNewJob
  <2> QED
    BY <2>1, <2>2, <2>3, <2>4, <2>5 DEF CoordinatorInv, RunnerOK
<1>3. ASSUME NEW w \in Workers, NEW c \in Types \cup {AnyCapability}, WorkerClaim(w, c) PROVE Goal
  <2>1. Claim(w, c) /\ UNCHANGED <<workers, payments, crashes>> /\ todo' = todo
    BY <1>3 DEF WorkerClaim
  <2>2. todo' = todo \/ (todo # <<>> /\ todo' = Tail(todo))
    BY <2>1
  <2> QED
    BY <2>1, <2>2, ClaimInv
<1>4. ASSUME NEW j \in Jobs, CollectResults(j) PROVE Goal
  <2> DEFINE q == VerifyResults(queue, j)
  <2>1. QueueOK(q) /\ Later(queue, q) /\ Len(q.tasks) = Len(queue.tasks)
    BY VerifyResultsOK DEF CoordinatorInv
  <2>2. queue' = q /\ disk' = q
        /\ payments' = IF Done(q, j) THEN payments \o PaymentsFor(q, j) ELSE payments
    BY <1>4 DEF CollectResults, Save
  <2>3. UNCHANGED <<workers, current, pc, todo, runner, crashes>> /\ pc = "idle"
    BY <1>4 DEF CollectResults
  <2> HIDE DEF q
  <2>4. /\ \A i \in 1 .. Len(payments) : PaymentOK(q, payments[i])
        /\ todo \in Seq(1 .. Len(q.tasks))
    BY <2>1, <2>2, QueueMoves
  <2>5. payments' \in Seq(Payment) /\ \A i \in 1 .. Len(payments') : PaymentOK(q, payments'[i])
    <3>1. CASE Done(q, j)
      <4> DEFINE P == PaymentsFor(q, j)
      <4>1. P \in Seq(Payment) /\ \A k \in 1 .. Len(P) : PaymentOK(q, P[k])
        BY <2>1, <3>1, PaymentsForOK
      <4>2. payments' = payments \o P /\ payments \in Seq(Payment)
        BY <2>2, <3>1 DEF CoordinatorInv
      <4> HIDE DEF P
      <4>3. payments' \in Seq(Payment) /\ Len(payments') = Len(payments) + Len(P)
        BY <4>1, <4>2
      <4>4. ASSUME NEW i \in 1 .. Len(payments') PROVE PaymentOK(q, payments'[i])
        <5>1. CASE i \in 1 .. Len(payments)
          BY <5>1, <4>1, <4>2, <2>4
        <5>2. CASE ~ (i \in 1 .. Len(payments))
          <6>1. i - Len(payments) \in 1 .. Len(P) /\ payments'[i] = P[i - Len(payments)]
            BY <5>2, <4>1, <4>2, <4>3
          <6> QED
            BY <6>1, <4>1
        <5> QED
          BY <5>1, <5>2
      <4> QED
        BY <4>3, <4>4
    <3>2. CASE ~ Done(q, j)
      BY <3>2, <2>2, <2>4 DEF CoordinatorInv
    <3> QED
      BY <3>1, <3>2
  <2> QED
    BY <2>1, <2>2, <2>3, <2>4, <2>5 DEF CoordinatorInv, RunnerOK
<1>5. ASSUME DistributePayments PROVE Goal
  BY <1>0, <1>5 DEF DistributePayments, CoordinatorInv, RunnerOK
<1>6. ASSUME DispatchSkip PROVE Goal
  <2>1. todo' \in Seq(1 .. Len(queue.tasks))
    BY <1>6, TailType DEF DispatchSkip, CoordinatorInv
  <2> QED
    BY <1>0, <1>6, <2>1 DEF DispatchSkip, CoordinatorInv, RunnerOK
<1>7. ASSUME DispatchClaim PROVE Goal
  <2> DEFINE keep == [i \in DOMAIN workers |-> current[workers[i]] = 0]
  <2>0. DOMAIN workers = 1 .. Len(workers) /\ Len(workers) \in Nat
    BY DEF CoordinatorInv
  <2>1. keep \in Seq(BOOLEAN) /\ Len(keep) = Len(workers)
    BY <2>0
  <2>2. IdleWorkers = Selected(keep)
    BY DEF IdleWorkers
  <2> HIDE DEF keep
  <2>3. Head(IdleWorkers) \in 1 .. Len(workers)
    BY <1>7, <2>1, <2>2, SelectedHead DEF DispatchClaim, Kept
  <2>4. workers[Head(IdleWorkers)] \in Workers
    BY <2>3 DEF CoordinatorInv
  <2>5. /\ Claim(workers[Head(IdleWorkers)], queue.tasks[Head(todo)].type)
        /\ UNCHANGED <<workers, payments, crashes>> /\ todo # <<>> /\ todo' = Tail(todo)
    BY <1>7 DEF DispatchClaim
  <2> QED
    BY <2>4, <2>5, ClaimInv
<1>8. ASSUME DispatchReturn PROVE Goal
  BY <1>0, <1>8 DEF DispatchReturn, CoordinatorInv, RunnerOK
<1>9. ASSUME ExecuteRaises PROVE Goal
  BY <1>0, <1>9 DEF ExecuteRaises, CoordinatorInv, RunnerOK
<1>10. ASSUME NEW proof \in Proofs, Finish(proof) PROVE Goal
  <2> DEFINE t == current[runner]
  <2>1. /\ runner \in Workers /\ t \in 1 .. Len(queue.tasks)
        /\ queue.tasks[t].status = "assigned" /\ queue.tasks[t].worker = runner
    BY <1>10 DEF Finish, CoordinatorInv, RunnerOK
  <2>2. queue' = SubmitResult(queue, t, runner, proof) /\ disk' = queue'
    BY <1>10 DEF Finish, Save
  <2>3. QueueOK(queue') /\ Later(queue, queue') /\ Len(queue'.tasks) = Len(queue.tasks)
    BY <2>1, <2>2, SubmitResultOK DEF CoordinatorInv
  <2>4. /\ \A i \in 1 .. Len(payments) : PaymentOK(queue', payments[i])
        /\ todo \in Seq(1 .. Len(queue'.tasks))
    BY <2>3, QueueMoves
  <2>5. runner' = NoWorker /\ pc' \in {"idle", "dispatch"} /\ UNCHANGED <<workers, todo, payments, crashes>>
    BY <1>10 DEF Finish, BackToCaller
  <2>6. current' \in [Workers -> 0 .. MaxTasks]
    <3>1. current' = [current EXCEPT ![runner] = 0]
      BY <1>10 DEF Finish
    <3>2. current \in [Workers -> 0 .. MaxTasks]
      BY DEF CoordinatorInv
    <3>3. 0 \in 0 .. MaxTasks
      BY CoordinatorAssumption
    <3> QED
      BY <3>1, <3>2, <3>3
  <2> QED
    BY <2>2, <2>3, <2>4, <2>5, <2>6 DEF CoordinatorInv, RunnerOK
<1>11. ASSUME Crash PROVE Goal
  BY <1>0, <1>11, CoordinatorAssumption DEF Crash, Restart, CoordinatorInv, RunnerOK
<1>12. ASSUME CrashInPersist PROVE CoordinatorInv'
  BY <1>12, EmptyQueueOK, CoordinatorAssumption DEF CrashInPersist, Restart, CoordinatorInv, RunnerOK
<1>13. ASSUME UNCHANGED vars PROVE Goal
  BY <1>0, <1>13 DEF vars, CoordinatorInv, RunnerOK
<1> HIDE DEF Goal
<1>14. ASSUME Progress PROVE Goal
  BY <1>6, <1>7, <1>8, <1>9, <1>10, <1>14 DEF Progress
<1>15. Goal \/ (CoordinatorInv' /\ CrashInPersist)
  BY <1>1, <1>2, <1>3, <1>4, <1>5, <1>11, <1>12, <1>13, <1>14 DEF Next
<1> QED
  BY <1>15 DEF Goal

\* CoordinatorInv holds in every state of the coordinator.
THEOREM CoordinatorInvariant == Spec => []CoordinatorInv
<1>1. CoordinatorInv /\ [Next]_vars => CoordinatorInv'
  BY CoordinatorNextInv
<1> QED
  BY <1>1, CoordinatorInitInv, PTL DEF Spec

\* The queue in memory and on disk, the workers and the payments keep their types.
THEOREM CoordinatorTypes == Spec => []TypeOK
BY CoordinatorInvariant, CoordinatorInvImplies, PTL

\* Every task is accounted for, whatever the workers and the crashes do: what ran
\* has one result, from the worker it is assigned to, and what runs belongs to the
\* worker that runs it.
THEOREM CoordinatorAccounts == Spec => []TasksAccounted
BY CoordinatorInvariant, CoordinatorInvImplies, PTL

\* No payment is queued for work that is not verified or for a job that is not done.
THEOREM CoordinatorPays == Spec => []PaymentsBacked
BY CoordinatorInvariant, CoordinatorInvImplies, PTL

\* Saved work is not undone unless the process dies while it writes the file.
THEOREM CoordinatorKeepsWork == Spec => WorkSurvives
<1> DEFINE Survives == /\ IsPrefix(queue.results, queue'.results)
                    /\ \A t \in TaskIds(queue) :
                         /\ t \in TaskIds(queue')
                         /\ StatusRank[queue.tasks[t].status] <= StatusRank[queue'.tasks[t].status]
<1>1. ASSUME CoordinatorInv, [Next]_vars PROVE CrashInPersist \/ Survives
  <2>1. CASE Later(queue, queue')
    <3>1. CoordinatorInv'
      BY <1>1, CoordinatorNextInv
    <3>2. /\ queue.tasks \in Seq(Task) /\ queue'.tasks \in Seq(Task)
          /\ queue.results \in Seq(Result) /\ queue'.results \in Seq(Result)
      BY <1>1, <3>1 DEF CoordinatorInv, QueueOK, Queue
    <3>3. IsPrefix(queue.results, queue'.results)
      BY <3>2, <2>1 DEF IsPrefix, Later
    <3> QED
      BY <3>2, <3>3, <2>1 DEF Later, TaskIds
  <2> QED
    BY <2>1, <1>1, CoordinatorNextInv
<1>2. CoordinatorInv /\ [Next]_vars => [CrashInPersist \/ Survives]_vars
  BY <1>1
<1> QED
  BY <1>2, CoordinatorInvariant, PTL DEF Spec, WorkSurvives

-----------------------------------------------------------------------------
(* The two services side by side *)

\* The coordinator and the checkout keep their types in every behaviour that runs
\* one of them.
THEOREM ServicesTypes == ServicesSpec => []ServicesTypeOK
<1> DEFINE Inv == CoordinatorInv /\ StripeInv
           Step == CoordinatorPart \/ StripePart \/ Rest
<1>1. ServicesInit => Inv
  BY CoordinatorInitInv, StripeInitInv DEF ServicesInit
<1>2. ASSUME Inv, [Step]_servicesVars PROVE Inv'
  <2>1. [Next]_vars /\ [StripeNext]_stripeVars
    <3>1. CASE CoordinatorPart
      BY <3>1 DEF CoordinatorPart
    <3>2. CASE StripePart
      BY <3>2 DEF StripePart
    <3>3. CASE UNCHANGED servicesVars
      BY <3>3 DEF servicesVars
    <3> QED
      BY <1>2, <3>1, <3>2, <3>3 DEF Rest
  <2>2. CoordinatorInv'
    BY <1>2, <2>1, CoordinatorNextInv
  <2>3. StripeInv'
    BY <1>2, <2>1, StripeNextType, StripeNextCopies, StripeNextRevenue DEF StripeInv
  <2> QED
    BY <2>2, <2>3
<1>3. Inv => ServicesTypeOK
  BY CoordinatorInvImplies DEF ServicesTypeOK, StripeInv
<1> QED
  BY <1>1, <1>2, <1>3, PTL DEF ServicesSpec
=============================================================================
