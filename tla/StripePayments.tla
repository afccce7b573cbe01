--------------------------- MODULE StripePayments ---------------------------
(***************************************************************************)
(* A paid build: stripe_checkout.py creates a checkout session,            *)
(* webhook_server.py receives Stripe's events, each in a thread of its     *)
(* own, and artifact_builder.py builds the artifact.  All of them share    *)
(* the file stripe_payments.json, which every MembraStripeCheckout loads   *)
(* when it is made and rewrites from its own copy when it saves.           *)
(*                                                                         *)
(* Opening the file for writing truncates it; until the copy is dumped,    *)
(* the file does not parse (Torn), and it stays so if the process stops.   *)
(* A session stands for its job, whose id is in the session's metadata.    *)
(***************************************************************************)
EXTENDS InternalLedger, FiniteSets

CONSTANTS
  Sessions,       \* checkout sessions
  Handlers,       \* request threads of the webhook server
  Environments,   \* the environments the programs may be started in
  Torn,           \* a payments file that does not parse
  MaxDuplicates,  \* bound on deliveries of an event already answered
  MaxUnsigned,    \* bound on the sessions that unsigned requests name as paid
  MaxStops        \* bound on restarts of the server and of the seller's script

\* What is read from a file that does not parse is no dictionary of records.
ASSUME StripeAssumption ==
  Sessions # {} /\ MaxUnsigned \in Nat /\ Torn \notin [Sessions -> {"none", "created", "confirmed"}]

VARIABLES
  env,            \* the environment: [production, key, secret]
  stripe,         \* Stripe's view of each session
  file,           \* stripe_payments.json
  seller,         \* the process that runs create_checkout_session
  handler,        \* what each request thread is doing
  confirmed,      \* the server's confirmed_payments
  builds,         \* the outcome of the last build of each job
  reports,        \* the jobs with a ZIP report in ~/.membra/builds
  revenue,        \* the ledger's pending operations: a split's session
  answered,       \* the sessions whose event got a 200 answer
  posted,         \* history: the sessions an unsigned request said are paid
  duplicates, stops

stripeVars == <<env, posted, stripe, file, seller, handler, confirmed, builds, reports, revenue,
                answered, duplicates, stops>>

Records == [Sessions -> {"none", "created", "confirmed"}]
NoRecords == [s \in Sessions |-> "none"]
Idle == [pc |-> "idle", session |-> CHOOSE s \in Sessions : TRUE, copy |-> NoRecords]

StripeInit ==
  /\ env \in Environments
  /\ stripe = [s \in Sessions |-> "none"]
  /\ file = NoRecords
  /\ seller = Idle
  /\ handler = [h \in Handlers |-> Idle]
  /\ confirmed = {}
  /\ builds = [s \in Sessions |-> "none"]
  /\ reports = {}
  /\ revenue = <<>>
  /\ answered = {}
  /\ posted = {}
  /\ duplicates = 0
  /\ stops = 0
-----------------------------------------------------------------------------
\* MembraStripeCheckout.__init__ raises outside production or without a key.
Configured == env.production /\ env.key

\* Mutant: the exception of the parser is not caught.
LoadRaises(f) == f

\* _load_payments: a file that does not parse counts as empty.
LoadPayments(f) == IF f = Torn THEN NoRecords ELSE f

\* MembraStripeCheckout() returns, with records to work on.
CheckoutMade == Configured /\ LoadPayments(file) # Torn

\* _save_payment opens the file, which truncates it, ...
Truncate == file' = Torn

\* ... and dumps the whole copy.  If another writer has dumped its own since
\* this one opened the file, what is longer of the other's text stays behind
\* and the file may not parse.
Dump(copy) == file' = copy \/ (file # Torn /\ file' = Torn)
-----------------------------------------------------------------------------
\* The seller's script: MembraStripeCheckout() loads the file, ...
SellerLoads(s) ==
  /\ CheckoutMade /\ seller.pc = "idle" /\ stripe[s] = "none"
  /\ seller' = [pc |-> "create", session |-> s, copy |-> LoadPayments(file)]
  /\ UNCHANGED <<env, posted, stripe, file, handler, confirmed, builds, reports, revenue, answered, duplicates, stops>>

\* ... create_checkout_session asks Stripe for a session, ...
CreateSession ==
  /\ seller.pc = "create"
  /\ stripe' = [stripe EXCEPT ![seller.session] = "open"]
  /\ seller' = [seller EXCEPT !.pc = "open", !.copy[seller.session] = "created"]
  /\ UNCHANGED <<env, posted, file, handler, confirmed, builds, reports, revenue, answered, duplicates, stops>>

\* ... or raises StripeCheckoutError (or the script is stopped),
SellerStops ==
  /\ seller.pc # "idle" /\ stops < MaxStops
  /\ seller' = Idle
  /\ stops' = stops + 1
  /\ UNCHANGED <<env, posted, stripe, file, handler, confirmed, builds, reports, revenue, answered, duplicates>>

\* and saves the session before its URL is shown to the buyer.
SellerOpensFile ==
  /\ seller.pc = "open"
  /\ Truncate
  /\ seller' = [seller EXCEPT !.pc = "dump"]
  /\ UNCHANGED <<env, posted, stripe, handler, confirmed, builds, reports, revenue, answered, duplicates, stops>>

SellerSaves ==
  /\ seller.pc = "dump"
  /\ Dump(seller.copy)
  /\ seller' = Idle
  /\ stripe' = [stripe EXCEPT ![seller.session] = "shown"]
  /\ UNCHANGED <<env, posted, handler, confirmed, builds, reports, revenue, answered, duplicates, stops>>

\* The buyer completes the checkout; the event carries the payment status.
BuyerCompletes(s) ==
  /\ stripe[s] = "shown"
  /\ \E status \in {"paid", "unpaid"} : stripe' = [stripe EXCEPT ![s] = status]
  /\ UNCHANGED <<env, posted, file, seller, handler, confirmed, builds, reports, revenue, answered, duplicates, stops>>
-----------------------------------------------------------------------------
\* verify_webhook: with the webhook secret the event's data is the session
\* object; without it the payload is parsed as it is, and the data of an event
\* of Stripe's is a wrapper around that object, which has no payment status.
PaymentStatus(s) == IF env.secret THEN stripe[s] ELSE "missing"

\* Mutant: the payment status is not looked at.
VerifiedAnyway(s) == env.secret

\* handle_checkout_completed confirms paid sessions only.
Verified(s) == PaymentStatus(s) = "paid"

\* Stripe delivers the event of a completed session, and again until it gets a
\* 200 answer, and perhaps after that.  The handler loads the payments file;
\* an event that is not verified is answered at once.
ReceiveEvent(h, s) ==
  /\ CheckoutMade
  /\ stripe[s] \in {"paid", "unpaid"}
  /\ handler[h].pc = "idle"
  /\ IF Verified(s)
     THEN /\ handler' = [handler EXCEPT ![h] = [pc |-> "open", session |-> s,
                           copy |-> [LoadPayments(file) EXCEPT ![s] = "confirmed"]]]
          /\ UNCHANGED answered
     ELSE /\ answered' = answered \cup {s}
          /\ UNCHANGED handler
  /\ UNCHANGED <<env, posted, stripe, file, seller, confirmed, builds, reports, revenue, stops>>

FirstDelivery(h, s) == s \notin answered /\ ReceiveEvent(h, s) /\ UNCHANGED duplicates

DuplicateDelivery(h, s) ==
  /\ s \in answered /\ duplicates < MaxDuplicates
  /\ ReceiveEvent(h, s)
  /\ duplicates' = duplicates + 1

\* Without the secret any request that parses passes for an event, whoever made
\* it: one whose data says "paid" is handled as Stripe's would be.  (One that
\* says anything else is answered and changes nothing.)
UnsignedRequest(h, s) ==
  /\ CheckoutMade /\ ~ env.secret
  /\ handler[h].pc = "idle"
  /\ s \notin posted /\ Cardinality(posted) < MaxUnsigned
  /\ posted' = posted \cup {s}
  /\ handler' = [handler EXCEPT ![h] = [pc |-> "open", session |-> s,
                    copy |-> [LoadPayments(file) EXCEPT ![s] = "confirmed"]]]
  /\ UNCHANGED <<env, stripe, file, seller, confirmed, builds, reports, revenue, answered, duplicates, stops>>

HandlerOpensFile(h) ==
  /\ handler[h].pc = "open"
  /\ Truncate
  /\ handler' = [handler EXCEPT ![h].pc = "dump"]
  /\ UNCHANGED <<env, posted, stripe, seller, confirmed, builds, reports, revenue, answered, duplicates, stops>>

\* The copy is dumped and the server notes the payment.
HandlerConfirms(h) ==
  /\ handler[h].pc = "dump"
  /\ Dump(handler[h].copy)
  /\ confirmed' = confirmed \cup {handler[h].session}
  /\ handler' = [handler EXCEPT ![h].pc = "build"]
  /\ UNCHANGED <<env, posted, stripe, seller, builds, reports, revenue, answered, duplicates, stops>>

\* _run_tests runs the artifact with python3.  The generated script calls
\* json.dumps without importing json, and the contract and the module are not
\* Python: only code handed in with the specification can exit with 0.
Passes(type) == type \notin {"python_script", "solana_contract", "rust_module"}
BuildStatus(type) == IF Passes(type) THEN "built" ELSE "test_failed"

\* The specification the webhook builds, whatever the job.
SpecType == "python_script"

GenerateReportZip(s) == reports \cup {s}

\* The five shares are recorded as one operation of the ledger.
SplitRevenue(s) == Submit(revenue, s)

\* The artifact is built; if its tests pass, the report is written and the
\* revenue is split.  The event is answered with 200 either way; without the
\* secret it is not one of Stripe's, which hears nothing of the answer.
HandlerBuilds(h) ==
  LET s == handler[h].session
      built == BuildStatus(SpecType) = "built"
  IN  /\ handler[h].pc = "build"
      /\ builds' = [builds EXCEPT ![s] = BuildStatus(SpecType)]
      /\ reports' = IF built THEN GenerateReportZip(s) ELSE reports
      /\ revenue' = IF built THEN SplitRevenue(s) ELSE revenue
      /\ answered' = IF env.secret THEN answered \cup {s} ELSE answered
      /\ handler' = [handler EXCEPT ![h] = Idle]
      /\ UNCHANGED <<env, posted, stripe, file, seller, confirmed, duplicates, stops>>

\* The server stops at any point: the threads, the confirmed payments and the
\* ledger are gone, the files stay as they are.
ServerRestarts ==
  /\ stops < MaxStops
  /\ handler' = [h \in Handlers |-> Idle]
  /\ confirmed' = {}
  /\ revenue' = <<>>
  /\ stops' = stops + 1
  /\ UNCHANGED <<env, posted, stripe, file, seller, builds, reports, answered, duplicates>>

HandlerStep(h) == HandlerOpensFile(h) \/ HandlerConfirms(h) \/ HandlerBuilds(h)

StripeNext ==
  \/ \E s \in Sessions : SellerLoads(s) \/ BuyerCompletes(s)
  \/ CreateSession \/ SellerStops \/ SellerOpensFile \/ SellerSaves
  \/ \E h \in Handlers, s \in Sessions : FirstDelivery(h, s) \/ DuplicateDelivery(h, s) \/ UnsignedRequest(h, s)
  \/ \E h \in Handlers : HandlerStep(h)
  \/ ServerRestarts

\* Threads run, and Stripe retries an event until it is answered.  The buyer and
\* the seller may stop whenever they like.
StripeFairness ==
  /\ \A h \in Handlers : WF_stripeVars(HandlerStep(h))
  /\ \A s \in Sessions : WF_stripeVars(\E h \in Handlers : FirstDelivery(h, s))

StripeSpec == StripeInit /\ [][StripeNext]_stripeVars /\ StripeFairness
-----------------------------------------------------------------------------
StripeTypeOK ==
  /\ stripe \in [Sessions -> {"none", "open", "shown", "paid", "unpaid"}]
  /\ file \in Records \cup {Torn}
  /\ seller \in [pc : {"idle", "create", "open", "dump"}, session : Sessions, copy : Records]
  /\ handler \in [Handlers -> [pc : {"idle", "open", "dump", "build"}, session : Sessions, copy : Records]]
  /\ confirmed \subseteq Sessions
  /\ builds \in [Sessions -> {"none", "built", "test_failed"}]
  /\ reports \subseteq Sessions
  /\ revenue \in UNION {[1 .. n -> Sessions] : n \in 0 .. MaxPending}
  /\ answered \subseteq Sessions
  /\ posted \subseteq Sessions

\* Paid at Stripe or, in a server that was given no webhook secret and cannot
\* tell, said to be paid by an unsigned request.
PaidFor(s) == stripe[s] = "paid" \/ (~ env.secret /\ s \in posted)

\* "Webhook secrets prevent forged events" (docs/STRIPE_SETUP.md), and "This is
\* the ONLY place where MEMBRA marks revenue as verified" (handle_checkout_completed):
\* with the secret, whatever copies of the file are written back in whatever
\* order, a session that any record, memory, build, report or split says is paid
\* for was paid at Stripe.  Without it verify_webhook believes the request, and
\* what is left is that nothing is confirmed that no such request named.
RevenueIsPaid ==
  \A s \in Sessions :
    \/ file # Torn /\ file[s] = "confirmed"
    \/ s \in confirmed \cup reports
    \/ builds[s] # "none"
    \/ \E k \in DOMAIN revenue : revenue[k] = s
    \/ \E h \in Handlers : handler[h].copy[s] = "confirmed"
    => PaidFor(s)

\* Every completed checkout is answered with 200 in the end, so that Stripe
\* stops retrying it: no torn payments file, crash or duplicate keeps a handler
\* from finishing (webhook_server.py, stripe_webhook).
CompletedIsAnswered ==
  \A s \in Sessions : (Configured /\ stripe[s] \in {"paid", "unpaid"}) ~> s \in answered

\* "When buyer pays, the webhook will: 1. Verify the Stripe payment 2. Build the
\* artifact 3. Generate ZIP report 4. Split revenue in ledger"
\* (examples/real_stripe_job.py): a paid session gets its report.  The code never
\* writes one, because the script it generates fails when it is run.
PaidIsDelivered ==
  \A s \in Sessions : (Configured /\ env.secret /\ stripe[s] = "paid") ~> s \in reports
=============================================================================
