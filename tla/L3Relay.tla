------------------------------- MODULE L3Relay -------------------------------
(***************************************************************************)
(* Gasless payments of membra-l3: the intent network, the identity         *)
(* registry behind the risk limits, the gas vault and the relayer that     *)
(* settles intents and is reimbursed from the vault.  The L3 is one        *)
(* process; its calls do not interleave, but time passes during a batch of *)
(* the relayer, so the list of intents it took may be stale when used.     *)
(*                                                                         *)
(* Of the proof book only the zk_compute_receipt entries are read here;    *)
(* zk counts them, and a receipt is known by its number.  Intents are      *)
(* settled by a simulated transaction, whose signature is left out.        *)
(***************************************************************************)
EXTENDS GasVault, Selection

CONSTANTS
  Users, Tokens, Amounts, Providers, WorkScores, Transfers,
  ClaimWindow,     \* intent_claim_window_seconds
  ProofWindow,     \* the limit of get_entries in issue_credit
  MinProfit, MaxGasPerTx, SupportedTokens, BlacklistedUsers,   \* RelayerConfig
  InitialSol,
  MaxTime, MaxIntents, MaxCredits, MaxLinks, MaxProofs, MaxReserves   \* bounds

ASSUME RelayAssumption ==
  /\ {ClaimWindow, MinProfit, MaxGasPerTx, InitialSol} \subseteq Nat
  /\ {MaxTime, MaxIntents, MaxCredits, MaxLinks, MaxProofs, MaxReserves} \subseteq Nat
  /\ Amounts \subseteq Nat /\ WorkScores \subseteq Nat /\ Transfers \subseteq Nat
  /\ InitialSol <= MaxReserves
  /\ Providers \subseteq {"VENMO", "TWITTER", "GITHUB", "DISCORD", "EMAIL", "SOLANA_WALLET"}

VARIABLES
  now,      \* the clock
  vault,    \* gas_vault
  zk,       \* the number of receipts in the proof book
  intents,  \* intent_network._intents, in order of creation
  nonces,   \* intent_network._user_nonces
  links,    \* identity_registry._links, in order of creation
  scores,   \* identity_registry._scores
  batch,    \* what is left of the relayer's list of intents
  books     \* the relayer's three counters

relayVars == <<now, vault, zk, intents, nonces, links, scores, batch, books>>

IntentStatus == {"pending", "claimed", "expired", "cancelled", "settling"}
LinkStatus == {"pending", "verified", "revoked"}
NoScore == [score |-> -1, maxTransfer |-> 0, verified |-> 0, duplicates |-> {}]   \* no entry
NoRelayer == "none"
Relayer == "relayer"
Receiver == "receiver"

RelayInit ==
  /\ now = 0
  /\ vault = EmptyVault(InitialSol)
  /\ zk = 0
  /\ intents = <<>>
  /\ nonces = [u \in Users |-> 0]
  /\ links = <<>>
  /\ scores = [u \in Users |-> NoScore]
  /\ batch = <<>>
  /\ books = [relayed |-> 0, profit |-> 0, gas |-> 0]

\* The process serves a call only when the relayer's batch is not running.
Idle == batch = <<>>

Tick == /\ now < MaxTime
        /\ now' = now + 1
        /\ UNCHANGED <<vault, zk, intents, nonces, links, scores, batch, books>>
-----------------------------------------------------------------------------
(* Identity registry *)

ProviderWeight == [VENMO |-> 25, TWITTER |-> 15, GITHUB |-> 20, DISCORD |-> 10, EMAIL |-> 10, SOLANA_WALLET |-> 20]

LinksOf(user) == {l \in DOMAIN links : links[l].user = user}
VerifiedOf(ls, user) == {l \in DOMAIN ls : ls[l].user = user /\ ls[l].status = "verified"}

\* _provider_index: the latest link of the provider to the external id.
Indexed(ls, provider, id) ==
  Max({l \in DOMAIN ls : ls[l].provider = provider /\ ls[l].id = id})

\* The weights of the verified links, one at most.
Points(ls, user) ==
  LET sum == SumFunctionOnSet([l \in DOMAIN ls |-> ProviderWeight[ls[l].provider]], VerifiedOf(ls, user))
  IN  IF sum < 100 THEN sum ELSE 100

\* _compute_score, in hundredths, with the flag for an external id that
\* someone linked again later; the limit in cents is 1000 dollars times the score.
ComputeScore(ls, user) ==
  LET verified == VerifiedOf(ls, user)
      score == Points(ls, user)
  IN [score |-> score, maxTransfer |-> 1000 * score, verified |-> Cardinality(verified),
      duplicates |-> {ls[l].provider : l \in {m \in verified : Indexed(ls, ls[m].provider, ls[m].id) # m}}]

\* link_identity: an id that is already linked to somebody is linked again.
LinkIdentity(user, provider, id) ==
  /\ Idle /\ Len(links) < MaxLinks
  /\ links' = Append(links, [user |-> user, provider |-> provider, id |-> id, status |-> "pending"])
  /\ UNCHANGED <<now, vault, zk, intents, nonces, scores, batch, books>>

SetLink(l, status) ==
  /\ links' = [links EXCEPT ![l].status = status]
  /\ scores' = [scores EXCEPT ![links[l].user] = ComputeScore(links', links[l].user)]
  /\ UNCHANGED <<now, vault, zk, intents, nonces, batch, books>>

VerifyLink(l) == Idle /\ links[l].status = "pending" /\ SetLink(l, "verified")

\* Mutant: revoke_link leaves the score as it was.
RevokeOnly(l) ==
  /\ Idle
  /\ links' = [links EXCEPT ![l].status = "revoked"]
  /\ UNCHANGED <<now, vault, zk, intents, nonces, scores, batch, books>>

RevokeLink(l) == Idle /\ SetLink(l, "revoked")

\* get_risk_adjusted_limits: 100 dollars for a user without a score.
MaxTransfer(user) == IF scores[user] = NoScore THEN 10000 ELSE scores[user].maxTransfer
-----------------------------------------------------------------------------
(* Gas vault *)

\* External: the prover appends a zk_compute_receipt to the proof book.
LogZkCompute ==
  /\ Idle /\ zk < MaxProofs
  /\ zk' = zk + 1
  /\ UNCHANGED <<now, vault, intents, nonces, links, scores, batch, books>>

\* get_entries(ZK_COMPUTE, limit): the tail of the receipts.
ZkEntries == {p \in 1 .. zk : p > zk - ProofWindow}

SetVault(v) == vault' = v /\ UNCHANGED <<now, zk, intents, nonces, links, scores, batch, books>>

Deposit(amount) ==
  /\ Idle /\ vault.reserves + amount <= MaxReserves
  /\ SetVault(DepositSol(vault, amount))

Withdraw(amount) ==
  /\ Idle /\ CanWithdraw(vault, amount, now)
  /\ SetVault(WithdrawSol(vault, amount, now))

Issue(user, proof, work) ==
  LET looked == ExpireStaleCredits(vault, now) IN
  /\ Idle /\ Len(vault.credits) < MaxCredits
  /\ proof \in ZkEntries
  /\ CanIssue(looked, user, work)
  /\ SetVault(IssueCredit(looked, user, work, now))

\* A relayer that asks for its money itself, with any list of credits: ids that
\* are used, expired or somebody else's included.
Reimburse(S) ==
  /\ Idle
  /\ SetVault(ReimburseRelayer(vault, S, now))

\* consume_credits by itself: the credits are used and nobody is paid.
Consume(S) ==
  /\ Idle
  /\ SetVault(Mark(vault, ConsumeCredits(vault, S), "consumed"))

\* Every query of the vault, and an issue or a withdrawal it refuses, expires
\* what is stale and changes nothing else.
LookAtVault == Idle /\ SetVault(ExpireStaleCredits(vault, now))
-----------------------------------------------------------------------------
(* Intent network *)

Approved == {"MEMBRA", "USDC", "SOL", "USDT", "USDC_ETH", "WETH"}

Expired(i) == now >= intents[i].expires
Claimable(i) == intents[i].status = "pending" /\ ~ Expired(i)

SetIntents(is) == intents' = is /\ UNCHANGED <<now, vault, zk, links, scores, batch, books>>

CreateIntent(sender, token, amount) ==
  /\ Idle /\ Len(intents) < MaxIntents
  /\ token \in Approved
  /\ amount > 0
  /\ SetIntents(Append(intents,
       [sender |-> sender, token |-> token, amount |-> amount, expires |-> now + ClaimWindow,
        nonce |-> nonces[sender], status |-> "pending", relayer |-> NoRelayer, credits |-> {}]))
  /\ nonces' = [nonces EXCEPT ![sender] = @ + 1]

\* claim_intent lets anyone claim; a receiver that settles on its own calls it
\* and, once its transaction is on chain, confirm_settlement.
ClaimIntent(i) ==
  /\ Idle /\ Claimable(i)
  /\ SetIntents([intents EXCEPT ![i].status = "settling"])
  /\ UNCHANGED nonces

ConfirmSettlement(i) ==
  /\ Idle /\ intents[i].status = "settling"
  /\ SetIntents([intents EXCEPT ![i] = [@ EXCEPT !.status = "claimed", !.relayer = Receiver]])
  /\ UNCHANGED nonces

CancelIntent(i) ==
  /\ Idle /\ Claimable(i)
  /\ SetIntents([intents EXCEPT ![i].status = "cancelled"])
  /\ UNCHANGED nonces

\* Mutant: expire_intents marks everything that is past its window.
Lapsed(i) == Expired(i)

\* The intents expire_intents marks.
Overdue(i) == intents[i].status = "pending" /\ Expired(i)

\* expire_intents, run by every listing of the network.
ExpireIntents ==
  /\ Idle
  /\ SetIntents([i \in DOMAIN intents |->
                   IF Overdue(i) THEN [intents[i] EXCEPT !.status = "expired"] ELSE intents[i]])
  /\ UNCHANGED nonces
-----------------------------------------------------------------------------
(* Relayer *)

FindClaimableIntents ==
  Selected([i \in DOMAIN intents |-> /\ Claimable(i)
                                     /\ intents[i].sender \notin BlacklistedUsers
                                     /\ intents[i].token \in SupportedTokens])

\* relay_all_profitable takes the list once.
RelayAllProfitable ==
  /\ Idle
  /\ batch' = FindClaimableIntents
  /\ UNCHANGED <<now, vault, zk, intents, nonces, links, scores, books>>

\* relay_intent for one intent, in whatever state it is.
RelayOne(i) ==
  /\ Idle
  /\ batch' = <<i>>
  /\ UNCHANGED <<now, vault, zk, intents, nonces, links, scores, books>>

\* The simplified conversion of relay_intent, to cents: a token without a
\* price of its own counts as one dollar.
AmountUsd(i) ==
  intents[i].amount * CASE intents[i].token = "SOL" -> 15000
                        [] intents[i].token = "MEMBRA" -> 1
                        [] OTHER -> 100

\* _estimate_gas.
EstimateGas(i) == IF intents[i].token = "SOL" THEN 1 ELSE 3

\* The stable sort of _select_credits: the user's active credits before c.
Smaller(v, user, c) ==
  {d \in ActiveOf(v, user) : \/ v.credits[d].amount < v.credits[c].amount
                             \/ v.credits[d].amount = v.credits[c].amount /\ d < c}

\* Mutant: the credits of all users are eligible.
SelectAnyones(v, user, need) ==
  UNION {{c \in ActiveOf(v, u) : AmountOf(v, Smaller(v, u, c)) < need} : u \in Users}

\* _select_credits: smallest first until the need is met.
SelectCredits(v, user, need) ==
  {c \in ActiveOf(v, user) : AmountOf(v, Smaller(v, user, c)) < need}

WithinRiskLimit(i) == AmountUsd(i) <= MaxTransfer(intents[i].sender)

\* The profit test of relay_intent on the credits get_user_credits returned.
Profitable(v, i) ==
  LET chosen == SelectCredits(v, intents[i].sender, EstimateGas(i) + MinProfit) IN
  /\ ActiveOf(v, intents[i].sender) # {}
  /\ EstimateGas(i) <= MaxGasPerTx
  /\ AmountOf(v, chosen) - EstimateGas(i) >= MinProfit

\* An early return before the claim; get_user_credits has looked at the vault
\* unless the risk limit refused.
RelayRefused ==
  LET i == Head(batch)
      looked == ExpireStaleCredits(vault, now)
  IN /\ ~ Idle
     /\ \/ ~ WithinRiskLimit(i) /\ UNCHANGED vault
        \/ /\ WithinRiskLimit(i)
           /\ ~ Profitable(looked, i) \/ ~ Claimable(i)
           /\ vault' = looked
     /\ batch' = Tail(batch)
     /\ UNCHANGED <<now, zk, intents, nonces, links, scores, books>>

\* The rest of relay_intent: claim, settle, confirm, and only then ask the
\* vault for the money.  The counters move only if the vault paid.
RelaySettles ==
  LET i == Head(batch)
      looked == ExpireStaleCredits(vault, now)
      chosen == SelectCredits(looked, intents[i].sender, EstimateGas(i) + MinProfit)
      profit == AmountOf(looked, chosen) - EstimateGas(i)
  IN /\ ~ Idle
     /\ WithinRiskLimit(i)
     /\ Profitable(looked, i)
     /\ Claimable(i)
     /\ intents' = [intents EXCEPT ![i] = [@ EXCEPT !.status = "claimed", !.relayer = Relayer, !.credits = chosen]]
     /\ vault' = ReimburseRelayer(looked, chosen, now)
     /\ books' = IF Reimbursed(looked, vault')
                 THEN [relayed |-> books.relayed + 1, profit |-> books.profit + profit,
                       gas |-> books.gas + EstimateGas(i)]
                 ELSE books
     /\ batch' = Tail(batch)
     /\ UNCHANGED <<now, zk, nonces, links, scores>>

RelayNext ==
  \/ Tick \/ LogZkCompute \/ LookAtVault \/ ExpireIntents
  \/ RelayAllProfitable \/ RelayRefused \/ RelaySettles
  \/ \E u \in Users : \/ \E p \in Providers : LinkIdentity(u, p, "handle")
                      \/ \E t \in Tokens, a \in Amounts : CreateIntent(u, t, a)
                      \/ \E p \in 1 .. MaxProofs, w \in WorkScores : Issue(u, p, w)
  \/ \E l \in DOMAIN links : VerifyLink(l) \/ RevokeLink(l)
  \/ \E a \in Transfers : Deposit(a) \/ Withdraw(a)
  \/ \E S \in SUBSET CreditIds(vault) : Reimburse(S) \/ Consume(S)
  \/ \E i \in DOMAIN intents : ClaimIntent(i) \/ ConfirmSettlement(i) \/ CancelIntent(i) \/ RelayOne(i)

RelaySpec == RelayInit /\ [][RelayNext]_relayVars
-----------------------------------------------------------------------------
(* Properties *)

\* The ranges of the fields; a batch holds existing intents only.
RelayTypeOK ==
  /\ now \in 0 .. MaxTime
  /\ vault.reserves \in 0 .. MaxReserves
  /\ \A c \in CreditIds(vault) : /\ vault.credits[c].user \in Users
                                 /\ vault.credits[c].amount \in 1 .. MaxUserCredit
                                 /\ vault.credits[c].status \in CreditStatus
  /\ \A i \in DOMAIN intents : /\ intents[i].sender \in Users
                               /\ intents[i].status \in IntentStatus
                               /\ intents[i].credits \subseteq CreditIds(vault)
  /\ \A l \in DOMAIN links : links[l].user \in Users /\ links[l].status \in LinkStatus
  /\ Range(batch) \subseteq DOMAIN intents
  /\ books \in [relayed : 0 .. MaxIntents, profit : Nat, gas : Nat]

\* "Coverage ratio must stay above minimum" (gas_vault.py, module docstring):
\* credits nobody has looked at since they lapsed count too, and no user holds
\* more than the cap, over every order of issues, expiries and withdrawals.
CoverageKept ==
  /\ Covered(vault.reserves, Outstanding(vault))
  /\ \A u \in Users : AmountOf(vault, ActiveOf(vault, u)) <= MaxUserCredit

\* The intent is settled and the relayer paid in one piece: although
\* relay_intent confirms the settlement first and reimburse_relayer uses the
\* credits up first, every intent the relayer settled spent credits of its own
\* sender, no credit was spent on two intents, and the relayer's gas and profit
\* are exactly what those credits were worth.
RelayerMadeWhole ==
  LET relayed == {i \in DOMAIN intents : intents[i].relayer = Relayer}
      spent == UNION {intents[i].credits : i \in relayed}
  IN /\ \A i \in relayed : \A c \in intents[i].credits :
          vault.credits[c].user = intents[i].sender /\ vault.credits[c].status = "used"
     /\ \A i, j \in relayed : i # j => intents[i].credits \cap intents[j].credits = {}
     /\ books.relayed = Cardinality(relayed)
     /\ books.gas + books.profit = AmountOf(vault, spent)
     /\ books.profit >= MinProfit * Cardinality(relayed)

\* What ComputeScore gives for the links as they are now; a user none of whose
\* links was ever verified or revoked has the default limit.
LimitNow(user) ==
  IF \A l \in LinksOf(user) : links[l].status = "pending" THEN 10000
  ELSE 1000 * Points(links, user)

\* The relayer never settles above the sender's limit as the links stand at
\* that moment, nor with a credit that is past its time: neither the cached
\* score nor the lazily expired status is stale when relay_intent reads it.
\* (reimburse_relayer and consume_credits, called on their own, do take a credit
\* that has lapsed and that no call has looked at.)
SettledWithinLimit ==
  [][\A i \in DOMAIN intents :
       intents'[i].relayer = Relayer /\ intents[i].relayer # Relayer
         => /\ AmountUsd(i) <= LimitNow(intents[i].sender)
            /\ \A c \in intents'[i].credits : now < vault.credits[c].expires]_relayVars

\* An intent leaves "pending" for "settling" or "claimed" only inside its
\* window, whatever list the relayer holds; a claimed one is never cancelled
\* or expired, and the three final statuses are final.
StatusForward ==
  [][\A i \in DOMAIN intents :
       LET from == intents[i].status  to == intents'[i].status IN
       from # to =>
         \/ from = "pending" /\ to = "expired" /\ now >= intents[i].expires
         \/ from = "pending" /\ to \in {"settling", "claimed", "cancelled"} /\ now < intents[i].expires
         \/ from = "settling" /\ to = "claimed"]_relayVars

\* The vault as FeeLedger sees it.
LedgerOf(v) ==
  [c \in CreditIds(v) |->
     [amount |-> v.credits[c].amount,
      state |-> CASE v.credits[c].status = "active" -> "open"
                  [] v.credits[c].status = "used" -> "paid"
                  [] v.credits[c].status = "consumed" -> "consumed"
                  [] v.credits[c].status = "expired" -> "expired"]]

Ledger == INSTANCE FeeLedger WITH reserves <- vault.reserves, ledger <- LedgerOf(vault)

\* The vault implements FeeLedger: a credit that reimburse_relayer used has been
\* paid out of the reserves in the same call, although the method has two
\* refusals after it has used the credits up; only a call of consume_credits by
\* itself ends a credit for nothing.
ImplementsFeeLedger == Ledger!Spec
=============================================================================
