------------------------------ MODULE FeeLedger ------------------------------
(***************************************************************************)
(* What the gas vault promises: a credit is a claim on the reserves that   *)
(* is backed one and a half times when it is issued and stays backed.  It  *)
(* ends once: paid in full out of the reserves, expired, or handed in for  *)
(* nothing, which pays nobody.  A credit that counts as paid has been paid *)
(* in the same step.                                                       *)
(***************************************************************************)
EXTENDS Integers, Sequences, Functions

VARIABLES reserves, ledger
vars == <<reserves, ledger>>

Open == {c \in DOMAIN ledger : ledger[c].state = "open"}
Total(S) == SumFunctionOnSet([c \in DOMAIN ledger |-> ledger[c].amount], S)

Backed(r, owed) == 2 * r >= 3 * owed

Init == reserves \in Nat /\ ledger = <<>>

Close(S, state) == [c \in DOMAIN ledger |-> IF c \in S THEN [ledger[c] EXCEPT !.state = state] ELSE ledger[c]]

Deposit == reserves' > reserves /\ UNCHANGED ledger

\* Credits may lapse in any step that looks at the vault.
Withdraw(lapsed) ==
  /\ reserves' < reserves
  /\ Backed(reserves', Total(Open \ lapsed))
  /\ ledger' = Close(lapsed, "expired")

Issue(lapsed, amount) ==
  /\ amount > 0
  /\ Backed(reserves, Total(Open \ lapsed) + amount)
  /\ ledger' = Append(Close(lapsed, "expired"), [amount |-> amount, state |-> "open"])
  /\ UNCHANGED reserves

Pay(paid, lapsed) ==
  /\ paid # {} /\ paid \cap lapsed = {}
  /\ reserves' = reserves - Total(paid)
  /\ reserves' >= 0
  /\ ledger' = [c \in DOMAIN ledger |->
                  IF c \in paid THEN [ledger[c] EXCEPT !.state = "paid"] ELSE Close(lapsed, "expired")[c]]

\* Credits given up for nothing.
HandIn(given) == ledger' = Close(given, "consumed") /\ UNCHANGED reserves

Lapse(lapsed) == ledger' = Close(lapsed, "expired") /\ UNCHANGED reserves

Next ==
  \/ Deposit
  \/ \E given \in SUBSET Open : HandIn(given)
  \/ \E lapsed \in SUBSET Open :
       \/ Withdraw(lapsed)
       \/ Lapse(lapsed)
       \/ \E paid \in SUBSET Open : Pay(paid, lapsed)
       \/ Len(ledger') > Len(ledger) /\ Issue(lapsed, ledger'[Len(ledger')].amount)

Spec == Init /\ [][Next]_vars
=============================================================================
