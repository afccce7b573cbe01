------------------------------- MODULE GasVault -------------------------------
(***************************************************************************)
(* The GasVault of membra-l3 as a value: an operator per method, each the  *)
(* vault the method leaves.  A vault is [reserves, credits, paid]: paid is *)
(* the sum of the amounts in _reimbursements, and a credit's id is its     *)
(* position in credits, which is the order of the dictionary.  Amounts are *)
(* multiples of 5000 lamports, the relayer's smallest quantity.            *)
(***************************************************************************)
EXTENDS Integers, Sequences, FiniteSetsExt, Functions

CONSTANTS
  CreditExpiry,   \* fee_credit_expiry_seconds
  MaxUserCredit   \* max_fee_credit_per_user_usd, as the lamports it is read as

ASSUME VaultAssumption == CreditExpiry \in Nat \ {0} /\ MaxUserCredit \in Nat \ {0}

\* USED is split by the call that used the credit: "used" for reimburse_relayer,
\* "consumed" for consume_credits alone.  The code tells neither from the other;
\* it only ever compares with ACTIVE.
CreditStatus == {"active", "used", "consumed", "expired"}

VaultOf(reserves, credits, paid) == [reserves |-> reserves, credits |-> credits, paid |-> paid]
EmptyVault(sol) == VaultOf(sol, <<>>, 0)

CreditIds(v) == DOMAIN v.credits
AmountOf(v, S) == SumFunctionOnSet([c \in CreditIds(v) |-> v.credits[c].amount], S)

Active(v) == {c \in CreditIds(v) : v.credits[c].status = "active"}
ActiveOf(v, user) == {c \in Active(v) : v.credits[c].user = user}
Outstanding(v) == AmountOf(v, Active(v))

Mark(v, S, status) ==
  VaultOf(v.reserves,
          [c \in CreditIds(v) |-> IF c \in S THEN [v.credits[c] EXCEPT !.status = status] ELSE v.credits[c]],
          v.paid)

\* _expire_stale_credits: a credit stays active until some call looks at the vault.
ExpireStaleCredits(v, now) ==
  Mark(v, {c \in Active(v) : now >= v.credits[c].expires}, "expired")

\* The ratio tests: reserves / outstanding >= 1.5, and infinity with nothing outstanding.
Covered(sol, outstanding) == outstanding = 0 \/ 2 * sol >= 3 * outstanding

DepositSol(v, amount) == VaultOf(v.reserves + amount, v.credits, v.paid)

\* Mutant: withdraw_sol looks at the coverage before the withdrawal.
CoveredBefore(v, amount) == Covered(v.reserves, Outstanding(v))

\* withdraw_sol: the coverage once the amount is gone.
CoveredAfter(v, amount) == Covered(v.reserves - amount, Outstanding(v))

CanWithdraw(v, amount, now) ==
  /\ amount <= v.reserves
  /\ CoveredAfter(ExpireStaleCredits(v, now), amount)

WithdrawSol(v, amount, now) ==
  VaultOf(v.reserves - amount, ExpireStaleCredits(v, now).credits, v.paid)

\* issue_credit: the work score's worth, within the rest of the user's cap.
CreditFor(v, user, work) == Min({work, MaxUserCredit - AmountOf(v, ActiveOf(v, user))})

\* _can_cover_new_credits, after the two tests of the cap.
CanIssue(v, user, work) ==
  /\ AmountOf(v, ActiveOf(v, user)) < MaxUserCredit
  /\ CreditFor(v, user, work) > 0
  /\ Covered(v.reserves, Outstanding(v) + CreditFor(v, user, work))

NewCredit(v, user, work, now) ==
  [user |-> user, amount |-> CreditFor(v, user, work), expires |-> now + CreditExpiry, status |-> "active"]

IssueCredit(v, user, work, now) ==
  VaultOf(v.reserves, Append(v.credits, NewCredit(v, user, work, now)), v.paid)

\* Mutant: consume_credits does not look at the status.
Consumable(v, S) == S \cap CreditIds(v)

\* consume_credits: the ones of S it takes.  A credit past its time that no
\* call has looked at is still active.
ConsumeCredits(v, S) == S \cap Active(v)

\* reimburse_relayer.  The credits are used up before it is known whether the
\* vault can pay: the two refusals leave them used.
ReimburseRelayer(v, S, now) ==
  LET taken == ConsumeCredits(v, S)
      total == AmountOf(v, taken)
      used == Mark(v, taken, "used")
      looked == ExpireStaleCredits(used, now)
  IN IF total <= 0 THEN used
     ELSE IF total > v.reserves THEN used
     ELSE IF ~ Covered(v.reserves - total, Outstanding(looked)) THEN looked
     ELSE VaultOf(v.reserves - total, looked.credits, v.paid + total)

\* Whether the call returned a Reimbursement.
Reimbursed(before, after) == after.paid > before.paid
=============================================================================
