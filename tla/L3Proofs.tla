------------------------------ MODULE L3Proofs ------------------------------
(***************************************************************************)
(* Proofs about the gas vault, the relayer, the governance and the oracle, *)
(* for every set of users, tokens, amounts and voters and for every value  *)
(* of the caps and windows.                                                *)
(***************************************************************************)
EXTENDS MCL3, DataTheorems

-----------------------------------------------------------------------------
(* Vaults *)

Credit == [user : Users, amount : 1 .. MaxUserCredit, expires : Nat, status : CreditStatus]
Vault == [reserves : Nat, credits : Seq(Credit), paid : Nat]

\* The fields of a vault.
LEMMA VaultFields ==
  ASSUME NEW v \in Vault
  PROVE  /\ v.reserves \in Nat /\ v.paid \in Nat /\ v.credits \in Seq(Credit)
         /\ Len(v.credits) \in Nat /\ CreditIds(v) = 1 .. Len(v.credits)
         /\ IsFiniteSet(CreditIds(v))
         /\ \A c \in CreditIds(v) : v.credits[c] \in Credit /\ v.credits[c].amount \in Nat /\ v.credits[c].amount > 0
<1>1. v.reserves \in Nat /\ v.paid \in Nat /\ v.credits \in Seq(Credit)
  BY DEF Vault
<1>2. Len(v.credits) \in Nat /\ CreditIds(v) = 1 .. Len(v.credits)
  BY <1>1 DEF CreditIds
<1>3. \A c \in CreditIds(v) : v.credits[c] \in Credit
  BY <1>1, <1>2
<1>4. IsFiniteSet(CreditIds(v))
  BY <1>2, FS_Interval
<1>5. \A c \in CreditIds(v) : v.credits[c].amount \in Nat /\ v.credits[c].amount > 0
  BY <1>3, VaultAssumption DEF Credit
<1> QED
  BY <1>1, <1>2, <1>3, <1>4, <1>5

\* A vault is made of its parts.
LEMMA VaultType ==
  ASSUME NEW r \in Nat, NEW cs \in Seq(Credit), NEW p \in Nat
  PROVE  /\ VaultOf(r, cs, p) \in Vault
         /\ VaultOf(r, cs, p).reserves = r /\ VaultOf(r, cs, p).credits = cs /\ VaultOf(r, cs, p).paid = p
BY DEF VaultOf, Vault

\* What credits are worth together.
LEMMA AmountFacts ==
  ASSUME NEW v \in Vault, NEW S \in SUBSET CreditIds(v)
  PROVE  /\ IsFiniteSet(S)
         /\ AmountOf(v, S) \in Nat
         /\ S # {} => AmountOf(v, S) > 0
         /\ \A U \in SUBSET S : /\ AmountOf(v, U) \in Nat /\ AmountOf(v, U) <= AmountOf(v, S)
                                /\ AmountOf(v, S \ U) = AmountOf(v, S) - AmountOf(v, U)
<1> DEFINE f == [c \in CreditIds(v) |-> v.credits[c].amount]
<1>1. \A x \in S : f[x] \in Nat /\ f[x] > 0
  BY VaultFields
<1>2. IsFiniteSet(S)
  BY VaultFields, FS_Subset
<1>3. \A U : AmountOf(v, U) = SumFunctionOnSet(f, U)
  BY DEF AmountOf
<1> HIDE DEF f
<1>4. SumFunctionOnSet(f, S) \in Nat
  BY <1>1, <1>2, SumNat
<1>5. ASSUME S # {} PROVE SumFunctionOnSet(f, S) > 0
  <2>1. PICK y : y \in S
    BY <1>5
  <2>2. \A x \in S : f[x] \in Int
    BY <1>1
  <2>3. SumFunctionOnSet(f, S) = f[y] + SumFunctionOnSet(f, S \ {y})
    BY <1>2, <2>1, <2>2, SumRemove
  <2>4. SumFunctionOnSet(f, S \ {y}) \in Nat
    <3>1. IsFiniteSet(S \ {y}) /\ \A x \in S \ {y} : f[x] \in Nat
      BY <1>1, <1>2, FS_Subset
    <3> QED
      BY <3>1, SumNat
  <2> QED
    BY <2>1, <2>3, <2>4, <1>1
<1>6. ASSUME NEW U \in SUBSET S
      PROVE  /\ SumFunctionOnSet(f, U) \in Nat /\ SumFunctionOnSet(f, U) <= SumFunctionOnSet(f, S)
             /\ SumFunctionOnSet(f, S \ U) = SumFunctionOnSet(f, S) - SumFunctionOnSet(f, U)
  <2>1. \A x \in S : f[x] \in Nat
    BY <1>1
  <2>2. /\ SumFunctionOnSet(f, S) = SumFunctionOnSet(f, U) + SumFunctionOnSet(f, S \ U)
        /\ SumFunctionOnSet(f, U) \in Nat /\ SumFunctionOnSet(f, S \ U) \in Nat
        /\ SumFunctionOnSet(f, U) <= SumFunctionOnSet(f, S)
    BY <1>2, <2>1, SumSubset
  <2> QED
    BY <2>2
<1> QED
  BY <1>2, <1>3, <1>4, <1>5, <1>6

\* Vaults in which the same credits have the same amounts.
LEMMA AmountAgree ==
  ASSUME NEW v \in Vault, NEW w \in Vault, NEW S \in SUBSET (CreditIds(v) \cap CreditIds(w)),
         \A c \in S : v.credits[c].amount = w.credits[c].amount
  PROVE  AmountOf(v, S) = AmountOf(w, S)
<1> DEFINE f == [c \in CreditIds(v) |-> v.credits[c].amount]
           g == [c \in CreditIds(w) |-> w.credits[c].amount]
<1>1. \A c \in S : f[c] = g[c]
  OBVIOUS
<1>2. IsFiniteSet(S)
  BY VaultFields, FS_Subset
<1>3. AmountOf(v, S) = SumFunctionOnSet(f, S) /\ AmountOf(w, S) = SumFunctionOnSet(g, S)
  BY DEF AmountOf
<1> HIDE DEF f, g
<1> QED
  BY <1>1, <1>2, <1>3, SumAgree

\* What marking credits as used, consumed or expired changes.
LEMMA MarkFacts ==
  ASSUME NEW v \in Vault, NEW S, NEW status \in {"used", "consumed", "expired"}
  PROVE  LET w == Mark(v, S, status) IN
         /\ w \in Vault /\ w.reserves = v.reserves /\ w.paid = v.paid
         /\ Len(w.credits) = Len(v.credits) /\ CreditIds(w) = CreditIds(v)
         /\ \A c \in CreditIds(v) : /\ w.credits[c].user = v.credits[c].user
                                    /\ w.credits[c].amount = v.credits[c].amount
                                    /\ w.credits[c].expires = v.credits[c].expires
                                    /\ c \in S => w.credits[c].status = status
                                    /\ c \notin S => w.credits[c] = v.credits[c]
         /\ Active(w) = Active(v) \ S
         /\ \A u : ActiveOf(w, u) = ActiveOf(v, u) \ S
         /\ \A T \in SUBSET CreditIds(v) : AmountOf(w, T) = AmountOf(v, T)
<1> DEFINE cs == [c \in CreditIds(v) |-> IF c \in S THEN [v.credits[c] EXCEPT !.status = status] ELSE v.credits[c]]
           w == Mark(v, S, status)
<1>1. ASSUME NEW c \in CreditIds(v)
      PROVE  /\ cs[c] \in Credit /\ cs[c].user = v.credits[c].user /\ cs[c].amount = v.credits[c].amount
             /\ cs[c].expires = v.credits[c].expires
             /\ c \in S => cs[c].status = status
             /\ c \notin S => cs[c] = v.credits[c]
  <2>1. v.credits[c] \in Credit
    BY VaultFields
  <2> QED
    BY <2>1 DEF Credit, CreditStatus
<1>2. DOMAIN cs = CreditIds(v) /\ cs = [c \in DOMAIN cs |-> cs[c]]
  OBVIOUS
<1>3. w = VaultOf(v.reserves, cs, v.paid)
  BY DEF Mark
<1> HIDE DEF cs, w
<1>4. cs \in Seq(Credit) /\ Len(cs) = Len(v.credits)
  <2>1. cs \in [1 .. Len(v.credits) -> Credit] /\ Len(v.credits) \in Nat
    BY <1>1, <1>2, VaultFields
  <2> QED
    BY <2>1
<1>5. w \in Vault /\ w.reserves = v.reserves /\ w.paid = v.paid /\ w.credits = cs
  BY <1>3, <1>4, VaultFields, VaultType
<1>6. CreditIds(w) = CreditIds(v)
  BY <1>2, <1>5 DEF CreditIds
<1>7. Active(w) = Active(v) \ S
  BY <1>1, <1>5, <1>6 DEF Active
<1>8. \A u : ActiveOf(w, u) = ActiveOf(v, u) \ S
  <2>1. Active(v) \subseteq CreditIds(v)
    BY DEF Active
  <2> QED
    BY <1>1, <1>5, <1>7, <2>1 DEF ActiveOf
<1>9. ASSUME NEW T \in SUBSET CreditIds(v) PROVE AmountOf(w, T) = AmountOf(v, T)
  BY <1>1, <1>5, <1>6, AmountAgree
<1> QED
  BY <1>1, <1>4, <1>5, <1>6, <1>7, <1>8, <1>9 DEF w

-----------------------------------------------------------------------------
(* The vault's promise *)

\* The reserves cover what is outstanding, and no user is above the cap.
VaultOK(v) ==
  /\ v \in Vault
  /\ Covered(v.reserves, Outstanding(v))
  /\ \A u \in Users : AmountOf(v, ActiveOf(v, u)) <= MaxUserCredit

\* What moving on does to a vault: no credit is dropped, the amounts and the
\* owners stay, and what is not active stays what it is.
LaterVault(v, w) ==
  /\ CreditIds(v) \subseteq CreditIds(w)
  /\ \A c \in CreditIds(v) : /\ w.credits[c].user = v.credits[c].user
                             /\ w.credits[c].amount = v.credits[c].amount
                             /\ v.credits[c].status # "active" => w.credits[c].status = v.credits[c].status

\* The credits a vault counts as active are some of its credits.
LEMMA ActiveIds ==
  ASSUME NEW v \in Vault
  PROVE  /\ Active(v) \in SUBSET CreditIds(v)
         /\ \A u : ActiveOf(v, u) \in SUBSET Active(v) /\ ActiveOf(v, u) \in SUBSET CreditIds(v)
         /\ Outstanding(v) \in Nat
         /\ \A u : AmountOf(v, ActiveOf(v, u)) \in Nat
<1>1. Active(v) \in SUBSET CreditIds(v)
  BY DEF Active
<1>2. \A u : ActiveOf(v, u) \in SUBSET Active(v) /\ ActiveOf(v, u) \in SUBSET CreditIds(v)
  BY <1>1 DEF ActiveOf
<1>3. Outstanding(v) \in Nat
  BY <1>1, AmountFacts DEF Outstanding
<1>4. \A u : AmountOf(v, ActiveOf(v, u)) \in Nat
  BY <1>2, AmountFacts
<1> QED
  BY <1>1, <1>2, <1>3, <1>4

\* Less outstanding against at least as much in reserve.
LEMMA CoveredLess ==
  ASSUME NEW r \in Nat, NEW q \in Nat, NEW o \in Nat, NEW p \in Nat, Covered(r, o), q >= r, p <= o
  PROVE  Covered(q, p)
BY DEF Covered

\* Marking credits as used, consumed or expired keeps the promise.
LEMMA MarkOK ==
  ASSUME NEW v, VaultOK(v), NEW S, NEW status \in {"used", "consumed", "expired"}
  PROVE  LET w == Mark(v, S, status) IN
         /\ VaultOK(w)
         /\ S \subseteq Active(v) => LaterVault(v, w)
         /\ Outstanding(w) = AmountOf(v, Active(v) \ S) /\ Outstanding(w) <= Outstanding(v)
<1> DEFINE w == Mark(v, S, status)
<1>1. v \in Vault
  BY DEF VaultOK
<1>2. /\ w \in Vault /\ w.reserves = v.reserves /\ CreditIds(w) = CreditIds(v)
      /\ Active(w) = Active(v) \ S
      /\ \A u : ActiveOf(w, u) = ActiveOf(v, u) \ S
      /\ \A T \in SUBSET CreditIds(v) : AmountOf(w, T) = AmountOf(v, T)
      /\ \A c \in CreditIds(v) : /\ w.credits[c].user = v.credits[c].user
                                 /\ w.credits[c].amount = v.credits[c].amount
                                 /\ c \notin S => w.credits[c] = v.credits[c]
  BY <1>1, MarkFacts
<1> HIDE DEF w
<1>3. Outstanding(w) = AmountOf(v, Active(v) \ S)
  <2>1. Active(v) \ S \in SUBSET CreditIds(v)
    BY <1>1, ActiveIds
  <2> QED
    BY <1>2, <2>1 DEF Outstanding
<1>4. Outstanding(w) <= Outstanding(v)
  <2>1. Active(v) \in SUBSET CreditIds(v) /\ Active(v) \ S \in SUBSET Active(v)
    BY <1>1, ActiveIds
  <2> QED
    BY <1>1, <1>3, <2>1, AmountFacts DEF Outstanding
<1>5. ASSUME NEW u \in Users PROVE AmountOf(w, ActiveOf(w, u)) <= MaxUserCredit
  <2> DEFINE A == ActiveOf(v, u)
  <2>1. A \in SUBSET CreditIds(v) /\ A \ S \in SUBSET A /\ A \ S \in SUBSET CreditIds(v)
    BY <1>1, ActiveIds
  <2>2. AmountOf(w, ActiveOf(w, u)) = AmountOf(v, A \ S)
    BY <1>2, <2>1
  <2>3. AmountOf(v, A) <= MaxUserCredit
    BY DEF VaultOK
  <2> HIDE DEF A
  <2>4. AmountOf(v, A \ S) \in Nat /\ AmountOf(v, A \ S) <= AmountOf(v, A) /\ AmountOf(v, A) \in Nat
    BY <1>1, <2>1, AmountFacts
  <2> QED
    BY <2>2, <2>3, <2>4, VaultAssumption
<1>6. Covered(w.reserves, Outstanding(w))
  <2>1. Covered(v.reserves, Outstanding(v))
    BY DEF VaultOK
  <2>2. v.reserves \in Nat /\ Outstanding(v) \in Nat /\ Outstanding(w) \in Nat
    BY <1>1, <1>2, VaultFields, ActiveIds
  <2> QED
    BY <1>2, <1>4, <2>1, <2>2, CoveredLess
<1>7. S \subseteq Active(v) => LaterVault(v, w)
  BY <1>2 DEF LaterVault, Active
<1> QED
  BY <1>2, <1>3, <1>4, <1>5, <1>6, <1>7 DEF VaultOK, w

\* Expiring what is stale keeps the promise.
LEMMA ExpireOK ==
  ASSUME NEW v, VaultOK(v), NEW t
  PROVE  LET w == ExpireStaleCredits(v, t) IN
         /\ VaultOK(w) /\ LaterVault(v, w) /\ Outstanding(w) <= Outstanding(v)
         /\ w.reserves = v.reserves /\ w.paid = v.paid /\ CreditIds(w) = CreditIds(v)
         /\ Len(w.credits) = Len(v.credits)
<1> DEFINE S == {c \in Active(v) : t >= v.credits[c].expires}
<1>1. ExpireStaleCredits(v, t) = Mark(v, S, "expired") /\ S \subseteq Active(v)
  BY DEF ExpireStaleCredits
<1> HIDE DEF S
<1> DEFINE w == Mark(v, S, "expired")
<1>2. v \in Vault
  BY DEF VaultOK
<1>3. VaultOK(w) /\ LaterVault(v, w) /\ Outstanding(w) <= Outstanding(v)
  BY <1>1, MarkOK
<1>4. w.reserves = v.reserves /\ w.paid = v.paid /\ CreditIds(w) = CreditIds(v) /\ Len(w.credits) = Len(v.credits)
  BY <1>2, MarkFacts
<1> HIDE DEF w
<1> QED
  BY <1>1, <1>3, <1>4 DEF w

\* What is active once the vault has been looked at is not past its time.
LEMMA ActiveInTime ==
  ASSUME NEW v, VaultOK(v), NEW t \in Nat
  PROVE  \A c \in Active(ExpireStaleCredits(v, t)) : t < v.credits[c].expires
<1> DEFINE S == {c \in Active(v) : t >= v.credits[c].expires}
<1>1. v \in Vault
  BY DEF VaultOK
<1>2. Active(Mark(v, S, "expired")) = Active(v) \ S
  BY <1>1, MarkFacts
<1>3. \A c \in Active(v) : v.credits[c].expires \in Nat
  BY <1>1, ActiveIds, VaultFields DEF Credit
<1> QED
  BY <1>2, <1>3 DEF ExpireStaleCredits

\* The promise depends on the reserves and the credits only.
LEMMA SameCredits ==
  ASSUME NEW v \in Vault, NEW w \in Vault, w.credits = v.credits
  PROVE  /\ CreditIds(w) = CreditIds(v) /\ Active(w) = Active(v) /\ Outstanding(w) = Outstanding(v)
         /\ \A u : ActiveOf(w, u) = ActiveOf(v, u)
         /\ \A S : AmountOf(w, S) = AmountOf(v, S)
<1>1. CreditIds(w) = CreditIds(v)
  BY DEF CreditIds
<1>2. \A S : AmountOf(w, S) = AmountOf(v, S)
  BY <1>1 DEF AmountOf
<1>3. Active(w) = Active(v)
  BY <1>1 DEF Active
<1> QED
  BY <1>1, <1>2, <1>3 DEF ActiveOf, Outstanding

\* deposit_sol keeps the promise.
LEMMA DepositOK ==
  ASSUME NEW v, VaultOK(v), NEW a \in Nat
  PROVE  VaultOK(DepositSol(v, a)) /\ LaterVault(v, DepositSol(v, a))
         /\ DepositSol(v, a).reserves = v.reserves + a /\ DepositSol(v, a).credits = v.credits
<1> DEFINE w == DepositSol(v, a)
<1>1. v \in Vault /\ v.reserves \in Nat /\ v.credits \in Seq(Credit) /\ v.paid \in Nat
  BY VaultFields DEF VaultOK
<1>2. w \in Vault /\ w.reserves = v.reserves + a /\ w.credits = v.credits
  BY <1>1, VaultType DEF DepositSol
<1> HIDE DEF w
<1>3. /\ CreditIds(w) = CreditIds(v) /\ Outstanding(w) = Outstanding(v) /\ Outstanding(v) \in Nat
      /\ \A u : AmountOf(w, ActiveOf(w, u)) = AmountOf(v, ActiveOf(v, u))
  BY <1>1, <1>2, SameCredits, ActiveIds
<1>4. Covered(w.reserves, Outstanding(w))
  BY <1>1, <1>2, <1>3, CoveredLess DEF VaultOK
<1> QED
  BY <1>2, <1>3, <1>4 DEF VaultOK, LaterVault, w

\* withdraw_sol keeps the promise.
LEMMA WithdrawOK ==
  ASSUME NEW v, VaultOK(v), NEW a \in Nat, NEW t, CanWithdraw(v, a, t)
  PROVE  LET w == WithdrawSol(v, a, t) IN
         /\ VaultOK(w) /\ LaterVault(v, w)
         /\ w.reserves = v.reserves - a /\ w.credits = ExpireStaleCredits(v, t).credits
         /\ Outstanding(w) = Outstanding(ExpireStaleCredits(v, t))
<1> DEFINE e == ExpireStaleCredits(v, t)
           w == WithdrawSol(v, a, t)
<1>1. v \in Vault /\ v.reserves \in Nat /\ v.paid \in Nat /\ a <= v.reserves
  BY VaultFields DEF VaultOK, CanWithdraw
<1>2. VaultOK(e) /\ LaterVault(v, e) /\ e.reserves = v.reserves
  BY ExpireOK
<1>3. Covered(e.reserves - a, Outstanding(e))
  BY DEF CanWithdraw, CoveredAfter
<1> HIDE DEF e
<1>4. e \in Vault /\ e.credits \in Seq(Credit)
  BY <1>2, VaultFields DEF VaultOK
<1>5. w \in Vault /\ w.reserves = v.reserves - a /\ w.credits = e.credits
  <2>1. v.reserves - a \in Nat
    BY <1>1
  <2>2. w = VaultOf(v.reserves - a, e.credits, v.paid)
    BY DEF WithdrawSol, e
  <2> HIDE DEF w
  <2> QED
    BY <1>1, <1>4, <2>1, <2>2, VaultType
<1> HIDE DEF w
<1>6. /\ CreditIds(w) = CreditIds(e) /\ Outstanding(w) = Outstanding(e)
      /\ \A u : AmountOf(w, ActiveOf(w, u)) = AmountOf(e, ActiveOf(e, u))
  BY <1>4, <1>5, SameCredits
<1>7. VaultOK(w)
  BY <1>2, <1>3, <1>5, <1>6 DEF VaultOK
<1>8. LaterVault(v, w)
  BY <1>2, <1>5, <1>6 DEF LaterVault
<1> QED
  BY <1>5, <1>6, <1>7, <1>8 DEF w, e

\* issue_credit adds one credit within the cap and the coverage.
LEMMA IssueOK ==
  ASSUME NEW v, VaultOK(v), NEW u \in Users, NEW work \in Nat, NEW t \in Nat, CanIssue(v, u, work)
  PROVE  LET w == IssueCredit(v, u, work, t)  n == Len(v.credits) + 1 IN
         /\ VaultOK(w) /\ LaterVault(v, w) /\ w.reserves = v.reserves
         /\ w.credits = Append(v.credits, NewCredit(v, u, work, t))
         /\ w.credits[n].amount > 0 /\ w.credits[n].amount \in Nat /\ w.credits[n].status = "active"
         /\ Covered(v.reserves, Outstanding(v) + w.credits[n].amount)
<1> DEFINE n == Len(v.credits) + 1
           w == IssueCredit(v, u, work, t)
           held == AmountOf(v, ActiveOf(v, u))
           amount == CreditFor(v, u, work)
           new == NewCredit(v, u, work, t)
<1>1. /\ v \in Vault /\ v.reserves \in Nat /\ v.paid \in Nat /\ v.credits \in Seq(Credit)
      /\ CreditIds(v) = 1 .. Len(v.credits) /\ Len(v.credits) \in Nat
  BY VaultFields DEF VaultOK
<1>2. held \in Nat
  BY <1>1, ActiveIds
<1>3. held < MaxUserCredit /\ amount > 0 /\ Covered(v.reserves, Outstanding(v) + amount)
  BY DEF CanIssue
<1>4. amount \in 1 .. MaxUserCredit /\ held + amount <= MaxUserCredit
  <2>1. amount = Min({work, MaxUserCredit - held})
    BY DEF CreditFor
  <2> HIDE DEF held
  <2>2. Min({work, MaxUserCredit - held}) = IF work <= MaxUserCredit - held THEN work ELSE MaxUserCredit - held
    BY <1>2, VaultAssumption DEF Min
  <2> HIDE DEF amount
  <2> QED
    BY <1>2, <1>3, <2>1, <2>2, VaultAssumption
<1>5. new \in Credit /\ new.user = u /\ new.amount = amount /\ new.status = "active"
  BY <1>4, VaultAssumption DEF NewCredit, Credit, CreditStatus
<1>6. w = VaultOf(v.reserves, Append(v.credits, new), v.paid)
  BY DEF IssueCredit
<1> HIDE DEF new, w, amount, held
<1>7. w \in Vault /\ w.reserves = v.reserves /\ w.credits = Append(v.credits, new)
  <2> DEFINE cs == Append(v.credits, new)
  <2>1. cs \in Seq(Credit)
    BY <1>1, <1>5
  <2>2. w = VaultOf(v.reserves, cs, v.paid)
    BY <1>6
  <2> HIDE DEF cs
  <2>3. w \in Vault /\ w.reserves = v.reserves /\ w.credits = cs
    BY <1>1, <2>1, <2>2, VaultType
  <2> QED
    BY <2>3 DEF cs
<1>8. /\ Len(w.credits) = n /\ w.credits[n] = new
      /\ \A c \in CreditIds(v) : w.credits[c] = v.credits[c]
      /\ CreditIds(w) = CreditIds(v) \cup {n} /\ n \notin CreditIds(v)
  <2>1. Len(w.credits) = n /\ w.credits[n] = new
    BY <1>1, <1>5, <1>7
  <2>2. \A c \in 1 .. Len(v.credits) : w.credits[c] = v.credits[c]
    BY <1>1, <1>5, <1>7
  <2>3. CreditIds(w) = 1 .. n
    BY <1>7, <2>1, VaultFields
  <2> QED
    BY <1>1, <2>1, <2>2, <2>3
<1>9. Active(w) = Active(v) \cup {n}
  BY <1>5, <1>8 DEF Active
<1>10. \A x : ActiveOf(w, x) = IF x = u THEN ActiveOf(v, x) \cup {n} ELSE ActiveOf(v, x)
  <2>1. Active(v) \subseteq CreditIds(v)
    BY DEF Active
  <2> QED
    BY <1>5, <1>8, <1>9, <2>1 DEF ActiveOf
<1>11. ASSUME NEW S \in SUBSET CreditIds(v)
       PROVE  AmountOf(w, S) = AmountOf(v, S) /\ AmountOf(w, S \cup {n}) = AmountOf(v, S) + amount
  <2> HIDE DEF n
  <2>1. AmountOf(w, S) = AmountOf(v, S)
    <3>1. S \in SUBSET (CreditIds(w) \cap CreditIds(v)) /\ \A c \in S : w.credits[c].amount = v.credits[c].amount
      BY <1>8
    <3> QED
      BY <1>1, <1>7, <3>1, AmountAgree
  <2>2. S \cup {n} \in SUBSET CreditIds(w) /\ (S \cup {n}) \ S = {n} /\ S \in SUBSET (S \cup {n})
    BY <1>8
  <2> DEFINE f == [c \in CreditIds(w) |-> w.credits[c].amount]
  <2>3. (\A x \in S : f[x] \in Int) /\ f[n] = amount /\ amount \in Int /\ n \notin S
    BY <1>4, <1>5, <1>7, <1>8, <2>2, VaultFields
  <2>4. \A T : AmountOf(w, T) = SumFunctionOnSet(f, T)
    BY DEF AmountOf
  <2> HIDE DEF f
  <2>5. IsFiniteSet(S)
    BY <1>1, AmountFacts
  <2>6. SumFunctionOnSet(f, S \cup {n}) = SumFunctionOnSet(f, S) + f[n]
    BY <2>3, <2>5, SumAdd
  <2> QED
    BY <2>1, <2>3, <2>4, <2>6
<1> HIDE DEF n
<1>12. Outstanding(w) = Outstanding(v) + amount
  BY <1>1, <1>9, <1>11, ActiveIds DEF Outstanding
<1>13. ASSUME NEW x \in Users PROVE AmountOf(w, ActiveOf(w, x)) <= MaxUserCredit
  <2>1. ActiveOf(v, x) \in SUBSET CreditIds(v)
    BY <1>1, ActiveIds
  <2>2. CASE x = u
    BY <2>1, <2>2, <1>4, <1>10, <1>11 DEF held
  <2>3. CASE x # u
    BY <2>1, <2>3, <1>10, <1>11 DEF VaultOK
  <2> QED
    BY <2>2, <2>3
<1>14. VaultOK(w)
  BY <1>3, <1>7, <1>12, <1>13 DEF VaultOK
<1>15. LaterVault(v, w)
  BY <1>8 DEF LaterVault
<1>16. amount \in Nat
  BY <1>4
<1> QED
  BY <1>3, <1>5, <1>7, <1>8, <1>14, <1>15, <1>16 DEF w, n, new, amount

\* How the statuses change in a call that pays some credits and lets others lapse.
Closed(v, w, paid, lapsed) ==
  /\ CreditIds(w) = CreditIds(v) /\ Len(w.credits) = Len(v.credits)
  /\ \A c \in CreditIds(v) :
       w.credits[c].status = IF c \in paid THEN "used" ELSE IF c \in lapsed THEN "expired" ELSE v.credits[c].status

SomeLapsed(v, w, paid) == \E lapsed \in SUBSET (Active(v) \ paid) : Closed(v, w, paid, lapsed)

\* reimburse_relayer never uses a credit up without paying it: as long as the
\* promise holds, neither of its two refusals can be reached with credits taken.
LEMMA ReimburseOK ==
  ASSUME NEW v, VaultOK(v), NEW S, NEW t
  PROVE  LET w == ReimburseRelayer(v, S, t)  taken == S \cap Active(v) IN
         /\ VaultOK(w) /\ LaterVault(v, w)
         /\ AmountOf(v, taken) \in Nat
         /\ w.reserves = v.reserves - AmountOf(v, taken)
         /\ w.paid = v.paid + AmountOf(v, taken)
         /\ taken # {} => AmountOf(v, taken) > 0
         /\ SomeLapsed(v, w, taken)
<1> DEFINE taken == S \cap Active(v)
           total == AmountOf(v, taken)
           used == Mark(v, taken, "used")
           late == {c \in Active(used) : t >= used.credits[c].expires}
           looked == ExpireStaleCredits(used, t)
           w == ReimburseRelayer(v, S, t)
<1>1. v \in Vault /\ v.reserves \in Nat /\ v.paid \in Nat
  BY VaultFields DEF VaultOK
<1>2. taken \in SUBSET CreditIds(v) /\ taken \in SUBSET Active(v) /\ Active(v) \in SUBSET CreditIds(v)
  BY <1>1, ActiveIds
<1>3. w = IF total <= 0 THEN used
          ELSE IF total > v.reserves THEN used
          ELSE IF ~ Covered(v.reserves - total, Outstanding(looked)) THEN looked
          ELSE VaultOf(v.reserves - total, looked.credits, v.paid + total)
  BY DEF ReimburseRelayer, ConsumeCredits
<1>4. looked = Mark(used, late, "expired")
  BY DEF ExpireStaleCredits
<1> HIDE DEF taken
<1>5. total \in Nat /\ (taken # {} => total > 0)
  BY <1>1, <1>2, AmountFacts
<1>6. Outstanding(v) \in Nat /\ total <= Outstanding(v) /\ AmountOf(v, Active(v) \ taken) = Outstanding(v) - total
  BY <1>1, <1>2, ActiveIds, AmountFacts DEF Outstanding
<1>7. VaultOK(used) /\ LaterVault(v, used) /\ Outstanding(used) = Outstanding(v) - total
  BY <1>2, <1>6, MarkOK
<1>8. /\ used \in Vault /\ used.reserves = v.reserves /\ used.paid = v.paid
      /\ CreditIds(used) = CreditIds(v) /\ Len(used.credits) = Len(v.credits)
      /\ Active(used) = Active(v) \ taken
      /\ \A c \in CreditIds(v) : /\ used.credits[c].user = v.credits[c].user
                                 /\ used.credits[c].amount = v.credits[c].amount
                                 /\ c \in taken => used.credits[c].status = "used"
                                 /\ c \notin taken => used.credits[c] = v.credits[c]
  BY <1>1, MarkFacts
<1> HIDE DEF total, used
<1>9. late \subseteq Active(used)
  OBVIOUS
<1> HIDE DEF late
<1>10. VaultOK(looked) /\ LaterVault(used, looked) /\ Outstanding(looked) <= Outstanding(used)
  BY <1>4, <1>7, <1>9, MarkOK
<1>11. /\ looked \in Vault /\ looked.reserves = v.reserves /\ looked.paid = v.paid
       /\ CreditIds(looked) = CreditIds(used) /\ Len(looked.credits) = Len(used.credits)
       /\ \A c \in CreditIds(used) : /\ c \in late => looked.credits[c].status = "expired"
                                     /\ c \notin late => looked.credits[c] = used.credits[c]
  BY <1>4, <1>8, MarkFacts
<1> HIDE DEF looked
<1>12. CASE taken = {}
  <2>1. total = 0
    BY <1>12, SumEmpty DEF total, AmountOf
  <2>2. w = used
    BY <1>3, <2>1
  <2>3. Closed(v, w, taken, {})
    BY <1>8, <1>12, <2>2 DEF Closed
  <2> HIDE DEF w
  <2>4. VaultOK(w) /\ LaterVault(v, w)
    BY <1>7, <2>2
  <2>5. w.reserves = v.reserves - total /\ w.paid = v.paid + total
    BY <1>1, <1>8, <2>1, <2>2
  <2>6. SomeLapsed(v, w, taken)
    BY <2>3 DEF SomeLapsed
  <2>7. total \in Nat /\ (taken # {} => total > 0)
    BY <1>5
  <2> QED
    BY <2>4, <2>5, <2>6, <2>7 DEF w, taken, total
<1>13. CASE taken # {}
  <2>1. total > 0
    BY <1>5, <1>13
  <2>2. Covered(v.reserves, Outstanding(v))
    BY DEF VaultOK
  <2>3. total <= v.reserves
    BY <1>1, <1>5, <1>6, <2>1, <2>2 DEF Covered
  <2>4. Outstanding(looked) \in Nat
    BY <1>11, ActiveIds
  <2>5. Covered(v.reserves - total, Outstanding(looked))
    BY <1>1, <1>5, <1>6, <1>7, <1>10, <2>1, <2>2, <2>3, <2>4 DEF Covered
  <2>6. w = VaultOf(v.reserves - total, looked.credits, v.paid + total)
    BY <1>1, <1>3, <1>5, <2>1, <2>3, <2>5
  <2> HIDE DEF w
  <2>7. w \in Vault /\ w.reserves = v.reserves - total /\ w.paid = v.paid + total /\ w.credits = looked.credits
    <3>1. v.reserves - total \in Nat /\ v.paid + total \in Nat /\ looked.credits \in Seq(Credit)
      BY <1>1, <1>5, <1>11, <2>3, VaultFields
    <3> QED
      BY <2>6, <3>1, VaultType
  <2>8. /\ CreditIds(w) = CreditIds(looked) /\ Outstanding(w) = Outstanding(looked)
        /\ \A u : AmountOf(w, ActiveOf(w, u)) = AmountOf(looked, ActiveOf(looked, u))
    BY <1>11, <2>7, SameCredits
  <2>9. VaultOK(w)
    BY <1>10, <2>5, <2>7, <2>8 DEF VaultOK
  <2>10. LaterVault(v, w)
    BY <1>7, <1>8, <1>10, <1>11, <2>7, <2>8 DEF LaterVault
  <2>11. late \in SUBSET (Active(v) \ taken)
    BY <1>8, <1>9
  <2>12. Closed(v, w, taken, late)
    BY <1>8, <1>11, <2>7, <2>8, <2>11 DEF Closed
  <2>13. SomeLapsed(v, w, taken)
    BY <2>11, <2>12 DEF SomeLapsed
  <2> QED
    BY <1>5, <2>7, <2>9, <2>10, <2>13 DEF w, taken, total
<1> QED
  BY <1>12, <1>13

-----------------------------------------------------------------------------
(* The moves of a vault *)

\* Credits are paid out of the reserves or lapse; whatever else leaves the
\* reserves leaves the rest covered.
Closes(v, w, paid, lapsed) ==
  /\ Closed(v, w, paid, lapsed)
  /\ paid \cap lapsed = {}
  /\ \/ w.reserves = v.reserves - AmountOf(v, paid)
     \/ /\ paid = {} /\ w.reserves < v.reserves
        /\ Covered(w.reserves, AmountOf(v, Active(v) \ lapsed))

\* A credit is added to a vault some of whose credits have lapsed.
Issues(v, w, lapsed, new) ==
  \E e \in Vault : /\ Closed(v, e, {}, lapsed) /\ LaterVault(v, e) /\ VaultOK(e)
                   /\ e.reserves = v.reserves /\ w.reserves = v.reserves
                   /\ w.credits = Append(e.credits, new) /\ new \in Credit /\ new.status = "active"
                   /\ Covered(v.reserves, Outstanding(e) + new.amount)

\* Credits are handed in for nothing.
GivesUp(v, w, given) ==
  /\ w.reserves = v.reserves
  /\ CreditIds(w) = CreditIds(v) /\ Len(w.credits) = Len(v.credits)
  /\ \A c \in CreditIds(v) :
       w.credits[c].status = IF c \in given THEN "consumed" ELSE v.credits[c].status

Moves(v, w) ==
  \/ \E given \in SUBSET Active(v) : GivesUp(v, w, given)
  \/ w.reserves > v.reserves /\ w.credits = v.credits
  \/ \E paid, lapsed \in SUBSET Active(v) : Closes(v, w, paid, lapsed)
  \/ \E lapsed \in SUBSET Active(v), new \in Credit : Issues(v, w, lapsed, new)

VaultMoved(v, w) == VaultOK(w) /\ LaterVault(v, w) /\ Moves(v, w)

\* Nothing paid is worth nothing.
LEMMA NothingPaid ==
  ASSUME NEW v PROVE AmountOf(v, {}) = 0
BY SumEmpty DEF AmountOf

\* Expiring closes the credits that are late.
LEMMA ExpireMoved ==
  ASSUME NEW v, VaultOK(v), NEW t
  PROVE  /\ VaultMoved(v, ExpireStaleCredits(v, t))
         /\ ExpireStaleCredits(v, t).reserves = v.reserves
         /\ \E lapsed \in SUBSET Active(v) : /\ Closed(v, ExpireStaleCredits(v, t), {}, lapsed)
                                             /\ Active(ExpireStaleCredits(v, t)) = Active(v) \ lapsed
<1> DEFINE S == {c \in Active(v) : t >= v.credits[c].expires}
           w == ExpireStaleCredits(v, t)
<1>1. w = Mark(v, S, "expired") /\ S \in SUBSET Active(v) /\ {} \in SUBSET Active(v)
  BY DEF ExpireStaleCredits
<1> HIDE DEF S, w
<1>2. v \in Vault /\ v.reserves \in Nat
  BY VaultFields DEF VaultOK
<1>3. VaultOK(w) /\ LaterVault(v, w) /\ w.reserves = v.reserves
  BY ExpireOK DEF w
<1>4. /\ CreditIds(w) = CreditIds(v) /\ Len(w.credits) = Len(v.credits) /\ Active(w) = Active(v) \ S
      /\ \A c \in CreditIds(v) : /\ c \in S => w.credits[c].status = "expired"
                                 /\ c \notin S => w.credits[c] = v.credits[c]
  BY <1>1, <1>2, MarkFacts
<1>5. Closed(v, w, {}, S)
  BY <1>4 DEF Closed
<1>6. Closes(v, w, {}, S)
  BY <1>2, <1>3, <1>5, NothingPaid DEF Closes
<1> QED
  BY <1>1, <1>3, <1>4, <1>5, <1>6 DEF VaultMoved, Moves, w

\* deposit_sol.
LEMMA DepositMoved ==
  ASSUME NEW v, VaultOK(v), NEW a \in Nat
  PROVE  VaultMoved(v, DepositSol(v, a)) /\ DepositSol(v, a).reserves = v.reserves + a
<1> DEFINE w == DepositSol(v, a)
<1>1. /\ VaultOK(w) /\ LaterVault(v, w) /\ w.reserves = v.reserves + a /\ w.credits = v.credits
  BY DepositOK
<1> HIDE DEF w
<1>2. v \in Vault /\ v.reserves \in Nat /\ w \in Vault
  BY <1>1, VaultFields DEF VaultOK
<1>3. CASE a > 0
  BY <1>1, <1>2, <1>3 DEF VaultMoved, Moves, w
<1>4. CASE a = 0
  <2>1. Closed(v, w, {}, {})
    BY <1>1 DEF Closed, CreditIds
  <2>2. Closes(v, w, {}, {}) /\ {} \in SUBSET Active(v)
    BY <1>1, <1>2, <1>4, <2>1, NothingPaid DEF Closes
  <2> QED
    BY <1>1, <2>2 DEF VaultMoved, Moves, w
<1> QED
  BY <1>3, <1>4

\* withdraw_sol.
LEMMA WithdrawMoved ==
  ASSUME NEW v, VaultOK(v), NEW a \in Nat, NEW t, CanWithdraw(v, a, t)
  PROVE  VaultMoved(v, WithdrawSol(v, a, t)) /\ WithdrawSol(v, a, t).reserves = v.reserves - a
<1> DEFINE e == ExpireStaleCredits(v, t)
           w == WithdrawSol(v, a, t)
<1>1. VaultOK(w) /\ LaterVault(v, w) /\ w.reserves = v.reserves - a /\ w.credits = e.credits
  BY WithdrawOK
<1>2. PICK lapsed \in SUBSET Active(v) : Closed(v, e, {}, lapsed) /\ Active(e) = Active(v) \ lapsed
  BY ExpireMoved
<1>3. VaultOK(e) /\ LaterVault(v, e) /\ e.reserves = v.reserves
  BY ExpireOK
<1>4. Covered(e.reserves - a, Outstanding(e))
  BY DEF CanWithdraw, CoveredAfter
<1> HIDE DEF e, w
<1>5. v \in Vault /\ v.reserves \in Nat /\ e \in Vault /\ w \in Vault
  BY <1>1, <1>3, VaultFields DEF VaultOK
<1>6. Closed(v, w, {}, lapsed)
  BY <1>1, <1>2 DEF Closed, CreditIds
<1>7. Outstanding(e) = AmountOf(v, Active(v) \ lapsed)
  <2>1. Active(e) \in SUBSET (CreditIds(e) \cap CreditIds(v)) /\ \A c \in Active(e) : e.credits[c].amount = v.credits[c].amount
    BY <1>2, <1>3, <1>5, ActiveIds DEF LaterVault, Closed
  <2> QED
    BY <1>2, <1>5, <2>1, AmountAgree DEF Outstanding
<1>8. Closes(v, w, {}, lapsed) /\ {} \in SUBSET Active(v)
  <2>1. CASE a = 0
    BY <1>1, <1>5, <1>6, <2>1, NothingPaid DEF Closes
  <2>2. CASE a > 0
    <3>1. w.reserves < v.reserves
      BY <1>1, <1>5, <2>2
    <3>2. Covered(w.reserves, AmountOf(v, Active(v) \ lapsed))
      BY <1>1, <1>3, <1>4, <1>7
    <3> QED
      BY <1>6, <3>1, <3>2 DEF Closes
  <2> QED
    BY <2>1, <2>2
<1>9. Moves(v, w)
  BY <1>8 DEF Moves
<1> QED
  BY <1>1, <1>9 DEF VaultMoved, w

\* What two moves in a row keep.
LEMMA LaterTwice ==
  ASSUME NEW v, NEW e, NEW w, LaterVault(v, e), LaterVault(e, w)
  PROVE  LaterVault(v, w)
<1> SUFFICES ASSUME NEW c \in CreditIds(v)
             PROVE  /\ c \in CreditIds(w)
                    /\ w.credits[c].user = v.credits[c].user /\ w.credits[c].amount = v.credits[c].amount
                    /\ v.credits[c].status # "active" => w.credits[c].status = v.credits[c].status
  BY DEF LaterVault
<1>1. /\ c \in CreditIds(e)
      /\ e.credits[c].user = v.credits[c].user /\ e.credits[c].amount = v.credits[c].amount
      /\ v.credits[c].status # "active" => e.credits[c].status = v.credits[c].status
  BY DEF LaterVault
<1> QED
  BY <1>1 DEF LaterVault

\* issue_credit, after it has looked at the vault.
LEMMA IssueMoved ==
  ASSUME NEW v, VaultOK(v), NEW u \in Users, NEW work \in Nat, NEW t \in Nat,
         CanIssue(ExpireStaleCredits(v, t), u, work)
  PROVE  LET w == IssueCredit(ExpireStaleCredits(v, t), u, work, t) IN
         VaultMoved(v, w) /\ w.reserves = v.reserves
<1> DEFINE e == ExpireStaleCredits(v, t)
           w == IssueCredit(e, u, work, t)
           new == NewCredit(e, u, work, t)
           n == Len(e.credits) + 1
<1>1. PICK lapsed \in SUBSET Active(v) : Closed(v, e, {}, lapsed)
  BY ExpireMoved
<1>2. VaultOK(e) /\ LaterVault(v, e) /\ e.reserves = v.reserves
  BY ExpireOK
<1> HIDE DEF e
<1>3. /\ VaultOK(w) /\ LaterVault(e, w) /\ w.reserves = e.reserves /\ w.credits = Append(e.credits, new)
      /\ w.credits[n].amount \in Nat /\ w.credits[n].status = "active"
      /\ Covered(e.reserves, Outstanding(e) + w.credits[n].amount)
  BY <1>2, IssueOK DEF e
<1> HIDE DEF w, new
<1>4. /\ e \in Vault /\ w \in Vault /\ e.credits \in Seq(Credit) /\ w.credits \in Seq(Credit)
      /\ Len(e.credits) \in Nat
  BY <1>2, <1>3, VaultFields DEF VaultOK
<1>5. w.credits[n] = new /\ new \in Credit
  <2>1. Len(w.credits) = n /\ w.credits[n] = new
    BY <1>3, <1>4
  <2>2. n \in 1 .. Len(w.credits)
    BY <1>4, <2>1
  <2> QED
    BY <1>4, <2>1, <2>2
<1>6. LaterVault(v, w)
  BY <1>2, <1>3, LaterTwice
<1>7. Issues(v, w, lapsed, new)
  BY <1>1, <1>2, <1>3, <1>4, <1>5 DEF Issues
<1>8. Moves(v, w)
  BY <1>5, <1>7 DEF Moves
<1> QED
  BY <1>2, <1>3, <1>6, <1>8 DEF VaultMoved, w, e

\* consume_credits by itself.
LEMMA ConsumeMoved ==
  ASSUME NEW v, VaultOK(v), NEW S
  PROVE  LET w == Mark(v, ConsumeCredits(v, S), "consumed") IN
         VaultMoved(v, w) /\ w.reserves = v.reserves
<1> DEFINE given == ConsumeCredits(v, S)
           w == Mark(v, given, "consumed")
<1>1. given \in SUBSET Active(v)
  BY DEF ConsumeCredits
<1>2. v \in Vault
  BY DEF VaultOK
<1> HIDE DEF given
<1>3. VaultOK(w) /\ LaterVault(v, w)
  BY <1>1, MarkOK
<1>4. /\ w.reserves = v.reserves /\ CreditIds(w) = CreditIds(v) /\ Len(w.credits) = Len(v.credits)
      /\ \A c \in CreditIds(v) : /\ c \in given => w.credits[c].status = "consumed"
                                 /\ c \notin given => w.credits[c] = v.credits[c]
  BY <1>2, MarkFacts
<1> HIDE DEF w
<1>5. GivesUp(v, w, given)
  BY <1>4 DEF GivesUp
<1> QED
  BY <1>1, <1>3, <1>4, <1>5 DEF VaultMoved, Moves, w, given

\* reimburse_relayer.
LEMMA ReimburseMoved ==
  ASSUME NEW v, VaultOK(v), NEW S, NEW t
  PROVE  LET w == ReimburseRelayer(v, S, t) IN
         VaultMoved(v, w) /\ w.reserves <= v.reserves
<1> DEFINE w == ReimburseRelayer(v, S, t)
           taken == S \cap Active(v)
<1>1. /\ VaultOK(w) /\ LaterVault(v, w) /\ AmountOf(v, taken) \in Nat
      /\ w.reserves = v.reserves - AmountOf(v, taken) /\ SomeLapsed(v, w, taken) /\ taken \in SUBSET Active(v)
  BY ReimburseOK
<1> HIDE DEF w, taken
<1>2. PICK lapsed \in SUBSET (Active(v) \ taken) : Closed(v, w, taken, lapsed)
  BY <1>1 DEF SomeLapsed
<1>3. taken \in SUBSET Active(v) /\ lapsed \in SUBSET Active(v) /\ taken \cap lapsed = {}
  BY <1>1
<1>4. Closes(v, w, taken, lapsed)
  BY <1>1, <1>2, <1>3 DEF Closes
<1>5. Moves(v, w)
  BY <1>3, <1>4 DEF Moves
<1>6. v.reserves \in Nat
  BY VaultFields DEF VaultOK
<1> QED
  BY <1>1, <1>5, <1>6 DEF VaultMoved, w

\* The relayer looks at the vault and is then reimbursed.
LEMMA SettleMoved ==
  ASSUME NEW v, VaultOK(v), NEW S, NEW t
  PROVE  LET w == ReimburseRelayer(ExpireStaleCredits(v, t), S, t) IN
         VaultMoved(v, w) /\ w.reserves <= v.reserves
<1> DEFINE e == ExpireStaleCredits(v, t)
           w == ReimburseRelayer(e, S, t)
           taken == S \cap Active(e)
<1>1. PICK gone \in SUBSET Active(v) : Closed(v, e, {}, gone) /\ Active(e) = Active(v) \ gone
  BY ExpireMoved
<1>2. VaultOK(e) /\ LaterVault(v, e) /\ e.reserves = v.reserves
  BY ExpireOK
<1> HIDE DEF e
<1>3. /\ VaultOK(w) /\ LaterVault(e, w) /\ AmountOf(e, taken) \in Nat
      /\ w.reserves = e.reserves - AmountOf(e, taken) /\ SomeLapsed(e, w, taken)
  BY <1>2, ReimburseOK
<1>5. taken \in SUBSET Active(e)
  OBVIOUS
<1> HIDE DEF w, taken
<1>4. PICK late \in SUBSET (Active(e) \ taken) : Closed(e, w, taken, late)
  BY <1>3 DEF SomeLapsed
<1> DEFINE lapsed == gone \cup late
<1>6. taken \in SUBSET Active(v) /\ lapsed \in SUBSET Active(v) /\ taken \cap lapsed = {} /\ taken \cap gone = {}
  BY <1>1, <1>4, <1>5
<1>7. e \in Vault /\ v \in Vault /\ v.reserves \in Nat
  BY <1>2, VaultFields DEF VaultOK
<1>8. AmountOf(e, taken) = AmountOf(v, taken)
  <2>1. taken \in SUBSET (CreditIds(e) \cap CreditIds(v)) /\ \A c \in taken : e.credits[c].amount = v.credits[c].amount
    BY <1>1, <1>2, <1>5, <1>7, ActiveIds DEF LaterVault, Closed
  <2> QED
    BY <1>7, <2>1, AmountAgree
<1>9. Closed(v, w, taken, lapsed)
  <2>1. CreditIds(w) = CreditIds(v) /\ Len(w.credits) = Len(v.credits)
    BY <1>1, <1>4 DEF Closed
  <2>2. ASSUME NEW c \in CreditIds(v)
        PROVE  w.credits[c].status = IF c \in taken THEN "used" ELSE IF c \in lapsed THEN "expired" ELSE v.credits[c].status
    <3>1. e.credits[c].status = IF c \in gone THEN "expired" ELSE v.credits[c].status
      BY <1>1 DEF Closed
    <3>2. w.credits[c].status = IF c \in taken THEN "used" ELSE IF c \in late THEN "expired" ELSE e.credits[c].status
      BY <1>1, <1>4 DEF Closed
    <3> QED
      BY <3>1, <3>2, <1>6
  <2> QED
    BY <2>1, <2>2 DEF Closed
<1> HIDE DEF lapsed
<1>10. Closes(v, w, taken, lapsed)
  BY <1>2, <1>3, <1>6, <1>8, <1>9 DEF Closes
<1>11. LaterVault(v, w)
  BY <1>2, <1>3, LaterTwice
<1>12. Moves(v, w)
  BY <1>6, <1>10 DEF Moves
<1> QED
  BY <1>2, <1>3, <1>7, <1>11, <1>12 DEF VaultMoved, w, e

-----------------------------------------------------------------------------
(* What the relayer settled *)

Intent == [sender : Users, token : Tokens, amount : Nat, expires : Nat, nonce : Nat, status : IntentStatus,
           relayer : {NoRelayer, Relayer, Receiver}, credits : SUBSET Nat]
Books == [relayed : Nat, profit : Nat, gas : Nat]

RelayedOf(is) == {i \in DOMAIN is : is[i].relayer = Relayer}
Unspent(is) == \A i \in DOMAIN is : is[i].relayer # Relayer => is[i].credits = {}
SpentOn(is) == UNION {is[i].credits : i \in RelayedOf(is)}

\* RelayerMadeWhole, of any vault, intents and books, and that what the
\* relayer settled is claimed.
Settled(v, is, b) ==
  /\ \A i \in RelayedOf(is) :
       /\ is[i].status = "claimed"
       /\ \A c \in is[i].credits : /\ c \in CreditIds(v)
                                   /\ v.credits[c].user = is[i].sender /\ v.credits[c].status = "used"
  /\ \A i, j \in RelayedOf(is) : i # j => is[i].credits \cap is[j].credits = {}
  /\ b.relayed = Cardinality(RelayedOf(is))
  /\ b.gas + b.profit = AmountOf(v, SpentOn(is))
  /\ b.profit >= MinProfit * b.relayed

\* A later vault has the same credits used.
LEMMA SettledLater ==
  ASSUME NEW v \in Vault, NEW w \in Vault, LaterVault(v, w), NEW is, NEW b, Settled(v, is, b)
  PROVE  Settled(w, is, b)
<1>1. \A c \in SpentOn(is) : c \in CreditIds(v) /\ v.credits[c].status = "used"
  BY DEF Settled, SpentOn
<1>2. SpentOn(is) \in SUBSET (CreditIds(v) \cap CreditIds(w))
  BY <1>1 DEF LaterVault
<1>3. \A c \in SpentOn(is) : v.credits[c].amount = w.credits[c].amount
  BY <1>1 DEF LaterVault
<1>4. AmountOf(v, SpentOn(is)) = AmountOf(w, SpentOn(is))
  BY <1>2, <1>3, AmountAgree
<1>5. ASSUME NEW i \in RelayedOf(is), NEW c \in is[i].credits
      PROVE  c \in CreditIds(w) /\ w.credits[c].user = is[i].sender /\ w.credits[c].status = "used"
  BY DEF Settled, LaterVault
<1> QED
  BY <1>4, <1>5 DEF Settled

\* Only what the relayer settled matters.
LEMMA SettledSame ==
  ASSUME NEW v, NEW is, NEW js, NEW b, Settled(v, is, b),
         RelayedOf(js) = RelayedOf(is), \A i \in RelayedOf(is) : js[i] = is[i]
  PROVE  Settled(v, js, b)
<1>1. SpentOn(js) = SpentOn(is)
  BY DEF SpentOn
<1> QED
  BY <1>1 DEF Settled

Booked(b, d, profit, gas) ==
  d = [relayed |-> b.relayed + 1, profit |-> b.profit + profit, gas |-> b.gas + gas]

\* From is to js the relayer settled i, with active credits of the sender that
\* are used in the later vault.
SettlesOne(v, w, is, js, i) ==
  /\ is[i].relayer # Relayer
  /\ RelayedOf(js) = RelayedOf(is) \cup {i} /\ \A j \in RelayedOf(is) : js[j] = is[j]
  /\ js[i].status = "claimed"
  /\ js[i].credits \subseteq ActiveOf(v, js[i].sender)
  /\ \A c \in js[i].credits : w.credits[c].status = "used"

\* One intent more, with credits nobody has spent.
LEMMA SettledMore ==
  ASSUME NEW v \in Vault, NEW w \in Vault, LaterVault(v, w), NEW is \in Seq(Intent), NEW js, NEW b \in Books, NEW d,
         Settled(v, is, b), NEW i \in DOMAIN is, SettlesOne(v, w, is, js, i),
         NEW gas \in Nat, NEW profit \in Nat, profit >= MinProfit, gas + profit = AmountOf(v, js[i].credits),
         Booked(b, d, profit, gas)
  PROVE  Settled(w, js, d) /\ d \in Books
<1> DEFINE chosen == js[i].credits
<1>0. /\ is[i].relayer # Relayer
      /\ RelayedOf(js) = RelayedOf(is) \cup {i} /\ \A j \in RelayedOf(is) : js[j] = is[j]
      /\ js[i].status = "claimed"
      /\ chosen \subseteq ActiveOf(v, js[i].sender)
      /\ \A c \in chosen : w.credits[c].status = "used"
  BY DEF SettlesOne
<1> USE <1>0
<1>1. Settled(w, is, b)
  BY SettledLater
<1>2. i \notin RelayedOf(is) /\ js[i].credits = chosen
  BY DEF RelayedOf
<1> HIDE DEF chosen
<1>3. \A c \in chosen : /\ c \in CreditIds(v) /\ v.credits[c].status = "active" /\ v.credits[c].user = js[i].sender
                        /\ c \in CreditIds(w) /\ w.credits[c].user = js[i].sender /\ w.credits[c].status = "used"
                        /\ w.credits[c].amount = v.credits[c].amount
  BY DEF ActiveOf, Active, LaterVault
<1>4. \A j \in RelayedOf(is) : \A c \in is[j].credits : c \in CreditIds(v) /\ v.credits[c].status = "used"
  BY DEF Settled
<1>5. chosen \cap SpentOn(is) = {} /\ \A j \in RelayedOf(is) : is[j].credits \cap chosen = {}
  BY <1>3, <1>4 DEF SpentOn
<1>6. SpentOn(js) = SpentOn(is) \cup chosen
  <2>1. \A j \in RelayedOf(js) : j = i \/ (j \in RelayedOf(is) /\ js[j].credits = is[j].credits)
    OBVIOUS
  <2>2. \A j \in RelayedOf(is) : j \in RelayedOf(js) /\ js[j].credits = is[j].credits
    OBVIOUS
  <2>3. i \in RelayedOf(js)
    OBVIOUS
  <2>4. ASSUME NEW c PROVE c \in SpentOn(js) <=> c \in SpentOn(is) \cup chosen
    <3>1. ASSUME c \in SpentOn(js) PROVE c \in SpentOn(is) \cup chosen
      <4>1. PICK j \in RelayedOf(js) : c \in js[j].credits
        BY <3>1 DEF SpentOn
      <4> QED
        BY <4>1, <2>1, <1>2 DEF SpentOn
    <3>2. ASSUME c \in SpentOn(is) PROVE c \in SpentOn(js)
      <4>1. PICK j \in RelayedOf(is) : c \in is[j].credits
        BY <3>2 DEF SpentOn
      <4> QED
        BY <4>1, <2>2 DEF SpentOn
    <3>3. ASSUME c \in chosen PROVE c \in SpentOn(js)
      BY <3>3, <1>2, <2>3 DEF SpentOn
    <3> QED
      BY <3>1, <3>2, <3>3
  <2> QED
    BY <2>4
<1>7. AmountOf(w, SpentOn(js)) = AmountOf(w, SpentOn(is)) + AmountOf(w, chosen)
  <2>1. SpentOn(is) \cup chosen \in SUBSET CreditIds(w)
    BY <1>1, <1>3 DEF Settled, SpentOn
  <2> DEFINE U == SpentOn(is) \cup chosen
  <2>2. chosen \in SUBSET U /\ U \ chosen = SpentOn(is) /\ U \in SUBSET CreditIds(w)
    BY <1>5, <2>1
  <2> HIDE DEF U
  <2>3. /\ AmountOf(w, U) \in Nat /\ AmountOf(w, chosen) \in Nat
        /\ AmountOf(w, U \ chosen) = AmountOf(w, U) - AmountOf(w, chosen)
    BY <2>2, AmountFacts
  <2>4. AmountOf(w, SpentOn(is)) = AmountOf(w, U) - AmountOf(w, chosen)
    BY <2>2, <2>3
  <2>5. AmountOf(w, U) = AmountOf(w, SpentOn(is)) + AmountOf(w, chosen)
    BY <2>3, <2>4
  <2> QED
    BY <2>5, <1>6 DEF U
<1>8. AmountOf(w, chosen) = AmountOf(v, chosen)
  <2>1. chosen \in SUBSET (CreditIds(v) \cap CreditIds(w)) /\ \A c \in chosen : v.credits[c].amount = w.credits[c].amount
    BY <1>3
  <2> QED
    BY <2>1, AmountAgree
<1>9. Cardinality(RelayedOf(js)) = Cardinality(RelayedOf(is)) + 1
  <2>1. IsFiniteSet(RelayedOf(is))
    <3>1. Len(is) \in Nat /\ DOMAIN is = 1 .. Len(is)
      OBVIOUS
    <3>2. IsFiniteSet(DOMAIN is)
      BY <3>1, FS_Interval
    <3> QED
      BY <3>2, FS_Subset DEF RelayedOf
  <2> QED
    BY <1>2, <2>1, FS_AddElement
<1>10. b.relayed \in Nat /\ b.profit \in Nat /\ b.gas \in Nat /\ MinProfit \in Nat
  BY RelayAssumption DEF Books
<1>11. d \in Books /\ d.relayed = b.relayed + 1 /\ d.profit = b.profit + profit /\ d.gas = b.gas + gas
  BY <1>10 DEF Books, Booked
<1>12. /\ b.relayed = Cardinality(RelayedOf(is)) /\ b.gas + b.profit = AmountOf(w, SpentOn(is))
       /\ b.profit >= MinProfit * b.relayed
  BY <1>1 DEF Settled
<1>13. d.relayed = Cardinality(RelayedOf(js))
  BY <1>9, <1>11, <1>12
<1>14. d.gas + d.profit = AmountOf(w, SpentOn(js))
  <2>1. AmountOf(w, SpentOn(is)) = b.gas + b.profit /\ AmountOf(w, chosen) = gas + profit
    BY <1>2, <1>8, <1>12
  <2> QED
    BY <2>1, <1>7, <1>10, <1>11
<1>15. d.profit >= MinProfit * d.relayed
  <2>1. MinProfit * (b.relayed + 1) = MinProfit * b.relayed + MinProfit /\ MinProfit * b.relayed \in Nat
    BY <1>10
  <2> QED
    BY <2>1, <1>10, <1>11, <1>12
<1>16. ASSUME NEW j \in RelayedOf(js)
       PROVE  /\ js[j].status = "claimed"
              /\ \A c \in js[j].credits : /\ c \in CreditIds(w)
                                          /\ w.credits[c].user = js[j].sender /\ w.credits[c].status = "used"
  <2>1. CASE j = i
    BY <2>1, <1>2, <1>3
  <2>2. CASE j \in RelayedOf(is)
    BY <2>2, <1>1 DEF Settled
  <2> QED
    BY <2>1, <2>2
<1>17. ASSUME NEW j \in RelayedOf(js), NEW k \in RelayedOf(js), j # k PROVE js[j].credits \cap js[k].credits = {}
  <2>1. CASE j \in RelayedOf(is) /\ k \in RelayedOf(is)
    BY <2>1, <1>17 DEF Settled
  <2>2. CASE j = i
    BY <2>2, <1>2, <1>5, <1>17
  <2>3. CASE k = i
    BY <2>3, <1>2, <1>5, <1>17
  <2> QED
    BY <2>1, <2>2, <2>3
<1> QED
  BY <1>11, <1>13, <1>14, <1>15, <1>16, <1>17 DEF Settled

-----------------------------------------------------------------------------
(* The cached scores *)

Link == [user : Users, provider : Providers, id : {"handle"}, status : LinkStatus]

OnlyPending(ls, user) == \A l \in DOMAIN ls : ls[l].user = user => ls[l].status = "pending"

\* A score is what the links give, and is there once a link was verified or revoked.
Fresh(ls, sc) ==
  /\ DOMAIN sc = Users
  /\ \A u \in Users : IF OnlyPending(ls, u) THEN sc[u] = NoScore
                      ELSE sc[u] # NoScore /\ sc[u].maxTransfer = 1000 * Points(ls, u)

\* Points depends on the verified links only.
LEMMA PointsAgree ==
  ASSUME NEW ls \in Seq(Link), NEW ms \in Seq(Link), NEW u, VerifiedOf(ms, u) = VerifiedOf(ls, u),
         \A l \in VerifiedOf(ls, u) : ms[l].provider = ls[l].provider
  PROVE  Points(ms, u) = Points(ls, u)
<1> DEFINE V == VerifiedOf(ls, u)
           f == [l \in DOMAIN ls |-> ProviderWeight[ls[l].provider]]
           g == [l \in DOMAIN ms |-> ProviderWeight[ms[l].provider]]
<1>1. V \subseteq DOMAIN ls /\ V \subseteq DOMAIN ms
  BY DEF VerifiedOf
<1>2. IsFiniteSet(V)
  <2>1. Len(ls) \in Nat /\ DOMAIN ls = 1 .. Len(ls)
    OBVIOUS
  <2>2. IsFiniteSet(DOMAIN ls)
    BY <2>1, FS_Interval
  <2> QED
    BY <1>1, <2>2, FS_Subset
<1>3. \A l \in V : g[l] = f[l]
  BY <1>1
<1>4. /\ Points(ls, u) = IF SumFunctionOnSet(f, V) < 100 THEN SumFunctionOnSet(f, V) ELSE 100
      /\ Points(ms, u) = IF SumFunctionOnSet(g, V) < 100 THEN SumFunctionOnSet(g, V) ELSE 100
  BY DEF Points
<1> HIDE DEF V, f, g
<1>5. SumFunctionOnSet(g, V) = SumFunctionOnSet(f, V)
  BY <1>2, <1>3, SumAgree
<1> QED
  BY <1>4, <1>5

\* The points of a user are a number.
LEMMA PointsType ==
  ASSUME NEW ls \in Seq(Link), NEW u
  PROVE  Points(ls, u) \in Nat
<1> DEFINE V == VerifiedOf(ls, u)
           f == [l \in DOMAIN ls |-> ProviderWeight[ls[l].provider]]
<1>1. V \subseteq DOMAIN ls
  BY DEF VerifiedOf
<1>2. IsFiniteSet(V)
  <2>1. Len(ls) \in Nat /\ DOMAIN ls = 1 .. Len(ls)
    OBVIOUS
  <2>2. IsFiniteSet(DOMAIN ls)
    BY <2>1, FS_Interval
  <2> QED
    BY <1>1, <2>2, FS_Subset
<1>3. \A l \in V : f[l] \in Nat
  <2>1. \A l \in V : ls[l].provider \in Providers
    <3>1. \A l \in V : ls[l] \in Link
      BY <1>1
    <3> HIDE DEF V
    <3> QED
      BY <3>1 DEF Link
  <2>2. \A p \in Providers : ProviderWeight[p] \in Nat
    BY RelayAssumption DEF ProviderWeight
  <2> QED
    BY <1>1, <2>1, <2>2
<1>4. Points(ls, u) = IF SumFunctionOnSet(f, V) < 100 THEN SumFunctionOnSet(f, V) ELSE 100
  BY DEF Points
<1> HIDE DEF V, f
<1>5. SumFunctionOnSet(f, V) \in Nat
  BY <1>2, <1>3, SumNat
<1> QED
  BY <1>4, <1>5

\* A new link is pending and leaves every score as it is.
LEMMA FreshAfterLink ==
  ASSUME NEW ls \in Seq(Link), NEW sc, Fresh(ls, sc), NEW new \in Link, new.status = "pending"
  PROVE  Fresh(Append(ls, new), sc)
<1> DEFINE ms == Append(ls, new)
<1>1. /\ ms \in Seq(Link) /\ Len(ms) = Len(ls) + 1 /\ Len(ls) \in Nat
      /\ DOMAIN ls = 1 .. Len(ls) /\ DOMAIN ms = 1 .. Len(ls) + 1
      /\ ms[Len(ls) + 1] = new /\ \A l \in 1 .. Len(ls) : ms[l] = ls[l]
  OBVIOUS
<1> HIDE DEF ms
<1>2. /\ \A l \in DOMAIN ls : l \in DOMAIN ms /\ ms[l] = ls[l]
      /\ \A l \in DOMAIN ms : l \in DOMAIN ls \/ ms[l].status = "pending"
  BY <1>1
<1>3. \A u \in Users : OnlyPending(ms, u) <=> OnlyPending(ls, u)
  BY <1>2 DEF OnlyPending
<1>4. ASSUME NEW u \in Users PROVE Points(ms, u) = Points(ls, u)
  <2>1. VerifiedOf(ms, u) = VerifiedOf(ls, u)
    BY <1>2 DEF VerifiedOf
  <2>2. \A l \in VerifiedOf(ls, u) : ms[l].provider = ls[l].provider
    BY <1>2 DEF VerifiedOf
  <2> QED
    BY <1>1, <2>1, <2>2, PointsAgree
<1>5. Fresh(ms, sc)
  BY <1>3, <1>4 DEF Fresh
<1> QED
  BY <1>5 DEF ms

\* verify_link and revoke_link write the score of the link's user.
LEMMA FreshAfterSet ==
  ASSUME NEW ls \in Seq(Link), NEW sc, Fresh(ls, sc), NEW l \in DOMAIN ls, NEW status \in {"verified", "revoked"}
  PROVE  LET ms == [ls EXCEPT ![l].status = status] IN
         /\ ms \in Seq(Link)
         /\ Fresh(ms, [sc EXCEPT ![ls[l].user] = ComputeScore(ms, ls[l].user)])
<1> DEFINE ms == [ls EXCEPT ![l].status = status]
           u == ls[l].user
           score == ComputeScore(ms, u)
           tc == [sc EXCEPT ![u] = score]
<1>1. ls[l] \in Link /\ Len(ls) \in Nat /\ DOMAIN ls = 1 .. Len(ls)
  OBVIOUS
<1>2. u \in Users
  BY <1>1 DEF Link
<1>3. /\ DOMAIN ms = DOMAIN ls /\ \A k \in DOMAIN ls \ {l} : ms[k] = ls[k]
      /\ ms[l] = [ls[l] EXCEPT !.status = status]
      /\ ms = [k \in DOMAIN ls |-> ms[k]]
  OBVIOUS
<1>4. ms[l] \in Link /\ ms[l].user = u /\ ms[l].provider = ls[l].provider /\ ms[l].status = status
  BY <1>1, <1>3 DEF Link, LinkStatus
<1> HIDE DEF ms
<1>5. ms \in Seq(Link)
  <2>1. \A k \in DOMAIN ls : ms[k] \in Link
    BY <1>3, <1>4
  <2>2. ms \in [1 .. Len(ls) -> Link]
    BY <1>1, <1>3, <2>1
  <2> QED
    BY <1>1, <2>2
<1>6. ~ OnlyPending(ms, u)
  BY <1>3, <1>4 DEF OnlyPending
<1>7. score # NoScore /\ score.maxTransfer = 1000 * Points(ms, u)
  <2>1. Points(ms, u) \in Nat
    BY <1>5, PointsType
  <2>2. score.score = Points(ms, u) /\ score.maxTransfer = 1000 * Points(ms, u)
    BY DEF ComputeScore
  <2>3. NoScore.score = -1
    BY DEF NoScore
  <2> QED
    BY <2>1, <2>2, <2>3
<1> HIDE DEF score, u
<1>8. DOMAIN tc = Users /\ tc[u] = score /\ \A x \in Users \ {u} : tc[x] = sc[x]
  BY <1>2 DEF Fresh
<1>9. ASSUME NEW x \in Users, x # u
      PROVE  (OnlyPending(ms, x) <=> OnlyPending(ls, x)) /\ Points(ms, x) = Points(ls, x)
  <2>1. \A k \in DOMAIN ls : (ms[k].user = x \/ ls[k].user = x) => ms[k] = ls[k]
    BY <1>3, <1>4, <1>9 DEF u
  <2>2. OnlyPending(ms, x) <=> OnlyPending(ls, x)
    BY <1>3, <2>1 DEF OnlyPending
  <2>3. VerifiedOf(ms, x) = VerifiedOf(ls, x)
    BY <1>3, <2>1 DEF VerifiedOf
  <2>4. \A k \in VerifiedOf(ls, x) : ms[k].provider = ls[k].provider
    BY <1>3, <2>1 DEF VerifiedOf
  <2> QED
    BY <1>5, <2>2, <2>3, <2>4, PointsAgree
<1> HIDE DEF tc
<1>10. Fresh(ms, tc)
  <2>1. ASSUME NEW x \in Users
        PROVE  IF OnlyPending(ms, x) THEN tc[x] = NoScore
               ELSE tc[x] # NoScore /\ tc[x].maxTransfer = 1000 * Points(ms, x)
    <3>1. CASE x = u
      BY <3>1, <1>6, <1>7, <1>8
    <3>2. CASE x # u
      BY <3>2, <1>8, <1>9 DEF Fresh
    <3> QED
      BY <3>1, <3>2
  <2> QED
    BY <2>1, <1>8 DEF Fresh
<1> QED
  BY <1>5, <1>10 DEF ms, tc, u, score

-----------------------------------------------------------------------------
(* The relay's invariant *)

RelayTypes ==
  /\ now \in 0 .. MaxTime
  /\ vault.reserves <= MaxReserves
  /\ intents \in Seq(Intent) /\ Len(intents) <= MaxIntents /\ Unspent(intents)
  /\ nonces \in [Users -> Nat]
  /\ links \in Seq(Link)
  /\ batch \in Seq(DOMAIN intents)
  /\ books \in Books

RelayInv ==
  /\ RelayTypes
  /\ VaultOK(vault)
  /\ Settled(vault, intents, books)
  /\ Fresh(links, scores)

\* One intent rewritten.
LEMMA SetOneIntent ==
  ASSUME NEW is \in Seq(Intent), NEW i \in DOMAIN is, NEW new \in Intent, NEW js, js = [is EXCEPT ![i] = new]
  PROVE  /\ js \in Seq(Intent) /\ Len(js) = Len(is) /\ DOMAIN js = DOMAIN is
         /\ js[i] = new /\ \A j \in DOMAIN is \ {i} : js[j] = is[j]
OBVIOUS

\* A step that moves the vault on and may shorten the batch.
LEMMA VaultMoves ==
  ASSUME RelayInv, VaultOK(vault'), LaterVault(vault, vault'), vault'.reserves <= MaxReserves,
         batch' \in Seq(DOMAIN intents), UNCHANGED <<now, intents, nonces, links, scores, books>>
  PROVE  RelayInv'
<1>1. vault \in Vault /\ vault' \in Vault
  BY DEF RelayInv, VaultOK
<1>2. Settled(vault', intents, books)
  BY <1>1, SettledLater DEF RelayInv
<1>3. RelayTypes'
  BY DEF RelayInv, RelayTypes
<1>4. Fresh(links, scores)
  BY DEF RelayInv
<1> QED
  BY <1>2, <1>3, <1>4 DEF RelayInv

\* A step that rewrites intents the relayer did not settle.
LEMMA IntentsMove ==
  ASSUME RelayInv, Idle, intents' \in Seq(Intent), Len(intents') <= MaxIntents, Unspent(intents'), nonces' \in [Users -> Nat],
         RelayedOf(intents') = RelayedOf(intents), \A i \in RelayedOf(intents) : intents'[i] = intents[i],
         UNCHANGED <<now, vault, links, scores, batch, books>>
  PROVE  RelayInv'
<1>1. Settled(vault, intents', books)
  BY SettledSame DEF RelayInv
<1>2. batch' \in Seq(DOMAIN intents')
  BY DEF Idle
<1>3. RelayTypes'
  BY <1>2 DEF RelayInv, RelayTypes
<1>4. VaultOK(vault) /\ Fresh(links, scores)
  BY DEF RelayInv
<1> QED
  BY <1>1, <1>3, <1>4 DEF RelayInv

\* A step that rewrites one intent the relayer did not settle.
LEMMA IntentMoves ==
  ASSUME RelayInv, NEW i \in DOMAIN intents, Idle, intents[i].status # "claimed",
         NEW new \in Intent, new.relayer # Relayer, new.credits = {}, intents' = [intents EXCEPT ![i] = new],
         UNCHANGED <<now, vault, nonces, links, scores, batch, books>>
  PROVE  RelayInv'
<1>1. intents \in Seq(Intent) /\ Len(intents) <= MaxIntents /\ nonces \in [Users -> Nat]
  BY DEF RelayInv, RelayTypes
<1>2. i \notin RelayedOf(intents)
  BY DEF RelayInv, Settled
<1>3. /\ intents' \in Seq(Intent) /\ Len(intents') = Len(intents) /\ DOMAIN intents' = DOMAIN intents
      /\ intents'[i] = new /\ \A j \in DOMAIN intents \ {i} : intents'[j] = intents[j]
  BY <1>1, SetOneIntent
<1>4. RelayedOf(intents') = RelayedOf(intents) /\ \A j \in RelayedOf(intents) : intents'[j] = intents[j]
  BY <1>2, <1>3 DEF RelayedOf
<1>5. Unspent(intents')
  <2>1. Unspent(intents)
    BY DEF RelayInv, RelayTypes
  <2> QED
    BY <1>3, <2>1 DEF Unspent
<1> QED
  BY <1>1, <1>3, <1>4, <1>5, IntentsMove

\* RelayInv holds at first.
LEMMA RelayStart == RelayInit => RelayInv
<1> SUFFICES ASSUME RelayInit PROVE RelayInv
  OBVIOUS
<1>1. InitialSol \in Nat /\ InitialSol <= MaxReserves /\ 0 \in 0 .. MaxTime /\ MaxIntents \in Nat /\ MinProfit \in Nat
  BY RelayAssumption
<1>2. <<>> \in Seq(Credit) /\ <<>> \in Seq(Intent) /\ <<>> \in Seq(Link) /\ Len(<<>>) = 0 /\ DOMAIN <<>> = {}
  OBVIOUS
<1>3. vault \in Vault /\ vault.reserves = InitialSol /\ vault.credits = <<>>
  <2> DEFINE none == <<>>
  <2>1. vault = VaultOf(InitialSol, none, 0) /\ none \in Seq(Credit)
    BY <1>2 DEF RelayInit, EmptyVault
  <2> HIDE DEF none
  <2>2. vault \in Vault /\ vault.reserves = InitialSol /\ vault.credits = none
    BY <1>1, <2>1, VaultType
  <2> QED
    BY <2>2 DEF none
<1>4. CreditIds(vault) = {} /\ Active(vault) = {} /\ \A u : ActiveOf(vault, u) = {}
  BY <1>2, <1>3 DEF CreditIds, Active, ActiveOf
<1>5. AmountOf(vault, {}) = 0
  BY SumEmpty DEF AmountOf
<1>6. VaultOK(vault)
  <2>1. Outstanding(vault) = 0 /\ \A u : AmountOf(vault, ActiveOf(vault, u)) = 0
    BY <1>4, <1>5 DEF Outstanding
  <2>2. Covered(vault.reserves, Outstanding(vault))
    BY <2>1 DEF Covered
  <2>3. MaxUserCredit >= 0
    BY VaultAssumption
  <2> QED
    BY <1>3, <2>1, <2>2, <2>3 DEF VaultOK
<1>7. RelayTypes
  <2>1. books \in Books /\ nonces \in [Users -> Nat]
    BY DEF RelayInit, Books
  <2>2. now \in 0 .. MaxTime
    BY <1>1 DEF RelayInit
  <2>3. batch \in Seq(DOMAIN intents)
    BY DEF RelayInit
  <2>4. intents \in Seq(Intent) /\ links \in Seq(Link) /\ Len(intents) <= MaxIntents /\ Unspent(intents)
    BY <1>1, <1>2 DEF RelayInit, Unspent
  <2> QED
    BY <1>1, <1>3, <2>1, <2>2, <2>3, <2>4 DEF RelayTypes
<1>8. Settled(vault, intents, books)
  <2>1. intents = <<>> /\ books.relayed = 0 /\ books.profit = 0 /\ books.gas = 0
    BY DEF RelayInit
  <2>2. RelayedOf(intents) = {} /\ SpentOn(intents) = {}
    BY <1>2, <2>1 DEF RelayedOf, SpentOn
  <2>3. Cardinality({}) = 0
    BY FS_EmptySet
  <2>4. books.gas + books.profit = 0 /\ books.profit >= MinProfit * books.relayed
    BY <1>1, <2>1
  <2> QED
    BY <1>5, <2>1, <2>2, <2>3, <2>4 DEF Settled
<1>9. Fresh(links, scores)
  BY <1>2 DEF Fresh, RelayInit, OnlyPending
<1> QED
  BY <1>6, <1>7, <1>8, <1>9 DEF RelayInv

\* The intents a step rewrites stay intents.
LEMMA IntentType ==
  ASSUME NEW x \in Intent, NEW status \in IntentStatus
  PROVE  /\ [x EXCEPT !.status = status] \in Intent
         /\ [x EXCEPT !.status = status].relayer = x.relayer
         /\ [x EXCEPT !.status = status].credits = x.credits
BY DEF Intent

\* The three ways an intent is rewritten by its sender or its receiver.
LEMMA CallOnIntent ==
  ASSUME RelayInv, NEW i \in DOMAIN intents, ClaimIntent(i) \/ ConfirmSettlement(i) \/ CancelIntent(i)
  PROVE  RelayInv' /\ vault' = vault
<1>1. intents[i] \in Intent
  BY DEF RelayInv, RelayTypes
<1>2. /\ intents[i].relayer = Relayer => intents[i].status = "claimed"
      /\ intents[i].relayer # Relayer => intents[i].credits = {}
  BY DEF RelayInv, RelayTypes, Settled, RelayedOf, Unspent
<1>3. "settling" \in IntentStatus /\ "claimed" \in IntentStatus /\ "cancelled" \in IntentStatus
  BY DEF IntentStatus
<1>4. CASE ClaimIntent(i)
  <2> DEFINE new == [intents[i] EXCEPT !.status = "settling"]
  <2>1. /\ Idle /\ intents[i].status = "pending" /\ intents' = [intents EXCEPT ![i] = new]
        /\ UNCHANGED <<now, vault, nonces, links, scores, batch, books>>
    BY <1>4 DEF ClaimIntent, Claimable, SetIntents
  <2>2. new \in Intent /\ new.relayer = intents[i].relayer /\ new.credits = intents[i].credits
    BY <1>1, <1>3, IntentType
  <2> HIDE DEF new
  <2>3. intents[i].status # "claimed" /\ new.relayer # Relayer /\ new.credits = {}
    BY <1>2, <2>1, <2>2
  <2> QED
    BY <2>1, <2>2, <2>3, IntentMoves
<1>5. CASE CancelIntent(i)
  <2> DEFINE new == [intents[i] EXCEPT !.status = "cancelled"]
  <2>1. /\ Idle /\ intents[i].status = "pending" /\ intents' = [intents EXCEPT ![i] = new]
        /\ UNCHANGED <<now, vault, nonces, links, scores, batch, books>>
    BY <1>5 DEF CancelIntent, Claimable, SetIntents
  <2>2. new \in Intent /\ new.relayer = intents[i].relayer /\ new.credits = intents[i].credits
    BY <1>1, <1>3, IntentType
  <2> HIDE DEF new
  <2>3. intents[i].status # "claimed" /\ new.relayer # Relayer /\ new.credits = {}
    BY <1>2, <2>1, <2>2
  <2> QED
    BY <2>1, <2>2, <2>3, IntentMoves
<1>6. CASE ConfirmSettlement(i)
  <2> DEFINE new == [intents[i] EXCEPT !.status = "claimed", !.relayer = Receiver]
  <2>1. /\ Idle /\ intents[i].status = "settling" /\ intents' = [intents EXCEPT ![i] = new]
        /\ UNCHANGED <<now, vault, nonces, links, scores, batch, books>>
    BY <1>6 DEF ConfirmSettlement, SetIntents
  <2>2. new \in Intent /\ new.relayer = Receiver /\ new.credits = intents[i].credits
    <3>1. Receiver \in {NoRelayer, Relayer, Receiver}
      OBVIOUS
    <3> QED
      BY <1>1, <1>3, <3>1 DEF Intent
  <2> HIDE DEF new
  <2>3. intents[i].status # "claimed" /\ new.relayer # Relayer /\ new.credits = {}
    BY <1>2, <2>1, <2>2 DEF Relayer, Receiver
  <2> QED
    BY <2>1, <2>2, <2>3, IntentMoves
<1> QED
  BY <1>4, <1>5, <1>6

\* create_intent adds an intent that nobody has settled.
LEMMA CreateKeeps ==
  ASSUME RelayInv, NEW u \in Users, NEW t \in Tokens, NEW a \in Amounts, CreateIntent(u, t, a)
  PROVE  RelayInv' /\ vault' = vault
<1> DEFINE new == [sender |-> u, token |-> t, amount |-> a, expires |-> now + ClaimWindow,
                   nonce |-> nonces[u], status |-> "pending", relayer |-> NoRelayer, credits |-> {}]
<1>1. /\ Idle /\ Len(intents) < MaxIntents /\ intents' = Append(intents, new)
      /\ nonces' = [nonces EXCEPT ![u] = @ + 1] /\ UNCHANGED <<now, vault, links, scores, batch, books>>
  BY DEF CreateIntent, SetIntents
<1>2. intents \in Seq(Intent) /\ nonces \in [Users -> Nat] /\ now \in Nat
  BY RelayAssumption DEF RelayInv, RelayTypes
<1>3. new \in Intent /\ new.relayer # Relayer /\ new.credits = {}
  <2>1. now + ClaimWindow \in Nat /\ a \in Nat /\ nonces[u] \in Nat
    <3>1. ClaimWindow \in Nat /\ a \in Nat
      BY RelayAssumption
    <3> QED
      BY <1>2, <3>1
  <2> QED
    BY <2>1 DEF Intent, IntentStatus, NoRelayer, Relayer
<1> HIDE DEF new
<1>4. /\ intents' \in Seq(Intent) /\ Len(intents') = Len(intents) + 1 /\ Len(intents) \in Nat
      /\ DOMAIN intents = 1 .. Len(intents) /\ DOMAIN intents' = 1 .. Len(intents) + 1
      /\ intents'[Len(intents) + 1] = new /\ \A j \in 1 .. Len(intents) : intents'[j] = intents[j]
  BY <1>1, <1>2, <1>3
<1>5. RelayedOf(intents') = RelayedOf(intents) /\ \A j \in RelayedOf(intents) : intents'[j] = intents[j]
  <2>1. /\ \A j \in DOMAIN intents : j \in DOMAIN intents' /\ intents'[j] = intents[j]
        /\ \A j \in DOMAIN intents' : j \in DOMAIN intents \/ intents'[j].relayer # Relayer
    BY <1>3, <1>4
  <2> QED
    BY <2>1 DEF RelayedOf
<1>6. Len(intents') <= MaxIntents /\ nonces' \in [Users -> Nat]
  BY <1>1, <1>2, <1>4, RelayAssumption
<1>7. Unspent(intents')
  <2>1. Unspent(intents)
    BY DEF RelayInv, RelayTypes
  <2>2. \A j \in DOMAIN intents' : (j \in DOMAIN intents /\ intents'[j] = intents[j]) \/ intents'[j].credits = {}
    BY <1>3, <1>4
  <2> QED
    BY <2>1, <2>2 DEF Unspent
<1> QED
  BY <1>1, <1>4, <1>5, <1>6, <1>7, IntentsMove

\* expire_intents touches pending intents only.
LEMMA ExpireIntentsKeeps ==
  ASSUME RelayInv, ExpireIntents
  PROVE  RelayInv' /\ vault' = vault
<1>1. /\ Idle /\ UNCHANGED <<now, vault, nonces, links, scores, batch, books>>
      /\ intents' = [i \in DOMAIN intents |->
                       IF Overdue(i) THEN [intents[i] EXCEPT !.status = "expired"] ELSE intents[i]]
  BY DEF ExpireIntents, SetIntents
<1>2. intents \in Seq(Intent) /\ Len(intents) \in Nat /\ DOMAIN intents = 1 .. Len(intents) /\ Len(intents) <= MaxIntents
      /\ nonces \in [Users -> Nat]
  BY DEF RelayInv, RelayTypes
<1>3. ASSUME NEW i \in DOMAIN intents
      PROVE  intents'[i] \in Intent /\ intents'[i].relayer = intents[i].relayer
             /\ intents'[i].credits = intents[i].credits
             /\ (intents[i].relayer = Relayer => intents'[i] = intents[i])
  <2>1. intents[i] \in Intent /\ "expired" \in IntentStatus
    BY <1>2 DEF IntentStatus
  <2>2. intents[i].relayer = Relayer => intents[i].status = "claimed"
    BY DEF RelayInv, Settled, RelayedOf
  <2>3. CASE Overdue(i)
    <3>1. intents'[i] = [intents[i] EXCEPT !.status = "expired"] /\ intents[i].status = "pending"
      <4>1. intents'[i] = IF Overdue(i) THEN [intents[i] EXCEPT !.status = "expired"] ELSE intents[i]
        BY <1>1, Zenon
      <4> QED
        BY <2>3, <4>1 DEF Overdue
    <3> DEFINE y == [intents[i] EXCEPT !.status = "expired"]
    <3>2. y \in Intent /\ y.relayer = intents[i].relayer /\ y.credits = intents[i].credits /\ intents'[i] = y
      BY <2>1, <3>1, IntentType
    <3> HIDE DEF y
    <3> QED
      BY <2>2, <3>1, <3>2
  <2>4. CASE ~ Overdue(i)
    BY <1>1, <2>1, <2>4
  <2> QED
    BY <2>3, <2>4
<1>4. DOMAIN intents' = DOMAIN intents /\ intents' = [i \in DOMAIN intents |-> intents'[i]]
  BY <1>1
<1>5. intents' \in Seq(Intent) /\ Len(intents') = Len(intents)
  <2>1. intents' \in [1 .. Len(intents) -> Intent]
    BY <1>2, <1>3, <1>4
  <2> QED
    BY <1>2, <2>1
<1>6. RelayedOf(intents') = RelayedOf(intents) /\ \A j \in RelayedOf(intents) : intents'[j] = intents[j]
  BY <1>3, <1>4 DEF RelayedOf
<1>7. Unspent(intents')
  <2>1. Unspent(intents)
    BY DEF RelayInv, RelayTypes
  <2> QED
    BY <1>3, <1>4, <2>1 DEF Unspent
<1> QED
  BY <1>1, <1>2, <1>5, <1>6, <1>7, IntentsMove

\* relay_intent settles: what it confirmed before it had the money is paid for,
\* because the vault's promise lets neither refusal of reimburse_relayer happen.
LEMMA SettlesKeeps ==
  ASSUME RelayInv, RelaySettles
  PROVE  RelayInv' /\ VaultMoved(vault, vault')
<1> DEFINE i == Head(batch)
           looked == ExpireStaleCredits(vault, now)
           gas == EstimateGas(i)
           chosen == SelectCredits(looked, intents[i].sender, gas + MinProfit)
           total == AmountOf(looked, chosen)
           profit == total - gas
           new == [intents[i] EXCEPT !.status = "claimed", !.relayer = Relayer, !.credits = chosen]
<1>1. /\ ~ Idle /\ Profitable(looked, i) /\ Claimable(i)
      /\ intents' = [intents EXCEPT ![i] = new]
      /\ vault' = ReimburseRelayer(looked, chosen, now)
      /\ books' = IF Reimbursed(looked, vault')
                  THEN [relayed |-> books.relayed + 1, profit |-> books.profit + profit, gas |-> books.gas + gas]
                  ELSE books
      /\ batch' = Tail(batch)
      /\ UNCHANGED <<now, nonces, links, scores>>
  BY DEF RelaySettles
<1>2. /\ intents \in Seq(Intent) /\ batch \in Seq(DOMAIN intents) /\ books \in Books /\ VaultOK(vault)
      /\ Settled(vault, intents, books)
  BY DEF RelayInv, RelayTypes
<1>3. batch # <<>> /\ i \in DOMAIN intents /\ Tail(batch) \in Seq(DOMAIN intents)
  BY <1>1, <1>2 DEF Idle
<1>4. total - gas >= MinProfit
  BY <1>1 DEF Profitable
<1>5. intents[i].status = "pending"
  BY <1>1 DEF Claimable
<1>6. VaultOK(looked) /\ LaterVault(vault, looked) /\ looked.reserves = vault.reserves
  BY <1>2, ExpireOK
<1>7. chosen \subseteq ActiveOf(looked, intents[i].sender)
  BY DEF SelectCredits
<1>8. gas \in Nat /\ gas > 0
  BY DEF EstimateGas
<1> HIDE DEF i, looked, chosen, gas
<1>9. looked \in Vault /\ looked.paid \in Nat /\ vault \in Vault
  BY <1>2, <1>6, VaultFields DEF VaultOK
<1>10. /\ ActiveOf(looked, intents[i].sender) \in SUBSET Active(looked)
       /\ ActiveOf(looked, intents[i].sender) \in SUBSET CreditIds(looked)
  BY <1>9, ActiveIds
<1>11. chosen \cap Active(looked) = chosen /\ chosen \in SUBSET CreditIds(looked)
  BY <1>7, <1>10
<1>12. total \in Nat
  BY <1>9, <1>11, AmountFacts
<1>13. profit \in Nat /\ profit >= MinProfit /\ gas + profit = total /\ total > 0
  <2>1. MinProfit \in Nat
    BY RelayAssumption
  <2> HIDE DEF total
  <2> QED
    BY <2>1, <1>4, <1>8, <1>12
<1>14. /\ VaultOK(vault') /\ LaterVault(looked, vault') /\ vault'.paid = looked.paid + total
       /\ SomeLapsed(looked, vault', chosen)
  <2> DEFINE w == ReimburseRelayer(looked, chosen, now)
             taken == chosen \cap Active(looked)
  <2>1. /\ VaultOK(w) /\ LaterVault(looked, w) /\ w.paid = looked.paid + AmountOf(looked, taken)
        /\ SomeLapsed(looked, w, taken)
    BY <1>6, ReimburseOK
  <2>2. vault' = w /\ taken = chosen
    BY <1>1, <1>11
  <2> HIDE DEF w, taken
  <2> QED
    BY <2>1, <2>2
<1>15. VaultMoved(vault, vault') /\ vault'.reserves <= vault.reserves
  <2> DEFINE w == ReimburseRelayer(ExpireStaleCredits(vault, now), chosen, now)
  <2>1. VaultMoved(vault, w) /\ w.reserves <= vault.reserves
    BY <1>2, SettleMoved
  <2>2. vault' = w
    BY <1>1 DEF looked
  <2> HIDE DEF w
  <2> QED
    BY <2>1, <2>2
<1>16. \A c \in chosen : vault'.credits[c].status = "used"
  <2>1. PICK lapsed \in SUBSET (Active(looked) \ chosen) : Closed(looked, vault', chosen, lapsed)
    BY <1>14 DEF SomeLapsed
  <2> QED
    BY <2>1, <1>11 DEF Closed
<1>17. books' = [relayed |-> books.relayed + 1, profit |-> books.profit + profit, gas |-> books.gas + gas]
  <2>1. Reimbursed(looked, vault')
    BY <1>9, <1>12, <1>13, <1>14 DEF Reimbursed
  <2> QED
    BY <1>1, <2>1
<1>18. /\ new \in Intent /\ new.relayer = Relayer /\ new.status = "claimed" /\ new.credits = chosen
       /\ new.sender = intents[i].sender
  <2>1. intents[i] \in Intent /\ "claimed" \in IntentStatus
    BY <1>2, <1>3 DEF IntentStatus
  <2>2. chosen \in SUBSET Nat /\ Relayer \in {NoRelayer, Relayer, Receiver}
    BY <1>9, <1>11, VaultFields
  <2> QED
    BY <2>1, <2>2 DEF Intent
<1> HIDE DEF new, total
<1>19. /\ intents' \in Seq(Intent) /\ Len(intents') = Len(intents) /\ DOMAIN intents' = DOMAIN intents
       /\ intents'[i] = new /\ \A j \in DOMAIN intents \ {i} : intents'[j] = intents[j]
  BY <1>1, <1>2, <1>3, <1>18, SetOneIntent
<1>20. intents[i].relayer # Relayer
  BY <1>2, <1>3, <1>5 DEF Settled, RelayedOf
<1>21. RelayedOf(intents') = RelayedOf(intents) \cup {i} /\ \A j \in RelayedOf(intents) : intents'[j] = intents[j]
  BY <1>3, <1>18, <1>19, <1>20 DEF RelayedOf
<1>22. Settled(looked, intents, books)
  BY <1>2, <1>6, <1>9, SettledLater
<1>23. Settled(vault', intents', books') /\ books' \in Books
  <2> DEFINE w == vault'
             js == intents'
             d == books'
             p == profit
  <2>1. w \in Vault /\ LaterVault(looked, w) /\ \A c \in chosen : w.credits[c].status = "used"
    BY <1>14, <1>16 DEF VaultOK
  <2>2. SettlesOne(looked, w, intents, js, i) /\ js[i].credits = chosen
    BY <1>7, <1>18, <1>19, <1>20, <1>21, <2>1 DEF SettlesOne
  <2>3. Booked(books, d, p, gas) /\ p \in Nat /\ p >= MinProfit /\ gas + p = AmountOf(looked, chosen)
    BY <1>13, <1>17 DEF total, Booked
  <2> HIDE DEF w, js, d, p
  <2>4. Settled(w, js, d) /\ d \in Books
    BY <1>2, <1>3, <1>8, <1>9, <1>22, <2>1, <2>2, <2>3, SettledMore
  <2> QED
    BY <2>4 DEF w, js, d
<1>24. RelayTypes'
  <2>1. vault.reserves \in Nat /\ vault'.reserves \in Nat /\ MaxReserves \in Nat
    BY <1>9, <1>14, VaultFields, RelayAssumption DEF VaultOK
  <2>2. vault'.reserves <= MaxReserves
    BY <2>1, <1>15 DEF RelayInv, RelayTypes
  <2>3. Unspent(intents')
    <3>1. Unspent(intents)
      BY DEF RelayInv, RelayTypes
    <3> QED
      BY <1>18, <1>19, <3>1 DEF Unspent
  <2> QED
    BY <1>1, <1>3, <1>19, <1>23, <2>2, <2>3 DEF RelayInv, RelayTypes
<1>25. Fresh(links', scores')
  BY <1>1 DEF RelayInv
<1> QED
  BY <1>14, <1>15, <1>23, <1>24, <1>25 DEF RelayInv

\* The relayer's list holds existing intents.
LEMMA ListKeeps ==
  ASSUME RelayInv, RelayAllProfitable \/ \E i \in DOMAIN intents : RelayOne(i)
  PROVE  RelayInv' /\ vault' = vault
<1>1. intents \in Seq(Intent) /\ Len(intents) \in Nat /\ DOMAIN intents = 1 .. Len(intents)
  BY DEF RelayInv, RelayTypes
<1>2. UNCHANGED <<now, vault, zk, intents, nonces, links, scores, books>>
  BY DEF RelayAllProfitable, RelayOne
<1>3. batch' \in Seq(DOMAIN intents)
  <2>1. CASE RelayAllProfitable
    <3> DEFINE keep == [i \in DOMAIN intents |-> /\ Claimable(i)
                                                 /\ intents[i].sender \notin BlacklistedUsers
                                                 /\ intents[i].token \in SupportedTokens]
    <3>1. batch' = Selected(keep)
      BY <2>1 DEF RelayAllProfitable, FindClaimableIntents
    <3>2. DOMAIN keep = 1 .. Len(intents) /\ \A i \in DOMAIN keep : keep[i] \in BOOLEAN
      BY <1>1 DEF Claimable
    <3>3. keep \in Seq(BOOLEAN) /\ Len(keep) = Len(intents)
      <4>1. keep = [i \in 1 .. Len(intents) |-> keep[i]]
        BY <1>1
      <4> HIDE DEF keep
      <4>2. keep \in [1 .. Len(intents) -> BOOLEAN]
        BY <3>2, <4>1
      <4> QED
        BY <1>1, <4>2
    <3> HIDE DEF keep
    <3>4. Selected(keep) \in Seq(Kept(keep)) /\ Kept(keep) \subseteq 1 .. Len(intents)
      BY <3>3, SelectedIsKept DEF Kept
    <3> QED
      BY <1>1, <3>1, <3>4
  <2>2. ASSUME NEW i \in DOMAIN intents, RelayOne(i) PROVE batch' \in Seq(DOMAIN intents)
    BY <2>2 DEF RelayOne
  <2> QED
    BY <2>1, <2>2
<1>4. RelayTypes'
  BY <1>2, <1>3 DEF RelayInv, RelayTypes
<1>5. VaultOK(vault) /\ Settled(vault, intents, books) /\ Fresh(links, scores)
  BY DEF RelayInv
<1> QED
  BY <1>2, <1>4, <1>5 DEF RelayInv

\* The identity registry writes the score with the link.
LEMMA RegistryKeeps ==
  ASSUME RelayInv,
         \/ \E u \in Users, p \in Providers : LinkIdentity(u, p, "handle")
         \/ \E l \in DOMAIN links : VerifyLink(l) \/ RevokeLink(l)
  PROVE  RelayInv' /\ vault' = vault
<1>1. links \in Seq(Link) /\ Fresh(links, scores)
  BY DEF RelayInv, RelayTypes
<1>2. UNCHANGED <<now, vault, zk, intents, nonces, batch, books>>
  BY DEF LinkIdentity, VerifyLink, RevokeLink, SetLink
<1>3. links' \in Seq(Link) /\ Fresh(links', scores')
  <2>1. ASSUME NEW u \in Users, NEW p \in Providers, LinkIdentity(u, p, "handle")
        PROVE  links' \in Seq(Link) /\ Fresh(links', scores')
    <3> DEFINE new == [user |-> u, provider |-> p, id |-> "handle", status |-> "pending"]
    <3>1. links' = Append(links, new) /\ scores' = scores
      BY <2>1 DEF LinkIdentity
    <3>2. new \in Link /\ new.status = "pending"
      BY DEF Link, LinkStatus
    <3> HIDE DEF new
    <3> QED
      BY <1>1, <3>1, <3>2, FreshAfterLink
  <2>2. ASSUME NEW l \in DOMAIN links, NEW status \in {"verified", "revoked"}, SetLink(l, status)
        PROVE  links' \in Seq(Link) /\ Fresh(links', scores')
    <3> DEFINE ms == [links EXCEPT ![l].status = status]
    <3>1. ms \in Seq(Link) /\ Fresh(ms, [scores EXCEPT ![links[l].user] = ComputeScore(ms, links[l].user)])
      BY <1>1, FreshAfterSet
    <3>2. links' = ms /\ scores' = [scores EXCEPT ![links[l].user] = ComputeScore(links', links[l].user)]
      BY <2>2 DEF SetLink
    <3> HIDE DEF ms
    <3> QED
      BY <3>1, <3>2
  <2> QED
    BY <2>1, <2>2 DEF VerifyLink, RevokeLink
<1>4. RelayTypes'
  BY <1>2, <1>3 DEF RelayInv, RelayTypes
<1>5. VaultOK(vault) /\ Settled(vault, intents, books)
  BY DEF RelayInv
<1> QED
  BY <1>2, <1>3, <1>4, <1>5 DEF RelayInv

\* The calls on the vault, and an early return of the relayer.
LEMMA VaultCallKeeps ==
  ASSUME RelayInv,
         \/ LookAtVault \/ RelayRefused
         \/ \E a \in Transfers : Deposit(a) \/ Withdraw(a)
         \/ \E S \in SUBSET CreditIds(vault) : Reimburse(S) \/ Consume(S)
         \/ \E u \in Users, p \in 1 .. MaxProofs, w \in WorkScores : Issue(u, p, w)
  PROVE  RelayInv' /\ (vault' = vault \/ VaultMoved(vault, vault'))
<1>1. /\ VaultOK(vault) /\ vault.reserves \in Nat /\ vault.reserves <= MaxReserves /\ MaxReserves \in Nat
      /\ now \in Nat /\ batch \in Seq(DOMAIN intents)
  <2>1. vault.reserves \in Nat /\ VaultOK(vault)
    BY VaultFields DEF RelayInv, VaultOK
  <2>2. MaxReserves \in Nat /\ MaxTime \in Nat
    BY RelayAssumption
  <2> QED
    BY <2>1, <2>2 DEF RelayInv, RelayTypes
<1>2. UNCHANGED <<now, intents, nonces, links, scores, books>>
  BY DEF LookAtVault, RelayRefused, Deposit, Withdraw, Reimburse, Consume, Issue, SetVault
<1>3. batch' \in Seq(DOMAIN intents)
  <2>1. CASE RelayRefused
    BY <1>1, <2>1 DEF RelayRefused, Idle
  <2>2. CASE ~ RelayRefused
    <3>1. batch' = batch
      BY <2>2 DEF LookAtVault, Deposit, Withdraw, Reimburse, Consume, Issue, SetVault
    <3> QED
      BY <1>1, <3>1
  <2> QED
    BY <2>1, <2>2
<1> DEFINE Moved(w) == VaultMoved(vault, w) /\ w.reserves <= MaxReserves
<1>4. vault' = vault \/ Moved(vault')
  <2> DEFINE looked == ExpireStaleCredits(vault, now)
  <2>1. Moved(looked)
    BY <1>1, ExpireMoved
  <2>2. CASE LookAtVault
    BY <2>1, <2>2 DEF LookAtVault, SetVault
  <2>3. CASE RelayRefused
    BY <2>1, <2>3 DEF RelayRefused
  <2>4. ASSUME NEW a \in Transfers, Deposit(a) PROVE Moved(vault')
    <3>1. vault' = DepositSol(vault, a) /\ vault.reserves + a <= MaxReserves /\ a \in Nat
      BY <2>4, RelayAssumption DEF Deposit, SetVault
    <3> QED
      BY <1>1, <3>1, DepositMoved
  <2>5. ASSUME NEW a \in Transfers, Withdraw(a) PROVE Moved(vault')
    <3>1. vault' = WithdrawSol(vault, a, now) /\ CanWithdraw(vault, a, now) /\ a \in Nat
      BY <2>5, RelayAssumption DEF Withdraw, SetVault
    <3>2. VaultMoved(vault, vault') /\ vault'.reserves = vault.reserves - a
      BY <1>1, <3>1, WithdrawMoved
    <3> QED
      BY <1>1, <3>1, <3>2
  <2>6. ASSUME NEW S, Reimburse(S) PROVE Moved(vault')
    <3>1. vault' = ReimburseRelayer(vault, S, now)
      BY <2>6 DEF Reimburse, SetVault
    <3>2. VaultMoved(vault, vault') /\ vault'.reserves <= vault.reserves
      BY <1>1, <3>1, ReimburseMoved
    <3>3. vault'.reserves \in Nat
      BY <3>2, VaultFields DEF VaultMoved, VaultOK
    <3> QED
      BY <1>1, <3>2, <3>3
  <2>7. ASSUME NEW u \in Users, NEW p \in 1 .. MaxProofs, NEW work \in WorkScores, Issue(u, p, work)
        PROVE  Moved(vault')
    <3>1. vault' = IssueCredit(looked, u, work, now) /\ CanIssue(looked, u, work) /\ work \in Nat
      BY <2>7, RelayAssumption DEF Issue, SetVault
    <3>2. VaultMoved(vault, vault') /\ vault'.reserves = vault.reserves
      BY <1>1, <3>1, IssueMoved
    <3> QED
      BY <1>1, <3>2
  <2>8. ASSUME NEW S, Consume(S) PROVE Moved(vault')
    <3>1. vault' = Mark(vault, ConsumeCredits(vault, S), "consumed")
      BY <2>8 DEF Consume, SetVault
    <3>2. VaultMoved(vault, vault') /\ vault'.reserves = vault.reserves
      BY <1>1, <3>1, ConsumeMoved
    <3> QED
      BY <1>1, <3>2
  <2> QED
    BY <2>2, <2>3, <2>4, <2>5, <2>6, <2>7, <2>8
<1>5. CASE vault' = vault
  <2>1. LaterVault(vault, vault')
    BY <1>5 DEF LaterVault
  <2> QED
    BY <1>1, <1>2, <1>3, <1>5, <2>1, VaultMoves
<1>6. CASE Moved(vault')
  BY <1>2, <1>3, <1>6, VaultMoves DEF VaultMoved
<1> QED
  BY <1>4, <1>5, <1>6

\* Every step of the relay keeps its invariant and moves the vault as promised.
LEMMA RelayStep ==
  ASSUME RelayInv, [RelayNext]_relayVars
  PROVE  RelayInv' /\ (vault' = vault \/ VaultMoved(vault, vault'))
<1> DEFINE Goal == RelayInv' /\ (vault' = vault \/ VaultMoved(vault, vault'))
<1>1. ASSUME Tick \/ LogZkCompute \/ UNCHANGED relayVars PROVE Goal
  <2>1. UNCHANGED <<vault, intents, nonces, links, scores, batch, books>>
    BY <1>1 DEF Tick, LogZkCompute, relayVars
  <2>2. now' \in 0 .. MaxTime
    <3>1. now \in 0 .. MaxTime /\ MaxTime \in Nat
      BY RelayAssumption DEF RelayInv, RelayTypes
    <3>2. now' = now \/ (now < MaxTime /\ now' = now + 1)
      BY <1>1 DEF Tick, LogZkCompute, relayVars
    <3> QED
      BY <3>1, <3>2
  <2>3. RelayTypes'
    BY <2>1, <2>2 DEF RelayInv, RelayTypes
  <2>4. VaultOK(vault) /\ Settled(vault, intents, books) /\ Fresh(links, scores)
    BY DEF RelayInv
  <2> QED
    BY <2>1, <2>3, <2>4 DEF RelayInv
<1>2. ASSUME RelayAllProfitable \/ \E i \in DOMAIN intents : RelayOne(i) PROVE Goal
  BY <1>2, ListKeeps
<1>3. ASSUME ExpireIntents PROVE Goal
  BY <1>3, ExpireIntentsKeeps
<1>4. ASSUME RelaySettles PROVE Goal
  BY <1>4, SettlesKeeps
<1>5. ASSUME \E u \in Users, t \in Tokens, a \in Amounts : CreateIntent(u, t, a) PROVE Goal
  BY <1>5, CreateKeeps
<1>6. ASSUME \E i \in DOMAIN intents : ClaimIntent(i) \/ ConfirmSettlement(i) \/ CancelIntent(i) PROVE Goal
  BY <1>6, CallOnIntent
<1>7. ASSUME \/ \E u \in Users, p \in Providers : LinkIdentity(u, p, "handle")
             \/ \E l \in DOMAIN links : VerifyLink(l) \/ RevokeLink(l)
      PROVE  Goal
  BY <1>7, RegistryKeeps
<1>8. ASSUME \/ LookAtVault \/ RelayRefused
             \/ \E a \in Transfers : Deposit(a) \/ Withdraw(a)
             \/ \E S \in SUBSET CreditIds(vault) : Reimburse(S) \/ Consume(S)
             \/ \E u \in Users, p \in 1 .. MaxProofs, w \in WorkScores : Issue(u, p, w)
      PROVE  Goal
  BY <1>8, VaultCallKeeps
<1> QED
  BY <1>1, <1>2, <1>3, <1>4, <1>5, <1>6, <1>7, <1>8 DEF RelayNext

-----------------------------------------------------------------------------
(* What the relay guarantees *)

\* RelayInv is an invariant of the relay.
THEOREM RelayInvariant == RelaySpec => []RelayInv
<1>1. RelayInit => RelayInv
  BY RelayStart
<1>2. RelayInv /\ [RelayNext]_relayVars => RelayInv'
  BY RelayStep
<1> QED
  BY <1>1, <1>2, PTL DEF RelaySpec

\* The fields keep their ranges, and what the relayer holds exists: a stale list
\* never names an intent that is not there.
THEOREM RelayTypeCorrect == RelaySpec => []RelayTypeOK
<1>1. ASSUME RelayInv PROVE RelayTypeOK
  <2>1. RelayTypes /\ VaultOK(vault) /\ Settled(vault, intents, books)
    BY <1>1 DEF RelayInv
  <2>2. vault \in Vault /\ vault.reserves \in 0 .. MaxReserves
    <3>1. vault \in Vault /\ vault.reserves <= MaxReserves /\ MaxReserves \in Nat
      BY <2>1, RelayAssumption DEF VaultOK, RelayTypes
    <3> QED
      BY <3>1, VaultFields
  <2>3. \A c \in CreditIds(vault) : /\ vault.credits[c].user \in Users
                                    /\ vault.credits[c].amount \in 1 .. MaxUserCredit
                                    /\ vault.credits[c].status \in CreditStatus
    <3>1. \A c \in CreditIds(vault) : vault.credits[c] \in Credit
      BY <2>2, VaultFields
    <3> QED
      BY <3>1 DEF Credit
  <2>4. \A i \in DOMAIN intents : intents[i] \in Intent
    BY <2>1 DEF RelayTypes
  <2>5. \A i \in DOMAIN intents : intents[i].sender \in Users /\ intents[i].status \in IntentStatus
    BY <2>4 DEF Intent
  <2>10. \A i \in DOMAIN intents : intents[i].credits \subseteq CreditIds(vault)
    BY <2>1 DEF RelayTypes, Unspent, Settled, RelayedOf
  <2>6. \A l \in DOMAIN links : links[l].user \in Users /\ links[l].status \in LinkStatus
    <3>1. \A l \in DOMAIN links : links[l] \in Link
      BY <2>1 DEF RelayTypes
    <3> QED
      BY <3>1 DEF Link
  <2>7. Range(batch) \subseteq DOMAIN intents
    BY <2>1 DEF RelayTypes, Range
  <2>8. books \in [relayed : 0 .. MaxIntents, profit : Nat, gas : Nat]
    <3>1. books \in Books /\ books.relayed = Cardinality(RelayedOf(intents))
      BY <2>1 DEF RelayTypes, Settled
    <3>2. Len(intents) \in Nat /\ DOMAIN intents = 1 .. Len(intents) /\ Len(intents) <= MaxIntents /\ MaxIntents \in Nat
      BY <2>1, RelayAssumption DEF RelayTypes
    <3>3. IsFiniteSet(1 .. Len(intents)) /\ Cardinality(1 .. Len(intents)) = Len(intents)
      <4> DEFINE n == Len(intents)
      <4>1. n \in Int /\ 1 \in Int /\ n \in Nat
        BY <3>2
      <4> HIDE DEF n
      <4>2. IsFiniteSet(1 .. n) /\ Cardinality(1 .. n) = IF 1 > n THEN 0 ELSE n - 1 + 1
        BY <4>1, FS_Interval
      <4>3. IsFiniteSet(1 .. n) /\ Cardinality(1 .. n) = n
        BY <4>1, <4>2
      <4> QED
        BY <4>3 DEF n
    <3>4. RelayedOf(intents) \subseteq 1 .. Len(intents)
      BY <3>2 DEF RelayedOf
    <3>5. Cardinality(RelayedOf(intents)) \in Nat /\ Cardinality(RelayedOf(intents)) <= Len(intents)
      BY <3>3, <3>4, FS_Subset, FS_CardinalityType
    <3>6. books.relayed \in 0 .. MaxIntents
      BY <3>1, <3>2, <3>5
    <3> QED
      BY <3>1, <3>6 DEF Books
  <2>9. now \in 0 .. MaxTime
    BY <2>1 DEF RelayTypes
  <2> QED
    BY <2>2, <2>3, <2>5, <2>6, <2>7, <2>8, <2>9, <2>10 DEF RelayTypeOK
<1> QED
  BY <1>1, RelayInvariant, PTL

\* The reserves cover one and a half times what is outstanding, and no user
\* holds more than the cap, after every order of deposits, withdrawals, issues,
\* expiries and reimbursements.
THEOREM CoverageHolds == RelaySpec => []CoverageKept
<1>1. RelayInv => CoverageKept
  BY DEF RelayInv, VaultOK, CoverageKept
<1> QED
  BY <1>1, RelayInvariant, PTL

\* Every intent the relayer settled was paid for with credits of its own
\* sender, each spent once, and the relayer's books are what they were worth.
THEOREM RelayerIsMadeWhole == RelaySpec => []RelayerMadeWhole
<1>1. ASSUME RelayInv PROVE RelayerMadeWhole
  <2>1. Settled(vault, intents, books)
    BY <1>1 DEF RelayInv
  <2>2. SpentOn(intents) = UNION {intents[i].credits : i \in {j \in DOMAIN intents : intents[j].relayer = Relayer}}
    BY DEF SpentOn, RelayedOf
  <2>3. RelayedOf(intents) = {j \in DOMAIN intents : intents[j].relayer = Relayer}
    BY DEF RelayedOf
  <2> QED
    BY <2>1, <2>2, <2>3 DEF Settled, RelayerMadeWhole
<1> QED
  BY <1>1, RelayInvariant, PTL

\* The relayer never settles above the limit that the sender's links give at
\* that moment, nor with a credit past its time: the cached score and the lazily
\* expired statuses are fresh when relay_intent reads them.
THEOREM LimitIsFresh == RelaySpec => SettledWithinLimit
<1> DEFINE Within == \A i \in DOMAIN intents :
                       intents'[i].relayer = Relayer /\ intents[i].relayer # Relayer
                         => /\ AmountUsd(i) <= LimitNow(intents[i].sender)
                            /\ \A c \in intents'[i].credits : now < vault.credits[c].expires
<1>1. ASSUME RelayInv, [RelayNext]_relayVars PROVE Within
  <2> SUFFICES ASSUME NEW i \in DOMAIN intents, intents'[i].relayer = Relayer, intents[i].relayer # Relayer
               PROVE  /\ AmountUsd(i) <= LimitNow(intents[i].sender)
                      /\ \A c \in intents'[i].credits : now < vault.credits[c].expires
    OBVIOUS
  <2>1. intents \in Seq(Intent) /\ Fresh(links, scores) /\ batch \in Seq(DOMAIN intents)
    BY <1>1 DEF RelayInv, RelayTypes
  <2>2. intents[i] \in Intent /\ intents[i].sender \in Users
    <3>1. intents[i] \in Intent
      BY <2>1
    <3> QED
      BY <3>1 DEF Intent
  <2>3. MaxTransfer(intents[i].sender) = LimitNow(intents[i].sender)
    <3> DEFINE u == intents[i].sender
    <3>1. OnlyPending(links, u) <=> \A l \in LinksOf(u) : links[l].status = "pending"
      BY DEF OnlyPending, LinksOf
    <3>2. IF OnlyPending(links, u) THEN scores[u] = NoScore
          ELSE scores[u] # NoScore /\ scores[u].maxTransfer = 1000 * Points(links, u)
      BY <2>1, <2>2 DEF Fresh
    <3> HIDE DEF u
    <3>3. MaxTransfer(u) = LimitNow(u)
      BY <3>1, <3>2 DEF MaxTransfer, LimitNow
    <3> QED
      BY <3>3 DEF u
  <2>4. RelaySettles /\ i = Head(batch)
    <3>1. ASSUME \/ Tick \/ LogZkCompute \/ LookAtVault \/ RelayAllProfitable \/ RelayRefused \/ UNCHANGED relayVars
                 \/ \E u \in Users : \/ \E p \in Providers : LinkIdentity(u, p, "handle")
                                     \/ \E p \in 1 .. MaxProofs, w \in WorkScores : Issue(u, p, w)
                 \/ \E l \in DOMAIN links : VerifyLink(l) \/ RevokeLink(l)
                 \/ \E a \in Transfers : Deposit(a) \/ Withdraw(a)
                 \/ \E S \in SUBSET CreditIds(vault) : Reimburse(S) \/ Consume(S)
                 \/ \E j \in DOMAIN intents : RelayOne(j)
          PROVE  FALSE
      <4>1. intents' = intents
        BY <3>1 DEF Tick, LogZkCompute, LookAtVault, RelayAllProfitable, RelayRefused, relayVars, LinkIdentity, Issue,
                    VerifyLink, RevokeLink, SetLink, Deposit, Withdraw, Reimburse, Consume, RelayOne, SetVault
      <4> QED
        BY <4>1
    <3>2. ASSUME ExpireIntents PROVE FALSE
      <4>1. intents'[i] = IF Overdue(i) THEN [intents[i] EXCEPT !.status = "expired"] ELSE intents[i]
        BY <3>2 DEF ExpireIntents, SetIntents
      <4> QED
        BY <4>1, <2>2 DEF Intent
    <3>3. ASSUME NEW u \in Users, NEW t \in Tokens, NEW a \in Amounts, CreateIntent(u, t, a) PROVE FALSE
      <4>1. PICK new : intents' = Append(intents, new)
        BY <3>3 DEF CreateIntent, SetIntents
      <4>2. intents'[i] = intents[i]
        BY <2>1, <4>1
      <4> QED
        BY <4>2
    <3>4. ASSUME NEW j \in DOMAIN intents, ClaimIntent(j) \/ ConfirmSettlement(j) \/ CancelIntent(j) PROVE FALSE
      <4>1. i # j => intents'[i] = intents[i]
        BY <2>1, <3>4 DEF ClaimIntent, ConfirmSettlement, CancelIntent, SetIntents
      <4>2. ASSUME i = j, ClaimIntent(j) \/ CancelIntent(j) PROVE intents'[i].relayer = intents[i].relayer
        BY <2>1, <2>2, <4>2 DEF ClaimIntent, CancelIntent, SetIntents, Intent
      <4>3. ASSUME i = j, ConfirmSettlement(j) PROVE intents'[i].relayer = Receiver
        BY <2>1, <2>2, <4>3 DEF ConfirmSettlement, SetIntents, Intent
      <4> QED
        BY <3>4, <4>1, <4>2, <4>3 DEF Relayer, Receiver
    <3>5. RelaySettles
      BY <1>1, <3>1, <3>2, <3>3, <3>4 DEF RelayNext
    <3>6. i # Head(batch) => intents'[i] = intents[i]
      BY <2>1, <3>5 DEF RelaySettles
    <3> QED
      BY <3>5, <3>6
  <2>5. AmountUsd(i) <= MaxTransfer(intents[i].sender)
    BY <2>4 DEF RelaySettles, WithinRiskLimit
  <2>6. \A c \in intents'[i].credits : now < vault.credits[c].expires
    <3> DEFINE looked == ExpireStaleCredits(vault, now)
               chosen == SelectCredits(looked, intents[i].sender, EstimateGas(i) + MinProfit)
    <3>1. intents'[i].credits = chosen
      BY <2>1, <2>2, <2>4 DEF RelaySettles, Intent
    <3>2. chosen \subseteq ActiveOf(looked, intents[i].sender)
      BY DEF SelectCredits
    <3>3. \A c \in Active(looked) : now < vault.credits[c].expires
      <4>1. VaultOK(vault) /\ now \in Nat
        BY <1>1, RelayAssumption DEF RelayInv, RelayTypes
      <4> QED
        BY <4>1, ActiveInTime
    <3> HIDE DEF looked, chosen
    <3> QED
      BY <3>1, <3>2, <3>3 DEF ActiveOf
  <2> QED
    BY <2>3, <2>5, <2>6
<1>2. RelaySpec => [][Within]_relayVars
  <2>1. RelayInv /\ [RelayNext]_relayVars => [Within]_relayVars
    BY <1>1
  <2> QED
    BY <2>1, RelayInvariant, PTL DEF RelaySpec
<1> QED
  BY <1>2 DEF SettledWithinLimit

\* An intent moves forward only, and into a settlement only inside its window.
THEOREM IntentsMoveForward == RelaySpec => StatusForward
<1> DEFINE Allowed(i) == LET from == intents[i].status  to == intents'[i].status IN
                         from # to =>
                           \/ from = "pending" /\ to = "expired" /\ now >= intents[i].expires
                           \/ from = "pending" /\ to \in {"settling", "claimed", "cancelled"} /\ now < intents[i].expires
                           \/ from = "settling" /\ to = "claimed"
           Forward == \A i \in DOMAIN intents : Allowed(i)
<1>1. ASSUME RelayInv, [RelayNext]_relayVars PROVE Forward
  <2> SUFFICES ASSUME NEW i \in DOMAIN intents PROVE Allowed(i)
    OBVIOUS
  <2>1. intents \in Seq(Intent) /\ batch \in Seq(DOMAIN intents)
    BY <1>1 DEF RelayInv, RelayTypes
  <2>2. intents[i] \in Intent
    BY <2>1
  <2>3. intents[i].expires \in Nat /\ now \in Nat
    BY <1>1, <2>2, RelayAssumption DEF Intent, RelayInv, RelayTypes
  <2>4. Claimable(i) => intents[i].status = "pending" /\ now < intents[i].expires
    BY <2>3 DEF Claimable, Expired
  <2>5. ASSUME intents'[i] = intents[i] PROVE Allowed(i)
    BY <2>5
  <2>6. ASSUME \/ Tick \/ LogZkCompute \/ LookAtVault \/ RelayAllProfitable \/ RelayRefused \/ UNCHANGED relayVars
               \/ \E u \in Users : \/ \E p \in Providers : LinkIdentity(u, p, "handle")
                                   \/ \E p \in 1 .. MaxProofs, w \in WorkScores : Issue(u, p, w)
               \/ \E l \in DOMAIN links : VerifyLink(l) \/ RevokeLink(l)
               \/ \E a \in Transfers : Deposit(a) \/ Withdraw(a)
               \/ \E S \in SUBSET CreditIds(vault) : Reimburse(S) \/ Consume(S)
               \/ \E j \in DOMAIN intents : RelayOne(j)
        PROVE  Allowed(i)
    <3>1. intents' = intents
      BY <2>6 DEF Tick, LogZkCompute, LookAtVault, RelayAllProfitable, RelayRefused, relayVars, LinkIdentity, Issue,
                  VerifyLink, RevokeLink, SetLink, Deposit, Withdraw, Reimburse, Consume, RelayOne, SetVault
    <3> QED
      BY <3>1
  <2>7. ASSUME ExpireIntents PROVE Allowed(i)
    <3>1. intents'[i] = IF Overdue(i) THEN [intents[i] EXCEPT !.status = "expired"] ELSE intents[i]
      BY <2>7 DEF ExpireIntents, SetIntents
    <3>2. CASE Overdue(i)
      <4>1. intents'[i].status = "expired" /\ intents[i].status = "pending" /\ now >= intents[i].expires
        BY <2>2, <3>1, <3>2 DEF Intent, Overdue, Expired
      <4> QED
        BY <4>1
    <3>3. CASE ~ Overdue(i)
      BY <2>5, <3>1, <3>3
    <3> QED
      BY <3>2, <3>3
  <2>8. ASSUME NEW u \in Users, NEW t \in Tokens, NEW a \in Amounts, CreateIntent(u, t, a) PROVE Allowed(i)
    <3>1. PICK new : intents' = Append(intents, new)
      BY <2>8 DEF CreateIntent, SetIntents
    <3>2. intents'[i] = intents[i]
      BY <2>1, <3>1
    <3> QED
      BY <2>5, <3>2
  <2>9. ASSUME NEW j \in DOMAIN intents, ClaimIntent(j) \/ ConfirmSettlement(j) \/ CancelIntent(j) PROVE Allowed(i)
    <3>1. i # j => intents'[i] = intents[i]
      BY <2>1, <2>9 DEF ClaimIntent, ConfirmSettlement, CancelIntent, SetIntents
    <3>2. ASSUME i = j PROVE Allowed(i)
      <4>1. ASSUME ClaimIntent(j) PROVE intents'[i].status = "settling" /\ Claimable(i)
        BY <2>1, <2>2, <3>2, <4>1 DEF ClaimIntent, SetIntents, Intent
      <4>2. ASSUME CancelIntent(j) PROVE intents'[i].status = "cancelled" /\ Claimable(i)
        BY <2>1, <2>2, <3>2, <4>2 DEF CancelIntent, SetIntents, Intent
      <4>3. ASSUME ConfirmSettlement(j) PROVE intents'[i].status = "claimed" /\ intents[i].status = "settling"
        BY <2>1, <2>2, <3>2, <4>3 DEF ConfirmSettlement, SetIntents, Intent
      <4> QED
        BY <2>4, <2>9, <4>1, <4>2, <4>3
    <3> QED
      BY <2>5, <3>1, <3>2
  <2>10. ASSUME RelaySettles PROVE Allowed(i)
    <3>1. i # Head(batch) => intents'[i] = intents[i]
      BY <2>1, <2>10 DEF RelaySettles
    <3>2. i = Head(batch) => intents'[i].status = "claimed" /\ Claimable(i)
      BY <2>1, <2>2, <2>10 DEF RelaySettles, Intent
    <3> QED
      BY <2>4, <2>5, <3>1, <3>2
  <2> HIDE DEF Allowed
  <2> QED
    BY <1>1, <2>6, <2>7, <2>8, <2>9, <2>10 DEF RelayNext
<1>2. RelaySpec => [][Forward]_relayVars
  <2>1. RelayInv /\ [RelayNext]_relayVars => [Forward]_relayVars
    BY <1>1
  <2> HIDE DEF Forward
  <2> QED
    BY <2>1, RelayInvariant, PTL DEF RelaySpec
<1> QED
  BY <1>2 DEF StatusForward

-----------------------------------------------------------------------------
(* The vault implements FeeLedger *)

Entry == [amount : Nat, state : {"open", "paid", "consumed", "expired"}]
StateOf(status) ==
  CASE status = "active" -> "open"
    [] status = "used" -> "paid"
    [] status = "consumed" -> "consumed"
    [] status = "expired" -> "expired"

\* What FeeLedger sees of a credit.
LEMMA LedgerEntry ==
  ASSUME NEW v \in Vault
  PROVE  /\ DOMAIN LedgerOf(v) = CreditIds(v)
         /\ LedgerOf(v) = [c \in CreditIds(v) |-> LedgerOf(v)[c]]
         /\ \A c \in CreditIds(v) :
              /\ LedgerOf(v)[c] = [amount |-> v.credits[c].amount, state |-> StateOf(v.credits[c].status)]
              /\ LedgerOf(v)[c].amount = v.credits[c].amount
              /\ LedgerOf(v)[c].state = StateOf(v.credits[c].status)
              /\ v.credits[c].status \in CreditStatus
<1>1. \A c \in CreditIds(v) : v.credits[c].status \in CreditStatus
  <2>1. \A c \in CreditIds(v) : v.credits[c] \in Credit
    BY VaultFields
  <2> QED
    BY <2>1 DEF Credit
<1> QED
  BY <1>1 DEF LedgerOf, StateOf

\* The states, told apart.
LEMMA LedgerStates ==
  /\ StateOf("active") = "open" /\ StateOf("used") = "paid"
  /\ StateOf("consumed") = "consumed" /\ StateOf("expired") = "expired"
  /\ \A s \in CreditStatus : StateOf(s) = "open" => s = "active"
BY DEF StateOf, CreditStatus

\* FeeLedger's open credits and totals are the vault's.
LEMMA LedgerReads ==
  ASSUME VaultOK(vault)
  PROVE  /\ Ledger!Open = Active(vault)
         /\ \A S : Ledger!Total(S) = AmountOf(vault, S)
<1>1. vault \in Vault
  BY DEF VaultOK
<1>2. /\ DOMAIN LedgerOf(vault) = CreditIds(vault)
      /\ \A c \in CreditIds(vault) : /\ LedgerOf(vault)[c].amount = vault.credits[c].amount
                                     /\ LedgerOf(vault)[c].state = StateOf(vault.credits[c].status)
                                     /\ vault.credits[c].status \in CreditStatus
  BY <1>1, LedgerEntry
<1>3. Ledger!Open = Active(vault)
  BY <1>2, LedgerStates DEF Ledger!Open, Active
<1> DEFINE f == [c \in DOMAIN LedgerOf(vault) |-> LedgerOf(vault)[c].amount]
           g == [c \in CreditIds(vault) |-> vault.credits[c].amount]
<1>4. f = g
  BY <1>2
<1>5. ASSUME NEW S PROVE Ledger!Total(S) = AmountOf(vault, S)
  <2>1. Ledger!Total(S) = SumFunctionOnSet(f, S) /\ AmountOf(vault, S) = SumFunctionOnSet(g, S)
    BY DEF Ledger!Total, AmountOf, SumFunctionOnSet, FoldFunctionOnSet, MapThenFoldSet,
           Ledger!SumFunctionOnSet, Ledger!FoldFunctionOnSet, Ledger!MapThenFoldSet
  <2> HIDE DEF f, g
  <2> QED
    BY <1>4, <2>1
<1> QED
  BY <1>3, <1>5

\* The ledger after credits were paid or lapsed.
LEMMA LedgerCloses ==
  ASSUME NEW v \in Vault, NEW w \in Vault, LaterVault(v, w), NEW paid, NEW lapsed, Closed(v, w, paid, lapsed)
  PROVE  LedgerOf(w) = [c \in DOMAIN LedgerOf(v) |->
                          IF c \in paid THEN [LedgerOf(v)[c] EXCEPT !.state = "paid"]
                          ELSE IF c \in lapsed THEN [LedgerOf(v)[c] EXCEPT !.state = "expired"] ELSE LedgerOf(v)[c]]
<1>1. CreditIds(w) = CreditIds(v)
  BY DEF Closed
<1>2. /\ DOMAIN LedgerOf(v) = CreditIds(v)
      /\ LedgerOf(w) = [c \in CreditIds(v) |-> LedgerOf(w)[c]]
  BY <1>1, LedgerEntry
<1>3. ASSUME NEW c \in CreditIds(v)
      PROVE  LedgerOf(w)[c] = IF c \in paid THEN [LedgerOf(v)[c] EXCEPT !.state = "paid"]
                              ELSE IF c \in lapsed THEN [LedgerOf(v)[c] EXCEPT !.state = "expired"] ELSE LedgerOf(v)[c]
  <2>1. /\ LedgerOf(w)[c] = [amount |-> w.credits[c].amount, state |-> StateOf(w.credits[c].status)]
        /\ LedgerOf(v)[c] = [amount |-> v.credits[c].amount, state |-> StateOf(v.credits[c].status)]
    BY <1>1, LedgerEntry
  <2>2. w.credits[c].amount = v.credits[c].amount
    BY DEF LaterVault
  <2>3. w.credits[c].status = IF c \in paid THEN "used" ELSE IF c \in lapsed THEN "expired" ELSE v.credits[c].status
    BY DEF Closed
  <2> QED
    BY <2>1, <2>2, <2>3, LedgerStates
<1> QED
  BY <1>2, <1>3

\* The ledger after credits were handed in for nothing.
LEMMA LedgerGivesUp ==
  ASSUME NEW v \in Vault, NEW w \in Vault, LaterVault(v, w), NEW given, GivesUp(v, w, given)
  PROVE  LedgerOf(w) = [c \in DOMAIN LedgerOf(v) |->
                          IF c \in given THEN [LedgerOf(v)[c] EXCEPT !.state = "consumed"] ELSE LedgerOf(v)[c]]
<1>1. CreditIds(w) = CreditIds(v)
  BY DEF GivesUp
<1>2. /\ DOMAIN LedgerOf(v) = CreditIds(v)
      /\ LedgerOf(w) = [c \in CreditIds(v) |-> LedgerOf(w)[c]]
  BY <1>1, LedgerEntry
<1>3. ASSUME NEW c \in CreditIds(v)
      PROVE  LedgerOf(w)[c] = IF c \in given THEN [LedgerOf(v)[c] EXCEPT !.state = "consumed"] ELSE LedgerOf(v)[c]
  <2>1. /\ LedgerOf(w)[c] = [amount |-> w.credits[c].amount, state |-> StateOf(w.credits[c].status)]
        /\ LedgerOf(v)[c] = [amount |-> v.credits[c].amount, state |-> StateOf(v.credits[c].status)]
    BY <1>1, LedgerEntry
  <2>2. w.credits[c].amount = v.credits[c].amount
    BY DEF LaterVault
  <2>3. w.credits[c].status = IF c \in given THEN "consumed" ELSE v.credits[c].status
    BY DEF GivesUp
  <2> QED
    BY <2>1, <2>2, <2>3, LedgerStates
<1> QED
  BY <1>2, <1>3

\* A sequence with one element more.
LEMMA IsAppend ==
  ASSUME NEW s \in Seq(Entry), NEW x \in Entry, NEW f, f = [c \in 1 .. Len(s) + 1 |-> f[c]],
         f[Len(s) + 1] = x, \A c \in 1 .. Len(s) : f[c] = s[c]
  PROVE  f = Append(s, x) /\ Len(f) = Len(s) + 1
<1> DEFINE n == Len(s) + 1
           g == Append(s, x)
<1>1. Len(s) \in Nat /\ n \in Nat
  OBVIOUS
<1>2. g \in Seq(Entry) /\ Len(g) = n /\ g[n] = x /\ \A c \in 1 .. Len(s) : g[c] = s[c]
  OBVIOUS
<1> HIDE DEF g
<1>3. g \in [1 .. n -> Entry]
  BY <1>1, <1>2
<1>4. \A c \in 1 .. n : f[c] = g[c]
  BY <1>1, <1>2
<1> HIDE DEF n
<1>5. f \in [1 .. n -> Entry]
  BY <1>3, <1>4 DEF n
<1>6. f = g
  BY <1>3, <1>4, <1>5
<1> QED
  BY <1>2, <1>6 DEF g, n

\* Every move of the vault is a step of FeeLedger, or none.
LEMMA LedgerStep ==
  ASSUME VaultOK(vault), VaultMoved(vault, vault')
  PROVE  [Ledger!Next]_(Ledger!vars)
<1>1. /\ VaultOK(vault') /\ LaterVault(vault, vault') /\ Moves(vault, vault')
      /\ vault \in Vault /\ vault' \in Vault
      /\ vault.reserves \in Nat /\ vault'.reserves \in Nat
  BY VaultFields DEF VaultMoved, VaultOK
<1>2. Ledger!Open = Active(vault) /\ \A S : Ledger!Total(S) = AmountOf(vault, S)
  BY LedgerReads
<1>3. ASSUME vault'.reserves > vault.reserves, vault'.credits = vault.credits PROVE Ledger!Next
  <2>1. LedgerOf(vault') = LedgerOf(vault)
    BY <1>3 DEF LedgerOf, CreditIds
  <2> QED
    BY <1>3, <2>1 DEF Ledger!Next, Ledger!Deposit
<1>4. ASSUME NEW paid \in SUBSET Active(vault), NEW lapsed \in SUBSET Active(vault), Closes(vault, vault', paid, lapsed)
      PROVE  Ledger!Next
  <2> DEFINE old == LedgerOf(vault)
             new == LedgerOf(vault')
  <2>1. /\ Closed(vault, vault', paid, lapsed) /\ paid \cap lapsed = {}
        /\ \/ vault'.reserves = vault.reserves - AmountOf(vault, paid)
           \/ /\ paid = {} /\ vault'.reserves < vault.reserves
              /\ Covered(vault'.reserves, AmountOf(vault, Active(vault) \ lapsed))
    BY <1>4 DEF Closes
  <2>2. new = [c \in DOMAIN old |->
                 IF c \in paid THEN [old[c] EXCEPT !.state = "paid"]
                 ELSE IF c \in lapsed THEN [old[c] EXCEPT !.state = "expired"] ELSE old[c]]
    <3> DEFINE w == vault'
    <3>1. w \in Vault /\ LaterVault(vault, w) /\ Closed(vault, w, paid, lapsed)
      BY <1>1, <2>1
    <3> HIDE DEF w
    <3>2. LedgerOf(w) = [c \in DOMAIN old |->
                 IF c \in paid THEN [old[c] EXCEPT !.state = "paid"]
                 ELSE IF c \in lapsed THEN [old[c] EXCEPT !.state = "expired"] ELSE old[c]]
      BY <1>1, <3>1, LedgerCloses
    <3> QED
      BY <3>2 DEF w
  <2>3. Ledger!Close(lapsed, "expired") =
          [c \in DOMAIN old |-> IF c \in lapsed THEN [old[c] EXCEPT !.state = "expired"] ELSE old[c]]
    BY DEF Ledger!Close
  <2> HIDE DEF old, new
  <2>4. paid = {} => new = Ledger!Close(lapsed, "expired")
    BY <2>2, <2>3
  <2>5. new = [c \in DOMAIN old |-> IF c \in paid THEN [old[c] EXCEPT !.state = "paid"]
                                    ELSE Ledger!Close(lapsed, "expired")[c]]
    BY <2>2, <2>3
  <2>6. AmountOf(vault, {}) = 0
    BY NothingPaid
  <2>7. CASE paid = {} /\ vault'.reserves = vault.reserves - AmountOf(vault, paid)
    <3>1. vault'.reserves = vault.reserves
      BY <1>1, <2>6, <2>7
    <3>2. Ledger!Lapse(lapsed)
      BY <2>4, <2>7, <3>1 DEF Ledger!Lapse, new
    <3> QED
      BY <1>2, <3>2 DEF Ledger!Next
  <2>8. CASE paid # {}
    <3>1. vault'.reserves = vault.reserves - AmountOf(vault, paid)
      BY <2>1, <2>8
    <3>2. Ledger!Pay(paid, lapsed)
      BY <1>1, <1>2, <2>1, <2>5, <2>8, <3>1 DEF Ledger!Pay, old, new
    <3> QED
      BY <1>2, <3>2 DEF Ledger!Next
  <2>9. CASE /\ paid = {} /\ vault'.reserves < vault.reserves
             /\ Covered(vault'.reserves, AmountOf(vault, Active(vault) \ lapsed))
    <3>1. Ledger!Backed(vault'.reserves, AmountOf(vault, Active(vault) \ lapsed))
      BY <1>1, <2>9 DEF Covered, Ledger!Backed
    <3>2. Ledger!Withdraw(lapsed)
      BY <1>2, <2>4, <2>9, <3>1 DEF Ledger!Withdraw, new
    <3> QED
      BY <1>2, <3>2 DEF Ledger!Next
  <2> QED
    BY <2>1, <2>7, <2>8, <2>9
<1>5. ASSUME NEW lapsed \in SUBSET Active(vault), NEW credit \in Credit, Issues(vault, vault', lapsed, credit)
      PROVE  Ledger!Next
  <2> DEFINE old == LedgerOf(vault)
             new == LedgerOf(vault')
             entry == [amount |-> credit.amount, state |-> "open"]
  <2>1. PICK e \in Vault : /\ Closed(vault, e, {}, lapsed) /\ LaterVault(vault, e) /\ VaultOK(e)
                           /\ e.reserves = vault.reserves /\ vault'.reserves = vault.reserves
                           /\ vault'.credits = Append(e.credits, credit) /\ credit.status = "active"
                           /\ Covered(vault.reserves, Outstanding(e) + credit.amount)
    BY <1>5 DEF Issues
  <2>2. LedgerOf(e) = Ledger!Close(lapsed, "expired")
    <3>1. LedgerOf(e) = [c \in DOMAIN old |->
                 IF c \in {} THEN [old[c] EXCEPT !.state = "paid"]
                 ELSE IF c \in lapsed THEN [old[c] EXCEPT !.state = "expired"] ELSE old[c]]
      BY <1>1, <2>1, LedgerCloses
    <3> QED
      BY <3>1 DEF Ledger!Close
  <2>3. credit.amount \in Nat /\ credit.amount > 0 /\ e.credits \in Seq(Credit) /\ Len(e.credits) \in Nat
        /\ CreditIds(e) = 1 .. Len(e.credits)
    <3>1. credit.amount \in Nat /\ credit.amount > 0
      BY VaultAssumption DEF Credit
    <3> QED
      BY <3>1, VaultFields
  <2>4. LedgerOf(e) \in Seq(Entry) /\ Len(LedgerOf(e)) = Len(e.credits)
    <3> DEFINE le == LedgerOf(e)
    <3>1. /\ le = [c \in 1 .. Len(e.credits) |-> le[c]]
          /\ \A c \in 1 .. Len(e.credits) : /\ le[c] = [amount |-> e.credits[c].amount, state |-> StateOf(e.credits[c].status)]
                                            /\ e.credits[c].status \in CreditStatus /\ e.credits[c].amount \in Nat
      BY <2>3, LedgerEntry, VaultFields
    <3>2. \A s \in CreditStatus : StateOf(s) \in {"open", "paid", "consumed", "expired"}
      BY DEF StateOf, CreditStatus
    <3> HIDE DEF le
    <3>3. \A c \in 1 .. Len(e.credits) : le[c] \in Entry
      <4> SUFFICES ASSUME NEW c \in 1 .. Len(e.credits) PROVE le[c] \in Entry
        OBVIOUS
      <4> DEFINE a == e.credits[c].amount
                 st == StateOf(e.credits[c].status)
      <4>1. le[c] = [amount |-> a, state |-> st] /\ a \in Nat /\ st \in {"open", "paid", "consumed", "expired"}
        BY <3>1, <3>2
      <4> HIDE DEF a, st
      <4> QED
        BY <4>1 DEF Entry
    <3>4. le \in [1 .. Len(e.credits) -> Entry]
      BY <3>1, <3>3
    <3>5. le \in Seq(Entry) /\ Len(le) = Len(e.credits)
      BY <2>3, <3>4
    <3> QED
      BY <3>5 DEF le
  <2>5. /\ Len(vault'.credits) = Len(e.credits) + 1 /\ vault'.credits[Len(e.credits) + 1] = credit
        /\ \A c \in 1 .. Len(e.credits) : vault'.credits[c] = e.credits[c]
        /\ CreditIds(vault') = 1 .. Len(e.credits) + 1
    <3> DEFINE w == vault'
    <3>1. w \in Vault /\ w.credits = Append(e.credits, credit)
      BY <1>1, <2>1
    <3> HIDE DEF w
    <3>2. CreditIds(w) = 1 .. Len(w.credits)
      BY <3>1, VaultFields
    <3>3. /\ Len(w.credits) = Len(e.credits) + 1 /\ w.credits[Len(e.credits) + 1] = credit
          /\ \A c \in 1 .. Len(e.credits) : w.credits[c] = e.credits[c]
      BY <2>3, <3>1
    <3> QED
      BY <3>2, <3>3 DEF w
  <2>6. /\ new = [c \in 1 .. Len(e.credits) + 1 |-> new[c]]
        /\ new[Len(e.credits) + 1] = entry
        /\ \A c \in 1 .. Len(e.credits) : new[c] = LedgerOf(e)[c]
    <3> DEFINE w == vault'
               n == Len(e.credits) + 1
    <3>1. /\ w \in Vault /\ CreditIds(w) = 1 .. n /\ n \in 1 .. n /\ w.credits[n] = credit
          /\ \A c \in 1 .. Len(e.credits) : c \in CreditIds(w) /\ c \in CreditIds(e) /\ w.credits[c] = e.credits[c]
      BY <1>1, <2>3, <2>5
    <3> HIDE DEF w, n
    <3>2. LedgerOf(w) = [c \in 1 .. n |-> LedgerOf(w)[c]]
      BY <3>1, LedgerEntry
    <3>3. LedgerOf(w)[n] = entry
      <4>1. LedgerOf(w)[n] = [amount |-> w.credits[n].amount, state |-> StateOf(w.credits[n].status)]
        BY <3>1, LedgerEntry
      <4> QED
        BY <2>1, <3>1, <4>1, LedgerStates
    <3>4. ASSUME NEW c \in 1 .. Len(e.credits) PROVE LedgerOf(w)[c] = LedgerOf(e)[c]
      <4>1. /\ LedgerOf(w)[c] = [amount |-> w.credits[c].amount, state |-> StateOf(w.credits[c].status)]
            /\ LedgerOf(e)[c] = [amount |-> e.credits[c].amount, state |-> StateOf(e.credits[c].status)]
        BY <3>1, LedgerEntry
      <4> QED
        BY <3>1, <4>1
    <3> QED
      BY <3>2, <3>3, <3>4 DEF w, n
  <2>7. new = Append(LedgerOf(e), entry) /\ Len(new) = Len(e.credits) + 1
    <3> DEFINE le == LedgerOf(e)
    <3>1. /\ le \in Seq(Entry) /\ Len(le) = Len(e.credits) /\ Len(le) \in Nat
          /\ new = [c \in 1 .. Len(le) + 1 |-> new[c]]
          /\ new[Len(le) + 1] = entry /\ \A c \in 1 .. Len(le) : new[c] = le[c]
      BY <2>3, <2>4, <2>6
    <3>2. entry \in Entry
      BY <2>3 DEF Entry
    <3> HIDE DEF le, new, entry
    <3>3. new = Append(le, entry) /\ Len(new) = Len(le) + 1
      BY <3>1, <3>2, IsAppend
    <3> QED
      BY <3>1, <3>3 DEF le
  <2>8. Outstanding(e) = AmountOf(vault, Active(vault) \ lapsed)
    <3>1. Active(e) = Active(vault) \ lapsed
      BY <2>1 DEF Closed, Active
    <3>2. Active(e) \in SUBSET (CreditIds(e) \cap CreditIds(vault)) /\ \A c \in Active(e) : e.credits[c].amount = vault.credits[c].amount
      BY <2>1, ActiveIds DEF LaterVault, Closed
    <3> QED
      BY <1>1, <3>1, <3>2, AmountAgree DEF Outstanding
  <2>9. Ledger!Backed(vault.reserves, Ledger!Total(Ledger!Open \ lapsed) + credit.amount)
    <3>1. Outstanding(e) \in Nat /\ Ledger!Total(Ledger!Open \ lapsed) = Outstanding(e)
      BY <1>2, <2>1, <2>8, ActiveIds
    <3> QED
      BY <1>1, <2>1, <2>3, <3>1 DEF Covered, Ledger!Backed
  <2>10. new[Len(new)].amount = credit.amount
    BY <2>6, <2>7
  <2>11. Len(new) > Len(old)
    <3>1. Len(old) = Len(vault.credits) /\ Len(vault.credits) = Len(e.credits)
      <4>1. DOMAIN old = 1 .. Len(vault.credits) /\ Len(vault.credits) \in Nat
        BY <1>1, LedgerEntry, VaultFields
      <4>2. old = [c \in 1 .. Len(vault.credits) |-> old[c]]
        BY <1>1, LedgerEntry, VaultFields
      <4> HIDE DEF old
      <4>3. Len(old) = Len(vault.credits)
        BY <4>1, <4>2
      <4> QED
        BY <2>1, <4>3 DEF Closed
    <3> QED
      BY <2>3, <2>7, <3>1
  <2>12. Ledger!Issue(lapsed, new[Len(new)].amount)
    BY <2>1, <2>2, <2>3, <2>7, <2>9, <2>10 DEF Ledger!Issue
  <2> QED
    BY <1>2, <2>11, <2>12 DEF Ledger!Next
<1>6. ASSUME NEW given \in SUBSET Active(vault), GivesUp(vault, vault', given) PROVE Ledger!Next
  <2> DEFINE w == vault'
  <2>1. w \in Vault /\ LaterVault(vault, w) /\ GivesUp(vault, w, given)
    BY <1>1, <1>6
  <2>2. w.reserves = vault.reserves
    BY <1>6 DEF GivesUp
  <2> HIDE DEF w
  <2>3. LedgerOf(w) = Ledger!Close(given, "consumed")
    BY <1>1, <2>1, LedgerGivesUp DEF Ledger!Close
  <2>4. Ledger!HandIn(given)
    BY <2>2, <2>3 DEF Ledger!HandIn, w
  <2> QED
    BY <1>2, <2>4 DEF Ledger!Next
<1> QED
  BY <1>1, <1>3, <1>4, <1>5, <1>6 DEF Moves

\* The vault, whatever calls are made on it, is a fee ledger: a reimbursement
\* never uses a credit up without paying it in full out of the reserves in the
\* same step, and only consume_credits called by itself ends a credit for nothing.
THEOREM VaultIsFeeLedger == RelaySpec => ImplementsFeeLedger
<1>1. RelayInit => Ledger!Init
  <2> SUFFICES ASSUME RelayInit PROVE Ledger!Init
    OBVIOUS
  <2>1. vault.reserves = InitialSol /\ vault.credits = <<>> /\ InitialSol \in Nat
    BY RelayAssumption DEF RelayInit, EmptyVault, VaultOf
  <2>2. LedgerOf(vault) = <<>>
    BY <2>1 DEF LedgerOf, CreditIds
  <2> QED
    BY <2>1, <2>2 DEF Ledger!Init
<1>2. ASSUME RelayInv, [RelayNext]_relayVars PROVE [Ledger!Next]_(Ledger!vars)
  <2>1. VaultOK(vault) /\ (vault' = vault \/ VaultMoved(vault, vault'))
    BY <1>2, RelayStep DEF RelayInv
  <2>2. CASE vault' = vault
    BY <2>2 DEF Ledger!vars, LedgerOf
  <2> QED
    BY <2>1, <2>2, LedgerStep
<1> QED
  BY <1>1, <1>2, RelayInvariant, PTL DEF RelaySpec, ImplementsFeeLedger, Ledger!Spec

-----------------------------------------------------------------------------
(* Governance *)

VoteRecord == [voter : Voters, choice : VoteChoice, weight : Nat]
Votes == Seq(VoteRecord)
Proposal == [status : ProposalStatus, votes : Votes, ends : Nat, proofs : SUBSET Nat]

CastFor(votes, choice) == {k \in DOMAIN votes : votes[k].choice = choice}
TallyOf(votes, choice) == SumFunctionOnSet([k \in DOMAIN votes |-> votes[k].weight], CastFor(votes, choice))

\* Nobody votes twice.
OneVoteEach(votes) == \A k, m \in DOMAIN votes : k # m => votes[k].voter # votes[m].voter

\* The quorum, and three fifths of the weight that took sides.
Carried(votes) ==
  LET yes == TallyOf(votes, "for")  no == TallyOf(votes, "against") IN
  /\ yes + no + TallyOf(votes, "abstain") >= QuorumTenths
  /\ yes > 0 /\ 5 * yes >= 3 * (yes + no)

\* A proposal was decided as its votes say.
ProposalOK(p) ==
  /\ p \in Proposal
  /\ OneVoteEach(p.votes)
  /\ p.status \in Decided => (p.status # "rejected" <=> Carried(p.votes))

GovInv ==
  /\ clock \in 0 .. MaxClock /\ entries \in 0 .. MaxBook
  /\ power \in [Voters -> Powers \cup {0}]
  /\ proposals \in Seq(Proposal)
  /\ \A i \in DOMAIN proposals : ProposalOK(proposals[i])

\* The weights add up to numbers.
LEMMA TallyType ==
  ASSUME NEW votes \in Votes
  PROVE  \A choice : TallyOf(votes, choice) \in Nat
<1> SUFFICES ASSUME NEW choice PROVE TallyOf(votes, choice) \in Nat
  OBVIOUS
<1> DEFINE S == CastFor(votes, choice)
           f == [k \in DOMAIN votes |-> votes[k].weight]
<1>1. votes \in Seq(VoteRecord) /\ Len(votes) \in Nat /\ DOMAIN votes = 1 .. Len(votes)
  BY DEF Votes
<1>2. S \subseteq DOMAIN votes
  BY DEF CastFor
<1>3. IsFiniteSet(S)
  <2>1. IsFiniteSet(DOMAIN votes)
    BY <1>1, FS_Interval
  <2> QED
    BY <1>2, <2>1, FS_Subset
<1>4. \A k \in S : f[k] \in Nat
  <2>1. \A k \in S : votes[k] \in VoteRecord
    BY <1>1, <1>2
  <2> HIDE DEF S
  <2> QED
    BY <1>2, <2>1 DEF VoteRecord
<1>5. TallyOf(votes, choice) = SumFunctionOnSet(f, S)
  BY DEF TallyOf
<1> HIDE DEF S, f
<1> QED
  BY <1>3, <1>4, <1>5, SumNat

\* The decision of is_approved is the one the votes carry, when it does not raise.
LEMMA ApprovedIsCarried ==
  ASSUME NEW i \in DOMAIN proposals, proposals[i] \in Proposal, ~ Raises(i)
  PROVE  IsApproved(i) <=> Carried(proposals[i].votes)
<1> DEFINE votes == proposals[i].votes
           yes == TallyOf(votes, "for")
           no == TallyOf(votes, "against")
           none == TallyOf(votes, "abstain")
<1>1. Tally(i, "for") = yes /\ Tally(i, "against") = no /\ Tally(i, "abstain") = none
  BY DEF Tally, TallyOf, CastFor
<1>2. votes \in Votes
  BY DEF Proposal
<1>3. yes \in Nat /\ no \in Nat /\ none \in Nat
  BY <1>2, TallyType
<1>4. Carried(votes) <=> yes + no + none >= QuorumTenths /\ yes > 0 /\ 5 * yes >= 3 * (yes + no)
  BY DEF Carried
<1>5. IsApproved(i) <=> yes + no + none >= QuorumTenths /\ 10 * yes >= 6 * (yes + no)
  BY <1>1 DEF IsApproved, Quorate
<1>6. ~ (yes + no + none >= QuorumTenths /\ yes + no = 0)
  BY <1>1 DEF Raises, Quorate
<1> HIDE DEF votes, yes, no, none
<1>7. IsApproved(i) <=> Carried(votes)
  BY <1>3, <1>4, <1>5, <1>6
<1> QED
  BY <1>7 DEF votes

\* With one vote each, counting every voter once counts every vote.
LEMMA WeightIsTally ==
  ASSUME NEW i \in DOMAIN proposals, proposals[i] \in Proposal, OneVoteEach(proposals[i].votes), NEW choice
  PROVE  Weight(i, choice) = TallyOf(proposals[i].votes, choice)
<1> DEFINE votes == proposals[i].votes
<1>1. votes \in Seq(VoteRecord) /\ Len(votes) \in Nat /\ DOMAIN votes = 1 .. Len(votes)
  BY DEF Proposal, Votes
<1>2. \A k \in DOMAIN votes : \A m \in 1 .. k - 1 : m \in DOMAIN votes /\ m # k
  BY <1>1
<1>3. SideOf(i, choice) = CastFor(votes, choice)
  BY <1>2 DEF SideOf, CastFor, OneVoteEach
<1> QED
  BY <1>3 DEF Weight, TallyOf

\* A proposal rewritten by start_voting, finalize or execute.
LEMMA StatusSet ==
  ASSUME NEW p \in Proposal, NEW st \in ProposalStatus, NEW t \in Nat
  PROVE  /\ [p EXCEPT !.status = st] \in Proposal
         /\ [p EXCEPT !.status = st].status = st /\ [p EXCEPT !.status = st].votes = p.votes
         /\ [p EXCEPT !.status = st, !.ends = t] \in Proposal
         /\ [p EXCEPT !.status = st, !.ends = t].status = st /\ [p EXCEPT !.status = st, !.ends = t].votes = p.votes
BY DEF Proposal

\* A vote added to a proposal.
LEMMA VotesSet ==
  ASSUME NEW p \in Proposal, NEW vs \in Votes
  PROVE  /\ [p EXCEPT !.votes = vs] \in Proposal
         /\ [p EXCEPT !.votes = vs].status = p.status /\ [p EXCEPT !.votes = vs].votes = vs
BY DEF Proposal

\* One proposal rewritten.
LEMMA OneProposal ==
  ASSUME GovInv, NEW i \in DOMAIN proposals, NEW q, ProposalOK(q), proposals' = [proposals EXCEPT ![i] = q],
         clock' = clock, power' = power, entries' \in 0 .. MaxBook
  PROVE  GovInv'
<1>1. proposals \in Seq(Proposal) /\ q \in Proposal
  BY DEF GovInv, ProposalOK
<1>2. proposals' \in Seq(Proposal) /\ DOMAIN proposals' = DOMAIN proposals
  BY <1>1
<1>3. \A j \in DOMAIN proposals : proposals'[j] = IF j = i THEN q ELSE proposals[j]
  BY <1>1
<1>4. \A j \in DOMAIN proposals' : ProposalOK(proposals'[j])
  BY <1>2, <1>3 DEF GovInv
<1> QED
  BY <1>2, <1>4 DEF GovInv

\* Logging an action keeps the book within its bound.
LEMMA BookGrows ==
  ASSUME GovInv, Log
  PROVE  entries' \in 0 .. MaxBook
<1>1. MaxBook \in Nat /\ entries \in 0 .. MaxBook
  BY GovernanceAssumption DEF GovInv
<1> QED
  BY <1>1 DEF Log

\* Every step of the governance keeps its invariant.
LEMMA GovStep ==
  ASSUME GovInv, [GovNext]_govVars
  PROVE  GovInv'
<1>1. /\ clock \in 0 .. MaxClock /\ entries \in 0 .. MaxBook /\ MaxClock \in Nat /\ MaxBook \in Nat /\ VotingWindow \in Nat
      /\ power \in [Voters -> Powers \cup {0}] /\ proposals \in Seq(Proposal)
  BY GovernanceAssumption DEF GovInv
<1>2. ASSUME UNCHANGED proposals, clock' \in 0 .. MaxClock, entries' \in 0 .. MaxBook,
             power' \in [Voters -> Powers \cup {0}]
      PROVE  GovInv'
  BY <1>2 DEF GovInv
<1>3. ASSUME GovTick \/ OthersLog \/ UNCHANGED govVars PROVE GovInv'
  <2>1. UNCHANGED <<proposals, power>>
    BY <1>3 DEF GovTick, OthersLog, govVars
  <2>2. clock' = clock \/ (clock < MaxClock /\ clock' = clock + 1)
    BY <1>3 DEF GovTick, OthersLog, govVars
  <2>3. entries' = entries \/ (entries < MaxBook /\ entries' = entries + 1)
    BY <1>3 DEF GovTick, OthersLog, govVars
  <2>4. clock' \in 0 .. MaxClock /\ entries' \in 0 .. MaxBook
    BY <1>1, <2>2, <2>3
  <2> QED
    BY <1>1, <1>2, <2>1, <2>4
<1>4. ASSUME NEW v \in Voters, NEW p \in Powers, SetVotingPower(v, p) PROVE GovInv'
  BY <1>1, <1>2, <1>4 DEF SetVotingPower
<1>5. ASSUME NEW proofs \in SUBSET (1 .. entries), Propose(proofs) PROVE GovInv'
  <2> DEFINE p == [status |-> "review", votes |-> <<>>, ends |-> 0, proofs |-> proofs]
  <2>1. /\ proposals' = Append(proposals, p) /\ UNCHANGED <<clock, power>> /\ entries' \in 0 .. MaxBook
    BY <1>5, BookGrows DEF Propose
  <2>2. p \in Proposal
    <3>1. <<>> \in Votes /\ "review" \in ProposalStatus /\ proofs \in SUBSET Nat
      BY <1>1 DEF Votes, ProposalStatus
    <3> QED
      BY <3>1 DEF Proposal
  <2>3. ProposalOK(p)
    BY <2>2 DEF ProposalOK, OneVoteEach, Decided
  <2> HIDE DEF p
  <2>4. /\ proposals' \in Seq(Proposal) /\ Len(proposals) \in Nat
        /\ DOMAIN proposals = 1 .. Len(proposals) /\ DOMAIN proposals' = 1 .. Len(proposals) + 1
        /\ proposals'[Len(proposals) + 1] = p
        /\ \A j \in 1 .. Len(proposals) : proposals'[j] = proposals[j]
    BY <1>1, <2>1, <2>2
  <2>5. \A j \in DOMAIN proposals' : j \in DOMAIN proposals \/ j = Len(proposals) + 1
    BY <2>4
  <2>6. \A j \in DOMAIN proposals' : ProposalOK(proposals'[j])
    BY <2>3, <2>4, <2>5 DEF GovInv
  <2> QED
    BY <2>1, <2>4, <2>6 DEF GovInv
<1>6. ASSUME NEW i \in DOMAIN proposals, StartVoting(i) PROVE GovInv'
  <2> DEFINE p == proposals[i]
             t == clock + VotingWindow
             q == [p EXCEPT !.status = "voting", !.ends = t]
  <2>1. proposals' = [proposals EXCEPT ![i] = q] /\ UNCHANGED <<clock, entries, power>>
    BY <1>6 DEF StartVoting
  <2>2. ProposalOK(p) /\ p \in Proposal /\ t \in Nat /\ "voting" \in ProposalStatus
    BY <1>1 DEF GovInv, ProposalStatus, ProposalOK
  <2> HIDE DEF p, t
  <2>3. q \in Proposal /\ q.status = "voting" /\ q.votes = p.votes
    BY <2>2 DEF Proposal
  <2> HIDE DEF q
  <2>4. ProposalOK(q)
    BY <2>2, <2>3 DEF ProposalOK, Decided
  <2> QED
    BY <1>1, <2>1, <2>4, OneProposal
<1>7. ASSUME NEW i \in DOMAIN proposals, Finalize(i) PROVE GovInv'
  <2> DEFINE p == proposals[i]
             st == IF IsApproved(i) THEN "approved" ELSE "rejected"
             q == [p EXCEPT !.status = st]
  <2>1. /\ proposals' = [proposals EXCEPT ![i] = q] /\ UNCHANGED <<clock, power>> /\ entries' \in 0 .. MaxBook
        /\ ~ Raises(i)
    BY <1>7, BookGrows DEF Finalize
  <2>2. ProposalOK(p) /\ p \in Proposal /\ st \in ProposalStatus
    BY DEF GovInv, ProposalStatus, ProposalOK
  <2>3. IsApproved(i) <=> Carried(p.votes)
    BY <2>1, <2>2, ApprovedIsCarried
  <2>4. st \in Decided /\ (st # "rejected" <=> Carried(p.votes))
    BY <2>3 DEF Decided
  <2> HIDE DEF p, st
  <2>5. q \in Proposal /\ q.status = st /\ q.votes = p.votes
    <3>1. 0 \in Nat
      OBVIOUS
    <3> QED
      BY <2>2, <3>1, StatusSet
  <2> HIDE DEF q
  <2>6. ProposalOK(q)
    BY <2>2, <2>4, <2>5 DEF ProposalOK
  <2> QED
    BY <1>1, <2>1, <2>6, OneProposal
<1>8. ASSUME NEW i \in DOMAIN proposals, Execute(i) PROVE GovInv'
  <2> DEFINE p == proposals[i]
             q == [p EXCEPT !.status = "executed"]
  <2>1. /\ proposals' = [proposals EXCEPT ![i] = q] /\ UNCHANGED <<clock, power>> /\ entries' \in 0 .. MaxBook
        /\ p.status = "approved"
    BY <1>8, BookGrows DEF Execute
  <2>2. ProposalOK(p) /\ p \in Proposal /\ "executed" \in ProposalStatus
    BY DEF GovInv, ProposalStatus, ProposalOK
  <2> HIDE DEF p
  <2>3. q \in Proposal /\ q.status = "executed" /\ q.votes = p.votes
    <3>1. 0 \in Nat
      OBVIOUS
    <3> QED
      BY <2>2, <3>1, StatusSet
  <2> HIDE DEF q
  <2>4. ProposalOK(q)
    BY <2>1, <2>2, <2>3 DEF ProposalOK, Decided
  <2> QED
    BY <1>1, <2>1, <2>4, OneProposal
<1>9. ASSUME NEW i \in DOMAIN proposals, NEW v \in Voters, NEW c \in VoteChoice, Vote(i, v, c) PROVE GovInv'
  <2> DEFINE p == proposals[i]
             new == [voter |-> v, choice |-> c, weight |-> power[v]]
             vs == Append(p.votes, new)
             q == [p EXCEPT !.votes = vs]
  <2>1. /\ proposals' = [proposals EXCEPT ![i] = q] /\ UNCHANGED <<clock, power>> /\ entries' \in 0 .. MaxBook
        /\ p.status = "voting" /\ \A k \in DOMAIN p.votes : p.votes[k].voter # v
    BY <1>9, BookGrows DEF Vote, OpenForVotes, HasVoted
  <2>2. ProposalOK(p) /\ p \in Proposal
    BY DEF GovInv, ProposalOK
  <2>3. new \in VoteRecord /\ new.voter = v
    <3>1. power[v] \in Nat
      <4> DEFINE x == power[v]
      <4>1. x \in Powers \cup {0}
        BY <1>1
      <4> HIDE DEF x
      <4>2. x \in Nat
        BY ONLY <4>1, GovernanceAssumption
      <4> QED
        BY <4>2 DEF x
    <3> QED
      BY <3>1 DEF VoteRecord
  <2> HIDE DEF p, new
  <2>4. p.votes \in Seq(VoteRecord) /\ OneVoteEach(p.votes)
    BY <2>2 DEF ProposalOK, Proposal, Votes
  <2>5. /\ vs \in Seq(VoteRecord) /\ Len(p.votes) \in Nat /\ DOMAIN p.votes = 1 .. Len(p.votes)
        /\ DOMAIN vs = 1 .. Len(p.votes) + 1 /\ vs[Len(p.votes) + 1] = new
        /\ \A k \in 1 .. Len(p.votes) : vs[k] = p.votes[k]
    BY <2>3, <2>4
  <2> HIDE DEF vs
  <2>6. /\ \A k \in DOMAIN vs : k \in DOMAIN p.votes \/ k = Len(p.votes) + 1
        /\ \A k \in DOMAIN p.votes : vs[k] = p.votes[k] /\ vs[k].voter # v
    BY <2>1, <2>5
  <2>7. OneVoteEach(vs)
    <3> SUFFICES ASSUME NEW k \in DOMAIN vs, NEW m \in DOMAIN vs, k # m PROVE vs[k].voter # vs[m].voter
      BY DEF OneVoteEach
    <3>1. CASE k \in DOMAIN p.votes /\ m \in DOMAIN p.votes
      BY <2>4, <2>6, <3>1 DEF OneVoteEach
    <3>2. CASE k = Len(p.votes) + 1 /\ m \in DOMAIN p.votes
      BY <2>3, <2>5, <2>6, <3>2
    <3>3. CASE m = Len(p.votes) + 1 /\ k \in DOMAIN p.votes
      BY <2>3, <2>5, <2>6, <3>3
    <3> QED
      BY <2>6, <3>1, <3>2, <3>3
  <2>8. q \in Proposal /\ q.status = p.status /\ q.votes = vs
    <3>1. vs \in Votes
      BY <2>5 DEF Votes
    <3> QED
      BY <2>2, <3>1, VotesSet
  <2> HIDE DEF q
  <2>9. ProposalOK(q)
    BY <2>1, <2>7, <2>8 DEF ProposalOK, Decided
  <2> QED
    BY <1>1, <2>1, <2>9, OneProposal
<1>10. ASSUME NEW proofs \in {{}} \cup {{p} : p \in 1 .. entries}, Propose(proofs) PROVE GovInv'
  <2>1. proofs \in SUBSET (1 .. entries)
    OBVIOUS
  <2> QED
    BY <1>5, <1>10, <2>1
<1> QED
  BY <1>3, <1>4, <1>6, <1>7, <1>8, <1>9, <1>10 DEF GovNext

\* GovInv is an invariant of the governance.
THEOREM GovernanceInvariant == GovSpec => []GovInv
<1>1. GovInit => GovInv
  <2> SUFFICES ASSUME GovInit PROVE GovInv
    OBVIOUS
  <2>1. 0 \in 0 .. MaxClock /\ 0 \in 0 .. MaxBook
    BY GovernanceAssumption
  <2>2. proposals = <<>> /\ <<>> \in Seq(Proposal) /\ DOMAIN <<>> = {}
    BY DEF GovInit
  <2> QED
    BY <2>1, <2>2 DEF GovInit, GovInv
<1>2. GovInv /\ [GovNext]_govVars => GovInv'
  BY GovStep
<1> QED
  BY <1>1, <1>2, PTL DEF GovSpec

\* The clock, the length of the book, the powers and the statuses keep their ranges.
THEOREM GovernanceTypes == GovSpec => []GovTypeOK
<1>1. ASSUME GovInv PROVE GovTypeOK
  <2>1. \A i \in DOMAIN proposals : proposals[i] \in Proposal
    BY <1>1 DEF GovInv, ProposalOK
  <2>2. \A i \in DOMAIN proposals : proposals[i].status \in ProposalStatus
    BY <2>1 DEF Proposal
  <2> QED
    BY <1>1, <2>2 DEF GovInv, GovTypeOK
<1> QED
  BY <1>1, GovernanceInvariant, PTL

\* A decided proposal is approved exactly when it has the quorum and three
\* fifths of the weight that took sides, every voter counted once.
THEOREM VotesDecide == GovSpec => []DecidedByVotes
<1>1. ASSUME GovInv PROVE DecidedByVotes
  <2> SUFFICES ASSUME NEW i \in DOMAIN proposals, proposals[i].status \in Decided
               PROVE  LET yes == Weight(i, "for")  no == Weight(i, "against")  all == yes + no + Weight(i, "abstain") IN
                      proposals[i].status # "rejected" <=> all >= QuorumTenths /\ yes > 0 /\ 5 * yes >= 3 * (yes + no)
    BY DEF DecidedByVotes
  <2>1. /\ proposals[i] \in Proposal /\ OneVoteEach(proposals[i].votes)
        /\ (proposals[i].status # "rejected" <=> Carried(proposals[i].votes))
    BY <1>1 DEF GovInv, ProposalOK
  <2>2. \A c : Weight(i, c) = TallyOf(proposals[i].votes, c)
    BY <2>1, WeightIsTally
  <2> QED
    BY <2>1, <2>2 DEF Carried
<1> QED
  BY <1>1, GovernanceInvariant, PTL

\* Nothing about a decided proposal changes but its execution.
THEOREM DecisionsAreKept == GovSpec => DecisionKept
<1> DEFINE Kept1(i) == proposals[i].status \in Decided =>
                         /\ proposals'[i].votes = proposals[i].votes
                         /\ proposals'[i].status # proposals[i].status =>
                              proposals[i].status = "approved" /\ proposals'[i].status = "executed"
           Keeps == \A i \in DOMAIN proposals : Kept1(i)
<1>1. ASSUME GovInv, [GovNext]_govVars PROVE Keeps
  <2> SUFFICES ASSUME NEW i \in DOMAIN proposals, proposals[i].status \in Decided PROVE Kept1(i)
    OBVIOUS
  <2>1. proposals \in Seq(Proposal) /\ proposals[i] \in Proposal
    BY <1>1 DEF GovInv, ProposalOK
  <2>2. ASSUME proposals'[i] = proposals[i] PROVE Kept1(i)
    BY <2>2
  <2>3. ASSUME \/ GovTick \/ OthersLog \/ UNCHANGED govVars
               \/ \E v \in Voters, p \in Powers : SetVotingPower(v, p)
        PROVE  Kept1(i)
    BY <2>2, <2>3 DEF GovTick, OthersLog, govVars, SetVotingPower
  <2>4. ASSUME NEW proofs, Propose(proofs) PROVE Kept1(i)
    <3>1. PICK p : proposals' = Append(proposals, p)
      BY <2>4 DEF Propose
    <3>2. proposals'[i] = proposals[i]
      BY <2>1, <3>1
    <3> QED
      BY <2>2, <3>2
  <2>5. ASSUME NEW j \in DOMAIN proposals, StartVoting(j) \/ Finalize(j) \/ \E v \in Voters, c \in VoteChoice : Vote(j, v, c)
        PROVE  Kept1(i)
    <3>1. proposals[j].status \in {"review", "voting"}
      BY <2>5 DEF StartVoting, Finalize, Vote, OpenForVotes
    <3>2. i # j
      BY <3>1 DEF Decided
    <3>3. proposals'[i] = proposals[i]
      BY <2>1, <2>5, <3>2 DEF StartVoting, Finalize, Vote
    <3> QED
      BY <2>2, <3>3
  <2>6. ASSUME NEW j \in DOMAIN proposals, Execute(j) PROVE Kept1(i)
    <3>1. CASE i # j
      <4>1. proposals'[i] = proposals[i]
        BY <2>1, <2>6, <3>1 DEF Execute
      <4> QED
        BY <2>2, <4>1
    <3>2. CASE i = j
      <4> DEFINE q == [proposals[i] EXCEPT !.status = "executed"]
      <4>1. proposals'[i] = q /\ proposals[i].status = "approved"
        BY <2>1, <2>6, <3>2 DEF Execute
      <4>2. q.status = "executed" /\ q.votes = proposals[i].votes
        BY <2>1 DEF Proposal
      <4> HIDE DEF q
      <4> QED
        BY <4>1, <4>2
    <3> QED
      BY <3>1, <3>2
  <2> HIDE DEF Kept1
  <2> QED
    BY <1>1, <2>3, <2>4, <2>5, <2>6 DEF GovNext
<1>2. GovSpec => [][Keeps]_govVars
  <2>1. GovInv /\ [GovNext]_govVars => [Keeps]_govVars
    BY <1>1
  <2> HIDE DEF Keeps
  <2> QED
    BY <2>1, GovernanceInvariant, PTL DEF GovSpec
<1> QED
  BY <1>2 DEF DecisionKept

-----------------------------------------------------------------------------
(* The volatility oracle *)

Point == [price : Prices, at : Nat]
PointList == Seq(Point)

Recent(ps, t) == {i \in 1 .. Len(ps) : ps[i].at >= t}

\* a and b are the first and the last of the points since t.
Ends(ps, t, a, b) == a \in Recent(ps, t) /\ b \in Recent(ps, t) /\ \A i \in Recent(ps, t) : a <= i /\ i <= b

LEMMA PointFields ==
  ASSUME NEW ps \in PointList
  PROVE  /\ Len(ps) \in Nat
         /\ \A i \in 1 .. Len(ps) : ps[i] \in Point /\ ps[i].at \in Nat /\ ps[i].price \in Int
<1>1. Len(ps) \in Nat /\ \A i \in 1 .. Len(ps) : ps[i] \in Point
  BY DEF PointList
<1>2. \A p \in Point : p.at \in Nat /\ p.price \in Int
  BY OracleAssumption DEF Point
<1> QED
  BY <1>1, <1>2

\* What a window holds: the points since t, in order.
LEMMA SinceIsRecent ==
  ASSUME NEW ps \in PointList, NEW t \in Int
  PROVE  \E order : /\ Len(order) \in Nat
                    /\ \A i \in 1 .. Len(order) : order[i] \in Recent(ps, t)
                    /\ \A k \in Recent(ps, t) : \E i \in 1 .. Len(order) : order[i] = k
                    /\ \A i, j \in 1 .. Len(order) : i < j => order[i] < order[j]
                    /\ Since(ps, t) = [i \in 1 .. Len(order) |-> ps[order[i]]]
                    /\ Since(ps, t) \in PointList /\ Len(Since(ps, t)) = Len(order)
<1> DEFINE keep == [i \in 1 .. Len(ps) |-> ps[i].at >= t]
           order == Selected(keep)
           w == [i \in 1 .. Len(order) |-> ps[order[i]]]
<1>1. Len(ps) \in Nat /\ \A i \in 1 .. Len(ps) : ps[i] \in Point /\ ps[i].at \in Nat
  BY PointFields
<1>2. keep \in Seq(BOOLEAN) /\ Len(keep) = Len(ps)
  <2>1. keep \in [1 .. Len(ps) -> BOOLEAN]
    BY <1>1
  <2> HIDE DEF keep
  <2> QED
    BY <1>1, <2>1
<1>3. \A k : k \in Kept(keep) <=> k \in Recent(ps, t)
  BY <1>2 DEF Kept, Recent
<1>4. Since(ps, t) = w
  BY DEF Since
<1> HIDE DEF keep
<1>5. /\ order \in Seq(Kept(keep))
      /\ \A k \in Kept(keep) : \E i \in 1 .. Len(order) : order[i] = k
      /\ \A i, j \in 1 .. Len(order) : i < j => order[i] < order[j]
  BY <1>2, SelectedIsKept
<1> HIDE DEF order
<1>6. Len(order) \in Nat /\ \A i \in 1 .. Len(order) : order[i] \in Recent(ps, t)
  BY <1>3, <1>5
<1>7. w \in [1 .. Len(order) -> Point]
  BY <1>1, <1>6 DEF Recent
<1>8. w \in PointList /\ Len(w) = Len(order)
  <2> HIDE DEF w
  <2> QED
    BY <1>6, <1>7 DEF PointList
<1>9. \A k \in Recent(ps, t) : \E i \in 1 .. Len(order) : order[i] = k
  BY <1>3, <1>5
<1> QED
  BY <1>4, <1>5, <1>6, <1>8, <1>9

\* Its length, first and last point.
LEMMA SinceEnds ==
  ASSUME NEW ps \in PointList, NEW t \in Int
  PROVE  /\ Recent(ps, t) = {} => Len(Since(ps, t)) = 0
         /\ Recent(ps, t) # {} => \E a, b : Ends(ps, t, a, b)
         /\ \A a, b : Ends(ps, t, a, b) => /\ Since(ps, t)[1] = ps[a]
                                           /\ Since(ps, t)[Len(Since(ps, t))] = ps[b]
                                           /\ Len(Since(ps, t)) >= 2 <=> a < b
         /\ Since(ps, t) \in PointList
<1> DEFINE w == Since(ps, t)
           R == Recent(ps, t)
<1>1. PICK order : /\ Len(order) \in Nat
                   /\ \A i \in 1 .. Len(order) : order[i] \in R
                   /\ \A k \in R : \E i \in 1 .. Len(order) : order[i] = k
                   /\ \A i, j \in 1 .. Len(order) : i < j => order[i] < order[j]
                   /\ w = [i \in 1 .. Len(order) |-> ps[order[i]]]
                   /\ w \in PointList /\ Len(w) = Len(order)
  BY SinceIsRecent
<1> DEFINE n == Len(order)
<1>2. R \in SUBSET Int
  BY DEF Recent
<1> HIDE DEF w, n
<1>3. /\ n \in Nat /\ \A i \in 1 .. n : order[i] \in R /\ order[i] \in Int /\ i \in Int
      /\ \A k \in R : \E i \in 1 .. n : order[i] = k
      /\ \A i, j \in 1 .. n : i < j => order[i] < order[j]
      /\ \A i \in 1 .. n : w[i] = ps[order[i]]
      /\ w \in PointList /\ Len(w) = n
  BY <1>1, <1>2 DEF n
<1> HIDE DEF R
<1>4. R = {} => n = 0
  <2>1. n > 0 => 1 \in 1 .. n
    BY <1>3
  <2> QED
    BY <1>3, <2>1
<1>5. ASSUME R # {}
      PROVE  /\ n > 0 /\ 1 \in 1 .. n /\ n \in 1 .. n /\ order[1] \in R /\ order[n] \in R
             /\ \A i \in R : order[1] <= i /\ i <= order[n]
  <2>1. PICK r \in R : TRUE
    BY <1>5
  <2>2. PICK l \in 1 .. n : order[l] = r
    BY <1>3
  <2>3. n > 0 /\ 1 \in 1 .. n /\ n \in 1 .. n
    BY <1>3, <2>2
  <2>4. ASSUME NEW i \in R PROVE order[1] <= i /\ i <= order[n]
    <3>1. PICK k \in 1 .. n : order[k] = i
      BY <1>3
    <3>2. (k = 1 \/ 1 < k) /\ (k = n \/ k < n)
      BY <1>3
    <3>3. (k = 1 \/ order[1] < order[k]) /\ (k = n \/ order[k] < order[n])
      BY <1>3, <2>3, <3>2
    <3>4. order[1] \in Int /\ order[k] \in Int /\ order[n] \in Int
      BY <1>3, <2>3
    <3> QED
      BY <3>1, <3>3, <3>4
  <2> QED
    BY <1>3, <2>3, <2>4
<1>6. ASSUME R # {} PROVE \E a, b : Ends(ps, t, a, b)
  <2>1. Ends(ps, t, order[1], order[n])
    BY <1>5, <1>6 DEF Ends, R
  <2> QED
    BY <2>1
<1>7. ASSUME NEW a, NEW b, Ends(ps, t, a, b)
      PROVE  w[1] = ps[a] /\ w[n] = ps[b] /\ (n >= 2 <=> a < b)
  <2>1. a \in R /\ b \in R /\ \A i \in R : a <= i /\ i <= b
    BY <1>7 DEF Ends, R
  <2>2. /\ n > 0 /\ 1 \in 1 .. n /\ n \in 1 .. n /\ order[1] \in R /\ order[n] \in R
        /\ order[1] <= a /\ b <= order[n] /\ a \in Int /\ b \in Int
    BY <1>2, <1>5, <2>1 DEF R
  <2>3. a = order[1] /\ b = order[n]
    <3>1. a <= order[1] /\ order[n] <= b /\ order[1] \in Int /\ order[n] \in Int
      BY <1>3, <2>1, <2>2
    <3> QED
      BY <2>2, <3>1
  <2>4. n >= 2 <=> a < b
    <3>1. n >= 2 => order[1] < order[n]
      BY <1>3, <2>2
    <3>2. n < 2 => n = 1
      BY <1>3, <2>2
    <3> QED
      BY <1>3, <2>2, <2>3, <3>1, <3>2
  <2> QED
    BY <1>3, <2>2, <2>3, <2>4
<1> QED
  BY <1>3, <1>4, <1>6, <1>7 DEF w, R

\* ps has the points of all that are since t, in the same order.
Tracks(ps, all, t) ==
  \E m \in [1 .. Len(ps) -> 1 .. Len(all)] :
     /\ \A i \in 1 .. Len(ps) : ps[i] = all[m[i]]
     /\ \A i, j \in 1 .. Len(ps) : i < j => m[i] < m[j]
     /\ \A k \in Recent(all, t) : \E i \in 1 .. Len(ps) : m[i] = k

\* So a window that starts later is the same in both.
LEMMA TracksEnds ==
  ASSUME NEW ps \in PointList, NEW all \in PointList, NEW t \in Int, NEW u \in Int, t <= u,
         Tracks(ps, all, t)
  PROVE  /\ Recent(ps, u) = {} <=> Recent(all, u) = {}
         /\ \A a, b : Ends(ps, u, a, b) =>
              \E c, d : Ends(all, u, c, d) /\ ps[a] = all[c] /\ ps[b] = all[d] /\ (a < b <=> c < d)
<1>1. PICK m \in [1 .. Len(ps) -> 1 .. Len(all)] :
        /\ \A i \in 1 .. Len(ps) : ps[i] = all[m[i]]
        /\ \A i, j \in 1 .. Len(ps) : i < j => m[i] < m[j]
        /\ \A k \in Recent(all, t) : \E i \in 1 .. Len(ps) : m[i] = k
  BY DEF Tracks
<1>2. /\ Len(ps) \in Nat /\ Len(all) \in Nat
      /\ \A i \in 1 .. Len(ps) : m[i] \in 1 .. Len(all) /\ m[i] \in Int /\ i \in Int
      /\ \A k \in 1 .. Len(all) : all[k].at \in Nat
  <2>1. Len(ps) \in Nat /\ Len(all) \in Nat /\ \A k \in 1 .. Len(all) : all[k].at \in Nat
    BY PointFields
  <2> QED
    BY <2>1
<1>3. \A k \in Recent(all, u) : k \in Recent(all, t)
  BY <1>2 DEF Recent
<1>4. \A i \in Recent(ps, u) : i \in 1 .. Len(ps) /\ m[i] \in Recent(all, u)
  BY <1>1, <1>2 DEF Recent
<1>5. \A k \in Recent(all, u) : \E i \in Recent(ps, u) : m[i] = k
  BY <1>1, <1>3 DEF Recent
<1>6. ASSUME NEW a, NEW b, Ends(ps, u, a, b)
      PROVE  \E c, d : Ends(all, u, c, d) /\ ps[a] = all[c] /\ ps[b] = all[d] /\ (a < b <=> c < d)
  <2>1. a \in Recent(ps, u) /\ b \in Recent(ps, u) /\ \A i \in Recent(ps, u) : a <= i /\ i <= b
    BY <1>6 DEF Ends
  <2>2. \A i, j \in 1 .. Len(ps) : i <= j => m[i] <= m[j]
    BY <1>1, <1>2
  <2>3. \A k \in Recent(all, u) : m[a] <= k /\ k <= m[b]
    BY <1>4, <1>5, <2>1, <2>2
  <2>4. Ends(all, u, m[a], m[b])
    BY <1>4, <2>1, <2>3 DEF Ends
  <2>5. a < b <=> m[a] < m[b]
    BY <1>1, <1>2, <1>4, <2>1
  <2>6. ps[a] = all[m[a]] /\ ps[b] = all[m[b]]
    BY <1>1, <1>4, <2>1
  <2> QED
    BY <2>4, <2>5, <2>6
<1> QED
  BY <1>4, <1>5, <1>6

\* _compute_twap on the pruned history is _compute_twap on all that was fed.
LEMMA SameMove ==
  ASSUME NEW ps \in PointList, NEW all \in PointList, NEW t \in Int, NEW u \in Int, t <= u,
         Tracks(ps, all, t)
  PROVE  PriceChange(Since(ps, u)) >= 20 <=> TwoPercentMove(Since(all, u))
<1> DEFINE v == Since(ps, u)
           w == Since(all, u)
<1>1. v \in PointList /\ w \in PointList /\ Len(v) \in Nat /\ Len(w) \in Nat
  BY SinceEnds DEF PointList
<1>2. CASE Recent(ps, u) = {}
  <2>1. Recent(all, u) = {}
    BY <1>2, TracksEnds
  <2>2. Len(v) = 0 /\ Len(w) = 0
    BY <1>2, <2>1, SinceEnds
  <2> HIDE DEF v, w
  <2>3. PriceChange(v) = 0 /\ ~TwoPercentMove(w)
    BY <2>2 DEF PriceChange, TwoPercentMove
  <2> QED
    BY <2>3 DEF v, w
<1>3. CASE Recent(ps, u) # {}
  <2>1. PICK a, b : Ends(ps, u, a, b)
    BY <1>3, SinceEnds
  <2>2. PICK c, d : Ends(all, u, c, d) /\ ps[a] = all[c] /\ ps[b] = all[d] /\ (a < b <=> c < d)
    BY <2>1, TracksEnds
  <2>3. v[1] = ps[a] /\ v[Len(v)] = ps[b] /\ (Len(v) >= 2 <=> a < b)
    BY <2>1, SinceEnds
  <2>4. w[1] = all[c] /\ w[Len(w)] = all[d] /\ (Len(w) >= 2 <=> c < d)
    BY <2>2, SinceEnds
  <2>5. v[1] = w[1] /\ v[Len(v)] = w[Len(w)] /\ (Len(v) >= 2 <=> Len(w) >= 2)
    BY <2>2, <2>3, <2>4
  <2> HIDE DEF v, w
  <2> DEFINE x == v[1].price
             y == v[Len(v)].price
  <2>6. ASSUME Len(v) < 2 PROVE PriceChange(v) >= 20 <=> TwoPercentMove(w)
    <3>1. PriceChange(v) = 0
      BY <2>6 DEF PriceChange
    <3>2. ~TwoPercentMove(w)
      BY <1>1, <2>5, <2>6 DEF TwoPercentMove
    <3> QED
      BY <3>1, <3>2
  <2>7. ASSUME Len(v) >= 2 PROVE PriceChange(v) >= 20 <=> TwoPercentMove(w)
    <3>1. Head(v) = v[1] /\ Last(v) = v[Len(v)] /\ x \in Int /\ y \in Int
      <4>1. 1 \in 1 .. Len(v) /\ Len(v) \in 1 .. Len(v)
        BY <1>1, <2>7
      <4>2. x \in Int /\ y \in Int
        BY <1>1, <4>1, PointFields
      <4>3. Head(v) = v[1] /\ Last(v) = v[Len(v)]
        BY <1>1, <2>7 DEF PointList, Last
      <4> QED
        BY <4>2, <4>3
    <3>2. TwoPercentMove(w) <=> (x > 0 /\ (50 * (y - x) >= x \/ 50 * (x - y) >= x))
      BY <2>5, <2>7 DEF TwoPercentMove
    <3>3. PriceChange(v) = IF x <= 0 THEN 0 ELSE (1000 * Distance(x, y)) \div x
      BY <1>1, <2>7, <3>1 DEF PriceChange
    <3> HIDE DEF x, y
    <3>4. CASE x <= 0
      BY <3>1, <3>2, <3>3, <3>4
    <3>5. CASE x > 0
      <4> DEFINE z == Distance(x, y)
                 q == (1000 * z) \div x
      <4>1. z \in Nat /\ (50 * z >= x <=> (50 * (y - x) >= x \/ 50 * (x - y) >= x))
        BY <3>1, <3>5 DEF Distance
      <4>6. PriceChange(v) = q
        BY <3>1, <3>3, <3>5
      <4> HIDE DEF z
      <4>2. q \in Int /\ x * q <= 1000 * z /\ 1000 * z < x * (q + 1)
        BY <3>1, <3>5, <4>1
      <4> HIDE DEF q
      <4>3. q >= 20 => x * 20 <= x * q
        BY <3>1, <3>5, <4>2
      <4>4. q < 20 => x * (q + 1) <= x * 20
        BY <3>1, <3>5, <4>2
      <4>5. q >= 20 <=> 50 * z >= x
        BY <3>1, <3>5, <4>1, <4>2, <4>3, <4>4
      <4> QED
        BY <3>2, <3>5, <4>1, <4>5, <4>6
    <3> QED
      BY <3>1, <3>4, <3>5
  <2> QED
    BY <1>1, <2>6, <2>7 DEF v, w
<1> QED
  BY <1>2, <1>3

\* One more price, and the old ones pruned.
LEMMA FeedTracks ==
  ASSUME NEW ps \in PointList, NEW all \in PointList, NEW t \in Int, Tracks(ps, all, t), NEW p \in Point
  PROVE  Since(Append(ps, p), t) \in PointList /\ Tracks(Since(Append(ps, p), t), Append(all, p), t)
<1> DEFINE qs == Append(ps, p)
           bs == Append(all, p)
           n == Len(ps)
           k == Len(all)
<1>1. PICK m \in [1 .. n -> 1 .. k] :
        /\ \A i \in 1 .. n : ps[i] = all[m[i]]
        /\ \A i, j \in 1 .. n : i < j => m[i] < m[j]
        /\ \A l \in Recent(all, t) : \E i \in 1 .. n : m[i] = l
  BY DEF Tracks
<1>2. n \in Nat /\ k \in Nat
  BY PointFields
<1>3. /\ qs \in PointList /\ Len(qs) = n + 1 /\ qs[n + 1] = p /\ \A i \in 1 .. n : qs[i] = ps[i]
      /\ bs \in PointList /\ Len(bs) = k + 1 /\ bs[k + 1] = p /\ \A i \in 1 .. k : bs[i] = all[i]
  BY <1>2 DEF PointList
<1> HIDE DEF qs, bs
<1>4. PICK order : /\ Len(order) \in Nat
                   /\ \A i \in 1 .. Len(order) : order[i] \in Recent(qs, t)
                   /\ \A l \in Recent(qs, t) : \E i \in 1 .. Len(order) : order[i] = l
                   /\ \A i, j \in 1 .. Len(order) : i < j => order[i] < order[j]
                   /\ Since(qs, t) = [i \in 1 .. Len(order) |-> qs[order[i]]]
                   /\ Since(qs, t) \in PointList /\ Len(Since(qs, t)) = Len(order)
  BY <1>3, SinceIsRecent
<1> DEFINE w == Since(qs, t)
           r == Len(order)
           m1 == [i \in 1 .. n + 1 |-> IF i = n + 1 THEN k + 1 ELSE m[i]]
           m2 == [i \in 1 .. r |-> m1[order[i]]]
<1>5. \A i \in 1 .. n + 1 : (i \in 1 .. n \/ i = n + 1) /\ i \in Int
  BY <1>2
<1>6. \A i \in 1 .. n : i \in 1 .. n + 1 /\ i # n + 1 /\ m[i] \in 1 .. k /\ m[i] \in 1 .. k + 1 /\ m[i] < k + 1
  BY <1>2
<1>7. n + 1 \in 1 .. n + 1 /\ k + 1 \in 1 .. k + 1 /\ n + 1 \in Int /\ k + 1 \in Int
  BY <1>2
<1>8. /\ m1[n + 1] = k + 1 /\ \A i \in 1 .. n : m1[i] = m[i]
      /\ \A i \in 1 .. n + 1 : m1[i] \in 1 .. k + 1
  BY <1>5, <1>6, <1>7
<1> HIDE DEF m1
<1>9. \A i \in 1 .. n + 1 : qs[i] = bs[m1[i]]
  BY <1>1, <1>3, <1>5, <1>6, <1>8
<1>10. \A i, j \in 1 .. n + 1 : i < j => m1[i] < m1[j]
  <2> SUFFICES ASSUME NEW i \in 1 .. n + 1, NEW j \in 1 .. n + 1, i < j PROVE m1[i] < m1[j]
    OBVIOUS
  <2>1. i \in 1 .. n
    BY <1>2
  <2>2. CASE j = n + 1
    BY <1>6, <1>8, <2>1, <2>2
  <2>3. CASE j \in 1 .. n
    BY <1>1, <1>8, <2>1, <2>3
  <2> QED
    BY <1>5, <2>2, <2>3
<1>11. \A l \in Recent(bs, t) : \E i \in Recent(qs, t) : m1[i] = l
  <2> SUFFICES ASSUME NEW l \in Recent(bs, t) PROVE \E i \in Recent(qs, t) : m1[i] = l
    OBVIOUS
  <2>1. l \in 1 .. k + 1 /\ bs[l].at >= t
    BY <1>3 DEF Recent
  <2>2. CASE l = k + 1
    <3>1. n + 1 \in Recent(qs, t)
      BY <1>3, <1>7, <2>1, <2>2 DEF Recent
    <3> QED
      BY <1>8, <2>2, <3>1
  <2>3. CASE l # k + 1
    <3>1. l \in 1 .. k
      BY <1>2, <2>1, <2>3
    <3>2. l \in Recent(all, t)
      BY <1>3, <2>1, <3>1 DEF Recent
    <3>3. PICK i \in 1 .. n : m[i] = l
      BY <1>1, <3>2
    <3>4. i \in 1 .. n + 1 /\ m1[i] = l /\ qs[i] = bs[l]
      BY <1>6, <1>8, <1>9, <3>3
    <3>5. i \in Recent(qs, t)
      BY <1>3, <2>1, <3>4 DEF Recent
    <3> QED
      BY <3>4, <3>5
  <2> QED
    BY <2>2, <2>3
<1>12. \A i \in 1 .. r : order[i] \in 1 .. n + 1
  BY <1>3, <1>4 DEF Recent
<1>13. /\ \A i \in 1 .. r : m2[i] = m1[order[i]] /\ w[i] = qs[order[i]]
       /\ m2 \in [1 .. r -> 1 .. k + 1]
  BY <1>4, <1>8, <1>12
<1>14. w \in PointList /\ Len(w) = r
  BY <1>4
<1> HIDE DEF m2, w, r
<1>15. \A i \in 1 .. r : w[i] = bs[m2[i]]
  BY <1>9, <1>12, <1>13
<1>16. \A i, j \in 1 .. r : i < j => m2[i] < m2[j]
  BY <1>4, <1>10, <1>12, <1>13 DEF r
<1>17. \A l \in Recent(bs, t) : \E i \in 1 .. r : m2[i] = l
  <2> SUFFICES ASSUME NEW l \in Recent(bs, t) PROVE \E i \in 1 .. r : m2[i] = l
    OBVIOUS
  <2>1. PICK j \in Recent(qs, t) : m1[j] = l
    BY <1>11
  <2>2. PICK i \in 1 .. r : order[i] = j
    BY <1>4 DEF r
  <2> QED
    BY <1>13, <2>1, <2>2
<1>18. Tracks(w, bs, t)
  <2>1. m2 \in [1 .. Len(w) -> 1 .. Len(bs)]
    BY <1>3, <1>13, <1>14
  <2>2. /\ \A i \in 1 .. Len(w) : w[i] = bs[m2[i]]
        /\ \A i, j \in 1 .. Len(w) : i < j => m2[i] < m2[j]
        /\ \A l \in Recent(bs, t) : \E i \in 1 .. Len(w) : m2[i] = l
    BY <1>14, <1>15, <1>16, <1>17
  <2> QED
    BY <2>1, <2>2 DEF Tracks
<1> QED
  BY <1>14, <1>18 DEF w, qs, bs

\* As time passes the window moves on.
LEMMA TracksLater ==
  ASSUME NEW ps, NEW all \in PointList, NEW t \in Int, NEW u \in Int, t <= u, Tracks(ps, all, t)
  PROVE  Tracks(ps, all, u)
<1>1. \A k \in Recent(all, u) : k \in Recent(all, t)
  BY PointFields DEF Recent
<1> QED
  BY <1>1 DEF Tracks

\* A report r on the first n of the prices all.
ReportOK(r, all, n) ==
  r # NoReport =>
    /\ r.at \in Nat
    /\ r.signal = "VOLATILITY_DETECTED" /\ ~r.stale =>
         /\ TwoPercentMove(Since(SubSeq(all, 1, n), r.at - TwapWindow))
         /\ n > 0 /\ r.at - all[n].at <= Staleness
    /\ r.signal = "VOLATILITY_PAUSED" => ~TwoPercentMove(Since(SubSeq(all, 1, n), r.at - TwapWindow))

OracleInv ==
  /\ oracleTime \in Nat \ {0}
  /\ prices \in PointList /\ fed \in PointList
  /\ Tracks(prices, fed, oracleTime - TwapWindow * 2)
  /\ lastUpdate = IF Len(fed) > 0 THEN fed[Len(fed)].at ELSE 0
  /\ \A i \in 1 .. Len(fed) : fed[i].at > 0
  /\ judged \in 0 .. Len(fed)
  /\ ReportOK(report, fed, judged)

\* The pruned history has every price that a later report can look at
\* (OracleInv is the inductive invariant).
THEOREM OracleInvariant == OracleSpec => []OracleInv
<1>1. OracleInit => OracleInv
  <2> SUFFICES ASSUME OracleInit PROVE OracleInv
    OBVIOUS
  <2>1. prices \in PointList /\ fed \in PointList /\ Len(fed) = 0 /\ Len(prices) = 0
    BY DEF OracleInit, PointList
  <2>2. Tracks(prices, fed, oracleTime - TwapWindow * 2)
    <3> DEFINE m == [i \in 1 .. 0 |-> 0]
    <3>1. m \in [1 .. Len(prices) -> 1 .. Len(fed)] /\ \A i \in 1 .. Len(prices) : FALSE
      BY <2>1
    <3>2. Recent(fed, oracleTime - TwapWindow * 2) = {}
      BY <2>1 DEF Recent
    <3> HIDE DEF m
    <3> QED
      BY <3>1, <3>2 DEF Tracks
  <2> QED
    BY <2>1, <2>2 DEF OracleInit, OracleInv, ReportOK
<1>2. OracleInv /\ [OracleNext]_oracleVars => OracleInv'
  <2> SUFFICES ASSUME OracleInv, [OracleNext]_oracleVars PROVE OracleInv'
    OBVIOUS
  <2> DEFINE t == oracleTime - TwapWindow * 2
  <2>1. /\ oracleTime \in Nat \ {0} /\ prices \in PointList /\ fed \in PointList
        /\ Tracks(prices, fed, t) /\ t \in Int /\ TwapWindow \in Nat /\ Staleness \in Nat
        /\ Len(fed) \in Nat /\ judged \in 0 .. Len(fed) /\ ReportOK(report, fed, judged)
    BY OracleAssumption, PointFields DEF OracleInv
  <2>2. CASE UNCHANGED oracleVars
    BY <2>2 DEF oracleVars, OracleInv
  <2>3. CASE OracleTick
    <3>1. oracleTime' = oracleTime + 1 /\ UNCHANGED <<prices, lastUpdate, report, fed, judged>>
      BY <2>3 DEF OracleTick
    <3> DEFINE u == (oracleTime + 1) - TwapWindow * 2
    <3>2. u \in Int /\ t <= u /\ oracleTime + 1 \in Nat \ {0}
      BY <2>1
    <3> HIDE DEF t, u
    <3>3. Tracks(prices, fed, u)
      BY <2>1, <3>2, TracksLater
    <3> QED
      BY <3>1, <3>2, <3>3 DEF OracleInv, u
  <2>4. ASSUME NEW b \in BOOLEAN, FeedGas(b) \/ FeedLiquidity(b) PROVE OracleInv'
    BY <2>4 DEF FeedGas, FeedLiquidity, OracleInv
  <2>5. ASSUME NEW price \in Prices, FeedPrice(price) PROVE OracleInv'
    <3> DEFINE p == [price |-> price, at |-> oracleTime]
               all == Append(fed, p)
               n == Len(fed)
    <3>1. /\ prices' = Since(Append(prices, p), t) /\ lastUpdate' = oracleTime /\ fed' = all
          /\ UNCHANGED <<oracleTime, report, judged>>
      BY <2>5 DEF FeedPrice, Pruned
    <3>2. p \in Point /\ p.at = oracleTime
      BY <2>1 DEF Point
    <3> HIDE DEF p, t
    <3>3. prices' \in PointList /\ Tracks(prices', fed', t)
      BY <2>1, <3>1, <3>2, FeedTracks
    <3>4. /\ all \in PointList /\ Len(all) = n + 1 /\ all[n + 1] = p
          /\ \A i \in 1 .. n : all[i] = fed[i]
      BY <2>1, <3>2 DEF PointList
    <3>5. SubSeq(all, 1, judged) = SubSeq(fed, 1, judged) /\ (judged > 0 => all[judged] = fed[judged])
      <4>1. judged \in Nat /\ judged <= n /\ \A i \in 1 .. judged : i \in 1 .. n
        BY <2>1
      <4>2. judged > 0 => judged \in 1 .. n
        BY <4>1, <2>1
      <4>3. SubSeq(all, 1, judged) = [i \in 1 .. judged |-> all[i]]
            /\ SubSeq(fed, 1, judged) = [i \in 1 .. judged |-> fed[i]]
        BY <2>1, <3>4, <4>1 DEF PointList
      <4> HIDE DEF all, n
      <4>4. \A i \in 1 .. judged : all[i] = fed[i]
        BY <3>4, <4>1
      <4> QED
        BY <3>4, <4>2, <4>3, <4>4
    <3> HIDE DEF all
    <3>6. ReportOK(report, all, judged)
      BY <2>1, <3>5 DEF ReportOK
    <3>7. \A i \in 1 .. n + 1 : all[i].at > 0
      <4>1. \A i \in 1 .. n : fed[i].at > 0
        BY DEF OracleInv
      <4>2. \A i \in 1 .. n + 1 : i \in 1 .. n \/ i = n + 1
        BY <2>1
      <4>3. p.at > 0
        BY <2>1, <3>2
      <4> HIDE DEF n
      <4> QED
        BY <3>4, <4>1, <4>2, <4>3
    <3>8. judged \in 0 .. n + 1
      BY <2>1
    <3>9. lastUpdate' = IF Len(all) > 0 THEN all[Len(all)].at ELSE 0
      BY <2>1, <3>1, <3>2, <3>4
    <3> QED
      BY <2>1, <3>1, <3>3, <3>4, <3>6, <3>7, <3>8, <3>9 DEF OracleInv, t
  <2>6. ASSUME NEW b \in BOOLEAN, Assess(b) PROVE OracleInv'
    <3> DEFINE u == oracleTime - TwapWindow
               change == PriceChange(Since(prices, u))
               stale == OracleAge > Staleness
               n == Len(fed)
    <3>1. /\ report' = [signal |-> Signal(stale, b, change), confidence |-> Confidence(Signal(stale, b, change), change),
                        at |-> oracleTime, stale |-> stale, coverageLow |-> b, liquidityLow |-> liquidityLow]
          /\ judged' = n /\ UNCHANGED <<oracleTime, prices, lastUpdate, fed>>
      BY <2>6 DEF Assess
    <3>2. report'.signal = Signal(stale, b, change) /\ report'.at = oracleTime /\ report'.stale = stale
      BY <3>1
    <3>3. u \in Int /\ t <= u
      BY <2>1
    <3>4. change >= 20 <=> TwoPercentMove(Since(fed, u))
      <4> HIDE DEF t, u
      <4> QED
        BY <2>1, <3>3, SameMove
    <3>5. SubSeq(fed, 1, n) = fed
      BY <2>1 DEF PointList
    <3> HIDE DEF change, u, t
    <3>6. /\ Signal(stale, b, change) = "VOLATILITY_DETECTED" => change >= 20
          /\ Signal(stale, b, change) = "VOLATILITY_PAUSED" => ~(change >= 20)
      BY DEF Signal
    <3>7. TwoPercentMove(Since(fed, u)) => n > 0
      <4>1. CASE n = 0
        <5>1. Recent(fed, u) = {}
          BY <4>1 DEF Recent
        <5>2. Len(Since(fed, u)) = 0
          BY <2>1, <3>3, <5>1, SinceEnds
        <5> QED
          BY <5>2 DEF TwoPercentMove
      <4> QED
        BY <2>1, <4>1
    <3>8. n > 0 /\ ~stale => oracleTime - fed[n].at <= Staleness
      <4>1. n > 0 => n \in 1 .. n /\ fed[n].at \in Nat /\ lastUpdate = fed[n].at /\ fed[n].at > 0
        BY <2>1, PointFields DEF OracleInv
      <4> QED
        BY <2>1, <4>1 DEF OracleAge
    <3> HIDE DEF stale, n
    <3>9. ReportOK(report', fed, n)
      BY <2>1, <3>2, <3>4, <3>5, <3>6, <3>7, <3>8 DEF ReportOK, u
    <3>10. n \in 0 .. Len(fed)
      BY <2>1 DEF n
    <3> QED
      BY <3>1, <3>9, <3>10 DEF OracleInv
  <2> QED
    BY <2>2, <2>3, <2>4, <2>5, <2>6 DEF OracleNext
<1> QED
  BY <1>1, <1>2, PTL DEF OracleSpec

\* UnlockedByMarket: a rebase is unlocked only by a fresh window that moved by
\* two percent, and a report of a flat market is true: the pruning at a feed
\* never drops a price that a later report looks at.
THEOREM OracleUnlockedByMarket == OracleSpec => []UnlockedByMarket
<1>1. OracleInv => UnlockedByMarket
  BY DEF OracleInv, ReportOK, UnlockedByMarket, CanUnlockRebase, MarketMoved
<1> QED
  BY <1>1, OracleInvariant, PTL

\* A behaviour of the L3 process is a behaviour of each of its parts.
THEOREM L3RunsParts == Spec => RelaySpec /\ GovSpec /\ OracleSpec
<1> DEFINE Step == RelayPart \/ GovernancePart \/ OraclePart
<1>1. Init => RelayInit /\ GovInit /\ OracleInit
  BY DEF Init
<1>2. [Step]_l3Vars => [RelayNext]_relayVars /\ [GovNext]_govVars /\ [OracleNext]_oracleVars
  BY DEF RelayPart, GovernancePart, OraclePart, l3Vars
<1> QED
  BY <1>1, <1>2, PTL DEF Spec, RelaySpec, GovSpec, OracleSpec
=============================================================================
