-------------------------- MODULE TokenSaleProofs --------------------------
(***************************************************************************)
(* Proofs about the token sale for every set of buyers, authorities,       *)
(* parameters, amounts and indices.                                        *)
(***************************************************************************)
EXTENDS TokenSale, DataTheorems

-----------------------------------------------------------------------------
(* Arithmetic of contribute *)

\* A share in basis points of an amount is a natural number, and at most the
\* amount when it is at most 10000 of them.
LEMMA BpsType ==
  ASSUME NEW amount \in Nat, NEW bps \in Nat
  PROVE  BpsOf(amount, bps) \in Nat
<1>1. amount * bps \in Nat
  OBVIOUS
<1> DEFINE n == amount * bps
<1> HIDE DEF n
<1>2. n \in Nat => n \div 10000 \in Nat
  OBVIOUS
<1> QED
  BY <1>1, <1>2 DEF BpsOf, n

\* The four shares of the split are naturals and add up to the amount.
LEMMA SplitType ==
  ASSUME NEW amount \in Nat
  PROVE  /\ DOMAIN Split(amount) = Wallets
         /\ \A w \in Wallets : Split(amount)[w] \in Nat
         /\ Split(amount)["treasury"] + Split(amount)["protocol"]
              + Split(amount)["validator"] + Split(amount)["pool"] = amount
<1> DEFINE t == BpsOf(amount, 8000)
           p == BpsOf(amount, 1000)
           v == BpsOf(amount, 500)
<1>1. t \in Nat /\ p \in Nat /\ v \in Nat
  BY DEF BpsOf
<1>2. t + p + v <= amount
  BY DEF BpsOf
<1>3. Split(amount) = [treasury |-> t, protocol |-> p, validator |-> v, pool |-> amount - t - p - v]
  BY DEF Split
<1> HIDE DEF t, p, v
<1> QED
  BY <1>1, <1>2, <1>3 DEF Wallets

\* A sum over the four wallets.
LEMMA SumWallets ==
  ASSUME NEW f, \A w \in Wallets : f[w] \in Int
  PROVE  /\ SumFunctionOnSet(f, Wallets) = f["treasury"] + f["protocol"] + f["validator"] + f["pool"]
         /\ SumFunctionOnSet(f, Wallets) \in Int
<1> DEFINE A == {"treasury"}
           B == A \cup {"protocol"}
           C == B \cup {"validator"}
<1>1. IsFiniteSet({}) /\ SumFunctionOnSet(f, {}) = 0
  BY FS_EmptySet, SumEmpty
<1>2. IsFiniteSet(A) /\ SumFunctionOnSet(f, A) = f["treasury"]
  <2>1. A = {} \cup {"treasury"} /\ "treasury" \notin {}
    OBVIOUS
  <2>2. SumFunctionOnSet(f, {} \cup {"treasury"}) = SumFunctionOnSet(f, {}) + f["treasury"]
    BY <1>1, SumAdd DEF Wallets
  <2> QED
    BY <1>1, <2>1, <2>2, FS_Singleton DEF Wallets
<1>3. IsFiniteSet(B) /\ SumFunctionOnSet(f, B) = f["treasury"] + f["protocol"]
  <2>1. "protocol" \notin A /\ \A w \in A : f[w] \in Int
    BY DEF Wallets
  <2>2. f["protocol"] \in Int
    BY DEF Wallets
  <2> HIDE DEF A
  <2>3. SumFunctionOnSet(f, A \cup {"protocol"}) = SumFunctionOnSet(f, A) + f["protocol"]
    BY <1>2, <2>1, <2>2, SumAdd
  <2> QED
    BY <1>2, <2>3, FS_AddElement
<1>4. IsFiniteSet(C) /\ SumFunctionOnSet(f, C) = f["treasury"] + f["protocol"] + f["validator"]
  <2>1. "validator" \notin B /\ \A w \in B : f[w] \in Int
    BY DEF Wallets
  <2>2. f["validator"] \in Int
    BY DEF Wallets
  <2> HIDE DEF B
  <2>3. SumFunctionOnSet(f, B \cup {"validator"}) = SumFunctionOnSet(f, B) + f["validator"]
    BY <1>3, <2>1, <2>2, SumAdd
  <2> QED
    BY <1>3, <2>3, FS_AddElement
<1>5. Wallets = C \cup {"pool"} /\ "pool" \notin C /\ \A w \in C : f[w] \in Int
  BY DEF Wallets
<1>6. f["pool"] \in Int /\ f["treasury"] \in Int /\ f["protocol"] \in Int /\ f["validator"] \in Int
  BY DEF Wallets
<1> HIDE DEF C
<1>7. SumFunctionOnSet(f, C \cup {"pool"}) = SumFunctionOnSet(f, C) + f["pool"]
  BY <1>4, <1>5, <1>6, SumAdd
<1> QED
  BY <1>4, <1>5, <1>6, <1>7

\* A fraction of 10000 that is at most 1 is at most 10000 basis points.
LEMMA ShareBound ==
  ASSUME NEW a \in Nat, NEW d \in Nat, d > 0, a <= d
  PROVE  (a * 10000) \div d \in Nat /\ (a * 10000) \div d <= 10000
<1> DEFINE q == (a * 10000) \div d
<1>1. a * 10000 \in Nat /\ d * 10000 >= a * 10000
  OBVIOUS
<1> DEFINE n == a * 10000
<1> HIDE DEF n
<1>2. n \in Nat => /\ n \div d \in Int
                   /\ d * (n \div d) <= n
                   /\ n < d * (n \div d) + d
  OBVIOUS
<1>3. q \in Int /\ d * q <= d * 10000 /\ 0 < d * q + d
  BY <1>1, <1>2 DEF n
<1> HIDE DEF q
<1>4. ASSUME q >= 10001 PROVE FALSE
  <2>1. d * q >= d * 10001
    BY <1>3, <1>4
  <2> QED
    BY <1>3, <2>1
<1>5. ASSUME q <= -1 PROVE FALSE
  <2>1. d * q <= d * (-1)
    BY <1>3, <1>5
  <2> QED
    BY <1>3, <2>1
<1>6. q \in Nat /\ q <= 10000
  BY <1>3, <1>4, <1>5
<1> QED
  BY <1>6 DEF q

\* The bonus of a contribution that is not made before the sale has started is
\* at most the sale's maximum.
LEMMA BonusBound ==
  ASSUME NEW max \in Nat, NEW elapsed \in Nat, NEW duration \in Nat, duration > 0
  PROVE  CalculateTimeDecayBonus(max, elapsed, duration) \in 0 .. max
<1>1. CASE elapsed >= duration
  BY <1>1 DEF CalculateTimeDecayBonus
<1>2. CASE elapsed < duration
  <2> DEFINE share == ((duration - elapsed) * 10000) \div duration
  <2>1. duration - elapsed \in Nat /\ duration - elapsed <= duration
    BY <1>2
  <2>2. share \in Nat /\ share <= 10000
    <3> DEFINE a == duration - elapsed
    <3> HIDE DEF a
    <3>1. a \in Nat /\ a <= duration
      BY <2>1 DEF a
    <3>2. (a * 10000) \div duration \in Nat /\ (a * 10000) \div duration <= 10000
      BY <3>1, ShareBound
    <3> QED
      BY <3>2 DEF a
  <2>3. CalculateTimeDecayBonus(max, elapsed, duration) = (max * share) \div 10000
    BY <1>2 DEF CalculateTimeDecayBonus
  <2> HIDE DEF share
  <2>4. max * share \in Nat /\ max * share <= max * 10000
    BY <2>2
  <2> DEFINE n == max * share
  <2> HIDE DEF n
  <2>5. n \div 10000 \in 0 .. max
    <3>1. n \in Nat /\ n <= max * 10000
      BY <2>4 DEF n
    <3> QED
      BY <3>1
  <2> QED
    BY <2>3, <2>5 DEF n
<1> QED
  BY <1>1, <1>2

-----------------------------------------------------------------------------
(* The inductive invariant *)

SaleAccount ==
  [status : SaleStatus, authority : Authorities, params : {p \in SaleParams : ValidParams(p)},
   start : 0 .. MaxSaleTime, end : Nat, total_raised : {0}, total_tokens : {0},
   contribution_count : {0}, early_reward_distributed : {0}]

ContributionAccount ==
  [amount : Nat \ {0}, price : Nat \ {0}, base_tokens : Nat, bonus_bps : 0 .. 5000,
   bonus_tokens : Nat, total_tokens : Nat, created_at : Nat]

ReceiptAccount ==
  [contributed : Nat, tokens : Nat, rebate_claimed : Nat, status : RebateClaimStatus, bump : {0}]

\* The accounts have their types: a sale's totals stay zero, since contribute
\* does not write the sale back, and so does the bump of a receipt, which
\* nothing assigns.
Accounts ==
  /\ time \in 0 .. MaxSaleTime
  /\ sale \in SaleAccount \cup {NoSale}
  /\ sale # NoSale => sale.start <= time
  /\ DOMAIN contributions \subseteq Buyers \X Indices
  /\ IsFiniteSet(DOMAIN contributions)
  /\ contributions \in [DOMAIN contributions -> ContributionAccount]
  /\ DOMAIN receipts \subseteq Buyers
  /\ receipts \in [DOMAIN receipts -> ReceiptAccount]
  /\ lamports \in [Buyers \cup Wallets -> Nat]

\* The Contribution account of a buyer implies that buyer's receipt.
Receipted == \A k \in DOMAIN contributions : k[1] \in DOMAIN receipts

SaleInv == Accounts /\ Receipted /\ RaisedIsHeld /\ ReceiptsMatchContributions

\* A sale that has a status of SaleStatus is an account.
LEMMA SaleExists ==
  ASSUME Accounts, sale.status \in SaleStatus
  PROVE  sale \in SaleAccount /\ sale # NoSale
BY DEF Accounts, NoSale, SaleStatus

\* Nothing is sold at first.
LEMMA SaleInitInv == SaleInit => SaleInv
<1> SUFFICES ASSUME SaleInit PROVE SaleInv
  OBVIOUS
<1>1. DOMAIN contributions = {} /\ DOMAIN receipts = {}
  BY DEF SaleInit
<1>2. \A w \in Wallets : lamports[w] = 0
  BY SaleAssumption DEF SaleInit, Wallets
<1>3. SumFunctionOnSet(lamports, Wallets) = 0
  <2>1. \A w \in Wallets : lamports[w] \in Int
    BY <1>2
  <2>2. SumFunctionOnSet(lamports, Wallets)
          = lamports["treasury"] + lamports["protocol"] + lamports["validator"] + lamports["pool"]
    BY <2>1, SumWallets
  <2> QED
    BY <1>2, <2>2 DEF Wallets
<1>4. Raised = 0
  BY <1>1, SumEmpty DEF Raised
<1>5. Accounts
  <2>1. contributions \in [DOMAIN contributions -> ContributionAccount]
    BY DEF SaleInit
  <2>2. receipts \in [DOMAIN receipts -> ReceiptAccount]
    BY DEF SaleInit
  <2>3. lamports \in [Buyers \cup Wallets -> Nat]
    BY SaleAssumption DEF SaleInit
  <2>4. time \in 0 .. MaxSaleTime /\ sale = NoSale
    BY SaleAssumption DEF SaleInit
  <2> QED
    BY <1>1, <2>1, <2>2, <2>3, <2>4, FS_EmptySet DEF Accounts
<1> QED
  BY <1>1, <1>3, <1>4, <1>5 DEF SaleInv, Receipted, RaisedIsHeld, ReceiptsMatchContributions

\* What a step that leaves the money and the books alone has to keep.
LEMMA BooksUntouched ==
  ASSUME SaleInv, UNCHANGED <<contributions, receipts, lamports>>,
         time' \in 0 .. MaxSaleTime, sale' \in SaleAccount \cup {NoSale},
         sale' # NoSale => sale'.start <= time'
  PROVE  SaleInv'
<1>1. Accounts'
  BY DEF SaleInv, Accounts
<1>2. Raised' = Raised /\ AmountOf' = AmountOf /\ TokensOf' = TokensOf
  BY DEF Raised, AmountOf, TokensOf
<1> QED
  BY <1>1, <1>2 DEF SaleInv, Receipted, RaisedIsHeld, ReceiptsMatchContributions

\* A ManageSale instruction changes the status only.
LEMMA ManageInv ==
  ASSUME SaleInv, NEW a \in Authorities, NEW from \in SUBSET SaleStatus, NEW to \in SaleStatus,
         Manage(a, from, to)
  PROVE  SaleInv'
<1>1. sale \in SaleAccount /\ sale # NoSale
  BY SaleExists DEF SaleInv, Manage
<1>2. sale' \in SaleAccount /\ sale'.start = sale.start
  BY <1>1 DEF Manage, SaleAccount
<1>3. UNCHANGED <<time, contributions, receipts, lamports>>
  BY DEF Manage
<1>4. time' \in 0 .. MaxSaleTime /\ sale'.start <= time'
  BY <1>1, <1>2, <1>3 DEF SaleInv, Accounts
<1> QED
  BY <1>2, <1>3, <1>4, BooksUntouched

\* The new Contribution account has its type: the price is positive, because
\* the base price is, and the bonus at most half.
LEMMA NewContributionType ==
  ASSUME Accounts, sale \in SaleAccount, sale # NoSale, NEW amount \in Nat \ {0}
  PROVE  NewContribution(amount) \in ContributionAccount /\ NewContribution(amount).amount = amount
<1> DEFINE p == sale.params
           price == CalculatePrice(p.base_price, p.slope_bps, sale.total_raised)
           base == (amount * 1000000) \div price
           bps == CalculateTimeDecayBonus(p.max_bonus_bps, time - sale.start, p.sale_duration)
           bonus == BpsOf(base, bps)
<1>1. p \in SaleParams /\ ValidParams(p) /\ sale.total_raised = 0
  BY DEF SaleAccount
<1>2. /\ p.base_price \in Nat /\ p.base_price > 0 /\ p.slope_bps \in Nat
      /\ p.max_bonus_bps \in Nat /\ p.max_bonus_bps <= 5000
      /\ p.sale_duration \in Nat /\ p.sale_duration > 0
  BY <1>1, SaleAssumption DEF ValidParams
<1>3. time \in Nat /\ time - sale.start \in Nat
  BY SaleAssumption DEF Accounts, SaleAccount
<1>4. NewContribution(amount)
        = [amount |-> amount, price |-> price, base_tokens |-> base, bonus_bps |-> bps,
           bonus_tokens |-> bonus, total_tokens |-> base + bonus, created_at |-> time]
  BY DEF NewContribution
<1>5. price = p.base_price
  <2>1. (sale.total_raised * p.slope_bps) \div 10000 = 0
    BY <1>1, <1>2
  <2> QED
    BY <1>2, <2>1 DEF CalculatePrice
<1> HIDE DEF p
<1>6. bps \in 0 .. 5000
  <2> DEFINE e == time - sale.start
             m == p.max_bonus_bps
             d == p.sale_duration
  <2>1. e \in Nat /\ m \in Nat /\ m <= 5000 /\ d \in Nat /\ d > 0
    BY <1>2, <1>3
  <2>2. bps = CalculateTimeDecayBonus(m, e, d)
    OBVIOUS
  <2> HIDE DEF e, m, d, bps
  <2>3. bps \in 0 .. m
    BY <2>1, <2>2, BonusBound
  <2> QED
    BY <2>1, <2>3
<1> HIDE DEF bps, price
<1>7. base \in Nat
  <2> DEFINE n == amount * 1000000
  <2>1. n \in Nat /\ price \in Nat /\ price > 0
    BY <1>2, <1>5
  <2> HIDE DEF n
  <2>2. n \div price \in Nat
    BY <2>1
  <2> QED
    BY <2>2 DEF n
<1> HIDE DEF base
<1>8. bonus \in Nat
  <2>1. bps \in Nat
    BY <1>6
  <2> QED
    BY <1>7, <2>1, BpsType
<1> HIDE DEF bonus
<1>9. price \in Nat \ {0}
  BY <1>2, <1>5
<1> QED
  BY <1>3, <1>4, <1>6, <1>7, <1>8, <1>9 DEF ContributionAccount

\* The receipt after a contribution: the sums of both columns, and the bump
\* still zero.
LEMMA UpdatedReceiptType ==
  ASSUME Accounts, NEW b \in Buyers, NEW c \in ContributionAccount
  PROVE  /\ UpdatedReceipt(b, c) \in ReceiptAccount
         /\ UpdatedReceipt(b, c).contributed = Receipt(b).contributed + c.amount
         /\ UpdatedReceipt(b, c).tokens = Receipt(b).tokens + c.total_tokens
<1>1. Receipt(b) \in ReceiptAccount
  <2>1. NoReceipt \in ReceiptAccount
    BY DEF NoReceipt, ReceiptAccount, RebateClaimStatus
  <2> QED
    BY <2>1 DEF Receipt, Accounts
<1>2. c.amount \in Nat /\ c.total_tokens \in Nat
  BY DEF ContributionAccount
<1> DEFINE r == Receipt(b)
           n == [r EXCEPT !.contributed = @ + c.amount, !.tokens = @ + c.total_tokens,
                          !.status = IF @ = "Claimed" THEN "Claimed" ELSE "Eligible"]
<1>3. UpdatedReceipt(b, c) = n
  BY DEF UpdatedReceipt
<1>4. r \in ReceiptAccount
  BY <1>1
<1> HIDE DEF r
<1> DEFINE st == IF r.status = "Claimed" THEN "Claimed" ELSE "Eligible"
           am == r.contributed + c.amount
           tk == r.tokens + c.total_tokens
<1>6. am \in Nat /\ tk \in Nat /\ st \in RebateClaimStatus
  BY <1>2, <1>4 DEF ReceiptAccount, RebateClaimStatus
<1>7. n = [r EXCEPT !.contributed = am, !.tokens = tk, !.status = st]
  BY <1>4 DEF ReceiptAccount
<1> HIDE DEF n, st, am, tk
<1>8. n \in ReceiptAccount /\ n.contributed = am /\ n.tokens = tk
  BY <1>4, <1>6, <1>7 DEF ReceiptAccount
<1>5. /\ n \in ReceiptAccount
      /\ n.contributed = r.contributed + c.amount
      /\ n.tokens = r.tokens + c.total_tokens
  BY <1>8 DEF am, tk
<1> QED
  BY <1>3, <1>5 DEF r

\* g is the column f over the keys D, with an entry for a new key.
Extended(D, key, f, g) ==
  /\ IsFiniteSet(D) /\ key \notin D
  /\ \A k \in D : f[k] \in Nat /\ g[k] = f[k]
  /\ g[key] \in Nat

\* What a contribution does to the sum of a column: a new key adds to every
\* set of keys that it joins and to no other.
LEMMA ColumnGrows ==
  ASSUME NEW D, NEW key, NEW f, NEW g, Extended(D, key, f, g), NEW S \in SUBSET D
  PROVE  /\ SumFunctionOnSet(g, S) = SumFunctionOnSet(f, S)
         /\ SumFunctionOnSet(g, S \cup {key}) = SumFunctionOnSet(f, S) + g[key]
         /\ SumFunctionOnSet(f, S) \in Nat
<1>1. IsFiniteSet(S) /\ key \notin S /\ g[key] \in Nat
  BY FS_Subset DEF Extended
<1>2. \A k \in S : g[k] \in Int /\ f[k] \in Nat /\ g[k] = f[k]
  BY DEF Extended
<1>3. SumFunctionOnSet(g, S) = SumFunctionOnSet(f, S)
  BY <1>1, <1>2, SumAgree
<1>4. SumFunctionOnSet(g, S \cup {key}) = SumFunctionOnSet(g, S) + g[key]
  BY <1>1, <1>2, SumAdd
<1>5. SumFunctionOnSet(f, S) \in Nat
  BY <1>1, <1>2, SumNat
<1> QED
  BY <1>3, <1>4, <1>5

\* A contribution in the wallets and in the books: what the wallets gain is
\* what the new account records, and the buyer's receipt takes it in.
LEMMA ContributeInv ==
  ASSUME SaleInv, NEW b \in Buyers, NEW i \in Indices, NEW amount \in Amounts,
         Contribute(b, i, amount)
  PROVE  SaleInv'
<1> DEFINE c == NewContribution(amount)
           key == <<b, i>>
           D == DOMAIN contributions
<1>1. amount \in Nat \ {0} /\ sale \in SaleAccount /\ sale # NoSale /\ key \notin D
  <2>1. sale.status \in SaleStatus /\ amount > 0
    BY DEF Contribute, ContributeGuards, SaleStatus
  <2> QED
    BY <2>1, SaleExists, SaleAssumption DEF SaleInv, Contribute, ContributeCtx
<1>2. c \in ContributionAccount /\ c.amount = amount /\ c.total_tokens \in Nat
  <2>1. c \in ContributionAccount /\ c.amount = amount
    BY <1>1, NewContributionType DEF SaleInv
  <2> HIDE DEF c
  <2> QED
    BY <2>1 DEF ContributionAccount
<1>3. UNCHANGED <<time, sale>>
  BY DEF Contribute, WrittenBack
<1>4. contributions' = [k \in D \cup {key} |-> IF k = key THEN c ELSE contributions[k]]
  BY DEF Contribute
<1>5. receipts' = [x \in DOMAIN receipts \cup {b} |->
                     IF x = b THEN UpdatedReceipt(b, c) ELSE receipts[x]]
  BY DEF Contribute
<1>6. /\ DOMAIN Split(amount) = Wallets
      /\ \A w \in Wallets : Split(amount)[w] \in Nat
      /\ SumFunctionOnSet(Split(amount), Wallets) = amount
  <2>1. /\ \A w \in Wallets : Split(amount)[w] \in Nat
        /\ Split(amount)["treasury"] + Split(amount)["protocol"]
             + Split(amount)["validator"] + Split(amount)["pool"] = amount
        /\ DOMAIN Split(amount) = Wallets
    BY <1>1, SplitType
  <2> DEFINE s == Split(amount)
  <2> HIDE DEF s
  <2>2. \A w \in Wallets : s[w] \in Int
    BY <2>1 DEF s
  <2>3. SumFunctionOnSet(s, Wallets) = s["treasury"] + s["protocol"] + s["validator"] + s["pool"]
    BY <2>2, SumWallets
  <2> QED
    BY <2>1, <2>3 DEF s
<1>7. lamports' = [a \in Buyers \cup Wallets |->
                     CASE a = b -> lamports[a] - amount
                       [] a \in Wallets -> lamports[a] + Split(amount)[a]
                       [] OTHER -> lamports[a]]
  BY <1>6 DEF Contribute, SaleInv, Accounts
<1>8. amount <= lamports[b] /\ b \notin Wallets
  BY SaleAssumption DEF Contribute
<1>9. Accounts /\ Receipted /\ RaisedIsHeld /\ ReceiptsMatchContributions
  BY DEF SaleInv
<1>10. lamports' \in [Buyers \cup Wallets -> Nat]
  <2>1. ASSUME NEW a \in Buyers \cup Wallets PROVE lamports'[a] \in Nat
    BY <1>1, <1>6, <1>7, <1>8, <1>9, <2>1 DEF Accounts
  <2> QED
    BY <1>7, <2>1
<1>11. /\ DOMAIN contributions' = D \cup {key}
       /\ contributions'[key] = c
       /\ \A k \in D : contributions'[k] = contributions[k]
  BY <1>1, <1>4
<1>12. /\ DOMAIN receipts' = DOMAIN receipts \cup {b}
       /\ receipts'[b] = UpdatedReceipt(b, c)
       /\ \A x \in DOMAIN receipts : x # b => receipts'[x] = receipts[x]
  BY <1>5
<1>13. /\ UpdatedReceipt(b, c) \in ReceiptAccount
       /\ UpdatedReceipt(b, c).contributed = Receipt(b).contributed + amount
       /\ UpdatedReceipt(b, c).tokens = Receipt(b).tokens + c.total_tokens
  <2> HIDE DEF c
  <2> QED
    BY <1>2, <1>9, UpdatedReceiptType
<1> HIDE DEF c, D
<1>14. Accounts'
  <2>1. contributions' \in [D \cup {key} -> ContributionAccount]
    BY <1>2, <1>4, <1>9 DEF Accounts, D
  <2>2. receipts' \in [DOMAIN receipts \cup {b} -> ReceiptAccount]
    BY <1>5, <1>9, <1>13 DEF Accounts
  <2>3. IsFiniteSet(D \cup {key})
    BY <1>9, FS_AddElement DEF Accounts, D
  <2>4. D \cup {key} \subseteq Buyers \X Indices /\ DOMAIN receipts \cup {b} \subseteq Buyers
    BY <1>9 DEF Accounts, D
  <2> QED
    BY <1>3, <1>9, <1>10, <1>11, <1>12, <2>1, <2>2, <2>3, <2>4 DEF Accounts
<1>15. Receipted'
  <2>1. key[1] = b
    OBVIOUS
  <2> QED
    BY <1>9, <1>11, <1>12, <2>1 DEF Receipted, D
<1>16. /\ \A k \in D : AmountOf[k] \in Nat /\ AmountOf'[k] = AmountOf[k]
       /\ AmountOf'[key] = amount
  BY <1>2, <1>9, <1>11 DEF AmountOf, Accounts, ContributionAccount, D
<1>17. /\ \A k \in D : TokensOf[k] \in Nat /\ TokensOf'[k] = TokensOf[k]
       /\ TokensOf'[key] = c.total_tokens
  BY <1>2, <1>9, <1>11 DEF TokensOf, Accounts, ContributionAccount, D
<1> DEFINE fa == AmountOf
           ga == AmountOf'
           ft == TokensOf
           gt == TokensOf'
<1>18. IsFiniteSet(D) /\ key \notin D
  BY <1>1, <1>9 DEF Accounts, D
<1>19. ASSUME NEW S \in SUBSET D
       PROVE  /\ SumFunctionOnSet(AmountOf', S) = SumFunctionOnSet(AmountOf, S)
              /\ SumFunctionOnSet(AmountOf', S \cup {key}) = SumFunctionOnSet(AmountOf, S) + amount
              /\ SumFunctionOnSet(AmountOf, S) \in Nat
  <2> HIDE DEF fa, ga, key
  <2>1. \A k \in D : fa[k] \in Nat /\ ga[k] = fa[k]
    BY <1>16 DEF fa, ga
  <2>2. ga[key] \in Nat
    BY <1>1, <1>16 DEF ga
  <2>3. /\ SumFunctionOnSet(ga, S) = SumFunctionOnSet(fa, S)
        /\ SumFunctionOnSet(ga, S \cup {key}) = SumFunctionOnSet(fa, S) + ga[key]
        /\ SumFunctionOnSet(fa, S) \in Nat
    <3>1. Extended(D, key, fa, ga)
      BY <1>18, <2>1, <2>2 DEF Extended
    <3> QED
      BY <3>1, <1>19, ColumnGrows
  <2> QED
    BY <1>16, <2>3 DEF fa, ga
<1>20. ASSUME NEW S \in SUBSET D
       PROVE  /\ SumFunctionOnSet(TokensOf', S) = SumFunctionOnSet(TokensOf, S)
              /\ SumFunctionOnSet(TokensOf', S \cup {key}) = SumFunctionOnSet(TokensOf, S) + c.total_tokens
              /\ SumFunctionOnSet(TokensOf, S) \in Nat
  <2> HIDE DEF ft, gt, key
  <2>1. \A k \in D : ft[k] \in Nat /\ gt[k] = ft[k]
    BY <1>17 DEF ft, gt
  <2>2. gt[key] \in Nat /\ gt[key] = c.total_tokens
    BY <1>2, <1>17 DEF gt
  <2>3. /\ SumFunctionOnSet(gt, S) = SumFunctionOnSet(ft, S)
        /\ SumFunctionOnSet(gt, S \cup {key}) = SumFunctionOnSet(ft, S) + gt[key]
        /\ SumFunctionOnSet(ft, S) \in Nat
    <3>1. Extended(D, key, ft, gt)
      BY <1>18, <2>1, <2>2 DEF Extended
    <3> QED
      BY <3>1, <1>20, ColumnGrows
  <2> QED
    BY <2>2, <2>3 DEF ft, gt
<1>21. RaisedIsHeld'
  <2>1. Raised' = Raised + amount
    BY <1>11, <1>19 DEF Raised, D
  <2>2. /\ \A w \in Wallets : lamports[w] \in Int
        /\ \A w \in Wallets : lamports'[w] \in Int
    BY <1>9, <1>10 DEF Accounts
  <2>3. \A w \in Wallets : lamports'[w] = lamports[w] + Split(amount)[w]
    BY <1>7, <1>8
  <2> DEFINE l == lamports
             m == lamports'
  <2> HIDE DEF l, m
  <2>4. SumFunctionOnSet(l, Wallets) = l["treasury"] + l["protocol"] + l["validator"] + l["pool"]
    BY <2>2, SumWallets DEF l
  <2>5. SumFunctionOnSet(m, Wallets) = m["treasury"] + m["protocol"] + m["validator"] + m["pool"]
    BY <2>2, SumWallets DEF m
  <2>6. Split(amount)["treasury"] + Split(amount)["protocol"]
          + Split(amount)["validator"] + Split(amount)["pool"] = amount
    BY <1>1, SplitType
  <2>7. \A w \in Wallets : m[w] = l[w] + Split(amount)[w] /\ l[w] \in Int /\ Split(amount)[w] \in Nat
    BY <1>6, <2>2, <2>3 DEF l, m
  <2>8. SumFunctionOnSet(m, Wallets) = SumFunctionOnSet(l, Wallets) + amount
    BY <1>1, <2>4, <2>5, <2>6, <2>7 DEF Wallets
  <2>9. SumFunctionOnSet(lamports', Wallets) = SumFunctionOnSet(lamports, Wallets) + amount
    BY <2>8 DEF l, m
  <2>10. SumFunctionOnSet(lamports, Wallets) = Raised
    BY <1>9 DEF RaisedIsHeld
  <2> QED
    BY <2>1, <2>9, <2>10 DEF RaisedIsHeld
<1>22. ReceiptsMatchContributions'
  <2> DEFINE Own(x) == {k \in D : k[1] = x}
             OwnNow(x) == {k \in DOMAIN contributions' : k[1] = x}
  <2>1. \A x \in DOMAIN receipts : /\ receipts[x].contributed = SumFunctionOnSet(AmountOf, Own(x))
                                  /\ receipts[x].tokens = SumFunctionOnSet(TokensOf, Own(x))
    BY <1>9 DEF ReceiptsMatchContributions, D
  <2>2. \A x : Own(x) \in SUBSET D
    OBVIOUS
  <2>3. \A x : x # b => OwnNow(x) = Own(x)
    BY <1>11
  <2>4. OwnNow(b) = Own(b) \cup {key}
    BY <1>11
  <2>5. b \notin DOMAIN receipts => Own(b) = {}
    BY <1>9 DEF Receipted, D
  <2>6. /\ Receipt(b).contributed = SumFunctionOnSet(AmountOf, Own(b))
        /\ Receipt(b).tokens = SumFunctionOnSet(TokensOf, Own(b))
    <3>1. CASE b \in DOMAIN receipts
      BY <2>1, <3>1 DEF Receipt
    <3>2. CASE b \notin DOMAIN receipts
      BY <2>5, <3>2, SumEmpty DEF Receipt, NoReceipt
    <3> QED
      BY <3>1, <3>2
  <2> HIDE DEF Own, OwnNow
  <2>7. ASSUME NEW x \in DOMAIN receipts'
        PROVE  /\ receipts'[x].contributed = SumFunctionOnSet(AmountOf', OwnNow(x))
               /\ receipts'[x].tokens = SumFunctionOnSet(TokensOf', OwnNow(x))
    <3>1. CASE x = b
      <4>1. /\ SumFunctionOnSet(AmountOf', Own(b) \cup {key}) = SumFunctionOnSet(AmountOf, Own(b)) + amount
            /\ SumFunctionOnSet(TokensOf', Own(b) \cup {key})
                 = SumFunctionOnSet(TokensOf, Own(b)) + c.total_tokens
        BY <1>19, <1>20, <2>2
      <4> QED
        BY <1>12, <1>13, <2>4, <2>6, <3>1, <4>1
    <3>2. CASE x # b
      <4>1. x \in DOMAIN receipts /\ receipts'[x] = receipts[x]
        BY <1>12, <3>2
      <4>2. /\ SumFunctionOnSet(AmountOf', Own(x)) = SumFunctionOnSet(AmountOf, Own(x))
            /\ SumFunctionOnSet(TokensOf', Own(x)) = SumFunctionOnSet(TokensOf, Own(x))
        BY <1>19, <1>20, <2>2
      <4> QED
        BY <2>1, <2>3, <3>2, <4>1, <4>2
    <3> QED
      BY <3>1, <3>2
  <2> QED
    BY <2>7 DEF ReceiptsMatchContributions, OwnNow
<1> QED
  BY <1>14, <1>15, <1>21, <1>22 DEF SaleInv

\* No rebate can be claimed: the context wants the canonical bump, and every
\* receipt holds zero.
LEMMA NoClaims ==
  ASSUME Accounts, NEW b \in Buyers
  PROVE  ~ClaimRebateCtx(b)
<1>1. \A x \in DOMAIN receipts : receipts[x].bump = 0
  BY DEF Accounts, ReceiptAccount
<1> QED
  BY <1>1 DEF ClaimRebateCtx, CanonicalBump

\* The invariant is inductive: contribute moves money and writes the books
\* together, and no other instruction that can run touches either.
LEMMA SaleNextInv == SaleInv /\ [SaleNextWithClaims]_saleVars => SaleInv'
<1> SUFFICES ASSUME SaleInv, [SaleNextWithClaims]_saleVars PROVE SaleInv'
  OBVIOUS
<1>1. Accounts
  BY DEF SaleInv
<1>2. CASE SaleTick
  <2>1. /\ UNCHANGED <<sale, contributions, receipts, lamports>>
        /\ time' \in 0 .. MaxSaleTime /\ time' >= time
    BY <1>1, <1>2, SaleAssumption DEF SaleTick, Accounts
  <2>2. sale' # NoSale => sale'.start <= time'
    BY <1>1, <2>1, SaleAssumption DEF Accounts, SaleAccount
  <2> QED
    BY <1>1, <2>1, <2>2, BooksUntouched DEF Accounts
<1>3. ASSUME NEW a \in Authorities, NEW p \in SaleParams, InitializeSale(a, p) PROVE SaleInv'
  <2>1. UNCHANGED <<time, contributions, receipts, lamports>> /\ time' \in 0 .. MaxSaleTime
    BY <1>1, <1>3 DEF InitializeSale, Accounts
  <2>2. sale' \in SaleAccount /\ sale'.start = 0
    BY <1>3, SaleAssumption DEF InitializeSale, SaleAccount, SaleStatus
  <2> QED
    BY <2>1, <2>2, BooksUntouched, SaleAssumption
<1>4. ASSUME NEW a \in Authorities, ActivateSale(a) PROVE SaleInv'
  <2>1. sale \in SaleAccount
    BY <1>1, <1>4, SaleExists DEF ActivateSale, SaleStatus
  <2>2. UNCHANGED <<time, contributions, receipts, lamports>> /\ time \in 0 .. MaxSaleTime
    BY <1>1, <1>4 DEF ActivateSale, Accounts
  <2>3. time + sale.params.sale_duration \in Nat
    BY <2>1, <2>2, SaleAssumption DEF SaleAccount
  <2> DEFINE e == time + sale.params.sale_duration
  <2>4. sale' = [sale EXCEPT !.status = "Active", !.start = time, !.end = e]
    BY <1>4 DEF ActivateSale
  <2> HIDE DEF e
  <2>5. sale' \in SaleAccount /\ sale'.start = time
    BY <2>1, <2>2, <2>3, <2>4 DEF SaleAccount, SaleStatus, e
  <2> QED
    BY <2>2, <2>5, BooksUntouched, SaleAssumption
<1>5. ASSUME NEW a \in Authorities,
             FinalizeSale(a) \/ MigrateLiquidity(a) \/ CancelSale(a) \/ PauseSale(a) \/ ResumeSale(a)
      PROVE  SaleInv'
  <2>1. PICK from \in SUBSET SaleStatus, to \in SaleStatus : Manage(a, from, to)
    BY <1>5 DEF FinalizeSale, MigrateLiquidity, CancelSale, PauseSale, ResumeSale, SaleStatus
  <2> QED
    BY <2>1, ManageInv
<1>6. ASSUME NEW b \in Buyers, NEW i \in Indices, NEW amount \in Amounts, Contribute(b, i, amount)
      PROVE  SaleInv'
  BY <1>6, ContributeInv
<1>7. ASSUME NEW b \in Buyers, ClaimRebate(b) PROVE SaleInv'
  BY <1>1, <1>7, NoClaims DEF ClaimRebate
<1>8. CASE UNCHANGED saleVars
  <2>1. UNCHANGED <<time, sale, contributions, receipts, lamports>>
    BY <1>8 DEF saleVars
  <2> QED
    BY <1>1, <2>1, BooksUntouched DEF Accounts
<1> QED
  BY <1>2, <1>3, <1>4, <1>5, <1>6, <1>7, <1>8 DEF SaleNextWithClaims, SaleNext

\* In every reachable state of the sale the accounts have their types and the
\* money and the books agree.
THEOREM SaleInvariant == SaleSpec => []SaleInv
<1>1. SaleInit => SaleInv
  BY SaleInitInv
<1>2. SaleInv /\ [SaleNextWithClaims]_saleVars => SaleInv'
  BY SaleNextInv
<1> QED
  BY <1>1, <1>2, PTL DEF SaleSpec

\* The sale's accounts keep their types: no balance falls below zero, and no
\* bonus is above half of what was bought.
THEOREM SaleTypes == SaleSpec => []SaleTypeOK
<1>1. SaleInv => SaleTypeOK
  <2> SUFFICES ASSUME SaleInv PROVE SaleTypeOK
    OBVIOUS
  <2>1. Accounts
    BY DEF SaleInv
  <2>2. sale.status \in SaleStatus \cup {"None"}
    BY <2>1 DEF Accounts, SaleAccount, NoSale
  <2>3. \A k \in DOMAIN contributions :
          contributions[k].bonus_bps \in 0 .. 5000 /\ contributions[k].amount > 0
    BY <2>1 DEF Accounts, ContributionAccount
  <2>4. \A b \in DOMAIN receipts : receipts[b].status \in RebateClaimStatus
    BY <2>1 DEF Accounts, ReceiptAccount
  <2>5. \A a \in DOMAIN lamports : lamports[a] >= 0
    BY <2>1 DEF Accounts
  <2> QED
    BY <2>1, <2>2, <2>3, <2>4, <2>5 DEF SaleTypeOK, Accounts
<1> QED
  BY <1>1, SaleInvariant, PTL

\* What the wallets received is what the Contribution accounts record, for any
\* amounts and whatever the rounding of the shares (contribute).
THEOREM WalletsHoldTheRaise == SaleSpec => []RaisedIsHeld
<1>1. SaleInv => RaisedIsHeld
  BY DEF SaleInv
<1> QED
  BY <1>1, SaleInvariant, PTL

\* A buyer's receipt is the sum of that buyer's contributions, in lamports and
\* in tokens (contribute, init_if_needed).
THEOREM ReceiptsAddUp == SaleSpec => []ReceiptsMatchContributions
<1>1. SaleInv => ReceiptsMatchContributions
  BY DEF SaleInv
<1> QED
  BY <1>1, SaleInvariant, PTL

\* claim_rebate is never possible: contribute creates the receipt without
\* storing its bump, and the context of claim_rebate derives the address with
\* the stored one.
THEOREM RebatesUnclaimable == SaleSpec => [](\A b \in Buyers : ~ClaimRebateCtx(b))
<1>1. SaleInv => \A b \in Buyers : ~ClaimRebateCtx(b)
  BY NoClaims DEF SaleInv
<1> QED
  BY <1>1, SaleInvariant, PTL

\* A sale that is finalized or cancelled is never reopened, and its wallets
\* receive nothing more.
THEOREM ClosedForGood == SaleSpec => ClosedStaysClosed
<1> DEFINE Step == sale.status \in Closed => /\ sale'.status \in Closed
                                           /\ \A w \in Wallets : lamports'[w] <= lamports[w]
<1>1. SaleInv /\ [SaleNextWithClaims]_saleVars => [Step]_saleVars
  <2> SUFFICES ASSUME SaleInv, SaleNextWithClaims, sale.status \in Closed
               PROVE  /\ sale'.status \in Closed
                      /\ \A w \in Wallets : lamports'[w] <= lamports[w]
    OBVIOUS
  <2>1. Accounts /\ sale \in SaleAccount
    BY SaleExists DEF SaleInv, Closed, SaleStatus
  <2>2. UNCHANGED lamports => \A w \in Wallets : lamports'[w] <= lamports[w]
    BY <2>1 DEF Accounts
  <2>3. CASE SaleTick
    BY <2>2, <2>3 DEF SaleTick
  <2>4. ASSUME NEW a \in Authorities, NEW p \in SaleParams, InitializeSale(a, p) PROVE FALSE
    BY <2>4 DEF InitializeSale, NoSale, Closed
  <2>5. ASSUME NEW a \in Authorities,
               ActivateSale(a) \/ FinalizeSale(a) \/ CancelSale(a) \/ PauseSale(a) \/ ResumeSale(a)
        PROVE  FALSE
    BY <2>5 DEF ActivateSale, FinalizeSale, CancelSale, PauseSale, ResumeSale, Manage, Closed
  <2>6. ASSUME NEW a \in Authorities, MigrateLiquidity(a)
        PROVE  UNCHANGED lamports /\ sale'.status \in Closed
    BY <2>1, <2>6 DEF MigrateLiquidity, Manage, Closed, SaleAccount
  <2>7. ASSUME NEW b \in Buyers, NEW i \in Indices, NEW amount \in Amounts, Contribute(b, i, amount)
        PROVE  FALSE
    BY <2>7 DEF Contribute, ContributeGuards, Closed
  <2>8. ASSUME NEW b \in Buyers, ClaimRebate(b) PROVE FALSE
    BY <2>1, <2>8, NoClaims DEF ClaimRebate
  <2> QED
    BY <2>2, <2>3, <2>4, <2>5, <2>6, <2>7, <2>8 DEF SaleNextWithClaims, SaleNext
<1> QED
  BY <1>1, SaleInvariant, PTL DEF SaleSpec, ClosedStaysClosed
=============================================================================
