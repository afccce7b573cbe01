------------------------------- MODULE TokenSale -------------------------------
(***************************************************************************)
(* The token sale of programs/membra_tokenomics: one TokenSale account, the *)
(* Contribution and BuyerReceipt accounts derived from it, and the lamports *)
(* that contribute moves.  Every instruction is one atomic transaction, and *)
(* a failed require! leaves no trace.  Contribute names token_sale without  *)
(* `mut', so what contribute assigns to the sale is dropped when the        *)
(* instruction returns; the accounts it names `mut' or `init' are kept.     *)
(* The rent of new accounts is left out.                                    *)
(***************************************************************************)
EXTENDS Integers, Sequences, FiniteSets, FiniteSetsExt, Functions

CONSTANTS
  Buyers,      \* signers of contribute and claim_rebate
  Authorities, \* signers of initialize_sale and of the ManageSale instructions
  SaleParams,  \* the arguments initialize_sale is called with
  Amounts,     \* amount_lamports
  Indices,     \* contribution_index, chosen by the caller
  Funds,       \* lamports of each buyer at the start
  RebateWindow, \* 30 * 24 * 60 * 60
  MaxSaleTime  \* bound on the clock

Wallets == {"treasury", "protocol", "validator", "pool"}

\* Unsigned integers throughout; the four wallets buy nothing themselves.
ASSUME SaleAssumption ==
  /\ Buyers \cap Wallets = {}
  /\ Amounts \subseteq Nat /\ Funds \in Nat /\ RebateWindow \in Nat /\ MaxSaleTime \in Nat
  /\ \A p \in SaleParams :
       /\ p.base_price \in Nat /\ p.slope_bps \in Nat /\ p.max_bonus_bps \in Nat
       /\ p.rebate_rate_bps \in Nat /\ p.sale_duration \in Nat /\ p.hard_cap \in Nat
       /\ p.early_reward_cap \in Nat /\ p.max_rebate_per_buyer \in Nat /\ p.min_contribution \in Nat

VARIABLES
  time,     \* Clock::get()?.unix_timestamp
  sale,     \* the TokenSale account, or NoSale
  contributions, \* Contribution accounts by buyer and index
  receipts, \* BuyerReceipt accounts by buyer
  lamports  \* balances of the buyers and of the four wallets

saleVars == <<time, sale, contributions, receipts, lamports>>

NoSale == [status |-> "None"]
SaleStatus == {"Draft", "Active", "Paused", "Finalized", "Cancelled", "LiquidityMigrated"}
RebateClaimStatus == {"Pending", "Eligible", "Claimed", "Expired", "Denied"}

\* The bump an init finds; a receipt's own bump field is never assigned.
CanonicalBump == 255

SaleInit ==
  /\ time = 0
  /\ sale = NoSale
  /\ contributions = <<>>
  /\ receipts = <<>>
  /\ lamports = [a \in Buyers \cup Wallets |-> IF a \in Buyers THEN Funds ELSE 0]

SaleTick == time < MaxSaleTime /\ time' = time + 1 /\ UNCHANGED <<sale, contributions, receipts, lamports>>

ValidParams(p) ==
  /\ p.base_price > 0
  /\ p.max_bonus_bps <= 5000
  /\ p.rebate_rate_bps <= 2000
  /\ p.sale_duration > 0
  /\ p.hard_cap > 0 /\ p.hard_cap >= p.early_reward_cap
  /\ p.early_reward_cap > 0
  /\ p.max_rebate_per_buyer > 0
  /\ p.min_contribution > 0

InitializeSale(a, p) ==
  /\ sale = NoSale
  /\ ValidParams(p)
  /\ sale' = [status |-> "Draft", authority |-> a, params |-> p, start |-> 0, end |-> 0,
              total_raised |-> 0, total_tokens |-> 0, contribution_count |-> 0, early_reward_distributed |-> 0]
  /\ UNCHANGED <<time, contributions, receipts, lamports>>

\* A ManageSale instruction by the sale's authority, from one of some states to another.
Manage(a, from, to) ==
  /\ sale.status \in from
  /\ sale.authority = a
  /\ sale' = [sale EXCEPT !.status = to]
  /\ UNCHANGED <<time, contributions, receipts, lamports>>

ActivateSale(a) ==
  /\ sale.status = "Draft"
  /\ sale.authority = a
  /\ sale' = [sale EXCEPT !.status = "Active", !.start = time, !.end = time + sale.params.sale_duration]
  /\ UNCHANGED <<time, contributions, receipts, lamports>>

FinalizeSale(a) == Manage(a, {"Active"}, "Finalized")
MigrateLiquidity(a) == Manage(a, {"Finalized"}, "LiquidityMigrated")
CancelSale(a) == Manage(a, {"Draft", "Active", "Paused"}, "Cancelled")
PauseSale(a) == Manage(a, {"Active"}, "Paused")

\* Mutant: resume puts the sale back whatever state it is in.
ResumeSaleUnchecked(a) == Manage(a, SaleStatus, "Active")
ResumeSale(a) == Manage(a, {"Paused"}, "Active")

CalculatePrice(base_price, slope_bps, total_raised) == base_price + (total_raised * slope_bps) \div 10000

CalculateTimeDecayBonus(max_bonus_bps, elapsed, duration) ==
  IF elapsed >= duration THEN 0
  ELSE (max_bonus_bps * (((duration - elapsed) * 10000) \div duration)) \div 10000

BpsOf(amount, bps) == (amount * bps) \div 10000

\* Mutant: the pool gets its own rounded share and the remainder is lost.
RoundedSplit(amount) ==
  [treasury |-> BpsOf(amount, 8000), protocol |-> BpsOf(amount, 1000),
   validator |-> BpsOf(amount, 500), pool |-> BpsOf(amount, 500)]
\* What each wallet receives: the early reward pool takes what rounding leaves.
Split(amount) ==
  LET to_treasury == BpsOf(amount, 8000)
      to_protocol == BpsOf(amount, 1000)
      to_validator == BpsOf(amount, 500)
  IN [treasury |-> to_treasury, protocol |-> to_protocol, validator |-> to_validator,
      pool |-> amount - to_treasury - to_protocol - to_validator]

\* The Contribution account, from the sale as it is read.
NewContribution(amount) ==
  LET p == sale.params
      price == CalculatePrice(p.base_price, p.slope_bps, sale.total_raised)
      base == (amount * 1000000) \div price
      bps == CalculateTimeDecayBonus(p.max_bonus_bps, time - sale.start, p.sale_duration)
      bonus == BpsOf(base, bps)
  IN [amount |-> amount, price |-> price, base_tokens |-> base, bonus_bps |-> bps, bonus_tokens |-> bonus,
      total_tokens |-> base + bonus, created_at |-> time]

\* init_if_needed: a new receipt has every field zero.
NoReceipt == [contributed |-> 0, tokens |-> 0, rebate_claimed |-> 0, status |-> "Pending", bump |-> 0]
Receipt(b) == IF b \in DOMAIN receipts THEN receipts[b] ELSE NoReceipt

\* Mutant: the receipt holds the last contribution, not the sum.
ReceiptOverwritten(b, c) == [Receipt(b) EXCEPT !.contributed = c.amount, !.tokens = c.total_tokens, !.status = "Eligible"]
UpdatedReceipt(b, c) ==
  [Receipt(b) EXCEPT !.contributed = @ + c.amount, !.tokens = @ + c.total_tokens,
                     !.status = IF @ = "Claimed" THEN "Claimed" ELSE "Eligible"]

ContributeCtx(b, index) ==
  /\ sale # NoSale
  /\ <<b, index>> \notin DOMAIN contributions  \* init of the Contribution account

ContributeGuards(amount) ==
  /\ amount > 0
  /\ sale.status = "Active"
  /\ time <= sale.end
  /\ amount >= sale.params.min_contribution
  /\ sale.total_raised + amount <= sale.params.hard_cap
  /\ sale.early_reward_distributed + Split(amount)["pool"] <= sale.params.early_reward_cap

\* The sale as contribute leaves it in memory.  Contribute does not name the
\* account `mut', so nothing of it is written back.
WrittenBack(inMemory) == sale

Contribute(b, index, amount) ==
  /\ ContributeCtx(b, index)
  /\ ContributeGuards(amount)
  /\ amount <= lamports[b]   \* the system program refuses the transfer otherwise
  /\ LET split == Split(amount)
         c == NewContribution(amount)
     IN /\ lamports' = [a \in DOMAIN lamports |-> CASE a = b -> lamports[a] - SumFunctionOnSet(split, Wallets)
                                                     [] a \in Wallets -> lamports[a] + split[a]
                                                     [] OTHER -> lamports[a]]
        /\ sale' = WrittenBack([sale EXCEPT !.total_raised = @ + amount, !.total_tokens = @ + c.total_tokens,
                                            !.contribution_count = @ + 1, !.early_reward_distributed = @ + split["pool"]])
        /\ contributions' = [k \in DOMAIN contributions \cup {<<b, index>>} |->
                               IF k = <<b, index>> THEN c ELSE contributions[k]]
        /\ receipts' = [x \in DOMAIN receipts \cup {b} |-> IF x = b THEN UpdatedReceipt(b, c) ELSE receipts[x]]
  /\ UNCHANGED time

\* ClaimRebate's context wants the receipt's address to be derived with the
\* bump stored in the receipt.
ClaimRebateCtx(b) == sale # NoSale /\ b \in DOMAIN receipts /\ receipts[b].bump = CanonicalBump

Rebate(b) == Min({BpsOf(receipts[b].contributed, sale.params.rebate_rate_bps),
                  sale.params.max_rebate_per_buyer, lamports["pool"]})

ClaimRebate(b) ==
  /\ ClaimRebateCtx(b)
  /\ sale.status \in {"Finalized", "LiquidityMigrated"}
  /\ receipts[b].status \notin {"Claimed", "Expired"}
  /\ time <= sale.end + RebateWindow
  /\ Rebate(b) > 0
  /\ lamports' = [lamports EXCEPT !["pool"] = @ - Rebate(b), ![b] = @ + Rebate(b)]
  /\ receipts' = [receipts EXCEPT ![b].rebate_claimed = @ + Rebate(b), ![b].status = "Claimed"]
  /\ UNCHANGED <<time, sale, contributions>>

SaleNext ==
  \/ SaleTick
  \/ \E a \in Authorities :
       \/ \E p \in SaleParams : InitializeSale(a, p)
       \/ ActivateSale(a) \/ FinalizeSale(a) \/ MigrateLiquidity(a) \/ CancelSale(a)
       \/ PauseSale(a) \/ ResumeSale(a)
  \/ \E b \in Buyers, i \in Indices, amount \in Amounts : Contribute(b, i, amount)

SaleNextWithClaims == SaleNext \/ \E b \in Buyers : ClaimRebate(b)

SaleSpec == SaleInit /\ [][SaleNextWithClaims]_saleVars

-----------------------------------------------------------------------------
Closed == {"Finalized", "Cancelled", "LiquidityMigrated"}
AmountOf == [k \in DOMAIN contributions |-> contributions[k].amount]
TokensOf == [k \in DOMAIN contributions |-> contributions[k].total_tokens]
Raised == SumFunctionOnSet(AmountOf, DOMAIN contributions)

\* Types of the sale's accounts: a bonus is never above half, no balance
\* below zero.
SaleTypeOK ==
  /\ time \in 0 .. MaxSaleTime
  /\ sale.status \in SaleStatus \cup {"None"}
  /\ DOMAIN contributions \subseteq Buyers \X Indices
  /\ \A k \in DOMAIN contributions : contributions[k].bonus_bps \in 0 .. 5000 /\ contributions[k].amount > 0
  /\ DOMAIN receipts \subseteq Buyers
  /\ \A b \in DOMAIN receipts : receipts[b].status \in RebateClaimStatus
  /\ \A a \in DOMAIN lamports : lamports[a] >= 0

\* The four transfers of every contribute add up to the amount that is
\* recorded: what the wallets hold is what the Contribution accounts say was
\* raised, whatever the rounding of the shares.
RaisedIsHeld == SumFunctionOnSet(lamports, Wallets) = Raised

\* A buyer's receipt, kept by init_if_needed over several contributions, is
\* the sum of that buyer's Contribution accounts, in lamports and in tokens.
ReceiptsMatchContributions ==
  \A b \in DOMAIN receipts :
    LET Own == {k \in DOMAIN contributions : k[1] = b}
    IN /\ receipts[b].contributed = SumFunctionOnSet(AmountOf, Own)
       /\ receipts[b].tokens = SumFunctionOnSet(TokensOf, Own)

\* Once a sale is finalized or cancelled it is never reopened, and no lamport
\* reaches its wallets again.
ClosedStaysClosed ==
  [][sale.status \in Closed => /\ sale'.status \in Closed
                               /\ \A w \in Wallets : lamports'[w] <= lamports[w]]_saleVars

\* What the program's README and SECURITY.md say of the cap: the whole raise of
\* a sale stays within hard_cap_lamports.
HardCapKept == sale # NoSale => Raised <= sale.params.hard_cap
=============================================================================
