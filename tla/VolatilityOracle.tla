--------------------------- MODULE VolatilityOracle ---------------------------
(***************************************************************************)
(* volatility_oracle.py of membra-l3: a window of price points, the latest *)
(* gas and liquidity conditions, and the report made of them, which stays  *)
(* until the next one and decides whether a rebase may run.                *)
(*                                                                         *)
(* Prices are integers.  Gas and liquidity are what assess asks of them: a *)
(* spike, a pool that is too small.  The average price goes into the       *)
(* report only to be printed and is left out, as is the proof book entry,  *)
(* which is one of Governance's OthersLog.                                 *)
(***************************************************************************)
EXTENDS Integers, Sequences, SequencesExt, Selection

CONSTANTS
  Prices,
  TwapWindow,      \* volatility_twap_window_seconds
  Staleness,       \* oracle_staleness_seconds
  MaxOracleTime, MaxFeeds   \* bounds

ASSUME OracleAssumption ==
  /\ Prices \subseteq Int /\ TwapWindow \in Nat /\ Staleness \in Nat
  /\ MaxOracleTime \in Nat \ {0} /\ MaxFeeds \in Nat

VARIABLES
  oracleTime,   \* time.time(), from 1
  prices,       \* _price_history
  lastUpdate,   \* _last_oracle_update
  gasSpike,     \* of the last of _gas_history, or of its default
  liquidityLow, \* of _last_liquidity, or of its default, an empty pool
  report,       \* _last_report
  fed,          \* every price ever fed (history)
  judged        \* how many of them the last report came after (history)

oracleVars == <<oracleTime, prices, lastUpdate, gasSpike, liquidityLow, report, fed, judged>>

\* The signals assess emits.
VolatilitySignal ==
  {"ORACLE_STALE", "COVERAGE_WARNING", "LIQUIDITY_LOW", "GAS_SPIKE", "VOLATILITY_DETECTED", "VOLATILITY_PAUSED"}

NoReport == [signal |-> "none"]

OracleInit ==
  /\ oracleTime = 1 /\ lastUpdate = 0
  /\ prices = <<>>
  /\ gasSpike = FALSE /\ liquidityLow = TRUE
  /\ report = NoReport
  /\ fed = <<>> /\ judged = 0

OracleTick ==
  /\ oracleTime < MaxOracleTime
  /\ oracleTime' = oracleTime + 1
  /\ UNCHANGED <<prices, lastUpdate, gasSpike, liquidityLow, report, fed, judged>>

Since(points, time) ==
  LET order == Selected([i \in 1 .. Len(points) |-> points[i].at >= time])
  IN  [i \in 1 .. Len(order) |-> points[order[i]]]

\* Mutant: a history of half a window is kept instead of two windows.
PrunedTooFar(points) == Since(points, oracleTime - TwapWindow \div 2)

Pruned(points) == Since(points, oracleTime - TwapWindow * 2)

FeedPrice(price) ==
  LET point == [price |-> price, at |-> oracleTime] IN
  /\ Len(fed) < MaxFeeds
  /\ prices' = Pruned(Append(prices, point))
  /\ lastUpdate' = oracleTime
  /\ fed' = Append(fed, point)
  /\ UNCHANGED <<oracleTime, gasSpike, liquidityLow, report, judged>>

\* The newest conditions are never pruned, however old they get.
FeedGas(spike) ==
  gasSpike' = spike /\ UNCHANGED <<oracleTime, prices, lastUpdate, liquidityLow, report, fed, judged>>
FeedLiquidity(low) ==
  liquidityLow' = low /\ UNCHANGED <<oracleTime, prices, lastUpdate, gasSpike, report, fed, judged>>

Distance(a, b) == IF a < b THEN b - a ELSE a - b

\* _compute_twap: the size of the change over a window, in thousandths of its
\* first price, rounded down; assess never looks at the sign.
PriceChange(recent) ==
  IF Len(recent) < 2 \/ Head(recent).price <= 0 THEN 0
  ELSE (1000 * Distance(Head(recent).price, Last(recent).price)) \div Head(recent).price

OracleAge == IF lastUpdate > 0 THEN oracleTime - lastUpdate ELSE 999999

Signal(stale, coverageLow, change) ==
  IF stale THEN "ORACLE_STALE"
  ELSE IF coverageLow THEN "COVERAGE_WARNING"
  ELSE IF liquidityLow THEN "LIQUIDITY_LOW"
  ELSE IF gasSpike THEN "GAS_SPIKE"
  ELSE IF change >= 20 THEN "VOLATILITY_DETECTED"
  ELSE "VOLATILITY_PAUSED"

\* In hundredths.
Confidence(signal, change) ==
  CASE signal = "ORACLE_STALE" -> 95
    [] signal = "COVERAGE_WARNING" -> 90
    [] signal = "LIQUIDITY_LOW" -> 80
    [] signal = "GAS_SPIKE" -> 85
    [] signal = "VOLATILITY_DETECTED" -> IF 50 + change < 95 THEN 50 + change ELSE 95
    [] signal = "VOLATILITY_PAUSED" -> 70

\* The caller passes the vault's coverage ratio.
Assess(coverageLow) ==
  LET change == PriceChange(Since(prices, oracleTime - TwapWindow))
      stale == OracleAge > Staleness
      signal == Signal(stale, coverageLow, change)
  IN  /\ report' = [signal |-> signal, confidence |-> Confidence(signal, change), at |-> oracleTime,
                    stale |-> stale, coverageLow |-> coverageLow, liquidityLow |-> liquidityLow]
      /\ judged' = Len(fed)
      /\ UNCHANGED <<oracleTime, prices, lastUpdate, gasSpike, liquidityLow, fed>>

CanUnlockRebase ==
  /\ report # NoReport
  /\ report.signal = "VOLATILITY_DETECTED"
  /\ report.confidence >= 70
  /\ ~ report.stale /\ ~ report.coverageLow /\ ~ report.liquidityLow

OracleNext ==
  \/ OracleTick
  \/ \E price \in Prices : FeedPrice(price)
  \/ \E b \in BOOLEAN : FeedGas(b) \/ FeedLiquidity(b) \/ Assess(b)

OracleSpec == OracleInit /\ [][OracleNext]_oracleVars
-----------------------------------------------------------------------------
(* Properties *)

\* The ranges of the fields.
OracleTypeOK ==
  /\ oracleTime \in 1 .. MaxOracleTime /\ lastUpdate \in 0 .. oracleTime
  /\ Range(prices) \subseteq [price : Prices, at : 1 .. oracleTime]
  /\ gasSpike \in BOOLEAN /\ liquidityLow \in BOOLEAN
  /\ report = NoReport \/ report.signal \in VolatilitySignal

\* A window whose price moved by two percent from the first to the last.
TwoPercentMove(window) ==
  LET first == window[1].price  last == window[Len(window)].price
  IN  Len(window) >= 2 /\ first > 0 /\ (50 * (last - first) >= first \/ 50 * (first - last) >= first)

\* The prices fed in the window before the last report, none of them dropped.
MarketMoved == TwoPercentMove(Since(SubSeq(fed, 1, judged), report.at - TwapWindow))

\* A rebase is unlocked only by a report whose window really held a move of two
\* percent and whose newest price was fresh, and a report says the market is
\* flat only when it was: the pruning at each feed, which runs on a clock of its
\* own, never takes a price away from a window that is judged later.
UnlockedByMarket ==
  report # NoReport =>
    /\ CanUnlockRebase => MarketMoved /\ report.at - fed[judged].at <= Staleness
    /\ report.signal = "VOLATILITY_PAUSED" => ~ MarketMoved
=============================================================================
