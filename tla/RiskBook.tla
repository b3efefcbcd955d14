------------------------------ MODULE RiskBook ------------------------------
(***************************************************************************)
(* How much the live bot risks: account/engine.py (snapshots, fallback,    *)
(* peak and drawdown), services/risk/manager.py (approve_entry) and the    *)
(* multipliers and filters that services/trading_engine.py scan_symbol     *)
(* puts around it, over a book of several positions and a cycle that sizes *)
(* all its entries with the equity it read at its start.  Ratios are       *)
(* percentages; an entry price is 1, so a quantity is a notional.          *)
(***************************************************************************)
EXTENDS Integers, FiniteSets, FiniteSetsExt

CONSTANTS
  Symbols,
  Worths,        \* what the account may be worth
  Unpriced,      \* what the positions whose price cannot be read may be worth
  Fallback,      \* fallback_equity
  MaxOpen,       \* max_open_positions
  Capital,       \* max_capital_per_trade_pct
  Gross, Net,    \* max_total_exposure_pct, max_net_exposure_pct
  Betas,         \* each symbol's beta; Net bounds the weighted book too
  MaxRisk,       \* max_risk_per_trade_pct
  DayLoss,       \* daily_max_loss_pct; the weekly limit has the same form
  MaxDrawdown, Floor,          \* max_account_drawdown_pct, drawdown_derisk_floor
  Atrs, AtrMultiplier,         \* ATR as a share of the price, and the stop's multiple of it
  RewardRisk,    \* min_reward_risk
  VolTarget,     \* vol_target_atr_pct
  Edges,         \* kelly_f of the track record, None without one
  Markets,       \* what the filters and multipliers of scan_symbol may find (see MarketType)
  Correlation,   \* of a pair of symbols
  MaxPair, MaxMean,            \* max_position_correlation, max_portfolio_correlation
  MaxAge         \* max_equity_staleness_seconds, in ticks

None == -1000

ASSUME LimitsAssumption == {MaxOpen, Capital, Gross, Net, MaxRisk, DayLoss, Floor,
                            AtrMultiplier, RewardRisk, VolTarget, Fallback, MaxAge} \subseteq Nat
ASSUME WorthsAssumption == Worths \subseteq Nat \ {0} /\ MaxDrawdown \in Nat \ {0}
\* models/trading.py ck_atr_multiplier: the stop's multiple is positive.
ASSUME AtrsAssumption == Atrs \subseteq Nat \ {0} /\ AtrMultiplier # 0
ASSUME EdgesAssumption == Edges \subseteq Int
ASSUME UnpricedAssumption == \A u \in Unpriced, w \in Worths : u \in 0..w

VARIABLES
  worth,      \* what the account is worth
  last,       \* the newest snapshot: equity, source and age
  peak,       \* the highest equity of each source
  carried,    \* the equity carried into the day, None without a snapshot
  tripped,    \* the circuit breaker
  book,       \* the open positions: side, notional and stop distance, by symbol
  cycle,      \* the cycle: where it is, the equity it sizes with, the symbols left
  reported    \* history: what the exchange said the account is worth when the cycle asked, 0 if it failed

vars == <<worth, last, peak, carried, tripped, book, cycle, reported>>

Least(a, b) == IF a < b THEN a ELSE b
Most(a, b) == IF a > b THEN a ELSE b
Clamp(lo, x, hi) == Most(lo, Least(x, hi))
Magnitude(x) == Most(x, -x)
Percent(p, x) == (p * x) \div 100

-----------------------------------------------------------------------------
(* The book *)

Flat == [side |-> "none", notional |-> 0, stop |-> 0]
Held == {s \in Symbols : book[s] # Flat}
Signed(side, n) == IF side = "short" THEN -n ELSE n

OpenNotional == MapThenSumSet(LAMBDA s : book[s].notional, Held)
NetNotional == MapThenSumSet(LAMBDA s : Signed(book[s].side, book[s].notional), Held)
Weighted(s, n) == (Betas[s] * n) \div 100
BetaNotional ==
  MapThenSumSet(LAMBDA s : Weighted(s, Signed(book[s].side, book[s].notional)), Held)

-----------------------------------------------------------------------------
(* Snapshots of the account *)

Snapshot(equity, source) == [equity |-> equity, source |-> source, age |-> 0]

\* last_snapshot, or the configured equity when there is none.
LatestEquity == IF last.equity > 0 THEN last.equity ELSE Fallback
Copied == IF last.source = "none" THEN Fallback ELSE last.equity

\* Mutant: the placeholder equity counts as the account's.
FetchedAnyway(fails, unpriced) ==
  IF fails THEN Snapshot(Copied, "exchange") ELSE Snapshot(worth - unpriced, "exchange")

\* fetch_snapshot: balances that cannot be read are replaced by the last ones, under a new
\* date; a position whose price cannot be read counts for nothing.
Fetched(fails, unpriced) ==
  IF fails THEN Snapshot(Copied, "fallback") ELSE Snapshot(worth - unpriced, "exchange")

\* peak_equity: exchange rows only, as long as there is one.
Peak == IF peak["exchange"] > 0 THEN peak["exchange"] ELSE Most(peak["fallback"], LatestEquity)
Drawdown == (100 * (Peak - LatestEquity)) \div Most(Peak, 1)

DayPnl(equity) == equity - carried
LossLimit(equity) == DayPnl(equity) <= -Percent(DayLoss, equity)

Refresh ==
  /\ cycle.pc = "idle"
  /\ \E fails \in BOOLEAN, unpriced \in {0} \cup (IF Held = {} THEN {} ELSE Unpriced) :
       LET snap == Fetched(fails, unpriced) IN
       /\ last' = snap
       /\ peak' = [peak EXCEPT ![snap.source] = Most(@, snap.equity)]
       /\ carried' = IF carried = None THEN snap.equity ELSE carried
       /\ reported' = IF fails THEN 0 ELSE worth
       /\ cycle' = [pc |-> "gates", equity |-> snap.equity, left |-> {}]
  /\ UNCHANGED <<worth, tripped, book>>

-----------------------------------------------------------------------------
(* The gates of run_cycle *)

Breach == LossLimit(cycle.equity) \/ Drawdown >= MaxDrawdown

\* The depeg halt is Rest, too.
Rest ==
  /\ cycle.pc \in {"gates", "scan"}
  /\ cycle' = [pc |-> "idle", equity |-> 0, left |-> {}]
  /\ UNCHANGED <<worth, last, peak, carried, tripped, book, reported>>

Trip ==
  /\ cycle.pc = "gates"
  /\ ~tripped /\ Breach
  /\ tripped' = TRUE
  /\ cycle' = [pc |-> "idle", equity |-> 0, left |-> {}]
  /\ UNCHANGED <<worth, last, peak, carried, book, reported>>

Trustworthy == last.source # "fallback" /\ last.age <= MaxAge

Gates ==
  /\ cycle.pc = "gates"
  /\ ~tripped /\ ~Breach
  /\ Trustworthy
  /\ cycle' = [cycle EXCEPT !.pc = "scan", !.left = Symbols]
  /\ UNCHANGED <<worth, last, peak, carried, tripped, book, reported>>

-----------------------------------------------------------------------------
(* approve_entry *)

Cap == Percent(Capital, cycle.equity)
Budget == Percent(MaxRisk, cycle.equity)
Headroom == Percent(Gross, cycle.equity) - OpenNotional

\* The exposure guards look at the notional before any scaling.
ExposureAllows(s, side) ==
  /\ OpenNotional + Cap <= Percent(Gross, cycle.equity)
  /\ Magnitude(NetNotional + Signed(side, Cap)) <= Percent(Net, cycle.equity)
  /\ Magnitude(BetaNotional + Weighted(s, Signed(side, Cap))) <= Percent(Net, cycle.equity)

\* A long's stop and a short's target stay above zero; a trend has no target.
LevelsValid(side, stop, trend) ==
  IF side = "long" THEN stop < 100 ELSE trend \/ stop * RewardRisk < 100

ApproveEntry(s, side, stop, trend) ==
  /\ ~tripped
  /\ Cardinality(Held) < MaxOpen
  /\ ExposureAllows(s, side)
  /\ ~LossLimit(cycle.equity)
  /\ LevelsValid(side, stop, trend)

VolMultiplier(atr) == Clamp(25, (100 * VolTarget) \div atr, 150)

\* _kelly_scale, with a quarter of the Kelly fraction.
KellyScale(f) ==
  CASE f = None -> 100
    [] f < 0 /\ f # None -> 10
    [] f >= 0 -> Clamp(25, f \div 4, 100)

\* The loss at the stop is the risk budget, within the notional cap.
RiskSized(stop) == Least((100 * Budget) \div stop, Cap)

ClampGross(n) == IF Headroom > 0 THEN Least(n, Headroom) ELSE n

\* Mutant: the loss is bounded before the volatility and Kelly scaling.
QuantityEarly(atr, f) ==
  LET stop == atr * AtrMultiplier
      bounded == Least(RiskSized(stop), (100 * Budget) \div stop)
  IN ClampGross(Percent(KellyScale(f), Percent(VolMultiplier(atr), bounded)))

Quantity(atr, f) ==
  LET stop == atr * AtrMultiplier
      scaled == Percent(KellyScale(f), Percent(VolMultiplier(atr), RiskSized(stop)))
  IN Least(ClampGross(scaled), (100 * Budget) \div stop)

-----------------------------------------------------------------------------
(* scan_symbol around it *)

MarketType == [rate: Int, imbalance: Int, move: Int, htf: {"up", "down", "unknown"},
               drift: Nat, vol: Nat, regime: Nat, degraded: BOOLEAN]
ASSUME MarketsAssumption == Markets \subseteq MarketType

\* _check_mtf_filter: the higher timeframe must not point the other way.
TrendAllows(side, market) == market.htf # IF side = "long" THEN "down" ELSE "up"

\* _check_slippage_guard: the price must not have moved against the entry by more than 1%.
SlippageAllows(side, market) == Signed(side, market.move) <= 1

\* Thresholds of 5 (a rate in hundredths of a percent) and 30 (an imbalance in percent).
FundingMultiplier(side, market) ==
  LET collects == -Signed(side, market.rate) IN
  IF collects < -5 THEN 50
  ELSE IF collects <= 5 THEN 100 ELSE 100 + Percent(25, Least(20 * (collects - 5), 100))

ImbalanceMultiplier(side, market) == IF Signed(side, market.imbalance) < -30 THEN 50 ELSE 100

HealthMultiplier(market) ==
  CASE market.drift <= 30 -> 100
    [] market.drift \in 31..50 -> 70
    [] market.drift \in 51..70 -> 40
    [] market.drift > 70 -> 0

PortfolioMultiplier(market) ==
  IF market.vol = 0 THEN 100 ELSE Clamp(50, 200 \div market.vol, 150)

Scale(side, market) ==
  LET data == IF market.degraded THEN 50 ELSE 100
      quality == Percent(data, Percent(HealthMultiplier(market), market.regime))
      micro == Percent(FundingMultiplier(side, market), ImbalanceMultiplier(side, market))
  IN Percent(quality, Percent(micro, PortfolioMultiplier(market)))

DrawdownMultiplier ==
  IF Drawdown <= 0 THEN 100
  ELSE Most(Floor, Least(100 - (100 * Drawdown) \div MaxDrawdown, 100))

\* Mutant: the boosted size is not clamped again.
FinalQuantityUnclamped(atr, f, scale) == Percent(Percent(scale, DrawdownMultiplier), Quantity(atr, f))

\* _approve_risk_and_size: the multipliers come last, and the gross cap once more.
FinalQuantity(atr, f, scale) ==
  ClampGross(Percent(Percent(scale, DrawdownMultiplier), Quantity(atr, f)))

\* _check_correlation_filter: with each open position, and the mean over all pairs.
CorrelationAllows(s) ==
  LET others == Held \ {s}
      pairs == {p \in SUBSET (others \cup {s}) : Cardinality(p) = 2}
  IN /\ \A o \in others : Correlation[{s, o}] <= MaxPair
     /\ Cardinality(others) >= 2 =>
          MapThenSumSet(LAMBDA p : Correlation[p], pairs) <= MaxMean * Cardinality(pairs)

Enter(s, side, trend, atr, f, market) ==
  /\ cycle.pc = "scan" /\ s \in cycle.left
  /\ book[s] = Flat
  /\ ApproveEntry(s, side, atr * AtrMultiplier, trend)
  /\ TrendAllows(side, market)
  /\ FinalQuantity(atr, f, Scale(side, market)) > 0
  /\ CorrelationAllows(s)
  /\ SlippageAllows(side, market)
  /\ book' = [book EXCEPT ![s] =
                [side |-> side, notional |-> FinalQuantity(atr, f, Scale(side, market)),
                 stop |-> atr * AtrMultiplier]]
  /\ cycle' = [cycle EXCEPT !.left = @ \ {s}]
  /\ UNCHANGED <<worth, last, peak, carried, tripped, reported>>

\* A filter or a gate says no, there is no signal, or the order fails.
Skip(s) ==
  /\ cycle.pc = "scan" /\ s \in cycle.left
  /\ cycle' = [cycle EXCEPT !.left = @ \ {s}]
  /\ UNCHANGED <<worth, last, peak, carried, tripped, book, reported>>

-----------------------------------------------------------------------------
(* The monitor, the market, the clock and the operator *)

Close(s) ==
  /\ book[s] # Flat
  /\ book' = [book EXCEPT ![s] = Flat]
  /\ UNCHANGED <<worth, last, peak, carried, tripped, cycle, reported>>

Move ==
  /\ \E w \in Worths : w # worth /\ worth' = w
  /\ UNCHANGED <<last, peak, carried, tripped, book, cycle, reported>>

\* Time passes; the age is counted up to the first stale value.
Tick ==
  /\ last.source # "none" /\ last.age <= MaxAge
  /\ last' = [last EXCEPT !.age = @ + 1]
  /\ UNCHANGED <<worth, peak, carried, tripped, book, cycle, reported>>

\* equity_at_period_start: the newest snapshot before midnight.
Midnight ==
  /\ last.source # "none"
  /\ carried' = last.equity
  /\ UNCHANGED <<worth, last, peak, tripped, book, cycle, reported>>

Reset ==
  /\ tripped
  /\ tripped' = FALSE
  /\ UNCHANGED <<worth, last, peak, carried, book, cycle, reported>>

Init ==
  /\ worth \in Worths
  /\ last = [equity |-> 0, source |-> "none", age |-> 0]
  /\ peak = [source \in {"exchange", "fallback"} |-> 0]
  /\ carried = None
  /\ tripped = FALSE
  /\ book = [s \in Symbols |-> Flat]
  /\ cycle = [pc |-> "idle", equity |-> 0, left |-> {}]
  /\ reported = 0

Next ==
  \/ Refresh \/ Trip \/ Gates \/ Rest
  \/ \E s \in Symbols, side \in {"long", "short"}, trend \in BOOLEAN,
        atr \in Atrs, f \in Edges, market \in Markets :
       Enter(s, side, trend, atr, f, market)
  \/ \E s \in Symbols : Skip(s) \/ Close(s)
  \/ Move \/ Tick \/ Midnight \/ Reset

Spec == Init /\ [][Next]_vars

-----------------------------------------------------------------------------
(* Properties *)

Sources == {"exchange", "fallback"}
Equities == 0..Most(Fallback, Max(Worths))

\* The variables keep their types, and no position is larger than the gross cap of the
\* most the account can be worth, which the placeholder equity would allow.
TypeOK ==
  /\ worth \in Worths
  /\ last \in [equity: Equities, source: Sources \cup {"none"}, age: 0..MaxAge + 1]
  /\ peak \in [Sources -> Equities]
  /\ carried \in Equities \cup {None}
  /\ tripped \in BOOLEAN
  /\ reported \in Worths \cup {0}
  /\ cycle \in [pc: {"idle", "gates", "scan"}, equity: Equities, left: SUBSET Symbols]
  /\ \A s \in Held : book[s].notional \in 1..Percent(Gross, Max(Worths))

Entered(s) == book[s] = Flat /\ book'[s] # Flat

\* "Re-clamp the final notional to the remaining gross-exposure headroom so a boost can
\* never breach max_total_exposure_pct": after an entry the whole book is within the cap
\* of the equity it was sized with, whatever the multipliers, the positions a cycle
\* opened before it and the closes in between.
GrossCapped ==
  [][\A s \in Symbols : Entered(s) => OpenNotional' <= Percent(Gross, cycle.equity)]_vars

\* What the multipliers of scan_symbol make of the risk manager's quantity.
Applied(side, market) == Percent(Scale(side, market), DrawdownMultiplier)

\* The loss at the stop is within max_risk_per_trade_pct of the equity, times the multiplier
\* that scan_symbol found for this very entry: volatility and Kelly scaling, which come
\* between the two and may exceed 1 as well, never add to it, and a multiplier below 1 (a
\* worn strategy, doubtful data, a drawdown) takes its share off the risk, not off a size
\* that was clamped before.
RiskKept ==
  [][\A s \in Symbols : Entered(s) =>
       \A side \in {"long", "short"}, trend \in BOOLEAN, atr \in Atrs, f \in Edges,
          market \in Markets :
         Enter(s, side, trend, atr, f, market) =>
           book'[s].notional * book'[s].stop <= Budget * Applied(side, market)]_vars

\* core/config.py:394 "a hard cap on any single trade's risk": no entry loses more than the
\* budget at its stop, whatever multiplied it.  Not kept: a multiplier above 1 comes after
\* the risk manager's clamp, and only the gross cap is taken once more after it.
RiskHardCapped ==
  [][\A s \in Symbols : Entered(s) => book'[s].notional * book'[s].stop <= 100 * Budget]_vars

\* "Never size against a fallback snapshot": an entry is sized with what the exchange
\* reported to this cycle, and by no more than that: neither the placeholder nor a copy of
\* what an earlier cycle was told, as fresh by its date as any snapshot, reaches the sizing.
TrustedEquity ==
  [][\A s \in Symbols : Entered(s) => cycle.equity <= reported]_vars
=============================================================================
