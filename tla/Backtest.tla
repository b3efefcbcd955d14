------------------------------ MODULE Backtest ------------------------------
(***************************************************************************)
(* The backtest: backtest/engine.py over the broker, the portfolio and the *)
(* metrics of the same package.  A strategy is what its indicators make of *)
(* the stored candles: the bars they buy on and the distances of stop and  *)
(* target.  Every entry is one unit; prices are points, ratios hundredths, *)
(* returns are points a bar.  Fees, funding and maker entries are left     *)
(* out, but an order that crosses the spread loses Cost points.            *)
(***************************************************************************)
EXTENDS Integers, Sequences, FiniteSetsExt, Functions

CONSTANTS
  Bars,         \* the stored candles, oldest first
  WarmUp,       \* bars an indicator needs before its first value
  InitialCash,
  MaxOpen,      \* max_open_positions
  Cost,         \* what slippage and half the spread take from a market order
  Trailing,     \* trailing_stop_pct, in hundredths
  Breakeven,    \* breakeven_stop_trigger_pct, in hundredths
  Year          \* bars in a year

BarType == [open : Nat, high : Nat, low : Nat, close : Nat]
ParametersType == [signals : SUBSET Nat, stop : Nat, target : Nat]

ASSUME BacktestAssumption ==
  /\ Bars \in Seq(BarType)
  /\ \A i \in DOMAIN Bars : Bars[i].low <= Bars[i].open /\ Bars[i].open <= Bars[i].high
                            /\ Bars[i].low <= Bars[i].close /\ Bars[i].close <= Bars[i].high
  /\ {WarmUp, InitialCash, MaxOpen, Cost} \subseteq Nat /\ {Trailing, Breakeven, Year} \subseteq Nat \ {0}

Clamp(x, low, high) == Max({low, Min({x, high})})
Root(k) == CHOOSE r \in 0..k : r * r <= k /\ k < (r + 1) * (r + 1)

-----------------------------------------------------------------------------
(* One bar after the other: broker.manage_exits, the entry, the signal *)

Empty == [cash |-> InitialCash, positions |-> <<>>, pnls |-> <<>>, equity |-> <<>>, pending |-> FALSE]

\* The stop trails the highest price and is raised to the entry, once, after a gain.
Raised(pos, bar) ==
  LET high == Max({pos.high, bar.high})
      stop == Max({pos.stop, (high * (100 - Trailing)) \div 100})
      even == ~pos.even /\ 100 * (high - pos.entry) >= Breakeven * pos.entry /\ stop < pos.entry
  IN  [pos EXCEPT !.high = high, !.stop = IF even THEN pos.entry ELSE stop, !.even = @ \/ even]

\* A stop fills at the low of its bar, a target at its price, and the stop is looked at first.
Stopped(pos, bar) == bar.low <= pos.stop
Leaves(pos, bar) == Stopped(pos, bar) \/ (pos.target > 0 /\ bar.high >= pos.target)
Price(pos, bar) == IF Stopped(pos, bar) THEN bar.low - Cost ELSE pos.target

ManageExits(acc, bar) ==
  LET raised == [i \in DOMAIN acc.positions |-> Raised(acc.positions[i], bar)]
      out == SelectSeq(raised, LAMBDA pos : Leaves(pos, bar))
  IN  [acc EXCEPT !.positions = SelectSeq(raised, LAMBDA pos : ~Leaves(pos, bar)),
                  !.cash = @ + SumFunction([i \in DOMAIN out |-> Price(out[i], bar)]),
                  !.pnls = @ \o [i \in DOMAIN out |-> Price(out[i], bar) - out[i].entry]]

\* The signal of the bar before is bought at the open of this one, after its exits.
Buy(acc, p, bar) ==
  LET entry == bar.open + Cost
      pos == [entry |-> entry, high |-> entry, even |-> FALSE, stop |-> bar.open - p.stop,
              target |-> IF p.target = 0 THEN 0 ELSE bar.open + p.target]
  IN  IF acc.pending /\ Len(acc.positions) < MaxOpen /\ pos.stop > 0 /\ acc.cash >= entry
      THEN [acc EXCEPT !.positions = Append(@, pos), !.cash = @ - entry] ELSE acc

Step(acc, p, i) ==
  LET next == Buy(ManageExits(acc, Bars[i]), p, Bars[i]) IN
  [next EXCEPT !.pending = Len(next.positions) < MaxOpen /\ i \in p.signals,
               !.equity = Append(@, next.cash + Len(next.positions) * Bars[i].close)]

\* prepare() drops the bars without indicators; what is still open at the end is sold.
Replayed(p, from, to) ==
  LET after[i \in (from + WarmUp)..to] ==
        IF i = from + WarmUp THEN Empty ELSE Step(after[i - 1], p, i)
      last == after[to]
  IN  IF to <= from + WarmUp THEN Empty
      ELSE [last EXCEPT !.pnls = @ \o [i \in DOMAIN last.positions |->
                                         Bars[to].close - Cost - last.positions[i].entry]]

-----------------------------------------------------------------------------
(* The metrics: compute_metrics *)

Gains(e) == [i \in 1..(Len(e) - 1) |-> e[i + 1] - e[i]]
Net(e) == IF e = <<>> THEN 0 ELSE e[Len(e)] - e[1]

\* The annual growth, without compounding.
Annual(e) == IF e = <<>> THEN 0 ELSE (100 * Year * Net(e)) \div (Len(e) * e[1])

\* Mean over deviation, annualised; zero when nothing deviates.
Sharpe(e) ==
  LET g == Gains(e)
      n == Len(g)
      spread == n * SumFunction([i \in DOMAIN g |-> g[i] * g[i]]) - Net(e) * Net(e)
      square == (100 * Year * Net(e) * Net(e) * (n - 1)) \div (n * spread)
  IN  IF n < 2 \/ spread = 0 THEN 0
      ELSE IF Net(e) < 0 THEN -Root(100 * square) ELSE Root(100 * square)

Drawdown(e) ==
  Max({0} \cup {(100 * (e[k[1]] - e[k[2]])) \div e[k[1]] :
                  k \in {k \in (DOMAIN e) \X (DOMAIN e) : k[1] <= k[2]}})

Won(pnls) == SumFunction([i \in DOMAIN pnls |-> Max({pnls[i], 0})])
Lost(pnls) == SumFunction([i \in DOMAIN pnls |-> Max({-pnls[i], 0})])
ProfitFactor(pnls) ==
  Min({500, IF Lost(pnls) = 0 THEN 100 * Won(pnls) ELSE (100 * Won(pnls)) \div Lost(pnls)})

\* The squared correlation of the equity after each trade with its number; fewer than four
\* trades are perfectly stable.
Stability(pnls) ==
  LET n == Len(pnls) + 1
      y == [k \in 1..n |-> SumFunction([i \in 1..(k - 1) |-> pnls[i]])]
      sum == SumFunction(y)
      x2 == (n * n * (n * n - 1)) \div 12
      y2 == n * SumFunction([k \in 1..n |-> y[k] * y[k]]) - sum * sum
      xy == n * SumFunction([k \in 1..n |-> k * y[k]]) - ((n * (n + 1)) \div 2) * sum
  IN  IF n = 1 THEN 0 ELSE IF n < 5 \/ y2 = 0 THEN 100 ELSE (100 * xy * xy) \div (x2 * y2)

Report(p, from, to) ==
  LET r == Replayed(p, from, to)
      e == r.equity
  IN  [net |-> Net(e), annual |-> Annual(e), sharpe |-> Sharpe(e), drawdown |-> Drawdown(e),
       profitFactor |-> ProfitFactor(r.pnls), stability |-> Stability(r.pnls), trades |-> Len(r.pnls)]
=============================================================================
