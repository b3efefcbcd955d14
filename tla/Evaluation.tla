----------------------------- MODULE Evaluation -----------------------------
(***************************************************************************)
(* How a strategy is judged by its backtests on the first n candles:       *)
(* strategy_research/backtest_runner.py evaluate, the production gate of   *)
(* strategy_research/evaluator.py and the stages, the gate and the ranking *)
(* of auto_learning.  Ratios are hundredths; one bar is one day.  The      *)
(* Monte Carlo's ruin probability is a random experiment and is given.     *)
(***************************************************************************)
EXTENDS Backtest, FiniteSets

CONSTANTS
  MinCandles,   \* MIN_CANDLES
  Windows,      \* research_wf_windows
  Folds,        \* research_cv_folds
  Purge,        \* research_cv_purge_bars
  MinTrades,    \* research_min_trades
  MinDays       \* research_min_track_days

ASSUME EvaluationAssumption ==
  /\ {MinCandles, Windows, Folds, MinTrades} \subseteq Nat \ {0}
  /\ Purge \in Nat /\ MinDays \in Nat

-----------------------------------------------------------------------------
(* The backtests of evaluate *)

\* _run_safe: with too few candles there is no report, and a ratio of zero.
SafeSharpe(p, from, to) == IF to - from < MinCandles THEN 0 ELSE Report(p, from, to).sharpe

\* The share of the anchored windows, each longer than the one before, that made a profit.
Profitable(p, n) ==
  {i \in 1..Windows : LET end == (n * i) \div Windows IN
                      end >= MinCandles /\ Report(p, 0, end).net > 0}
Consistency(p, n) ==
  IF n < 2 * MinCandles \/ Windows < 2 THEN 0
  ELSE (100 * Cardinality(Profitable(p, n))) \div Windows

\* Purged cross-validation.  Without candles for all folds nothing is held against the
\* strategy; with folds that the purge leaves too short it counts as overfit.
FoldSize(n) == n \div (Folds + 1)
InSample(p, n) ==
  SumFunction([k \in 1..Folds |-> SafeSharpe(p, 0, Max({k * FoldSize(n) - Purge, 0}))])
OutOfSample(p, n) ==
  SumFunction([k \in 1..Folds |->
    SafeSharpe(p, k * FoldSize(n) + Purge, (k + 1) * FoldSize(n) - Purge)])
FoldsOverfit(p, n) ==
  /\ Folds >= 2 /\ n >= MinCandles * (Folds + 1)
  /\ \/ FoldSize(n) - 2 * Purge < MinCandles \div 2
     \/ InSample(p, n) > 50 * Folds /\ 2 * OutOfSample(p, n) < InSample(p, n)

\* The simple split of 70 to 30.
Train(p, n) == SafeSharpe(p, 0, (7 * n) \div 10)
Test(p, n) == SafeSharpe(p, (7 * n) \div 10, n)
Overfit(p, n) ==
  \/ FoldsOverfit(p, n)
  \/ Train(p, n) > 50 /\ 2 * Test(p, n) < Train(p, n)
  \/ Train(p, n) > 0 /\ Test(p, n) < 0

\* The deflated Sharpe ratio: with 48 trials the p-value is at most 0.05 when the ratio is at
\* least 3.906 standard errors, one over the root of the trades.
Significant(sharpe, trades) ==
  sharpe > 0 /\ sharpe * sharpe * (IF trades = 0 THEN MinTrades ELSE trades) >= 152600

Evaluated(p, n, ruin) ==
  [report |-> Report(p, 0, n), consistency |-> Consistency(p, n), overfit |-> Overfit(p, n),
   outSharpe |-> Test(p, n), days |-> n - 1, ruin |-> ruin]

-----------------------------------------------------------------------------
(* The judgements *)

\* compute_fitness, in thousandths.
Fitness(e) ==
  4 * e.report.sharpe + 3 * e.report.stability + 2 * Clamp(e.report.profitFactor, 0, 500)
    - 10 * e.report.drawdown

\* The production gate.
Sound(e) ==
  /\ ~e.overfit
  /\ e.report.sharpe >= 100 /\ e.report.drawdown <= 20 /\ e.report.stability >= 50
  /\ e.consistency >= 50 /\ e.report.trades >= MinTrades /\ e.days >= MinDays
  /\ Significant(e.report.sharpe, e.report.trades)

\* The six stages of the validation pipeline.
StagesPassed(e) ==
  /\ e.report.trades >= MinTrades
  /\ e.consistency >= 50 /\ e.consistency >= 60
  /\ e.ruin <= 20
  /\ ~e.overfit /\ e.outSharpe > 0

Gated(e) ==
  e.report.sharpe >= 150 /\ e.report.profitFactor >= 130 /\ e.consistency >= 60 /\ e.ruin <= 20
  /\ ~e.overfit /\ StagesPassed(e)

\* compute_ranking, 0 to 10000.
Ranking(e) ==
  30 * (IF e.overfit THEN 0 ELSE 100 - e.ruin) + 25 * e.consistency + 20 * e.report.stability
    + 15 * Clamp(e.report.sharpe \div 3, 0, 100)
    + 10 * Clamp(100 - (100 * e.report.drawdown) \div 30, 0, 100)

Worthy(e) == StagesPassed(e) /\ Gated(e) /\ Ranking(e) >= 6000

Verdict(p, n, ruin) ==
  LET e == Evaluated(p, n, ruin) IN
  [fit |-> Fitness(e), sound |-> Sound(e), worthy |-> Worthy(e), overfit |-> e.overfit]

=============================================================================
