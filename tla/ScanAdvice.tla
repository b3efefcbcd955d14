----------------------------- MODULE ScanAdvice -----------------------------
(***************************************************************************)
(* What a live scan is told before it may enter: services/trading_engine   *)
(* scan_symbol from the candles to the verdict on the strategy, over the   *)
(* market regime, the strategy's health and, before the scan, the go-live  *)
(* gate of the cycle.  They are read one after the other, and all change   *)
(* meanwhile: the paper worker and the API are other processes, and every  *)
(* read and every commit of the scan is a step.                            *)
(***************************************************************************)
EXTENDS MarketRegime, StrategyHealth, WalkForward

CONSTANTS
  Live,         \* live_strategy
  MaxEvents     \* bound: what the market, the operators and the other processes do, and crashes

ASSUME LiveAssumption ==
  Live \in Strategies /\ DOMAIN Trials = Strategies /\ MaxEvents \in Nat

VARIABLES
  routing,    \* regime_routing_enabled
  required,   \* live_require_walkforward
  scan,       \* the scan: its step, its strategy, the regime it was routed by
  events      \* events left

vars == <<market, regimeVars, healthVars, walkForwardVars, routing, required, scan, events>>

\* Between two scans.
Resting == [pc |-> "idle", strategy |-> Live, regime |-> "none"]
Ends == scan' = Resting

\* The name StrategySettings.current() gives the one row it creates.
SettingsName == "momentum_breakout_v1"

Regime == UNCHANGED <<market, regimeVars>>
Health == UNCHANGED healthVars
Settings == UNCHANGED <<routing, required>>
Undisturbed == UNCHANGED <<walkForwardVars, events>> /\ Settings

-----------------------------------------------------------------------------
(* The scan *)

\* The cycle asks once, before it checks the equity and scans one symbol after the other.
PassGate ==
  /\ scan.pc = "idle" /\ (required => LiveStrategyValidated(Live))
  /\ scan' = [Resting EXCEPT !.pc = "validated"]
  /\ Regime /\ Health /\ Undisturbed

\* The strategy is enabled; the candles come, and INVALID data ends the scan.
Start ==
  /\ scan.pc = "validated"
  /\ IF enabled THEN scan' = [scan EXCEPT !.pc = "route"] ELSE Ends
  /\ Regime /\ Health /\ Undisturbed

\* With enough candles the regime is updated from the votes, else recorded as sideways.
Refresh == Update \/ ShortHistory

\* _resolve_strategy: with routing the regime is updated here and picks the strategy.
Resolve ==
  /\ scan.pc = "route"
  /\ IF routing
     THEN Refresh /\ scan' = [pc |-> "signal", strategy |-> Route(latest'.regime),
                              regime |-> latest'.regime]
     ELSE Regime /\ scan' = [scan EXCEPT !.pc = "signal"]
  /\ Health /\ Undisturbed

\* The strategy's signal, and the trend of the higher timeframe, which is awaited.
Signal ==
  /\ scan.pc = "signal"
  /\ Ends \/ scan' = [scan EXCEPT !.pc = IF routing THEN "filter" ELSE "refresh"]
  /\ Regime /\ Health /\ Undisturbed

RefreshUnrouted ==
  /\ scan.pc = "refresh" /\ Refresh
  /\ scan' = [scan EXCEPT !.pc = "filter"]
  /\ Health /\ Undisturbed

\* should_trade reads the newest record of the interval.
Filter ==
  /\ scan.pc = "filter"
  /\ IF Allows(scan.strategy, latest) THEN scan' = [scan EXCEPT !.pc = "health"] ELSE Ends
  /\ Regime /\ Health /\ Undisturbed

\* update_health; of a strategy without a settings row there is no flag to clear, and its
\* state is nobody else's.
Judged ==
  /\ scan.pc = "health"
  /\ IF scan.strategy = SettingsName
     THEN Examine("scan") /\ scan' = [scan EXCEPT !.pc = "judged"]
     ELSE Health /\ Ends
  /\ Regime /\ Undisturbed

\* The entry, or its refusal, once update_health has made its commits.
Decide ==
  /\ scan.pc = "judged" /\ check["scan"].pc = "done"
  /\ Ends
  /\ check' = [check EXCEPT !["scan"] = NoCheck]
  /\ UNCHANGED <<trades, enabled, state>> /\ Regime /\ Undisturbed

Scan == PassGate \/ Start \/ Resolve \/ Signal \/ RefreshUnrouted \/ Filter \/ Judged \/ Decide

-----------------------------------------------------------------------------
(* Everybody else *)

\* A reader of the API starts a check; the steps of the checks in progress.
Reads == Examine("reader") /\ Regime /\ UNCHANGED scan /\ Undisturbed
Committing(a) == (Disable(a) \/ LogState(a)) /\ Regime /\ UNCHANGED scan /\ Undisturbed

Spend == events > 0 /\ events' = events - 1 /\ Settings

\* The scheduler dies with the scan and its check.
Crash ==
  /\ scan # Resting /\ Ends
  /\ check' = [check EXCEPT !["scan"] = NoCheck]
  /\ UNCHANGED <<trades, enabled, state, walkForwardVars>> /\ Regime /\ Spend

ToHealth(action) == action /\ Regime /\ UNCHANGED <<scan, walkForwardVars>> /\ Spend
ToRegime(action) == action /\ Health /\ UNCHANGED <<scan, walkForwardVars>> /\ Spend
ToRuns(action) == action /\ Regime /\ Health /\ UNCHANGED scan /\ Spend

\* A run at work ends.
Ended(i) == (FinishRun(i) \/ FailRun(i)) /\ Regime /\ Health /\ UNCHANGED <<scan, events>> /\ Settings

Others ==
  \/ Reads \/ Crash
  \/ ToHealth(Pause) \/ ToHealth(Resume) \/ ToHealth(Replay) \/ ToHealth(TradeCloses)
  \/ ToHealth(Abandon("reader"))
  \/ ToRegime(Shift) \/ ToRegime(DefaultRow) \/ ToRegime(PaperRecord) \/ ToRegime(Recalculate)
  \/ ToRuns(StartRun) \/ ToRuns(DeleteRun) \/ ToRuns(ForgetRuns) \/ ToRuns(Age)
  \/ \E i \in working : Ended(i)

-----------------------------------------------------------------------------
Init ==
  /\ RegimeInit /\ HealthInit /\ WalkForwardInit
  /\ scan = Resting /\ routing \in BOOLEAN /\ required \in BOOLEAN /\ events = MaxEvents
Next == Scan \/ Others \/ \E a \in Checkers : Committing(a)

\* A check that was begun commits unless its process dies.  Nothing obliges the market to give
\* a signal, or a reader to come.
Fairness == \A a \in Checkers : WF_vars(Committing(a))
Spec == Init /\ [][Next]_vars /\ Fairness

-----------------------------------------------------------------------------
TypeOK ==
  /\ RegimeTypeOK /\ HealthTypeOK /\ WalkForwardTypeOK
  /\ events \in 0..MaxEvents /\ routing \in BOOLEAN /\ required \in BOOLEAN
  /\ scan \in [pc : {"idle", "validated", "route", "signal", "refresh", "filter", "health", "judged"},
               strategy : Strategies, regime : Regimes \cup {"none"}]

\* The filter refuses the strategy the router picked only when the votes are too divided, or
\* when somebody else recorded another regime while the scan waited for the higher timeframe
\* (router.py:14: "the routed strategy is always one the filter will then ALLOW").
RoutedAllowed ==
  [][scan.pc = "filter" /\ scan.regime # "none" /\ scan' = Resting /\ events' = events
       => Uncertain(latest) \/ latest.regime # scan.regime]_vars

\* With the gate on, whatever is started, deleted, outlived or left behind meanwhile, a cycle
\* scans with the live strategy only after a run on its own data approved that very strategy
\* (scheduler.py:195: "Stops an un-validated strategy from trading real money").
\* What routing picks passes no gate: Validated, without that exception, is not kept.
Validated == required /\ scan.pc # "idle" => scan.strategy \in proven
LiveValidated == routing \/ Validated
=============================================================================
