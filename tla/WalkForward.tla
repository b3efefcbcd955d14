---------------------------- MODULE WalkForward ----------------------------
(***************************************************************************)
(* Walk-forward validation and the go-live gate: the windows, the tuning,  *)
(* the checks and the decision of app/walkforward, the run rows of         *)
(* api/v1/walkforward.py, and services/strategy/validation.py, which the   *)
(* scheduler asks before it lets a cycle enter.  One symbol, the live      *)
(* timeframe, one bar a day.                                               *)
(***************************************************************************)
EXTENDS Backtest, FiniteSets

CONSTANTS
  Trials,       \* of each strategy: the parameters its sampler tries, in order
  TrainBars,    \* train_period_days
  TestBars,     \* test_period_days
  StepBars,     \* step_days
  Embargo,      \* embargo_days
  Stored,       \* how many candles a run may find
  Outcomes,     \* what the runs end with: a strategy and a status
  MaxRuns       \* bound: runs

VARIABLES
  runs,       \* walkforward_runs, by id
  working,    \* ids of the runs whose request is still at work
  horizon,    \* runs completed up to this one are older than live_validation_max_age_days
  proven      \* history: the strategies a run approved

walkForwardVars == <<runs, working, horizon, proven>>

-----------------------------------------------------------------------------
(* One run: splitter, optimizer, validator *)

Window(k, mode) ==
  LET cursor == k * StepBars
      test == cursor + TrainBars + Embargo
  IN  [trainFrom |-> IF mode = "expanding" THEN 0 ELSE cursor, trainTo |-> cursor + TrainBars,
       testFrom |-> test, testTo |-> test + TestBars]
Split(n, mode) == {Window(k, mode) : k \in {k \in 0..n : Window(k, mode).testTo < n}}

\* Sharpe, profit factor and growth against drawdown and thin samples.
Objective(r) ==
  r.sharpe + r.profitFactor + r.annual - 5 * r.drawdown - (r.drawdown * r.drawdown) \div 5
    - 10 * Max({0, 20 - r.trades})

\* The best trial in the training window, the first of equals.
Optimize(s, w) ==
  LET score == [i \in DOMAIN Trials[s] |-> Objective(Report(Trials[s][i], w.trainFrom, w.trainTo))]
  IN  Trials[s][Min({i \in DOMAIN score : \A j \in DOMAIN score : score[j] <= score[i]})]

Result(s, w) ==
  LET p == Optimize(s, w) IN
  [train |-> Report(p, w.trainFrom, w.trainTo), test |-> Report(p, w.testFrom, w.testTo)]

Efficiency(train, test) == IF train <= 0 THEN 0 ELSE Max({(100 * test) \div train, 0})

\* The profits of two windows of different lengths are compared as they are.
DetectOverfit(train, test) ==
  \/ train.sharpe > 100 /\ 2 * test.sharpe < train.sharpe
  \/ train.net > 0 /\ 10 * test.net < 3 * train.net
  \/ train.drawdown > 0 /\ test.drawdown > 2 * train.drawdown
  \/ Efficiency(train.net, test.net) < 30

Aggregate(results) ==
  LET count == Cardinality(DOMAIN results)
      Mean(f) == SumFunction(f) \div count
  IN  [consistency |-> (100 * Cardinality({w \in DOMAIN results : results[w].test.net > 0})) \div count,
       wfe |-> Efficiency(Mean([w \in DOMAIN results |-> results[w].train.annual]),
                          Mean([w \in DOMAIN results |-> results[w].test.annual])),
       sharpe |-> Mean([w \in DOMAIN results |-> results[w].test.sharpe]),
       profitFactor |-> Mean([w \in DOMAIN results |-> results[w].test.profitFactor]),
       drawdown |-> Max({results[w].test.drawdown : w \in DOMAIN results})]

\* 0 to 10000.
Robustness(a) ==
  30 * a.consistency + 25 * Clamp(a.wfe, 0, 100) + 20 * Clamp(a.sharpe \div 2, 0, 100)
    + 15 * Clamp(100 - (100 * a.drawdown) \div 30, 0, 100)
    + 10 * Clamp(a.profitFactor \div 2, 0, 100)

Approved(results) ==
  LET a == Aggregate(results) IN
  /\ Robustness(a) > 7000 /\ a.consistency > 60 /\ a.wfe > 50
  /\ a.sharpe > 150 /\ a.drawdown < 15
  /\ \A w \in DOMAIN results : ~DetectOverfit(results[w].train, results[w].test)

\* The status a run ends with; without a window the engine raises.
EndsAs(s, mode, n) ==
  LET results == [w \in Split(n, mode) |-> Result(s, w)] IN
  IF DOMAIN results = {} THEN "failed" ELSE IF Approved(results) THEN "completed" ELSE "rejected"

Judgements ==
  {[strategy |-> s, status |-> EndsAs(s, mode, n)] :
     s \in DOMAIN Trials, mode \in {"rolling", "expanding"}, n \in Stored}

ASSUME WalkForwardAssumption ==
  /\ \A s \in DOMAIN Trials : Trials[s] \in Seq(ParametersType) \ {<<>>}
  /\ {TrainBars, TestBars, StepBars} \subseteq Nat \ {0}
  /\ Embargo \in Nat /\ MaxRuns \in Nat /\ Stored \subseteq 0..Len(Bars) /\ Outcomes = Judgements

-----------------------------------------------------------------------------
(* The runs: api/v1/walkforward.py *)

Completions == {0} \cup {runs[i].at : i \in DOMAIN runs}

\* start_walkforward commits the row before it fetches the candles.
StartRun ==
  /\ Len(runs) < MaxRuns
  /\ \E s \in DOMAIN Trials : runs' = Append(runs, [strategy |-> s, status |-> "running", at |-> 0])
  /\ working' = working \cup {Len(runs) + 1}
  /\ UNCHANGED <<horizon, proven>>

\* The end of a request whose row may have been deleted meanwhile.
RunEnds(i, status) ==
  /\ i \in working /\ working' = working \ {i}
  /\ IF runs[i].status = "deleted" THEN UNCHANGED <<runs, proven>>
     ELSE /\ runs' = [runs EXCEPT ![i].status = status,
                  ![i].at = IF status = "failed" THEN 0 ELSE Max(Completions) + 1]
          /\ proven' = IF status = "completed" THEN proven \cup {runs[i].strategy} ELSE proven
  /\ UNCHANGED horizon

FinishRun(i) == \E o \in Outcomes : o.strategy = runs[i].strategy /\ RunEnds(i, o.status)

\* Anything on the way raises.
FailRun(i) == RunEnds(i, "failed")

DeleteRun ==
  /\ \E i \in DOMAIN runs : runs[i].status # "deleted" /\ runs' = [runs EXCEPT ![i].status = "deleted"]
  /\ UNCHANGED <<working, horizon, proven>>

\* The API process dies: nobody ends its runs.
ForgetRuns == working # {} /\ working' = {} /\ UNCHANGED <<runs, horizon, proven>>

\* The days pass.
Age == horizon < Max(Completions) /\ horizon' = horizon + 1 /\ UNCHANGED <<runs, working, proven>>

-----------------------------------------------------------------------------
(* The gate: validation.py *)

\* Mutant: the newest completed run of any strategy.
CompletedRunsOfAny(s) == {i \in DOMAIN runs : runs[i].status = "completed"}

CompletedRuns(s) == {i \in DOMAIN runs : runs[i].strategy = s /\ runs[i].status = "completed"}

LiveStrategyValidated(s) == \E i \in CompletedRuns(s) : runs[i].at > horizon

\* Not kept: a rejected run is filed under another status, which the gate passes over, so an
\* older approval outlives it (test_strategy_validation.py:71: "latest (failing) decides").
NewestDecides(s) ==
  LiveStrategyValidated(s) =>
    \A i \in DOMAIN runs : runs[i].strategy = s /\ runs[i].status = "rejected"
      => \E j \in CompletedRuns(s) : runs[j].at > runs[i].at

-----------------------------------------------------------------------------
WalkForwardInit == runs = <<>> /\ working = {} /\ horizon = 0 /\ proven = {}

WalkForwardTypeOK ==
  /\ runs \in Seq([strategy : DOMAIN Trials, at : Nat,
                   status : {"running", "completed", "rejected", "failed", "deleted"}])
  /\ working \subseteq DOMAIN runs /\ horizon \in Nat /\ proven \subseteq DOMAIN Trials
=============================================================================
