--------------------------- MODULE StrategyHealth ---------------------------
(***************************************************************************)
(* The health of one strategy: strategy_health/engine.py update_health     *)
(* with its drift detector, anomaly detector and alert manager, run by the *)
(* scans and by every reader of GET /strategy-health, and the operator's   *)
(* pause, resume and recalculate (api/v1/health.py).  Each commits several *)
(* times.  Every trade wins or loses the same amount.                      *)
(***************************************************************************)
EXTENDS Integers, Sequences, FiniteSets

CONSTANTS
  Warmup,       \* MIN_TRADE_WARMUP
  Streak,       \* losses in a row that are an anomaly
  MaxTrades     \* bound: trades

ASSUME HealthAssumption ==
  Warmup \in Nat \ {0} /\ Streak \in Nat \ {0} /\ MaxTrades \in Nat

Checkers == {"scan", "reader"}

VARIABLES
  trades,     \* the trades in order: whether each won, and whether it is the strategy's
  enabled,    \* StrategySettings.is_enabled
  state,      \* new_state of the newest StrategyStateHistory row
  check       \* each checker: where update_health is, its verdict, the state it read

healthVars == <<trades, enabled, state, check>>

TradeType == [won : BOOLEAN, own : BOOLEAN]
States == {"active", "degraded", "paused"}
NoCheck == [pc |-> "idle", verdict |-> "none", was |-> "active"]

-----------------------------------------------------------------------------
(* The verdict on a list of trades *)

Wins(s) == Len(SelectSeq(s, LAMBDA t : t.won))
LosingStreak(s) == Len(s) >= Streak /\ \A i \in (Len(s) - Streak + 1)..Len(s) : ~s[i].won

\* Of the drift's weights, a negative expectancy alone makes 0.75 at least, beyond the critical
\* threshold; as many losses as wins is a Sharpe of zero: 0.55, beyond the warning.
DriftIsCritical(s) == 2 * Wins(s) < Len(s)
DriftIsWarning(s) == 2 * Wins(s) = Len(s)

\* evaluate_alert, after the warm-up: an anomaly is as critical as the drift.
Verdict(s) ==
  IF Len(s) < Warmup THEN "warmup"
  ELSE IF DriftIsCritical(s) \/ LosingStreak(s) THEN "critical"
  ELSE IF DriftIsWarning(s) THEN "warning"
  ELSE "healthy"

Own == SelectSeq(trades, LAMBDA t : t.own)
NewState(verdict) ==
  CASE verdict = "critical" -> "paused" [] verdict = "warning" -> "degraded"
    [] verdict = "healthy" -> "active"

-----------------------------------------------------------------------------
(* update_health, commit by commit *)

\* The trades are read, judged, and the alert is committed; then the state is read.
Examine(a) ==
  /\ check[a].pc \in {"idle", "done"}
  /\ LET v == Verdict(Own) IN
     check' = [check EXCEPT ![a] =
       [pc |-> CASE v = "warmup" -> "done" [] v = "critical" -> "flag" [] OTHER -> "log",
        verdict |-> v, was |-> state]]
  /\ UNCHANGED <<trades, enabled, state>>

\* Mutant: the flag is cleared only by the check that records the transition to paused.
DisableOnce(a) ==
  /\ check[a].pc = "flag"
  /\ enabled' = (enabled /\ check[a].was = "paused")
  /\ check' = [check EXCEPT ![a].pc = "log"]
  /\ UNCHANGED <<trades, state>>

\* pause_strategy: the flag is cleared whenever it is set, in a commit of its own.
Disable(a) ==
  /\ check[a].pc = "flag"
  /\ enabled' = FALSE
  /\ check' = [check EXCEPT ![a].pc = "log"]
  /\ UNCHANGED <<trades, state>>

\* The transition, if the new state is not the one that was read.
LogState(a) ==
  /\ check[a].pc = "log"
  /\ state' = IF NewState(check[a].verdict) # check[a].was
              THEN NewState(check[a].verdict) ELSE state
  /\ check' = [check EXCEPT ![a].pc = "done"]
  /\ UNCHANGED <<trades, enabled>>

\* The checker's process dies, or its request does.
Abandon(a) ==
  /\ check[a].pc \in {"flag", "log"}
  /\ check' = [check EXCEPT ![a] = NoCheck]
  /\ UNCHANGED <<trades, enabled, state>>

-----------------------------------------------------------------------------
(* The operator, and the trades *)

Pause == enabled' = FALSE /\ state' = "paused" /\ UNCHANGED <<trades, check>>
Resume == enabled' = TRUE /\ state' = "active" /\ UNCHANGED <<trades, check>>

Prefixes == {SubSeq(trades, 1, n) : n \in Warmup..Len(trades)}

\* Every prefix of all strategies' trades is judged as the strategy's own; the last one is
\* the list itself.
Replay ==
  /\ enabled' = (enabled /\ \A s \in Prefixes : Verdict(s) # "critical")
  /\ state' = IF Prefixes = {} THEN state ELSE NewState(Verdict(trades))
  /\ UNCHANGED <<trades, check>>

TradeCloses ==
  /\ Len(trades) < MaxTrades
  /\ \E t \in TradeType : trades' = Append(trades, t)
  /\ UNCHANGED <<enabled, state, check>>

-----------------------------------------------------------------------------
HealthInit ==
  /\ trades = <<>> /\ enabled = TRUE /\ state = "active"
  /\ check = [a \in Checkers |-> NoCheck]

HealthTypeOK ==
  /\ trades \in Seq(TradeType) /\ Len(trades) <= MaxTrades
  /\ enabled \in BOOLEAN /\ state \in States
  /\ check \in [Checkers -> [pc : {"idle", "flag", "log", "done"}, was : States,
                 verdict : {"none", "warmup", "critical", "warning", "healthy"}]]

\* A strategy whose trades stay critical ends up disabled, and stays so, as long as anybody
\* keeps checking it: whatever operators resume, checkers die and checks overlap
\* (engine.py:88, de-authorize strategy execution).
CriticalIsStopped ==
  (<>[](Verdict(Own) = "critical") /\ []<>(check["reader"].pc = "flag"))
    => <>[](~enabled)
=============================================================================
