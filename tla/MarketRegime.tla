---------------------------- MODULE MarketRegime ----------------------------
(***************************************************************************)
(* The market-regime engine and its filter: the ensemble vote of           *)
(* market_regime/detector.py, the records and the cooldown of engine.py,   *)
(* the rules of signals.py, the router of services/strategy/router.py.     *)
(* One symbol.  Every caller builds an engine of its own, so the cooldown  *)
(* counter is rebuilt from the records before each update.                 *)
(***************************************************************************)
EXTENDS Integers, Sequences

CONSTANTS
  Votes         \* the ensembles' votes the market gives rise to: [rule, cluster, ml]

Cooldown == 3   \* _REGIME_COOLDOWN_BAR_COUNT
Regimes == {"bull", "bear", "sideways", "high_volatility", "low_volatility", "breakout"}
Strategies == {"momentum_breakout_v1", "capital_preservation_v1"}

\* What each voter can answer.  The rules compare the band width with its own value, so of the
\* volatility votes only a realised volatility and a band of width zero are left; no label
\* of the classifier is a breakout.
TrendVotes == {"bull", "bear", "sideways"}
VolatilityVotes == {"high_volatility", "low_volatility"}
RuleVotes == TrendVotes \cup VolatilityVotes
ClusterVotes == Regimes
MlVotes == {"bull", "bear", "sideways", "high_volatility", "low_volatility"}
VoteType == [rule : RuleVotes, cluster : ClusterVotes, ml : MlVotes]

ASSUME VotesAssumption == Votes \subseteq VoteType

VARIABLES
  market,     \* the votes on the newest candle
  recent,     \* regimes of the newest records, at most Cooldown + 1, oldest first
  latest      \* the newest record, None before the first

regimeVars == <<recent, latest>>

NoRecord == [regime |-> "none", confidence |-> 0]
Record(r, c) == [regime |-> r, confidence |-> c]

-----------------------------------------------------------------------------
(* Detection *)

\* Weights 0.4, 0.3, 0.3, in tenths.
Weight(v, r) == (IF v.rule = r THEN 4 ELSE 0) + (IF v.cluster = r THEN 3 ELSE 0)
                 + (IF v.ml = r THEN 3 ELSE 0)
Consensus(v) == CHOOSE r \in Regimes : \A q \in Regimes : Weight(v, q) <= Weight(v, r)
Detect == [v \in Votes |-> Record(Consensus(v), Weight(v, Consensus(v)))]
Detections == {Detect[v] : v \in Votes}

-----------------------------------------------------------------------------
(* Records *)

\* The newest records, as many as the cooldown looks at.
Newest(s) == IF Len(s) > Cooldown + 1 THEN Tail(s) ELSE s
Save(rec) == recent' = Newest(Append(recent, rec.regime)) /\ latest' = rec

\* _load_cooldown_state: how many records in a row, after the oldest of the newest four,
\* differ from it.
Loaded(s) ==
  IF Len(s) < 2 THEN 0
  ELSE CHOOSE n \in 0..(Len(s) - 1) :
         /\ \A i \in 2..(n + 1) : s[i] # s[1]
         /\ n = Len(s) - 1 \/ s[n + 2] = s[1]

Confirmed(old, new, counter) ==
  old = NoRecord \/ old.regime = new.regime \/ counter + 1 >= Cooldown

\* The record an update saves: the old regime, with the new confidence, until confirmed.
Decided(old, new, counter) ==
  IF Confirmed(old, new, counter) THEN new ELSE Record(old.regime, new.confidence)

\* update_regime, on enough candles.
Updated == Decided(latest, Detect[market], Loaded(recent))
Update == Save(Updated) /\ UNCHANGED market

\* With less than 210 candles, and when a reader finds no record: sideways, at once.
Sideways == Record("sideways", 10)
ShortHistory == Save(Sideways) /\ UNCHANGED market
DefaultRow == latest = NoRecord /\ Save(Sideways) /\ UNCHANGED market

\* POST /regime/recalculate: the regimes of the stored candles are appended as the newest
\* records, then one update runs with the counter loaded before them.  Bound: the market
\* changed once among the last candles, from a to b, after the first n.
Recalculate ==
  \E a, b \in Detections, n \in 1..Cooldown :
    LET rec == Decided(b, Detect[market], Loaded(recent)) IN
    /\ recent' = [i \in 1..(Cooldown + 1) |->
                    IF i > Cooldown THEN rec.regime ELSE IF i < n THEN a.regime ELSE b.regime]
    /\ latest' = rec
    /\ UNCHANGED market

\* The paper engine records the symbol at an interval of its own: the counter takes the record
\* into account, the filter of the live scan does not read it.
PaperRecord == \E d \in Detections : /\ recent' = Newest(Append(recent, d.regime))
                                    /\ UNCHANGED <<market, latest>>

Shift == market' \in Votes \ {market} /\ UNCHANGED regimeVars

-----------------------------------------------------------------------------
(* The filter and the router *)

\* should_allow_trade: which strategies a regime's rules refuse, by their names.
\* Only a name with "breakout" is matched: the mean-reversion strategy is not named for it.
Refused(strategy, r) == strategy = "momentum_breakout_v1" /\ r = "sideways"
Uncertain(rec) == rec.confidence < 5
Allows(strategy, rec) == ~Uncertain(rec) /\ ~Refused(strategy, rec.regime)

\* Mutant: momentum is taken to suit a quiet market as well.
RouteQuiet(r) == IF r = "low_volatility" THEN "capital_preservation_v1" ELSE "momentum_breakout_v1"

Route(r) == IF r \in {"sideways", "low_volatility"} THEN "capital_preservation_v1"
            ELSE "momentum_breakout_v1"

-----------------------------------------------------------------------------
RegimeInit == market \in Votes /\ recent = <<>> /\ latest = NoRecord

RegimeTypeOK ==
  /\ market \in Votes
  /\ recent \in Seq(Regimes) /\ Len(recent) <= Cooldown + 1
  /\ latest \in [regime : Regimes, confidence : {4, 6, 7, 10}] \cup {NoRecord}

\* The scans of one deployment, a reader of the API and a market that moves; nobody
\* recalculates and nobody else records the symbol.
RegimeNext == Update \/ DefaultRow \/ Shift
RegimeSpec == RegimeInit /\ [][RegimeNext]_<<market, regimeVars>>
              /\ WF_<<market, regimeVars>>(Update)

\* A regime the ensemble keeps detecting is recorded in the end: the cooldown asks for three
\* consecutive detections, and a restart does not reset it (engine.py:28, engine.py:119).
RegimeFollows ==
  \A r \in Regimes : <>[](Detect[market].regime = r) => <>(latest.regime = r)
=============================================================================
