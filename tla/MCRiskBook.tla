----------------------------- MODULE MCRiskBook -----------------------------
(* Instances of RiskBook for TLC: two symbols, one of them above the market's beta. *)
EXTENDS RiskBook

CONSTANTS a, b

MCBetas == [s \in Symbols |-> IF s = b THEN 150 ELSE 100]
MCCorrelation == [p \in {q \in SUBSET Symbols : Cardinality(q) = 2} |-> 60]
TrackRecords == {None, -5}

Market(rate, imbalance, move, htf, drift, vol) ==
  [rate |-> rate, imbalance |-> imbalance, move |-> move, htf |-> htf, drift |-> drift,
   vol |-> vol, regime |-> 100, degraded |-> FALSE]

\* Funding and a calm curve that favour longs while the price falls; an ask-heavy book
\* under a worn strategy after the price rose; a strategy past its last health tier.
MCMarkets ==
  {Market(-10, 0, 0, "up", 0, 1), Market(0, -50, 2, "down", 40, 4),
   [Market(0, 0, 0, "unknown", 80, 0) EXCEPT !.degraded = TRUE]}
=============================================================================
