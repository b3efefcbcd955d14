---------------------------- MODULE MCScanAdvice ----------------------------
\* An instance of ScanAdvice.  A rising market in which the walk-forward of either strategy
\* passes, is rejected or has too few candles, by how many are stored.
EXTENDS ScanAdvice

Vote(r, c, m) == [rule |-> r, cluster |-> c, ml |-> m]

\* A trend all voters see, a range two of them see, and one no two agree on.
MCVotes == {Vote("bull", "bull", "bull"), Vote("low_volatility", "sideways", "sideways"),
            Vote("low_volatility", "breakout", "bear")}

Opens == <<0, 1, 3, 2, 4, 3, 5, 5, 7, 6, 8, 7, 9, 8, 10, 10, 12, 11, 13, 12, 14, 14, 16, 15>>
MCBars ==
  [i \in 1..24 |-> LET open == 100 + Opens[i] IN
                   [open |-> open, high |-> open + 2, low |-> open - 1, close |-> open + 1]]
Buying(bars) == [signals |-> bars, stop |-> 4, target |-> 3]
MCTrials ==
  [s \in Strategies |->
     IF s = Live THEN <<Buying({2, 5, 8, 11, 14, 17, 20, 23}), Buying({3, 5, 7, 9, 11, 13, 15})>>
     ELSE <<Buying({5, 7, 9, 11, 13, 15})>>]

\* What the runs make of it, which the module's assumption checks.
MCOutcomes == [strategy : Strategies, status : {"completed", "rejected", "failed"}]
=============================================================================
