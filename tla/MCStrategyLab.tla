--------------------------- MODULE MCStrategyLab ---------------------------
\* An instance of StrategyLab: a rising market, two genomes of two families that buy on every
\* third and on every second bar.  With 24 candles the first passes both gates; the second,
\* which bought only in the first part, is fitter and overfit.  With 18 it is the other way round.
EXTENDS StrategyLab

MCFamily == [g \in Genomes |-> IF g = "ema" THEN "ema_rsi_atr" ELSE "macd"]
MCPopulation == [r \in Runs |-> IF r = "nightly" THEN 2 ELSE 1]

Opens == <<0, 1, 3, 2, 4, 3, 5, 5, 7, 6, 8, 7, 9, 8, 10, 10, 12, 11, 13, 12, 14, 14, 16, 15>>
MCBars ==
  [i \in 1..24 |-> LET open == 100 + Opens[i] IN
                   [open |-> open, high |-> open + 2, low |-> open - 1, close |-> open + 1]]
MCParameters ==
  [g \in Genomes |->
     [signals |-> IF g = "ema" THEN {2, 5, 8, 11, 14, 17, 20, 23} ELSE {5, 7, 9, 11, 13, 15},
      stop |-> 4, target |-> 3]]
MCRuin == [g \in Genomes |-> 10]

\* What the evaluations make of it, which the module's assumption checks.
Version(g, fit, passes) ==
  [genome |-> g,
   result |-> [fit |-> fit, sound |-> passes, worthy |-> passes, overfit |-> ~passes]]
MCVersions == {Version("ema", 2528, TRUE), Version("ema", 2325, FALSE),
               Version("macd", 3532, TRUE), Version("macd", 2832, FALSE)}
=============================================================================
