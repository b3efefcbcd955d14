SPECIFICATION Spec
CONSTANTS
  Bars <- MCBars
  WarmUp = 1
  InitialCash = 200
  MaxOpen = 1
  Cost = 0
  Trailing = 3
  Breakeven = 2
  Year = 16
  MinCandles = 4
  Windows = 4
  Folds = 2
  Purge = 1
  MinTrades = 4
  MinDays = 3
  Genomes = {"ema", "macd"}
  Family <- MCFamily
  Parameters <- MCParameters
  Ruin <- MCRuin
  Histories = {3, 18, 24}
  Versions <- MCVersions
  Researchers = {"loop"}
  Learners = {"nightly", "manual"}
  Operators = {"admin"}
  Population <- MCPopulation
  Survivors = 1
  MaxEvents = 2
INVARIANTS PromotedPassed AwaitingBounded CycleClosed
CHECK_DEADLOCK FALSE
