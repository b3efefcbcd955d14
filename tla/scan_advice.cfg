SPECIFICATION Spec
CONSTANTS
  MaxEvents = 2
  Votes <- MCVotes
  Live = "momentum_breakout_v1"
  Warmup = 1
  Streak = 2
  MaxTrades = 2
  Bars <- MCBars
  WarmUp = 1
  InitialCash = 200
  MaxOpen = 1
  Cost = 0
  Trailing = 3
  Breakeven = 2
  Year = 16
  Trials <- MCTrials
  TrainBars = 8
  TestBars = 4
  StepBars = 4
  Embargo = 1
  Stored = {12, 18, 24}
  Outcomes <- MCOutcomes
  MaxRuns = 2
INVARIANT LiveValidated
PROPERTIES RoutedAllowed CriticalIsStopped
CHECK_DEADLOCK FALSE
