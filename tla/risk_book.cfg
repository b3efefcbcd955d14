SPECIFICATION Spec
CONSTANTS
  a = a
  b = b
  Symbols = {a, b}
  Unpriced = {200}
  Worths = {800, 1000}
  Fallback = 2000
  MaxOpen = 2
  Capital = 10
  Gross = 25
  Net = 20
  Betas <- MCBetas
  MaxRisk = 2
  DayLoss = 15
  MaxDrawdown = 20
  Floor = 35
  Atrs = {5, 20}
  AtrMultiplier = 2
  RewardRisk = 2
  VolTarget = 30
  Edges <- TrackRecords
  Markets <- MCMarkets
  Correlation <- MCCorrelation
  MaxPair = 75
  MaxMean = 65
  MaxAge = 0
PROPERTIES GrossCapped RiskKept TrustedEquity
