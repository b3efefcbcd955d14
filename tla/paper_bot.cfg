SPECIFICATION BotFairSpec
CONSTANTS
  N = 2
  Workers = {w1}
  MaxOpen = 1
  Autostart = {TRUE, FALSE}
  MaxFaults = 1
INVARIANT LateOnce
PROPERTY StartServed
