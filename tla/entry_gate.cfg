SPECIFICATION FairSpec
CONSTANTS
  Symbols = {btc, eth}
  NoSymbol = none
  MaxOpen = 1
  Cooldown = 1
  MaxTime = 1
  Requests = {r1, r2}
  Ops = {"trip", "reset", "pause", "resume"}
  MaxOutside = 4
INVARIANTS TypeOK OneLateEntry OpenBound
PROPERTIES ImplementsKillSwitch EntrySerialised RequestsAnswered
CHECK_DEADLOCK FALSE
