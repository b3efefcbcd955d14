SPECIFICATION SoloSpec
CONSTANTS
  Lot = 3
  Sizes = {1, 3}
  MaxPos = 1
  MaxStops = 4
  MaxLevel = 2
  Retries = 2
  MaxCloses = 0
  Part <- Third
  FillModes = {"full"}
  Faults = {"feed", "cancel", "place", "sell", "lost", "resent", "commit", "crash"}
  MaxFaults = 1
INVARIANTS TypeOK BookIdentity StopsAccounted Guarded
PROPERTY ExitCompletes
