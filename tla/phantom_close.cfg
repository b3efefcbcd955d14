SPECIFICATION SharedSpec
CONSTANTS
  Lot = 2
  Sizes = {2}
  MaxPos = 1
  MaxStops = 3
  MaxLevel = 1
  Retries = 1
  MaxCloses = 0
  Part <- Half
  FillModes = {"full"}
  Faults = {}
  MaxFaults = 0
INVARIANT ClosedIsFlat
