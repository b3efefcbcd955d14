SPECIFICATION SharedSpec
CONSTANTS
  Lot = 3
  Sizes = {3}
  MaxPos = 1
  MaxStops = 4
  MaxLevel = 1
  Retries = 1
  MaxCloses = 1
  Part <- Third
  FillModes = {"full"}
  Faults = {}
  MaxFaults = 0
INVARIANT ClosedIsFlat
PROPERTY NoResurrection
