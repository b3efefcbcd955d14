SPECIFICATION Spec
CONSTANTS
  Lot = 1
  Sizes = {1}
  MaxPos = 2
  MaxStops = 3
  MaxLevel = 1
  Retries = 2
  MaxCloses = 0
  Part <- Third
  FillModes = {"full"}
  Faults = {"commit", "resent"}
  MaxFaults = 1
INVARIANT OneOpenRow
