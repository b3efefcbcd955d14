CONSTANTS
  Levels = {1, 2}
  Window = 2
  Jobs = {"ingest", "revalidate", "load"}
  MaxBars = 1
  SpikeMode = "flag"
  MaxEvents = 2
  Tries = 2
SPECIFICATION Spec
INVARIANTS HistVetted OneMigrator
PROPERTIES BarsArrive OneWipe WorkerComesUp SilenceReported
CHECK_DEADLOCK FALSE
