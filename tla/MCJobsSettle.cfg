SPECIFICATION FairSpec
CONSTANTS
  j1 = j1
  c1 = c1
  g1 = g1
  r1 = r1
  r2 = r2
  Jobs = {j1}
  MaxChunks = 1
  MaxLarge = 1
  TaskTypes <- AllOutcomes
  CpuWorkers = {c1}
  GpuWorkers = {g1}
  Reducers = {r1}
  Late = {"router", "monitor"}
  Mortal <- Everything
  Errors <- Transient
  HasSummaryTable = TRUE
  MaxRetries = 1
  MaxMishaps = 1
  NoRecord = NoRecord
PROPERTIES EveryChunkSettled FinishedIfNothingFails
CHECK_DEADLOCK FALSE
