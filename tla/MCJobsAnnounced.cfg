SPECIFICATION FairSpec
CONSTANTS
  j1 = j1
  c1 = c1
  g1 = g1
  r1 = r1
  r2 = r2
  Jobs = {j1}
  MaxChunks = 1
  MaxLarge = 1
  TaskTypes <- Sentiment
  CpuWorkers = {c1}
  GpuWorkers = {g1}
  Reducers = {r1}
  Late = {}
  Mortal <- Everything
  Errors <- Transient
  HasSummaryTable = FALSE
  MaxRetries = 1
  MaxMishaps = 0
  NoRecord = NoRecord
PROPERTIES DoneIsAnnounced
CHECK_DEADLOCK FALSE
