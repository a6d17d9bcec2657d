SPECIFICATION Spec
CONSTANTS
  j1 = j1
  c1 = c1
  g1 = g1
  r1 = r1
  r2 = r2
  Jobs = {j1}
  MaxChunks = 2
  MaxLarge = 0
  TaskTypes <- Sentiment
  CpuWorkers = {c1}
  GpuWorkers = {g1}
  Reducers = {r1, r2}
  Late = {}
  Mortal = {c1, r1, r2}
  Errors <- Transient
  HasSummaryTable = TRUE
  MaxRetries = 1
  MaxMishaps = 1
  NoRecord = NoRecord
SYMMETRY ReducersAlike
INVARIANTS DoneIsComplete AnnouncedOnce ChunkAccountedFor JobInv
PROPERTIES FinishedStays
CHECK_DEADLOCK FALSE
