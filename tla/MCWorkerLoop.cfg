SPECIFICATION LoopSpecWithFairness
CONSTANTS
  w1 = w1
  w2 = w2
  w3 = w3
  right = right
  wrong = wrong
  Workers = {w1, w2, w3}
  p1 = p1
  p2 = p2
  l2 = l2
  l3 = l3
  Loops = {p1, p2, l2, l3}
  Ident <- MCIdent
  Mortal = {w1}
  Suspendable = {w1}
  MaxMishaps = 2
  MaxTasks = 1
  Answers = {right}
  TaskTypes <- MCTaskTypes
  Priorities <- MCPriorities
  StatusInputs = {}
  ResetValues = {}
  NoWorker = NoWorker
  NoAnswer = NoAnswer
INVARIANTS LoopInv
PROPERTIES DecidedIfSwept DecidedIfNothingFails
