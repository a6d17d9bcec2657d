SPECIFICATION Spec
CONSTANTS
  w1 = w1
  w2 = w2
  w3 = w3
  right = right
  wrong = wrong
  Workers = {w1, w2, w3}
  MaxTasks = 1
  Answers = {right, wrong}
  TaskTypes <- MCTaskTypes
  Priorities <- MCPriorities
  StatusInputs <- MCStatusInputs
  ResetValues <- MCResetValues
  NoWorker = NoWorker
  NoAnswer = NoAnswer
SYMMETRY Symmetry
INVARIANTS TypeOK StagesConsistent IndependentValidation PaidExactlyOnce GoldenGate
PROPERTIES VerdictIsFinal ResultIsKept LeaseProtectsExecutor BannedGetNoTask
