SPECIFICATION Spec
CONSTANTS
  w1 = w1
  w2 = w2
  w3 = w3
  right = right
  wrong = wrong
  Workers = {w1, w2}
  MaxTasks = 2
  Answers = {right, wrong}
  TaskTypes <- MCTaskTypes
  Priorities <- MCPrioritiesTwo
  StatusInputs = {}
  ResetValues = {}
  NoWorker = NoWorker
  NoAnswer = NoAnswer
SYMMETRY Symmetry
INVARIANTS BalanceIsLedger CountersMatchTasks
PROPERTY ImplementsSettlement
