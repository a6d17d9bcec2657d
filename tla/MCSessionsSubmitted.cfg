SPECIFICATION SessionSpec
CONSTANTS
  w1 = w1
  w2 = w2
  w3 = w3
  s1 = s1
  s2 = s2
  right = right
  wrong = wrong
  Workers = {w1, w2}
  Bannable = {}
  MaxVerdicts = 2
  Slots = {s1, s2}
  MaxTasks = 1
  Answers = {right}
  TaskTypes <- MCTaskTypes
  Priorities <- MCPriorities
  StatusInputs = {}
  ResetValues = {}
  NoWorker = NoWorker
  NoAnswer = NoAnswer
SYMMETRY SessionSymmetry
INVARIANT SubmittedCanBeValidated
