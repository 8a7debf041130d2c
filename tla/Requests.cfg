CONSTANTS
  a = a
  b = b
  q1 = q1
  q2 = q2
  Ids = {a, b}
  Reqs = {q1, q2}
  Budget = 3
  MaxHeld = 2
  Loads <- MCLoads
  MaxLive = 2
  MaxGen = 2
  MaxTime = 1
  MaxVersion = 2
  Slots = {1, 2, 3}
SPECIFICATION Spec
INVARIANTS ScanSeesToken BudgetSound RemovedIsGone RetryIsNewer
VIEW View
SYMMETRY ReqSymmetry
CHECK_DEADLOCK FALSE
