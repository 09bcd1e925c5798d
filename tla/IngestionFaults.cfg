CONSTANTS
  t1 = t1
  t2 = t2
  f1 = f1
  v1 = v1
  cA = cA
  cB = cB
  cC = cC
  none = none
  Absent = none
  NChunks <- MCNChunks
  Task <- TwoTasks
  FilePath = {f1}
  TextPath = {v1}
  Content = {cA, cB, cC}
  Versioning = FALSE
  Ops = {"file", "text", "delete"}
  Faults = {"parse", "embed", "store", "crash"}
  MaxRequests = 2
SPECIFICATION Spec
CHECK_DEADLOCK FALSE
SYMMETRY TaskSym
INVARIANTS ReadyRowsComplete ReadySearchable NoOrphanRows
PROPERTY ImplementsLifecycle
