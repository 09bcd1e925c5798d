CONSTANTS
  t1 = t1
  t2 = t2
  f1 = f1
  v1 = v1
  cA = cA
  cB = cB
  cC = cC
  none = none
  Absent = none
  NChunks <- MCNChunks
  Task <- TwoTasks
  FilePath = {f1}
  TextPath = {}
  Content = {cA, cB}
  Versioning = TRUE
  Ops = {"file", "refresh", "delete"}
  Faults = {}
  MaxRequests = 3
SPECIFICATION Spec
CHECK_DEADLOCK FALSE
SYMMETRY TaskSym
INVARIANT RacesLeaveWhole
