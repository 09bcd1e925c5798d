CONSTANTS
  t1 = t1
  t2 = t2
  f1 = f1
  v1 = v1
  cA = cA
  cB = cB
  cC = cC
  none = none
  Absent = none
  NChunks <- MCNChunks
  Task <- OneTask
  FilePath = {f1}
  TextPath = {}
  Content = {cA, cB, cC}
  Versioning = FALSE
  Ops = {"file", "delete"}
  Faults = {}
  MaxRequests = 4
SPECIFICATION Spec
CHECK_DEADLOCK FALSE
INVARIANTS OneCopySearchable DeletedLeavesNothing
