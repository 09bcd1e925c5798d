CONSTANTS
  t1 = t1
  t2 = t2
  f1 = f1
  v1 = v1
  cA = cA
  cB = cB
  cC = cC
  none = none
  Absent = none
  NChunks <- MCNChunks
  Task <- TwoTasks
  FilePath = {f1}
  TextPath = {v1}
  Content = {cB, cC}
  Versioning = TRUE
  Ops = {"file", "text", "refresh", "delete"}
  Faults = {"parse", "embed", "store"}
  MaxRequests = 2
SPECIFICATION FairSpec
CHECK_DEADLOCK FALSE
PROPERTIES RequestsFinish DocumentsSettle
