CONSTANTS
  a1 = a1
  a2 = a2
  b1 = b1
  ta = ta
  tb = tb
  Call = {a1, a2, b1}
  Tool = {ta, tb}
  ToolOf <- TwoTools
  FailLimit = 2
  MaxRounds = 3
  MaxBatch = 2
  History = FALSE
  Known = {a1, b1}
  MaxRetries = 3
  MaxIterations = 3
  MaxAttempts = 3
  HalfPasses = FALSE
  Query = {"q1", "q2"}
  Question = "q1"
  Passage = {"p1", "p2"}
  MaxHops = 2
SPECIFICATION FairSpec
INVARIANTS PermanentNotRetried ConvergedWasAccepted
PROPERTIES RunsEnd ImplementsBoundedRun
CHECK_DEADLOCK FALSE
