CONSTANTS
  c1 = c1
  t1 = t1
  t2 = t2
  t3 = t3
  Conv = {c1}
  Turn = {t1, t2}
  MaxSession = 2
  SummaryThreshold = 2
  ExtractEvery = 4
  MaxFacts = 2
  Pipeline = FALSE
  Faults = {"llm", "disconnect", "crash"}
SPECIFICATION FairSpec
CHECK_DEADLOCK FALSE
INVARIANTS LogIsConsistent QuestionSentOnce SummariesAreBlocks DeletedStaysEmpty DoneIsStored
PROPERTY TurnsEnd
