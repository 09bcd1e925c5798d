CONSTANTS
  c1 = c1
  t1 = t1
  t2 = t2
  t3 = t3
  Conv = {c1}
  Turn = {t1, t2, t3}
  MaxSession = 2
  SummaryThreshold = 2
  ExtractEvery = 4
  MaxFacts = 2
  Pipeline = TRUE
  Faults = {}
SPECIFICATION FairSpec
CHECK_DEADLOCK FALSE
PROPERTY WindowIsRecent
