CONSTANTS
  Worker = {w1, w2}
  Free = free
  Classes <- AllClasses
  MaxLines = 4
  WindowSize = 11
  Overlaps = {0, 2, 12}
  MaxText = 14
  MaxMarks = 3
  ChunkSize = 5
  ChunkOverlap = 2
  Lengths = {1, 3, 6}
  Names = {h1, h2}
  NoName = none
  MaxElements = 3
  Queries = 2
  Passages = 3
  PrefixOf <- TwoAlike
  Scores = {1, 3}
  WebScore = 2
  TopN = 2
  Limit = 1
SPECIFICATION FairSpec
CHECK_DEADLOCK FALSE
INVARIANTS WindowsCoverText  LinesKept OneConverter PassagesRanked
PROPERTIES TextArrives
