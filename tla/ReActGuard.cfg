CONSTANTS
  a1 = a1
  a2 = a2
  a3 = a3
  b1 = b1
  ta = ta
  tb = tb
  Call = {a1, a2, a3}
  Tool = {ta}
  ToolOf <- OneTool
  FailLimit = 2
  MaxRounds = 4
  MaxBatch = 2
  History = TRUE
CHECK_DEADLOCK FALSE
SPECIFICATION Spec
SYMMETRY ArgSym
INVARIANTS ExecutedInOneRound MemoRepeatsResult BreakerIsExact
PROPERTY DisabledStays
