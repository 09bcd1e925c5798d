CONSTANTS
  w1 = w1
  w2 = w2
  Worker = {w1, w2}
  Label = {1, 2, 3}
  Type = {"Concept"}
  Concept = "Concept"
  Relation = {"USES"}
  Weight = {1, 2}
  MinEdge = 1
  Similar <- AllSimilar
  Mirrored = TRUE
  Faults = {"llm"}
  MaxItems = 2
  MaxJobs = 2
  MaxRemoved = 1
SPECIFICATION Spec
CHECK_DEADLOCK FALSE
SYMMETRY WorkerSym
INVARIANTS GraphIsConsistent MirrorCurrent
PROPERTY JobsLoseNothing
