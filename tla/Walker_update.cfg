SPECIFICATION Spec
CONSTANTS
  va = va  vb = vb  vc = vc  vd = vd
  Vertex = {va, vb, vc}
  Graphs <- ChangingGraphs
  Reverse = TRUE
  AllowReadd = FALSE
  MaxUpdates = 2
INVARIANTS DependenciesFirst AddedAfterDependencies SkipIsJustified WaitResult NoVertexMissed
PROPERTIES WalkEnds
CHECK_DEADLOCK FALSE
