SPECIFICATION Spec
CONSTANTS
  va = va  vb = vb  vc = vc  vd = vd
  Vertex = {va, vb, vc, vd}
  Graphs <- StaticGraphs
  Reverse = TRUE
  AllowReadd = FALSE
  MaxUpdates = 1
PROPERTIES ImplementsGraphWalk
CHECK_DEADLOCK FALSE
