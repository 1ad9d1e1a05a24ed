SPECIFICATION Spec
CONSTANTS
  n1 = n1
  n2 = n2
  n3 = n3
  n4 = n4
  n5 = n5
  g1 = g1
  g2 = g2
  Nodes <- MCNodes
  Graphs <- MCGraphs
  Ports = {0, 1}
  Plain = 0
  Infos = {0, 1}
  NoInfo = 0
  MayKeep = FALSE
  MaxChanges = 3
SYMMETRY AnyNode
INVARIANTS Reciprocal BindingsFollowEdges Disjoint
PROPERTY ImplementsOperandGraph
CHECK_DEADLOCK FALSE
