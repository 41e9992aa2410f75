\* Capacities 1 to 3, four keys of which some share a bucket; malloc may fail.
SPECIFICATION Spec
CONSTANTS
  None = None
  Capacities = {1, 2, 3}
  Keys = {0, 1, 3, 4}
  Data = {x, y}
  Nodes = {n1, n2, n3}
  MemoryMayFail = TRUE
SYMMETRY Symmetry
CHECK_DEADLOCK FALSE
INVARIANTS ListOK TableMatchesList
PROPERTY ImplementsRecencyCache
