\* Three nodes beside the root, two blocks, four writes; names that get cut, and "..".
SPECIFICATION Spec
CONSTANTS
  Root = root
  Nodes = {root, n1, n2, n3}
  NumBlocks = 2
  Names = {"a", "..", "long50", "long49"}
  LongName = "long50"
  CutName = "long49"
  DotDot = ".."
  Data = {x, y}
  MaxWrites = 4
  NoBlock = NoBlock
  NoData = NoData
  NoNode = NoNode
SYMMETRY Symmetry
CHECK_DEADLOCK FALSE
INVARIANTS TreeOK NamesDiffer BlockAccounting BlocksExclusive
