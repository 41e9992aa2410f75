\* Two files.
SPECIFICATION Spec
CONSTANTS
  Root = root
  Nodes = {root, n1, n2}
  NumBlocks = 2
  Names = {"a", "b"}
  LongName = "long50"
  CutName = "long49"
  DotDot = ".."
  Data = {x, y}
  MaxWrites = 4
  NoBlock = NoBlock
  NoData = NoData
  NoNode = NoNode
CHECK_DEADLOCK FALSE
INVARIANT ReadsBack
