\* The four programs, with kills of the child and failing calls.
SPECIFICATION FairSpec
CONSTANTS
  Missing = Missing
  Nothing = Nothing
  Values = {1, 2, 3}
  MaxSize = 3
  ChildMayDie = TRUE
  CallsMayFail = TRUE
CHECK_DEADLOCK FALSE
INVARIANTS ShownRight NothingLeft
PROPERTY ParentEnds
