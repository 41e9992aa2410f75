\* Three open files, an odd number like the usual 1021: leaks of two leave one.
SPECIFICATION Spec
CONSTANTS
  Missing = Missing
  Ids = {1, 2, 3}
  Data = {x, y}
  MaxFiles = 3
  MaxRecords = 3
  CallsMayFail = TRUE
INVARIANT RecordsSurvive
PROPERTY IdsStayUnique
