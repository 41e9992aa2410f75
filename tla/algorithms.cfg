\* The calculator, the sonar image, the students and the players.
SPECIFICATION InMemorySpec
CONSTANTS
  Programs = {"calculator", "sonar", "students", "analyzer"}
  Texts <- MCTexts
  MaxInitial = 2
  MaxId = 12
  MaxPrice = 1
  MaxQuantity = 2
  MaxProducts = 3
  MemoryMayFail = TRUE
  Expressions <- MCExpressions
  Bits = 3
  Images <- MCImages
  Lines <- MCLines
  Garbage <- MCGarbage
  BadRoll = 0
  BadName = "?"
  MaxStudents = 3
  Rosters <- MCRosters
  Teams <- MCTeams
CHECK_DEADLOCK FALSE
INVARIANTS ResultRight ImageRight RecordsRight DisplaysRight
