\* Up to three products, lines split over two fields, failing memory.
SPECIFICATION InMemorySpec
CONSTANTS
  Programs = {"inventory"}
  Texts <- MCTexts
  MaxInitial = 2
  MaxId = 12
  MaxPrice = 1
  MaxQuantity = 2
  MaxProducts = 3
  MemoryMayFail = TRUE
  Expressions <- MCExpressions
  Bits = 3
  Images <- MCImages
  Lines <- MCLines
  Garbage <- MCGarbage
  BadRoll = 0
  BadName = "?"
  MaxStudents = 3
  Rosters <- MCRosters
  Teams <- MCTeams
CHECK_DEADLOCK FALSE
INVARIANTS InventoryOK SearchFinds
PROPERTY OthersUntouched
