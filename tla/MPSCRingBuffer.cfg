CONSTANTS
  Pushers = {p1, p2, p3}
  Items = {a, b}
  NoData = NoData
  NumCells = 2
  MaxPushes = 4
SPECIFICATION CellsSpec
INVARIANTS
  NoCellRace
PROPERTIES
  ClaimsAreFifo
  PushFailsOnlyWhenFull
  ClaimsAreTaken
