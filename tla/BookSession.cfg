SPECIFICATION MCSpec
CONSTANTS
  o1 = o1
  o2 = o2
  o3 = o3
  o4 = o4
  c1 = c1
  sym = sym
  OrderIds <- MCOrderIds
  Clients <- MCClients
  Symbols <- MCSymbols
  NewOrders <- MCNewOrders
  Prices <- MCPrices
  Quantities <- MCQuantities
  NumLevels = 3
  MaxOrders = 3
  BasePrice = 10
  MaxSequence = 4
  WordBits = 2
  Capacity = 5
  NumPrices = 7
  IndexWordBits = 3
  kLinearRangeBits = 3
  kSubBucketsPerOctave = 4
  kMaxOctaves = 2
  Samples <- MCSamples
  Percents <- MCPercents
  MaxSamples = 3
\* The histogram stops at its bound.
CHECK_DEADLOCK FALSE
INVARIANTS
  TypeOK
  BookStructured
  QuantitiesAgree
  MemoryStandsForBook
  AuditFindsNothing
  FreeListIntact
  VariantsAgree
  PercentilesTrackSamples
PROPERTIES
  ErrorChangesNothing
  PriorityKept
SYMMETRY Perms
