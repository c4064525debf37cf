SPECIFICATION Spec
CONSTANTS
  o1 = o1
  o2 = o2
  o3 = o3
  c1 = c1
  sym = sym
  other = other
  OrderIds <- MCOrderIds
  Clients <- MCClients
  Symbols <- MCSymbols
  Symbol = sym
  NewOrders <- MCNewOrders
  Prices <- MCPrices
  Quantities <- MCQuantities
  NumLevels = 3
  MaxOrders = 2
  BasePrice = 10
  MaxSequence = 4
INVARIANT CapacityRejectMeansPoolFull
SYMMETRY Perms
