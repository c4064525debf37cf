SPECIFICATION ReplaySpec
CONSTANTS
  o1 = o1
  o2 = o2
  o3 = o3
  c1 = c1
  c2 = c2
  sym = sym
  other = other
  OrderIds <- MCOrderIds
  Clients <- MCClients
  Symbols <- MCSymbols
  Symbol = sym
  NewOrders <- MCNewOrders
  Prices <- MCPrices
  Quantities <- MCQuantities
  NumLevels = 2
  MaxOrders = 2
  BasePrice = 10
  MaxSequence = 4
  MaxOrderSize = 2
  MaxPosition = 2
  MaxLossPerClient <- MCMaxLoss
INVARIANTS
  ReplayTypeOK
  FeedMirrorsBook
  ZeroSum
  RestingReportIsOpen
SYMMETRY Perms
