SPECIFICATION MCSpec
CONSTANTS
  o1 = o1
  o2 = o2
  quoter = quoter
  pair_trader = pair_trader
  others = others
  sym_a = sym_a
  sym_b = sym_b
  OrderIds <- MCOrderIds
  Clients <- MCClients
  Symbols <- MCSymbols
  Symbol = sym_a
  symbol_b = sym_b
  NewOrders <- MCNewOrders
  VenueOrders <- MCVenueOrders
  Prices = {}
  Quantities = {}
  NumLevels = 5
  MaxOrders = 4
  BasePrice = 10
  MaxSequence = 6
  MaxArbitrageSequence = 5
  Maker = quoter
  FirstOrderId = 1
  LastOrderId = 5
  half_spread_ticks = 1
  quote_size = 2
  max_inventory = 1
  initial_reference_price = 12
  Arbitrageur = pair_trader
  FirstLegId = 1
  LastLegId = 4
  clip_size = 2
  min_edge_ticks = 2
\* Bounds on sequence numbers and ids stop every behaviour.
CHECK_DEADLOCK FALSE
INVARIANTS
  QuotesTracked
  InventoryBounded
  NoSelfTrade
  LegsKeepEdge
SYMMETRY Perms
