SPECIFICATION VwapSpec
CONSTANTS
  offered = offered
  buyer = buyer
  seller = seller
  sym = sym
  OrderIds <- MCOrderIds
  Clients = {buyer, seller}
  Symbols = {sym}
  Symbol = sym
  NewOrders <- MCNewOrders
  Prices = {}
  Quantities = {}
  NumLevels = 2
  MaxOrders = 1
  BasePrice = 10
  MaxSequence = 44
  Executor = buyer
  Weights <- MCWeights
  FirstChildId = 1
  parent_side = "Buy"
  total_quantity = 18
  limit_price = 10
CHECK_DEADLOCK FALSE
INVARIANTS
  ParentNotExceeded
