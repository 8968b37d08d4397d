SPECIFICATION WarehousesSpec
CONSTANTS
  o1 = o1  w1 = w1  w2 = w2  p1 = p1  p2 = p2  l1 = l1  r1 = r1  r2 = r2  r3 = r3
  Order = {o1}
  Warehouse = {w1, w2}
  Product = {p1, p2}
  Line = {l1}
  ProductOf <- FirstProduct
  MaxQty = 1
  MaxShipment = 3
  Request = {r1, r2, r3}
  MaxActive = 1
  MaxAborts = 1
  Moves <- AnyMove
  Relocations <- IntoOther
  StockValues = {}
  InitialKeys <- AllButOne
  InitialStock <- TenEach
  InitialRow <- SentRows
  InitialItems <- OneItem
  InitialLast = 1
INVARIANT Conserved
SYMMETRY Requests
CHECK_DEADLOCK FALSE
