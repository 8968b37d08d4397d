SPECIFICATION Spec
CONSTANTS
  o1 = o1  w1 = w1  w2 = w2  p1 = p1  l1 = l1  l2 = l2  r1 = r1  r2 = r2  r3 = r3
  Order = {o1}
  Warehouse = {w1, w2}
  Product = {p1}
  Line = {l1, l2}
  ProductOf <- OneProduct
  MaxQty = 1
  MaxShipment = 6
  Request = {r1, r2}
  MaxActive = 2
  MaxAborts = 1
  Moves <- AllMoves
  Relocations <- W1ToW2
  StockValues = {4}
  InitialKeys <- Key
  InitialStock <- TenEach
  InitialRow <- SentRows
  InitialItems <- TwoItems
  InitialLast = 1
INVARIANTS TypeOK StockMatchesLedger OneShipmentPerWarehouse
SYMMETRY Requests
CHECK_DEADLOCK FALSE
