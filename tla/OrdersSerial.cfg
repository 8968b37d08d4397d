SPECIFICATION OrdersSpec
CONSTANTS
  o1 = o1  w1 = w1  w2 = w2  p1 = p1  l1 = l1  l2 = l2
  r1 = r1  r2 = r2  r3 = r3  r4 = r4  h1 = h1  h2 = h2
  Order = {o1}
  Warehouse = {w1, w2}
  Product = {p1}
  Line = {l1}
  ProductOf <- OneProduct
  MaxQty = 1
  MaxShipment = 4
  Request = {r1, r2, r3}
  MaxActive = 1
  MaxAborts = 0
  Moves <- AllMoves
  Relocations = {}
  StockValues = {}
  InitialKeys <- Key
  InitialStock <- TenEach
  InitialRow <- AnyRow
  InitialItems <- NoItems
  InitialLast = 0
  Handler = {h1, h2}
  Dtos <- SerialDtos
  Targets <- SomeStatus
  NoStatus = NoStatus
  InitialOrder = {}
SYMMETRY Calls
INVARIANTS AgreeWhenSettled NoCallFails
PROPERTIES ClosingReleases SentShipsReservations
CHECK_DEADLOCK FALSE
