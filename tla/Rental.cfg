SPECIFICATION Spec
CONSTANTS
  i1 = i1  i2 = i2  p1 = p1  p2 = p2  r1 = r1  r2 = r2
  Item = {i1, i2}
  Product = {p1, p2}
  ProductOf <- Own
  MaxTime = 3
  Request = {r1, r2}
  MaxActive = 2
  Statuses <- Main
  ItemSets <- Both
  PeriodSets <- Long
  Windows <- Middle
  InitialEvents <- Earlier
INVARIANTS TypeOK BookedOnce NothingInvented
PROPERTIES ReleaseExact BlockExact ReturnFrees ScheduleExact
SYMMETRY Calls
CHECK_DEADLOCK FALSE
