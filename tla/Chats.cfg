SPECIFICATION Spec
CONSTANTS
  u1 = u1  u2 = u2  known = known  typed = typed  phone = phone  own = own
  r1 = r1  r2 = r2  r3 = r3  r4 = r4
  User = {u1, u2}
  Responsible = {u1}
  Contact = {known, typed}
  Profile = known
  Typed = typed
  Address = {phone, own}
  Resolved <- OwnAddress
  Request = {r1, r2, r3}
  Lists <- JustOne
  NoList = NoList
  None = None
  MaxActive = 2
  MaxAsks <- Asks
  MaxAborts = 1
  MaxChat = 3
  InitialAddress = phone
SYMMETRY Calls
INVARIANTS OneChatPerAddress MergedWhole IncomingStored
CHECK_DEADLOCK FALSE
