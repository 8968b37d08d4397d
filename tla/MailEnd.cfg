SPECIFICATION Spec
CONSTANTS
  inbox = inbox
  sent = sent
  Mails = {m1, m2}
  Listing <- ListedWithSent
  None = None
  Inbox = inbox
  SentFolder = sent
  TrashFolder = None
  Calls = {c1, c2}
  Batch = 1
  MaxUid = 2
  MaxAsks <- EndAsks
  MaxAccidents = 1
INVARIANTS
  NothingSkipped
CHECK_DEADLOCK FALSE
PROPERTIES
  DeletedForGood
  MessagesArrive
  DeleteEnds
  InitEnds
