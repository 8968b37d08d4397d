SPECIFICATION Spec
CONSTANTS
  inbox = inbox
  sent = sent
  Mails = {m1, m2}
  Listing <- ListedWithSent
  None = None
  Inbox = inbox
  SentFolder = sent
  TrashFolder = None
  Calls = {c1, c2}
  Batch = 1
  MaxUid = 2
  MaxAsks <- UserAsks
  MaxAccidents = 0
INVARIANTS
  StoredOnce
  InOneFolder
  CountersAgree
CHECK_DEADLOCK FALSE
PROPERTIES
  TouchesItsOwn
SYMMETRY AnyMail
