SPECIFICATION Spec
CONSTANTS
  chat = chat
  mailbox = mailbox
  Automations <- Mixed
  Chats = {chat}
  Mailboxes = {mailbox}
  Job = {j1, j2}
  NoMessage = NoMessage
  Interval = 0
  MaxMessages = 3
  MaxAccidents = 1
INVARIANTS
  ScheduledTypeOK
  DeliveredOnce
  InOrder
PROPERTIES
  OutboxSpec
  Drains
CHECK_DEADLOCK FALSE
