SPECIFICATION Spec
CONSTANTS
  chat = chat
  mailbox = mailbox
  Automations <- TwoMails
  Chats = {}
  Mailboxes = {mailbox}
  Job = {j1}
  NoMessage = NoMessage
  Interval = 2
  MaxMessages = 4
  MaxAccidents = 1
PROPERTIES
  DailyLimit
CHECK_DEADLOCK FALSE
