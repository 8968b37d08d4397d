--------------------------- MODULE MCScheduledMessages ---------------------------
(* ScheduledMessages on small instances. *)
EXTENDS ScheduledMessages, TLC

CONSTANTS chat, mailbox
Automation(q, contents) == [queue |-> q, contents |-> contents]
Mixed ==
  {Automation(chat, <<"refused", "phone">>), Automation(mailbox, <<"mail">>)}
TwoMails == {Automation(mailbox, <<"mail", "mail">>)}
AnySend == Permutations(Job)
===============================================================================
