------------------------------ MODULE MCMailSync ------------------------------
(* MailSync on small instances. *)
EXTENDS MailSync, TLC

CONSTANTS inbox, sent
ListedWithSent == <<inbox, sent>>
UserAsks == [a \in Asked |-> IF a \in {"update", "send", "move", "mark"} THEN 1 ELSE 0]
EndAsks == [a \in Asked |-> IF a \in {"update", "hide", "drop"} THEN 1 ELSE 0]
AnyMail == Permutations(Mails)
===============================================================================
