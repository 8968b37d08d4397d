------------------------------- MODULE MCChats -------------------------------
(* An instance of Chats for TLC. *)
EXTENDS Chats, TLC

CONSTANTS u1, u2, known, typed, phone, own, r1, r2, r3, r4

(* The provider answers a message to the phone number with the own address. *)
OwnAddress == [a \in Address |-> own]
Asks == [k \in Kind |-> CASE k = "receive" -> 2 [] k = "send" -> 2 [] OTHER -> 1]
JustOne == {{u1}}
Calls == Permutations(Request)
==============================================================================
