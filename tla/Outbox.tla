-------------------------------- MODULE Outbox --------------------------------
(***************************************************************************)
(* What the queues of scheduled messages promise: each queue works on its  *)
(* oldest waiting message and on no other.  A message may be handed over   *)
(* more than once, and one that is claimed may be withdrawn meanwhile.     *)
(***************************************************************************)
EXTENDS Naturals, Sequences

CONSTANT Queue

VARIABLES
  home,     \* the queue of each message, in the order they came
  waiting,  \* messages not finished and not withdrawn
  claimed,  \* messages somebody works on
  handed    \* messages handed over

outboxVars == <<home, waiting, claimed, handed>>

Message == DOMAIN home
Earlier(m) == {k \in Message : k < m /\ home[k] = home[m]}
Oldest(m) == m \in waiting /\ Earlier(m) \cap waiting = {}

Init == home = <<>> /\ waiting = {} /\ claimed = {} /\ handed = {}

Put(q) ==
  /\ home' = Append(home, q) /\ waiting' = waiting \cup {Len(home) + 1}
  /\ UNCHANGED <<claimed, handed>>
Withdraw(S) == waiting' = waiting \ S /\ UNCHANGED <<home, claimed, handed>>
Claim(S) ==
  /\ \A m \in S : Oldest(m)
  /\ claimed' = claimed \cup S
  /\ UNCHANGED <<home, waiting, handed>>
GiveUp(S) == claimed' = claimed \ S /\ UNCHANGED <<home, waiting, handed>>
Hand(m) ==
  /\ m \in claimed /\ handed' = handed \cup {m}
  /\ claimed' \in {claimed, claimed \ {m}}
  /\ UNCHANGED <<home, waiting>>
Finish(m) ==
  /\ m \in claimed /\ waiting' = waiting \ {m}
  /\ claimed' \in {claimed, claimed \ {m}}
  /\ UNCHANGED <<home, handed>>

Next ==
  \/ \E q \in Queue : Put(q)
  \/ \E S \in SUBSET Message : Withdraw(S) \/ Claim(S) \/ GiveUp(S)
  \/ \E m \in Message : Hand(m) \/ Finish(m)

Spec == Init /\ [][Next]_outboxVars
===============================================================================
