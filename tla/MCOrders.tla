------------------------------- MODULE MCOrders -------------------------------
(* Instances of Orders for TLC. *)
EXTENDS Orders, TLC

CONSTANTS o1, w1, w2, p1, l1, l2, r1, r2, r3, r4, h1, h2

OneProduct == [l \in Line |-> p1]
AllMoves == Status \X (Status \cup {Deleted}) \X BOOLEAN
TenEach == [k \in Key |-> 10]
AnyRow == [s \in Shipment |-> [order |-> o1, status |-> "sent_for_shipment",
                               shippedAt |-> FALSE, warehouse |-> w1]]
NoItems == [s \in Shipment |-> [l \in Line |-> 0]]

Everywhere(l) == [x \in Line |-> [y \in Warehouse |-> IF x = l THEN 1 ELSE 0]]
Full == [total |-> 2, lines |-> {l1}, reservations |-> Everywhere(l1), omitted |-> {}]
Bare == [total |-> 1, lines |-> {l1}, reservations |-> Nothing, omitted |-> {}]
Empty == [total |-> 0, lines |-> {}, reservations |-> Nothing, omitted |-> {}]
Omitting == [total |-> 1, lines |-> {l1}, reservations |-> Nothing, omitted |-> {l1}]

SerialDtos == {Full, Bare, Empty, Omitting}
OverlapDtos == {Full, Empty}
SomeStatus == {"reserved", "sent_for_shipment", "shipped", "cancelled"}
ThreeStatus == SomeStatus \ {"reserved"}
AnyStatus == Status \cup {NoStatus}
Calls == Permutations(Request) \cup Permutations(Handler)
===============================================================================
