----------------------------- MODULE MCShipments -----------------------------
(* Instances of Shipments for TLC. *)
EXTENDS Shipments, TLC

CONSTANTS o1, w1, w2, p1, l1, l2, r1, r2, r3

OneProduct == [l \in Line |-> p1]
W1ToW2 == {<<w1, w2>>}
AllMoves == Status \X (Status \cup {Deleted}) \X BOOLEAN
TenEach == [k \in Key |-> 10]

(* Shipment 1 leaves w1 with two items of the same product. *)
SentRows == [s \in Shipment |-> [order |-> o1, status |-> "sent_for_shipment",
                                 shippedAt |-> FALSE, warehouse |-> w1]]
TwoItems == [s \in Shipment |-> [l \in Line |-> IF l = l1 THEN 1 ELSE MaxQty]]
NoItems == [s \in Shipment |-> [l \in Line |-> 0]]

Requests == Permutations(Request)
==============================================================================
