----------------------------- MODULE MCWarehouses -----------------------------
(* Instances of Warehouses for TLC. *)
EXTENDS Warehouses, TLC

CONSTANTS o1, w1, w2, p1, p2, l1, r1, r2, r3

FirstProduct == [l \in Line |-> p1]
IntoOther == {<<w1, w2>>, <<w2, w2>>}
AnyMove == Status \X (Status \cup {Deleted}) \X BOOLEAN
AllButOne == Key \ {<<p2, w2>>}
TenEach == [k \in Key |-> IF k \in AllButOne THEN 10 ELSE 0]

(* Shipment 1 leaves w1 with an item of the first product. *)
SentRows == [s \in Shipment |-> [order |-> o1, status |-> "sent_for_shipment",
                                 shippedAt |-> FALSE, warehouse |-> w1]]
OneItem == [s \in Shipment |-> [l \in Line |-> 1]]

Requests == Permutations(Request)
===============================================================================
