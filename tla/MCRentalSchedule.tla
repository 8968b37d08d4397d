--------------------------- MODULE MCRentalSchedule ---------------------------
(* Instances of RentalSchedule for TLC. *)
EXTENDS RentalSchedule, TLC

CONSTANTS i1, i2, p1, p2, r1, r2

Own == [i \in Item |-> IF i = i1 THEN p1 ELSE p2]
Main == {"reserved", "delivered", "cancelled", "returned"}
Both == {{i1, i2}, {}}
Long == {{<<0, 3>>}, {<<0, 1>>, <<2, 3>>}}
Middle == {<<1, 2>>, <<0, 2>>, <<2, 3>>}
Booked(i, from, to, st) == [id |-> <<0, <<from, to>>>>, item |-> i, start |-> from, end |-> to, status |-> st]
Earlier == {{}, {Booked(i1, 0, 3, "rented"), Booked(i2, 1, 2, "reserved")},
            {Booked(i1, 0, 2, "reserved"), Booked(i1, 2, 3, "reserved")}}
Calls == Permutations(Request)

ASSUME NoOverlap == PeriodsApart
===============================================================================
