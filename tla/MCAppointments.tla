---------------------------- MODULE MCAppointments ----------------------------
(* Instances of Appointments for TLC: two days of three instants each. *)
EXTENDS Appointments, TLC

CONSTANTS s1, s2, p1, p2, e1, x1, r1, r2, r3, r4, none, noEvent, kept

Days == [t \in 0..MaxTime |-> t \div 3]
Home == [p \in Performer |-> s1]
Nothing == {}
Swap == {<<p1, p2>>, <<p2, p1>>}

Of(entity, from, to, check) ==
  [row |-> [schedule |-> s1, performer |-> p1, entity |-> entity, start |-> from, end |-> to,
            status |-> "confirmed", external |-> noEvent], check |-> check]
To(performer, from, to, status, check) ==
  [schedule |-> kept, performer |-> performer, entity |-> kept, start |-> from, end |-> to,
   status |-> status, external |-> kept, check |-> check]
Ev(id, from, to, status) ==
  [schedule |-> s1, performer |-> p1, id |-> id, start |-> from, end |-> to,
   status |-> status, external |-> x1]

Naming(b) == [b EXCEPT !.row.external = x1]
Renamed(c) == [c EXCEPT !.external = x1]

Visits == {Of(e1, 0, 1, TRUE), Of(e1, 1, 2, TRUE), Naming(Of(none, 0, 3, FALSE)), Of(none, 1, 4, TRUE)}
Moves == {To(p2, kept, kept, kept, TRUE), To(kept, 0, 1, kept, TRUE), To(kept, 3, 4, kept, FALSE),
          Renamed(To(kept, 3, kept, kept, FALSE)), To(kept, kept, kept, "canceled", FALSE)}
Synced == {Ev(NewRow, 1, 2, "confirmed"), Ev(1, 1, 2, "canceled")}
Plain == {Of(e1, 0, 1, FALSE), Of(e1, 1, 3, FALSE)}
Calls == Permutations(Request)
===============================================================================
