-------------------------- MODULE AppointmentsProofs --------------------------
(***************************************************************************)
(* Theorems about Appointments, for every number of schedules, performers, *)
(* entities, instants, days, appointments and concurrent calls.            *)
(***************************************************************************)
EXTENDS Appointments, TLAPS

------------------------------------------------------------------------------
(* The strengthening.  What a check has found holds until the save, as long as *)
(* no other call has written in between: that is what "overtaken" records.     *)

(* hasIntersect found nothing. *)
ClashFree(r) ==
  pc[r] \in {"limit", "save"} /\ task[r].check /\ "intersect" \notin overtaken[r]
    => Clashes(copy[r], own[r]) = {}

(* checkEntityDayLimit found nothing, or the row of the call itself, which is *)
(* then the only one of its day.                                              *)
LimitFree(r) ==
  /\ pc[r] = "save" /\ "limit" \notin overtaken[r] /\ own[r] \notin raced
  /\ copy[r].schedule \in Limited /\ copy[r].entity # NoEntity /\ OneDay(copy[r])
  => SameDay(copy[r]) \ {own[r]} \subseteq raced

(* The copy of a row is the row, with the changes of the call. *)
FreshCopy(r) ==
  pc[r] \in {"intersect", "limit", "save"} /\ own[r] # NewRow /\ "copy" \notin overtaken[r]
    => /\ own[r] \in live /\ task[r].change \in Change
       /\ copy[r] = Updated(row[own[r]], task[r].change)

(* changePerformer left the old performer nothing. *)
Emptied(r) ==
  pc[r] = "retire" /\ task[r].kind = "replace" /\ "move" \notin overtaken[r]
    => \A x \in live : row[x].performer # task[r].old

CallInv(r) ==
  /\ pc[r] = "new" => own[r] = NewRow
  /\ ClashFree(r) /\ LimitFree(r) /\ FreshCopy(r) /\ Emptied(r)

AppInv == TypeOK /\ NoDoubleBooking /\ SingleDayLimit /\ \A r \in Request : CallInv(r)

LEMMA InitInv == AppointmentsAssumption /\ Init => AppInv
<1> SUFFICES ASSUME AppointmentsAssumption, Init PROVE AppInv
  OBVIOUS
<1>1. Blank \in Row
  <2>1. PICK s \in Schedule, p \in Performer : TRUE  BY DEF AppointmentsAssumption
  <2>2. 0 \in Time  BY DEF AppointmentsAssumption, Time
  <2>3. [schedule |-> s, performer |-> p, entity |-> NoEntity, start |-> 0, end |-> 0,
         status |-> "confirmed", external |-> NoExternal] \in Row
    BY <2>1, <2>2 DEF Row, Status
  <2> QED BY <2>3 DEF Blank
<1>2. TypeOK
  BY <1>1 DEF AppointmentsAssumption, Init, TypeOK, Fits, Stage, NoTask, Task, NewRow
<1> QED
  BY <1>2 DEF Init, AppInv, CallInv, ClashFree, LimitFree, FreshCopy, Emptied,
              NoDoubleBooking, SingleDayLimit, Shown

------------------------------------------------------------------------------
(* Rows and copies *)

LEMMA RowTypes ==
  ASSUME NEW a \in Row
  PROVE  /\ a.schedule \in Schedule /\ a.performer \in Performer
         /\ a.entity \in Entity \cup {NoEntity} /\ a.start \in Time /\ a.end \in Time
         /\ a.status \in Status /\ a.external \in External \cup {NoExternal}
BY DEF Row

LEMMA LiveIds ==
  ASSUME AppointmentsAssumption, TypeOK PROVE live \subseteq Id /\ \A x \in live : row[x] \in Row
BY DEF AppointmentsAssumption, TypeOK, Id

LEMMA UpdatedType ==
  ASSUME NEW a \in Row, NEW c \in Change PROVE Updated(a, c) \in Row
BY DEF Row, Change, Updated, Or

LEMMA TaskTypes ==
  ASSUME NEW t \in Task
  PROVE  /\ t.check \in BOOLEAN
         /\ t.kind \in {"update", "ext"} => t.change \in Change
         /\ t.kind = "update" => t.id \in Id
         /\ t.kind = "ext" => t.event \in Event /\ t.known \in BOOLEAN /\ ~t.check
         /\ t.kind = "replace" => t.old \in Performer /\ t.new \in Performer
         /\ t.kind = "remove" => t.old \in Performer
<1>1. CASE t = NoTask  BY <1>1 DEF NoTask
<1>2. CASE t \in [kind : {"create"}, check : BOOLEAN]  BY <1>2
<1>3. CASE t \in [kind : {"update"}, id : Id, change : Change, check : BOOLEAN]  BY <1>3
<1>4. CASE t \in [kind : {"ext"}, event : Event, change : Change, known : BOOLEAN, check : {FALSE}]
  BY <1>4
<1>5. CASE t \in [kind : {"delete"}, schedules : SUBSET Schedule, ids : SUBSET Id, check : {FALSE}]
  BY <1>5
<1>6. CASE t \in [kind : {"replace"}, old : Performer, new : Performer, check : {FALSE}]
  BY <1>6
<1>7. CASE t \in [kind : {"remove"}, old : Performer, check : {FALSE}]  BY <1>7
<1> QED BY <1>1, <1>2, <1>3, <1>4, <1>5, <1>6, <1>7 DEF Task

LEMMA EventTypes ==
  ASSUME AppointmentsAssumption, NEW ev \in Event
  PROVE  ChangeOf(ev) \in Change /\ RowOf(ev) \in Row
BY DEF AppointmentsAssumption, Event, Change, Row, ChangeOf, RowOf

(* A row within one day that checkEntityDayLimit finds for an appointment *)
(* within one day is in the same day.                                     *)
LEMMA SameDayFacts ==
  ASSUME AppointmentsAssumption, TypeOK, NEW a \in Row, a.start < a.end, OneDay(a),
         NEW x \in SameDay(a)
  PROVE  /\ x \in Shown /\ row[x].schedule = a.schedule /\ row[x].entity = a.entity
         /\ OneDay(row[x]) /\ DayOf[row[x].start] = DayOf[a.start]
<1>1. x \in Shown /\ x \in live /\ x \in Id
  BY DEF SameDay, Shown, TypeOK, Id, AppointmentsAssumption
<1>2. row[x] \in Row /\ row[x].start < row[x].end
  BY <1>1 DEF TypeOK
<1>3. /\ a.start \in Time /\ a.end \in Time /\ row[x].start \in Time /\ row[x].end \in Time
  BY <1>2, RowTypes
<1>4. DayOf[row[x].start] <= DayOf[row[x].end]
  BY <1>2, <1>3 DEF AppointmentsAssumption, Time
<1>5. /\ DayOf[row[x].start] \in Nat /\ DayOf[row[x].end] \in Nat
      /\ DayOf[a.start] \in Nat /\ DayOf[a.end] \in Nat
  BY <1>3 DEF AppointmentsAssumption
<1>6. DayOf[row[x].start] >= DayOf[a.start] /\ DayOf[row[x].end] <= DayOf[a.end]
  BY DEF SameDay
<1> QED BY <1>1, <1>4, <1>5, <1>6 DEF OneDay, SameDay

LEMMA SameDayComplete ==
  ASSUME NEW a \in Row, OneDay(a), NEW x \in Shown, row[x].schedule = a.schedule,
         row[x].entity = a.entity, OneDay(row[x]), DayOf[row[x].start] = DayOf[a.start],
         DayOf[a.start] \in Nat
  PROVE  x \in SameDay(a)
<1>1. DayOf[row[x].start] >= DayOf[a.start]  OBVIOUS
<1>2. DayOf[row[x].end] <= DayOf[a.end]  BY DEF OneDay
<1> QED BY <1>1, <1>2 DEF SameDay

------------------------------------------------------------------------------
(* Steps that write no row *)

LEMMA ReadStep ==
  ASSUME AppInv, NEW r \in Request, TypeOK', CallInv(r)', UNCHANGED rowVars,
         UNCHANGED <<overtaken, unchecked, raced>>,
         \A q \in Request \ {r} :
           pc'[q] = pc[q] /\ task'[q] = task[q] /\ own'[q] = own[q] /\ copy'[q] = copy[q]
  PROVE  AppInv'
<1>1. NoDoubleBooking' /\ SingleDayLimit'
  BY DEF AppInv, NoDoubleBooking, SingleDayLimit, Shown, rowVars, Rivals, OneDay, Overlap
<1>2. ASSUME NEW q \in Request \ {r} PROVE CallInv(q)'
  <2>1. Clashes(copy[q], own[q])' = Clashes(copy[q], own[q]) /\ SameDay(copy[q])' = SameDay(copy[q])
    BY DEF Clashes, SameDay, Shown, Overlap, rowVars
  <2> QED
    BY <2>1 DEF AppInv, CallInv, ClashFree, LimitFree, FreshCopy, Emptied, rowVars,
                Updated, Or, OneDay
<1> QED BY <1>1, <1>2 DEF AppInv

LEMMA BeginInv ==
  ASSUME AppInv, NEW r \in Request, NEW t, NEW stage \in Stage \ {"new"}, Begin(r, t, stage),
         t \in Task,
         stage \in {"intersect", "limit", "save"} => copy'[r].start < copy'[r].end,
         stage = "load" => t.kind = "update",
         stage \in {"findExt", "findId"} => t.kind = "ext",
         stage = "move" => t.kind = "replace" /\ t.new # t.old,
         stage \in {"limit", "save"} => ~t.check,
         stage = "save" => copy'[r].entity = NoEntity,
         stage = "retire" => t.kind = "remove",
         UNCHANGED <<rowVars, own, doomed, overtaken, unchecked, raced, stale>>,
         copy' \in [Request -> Row], doubled' \subseteq External,
         \A q \in Request \ {r} : copy'[q] = copy[q]
  PROVE  AppInv'
<1>1. /\ pc' = [pc EXCEPT ![r] = stage] /\ task'[r] = t /\ pc[r] = "new"
      /\ \A q \in Request \ {r} : pc'[q] = pc[q] /\ task'[q] = task[q]
  BY DEF Begin, Goto, At, AppInv, TypeOK
<1>2. TypeOK'
  <2>1. \A q \in Request : Fits(q)'
    BY <1>1 DEF AppInv, TypeOK, Fits
  <2> QED BY <1>1, <2>1 DEF AppInv, TypeOK, rowVars, Begin
<1>3. CallInv(r)'
  BY <1>1 DEF AppInv, TypeOK, CallInv, ClashFree, LimitFree, FreshCopy, Emptied
<1> QED BY <1>1, <1>2, <1>3, ReadStep

LEMMA AfterDatesFacts ==
  ASSUME NEW a \in Row, NEW check \in BOOLEAN, MaxTime \in Nat
  PROVE  /\ AfterDates(a, check) \in {"rejected", "intersect", "limit", "save"}
         /\ AfterDates(a, check) # "rejected" => a.start < a.end
         /\ AfterDates(a, check) \in {"limit", "save"} => ~check
         /\ AfterDates(a, check) = "save" => a.entity = NoEntity
<1>1. a.start \in Int /\ a.end \in Int  BY RowTypes DEF Time
<1> QED BY <1>1 DEF AfterDates, AfterIntersect

LEMMA OpenInv ==
  ASSUME AppointmentsAssumption, AppInv, NEW r \in Request, Open(r) PROVE AppInv'
<1> USE DEF rowVars, ghostVars
<1>1. ASSUME NEW b \in Bodies, Create(r, b) PROVE AppInv'
  <2>1. b.row \in Row /\ b.check \in BOOLEAN
    BY DEF AppointmentsAssumption, Body
  <2>2. [kind |-> "create", check |-> b.check] \in Task
    BY <2>1 DEF Task
  <2>3. AfterDates(b.row, b.check) \in Stage \ {"new"}
    BY <2>1, AfterDatesFacts DEF AppointmentsAssumption, Stage
  <2>4. copy' = [copy EXCEPT ![r] = b.row] /\ copy \in [Request -> Row]
    BY <1>1 DEF Create, AppInv, TypeOK
  <2> DEFINE t == [kind |-> "create", check |-> b.check]
             stage == AfterDates(b.row, b.check)
  <2>5. /\ t \in Task /\ t.kind = "create" /\ t.check = b.check /\ stage \in Stage \ {"new"}
        /\ stage \in {"rejected", "intersect", "limit", "save"}
        /\ stage # "rejected" => b.row.start < b.row.end
        /\ stage \in {"limit", "save"} => ~t.check
        /\ stage = "save" => b.row.entity = NoEntity
        /\ Begin(r, t, stage)
    BY <1>1, <2>1, <2>2, <2>3, AfterDatesFacts DEF Create, AppointmentsAssumption
  <2> HIDE DEF t, stage
  <2>6. copy'[r] = b.row /\ copy' \in [Request -> Row] /\ \A q \in Request \ {r} : copy'[q] = copy[q]
    BY <2>1, <2>4
  <2>7. /\ UNCHANGED <<rowVars, own, doomed, overtaken, unchecked, raced, stale>>
        /\ doubled' \subseteq External
    BY <1>1 DEF Create, AppInv, TypeOK
  <2> QED BY <2>5, <2>6, <2>7, BeginInv
<1>2. ASSUME NEW t \in Task, NEW stage \in {"load", "findExt", "find", "move", "retire"},
             Begin(r, t, stage),
             stage = "load" => t.kind = "update",
             stage = "findExt" => t.kind = "ext",
             stage = "move" => t.kind = "replace" /\ t.new # t.old,
             stage = "retire" => t.kind = "remove",
             UNCHANGED <<rowVars, own, copy, doomed, overtaken, unchecked, raced, stale>>,
             doubled' \subseteq External
      PROVE  AppInv'
  <2>1. copy' \in [Request -> Row] /\ stage \in Stage \ {"new"}
    BY <1>2 DEF AppInv, TypeOK, Stage
  <2> QED BY <1>2, <2>1, BeginInv
<1>3. ASSUME NEW i \in Id, NEW c \in Changes, Update(r, i, c) PROVE AppInv'
  <2>1. c \in Change /\ c.check \in BOOLEAN  BY DEF AppointmentsAssumption, Change
  <2>2. [kind |-> "update", id |-> i, change |-> c, check |-> c.check] \in Task
    BY <2>1 DEF Task
  <2>3. doubled' \subseteq External  BY <1>3 DEF Update, AppInv, TypeOK
  <2> QED BY <1>2, <1>3, <2>2, <2>3 DEF Update
<1>4. ASSUME NEW ev \in ExtEvents, UpsertExt(r, ev) PROVE AppInv'
  <2>1. ev \in Event  BY DEF AppointmentsAssumption
  <2> DEFINE t == [kind |-> "ext", event |-> ev, change |-> ChangeOf(ev), check |-> FALSE,
                   known |-> ev.performer \in performers /\ ScheduleOf[ev.performer] = ev.schedule]
  <2>2. t \in Task  BY <2>1, EventTypes DEF Task
  <2>3. doubled' \subseteq External
    BY <1>4, <2>1 DEF UpsertExt, AppInv, TypeOK, Event
  <2>4. Begin(r, t, "findExt") /\ t.kind = "ext"
    BY <1>4 DEF UpsertExt
  <2> HIDE DEF t
  <2> QED BY <1>2, <1>4, <2>2, <2>3, <2>4 DEF UpsertExt
<1>5. ASSUME NEW S \in SUBSET Schedule, NEW I \in SUBSET Id, Delete(r, S, I) PROVE AppInv'
  <2>1. [kind |-> "delete", schedules |-> S, ids |-> I, check |-> FALSE] \in Task
    BY DEF Task
  <2>2. doubled' \subseteq External  BY <1>5 DEF Delete, AppInv, TypeOK
  <2> QED BY <1>2, <1>5, <2>1, <2>2 DEF Delete
<1>6. ASSUME NEW p \in Performer, NEW q \in Performer, ReplacePerformer(r, p, q) PROVE AppInv'
  <2>1. [kind |-> "replace", old |-> p, new |-> q, check |-> FALSE] \in Task
    BY DEF Task
  <2>2. doubled' \subseteq External  BY <1>6 DEF ReplacePerformer, AppInv, TypeOK
  <2> QED BY <1>2, <1>6, <2>1, <2>2 DEF ReplacePerformer
<1>7. ASSUME NEW p \in Performer, RemovePerformer(r, p) PROVE AppInv'
  <2>1. [kind |-> "remove", old |-> p, check |-> FALSE] \in Task
    BY DEF Task
  <2>2. doubled' \subseteq External  BY <1>7 DEF RemovePerformer, AppInv, TypeOK
  <2> QED BY <1>2, <1>7, <2>1, <2>2 DEF RemovePerformer
<1>8. \A p \in Replacements : p[1] \in Performer /\ p[2] \in Performer
  BY DEF AppointmentsAssumption
<1>9. \A i \in live : {i} \in SUBSET Id  BY LiveIds DEF AppInv
<1>10. CASE \E i \in live : Delete(r, Schedule, {i})
  BY <1>5, <1>9, <1>10
<1>11. CASE \E s \in Schedule : Delete(r, {s}, Id)
  BY <1>5, <1>11
<1> QED BY <1>1, <1>3, <1>4, <1>6, <1>7, <1>8, <1>10, <1>11 DEF Open

(* A call goes on to a stage that relies on no check. *)
LEMMA GotoInv ==
  ASSUME AppInv, NEW r \in Request, NEW stage \in {"findId", "drop", "done", "rejected", "failed"},
         Goto(r, stage), stage = "findId" => task[r].kind = "ext",
         UNCHANGED <<rowVars, task, own, copy, ghostVars>>, doomed' \in [Request -> SUBSET Id]
  PROVE  AppInv'
<1> USE DEF rowVars, ghostVars
<1>1. pc' = [pc EXCEPT ![r] = stage]  BY DEF Goto
<1>2. TypeOK'
  <2>1. \A q \in Request : Fits(q)'
    BY <1>1 DEF AppInv, TypeOK, Fits
  <2> QED BY <1>1, <2>1 DEF AppInv, TypeOK, Stage
<1>3. CallInv(r)'
  BY <1>1 DEF AppInv, TypeOK, CallInv, ClashFree, LimitFree, FreshCopy, Emptied
<1>4. \A q \in Request \ {r} : pc'[q] = pc[q]
  BY <1>1 DEF AppInv, TypeOK
<1> QED BY <1>2, <1>3, <1>4, ReadStep

(* A call takes a copy of a row, or makes a new one. *)
LEMMA HoldInv ==
  ASSUME AppointmentsAssumption, AppInv, NEW r \in Request, NEW id \in {NewRow} \cup live,
         NEW a \in Row, Hold(r, id, a), task[r].kind \in {"update", "ext"},
         id # NewRow => a = Updated(row[id], task[r].change),
         UNCHANGED <<rowVars, task, doomed, ghostVars>>
  PROVE  AppInv'
<1> USE DEF rowVars, ghostVars
<1>1. task[r] \in Task /\ task[r].check \in BOOLEAN /\ task[r].change \in Change
  BY TaskTypes DEF AppInv, TypeOK
<1> DEFINE stage == AfterDates(a, task[r].check)
<1>2. /\ pc' = [pc EXCEPT ![r] = stage] /\ own' = [own EXCEPT ![r] = id]
      /\ copy' = [copy EXCEPT ![r] = a]
  BY DEF Hold, Goto
<1>3. /\ stage \in {"rejected", "intersect", "limit", "save"}
      /\ stage # "rejected" => a.start < a.end
      /\ stage \in {"limit", "save"} => ~task[r].check
      /\ stage = "save" => a.entity = NoEntity
  BY <1>1, AfterDatesFacts DEF AppointmentsAssumption
<1> HIDE DEF stage
<1>4. TypeOK'
  <2>1. \A q \in Request : Fits(q)'
    BY <1>2, <1>3 DEF AppInv, TypeOK, Fits
  <2> QED BY <1>2, <1>3, <2>1 DEF AppInv, TypeOK, Stage
<1>5. CallInv(r)'
  <2>1. pc'[r] = stage /\ own'[r] = id /\ copy'[r] = a /\ task'[r] = task[r]
    BY <1>2 DEF AppInv, TypeOK
  <2>2. FreshCopy(r)'
    BY <1>1, <2>1 DEF FreshCopy, Updated, Or
  <2> QED BY <1>3, <2>1, <2>2 DEF CallInv, ClashFree, LimitFree, Emptied
<1>6. \A q \in Request \ {r} : pc'[q] = pc[q] /\ own'[q] = own[q] /\ copy'[q] = copy[q]
  BY <1>2 DEF AppInv, TypeOK
<1> QED BY <1>4, <1>5, <1>6, ReadStep

LEMMA LoadInv ==
  ASSUME AppointmentsAssumption, AppInv, NEW r \in Request, Load(r) PROVE AppInv'
<1> USE DEF Load, At
<1>1. task[r].kind = "update" /\ doomed' \in [Request -> SUBSET Id]
  BY DEF AppInv, TypeOK, Fits
<1>2. CASE Goto(r, "failed") /\ UNCHANGED <<own, copy>>  BY <1>1, <1>2, GotoInv
<1>3. CASE Goto(r, "done") /\ UNCHANGED <<own, copy>>  BY <1>1, <1>3, GotoInv
<1>4. CASE task[r].id \in Shown /\ Hold(r, task[r].id, Updated(row[task[r].id], task[r].change))
  <2>1. task[r].id \in live /\ row[task[r].id] \in Row
    BY <1>4, LiveIds DEF AppInv, Shown
  <2>2. Updated(row[task[r].id], task[r].change) \in Row
    BY <1>1, <2>1, UpdatedType, TaskTypes DEF AppInv, TypeOK
  <2> QED BY <1>1, <1>4, <2>1, <2>2, HoldInv
<1> QED BY <1>2, <1>3, <1>4

LEMMA FindExtInv ==
  ASSUME AppointmentsAssumption, AppInv, NEW r \in Request, FindExt(r) PROVE AppInv'
<1> USE DEF FindExt, At
<1>1. task[r].kind = "ext" /\ doomed' \in [Request -> SUBSET Id]
  BY DEF AppInv, TypeOK, Fits
<1>2. CASE Goto(r, "findId") /\ UNCHANGED <<own, copy>>  BY <1>1, <1>2, GotoInv
<1>3. ASSUME NEW i \in Linked(task[r].event), Hold(r, i, Updated(row[i], task[r].change))
      PROVE  AppInv'
  <2>1. i \in live /\ i \in Id /\ row[i] \in Row
    BY LiveIds DEF Linked, AppInv
  <2>2. Updated(row[i], task[r].change) \in Row
    BY <1>1, <2>1, UpdatedType, TaskTypes DEF AppInv, TypeOK
  <2> QED BY <1>1, <1>3, <2>1, <2>2, HoldInv
<1> QED BY <1>2, <1>3

LEMMA FindIdInv ==
  ASSUME AppointmentsAssumption, AppInv, NEW r \in Request, FindId(r) PROVE AppInv'
<1> USE DEF FindId, At
<1>1. task[r].kind = "ext" /\ doomed' \in [Request -> SUBSET Id]
  BY DEF AppInv, TypeOK, Fits
<1>2. CASE Goto(r, "done") /\ UNCHANGED <<own, copy>>  BY <1>1, <1>2, GotoInv
<1>3. ASSUME NEW i \in Named(task[r].event), Hold(r, i, Updated(row[i], task[r].change))
      PROVE  AppInv'
  <2>1. i \in live /\ i \in Id /\ row[i] \in Row
    BY LiveIds DEF Named, AppInv
  <2>2. Updated(row[i], task[r].change) \in Row
    BY <1>1, <2>1, UpdatedType, TaskTypes DEF AppInv, TypeOK
  <2> QED BY <1>1, <1>3, <2>1, <2>2, HoldInv
<1>4. CASE Hold(r, NewRow, RowOf(task[r].event))
  <2>1. RowOf(task[r].event) \in Row
    BY <1>1, TaskTypes, EventTypes DEF AppInv, TypeOK
  <2> QED BY <1>1, <1>4, <2>1, HoldInv
<1> QED BY <1>2, <1>3, <1>4

LEMMA DeleteReadsInv ==
  ASSUME AppointmentsAssumption, AppInv, NEW r \in Request, FindDoomed(r) \/ EndDelete(r)
  PROVE  AppInv'
<1>1. CASE FindDoomed(r)
  <2>1. doomed' \in [Request -> SUBSET Id]
    <3>1. {x \in Shown : x \in task[r].ids /\ row[x].schedule \in task[r].schedules} \in SUBSET Id
      BY LiveIds DEF AppInv, Shown
    <3> QED BY <1>1, <3>1 DEF FindDoomed, AppInv, TypeOK
  <2> QED BY <1>1, <2>1, GotoInv DEF FindDoomed
<1>2. CASE EndDelete(r)
  BY <1>2, GotoInv DEF EndDelete, AppInv, TypeOK
<1> QED BY <1>1, <1>2

(* The checks. *)

LEMMA CheckStep ==
  ASSUME AppInv, NEW r \in Request, NEW stage \in {"limit", "save"},
         pc[r] \in {"intersect", "limit"}, Goto(r, stage),
         UNCHANGED <<rowVars, task, own, copy, doomed, ghostVars>>,
         pc[r] = "limit" \/ Clashes(copy[r], own[r]) = {},
         stage = "save" => copy[r].entity = NoEntity \/ LimitFree(r)'
  PROVE  AppInv'
<1> USE DEF rowVars, ghostVars
<1>1. pc' = [pc EXCEPT ![r] = stage]  BY DEF Goto
<1>2. TypeOK'
  <2>1. \A q \in Request : Fits(q)'
    BY <1>1 DEF AppInv, TypeOK, Fits
  <2> QED BY <1>1, <2>1 DEF AppInv, TypeOK, Stage
<1>3. CallInv(r)'
  <2>1. pc'[r] = stage  BY <1>1 DEF AppInv, TypeOK
  <2>2. Clashes(copy[r], own[r])' = Clashes(copy[r], own[r])
    BY DEF Clashes, Shown, Overlap
  <2>3. ClashFree(r)'  BY <2>1, <2>2 DEF AppInv, CallInv, ClashFree
  <2>4. LimitFree(r)'  BY <2>1 DEF LimitFree
  <2>5. FreshCopy(r)'  BY <2>1 DEF AppInv, CallInv, FreshCopy, Updated, Or
  <2> QED BY <2>1, <2>3, <2>4, <2>5 DEF CallInv, Emptied
<1>4. \A q \in Request \ {r} : pc'[q] = pc[q]
  BY <1>1 DEF AppInv, TypeOK
<1> QED BY <1>2, <1>3, <1>4, ReadStep

LEMMA CheckIntersectInv ==
  ASSUME AppInv, NEW r \in Request, CheckIntersect(r) PROVE AppInv'
<1> USE DEF CheckIntersect, At
<1>1. CASE Clashes(copy[r], own[r]) # {}
  BY <1>1, GotoInv DEF AppInv, TypeOK
<1>2. CASE Clashes(copy[r], own[r]) = {}
  <2>1. /\ AfterIntersect(copy[r]) \in {"limit", "save"}
        /\ AfterIntersect(copy[r]) = "save" => copy[r].entity = NoEntity
    BY DEF AfterIntersect
  <2> QED BY <1>2, <2>1, CheckStep
<1> QED BY <1>1, <1>2

LEMMA CheckLimitInv ==
  ASSUME AppointmentsAssumption, AppInv, NEW r \in Request, CheckLimit(r) PROVE AppInv'
<1> USE DEF CheckLimit, At
<1>1. CASE Goto(r, "rejected")
  BY <1>1, GotoInv DEF AppInv, TypeOK
<1>2. CASE Free(copy[r], own[r]) /\ Goto(r, "save")
  <2>1. ASSUME copy[r].schedule \in Limited, copy[r].entity # NoEntity, OneDay(copy[r]),
               own[r] \notin raced
        PROVE  SameDay(copy[r]) \ {own[r]} \subseteq raced
    <3>1. SUFFICES ASSUME NEW y \in SameDay(copy[r]), y # own[r], y \notin raced PROVE FALSE
      OBVIOUS
    <3>2. own[r] \in SameDay(copy[r])  BY <1>2, <2>1 DEF Free
    <3>3. copy[r] \in Row /\ copy[r].start < copy[r].end
      BY DEF AppInv, TypeOK, Fits
    <3>4. \A x \in SameDay(copy[r]) :
            /\ x \in Shown /\ row[x].schedule = copy[r].schedule
            /\ row[x].entity = copy[r].entity /\ OneDay(row[x])
            /\ DayOf[row[x].start] = DayOf[copy[r].start]
      BY <2>1, <3>3, SameDayFacts DEF AppInv
    <3> QED BY <2>1, <3>1, <3>2, <3>4 DEF AppInv, SingleDayLimit, Rivals
  <2>2. LimitFree(r)'
    <3>1. SameDay(copy[r])' = SameDay(copy[r]) /\ OneDay(copy[r])' = OneDay(copy[r])
      BY DEF SameDay, Shown, OneDay, rowVars
    <3> QED BY <2>1, <3>1 DEF LimitFree, ghostVars
  <2> QED BY <1>2, <2>2, CheckStep
<1> QED BY <1>1, <1>2

------------------------------------------------------------------------------
(* The steps that write rows *)

(* Another call's save leaves a call nothing to rely on. *)
LEMMA OvertakenAll ==
  ASSUME AppInv, NEW q \in Request, CallInv(q), Check \cap Relies(q) \subseteq overtaken'[q],
         overtaken[q] \subseteq overtaken'[q],
         pc'[q] = pc[q], task'[q] = task[q], own'[q] = own[q], copy'[q] = copy[q]
  PROVE  CallInv(q)'
BY DEF CallInv, ClashFree, LimitFree, FreshCopy, Emptied, Relies, Check

(* Removing rows leaves only the copies of them stale. *)
LEMMA OvertakenCopy ==
  ASSUME AppInv, NEW q \in Request, CallInv(q), {"copy"} \cap Relies(q) \subseteq overtaken'[q],
         overtaken[q] \subseteq overtaken'[q], live' \subseteq live, row' = row, raced' = raced,
         pc'[q] = pc[q], task'[q] = task[q], own'[q] = own[q], copy'[q] = copy[q]
  PROVE  CallInv(q)'
<1>1. /\ Clashes(copy[q], own[q])' \subseteq Clashes(copy[q], own[q])
      /\ SameDay(copy[q])' \subseteq SameDay(copy[q])
  BY DEF Clashes, SameDay, Shown, Overlap
<1>2. ClashFree(q)'  BY <1>1 DEF CallInv, ClashFree
<1>3. LimitFree(q)'  BY <1>1 DEF CallInv, LimitFree, OneDay
<1>4. FreshCopy(q)'  BY DEF CallInv, FreshCopy, Relies, Check
<1>5. Emptied(q)'  BY DEF CallInv, Emptied
<1> QED BY <1>2, <1>3, <1>4, <1>5 DEF CallInv

LEMMA OvertakeFacts ==
  ASSUME TypeOK, NEW r \in Request, NEW S \in SUBSET Check, Overtake(r, S)
  PROVE  /\ overtaken' \in [Request -> SUBSET Check] /\ overtaken'[r] = {}
         /\ \A q \in Request \ {r} :
              overtaken[q] \subseteq overtaken'[q] /\ S \cap Relies(q) \subseteq overtaken'[q]
BY DEF Overtake, TypeOK

(* A call that has saved, dropped or moved rows and goes on to a stage that relies on no check. *)
LEMMA OwnInv ==
  ASSUME AppInv, NEW r \in Request, pc'[r] \in {"drop", "done"} PROVE CallInv(r)'
BY DEF CallInv, ClashFree, LimitFree, FreshCopy, Emptied

LEMMA ShrinkProps ==
  ASSUME AppInv, live' \subseteq live, row' = row, unchecked' = unchecked, raced' = raced
  PROVE  NoDoubleBooking' /\ SingleDayLimit'
BY DEF AppInv, NoDoubleBooking, SingleDayLimit, Shown, Rivals, OneDay, Overlap

LEMMA DropInv ==
  ASSUME AppointmentsAssumption, AppInv, NEW r \in Request, NEW x \in doomed[r], Drop(r, x)
  PROVE  AppInv'
<1>1. /\ overtaken' \in [Request -> SUBSET Check]
      /\ \A q \in Request \ {r} :
           overtaken[q] \subseteq overtaken'[q] /\ {"copy"} \cap Relies(q) \subseteq overtaken'[q]
  BY OvertakeFacts DEF Drop, AppInv, Check
<1>2. TypeOK'
  <2>1. \A q \in Request : Fits(q)'  BY DEF Drop, AppInv, TypeOK, Fits
  <2>2. doomed' \in [Request -> SUBSET Id]  BY DEF Drop, AppInv, TypeOK
  <2> QED BY <1>1, <2>1, <2>2 DEF Drop, AppInv, TypeOK
<1>3. NoDoubleBooking' /\ SingleDayLimit'
  BY ShrinkProps DEF Drop
<1>4. \A q \in Request \ {r} : CallInv(q)'
  BY <1>1, OvertakenCopy DEF Drop, AppInv
<1>5. CallInv(r)'  BY OwnInv DEF Drop, At
<1> QED BY <1>2, <1>3, <1>4, <1>5 DEF AppInv

LEMMA RetireInv ==
  ASSUME AppointmentsAssumption, AppInv, NEW r \in Request, Retire(r) PROVE AppInv'
<1>1. /\ overtaken' \in [Request -> SUBSET Check]
      /\ \A q \in Request \ {r} :
           overtaken[q] \subseteq overtaken'[q] /\ {"copy"} \cap Relies(q) \subseteq overtaken'[q]
  BY OvertakeFacts DEF Retire, AppInv, Check
<1>2. pc' = [pc EXCEPT ![r] = "done"] /\ pc \in [Request -> Stage]
  BY DEF Retire, Goto, AppInv, TypeOK
<1>3. TypeOK'
  <2>1. \A q \in Request : Fits(q)'  BY <1>2 DEF Retire, AppInv, TypeOK, Fits
  <2>2. \A x \in live' : row'[x].performer \in performers' /\ row'[x].start < row'[x].end
    BY DEF Retire, AppInv, TypeOK
  <2> QED BY <1>1, <1>2, <2>1, <2>2 DEF Retire, AppInv, TypeOK, Stage
<1>4. NoDoubleBooking' /\ SingleDayLimit'
  BY ShrinkProps DEF Retire
<1>5. \A q \in Request \ {r} : CallInv(q)'
  BY <1>1, <1>2, OvertakenCopy DEF Retire, AppInv
<1>6. CallInv(r)'  BY <1>2, OwnInv
<1> QED BY <1>3, <1>4, <1>5, <1>6 DEF AppInv

LEMMA ChangePerformerInv ==
  ASSUME AppointmentsAssumption, AppInv, NEW r \in Request, ChangePerformer(r) PROVE AppInv'
<1> DEFINE p == task[r].old
           n == task[r].new
           S == Moved(task[r].old)
           T == {"intersect", "copy", "move"}
<1>1. CASE Goto(r, "failed") /\ UNCHANGED <<row, overtaken, unchecked>>
  BY <1>1, GotoInv DEF ChangePerformer, rowVars, ghostVars, AppInv, TypeOK
<1>2. CASE /\ n \in performers \/ S = {}
           /\ row' = [x \in Id |-> IF x \in S THEN [row[x] EXCEPT !.performer = n] ELSE row[x]]
           /\ unchecked' = unchecked \cup S
           /\ Overtake(r, T) /\ Goto(r, "retire")
  <2>1. /\ overtaken' \in [Request -> SUBSET Check]
        /\ \A q \in Request \ {r} :
             overtaken[q] \subseteq overtaken'[q] /\ T \cap Relies(q) \subseteq overtaken'[q]
    BY <1>2, OvertakeFacts DEF AppInv, Check
  <2>2. /\ task[r].kind = "replace" /\ n # p /\ n \in Performer /\ pc[r] = "move"
    BY TaskTypes DEF ChangePerformer, At, AppInv, TypeOK, Fits
  <2>3. \A x \in Id :
          /\ row'[x] \in Row
          /\ row'[x].schedule = row[x].schedule /\ row'[x].entity = row[x].entity
          /\ row'[x].start = row[x].start /\ row'[x].end = row[x].end
          /\ row'[x].status = row[x].status
          /\ row'[x].performer = IF x \in S THEN n ELSE row[x].performer
    <3>1. SUFFICES ASSUME NEW x \in Id
          PROVE  /\ row'[x] \in Row
                 /\ row'[x].schedule = row[x].schedule /\ row'[x].entity = row[x].entity
                 /\ row'[x].start = row[x].start /\ row'[x].end = row[x].end
                 /\ row'[x].status = row[x].status
                 /\ row'[x].performer = IF x \in S THEN n ELSE row[x].performer
      OBVIOUS
    <3>2. row[x] \in Row /\ row'[x] = IF x \in S THEN [row[x] EXCEPT !.performer = n] ELSE row[x]
      BY <1>2 DEF AppInv, TypeOK
    <3> HIDE DEF S, n
    <3> QED BY <2>2, <3>2 DEF Row
  <2>4. live \subseteq Id /\ live' = live /\ S \subseteq live
        /\ \A x \in live : x \in S <=> row[x].performer = p
    BY LiveIds DEF AppInv, ChangePerformer, Moved
  <2> HIDE DEF S
  <2>5. /\ pc' = [pc EXCEPT ![r] = "retire"] /\ pc'[r] = "retire"
        /\ \A q \in Request \ {r} : pc'[q] = pc[q]
    BY <1>2 DEF Goto, AppInv, TypeOK
  <2>6. TypeOK'
    <3>1. \A q \in Request : Fits(q)'
      BY <2>2, <2>5 DEF ChangePerformer, AppInv, TypeOK, Fits
    <3>2. \A x \in live : row'[x].performer \in performers /\ row'[x].start < row'[x].end
      BY <1>2, <2>3, <2>4 DEF AppInv, TypeOK
    <3>3. row' \in [Id -> Row] /\ unchecked' \subseteq Id /\ pc' \in [Request -> Stage]
      BY <1>2, <2>3, <2>4, <2>5 DEF AppInv, TypeOK, Stage
    <3> QED BY <2>1, <3>1, <3>2, <3>3 DEF ChangePerformer, AppInv, TypeOK
  <2>7. Shown' = Shown /\ Shown \subseteq live
    BY <2>3, <2>4 DEF Shown
  <2>8. NoDoubleBooking'
    BY <1>2, <2>3, <2>4, <2>7 DEF AppInv, NoDoubleBooking, Overlap
  <2>9. SingleDayLimit'
    BY <2>3, <2>4, <2>7 DEF AppInv, SingleDayLimit, Rivals, OneDay, ChangePerformer
  <2>10. ASSUME NEW q \in Request \ {r} PROVE CallInv(q)'
    <3>1. SameDay(copy[q])' = SameDay(copy[q])
      BY <2>3, <2>4, <2>7 DEF SameDay, ChangePerformer
    <3>2. CallInv(q) /\ pc'[q] = pc[q] /\ own' = own /\ copy' = copy /\ task' = task /\ raced' = raced
      BY <2>5 DEF AppInv, ChangePerformer
    <3>3. LimitFree(q)'  BY <2>1, <3>1, <3>2 DEF CallInv, LimitFree, OneDay
    <3>4. ClashFree(q)' /\ FreshCopy(q)' /\ Emptied(q)'
      BY <2>1, <3>2 DEF CallInv, ClashFree, FreshCopy, Emptied, Relies, Check
    <3> QED BY <3>2, <3>3, <3>4 DEF CallInv
  <2>11. CallInv(r)'
    <3>1. \A x \in live : row'[x].performer # p
      BY <2>2, <2>3, <2>4
    <3> QED BY <2>4, <2>5, <3>1
      DEF ChangePerformer, CallInv, ClashFree, LimitFree, FreshCopy, Emptied
  <2> QED BY <2>6, <2>8, <2>9, <2>10, <2>11 DEF AppInv
<1> QED BY <1>1, <1>2 DEF ChangePerformer

LEMMA SaveInv ==
  ASSUME AppointmentsAssumption, AppInv, NEW r \in Request, Save(r) PROVE AppInv'
<1> DEFINE a == copy[r]
           i == IF own[r] = NewRow THEN lastId + 1 ELSE own[r]
<1>1. CASE Goto(r, "failed") /\ UNCHANGED <<live, row, lastId, overtaken, unchecked, raced, stale, doubled>>
  BY <1>1, GotoInv DEF Save, rowVars, ghostVars, AppInv, TypeOK
<1>2. CASE /\ a.performer \in performers /\ i \in Id
           /\ live' = live \cup {i} /\ row' = [row EXCEPT ![i] = a]
           /\ lastId' = IF own[r] = NewRow THEN i ELSE lastId
           /\ Overtake(r, Check)
           /\ unchecked' = IF task[r].check /\ "intersect" \notin overtaken[r]
                             THEN unchecked \ {i} ELSE unchecked \cup {i}
           /\ raced' = IF "limit" \in overtaken[r] THEN raced \cup {i} ELSE raced
           /\ stale' = IF "copy" \in overtaken[r] THEN stale \cup {i} ELSE stale
           /\ doubled' = doubled \/ doubled' = doubled \cup ({a.external} \ {NoExternal})
           /\ Goto(r, "done")
  <2>1. /\ overtaken' \in [Request -> SUBSET Check]
        /\ \A q \in Request \ {r} :
             overtaken[q] \subseteq overtaken'[q] /\ Check \cap Relies(q) \subseteq overtaken'[q]
    BY <1>2, OvertakeFacts DEF AppInv
  <2>2. /\ pc' = [pc EXCEPT ![r] = "done"] /\ pc'[r] = "done" /\ pc[r] = "save"
        /\ \A q \in Request \ {r} : pc'[q] = pc[q]
    BY <1>2 DEF Goto, Save, At, AppInv, TypeOK
  <2>3. /\ a \in Row /\ a.start < a.end /\ live \subseteq Id /\ row'[i] = a
        /\ \A x \in Id \ {i} : row'[x] = row[x]
    BY <1>2, <2>2, LiveIds DEF AppInv, TypeOK, Fits
  <2>4. /\ lastId' \in 0..MaxId /\ lastId <= lastId' /\ i \in 1..lastId' /\ live' \subseteq 1..lastId'
        /\ own[r] = NewRow => i \notin live
        /\ own[r] # NewRow => i = own[r]
    <3>1. /\ lastId \in Int /\ 0 <= lastId /\ lastId <= MaxId /\ MaxId \in Int
          /\ live \subseteq 1..lastId /\ own[r] \in {0} \cup 1..lastId
      BY DEF AppInv, TypeOK, NewRow, AppointmentsAssumption
    <3>2. CASE own[r] = 0
      <4>1. i = lastId + 1 /\ lastId' = lastId + 1 /\ i \in 1..MaxId
        BY <1>2, <3>2 DEF NewRow, Id
      <4> QED BY <1>2, <3>1, <3>2, <4>1 DEF NewRow
    <3>3. CASE own[r] # 0
      <4>1. i = own[r] /\ lastId' = lastId /\ live' = live \cup {own[r]}
        BY <1>2, <3>3 DEF NewRow
      <4> HIDE DEF i
      <4>2. own[r] \in 1..lastId  BY <3>1, <3>3
      <4>3. lastId' \in 0..MaxId /\ lastId <= lastId'  BY <3>1, <4>1
      <4>4. i \in 1..lastId' /\ live' \subseteq 1..lastId'  BY <3>1, <4>1, <4>2
      <4> QED BY <3>3, <4>1, <4>3, <4>4 DEF NewRow
    <3> QED BY <3>2, <3>3
  <2> HIDE DEF i
  <2>5. TypeOK'
    <3>1. \A q \in Request : Fits(q)'
      BY <2>2 DEF Save, AppInv, TypeOK, Fits
    <3>2. \A x \in live' : row'[x].performer \in performers /\ row'[x].start < row'[x].end
      BY <1>2, <2>3 DEF AppInv, TypeOK
    <3>3. /\ row' \in [Id -> Row] /\ unchecked' \subseteq Id /\ pc' \in [Request -> Stage]
          /\ raced' \subseteq Id /\ stale' \subseteq Id
      BY <1>2, <2>2, <2>3 DEF AppInv, TypeOK, Stage
    <3>5. doubled' \subseteq External
      BY <1>2, <2>3 DEF AppInv, TypeOK, Row
    <3>4. own' \in [Request -> {NewRow} \cup 1..lastId']
      BY <2>4 DEF Save, AppInv, TypeOK
    <3> QED BY <2>1, <2>4, <3>1, <3>2, <3>3, <3>4, <3>5 DEF Save, AppInv, TypeOK
  <2>6. \A x \in Shown' : x # i => x \in Shown /\ row'[x] = row[x]
    BY <1>2, <2>3 DEF Shown
  <2>7. NoDoubleBooking'
    <3>1. ASSUME NEW x \in Shown' \ unchecked', x # i, i \notin unchecked',
                 row'[x].schedule = a.schedule, row'[x].performer = a.performer
          PROVE  ~Overlap(a, row'[x]) /\ ~Overlap(row'[x], a)
      <4>1. Clashes(a, own[r]) = {}
        BY <1>2, <2>2, <3>1 DEF AppInv, CallInv, ClashFree
      <4>2. x \in Shown \ {own[r]} /\ row'[x] = row[x]
        BY <2>4, <2>6, <3>1 DEF AppInv, TypeOK, Shown, NewRow
      <4>3. ~Overlap(a, row[x])  BY <3>1, <4>1, <4>2 DEF Clashes
      <4> QED BY <4>2, <4>3 DEF Overlap
    <3>2. ASSUME NEW x \in Shown' \ unchecked', NEW y \in Shown' \ unchecked', x # i, y # i, x # y,
                 row'[x].schedule = row'[y].schedule, row'[x].performer = row'[y].performer
          PROVE  ~Overlap(row'[x], row'[y])
      <4>1. x \in Shown \ unchecked /\ y \in Shown \ unchecked
            /\ row'[x] = row[x] /\ row'[y] = row[y]
        BY <1>2, <2>6, <3>2
      <4> QED BY <3>2, <4>1 DEF AppInv, NoDoubleBooking
    <3>3. ASSUME NEW x \in Shown' \ unchecked', NEW y \in Shown' \ unchecked', x # y,
                 row'[x].schedule = row'[y].schedule, row'[x].performer = row'[y].performer
          PROVE  ~Overlap(row'[x], row'[y])
      <4>1. CASE x = i  BY <2>3, <3>1, <3>3, <4>1
      <4>2. CASE y = i  BY <2>3, <3>1, <3>3, <4>2
      <4> QED BY <3>2, <3>3, <4>1, <4>2
    <3>4. \A x, y \in Shown' \ unchecked' :
            x # y /\ row'[x].schedule = row'[y].schedule /\ row'[x].performer = row'[y].performer
              => ~Overlap(row'[x], row'[y])
      BY <3>3
    <3> QED BY <3>4 DEF NoDoubleBooking, Overlap
  <2>8. SingleDayLimit'
    <3>1. ASSUME NEW x \in Shown' \ raced', x # i, i \notin raced', Rivals(a, row'[x]),
                 OneDay(a), OneDay(row'[x]), DayOf[row'[x].start] = DayOf[a.start]
          PROVE  FALSE
      <4>1. x \in Shown \ raced /\ row'[x] = row[x] /\ i \notin raced /\ "limit" \notin overtaken[r]
        BY <1>2, <2>6, <3>1
      <4>2. own[r] \notin raced
        BY <2>4, <4>1 DEF AppInv, TypeOK, NewRow, Id
      <4>3. SameDay(a) \ {own[r]} \subseteq raced
        BY <2>2, <3>1, <4>1, <4>2 DEF AppInv, CallInv, LimitFree, Rivals
      <4>4. DayOf[a.start] \in Nat  BY <2>3, RowTypes DEF AppointmentsAssumption
      <4>5. x \in SameDay(a)
        BY <2>3, <3>1, <4>1, <4>4, SameDayComplete DEF Rivals
      <4>6. x # own[r]
        BY <2>4, <3>1, <4>1 DEF AppInv, TypeOK, Shown, NewRow
      <4> QED BY <4>1, <4>3, <4>5, <4>6
    <3>2. ASSUME NEW x \in Shown' \ raced', NEW y \in Shown' \ raced', x # y,
                 Rivals(row'[x], row'[y]), OneDay(row'[x]), OneDay(row'[y])
          PROVE  DayOf[row'[x].start] # DayOf[row'[y].start]
      <4>1. CASE x = i  BY <2>3, <3>1, <3>2, <4>1
      <4>2. CASE y = i
        <5>1. Rivals(row'[y], row'[x])  BY <3>2 DEF Rivals
        <5> QED BY <2>3, <3>1, <3>2, <4>2, <5>1
      <4>3. CASE x # i /\ y # i
        <5>1. x \in Shown \ raced /\ y \in Shown \ raced /\ row'[x] = row[x] /\ row'[y] = row[y]
          BY <1>2, <2>6, <4>3
        <5> QED BY <3>2, <5>1 DEF AppInv, SingleDayLimit
      <4> QED BY <4>1, <4>2, <4>3
    <3>3. \A x, y \in Shown' \ raced' :
            x # y /\ Rivals(row'[x], row'[y]) /\ OneDay(row'[x]) /\ OneDay(row'[y])
              => DayOf[row'[x].start] # DayOf[row'[y].start]
      BY <3>2
    <3> QED BY <3>3 DEF SingleDayLimit, Rivals, OneDay
  <2>9. \A q \in Request \ {r} : CallInv(q)'
    BY <2>1, <2>2, OvertakenAll DEF Save, AppInv
  <2>10. CallInv(r)'  BY <2>2, OwnInv
  <2> QED BY <2>5, <2>7, <2>8, <2>9, <2>10 DEF AppInv
<1> QED BY <1>1, <1>2 DEF Save

------------------------------------------------------------------------------
LEMMA StutterInv == ASSUME AppInv, UNCHANGED vars PROVE AppInv'
<1> USE DEF vars, rowVars, callVars, ghostVars
<1>1. TypeOK'  BY DEF AppInv, TypeOK, Fits
<1>2. NoDoubleBooking' /\ SingleDayLimit'
  BY ShrinkProps
<1>3. \A q \in Request : CallInv(q)'
  <2>1. ASSUME NEW q \in Request PROVE CallInv(q)'
    <3>1. Clashes(copy[q], own[q])' = Clashes(copy[q], own[q]) /\ SameDay(copy[q])' = SameDay(copy[q])
      BY DEF Clashes, SameDay, Shown, Overlap
    <3> QED
      BY <3>1 DEF AppInv, CallInv, ClashFree, LimitFree, FreshCopy, Emptied, Updated, Or, OneDay
  <2> QED BY <2>1
<1> QED BY <1>1, <1>2, <1>3 DEF AppInv

LEMMA NextInv == ASSUME AppointmentsAssumption, AppInv, [Next]_vars PROVE AppInv'
<1>1. ASSUME NEW r \in Request, Step(r) PROVE AppInv'
  <2>1. CASE Load(r) \/ FindExt(r) \/ FindId(r)
    BY <2>1, LoadInv, FindExtInv, FindIdInv
  <2>2. CASE CheckIntersect(r) \/ CheckLimit(r)
    BY <2>2, CheckIntersectInv, CheckLimitInv
  <2>3. CASE Save(r) \/ ChangePerformer(r) \/ Retire(r)
    BY <2>3, SaveInv, ChangePerformerInv, RetireInv
  <2>4. CASE FindDoomed(r) \/ EndDelete(r)
    BY <2>4, DeleteReadsInv
  <2>5. CASE \E x \in doomed[r] : Drop(r, x)
    BY <2>5, DropInv
  <2> QED BY <1>1, <2>1, <2>2, <2>3, <2>4, <2>5 DEF Step
<1> QED BY <1>1, OpenInv, StutterInv DEF Next

LEMMA InvHolds == Spec => []AppInv
<1>1. AppInv /\ [Next]_vars => AppInv'  BY AppointmentsAssumption, NextInv
<1> QED BY <1>1, AppointmentsAssumption, InitInv, PTL DEF Spec

(* Every appointment has a performer and ends after it starts, and every call keeps what its *)
(* stage needs, however the calls of the services interleave.                                *)
THEOREM AppTypeCorrect == Spec => []TypeOK
BY InvHolds, PTL DEF AppInv

(* Checked saves that no other save overtook never leave a performer two appointments at the *)
(* same time (checkIntersection, hasIntersect).                                              *)
THEOREM NoDoubleBookingCorrect == Spec => []NoDoubleBooking
BY InvHolds, PTL DEF AppInv

(* Nor an entity two appointments within the same day of a schedule that allows one          *)
(* (checkEntityDayLimit, although it looks at any one of the rows it finds).                  *)
THEOREM SingleDayLimitCorrect == Spec => []SingleDayLimit
BY InvHolds, PTL DEF AppInv

(* Only a call's own step moves it. *)
LEMMA OwnStep ==
  ASSUME AppInv, [Next]_vars, NEW r \in Request, pc'[r] # pc[r], pc[r] # "new"
  PROVE  Step(r)
<1>1. pc \in [Request -> Stage]  BY DEF AppInv, TypeOK
<1>2. ASSUME NEW q \in Request, Step(q), q # r PROVE FALSE
  <2>1. CASE \E x \in doomed[q] : Drop(q, x)
    BY <2>1 DEF Drop
  <2>2. CASE ~ \E x \in doomed[q] : Drop(q, x)
    <3>1. \E stage \in Stage : Goto(q, stage)
      BY <1>2, <2>2 DEF Step, Load, CheckIntersect, CheckLimit, Save, FindExt, FindId, Hold,
           FindDoomed, EndDelete, ChangePerformer, Retire, Stage, AfterDates, AfterIntersect
    <3> QED BY <1>1, <1>2, <3>1 DEF Goto
  <2> QED BY <2>1, <2>2
<1>3. ASSUME NEW q \in Request, Open(q) PROVE FALSE
  <2>1. \E t, stage : Begin(q, t, stage)
    BY <1>3 DEF Open, Create, Update, UpsertExt, Delete, ReplacePerformer, RemovePerformer
  <2> QED BY <1>1, <2>1 DEF Begin, Goto, At
<1>4. CASE UNCHANGED vars  BY <1>4 DEF vars, callVars
<1> QED BY <1>2, <1>3, <1>4 DEF Next

(* Replacing a performer loses no appointment, unless one was saved between the move and the *)
(* removal (SchedulePerformerService.delete, changePerformer).                               *)
THEOREM ReplaceKeepsAllCorrect == Spec => ReplaceKeepsAll
<1> DEFINE Keeps(r) == At(r, "retire") /\ pc'[r] = "done" /\ task[r].kind = "replace"
                         /\ "move" \notin overtaken[r]
                         => live' = live
<1>1. ASSUME AppInv, [Next]_vars, NEW r \in Request PROVE Keeps(r)
  <2>1. SUFFICES ASSUME pc[r] = "retire", pc'[r] = "done", task[r].kind = "replace",
                        "move" \notin overtaken[r]
                 PROVE  live' = live
    BY DEF At
  <2>2. Step(r)  BY <1>1, <2>1, OwnStep
  <2>3. Retire(r)
    BY <2>1, <2>2 DEF Step, Load, CheckIntersect, CheckLimit, Save, FindExt, FindId,
         FindDoomed, EndDelete, Drop, ChangePerformer, At
  <2> QED BY <1>1, <2>1, <2>3 DEF AppInv, CallInv, Emptied, Retire
<1>2. ASSUME AppInv, [Next]_vars PROVE [\A r \in Request : Keeps(r)]_vars
  BY <1>1, <1>2
<1> QED BY <1>2, InvHolds, PTL DEF Spec, ReplaceKeepsAll

(* Saving a row from a copy that no write has overtaken changes only the columns the body    *)
(* names, and never brings a deleted row back (updateAppointment, update).                   *)
THEOREM NoLostUpdateCorrect == Spec => NoLostUpdate
<1> DEFINE Exact(r) == At(r, "save") /\ pc'[r] = "done" /\ own[r] # NewRow
                         /\ "copy" \notin overtaken[r]
                         => /\ own[r] \in live
                            /\ \A f \in DOMAIN row[own[r]] :
                                 row'[own[r]][f] # row[own[r]][f] => task[r].change[f] # Kept
<1>1. ASSUME AppInv, [Next]_vars, NEW r \in Request PROVE Exact(r)
  <2> DEFINE i == own[r]
             c == task[r].change
  <2>1. SUFFICES ASSUME pc[r] = "save", pc'[r] = "done", i # NewRow, "copy" \notin overtaken[r]
                 PROVE  i \in live /\ \A f \in DOMAIN row[i] : row'[i][f] # row[i][f] => c[f] # Kept
    BY DEF At
  <2>2. Step(r)  BY <1>1, <2>1, OwnStep
  <2>3. Save(r)
    BY <2>1, <2>2 DEF Step, Load, CheckIntersect, CheckLimit, Retire, FindExt, FindId,
         FindDoomed, EndDelete, Drop, ChangePerformer, At
  <2>4. i \in live /\ c \in Change /\ copy[r] = Updated(row[i], c)
    BY <1>1, <2>1 DEF AppInv, CallInv, FreshCopy
  <2>5. i \in Id /\ row[i] \in Row /\ row \in [Id -> Row]
    BY <1>1, <2>4, LiveIds, AppointmentsAssumption DEF AppInv, TypeOK
  <2>6. row' = [row EXCEPT ![i] = copy[r]]
    BY <1>1, <2>1, <2>3 DEF Save, Goto, AppInv, TypeOK
  <2>7. row'[i] = Updated(row[i], c)  BY <2>4, <2>5, <2>6
  <2> HIDE DEF i, c
  <2>8. ASSUME NEW f \in DOMAIN row[i], c[f] = Kept PROVE row'[i][f] = row[i][f]
    <3>1. f \in {"schedule", "performer", "entity", "start", "end", "status", "external"}
      BY <2>5, <2>8 DEF Row
    <3> QED BY <2>7, <2>8, <3>1 DEF Updated, Or
  <2> QED BY <2>4, <2>8
<1>2. ASSUME AppInv, [Next]_vars PROVE [\A r \in Request : Exact(r)]_vars
  BY <1>1, <1>2
<1> QED BY <1>2, InvHolds, PTL DEF Spec, NoLostUpdate

------------------------------------------------------------------------------
(* The events of calendars.                                                    *)
LinkedTo(x, ev) == row[x].schedule = ev.schedule /\ row[x].external = ev.external
Syncs(r) == pc[r] \in {"findExt", "findId", "limit", "save"} /\ task[r].kind = "ext"

(* What the task of a call says of what it is going to save. *)
Briefed(r) ==
  /\ task[r].kind = "update" => task[r].change \in Changes
  /\ task[r].kind = "ext" =>
       /\ pc[r] \in {"findExt", "findId", "limit", "save", "done", "rejected", "failed"}
       /\ task[r].event \in Event /\ task[r].change = ChangeOf(task[r].event)
       /\ task[r].check = FALSE
  /\ pc[r] \in {"intersect", "limit", "save"} =>
       /\ task[r].kind \in {"create", "update", "ext"}
       /\ task[r].kind = "create" => own[r] = NewRow
       /\ task[r].kind = "update" => own[r] # NewRow
       /\ task[r].kind = "ext" => LET ev == task[r].event
                                  IN copy[r].schedule = ev.schedule /\ copy[r].external = ev.external

(* No other call works on the event, and no row but its own has it. *)
Handled(r) ==
  Syncs(r) /\ task[r].event.external \notin doubled =>
    /\ \A q \in Request \ {r} : Syncs(q) => task[q].event.external # task[r].event.external
    /\ pc[r] = "findId" => \A x \in live \ stale : ~LinkedTo(x, task[r].event)
    /\ pc[r] \in {"limit", "save"} /\ own[r] \notin stale =>
         \A x \in live \ stale : LinkedTo(x, task[r].event) => x = own[r]

ExtInv == ExtOnce /\ \A r \in Request : Briefed(r) /\ Handled(r)

(* Of the calls only r changes. *)
OnlyOf(r) ==
  \A q \in Request \ {r} :
    pc'[q] = pc[q] /\ task'[q] = task[q] /\ own'[q] = own[q] /\ copy'[q] = copy[q]

LEMMA OnlyStep ==
  ASSUME AppInv, NEW r \in Request, Open(r) \/ Step(r)
  PROVE  OnlyOf(r)
<1>0. /\ pc \in [Request -> Stage] /\ task \in [Request -> Task]
      /\ own \in [Request -> {NewRow} \cup 1..lastId] /\ copy \in [Request -> Row]
  BY DEF AppInv, TypeOK
<1> DEFINE SetPc == pc' = pc \/ \E v : pc' = [pc EXCEPT ![r] = v]
           SetTask == task' = task \/ \E v : task' = [task EXCEPT ![r] = v]
           SetOwn == own' = own \/ \E v : own' = [own EXCEPT ![r] = v]
           SetCopy == copy' = copy \/ \E v : copy' = [copy EXCEPT ![r] = v]
<1>1. SetPc /\ SetTask /\ SetOwn /\ SetCopy
  <2>1. CASE Open(r)
    BY <2>1 DEF Open, Create, Update, UpsertExt, Delete, ReplacePerformer, RemovePerformer, Begin, Goto
  <2>2. CASE Step(r)
    BY <2>2 DEF Step, Load, CheckIntersect, CheckLimit, Save, FindExt, FindId, FindDoomed, EndDelete,
                Drop, ChangePerformer, Retire, Hold, Goto
  <2> QED BY <2>1, <2>2
<1> QED BY <1>0, <1>1 DEF OnlyOf

(* Rows are not linked to other events, and no second call works on an event *)
(* unseen.                                                                   *)
LEMMA ExtStep ==
  ASSUME ExtInv, NEW r \in Request, OnlyOf(r), live' \subseteq live,
         \A x \in live' : row'[x].schedule = row[x].schedule /\ row'[x].external = row[x].external,
         stale \subseteq stale', doubled \subseteq doubled', Briefed(r)', Handled(r)',
         Syncs(r)' =>
           \/ Syncs(r) /\ task'[r] = task[r]
           \/ \A q \in Request \ {r} :
                Syncs(q) /\ task[q].event.external = task'[r].event.external
                  => task[q].event.external \in doubled'
  PROVE  ExtInv'
<1>1. ExtOnce'
  BY DEF ExtInv, ExtOnce
<1>2. ASSUME NEW q \in Request \ {r} PROVE Briefed(q)' /\ Handled(q)'
  <2>1. pc'[q] = pc[q] /\ task'[q] = task[q] /\ own'[q] = own[q] /\ copy'[q] = copy[q]
    BY DEF OnlyOf
  <2>2. Briefed(q)'
    BY <2>1 DEF ExtInv, Briefed, ChangeOf
  <2>3. ASSUME Syncs(q)', task'[q].event.external \notin doubled' PROVE Handled(q)'
    <3>1. Syncs(q) /\ task[q].event.external \notin doubled
      BY <2>1, <2>3 DEF Syncs
    <3>2. ASSUME NEW p \in Request \ {q}, Syncs(p)' PROVE task'[p].event.external # task'[q].event.external
      <4>1. CASE p = r
        BY <2>1, <2>3, <3>1, <3>2, <4>1 DEF ExtInv, Handled
      <4>2. CASE p # r
        BY <2>1, <3>1, <3>2, <4>2 DEF ExtInv, Handled, OnlyOf, Syncs
      <4> QED BY <4>1, <4>2
    <3>3. \A x \in live' \ stale' :
            /\ x \in live \ stale
            /\ row'[x].schedule = task'[q].event.schedule /\ row'[x].external = task'[q].event.external
                 => LinkedTo(x, task[q].event)
      BY <2>1 DEF LinkedTo
    <3> QED
      BY <2>1, <3>1, <3>2, <3>3 DEF ExtInv, Handled, LinkedTo
  <2> QED BY <2>2, <2>3 DEF Handled
<1> QED BY <1>1, <1>2 DEF ExtInv

LEMMA ExtOpen ==
  ASSUME AppointmentsAssumption, AppInv, ExtInv, NEW r \in Request, Open(r)
  PROVE  ExtInv'
<1>0. OnlyOf(r)  BY OnlyStep
<1>1. ASSUME NEW t, NEW stage, Begin(r, t, stage)
      PROVE  task'[r] = t /\ pc'[r] = stage /\ own[r] = NewRow
  BY <1>1 DEF Begin, Goto, At, AppInv, TypeOK, CallInv
<1>2. UNCHANGED <<live, row, stale>> /\ doubled \subseteq doubled'
  BY DEF Open, Create, Update, UpsertExt, Delete, ReplacePerformer, RemovePerformer, rowVars, ghostVars
<1>3. ASSUME NEW b \in Bodies, Create(r, b) PROVE ExtInv'
  <2>1. task'[r].kind = "create" /\ own'[r] = NewRow
    BY <1>1, <1>3 DEF Create, AppInv, TypeOK
  <2>2. Briefed(r)' /\ Handled(r)' /\ ~Syncs(r)'
    BY <2>1 DEF Briefed, Handled, Syncs
  <2> QED BY <1>0, <1>2, <2>2, ExtStep
<1>4. ASSUME NEW i \in Id, NEW c \in Changes, Update(r, i, c) PROVE ExtInv'
  <2>1. task'[r].kind = "update" /\ task'[r].change = c /\ pc'[r] = "load"
    BY <1>1, <1>4 DEF Update
  <2>2. Briefed(r)' /\ Handled(r)' /\ ~Syncs(r)'
    BY <2>1 DEF Briefed, Handled, Syncs
  <2> QED BY <1>0, <1>2, <2>2, ExtStep
<1>5. ASSUME NEW ev \in ExtEvents, UpsertExt(r, ev) PROVE ExtInv'
  <2>1. /\ task'[r].kind = "ext" /\ task'[r].event = ev /\ task'[r].change = ChangeOf(ev)
        /\ task'[r].check = FALSE /\ pc'[r] = "findExt"
    BY <1>1, <1>5 DEF UpsertExt
  <2>2. ASSUME NEW q \in Request \ {r}, Syncs(q), task[q].event.external = ev.external
        PROVE  ev.external \in doubled'
    <3>1. q \in Active  BY <2>2 DEF Syncs, Active
    <3> QED BY <1>5, <2>2, <3>1 DEF UpsertExt, Syncs
  <2>3. ev \in Event  BY DEF AppointmentsAssumption
  <2>4. Briefed(r)'
    BY <2>1, <2>3 DEF Briefed, ChangeOf
  <2>5. Handled(r)'
    BY <1>0, <2>1, <2>2 DEF Handled, Syncs, OnlyOf
  <2> QED BY <1>0, <1>2, <2>1, <2>2, <2>4, <2>5, ExtStep
<1>6. ASSUME ~ \E b \in Bodies : Create(r, b), ~ \E i \in Id, c \in Changes : Update(r, i, c),
             ~ \E ev \in ExtEvents : UpsertExt(r, ev)
      PROVE  ExtInv'
  <2>1. task'[r].kind \in {"delete", "replace", "remove"} /\ pc'[r] \in {"find", "move", "retire"}
    <3>1. ASSUME NEW S, NEW I, Delete(r, S, I)
          PROVE  task'[r].kind = "delete" /\ pc'[r] = "find"
      BY <1>1, <3>1 DEF Delete
    <3>2. ASSUME NEW p, NEW q, ReplacePerformer(r, p, q)
          PROVE  task'[r].kind = "replace" /\ pc'[r] = "move"
      BY <1>1, <3>2 DEF ReplacePerformer
    <3>3. ASSUME NEW p, RemovePerformer(r, p)
          PROVE  task'[r].kind = "remove" /\ pc'[r] = "retire"
      BY <1>1, <3>3 DEF RemovePerformer
    <3> QED BY <1>6, <3>1, <3>2, <3>3 DEF Open
  <2>2. Briefed(r)' /\ Handled(r)' /\ ~Syncs(r)'
    BY <2>1 DEF Briefed, Handled, Syncs
  <2> QED BY <1>0, <1>2, <2>2, ExtStep
<1> QED BY <1>3, <1>4, <1>5, <1>6

(* A call that ends, or goes on with what it holds. *)
LEMMA ExtGoes ==
  ASSUME AppInv, ExtInv, NEW r \in Request, OnlyOf(r), UNCHANGED <<live, row, stale, doubled>>,
         task'[r] = task[r], Briefed(r)',
         pc'[r] = "findId" => \A x \in live : ~LinkedTo(x, task[r].event),
         pc'[r] \in {"limit", "save"} => own'[r] = own[r] /\ pc[r] \in {"intersect", "limit", "save"},
         pc[r] = "intersect" => task[r].kind # "ext",
         Syncs(r)' => Syncs(r)
  PROVE  ExtInv'
<1>1. Handled(r)'
  <2> SUFFICES ASSUME Syncs(r)', task'[r].event.external \notin doubled' PROVE Handled(r)'
    BY DEF Handled
  <2>1. Syncs(r) /\ task[r].event.external \notin doubled
    OBVIOUS
  <2>2. \A q \in Request \ {r} : Syncs(q)' => task'[q].event.external # task'[r].event.external
    BY <2>1 DEF ExtInv, Handled, OnlyOf, Syncs
  <2>3. \A x \in live : LinkedTo(x, task[r].event)' <=> LinkedTo(x, task[r].event)
    BY DEF LinkedTo
  <2>4. pc'[r] = "findId" => \A x \in live' \ stale' : ~LinkedTo(x, task[r].event)'
    BY <2>3
  <2>5. pc'[r] \in {"limit", "save"} /\ own'[r] \notin stale' =>
          \A x \in live' \ stale' : LinkedTo(x, task[r].event)' => x = own'[r]
    <3> SUFFICES ASSUME pc'[r] \in {"limit", "save"}, own'[r] \notin stale'
                 PROVE  \A x \in live' \ stale' : LinkedTo(x, task[r].event)' => x = own'[r]
      OBVIOUS
    <3>1. pc[r] \in {"limit", "save"}  BY DEF Syncs
    <3> QED BY <2>1, <2>3, <3>1 DEF ExtInv, Handled
  <2> QED BY <2>2, <2>4, <2>5 DEF Handled, LinkedTo
<1> QED BY <1>1, ExtStep

(* A call holds a row for its event, or for the change of a user. *)
LEMMA ExtHold ==
  ASSUME AppInv, ExtInv, NEW r \in Request, NEW id, NEW a, Hold(r, id, a), OnlyOf(r),
         UNCHANGED <<live, row, stale, doubled, task>>,
         \/ task[r].kind = "update" /\ id # NewRow
         \/ /\ Syncs(r)
            /\ a.schedule = task[r].event.schedule /\ a.external = task[r].event.external
            /\ task[r].event.external \notin doubled /\ id \notin stale =>
                 \A x \in live \ stale : LinkedTo(x, task[r].event) => x = id
  PROVE  ExtInv'
<1>1. /\ own'[r] = id /\ copy'[r] = a /\ pc'[r] = AfterDates(a, task[r].check)
      /\ task'[r] = task[r]
  BY DEF Hold, Goto, AppInv, TypeOK
<1>2. CASE task[r].kind = "update" /\ id # NewRow
  <2>1. Briefed(r)' /\ Handled(r)' /\ ~Syncs(r)'
    BY <1>1, <1>2 DEF ExtInv, Briefed, Handled, Syncs
  <2> QED BY <2>1, ExtStep
<1>3. CASE task[r].kind # "update"
  <2>1. /\ Syncs(r) /\ task[r].kind = "ext" /\ task[r].check = FALSE
        /\ a.schedule = task[r].event.schedule /\ a.external = task[r].event.external
    BY <1>3 DEF ExtInv, Briefed, Syncs
  <2>2. pc'[r] \in {"limit", "save", "rejected"}
    BY <1>1, <2>1 DEF AfterDates, AfterIntersect
  <2>3. Briefed(r)'
    BY <1>1, <2>1, <2>2 DEF ExtInv, Briefed, ChangeOf
  <2>4. \A q \in Request \ {r} :
          task[r].event.external \notin doubled /\ Syncs(q)'
            => task'[q].event.external # task[r].event.external
    BY <2>1 DEF ExtInv, Handled, OnlyOf, Syncs
  <2>5. \A x \in live : LinkedTo(x, task[r].event)' <=> LinkedTo(x, task[r].event)
    BY <1>1 DEF LinkedTo
  <2>6. Handled(r)'
    BY <1>1, <1>3, <2>2, <2>4, <2>5 DEF Handled
  <2> QED BY <1>1, <2>1, <2>3, <2>6, ExtStep
<1> QED BY <1>2, <1>3 DEF Syncs

LEMMA ExtFinds ==
  ASSUME AppointmentsAssumption, AppInv, ExtInv, NEW r \in Request,
         Load(r) \/ FindExt(r) \/ FindId(r), OnlyOf(r)
  PROVE  ExtInv'
<1> DEFINE ev == task[r].event
           c == task[r].change
<1>1. UNCHANGED <<live, row, stale, doubled, task>>
  BY DEF Load, FindExt, FindId, rowVars, ghostVars
<1>2. /\ live \subseteq Id /\ NewRow \notin Id
      /\ \A x \in live : row[x] \in Row
  BY LiveIds DEF AppInv, NewRow, Id
<1>3. ASSUME NEW stage \in {"failed", "done"}, Goto(r, stage), UNCHANGED <<own, copy>> PROVE ExtInv'
  <2>1. pc'[r] = stage /\ task'[r] = task[r]  BY <1>1, <1>3 DEF Goto, AppInv, TypeOK
  <2>2. Briefed(r)' /\ Handled(r)' /\ ~Syncs(r)'
    BY <2>1 DEF ExtInv, Briefed, Handled, Syncs, ChangeOf
  <2> QED BY <1>1, <2>2, ExtStep
<1>4. CASE Load(r)
  <2>1. task[r].kind = "update"
    BY <1>4 DEF Load, At, AppInv, TypeOK, Fits
  <2>2. ASSUME task[r].id \in Shown, NEW a, Hold(r, task[r].id, a) PROVE ExtInv'
    BY <1>1, <1>2, <2>1, <2>2, ExtHold DEF Shown
  <2> QED BY <1>3, <1>4, <2>2 DEF Load
<1>5. CASE FindExt(r) \/ FindId(r)
  <2>1. /\ Syncs(r) /\ ev \in Event /\ c = ChangeOf(ev)
        /\ \A x \in live : /\ Updated(row[x], c).schedule = row[x].schedule
                          /\ Updated(row[x], c).external = ev.external
    <3>1. Syncs(r)
      BY <1>5 DEF FindExt, FindId, At, AppInv, TypeOK, Fits, Syncs
    <3>2. ev \in Event /\ c = ChangeOf(ev)
      BY <3>1 DEF ExtInv, Briefed, Syncs
    <3>3. ev.external # Kept  BY <3>2 DEF AppointmentsAssumption, Event
    <3> HIDE DEF ev, c
    <3> QED BY <3>1, <3>2, <3>3 DEF Updated, Or, ChangeOf
  <2>2. CASE FindExt(r)
    <3>1. ASSUME NEW i \in Linked(ev), Hold(r, i, Updated(row[i], c)) PROVE ExtInv'
      <4>1. i \in live /\ LinkedTo(i, ev)  BY DEF Linked, LinkedTo
      <4>2. ASSUME ev.external \notin doubled, i \notin stale, NEW x \in live \ stale, LinkedTo(x, ev)
            PROVE  x = i
        <5>1. ev.external # NoExternal
          BY <2>1 DEF Event, AppointmentsAssumption
        <5> QED BY <4>1, <4>2, <5>1 DEF ExtInv, ExtOnce, LinkedTo
      <4> QED BY <1>1, <2>1, <3>1, <4>1, <4>2, ExtHold DEF LinkedTo
    <3>2. ASSUME Linked(ev) = {}, Goto(r, "findId"), UNCHANGED <<own, copy>> PROVE ExtInv'
      <4>1. pc'[r] = "findId" /\ task'[r] = task[r]
        BY <1>1, <3>2 DEF Goto, AppInv, TypeOK
      <4>2. Briefed(r)'
        BY <2>1, <4>1 DEF ExtInv, Briefed, ChangeOf, Syncs
      <4>3. \A x \in live : ~LinkedTo(x, ev)
        BY <3>2 DEF Linked, LinkedTo
      <4> QED BY <1>1, <2>1, <4>1, <4>2, <4>3, ExtGoes DEF Syncs
    <3> QED BY <2>2, <3>1, <3>2 DEF FindExt
  <2>3. CASE FindId(r)
    <3>1. ev.external \notin doubled => \A x \in live \ stale : ~LinkedTo(x, ev)
      BY <2>1, <2>3 DEF FindId, At, ExtInv, Handled
    <3>2. ASSUME NEW i \in Named(ev), Hold(r, i, Updated(row[i], c)) PROVE ExtInv'
      <4>1. i \in live /\ row[i].schedule = ev.schedule  BY DEF Named
      <4> QED BY <1>1, <2>1, <3>1, <3>2, <4>1, ExtHold
    <3>3. ASSUME Hold(r, NewRow, RowOf(ev)) PROVE ExtInv'
      <4>1. RowOf(ev).schedule = ev.schedule /\ RowOf(ev).external = ev.external
        BY DEF RowOf
      <4> QED BY <1>1, <2>1, <3>1, <3>3, <4>1, ExtHold
    <3> QED BY <1>3, <2>3, <3>2, <3>3 DEF FindId
  <2> QED BY <1>5, <2>2, <2>3
<1> QED BY <1>4, <1>5

(* The reads of the checks and of a delete. *)
LEMMA ExtReads ==
  ASSUME AppInv, ExtInv, NEW r \in Request, OnlyOf(r),
         CheckIntersect(r) \/ CheckLimit(r) \/ FindDoomed(r) \/ EndDelete(r)
  PROVE  ExtInv'
<1>1. UNCHANGED <<live, row, stale, doubled, task, own, copy>>
  BY DEF CheckIntersect, CheckLimit, FindDoomed, EndDelete, rowVars, ghostVars
<1>2. \/ pc[r] = "intersect" /\ pc'[r] \in {"limit", "save", "rejected"}
      \/ pc[r] = "limit" /\ pc'[r] \in {"save", "rejected"}
      \/ pc[r] \in {"find", "drop"} /\ pc'[r] \in {"drop", "done"}
  BY DEF CheckIntersect, CheckLimit, FindDoomed, EndDelete, At, Goto, AfterIntersect, AppInv, TypeOK
<1>3. Briefed(r)'
  BY <1>1, <1>2 DEF ExtInv, Briefed, ChangeOf
<1>4. pc[r] = "intersect" => task[r].kind # "ext"
  BY DEF ExtInv, Briefed
<1>5. Syncs(r)' => Syncs(r)
  BY <1>1, <1>2, <1>4 DEF Syncs
<1> QED BY <1>1, <1>2, <1>3, <1>4, <1>5, ExtGoes

(* Rows go, or get another performer. *)
LEMMA ExtShrinks ==
  ASSUME AppInv, ExtInv, NEW r \in Request, OnlyOf(r),
         (\E x \in doomed[r] : Drop(r, x)) \/ ChangePerformer(r) \/ Retire(r)
  PROVE  ExtInv'
<1>1. /\ UNCHANGED <<stale, doubled, task, own, copy>> /\ live' \subseteq live
      /\ \A x \in live' : row'[x].schedule = row[x].schedule /\ row'[x].external = row[x].external
  <2>1. live \subseteq Id /\ \A x \in live : row[x] \in Row
    BY AppointmentsAssumption, LiveIds DEF AppInv
  <2> QED BY <2>1 DEF Drop, ChangePerformer, Retire, Row
<1>2. pc[r] \in {"drop", "move", "retire"} /\ pc'[r] \in {"drop", "failed", "retire", "done"}
  BY DEF Drop, ChangePerformer, Retire, At, Goto, AppInv, TypeOK
<1>3. Briefed(r)'
  BY <1>1, <1>2 DEF ExtInv, Briefed, ChangeOf
<1>4. Handled(r)' /\ ~Syncs(r)'
  BY <1>2 DEF Handled, Syncs
<1> QED BY <1>1, <1>3, <1>4, ExtStep

(* A row that is saved is linked to an event by the call of that event only, or it was so *)
(* before.                                                                                *)
LEMMA ExtSave ==
  ASSUME AppointmentsAssumption, AppInv, ExtInv, NEW r \in Request, Save(r), OnlyOf(r)
  PROVE  ExtInv'
<1> DEFINE i == IF own[r] = NewRow THEN lastId + 1 ELSE own[r]
           ev == task[r].event
<1>0. /\ UNCHANGED <<task, own, copy>> /\ pc[r] = "save" /\ stale \subseteq stale'
      /\ doubled \subseteq doubled'
  BY DEF Save, At
<1>1. CASE Goto(r, "failed") /\ UNCHANGED <<live, row, stale, doubled>>
  <2>1. pc'[r] = "failed"  BY <1>1 DEF Goto, AppInv, TypeOK
  <2>2. Briefed(r)' /\ Handled(r)' /\ ~Syncs(r)'
    BY <1>0, <2>1 DEF ExtInv, Briefed, Handled, Syncs, ChangeOf
  <2> QED BY <1>0, <1>1, <2>2, ExtStep
<1>2. CASE /\ i \in Id /\ live' = live \cup {i} /\ row' = [row EXCEPT ![i] = copy[r]]
           /\ stale' = IF "copy" \in overtaken[r] THEN stale \cup {i} ELSE stale
           /\ doubled' = IF Names(r) /\ Meets(copy[r], i)
                           THEN doubled \cup ({copy[r].external} \ {NoExternal}) ELSE doubled
           /\ Goto(r, "done")
  <2>1. /\ pc'[r] = "done" /\ live \subseteq Id /\ row'[i] = copy[r] /\ copy[r] \in Row
        /\ \A x \in Id \ {i} : row'[x] = row[x]
        /\ NewRow \notin stale
    BY <1>2, LiveIds DEF Goto, AppInv, TypeOK, NewRow, Id
  <2>2. own[r] = NewRow => i \notin live
    BY DEF AppInv, TypeOK, AppointmentsAssumption
  <2> HIDE DEF i
  <2>3. Briefed(r)' /\ Handled(r)'
    BY <1>0, <2>1 DEF ExtInv, Briefed, Handled, Syncs, ChangeOf
  (* What the row saved has become. *)
  <2>4. CASE task[r].kind = "ext"
    <3>1. /\ Syncs(r) /\ ev \in Event
          /\ row'[i].schedule = ev.schedule /\ row'[i].external = ev.external
      BY <1>0, <2>1, <2>4 DEF ExtInv, Briefed, Syncs
    <3>2. own[r] = NewRow \/ own[r] = i
      BY DEF i
    <3>3. i \notin stale' => own[r] \notin stale
      BY <1>0, <2>1, <3>2
    <3>4. ASSUME NEW x \in live' \ stale', x # i, i \notin stale',
                 row'[x].schedule = ev.schedule, row'[x].external = ev.external
          PROVE  ev.external \in doubled
      <4>1. x \in live \ stale /\ LinkedTo(x, ev)
        BY <1>0, <1>2, <2>1, <3>4 DEF LinkedTo
      <4>2. x # own[r]
        BY <2>1, <3>2, <3>4, <4>1 DEF NewRow, Id
      <4> QED BY <1>0, <3>1, <3>3, <3>4, <4>1, <4>2 DEF ExtInv, Handled
    <3>5. ExtOnce'
      <4>1. ASSUME NEW x \in live' \ stale', NEW y \in live' \ stale', x # y,
                   row'[x].schedule = row'[y].schedule, row'[x].external = row'[y].external
            PROVE  row'[x].external \in doubled' \cup {NoExternal}
        <5>1. CASE x = i  BY <1>0, <3>1, <3>4, <4>1, <5>1
        <5>2. CASE y = i  BY <1>0, <3>1, <3>4, <4>1, <5>2
        <5>3. CASE x # i /\ y # i
          <6>1. x \in live \ stale /\ y \in live \ stale /\ row'[x] = row[x] /\ row'[y] = row[y]
            BY <1>0, <1>2, <2>1, <4>1, <5>3
          <6> QED BY <1>0, <4>1, <6>1 DEF ExtInv, ExtOnce
        <5> QED BY <5>1, <5>2, <5>3
      <4> QED BY <4>1 DEF ExtOnce
    <3>6. ASSUME NEW q \in Request \ {r} PROVE Briefed(q)' /\ Handled(q)'
      <4>1. pc'[q] = pc[q] /\ task'[q] = task[q] /\ own'[q] = own[q] /\ copy'[q] = copy[q]
        BY DEF OnlyOf
      <4>2. Briefed(q)'
        BY <4>1 DEF ExtInv, Briefed, ChangeOf
      <4>3. ASSUME Syncs(q)', task'[q].event.external \notin doubled' PROVE Handled(q)'
        <5>1. Syncs(q) /\ task[q].event.external \notin doubled
          BY <1>0, <4>1, <4>3 DEF Syncs
        <5>2. task[q].event.external # ev.external
          BY <3>1, <5>1 DEF ExtInv, Handled
        <5>3. \A p \in Request \ {q} : Syncs(p)' => task'[p].event.external # task'[q].event.external
          BY <1>0, <2>1, <4>1, <5>1 DEF ExtInv, Handled, OnlyOf, Syncs
        <5>4. \A x \in live' \ stale' :
                row'[x].schedule = task'[q].event.schedule /\ row'[x].external = task'[q].event.external
                  => x \in live \ stale /\ LinkedTo(x, task[q].event)
          BY <1>0, <1>2, <2>1, <3>1, <4>1, <5>2 DEF LinkedTo
        <5> QED BY <1>0, <4>1, <5>1, <5>3, <5>4 DEF ExtInv, Handled, LinkedTo
      <4> QED BY <4>2, <4>3 DEF Handled
    <3> QED BY <2>3, <3>5, <3>6 DEF ExtInv
  <2>5. CASE task[r].kind # "ext"
    <3> DEFINE New == copy[r].external
               Fresh == /\ \A x \in live \ {i} : row[x].schedule # copy[r].schedule \/ row[x].external # New
                        /\ \A q \in Request : Syncs(q) => task[q].event.external # New
    <3>1. \/ i \in stale'
          \/ New \in doubled' \cup {NoExternal}
          \/ Fresh
          \/ /\ i \in live /\ row'[i].schedule = row[i].schedule
             /\ row'[i].external = row[i].external
      <4>1. task[r].kind \in {"create", "update"}
        BY <1>0, <2>5 DEF ExtInv, Briefed
      <4>2. CASE Names(r)
        <5>1. Meets(copy[r], i) => New \in doubled' \cup {NoExternal}
          BY <1>2, <4>2
        <5>2. ~Meets(copy[r], i) => Fresh
          BY DEF Meets, Syncs, Active
        <5> QED BY <5>1, <5>2
      <4>3. CASE ~Names(r) /\ "copy" \notin overtaken[r]
        <5>1. /\ own[r] # NewRow /\ task[r].change.external = Kept /\ task[r].change.schedule = Kept
              /\ task[r].kind = "update"
          BY <1>0, <4>1, <4>3 DEF ExtInv, Briefed, Names
        <5>2. own[r] \in live /\ copy[r] = Updated(row[own[r]], task[r].change)
          BY <1>0, <4>3, <5>1 DEF AppInv, CallInv, FreshCopy
        <5>3. i = own[r]  BY <5>1 DEF i
        <5> QED BY <2>1, <5>1, <5>2, <5>3 DEF Updated, Or
      <4>4. CASE "copy" \in overtaken[r]
        BY <1>2, <4>4
      <4> QED BY <4>2, <4>3, <4>4
    <3>2. ASSUME NEW x \in live' \ stale', row'[x].external \notin doubled' \cup {NoExternal}
          PROVE  \/ /\ x \in live \ stale /\ row'[x].schedule = row[x].schedule
                    /\ row'[x].external = row[x].external
                 \/ x = i /\ Fresh
      BY <1>0, <1>2, <2>1, <3>1, <3>2
    <3> HIDE DEF New
    <3>3. ASSUME NEW x \in live' \ stale', NEW y \in live' \ stale', x # y,
                 row'[x].schedule = row'[y].schedule, row'[x].external = row'[y].external,
                 row'[x].external \notin doubled' \cup {NoExternal}
          PROVE  FALSE
      <4>1. CASE x = i /\ Fresh
        <5>1. y \in live \ {i} /\ row'[y] = row[y]
          BY <1>2, <2>1, <3>3, <4>1
        <5> QED BY <2>1, <3>3, <4>1, <5>1 DEF New
      <4>2. CASE y = i /\ Fresh
        <5>1. x \in live \ {i} /\ row'[x] = row[x]
          BY <1>2, <2>1, <3>3, <4>2
        <5> QED BY <2>1, <3>3, <4>2, <5>1 DEF New
      <4>3. CASE ~(x = i /\ Fresh) /\ ~(y = i /\ Fresh)
        <5>1. /\ x \in live \ stale /\ row'[x].schedule = row[x].schedule /\ row'[x].external = row[x].external
              /\ y \in live \ stale /\ row'[y].schedule = row[y].schedule /\ row'[y].external = row[y].external
          BY <3>2, <3>3, <4>3
        <5> QED BY <1>0, <3>3, <5>1 DEF ExtInv, ExtOnce
      <4> QED BY <4>1, <4>2, <4>3
    <3>4. ExtOnce'
      BY <3>3 DEF ExtOnce
    <3>5. ASSUME NEW q \in Request \ {r} PROVE Briefed(q)' /\ Handled(q)'
      <4>1. pc'[q] = pc[q] /\ task'[q] = task[q] /\ own'[q] = own[q] /\ copy'[q] = copy[q]
        BY DEF OnlyOf
      <4>2. Briefed(q)'
        BY <4>1 DEF ExtInv, Briefed, ChangeOf
      <4>3. ASSUME Syncs(q)', task'[q].event.external \notin doubled' PROVE Handled(q)'
        <5>1. Syncs(q) /\ task[q].event.external \notin doubled
          BY <1>0, <4>1, <4>3 DEF Syncs
        <5>2. task[q].event.external # NoExternal
          BY <5>1 DEF ExtInv, Briefed, Syncs, Event, AppointmentsAssumption
        <5>3. \A p \in Request \ {q} : Syncs(p)' => task'[p].event.external # task'[q].event.external
          BY <1>0, <2>1, <4>1, <5>1 DEF ExtInv, Handled, OnlyOf, Syncs
        <5>4. \A x \in live' \ stale' :
                row'[x].schedule = task'[q].event.schedule /\ row'[x].external = task'[q].event.external
                  => x \in live \ stale /\ LinkedTo(x, task[q].event)
          BY <2>1, <3>2, <4>1, <4>3, <5>1, <5>2 DEF LinkedTo, New
        <5> QED BY <1>0, <4>1, <5>1, <5>3, <5>4 DEF ExtInv, Handled, LinkedTo
      <4> QED BY <4>2, <4>3 DEF Handled
    <3> QED BY <2>3, <3>4, <3>5 DEF ExtInv
  <2> QED BY <2>4, <2>5
<1> QED BY <1>1, <1>2 DEF Save

LEMMA ExtNext ==
  ASSUME AppointmentsAssumption, AppInv, ExtInv, [Next]_vars PROVE ExtInv'
<1>1. CASE UNCHANGED vars
  BY <1>1 DEF vars, rowVars, callVars, ghostVars, ExtInv, ExtOnce, Briefed, Handled, Syncs, LinkedTo, ChangeOf
<1>2. ASSUME NEW r \in Request, Step(r) PROVE ExtInv'
  <2>1. OnlyOf(r)  BY <1>2, OnlyStep
  <2> QED BY <1>2, <2>1, ExtFinds, ExtReads, ExtShrinks, ExtSave DEF Step
<1> QED BY <1>1, <1>2, ExtOpen DEF Next

(* An event of a calendar has one appointment in a schedule (handleUpsertExt): canceled rows, *)
(* a number that the event carries, moves and deletes in between, and users who name the      *)
(* event themselves, make no second one, but for the races and the second naming that ExtOnce *)
(* names.                                                                                     *)
THEOREM ExtOnceCorrect == Spec => []ExtOnce
<1>1. Init => ExtInv
  BY DEF Init, ExtInv, ExtOnce, Briefed, Handled, Syncs, NoTask
<1>2. AppInv /\ ExtInv /\ [Next]_vars => ExtInv'
  BY AppointmentsAssumption, ExtNext
<1>3. ExtInv => ExtOnce  BY DEF ExtInv
<1> QED BY <1>1, <1>2, <1>3, InvHolds, PTL DEF Spec
==============================================================================
