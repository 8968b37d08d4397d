----------------------------- MODULE Appointments -----------------------------
(***************************************************************************)
(* ScheduleAppointmentService: the appointments of a schedule's performers *)
(* and the two checks that guard them, with SchedulePerformerService,      *)
(* which replaces and removes performers.  A call reads, checks and saves  *)
(* in separate awaited repository calls, each of them one action; nothing  *)
(* locks the rows in between.                                              *)
(*                                                                         *)
(* Instants are small integers; DayOf gives the day startOf and endOf      *)
(* round them to.  Of the statuses only "canceled" is told apart from the  *)
(* others, for which "confirmed" stands.                                   *)
(***************************************************************************)
EXTENDS Integers, FiniteSets

CONSTANTS
  Schedule,    \* schedule.id
  Limited,     \* the schedules with oneEntityPerDay
  Performer,   \* schedule_performer.id
  Entity,      \* entity.id
  NoEntity,    \* entity_id is null
  External,    \* ids a calendar gives its events
  NoExternal,  \* external_id is null
  MaxTime,     \* bound: instants 0 .. MaxTime
  DayOf,       \* [Time -> Nat]
  MaxId,       \* bound: rows the identity column of schedule_appointment issues
  Request,     \* calls of the services
  MaxActive,   \* bound: calls running at the same time
  Bodies,      \* bodies of create
  Changes,     \* bodies of update
  Kept,        \* a field that a body of update leaves out
  ExtEvents,   \* events that a calendar sends
  ScheduleOf,  \* [Performer -> Schedule]
  Replacements \* <<old, new>> performers of one schedule

Time == 0..MaxTime
Id == 1..MaxId
NewRow == 0  \* what a call holds instead of the id of a row
Status == {"confirmed", "canceled"}
Row == [schedule : Schedule, performer : Performer, entity : Entity \cup {NoEntity},
        start : Time, end : Time, status : Status, external : External \cup {NoExternal}]
Body == [row : Row, check : BOOLEAN]
Change == [schedule : Schedule \cup {Kept}, performer : Performer \cup {Kept},
           entity : Entity \cup {NoEntity, Kept}, start : Time \cup {Kept},
           end : Time \cup {Kept}, status : Status \cup {Kept},
           external : External \cup {NoExternal, Kept}, check : BOOLEAN]
Event == [schedule : Schedule, performer : Performer, id : Id \cup {NewRow},
          start : Time, end : Time, status : Status, external : External]
Stage == {"new", "load", "findExt", "findId", "intersect", "limit", "save", "find", "drop",
          "move", "retire", "done", "rejected", "failed"}
Check == {"intersect", "limit", "copy", "move"}
NoTask == [kind |-> "none", check |-> FALSE]
Task ==
  {NoTask} \cup [kind : {"create"}, check : BOOLEAN]
  \cup [kind : {"update"}, id : Id, change : Change, check : BOOLEAN]
  \cup [kind : {"ext"}, event : Event, change : Change, known : BOOLEAN, check : {FALSE}]
  \cup [kind : {"delete"}, schedules : SUBSET Schedule, ids : SUBSET Id, check : {FALSE}]
  \cup [kind : {"replace"}, old : Performer, new : Performer, check : {FALSE}]
  \cup [kind : {"remove"}, old : Performer, check : {FALSE}]

ASSUME AppointmentsAssumption ==
  /\ Schedule # {} /\ Performer # {}
  /\ Limited \subseteq Schedule /\ NoEntity \notin Entity /\ NoExternal \notin External
  /\ Kept \notin Schedule \cup Performer \cup Entity \cup {NoEntity} \cup External \cup {NoExternal}
  /\ Kept \notin Time /\ Kept \notin Status
  /\ MaxTime \in Nat /\ MaxId \in Nat /\ MaxActive \in Nat
  /\ DayOf \in [Time -> Nat] /\ \A s, t \in Time : s <= t => DayOf[s] <= DayOf[t]
  /\ Bodies \subseteq Body /\ Changes \subseteq Change /\ ExtEvents \subseteq Event
  /\ ScheduleOf \in [Performer -> Schedule]
  /\ Replacements \subseteq {p \in Performer \X Performer : ScheduleOf[p[1]] = ScheduleOf[p[2]]}

VARIABLES
  performers, \* schedule_performer rows that exist
  live,       \* schedule_appointment rows that exist
  row,        \* their columns
  lastId,     \* last id issued by the identity column
  pc,         \* where a call is
  task,       \* its arguments
  own,        \* the id of the row it works on
  copy,       \* the columns it is going to save
  doomed,     \* rows a delete has read and still has to delete
  overtaken,  \* ghost: the reads of a call after which another call has written
  unchecked,  \* ghost: rows whose last save was not, or too early, checked for others
  raced,      \* ghost: rows saved after an overtaken check of the day limit
  stale,      \* ghost: rows saved from an overtaken copy
  doubled     \* ghost: events two calls worked on at the same time, or a user named for a second row

rowVars == <<performers, live, row, lastId>>
callVars == <<pc, task, own, copy, doomed>>
ghostVars == <<overtaken, unchecked, raced, stale, doubled>>
vars == <<rowVars, callVars, ghostVars>>

------------------------------------------------------------------------------
(* Changed forms of definitions: the bugs the properties must see. *)
Clashes_StartsIn(a, id) ==
  {x \in live \ {id} : /\ row[x].status # "canceled" /\ row[x].schedule = a.schedule
                       /\ row[x].performer = a.performer
                       /\ a.start <= row[x].start /\ row[x].start < a.end}
SameDay_Enclosing(a) ==
  {x \in live : /\ row[x].status # "canceled" /\ row[x].schedule = a.schedule
                /\ row[x].entity = a.entity /\ row[x].start >= a.start /\ row[x].end <= a.end}
Updated_Null(a, c) ==
  [schedule |-> a.schedule, performer |-> IF c.performer = Kept THEN a.performer ELSE c.performer,
   entity |-> IF c.entity = Kept THEN NoEntity ELSE c.entity,
   start |-> IF c.start = Kept THEN a.start ELSE c.start,
   end |-> IF c.end = Kept THEN a.end ELSE c.end,
   status |-> IF c.status = Kept THEN a.status ELSE c.status,
   external |-> IF c.external = Kept THEN a.external ELSE c.external]
Linked_Shown(ev) ==
  {x \in live : row[x].status # "canceled" /\ row[x].schedule = ev.schedule
               /\ row[x].external = ev.external}
Moved_Confirmed(p) == {x \in live : row[x].performer = p /\ row[x].status # "canceled"}

------------------------------------------------------------------------------
(* The queries *)

(* createFindQb with isSchedule: start_date < :to and end_date > :from *)
Overlap(a, b) == b.start < a.end /\ b.end > a.start

Shown == {x \in live : row[x].status # "canceled"}

(* hasIntersect *)
Clashes(a, id) ==
  {x \in Shown \ {id} : /\ row[x].schedule = a.schedule /\ row[x].performer = a.performer
                        /\ Overlap(a, row[x])}

(* checkEntityDayLimit: rows from the start of a's first day to the end of its last. *)
SameDay(a) ==
  {x \in Shown : /\ row[x].schedule = a.schedule /\ row[x].entity = a.entity
                 /\ DayOf[row[x].start] >= DayOf[a.start] /\ DayOf[row[x].end] <= DayOf[a.end]}

(* handleUpsertExt looks for canceled rows as well. *)
Linked(ev) == {x \in live : row[x].schedule = ev.schedule /\ row[x].external = ev.external}
Named(ev) == {x \in live : row[x].schedule = ev.schedule /\ x = ev.id}

(* What update makes of a column. *)
Or(new, old) == IF new = Kept THEN old ELSE new
Updated(a, c) ==
  [schedule |-> Or(c.schedule, a.schedule), performer |-> Or(c.performer, a.performer),
   entity |-> Or(c.entity, a.entity), start |-> Or(c.start, a.start), end |-> Or(c.end, a.end),
   status |-> Or(c.status, a.status), external |-> Or(c.external, a.external)]

(* hasChanges compares dates as objects: a date that is given is a change. *)
HasChanges(a, c) == c.start # Kept \/ c.end # Kept \/ Updated(a, c) # a

ChangeOf(ev) ==
  [schedule |-> Kept, performer |-> Kept, entity |-> Kept, start |-> ev.start, end |-> ev.end,
   status |-> ev.status, external |-> ev.external, check |-> FALSE]
RowOf(ev) ==
  [schedule |-> ev.schedule, performer |-> ev.performer, entity |-> NoEntity, start |-> ev.start,
   end |-> ev.end, status |-> ev.status, external |-> ev.external]

(* The rows changePerformer gives another performer. *)
Moved(p) == {x \in live : row[x].performer = p}

------------------------------------------------------------------------------
(* Control *)

At(r, stage) == pc[r] = stage
Goto(r, stage) == pc' = [pc EXCEPT ![r] = stage]
Active == {r \in Request : pc[r] \notin {"new", "done", "rejected", "failed"}}

AfterIntersect(a) == IF a.entity # NoEntity THEN "limit" ELSE "save"
AfterDates_Unchecked(a, check) == IF check THEN "intersect" ELSE AfterIntersect(a)
AfterDates(a, check) ==
  IF a.end <= a.start THEN "rejected" ELSE IF check THEN "intersect" ELSE AfterIntersect(a)

(* The reads a call still relies on. *)
Relies(q) ==
  {c \in Check : \/ c = "intersect" /\ task[q].check /\ pc[q] \in {"limit", "save"}
                 \/ c = "limit" /\ pc[q] = "save"
                 \/ c = "copy" /\ pc[q] \in {"intersect", "limit", "save"}
                 \/ c = "move" /\ pc[q] = "retire"}

(* Call r writes what the reads in S of the other calls have seen. *)
Overtake(r, S) ==
  overtaken' = [q \in Request |-> IF q = r THEN {} ELSE overtaken[q] \cup (S \cap Relies(q))]

Begin(r, t, stage) ==
  /\ At(r, "new") /\ Cardinality(Active) < MaxActive
  /\ task' = [task EXCEPT ![r] = t]
  /\ Goto(r, stage)

(* A call holds the columns a for row id: the dates are compared. *)
Hold(r, id, a) ==
  /\ own' = [own EXCEPT ![r] = id] /\ copy' = [copy EXCEPT ![r] = a]
  /\ Goto(r, AfterDates(a, task[r].check))

------------------------------------------------------------------------------
(* create and update *)

Create(r, b) ==
  /\ Begin(r, [kind |-> "create", check |-> b.check], AfterDates(b.row, b.check))
  /\ copy' = [copy EXCEPT ![r] = b.row]
  /\ UNCHANGED <<rowVars, own, doomed, ghostVars>>

Update(r, i, c) ==
  /\ i <= lastId
  /\ Begin(r, [kind |-> "update", id |-> i, change |-> c, check |-> c.check], "load")
  /\ UNCHANGED <<rowVars, own, copy, doomed, ghostVars>>

(* getOne does not see canceled rows. *)
Load(r) ==
  LET i == task[r].id
      c == task[r].change
  IN
  /\ At(r, "load")
  /\ \/ i \notin Shown /\ Goto(r, "failed") /\ UNCHANGED <<own, copy>>
     \/ i \in Shown /\ ~HasChanges(row[i], c) /\ Goto(r, "done") /\ UNCHANGED <<own, copy>>
     \/ i \in Shown /\ HasChanges(row[i], c) /\ Hold(r, i, Updated(row[i], c))
  /\ UNCHANGED <<rowVars, task, doomed, ghostVars>>

CheckIntersect(r) ==
  /\ At(r, "intersect")
  /\ Goto(r, IF Clashes(copy[r], own[r]) = {} THEN AfterIntersect(copy[r]) ELSE "rejected")
  /\ UNCHANGED <<rowVars, task, own, copy, doomed, ghostVars>>

(* getOne takes any of the rows; the call's own row is no obstacle. *)
Free(a, id) == a.schedule \notin Limited \/ SameDay(a) = {} \/ id \in SameDay(a)
Taken(a, id) == a.schedule \in Limited /\ SameDay(a) \ {id} # {}

CheckLimit(r) ==
  /\ At(r, "limit")
  /\ \/ Free(copy[r], own[r]) /\ Goto(r, "save")
     \/ Taken(copy[r], own[r]) /\ Goto(r, "rejected")
  /\ UNCHANGED <<rowVars, task, own, copy, doomed, ghostVars>>

(* Users name events too: a body may give an external id, or take a row to another schedule. *)
(* The event is a row's already, or a call for it is running.                                *)
Names(r) ==
  \/ task[r].kind = "create"
  \/ task[r].kind = "update" /\ (task[r].change.external # Kept \/ task[r].change.schedule # Kept)
Meets(a, i) ==
  \/ \E x \in live \ {i} : row[x].schedule = a.schedule /\ row[x].external = a.external
  \/ \E q \in Active : task[q].kind = "ext" /\ task[q].event.external = a.external

Save(r) ==
  LET a == copy[r]
      i == IF own[r] = NewRow THEN lastId + 1 ELSE own[r]
      Mark(ghost, bad) == IF bad THEN ghost \cup {i} ELSE ghost
  IN
  /\ At(r, "save")
  /\ \/ /\ a.performer \notin performers /\ Goto(r, "failed")
        /\ UNCHANGED <<live, row, lastId, overtaken, unchecked, raced, stale, doubled>>
     \/ /\ a.performer \in performers /\ i \in Id
        /\ live' = live \cup {i} /\ row' = [row EXCEPT ![i] = a]
        /\ lastId' = IF own[r] = NewRow THEN i ELSE lastId
        /\ Overtake(r, Check)
        /\ unchecked' = IF task[r].check /\ "intersect" \notin overtaken[r]
                          THEN unchecked \ {i} ELSE unchecked \cup {i}
        /\ raced' = Mark(raced, "limit" \in overtaken[r])
        /\ stale' = Mark(stale, "copy" \in overtaken[r])
        /\ doubled' = IF Names(r) /\ Meets(a, i) THEN doubled \cup ({a.external} \ {NoExternal})
                                                 ELSE doubled
        /\ Goto(r, "done")
  /\ UNCHANGED <<performers, task, own, copy, doomed>>

------------------------------------------------------------------------------
(* handleUpsertExt, for an event of a calendar *)

UpsertExt(r, ev) ==
  LET S == {q \in Active : task[q].kind = "ext" /\ task[q].event.external = ev.external} IN
  /\ ev.id <= lastId
  /\ Begin(r, [kind |-> "ext", event |-> ev, change |-> ChangeOf(ev), check |-> FALSE,
               known |-> ev.performer \in performers /\ ScheduleOf[ev.performer] = ev.schedule],
           "findExt")
  /\ doubled' = IF S = {} THEN doubled ELSE doubled \cup {ev.external}
  /\ UNCHANGED <<rowVars, own, copy, doomed, overtaken, unchecked, raced, stale>>

FindExt(r) ==
  LET ev == task[r].event IN
  /\ At(r, "findExt")
  /\ \/ \E i \in Linked(ev) : Hold(r, i, Updated(row[i], task[r].change))
     \/ Linked(ev) = {} /\ Goto(r, "findId") /\ UNCHANGED <<own, copy>>
  /\ UNCHANGED <<rowVars, task, doomed, ghostVars>>

FindId(r) ==
  LET ev == task[r].event IN
  /\ At(r, "findId")
  /\ \/ \E i \in Named(ev) : Hold(r, i, Updated(row[i], task[r].change))
     \/ Named(ev) = {} /\ task[r].known /\ Hold(r, NewRow, RowOf(ev))
     \/ Named(ev) = {} /\ ~task[r].known /\ Goto(r, "done") /\ UNCHANGED <<own, copy>>
  /\ UNCHANGED <<rowVars, task, doomed, ghostVars>>

------------------------------------------------------------------------------
(* delete, of one appointment or of all of a schedule (ScheduleUpdated) *)

Delete(r, S, I) ==
  /\ Begin(r, [kind |-> "delete", schedules |-> S, ids |-> I, check |-> FALSE], "find")
  /\ UNCHANGED <<rowVars, own, copy, doomed, ghostVars>>

FindDoomed(r) ==
  /\ At(r, "find")
  /\ doomed' = [doomed EXCEPT ![r] =
       {x \in Shown : x \in task[r].ids /\ row[x].schedule \in task[r].schedules}]
  /\ Goto(r, "drop")
  /\ UNCHANGED <<rowVars, task, own, copy, ghostVars>>

Drop(r, x) ==
  /\ At(r, "drop") /\ x \in doomed[r]
  /\ live' = live \ {x}
  /\ doomed' = [doomed EXCEPT ![r] = @ \ {x}]
  /\ Overtake(r, {"copy"})
  /\ UNCHANGED <<performers, row, lastId, pc, task, own, copy, unchecked, raced, stale, doubled>>

EndDelete(r) ==
  /\ At(r, "drop") /\ doomed[r] = {}
  /\ Goto(r, "done")
  /\ UNCHANGED <<rowVars, task, own, copy, doomed, ghostVars>>

------------------------------------------------------------------------------
(* SchedulePerformerService.delete, with or without a new performer *)

ReplacePerformer(r, p, q) ==
  /\ {p, q} \subseteq performers /\ p # q
  /\ Begin(r, [kind |-> "replace", old |-> p, new |-> q, check |-> FALSE], "move")
  /\ UNCHANGED <<rowVars, own, copy, doomed, ghostVars>>

RemovePerformer(r, p) ==
  /\ p \in performers
  /\ Begin(r, [kind |-> "remove", old |-> p, check |-> FALSE], "retire")
  /\ UNCHANGED <<rowVars, own, copy, doomed, ghostVars>>

ChangePerformer(r) ==
  LET S == Moved(task[r].old) IN
  /\ At(r, "move")
  /\ \/ /\ task[r].new \notin performers /\ S # {} /\ Goto(r, "failed")
        /\ UNCHANGED <<row, overtaken, unchecked>>
     \/ /\ task[r].new \in performers \/ S = {}
        /\ row' = [x \in Id |-> IF x \in S THEN [row[x] EXCEPT !.performer = task[r].new]
                                            ELSE row[x]]
        /\ unchecked' = unchecked \cup S
        /\ Overtake(r, {"intersect", "copy", "move"})
        /\ Goto(r, "retire")
  /\ UNCHANGED <<performers, live, lastId, task, own, copy, doomed, raced, stale, doubled>>

(* The appointments of the performer go with it, by cascade. *)
Retire(r) ==
  /\ At(r, "retire")
  /\ performers' = performers \ {task[r].old}
  /\ live' = {x \in live : row[x].performer # task[r].old}
  /\ Overtake(r, {"copy"})
  /\ Goto(r, "done")
  /\ UNCHANGED <<row, lastId, task, own, copy, doomed, unchecked, raced, stale, doubled>>

------------------------------------------------------------------------------
Blank == CHOOSE a \in Row : TRUE

Init ==
  /\ performers = Performer /\ live = {} /\ lastId = 0 /\ row = [x \in Id |-> Blank]
  /\ pc = [r \in Request |-> "new"] /\ task = [r \in Request |-> NoTask]
  /\ own = [r \in Request |-> NewRow] /\ copy = [r \in Request |-> Blank]
  /\ doomed = [r \in Request |-> {}] /\ overtaken = [r \in Request |-> {}]
  /\ unchecked = {} /\ raced = {} /\ stale = {} /\ doubled = {}

Open(r) ==
  \/ \E b \in Bodies : Create(r, b)
  \/ \E i \in Id, c \in Changes : Update(r, i, c)
  \/ \E ev \in ExtEvents : UpsertExt(r, ev)
  \/ \E i \in live : Delete(r, Schedule, {i})
  \/ \E s \in Schedule : Delete(r, {s}, Id)
  \/ \E p \in Replacements : ReplacePerformer(r, p[1], p[2])
  \/ \E p \in Performer : RemovePerformer(r, p)

Step(r) ==
  \/ Load(r) \/ CheckIntersect(r) \/ CheckLimit(r) \/ Save(r)
  \/ FindExt(r) \/ FindId(r)
  \/ FindDoomed(r) \/ EndDelete(r) \/ \E x \in doomed[r] : Drop(r, x)
  \/ ChangePerformer(r) \/ Retire(r)

Next == \E r \in Request : Open(r) \/ Step(r)

Spec == Init /\ [][Next]_vars

------------------------------------------------------------------------------
(* Properties *)

(* What a call holds at each of its stages. *)
Fits(r) ==
  /\ pc[r] \in {"intersect", "limit", "save"} => copy[r].start < copy[r].end
  /\ pc[r] = "load" => task[r].kind = "update"
  /\ pc[r] \in {"findExt", "findId"} => task[r].kind = "ext"
  /\ pc[r] = "move" => task[r].kind = "replace" /\ task[r].new # task[r].old
  /\ pc[r] = "retire" => task[r].kind \in {"replace", "remove"}

(* Calls hold what their stage needs, and a row that exists is one the database accepts: it *)
(* has a performer and it ends after it starts, whatever calls raced.     *)
TypeOK ==
  /\ performers \subseteq Performer /\ lastId \in 0..MaxId /\ live \subseteq 1..lastId
  /\ row \in [Id -> Row] /\ pc \in [Request -> Stage] /\ task \in [Request -> Task]
  /\ own \in [Request -> {NewRow} \cup 1..lastId] /\ copy \in [Request -> Row]
  /\ doomed \in [Request -> SUBSET Id] /\ overtaken \in [Request -> SUBSET Check]
  /\ unchecked \subseteq Id /\ raced \subseteq Id /\ stale \subseteq Id
  /\ doubled \subseteq External
  /\ \A x \in live : row[x].performer \in performers /\ row[x].start < row[x].end
  /\ \A r \in Request : Fits(r)

(* checkIntersection: two appointments of a performer do not overlap when the last save of  *)
(* each of them was checked, and no other save, and no replacement of the performer, came   *)
(* between the check and the save.                                                          *)
NoDoubleBooking ==
  \A x, y \in Shown \ unchecked :
    x # y /\ row[x].schedule = row[y].schedule /\ row[x].performer = row[y].performer
      => ~Overlap(row[x], row[y])

OneDay(a) == DayOf[a.start] = DayOf[a.end]
Rivals(a, b) == a.schedule = b.schedule /\ a.schedule \in Limited
                /\ a.entity = b.entity /\ a.entity # NoEntity

(* checkEntityDayLimit: an entity has one appointment a day in a schedule with the limit, as *)
(* far as appointments within one day go whose check was not overtaken by another save.      *)
SingleDayLimit ==
  \A x, y \in Shown \ raced :
    x # y /\ Rivals(row[x], row[y]) /\ OneDay(row[x]) /\ OneDay(row[y])
      => DayOf[row[x].start] # DayOf[row[y].start]

(* handleUpsertExt: an event of a calendar has one appointment in a schedule, canceled ones  *)
(* included, unless two calls for it ran at the same time, a row was saved from a copy that  *)
(* another call had overtaken, or a user gave it to a second row or while it was being       *)
(* synchronised; an event that a user has given to a first row is found there.               *)
ExtOnce ==
  \A x, y \in live \ stale :
    x # y /\ row[x].schedule = row[y].schedule /\ row[x].external = row[y].external
      => row[x].external \in doubled \cup {NoExternal}

(* update: saving a row from a copy leaves the columns its body does not name as they are in *)
(* the database at that moment, unless another call wrote after the copy was read.           *)
NoLostUpdate ==
  [][\A r \in Request :
       At(r, "save") /\ pc'[r] = "done" /\ own[r] # NewRow /\ "copy" \notin overtaken[r]
         => /\ own[r] \in live
            /\ \A f \in DOMAIN row[own[r]] :
                 row'[own[r]][f] # row[own[r]][f]
                   => task[r].change[f] # Kept]_vars

(* SchedulePerformerService.delete with a new performer loses no appointment, canceled ones  *)
(* included: what the cascade takes was saved between the move and the removal.              *)
ReplaceKeepsAll ==
  [][\A r \in Request :
       At(r, "retire") /\ pc'[r] = "done" /\ task[r].kind = "replace"
         /\ "move" \notin overtaken[r]
         => live' = live]_vars

(* 'Allow only one entity per day' (schedule.dto.ts), said of every appointment. *)
OneEntityPerDay ==
  \A x, y \in Shown \ raced :
    x # y /\ Rivals(row[x], row[y])
      => DayOf[row[x].end] < DayOf[row[y].start] \/ DayOf[row[y].end] < DayOf[row[x].start]
==============================================================================
