---------------------------- MODULE RentalSchedule ----------------------------
(***************************************************************************)
(* RentalScheduleService: the rental_event rows that block a product while *)
(* an order has it.  Three kinds of calls work on them:                    *)
(*   - processOrder, with the status an order has just got;                *)
(*   - releaseProductByDates, which frees a product for a period;          *)
(*   - buildSchedule, which reads the rows that touch a period.            *)
(* Every awaited repository call is one action; nothing runs in a          *)
(* transaction, so calls interleave between any two of them.               *)
(*                                                                         *)
(* Instants are small integers and a row blocks the unit slots from its    *)
(* start to its end.  Orders remove items at any time: a foreign key takes *)
(* the rows of the item with it.                                           *)
(***************************************************************************)
EXTENDS Integers, FiniteSets

CONSTANTS
  Item,        \* rental_order_item.id
  Product,     \* product.id
  ProductOf,   \* [Item -> Product]
  MaxTime,     \* bound: instants 0 .. MaxTime
  Request,     \* calls of the service
  MaxActive,   \* bound: calls running at the same time
  Statuses,    \* statuses the callers give to an order
  ItemSets,    \* items an order can have
  PeriodSets,  \* what the periods of an order can be
  Windows,     \* periods of releaseProductByDates and buildSchedule
  InitialEvents \* what may be booked before the first call

OrderStatus == {"formed", "reserved", "sent_to_warehouse", "shipped", "delivered",
                "returned", "accepted_to_warehouse", "cancelled"}
Blocking == {"reserved", "sent_to_warehouse", "shipped", "delivered"}
Returning == {"returned", "accepted_to_warehouse"}

Time == 0..MaxTime
Period == {p \in Time \X Time : p[1] <= p[2]}
Id == Nat \X (Time \X Time)  \* a save issues ids: its number, and a row of it
Event == [id : Id, item : Item, start : Time, end : Time,
          status : {"reserved", "rented"}]
Stage == {"new", "release", "block", "future", "cut", "trim", "inner", "outer", "split",
          "tail", "drop", "rights", "saveLefts", "saveRights", "readInner", "readOuter",
          "readLefts", "readRights", "end", "done", "failed"}
NoTask == [kind |-> "none"]
Slot == Item \X {"reserved", "rented"} \X Time
Class == {"inner", "outer", "left", "right"}

ASSUME RentalAssumption ==
  /\ ProductOf \in [Item -> Product]
  /\ MaxTime \in Nat /\ MaxActive \in Nat
  /\ Statuses \subseteq OrderStatus /\ ItemSets \subseteq SUBSET Item
  /\ PeriodSets \subseteq SUBSET Period /\ Windows \subseteq Period
  /\ InitialEvents \subseteq SUBSET Event
  /\ \A E \in InitialEvents :  \* rows as saves leave them; saves to come issue other ids
       /\ IsFiniteSet(E) /\ \A e \in E : e.start <= e.end /\ e.id[1] = 0
       /\ \A e, f \in E : e.id = f.id => e = f

VARIABLES
  present,  \* items that exist
  events,   \* rental_event rows
  batch,    \* saves that have issued ids
  now,      \* the latest instant a call has read from the clock
  pc,       \* where a call is
  task,     \* its arguments
  todo,     \* items blockProducts has still to block
  held,     \* copies of rows a call has read and still has to write
  rights,   \* copies of the second query of getIntersectEvents
  outer,    \* the row splitOuterEvent is splitting
  found,    \* what buildSchedule has read
  asked,    \* ghost: slots some call has blocked
  before,   \* ghost: the slots blocked when a call began
  disturbed \* ghost: calls that ran beside another one, or lost an item

rowVars == <<present, events, batch>>
copyVars == <<todo, held, rights, outer, found>>
ghostVars == <<asked, before, disturbed>>
vars == <<rowVars, now, pc, task, copyVars, ghostVars>>

------------------------------------------------------------------------------
(* The queries and what is done to the rows they select *)

Inner(E, p) == {e \in E : e.start >= p[1] /\ e.end <= p[2]}
Outer(E, p) == {e \in E : e.start < p[1] /\ e.end > p[2]}
Right(E, p) == {e \in E : e.start >= p[1] /\ e.start <= p[2] /\ e.end > p[2]}
Future(E, t) == {e \in E : e.start > t}
Crossing(E, t) == {e \in E : e.start < t /\ e.end > t}

(* Changed forms of definitions: the bugs the properties must see. *)
Left_Open(E, p) == {e \in E : e.start < p[1] /\ e.end > p[1] /\ e.end < p[2]}
Piece_Reserved(e, from, to) ==
  [id |-> e.id, item |-> e.item, start |-> from, end |-> to, status |-> "reserved"]
ScheduleStatus_ShippedOnly(st) == IF st = "shipped" THEN "rented" ELSE "reserved"
Trimmed_Start(e, t) == [e EXCEPT !.start = t]
Dropped_None(e) == {}
Saveable_Always(E) == TRUE

Left(E, p) == {e \in E : e.start < p[1] /\ e.end >= p[1] /\ e.end <= p[2]}

OfProduct(x) == {e \in events : ProductOf[e.item] = x}
OfItems(I) == {e \in events : e.item \in I}

(* ensureDates *)
Clip(e, notEarlier, notLater) ==
  [e EXCEPT !.start = IF @ < notEarlier THEN notEarlier ELSE @,
            !.end   = IF @ > notLater THEN notLater ELSE @]

(* A part of an outer row, as splitOuterEvent constructs it. *)
Piece(e, from, to) ==
  [id |-> e.id, item |-> e.item, start |-> from, end |-> to, status |-> e.status]

Trimmed(e, t) == [e EXCEPT !.end = t]
Dropped(e) == {x \in events : x.id = e.id}
Rest(S, e) == S \ {e}

(* The status blockProducts gets for an order status. *)
ScheduleStatus(st) == IF st \in {"shipped", "delivered"} THEN "rented" ELSE "reserved"

(* "IN ()" is no SQL: a query about no items fails. *)
NoItems(I) == I = {}

(* save: a copy replaces its row, or comes back when the row has gone. *)
Save(E) == {e \in events : \A x \in E : x.id # e.id} \cup E
Fresh(e) == [e EXCEPT !.id = <<batch + 1, <<e.start, e.end>>>>]
Saveable(E) == \A e \in E : e.item \in present

Slots(E) ==
  {s \in Slot : \E e \in E : e.item = s[1] /\ e.status = s[2] /\ e.start <= s[3] /\ s[3] < e.end}

------------------------------------------------------------------------------
(* Control *)

At(r, stage) == pc[r] = stage
Goto(r, stage) == pc' = [pc EXCEPT ![r] = stage]
Active == {r \in Request : pc[r] \notin {"new", "done", "failed"}}
Window(r) == task[r].window
Mine(r) == OfProduct(task[r].product)

(* Writes rows E, or ends the call when one of them has lost its item. *)
Write(r, E, stage) ==
  IF Saveable(E)
    THEN events' = Save(E) /\ Goto(r, stage)
    ELSE UNCHANGED events /\ Goto(r, "failed")

Begin(r, t, stage) ==
  /\ At(r, "new") /\ Cardinality(Active) < MaxActive
  /\ task' = [task EXCEPT ![r] = t]
  /\ before' = [before EXCEPT ![r] = Slots(events)]
  /\ disturbed' = IF Active = {} THEN disturbed ELSE disturbed \cup Active \cup {r}
  /\ Goto(r, stage)

ProcessOrder(r, st, I, P) ==
  /\ now' \in IF st \in Returning THEN now..MaxTime ELSE {now}
  /\ Begin(r, [kind |-> st, items |-> I, periods |-> P, date |-> now'],
           IF st \in Returning THEN "future" ELSE "release")
  /\ todo' = [todo EXCEPT ![r] = I]
  /\ UNCHANGED <<rowVars, held, rights, outer, found, asked>>

ReleaseProductByDates(r, x, p) ==
  /\ Begin(r, [kind |-> "dates", product |-> x, window |-> p], "inner")
  /\ UNCHANGED <<rowVars, now, copyVars, asked>>

BuildSchedule(r, x, p) ==
  /\ Begin(r, [kind |-> "query", product |-> x, window |-> p], "readInner")
  /\ UNCHANGED <<rowVars, now, copyVars, asked>>

------------------------------------------------------------------------------
(* processOrder: releaseProducts, blockProducts, releaseProductsFromDate *)

ReleaseProducts(r) ==
  /\ At(r, "release")
  /\ events' = events \ OfItems(task[r].items)
  /\ Goto(r, IF task[r].kind \in Blocking THEN "block" ELSE "end")
  /\ UNCHANGED <<present, batch, now, task, copyVars, ghostVars>>

(* One save per item, with a row for each period. *)
BlockProducts(r, i) ==
  LET st == ScheduleStatus(task[r].kind)
      New == {Fresh([id |-> 0, item |-> i, start |-> p[1], end |-> p[2], status |-> st]) :
                p \in task[r].periods}
  IN
  /\ At(r, "block") /\ i \in todo[r]
  /\ Write(r, New, "block")
  /\ batch' = batch + 1
  /\ todo' = [todo EXCEPT ![r] = @ \ {i}]
  /\ asked' = asked \cup Slots(New)
  /\ UNCHANGED <<present, now, task, held, rights, outer, found, before, disturbed>>

ReleaseFuture(r) ==
  LET E == OfItems(task[r].items) IN
  /\ At(r, "future")
  /\ IF NoItems(task[r].items)
       THEN UNCHANGED events /\ Goto(r, "failed")
       ELSE events' = events \ Future(E, task[r].date) /\ Goto(r, "cut")
  /\ UNCHANGED <<present, batch, now, task, copyVars, ghostVars>>

ReadCrossing(r) ==
  /\ At(r, "cut")
  /\ held' = [held EXCEPT ![r] = Crossing(OfItems(task[r].items), task[r].date)]
  /\ Goto(r, "trim")
  /\ UNCHANGED <<rowVars, now, task, todo, rights, outer, found, ghostVars>>

Trim(r, e) ==
  /\ At(r, "trim") /\ e \in held[r]
  /\ Write(r, {Trimmed(e, task[r].date)}, "trim")
  /\ held' = [held EXCEPT ![r] = Rest(@, e)]
  /\ UNCHANGED <<present, batch, now, task, todo, rights, outer, found, ghostVars>>

------------------------------------------------------------------------------
(* releaseProductByDates: releaseInnerEvents, splitOuterEvent, *)
(* releaseIntersectEvents                                      *)

ReleaseInner(r) ==
  /\ At(r, "inner")
  /\ events' = events \ Inner(Mine(r), Window(r))
  /\ Goto(r, "outer")
  /\ UNCHANGED <<present, batch, now, task, copyVars, ghostVars>>

ReadOuters(r) ==
  /\ At(r, "outer")
  /\ held' = [held EXCEPT ![r] = Outer(Mine(r), Window(r))]
  /\ Goto(r, "split")
  /\ UNCHANGED <<rowVars, now, task, todo, rights, outer, found, ghostVars>>

SaveHead(r, e) ==
  /\ At(r, "split") /\ e \in held[r]
  /\ Write(r, {Fresh(Piece(e, e.start, Window(r)[1]))}, "tail")
  /\ batch' = batch + 1
  /\ outer' = [outer EXCEPT ![r] = {e}]
  /\ held' = [held EXCEPT ![r] = Rest(@, e)]
  /\ UNCHANGED <<present, now, task, todo, rights, found, ghostVars>>

SaveTail(r, e) ==
  /\ At(r, "tail") /\ e \in outer[r]
  /\ Write(r, {Fresh(Piece(e, Window(r)[2], e.end))}, "drop")
  /\ batch' = batch + 1
  /\ UNCHANGED <<present, now, task, copyVars, ghostVars>>

DropOuter(r, e) ==
  /\ At(r, "drop") /\ e \in outer[r]
  /\ events' = events \ Dropped(e)
  /\ outer' = [outer EXCEPT ![r] = {}]
  /\ Goto(r, "split")
  /\ UNCHANGED <<present, batch, now, task, todo, held, rights, found, ghostVars>>

ReadLefts(r) ==
  /\ At(r, "split") /\ held[r] = {}
  /\ held' = [held EXCEPT ![r] = Left(Mine(r), Window(r))]
  /\ Goto(r, "rights")
  /\ UNCHANGED <<rowVars, now, task, todo, rights, outer, found, ghostVars>>

ReadRights(r) ==
  /\ At(r, "rights")
  /\ rights' = [rights EXCEPT ![r] = Right(Mine(r), Window(r))]
  /\ Goto(r, "saveLefts")
  /\ UNCHANGED <<rowVars, now, task, todo, held, outer, found, ghostVars>>

SaveLefts(r) ==
  /\ At(r, "saveLefts")
  /\ Write(r, {Clip(e, e.start, Window(r)[1]) : e \in held[r]}, "saveRights")
  /\ held' = [held EXCEPT ![r] = {}]
  /\ UNCHANGED <<present, batch, now, task, todo, rights, outer, found, ghostVars>>

SaveRights(r) ==
  /\ At(r, "saveRights")
  /\ Write(r, {Clip(e, Window(r)[2], e.end) : e \in rights[r]}, "end")
  /\ rights' = [rights EXCEPT ![r] = {}]
  /\ UNCHANGED <<present, batch, now, task, todo, held, outer, found, ghostVars>>

------------------------------------------------------------------------------
(* buildSchedule: four queries, one after the other *)

Read(r, stage, class, E, next) ==
  /\ At(r, stage)
  /\ found' = [found EXCEPT ![r] = @ \cup {class} \X E]
  /\ Goto(r, next)
  /\ UNCHANGED <<rowVars, now, task, todo, held, rights, outer, ghostVars>>

ReadSchedule(r) ==
  \/ Read(r, "readInner", "inner", Inner(Mine(r), Window(r)), "readOuter")
  \/ Read(r, "readOuter", "outer", Outer(Mine(r), Window(r)), "readLefts")
  \/ Read(r, "readLefts", "left", Left(Mine(r), Window(r)), "readRights")
  \/ Read(r, "readRights", "right", Right(Mine(r), Window(r)), "end")

------------------------------------------------------------------------------
(* The end of a call; the orders' items *)

Return(r) ==
  /\ \/ At(r, "end")
     \/ At(r, "block") /\ todo[r] = {}
     \/ At(r, "trim") /\ held[r] = {}
  /\ Goto(r, "done")
  /\ task' = [task EXCEPT ![r] = NoTask]
  /\ found' = [found EXCEPT ![r] = {}]
  /\ before' = [before EXCEPT ![r] = {}]
  /\ UNCHANGED <<rowVars, now, todo, held, rights, outer, asked, disturbed>>

RemoveItem(i) ==
  /\ i \in present
  /\ present' = present \ {i}
  /\ events' = events \ OfItems({i})
  /\ disturbed' = disturbed \cup Active
  /\ UNCHANGED <<batch, now, pc, task, copyVars, asked, before>>

Init ==
  /\ present = Item /\ events \in InitialEvents /\ batch = 0 /\ now = 0
  /\ pc = [r \in Request |-> "new"]
  /\ task = [r \in Request |-> NoTask]
  /\ todo = [r \in Request |-> {}] /\ held = [r \in Request |-> {}]
  /\ rights = [r \in Request |-> {}] /\ outer = [r \in Request |-> {}]
  /\ found = [r \in Request |-> {}]
  /\ asked = Slots(events) /\ before = [r \in Request |-> {}] /\ disturbed = {}

Open(r) ==
  \/ \E st \in Statuses, I \in ItemSets, P \in PeriodSets : ProcessOrder(r, st, I, P)
  \/ \E x \in Product, p \in Windows : ReleaseProductByDates(r, x, p) \/ BuildSchedule(r, x, p)

Step(r) ==
  \/ ReleaseProducts(r) \/ ReleaseFuture(r) \/ ReadCrossing(r)
  \/ \E i \in Item : BlockProducts(r, i)
  \/ ReleaseInner(r) \/ ReadOuters(r) \/ ReadLefts(r) \/ ReadRights(r)
  \/ \E e \in held[r] : Trim(r, e) \/ SaveHead(r, e)
  \/ \E e \in outer[r] : SaveTail(r, e) \/ DropOuter(r, e)
  \/ SaveLefts(r) \/ SaveRights(r)
  \/ ReadSchedule(r) \/ Return(r)

Next ==
  \/ \E r \in Request : Open(r) \/ Step(r)
  \/ \E i \in Item : RemoveItem(i)

Spec == Init /\ [][Next]_vars

------------------------------------------------------------------------------
(* Properties *)

Task ==
  [kind : OrderStatus, items : SUBSET Item, periods : SUBSET Period, date : Time]
  \cup [kind : {"dates", "query"}, product : Product, window : Period]
  \cup {NoTask}

(* Rows keep their foreign key; types of the rest. *)
TypeOK ==
  /\ present \subseteq Item /\ events \subseteq Event /\ batch \in Nat /\ now \in Time
  /\ \A e \in events : e.item \in present
  /\ pc \in [Request -> Stage] /\ task \in [Request -> Task]
  /\ todo \in [Request -> SUBSET Item] /\ held \in [Request -> SUBSET Event]
  /\ rights \in [Request -> SUBSET Event] /\ outer \in [Request -> SUBSET Event]
  /\ found \in [Request -> SUBSET (Class \X Event)]
  /\ before \in [Request -> SUBSET Slot]
  /\ asked \subseteq Slot /\ disturbed \subseteq Request

(* A product is never blocked at a time, or with a status, that no order has *)
(* asked for its item: splits, trims and saves of old copies, however they   *)
(* interleave, only ever give back what has been blocked (splitOuterEvent,   *)
(* releaseIntersectEvents, releaseProductsFromDate).                         *)
NothingInvented == Slots(events) \subseteq asked

(* A call that nothing ran beside. *)
Alone(r) == r \notin disturbed
Ends(r) == pc[r] # "done" /\ pc'[r] = "done"

(* releaseProductByDates frees exactly its period: every row of the product  *)
(* gives up its slots of the period and keeps all others, with their item    *)
(* and status, and no other product is touched.                              *)
ReleaseExact ==
  [][\A r \in Request :
       Ends(r) /\ task[r].kind = "dates" /\ Alone(r) =>
         Slots(events) =
           {s \in before[r] : \/ ProductOf[s[1]] # task[r].product
                              \/ s[3] < Window(r)[1] \/ Window(r)[2] <= s[3]}]_vars

(* processOrder leaves the items of an order blocked for exactly its periods *)
(* with the status that goes with the order's, or not at all when the order  *)
(* is formed or cancelled, whatever they were blocked for before.            *)
BlockExact ==
  [][\A r \in Request :
       LET st == task[r].kind
           Now == {e \in events : e.item \in task[r].items}
       IN
       Ends(r) /\ st \in OrderStatus \ Returning /\ Alone(r) =>
         /\ \A e \in Now : e.status = "rented" <=> st \in {"shipped", "delivered"}
         /\ \A i \in task[r].items :
              {<<e.start, e.end>> : e \in {x \in Now : x.item = i}}
                = IF st \in Blocking THEN task[r].periods ELSE {}
         /\ {s \in Slots(events) : s[1] \notin task[r].items}
              = {s \in before[r] : s[1] \notin task[r].items}]_vars

(* Returned goods are free from the moment of the return and stay booked for *)
(* the time before; a row that starts at that very instant is left alone     *)
(* (releaseProductsFromDate).                                                *)
ReturnFrees ==
  [][\A r \in Request :
       LET Past(S) == {s \in S : s[1] \in task[r].items /\ s[3] < task[r].date} IN
       Ends(r) /\ task[r].kind \in Returning /\ Alone(r) =>
         /\ \A e \in events : e.item \in task[r].items =>
              e.end <= task[r].date \/ e.start = task[r].date
         /\ Past(Slots(events)) = Past(before[r])]_vars

(* The four queries of buildSchedule find each row that touches the period   *)
(* once, and nothing else.                                                   *)
ScheduleExact ==
  [][\A r \in Request :
       LET Touching == {e \in Mine(r) : e.start <= Window(r)[2] /\ e.end >= Window(r)[1]} IN
       Ends(r) /\ task[r].kind = "query" /\ Alone(r) =>
         /\ {f[2] : f \in found[r]} = Touching
         /\ Cardinality(found[r]) = Cardinality(Touching)]_vars

Apart(e, f) == e.end <= f.start \/ f.end <= e.start
Disjoint(E) == \A e, f \in E : e # f /\ e.item = f.item => Apart(e, f)

(* What BookedOnce takes for granted: nothing in the service keeps the periods *)
(* of an order apart, or looks at the rows of others before it blocks.         *)
PeriodsApart ==
  /\ \A P \in PeriodSets : \A p, q \in P : p # q => p[2] <= q[1] \/ q[2] <= p[1]
  /\ \A E \in InitialEvents : Disjoint(E)

(* An item is booked once at a time: sequences of blocks, splits and trims   *)
(* leave no two rows of one item over the same slot.                         *)
BookedOnce ==
  Active = {} /\ disturbed = {} => Disjoint(events)
==============================================================================
