------------------------- MODULE RentalScheduleProofs -------------------------
(***************************************************************************)
(* Theorems about RentalSchedule, for every number of items, products,     *)
(* instants and concurrent calls.                                          *)
(***************************************************************************)
EXTENDS RentalSchedule, FiniteSetTheorems, TLAPS

(* The queries of buildSchedule partition the rows that touch a period: each *)
(* such row is found by exactly one of them (getInnerEvents, getOuterEvents, *)
(* getIntersectEvents).                                                      *)
THEOREM QueriesPartition ==
  ASSUME NEW p \in Period, NEW E \in SUBSET Event,
         \A e \in E : e.start <= e.end, MaxTime \in Nat
  PROVE  /\ Inner(E, p) \cup Outer(E, p) \cup Left(E, p) \cup Right(E, p)
              = {e \in E : e.start <= p[2] /\ e.end >= p[1]}
         /\ Inner(E, p) \cap (Outer(E, p) \cup Left(E, p) \cup Right(E, p)) = {}
         /\ Outer(E, p) \cap (Left(E, p) \cup Right(E, p)) = {}
         /\ Left(E, p) \cap Right(E, p) = {}
<1>1. p[1] \in Int /\ p[2] \in Int /\ p[1] <= p[2]  BY DEF Period, Time
<1>2. \A e \in E : e.start \in Int /\ e.end \in Int  BY DEF Event, Time
<1> QED BY <1>1, <1>2 DEF Inner, Outer, Left, Right

------------------------------------------------------------------------------
(* The strengthening behind TypeOK and NothingInvented.  A call knows its    *)
(* arguments at every stage that reads them; the copies it holds blocked     *)
(* only what was asked for, and reach over the period they are split or cut  *)
(* at, so that the parts made of them stay inside.                           *)
DateStages == {"inner", "outer", "split", "tail", "drop", "rights", "saveLefts", "saveRights"}
QueryStages == {"readInner", "readOuter", "readLefts", "readRights"}
OrderStages == {"release", "block", "future", "cut", "trim"}
WindowTask == [kind : {"dates", "query"}, product : Product, window : Period]
OrderTask == [kind : OrderStatus, items : SUBSET Item, periods : SUBSET Period, date : Time]

Spans(e, p) == e.start < p[1] /\ e.end > p[2]

Asked(e) == \A t \in Time : e.start <= t /\ t < e.end => <<e.item, e.status, t>> \in asked

RowsAsked == \A e \in events : Asked(e)

CallFits(r) ==
  /\ pc[r] \in DateStages \cup QueryStages => task[r] \in WindowTask
  /\ pc[r] \in OrderStages => task[r] \in OrderTask
  /\ pc[r] \in {"new", "inner", "outer"} => outer[r] = {}
  /\ pc[r] \in {"split", "tail", "drop"} =>
       \A e \in held[r] \cup outer[r] : Spans(e, Window(r))
  /\ pc[r] = "trim" => \A e \in held[r] : e.start < task[r].date /\ task[r].date < e.end
  /\ \A e \in held[r] \cup rights[r] \cup outer[r] : Asked(e)

RentalInv == TypeOK /\ RowsAsked /\ \A r \in Request : CallFits(r)

LEMMA PeriodEnds ==
  ASSUME NEW p \in Period PROVE p[1] \in Time /\ p[2] \in Time /\ p[1] <= p[2]
BY DEF Period

LEMMA RowTypes ==
  ASSUME NEW e \in Event
  PROVE  e.item \in Item /\ e.start \in Time /\ e.end \in Time /\ e.id \in Id
         /\ e.status \in {"reserved", "rented"}
BY DEF Event

LEMMA InitInv == RentalAssumption /\ Init => RentalInv
<1> SUFFICES ASSUME RentalAssumption, Init PROVE RentalInv
  OBVIOUS
<1>1. events \subseteq Event /\ present = Item /\ asked = Slots(events)
  BY DEF RentalAssumption, Init
<1>2. \A e \in events : Asked(e) /\ e.item \in present
  BY <1>1, RowTypes DEF Asked, Slots, Slot
<1>3. TypeOK
  BY <1>1, <1>2 DEF RentalAssumption, Init, TypeOK, Stage, Task, Time, Slots
<1>4. ASSUME NEW r \in Request PROVE CallFits(r)
  BY DEF Init, CallFits, DateStages, QueryStages, OrderStages
<1> QED BY <1>2, <1>3, <1>4 DEF RentalInv, RowsAsked

LEMMA PieceFacts ==
  ASSUME batch \in Nat, NEW e \in Event, NEW a \in Time, NEW b \in Time
  PROVE  /\ Fresh(Piece(e, a, b)) \in Event
         /\ Fresh(Piece(e, a, b)).item = e.item /\ Fresh(Piece(e, a, b)).status = e.status
         /\ Fresh(Piece(e, a, b)).start = a /\ Fresh(Piece(e, a, b)).end = b
BY RowTypes DEF Fresh, Piece, Event, Id

LEMMA ClipFacts ==
  ASSUME MaxTime \in Nat, NEW e \in Event, NEW a \in Time, NEW b \in Time
  PROVE  /\ Clip(e, a, b) \in Event
         /\ Clip(e, a, b).item = e.item /\ Clip(e, a, b).status = e.status
         /\ Clip(e, a, b).start >= e.start /\ Clip(e, a, b).end <= e.end
<1> DEFINE from == IF e.start < a THEN a ELSE e.start
           to == IF e.end > b THEN b ELSE e.end
<1>1. from \in Time /\ to \in Time /\ from >= e.start /\ to <= e.end
  BY RowTypes DEF Time
<1>2. Clip(e, a, b) = [e EXCEPT !.start = from, !.end = to]
  BY DEF Clip
<1> HIDE DEF from, to
<1>3. /\ Clip(e, a, b).item = e.item /\ Clip(e, a, b).status = e.status
      /\ Clip(e, a, b).start = from /\ Clip(e, a, b).end = to
  BY <1>2 DEF Event
<1>4. Clip(e, a, b) \in Event  BY <1>1, <1>2 DEF Event
<1> QED BY <1>1, <1>3, <1>4

LEMMA TrimmedFacts ==
  ASSUME NEW e \in Event, NEW t \in Time
  PROVE  /\ Trimmed(e, t) \in Event
         /\ Trimmed(e, t).item = e.item /\ Trimmed(e, t).status = e.status
         /\ Trimmed(e, t).start = e.start /\ Trimmed(e, t).end = t
BY DEF Trimmed, Event

(* A part of a row that blocked what was asked for does so too. *)
LEMMA PartAsked ==
  ASSUME NEW e \in Event, NEW f \in Event, Asked(e), f.item = e.item, f.status = e.status,
         f.start >= e.start, f.end <= e.end, MaxTime \in Nat
  PROVE  Asked(f)
BY RowTypes DEF Asked, Time

(* A part of an outer row that splitOuterEvent saves is one. *)
LEMMA PieceAsked ==
  ASSUME RentalAssumption, batch \in Nat, NEW e \in Event, Asked(e),
         NEW a \in Time, NEW b \in Time, a >= e.start, b <= e.end
  PROVE  Fresh(Piece(e, a, b)) \in Event /\ Asked(Fresh(Piece(e, a, b)))
<1>1. /\ Fresh(Piece(e, a, b)) \in Event
      /\ Fresh(Piece(e, a, b)).item = e.item /\ Fresh(Piece(e, a, b)).status = e.status
      /\ Fresh(Piece(e, a, b)).start = a /\ Fresh(Piece(e, a, b)).end = b
  BY PieceFacts
<1> QED BY <1>1, PartAsked DEF RentalAssumption

LEMMA BlockedAsked ==
  ASSUME NEW E \in SUBSET Event, NEW e \in E, asked' = asked \cup Slots(E)
  PROVE  Asked(e)'
BY RowTypes DEF Asked, Slots, Slot

(* What a write leaves of the rows: old ones and the ones it writes. *)
LEMMA WriteStep ==
  ASSUME TypeOK, NEW r \in Request, NEW E \in SUBSET Event, NEW stage \in Stage,
         Write(r, E, stage)
  PROVE  /\ events' \subseteq events \cup E
         /\ events' \subseteq Event /\ \A e \in events' : e.item \in present
         /\ pc' = [pc EXCEPT ![r] = stage] \/ pc' = [pc EXCEPT ![r] = "failed"]
         /\ pc' \in [Request -> Stage]
BY DEF Write, Save, Saveable, Goto, TypeOK, Stage

(* A call whose own variables stay as they are goes on fitting. *)
LEMMA OthersFit ==
  ASSUME NEW q \in Request, CallFits(q), asked \subseteq asked',
         pc'[q] = pc[q], task'[q] = task[q], held'[q] = held[q], rights'[q] = rights[q],
         outer'[q] = outer[q]
  PROVE  CallFits(q)'
BY DEF CallFits, Asked, Window

(* To preserve the invariant a step has to keep the types, to write only     *)
(* rows that were asked for, and to leave its own call fitting.              *)
LEMMA StepInv ==
  ASSUME RentalInv, NEW r \in Request, TypeOK', asked \subseteq asked', CallFits(r)',
         \A e \in events' : e \in events \/ Asked(e)',
         \A q \in Request \ {r} :
           /\ pc'[q] = pc[q] /\ task'[q] = task[q] /\ held'[q] = held[q]
           /\ rights'[q] = rights[q] /\ outer'[q] = outer[q]
  PROVE  RentalInv'
<1>1. \A q \in Request : CallFits(q)'
  BY OthersFit DEF RentalInv
<1>2. RowsAsked'  BY DEF RentalInv, RowsAsked, Asked
<1> QED BY <1>1, <1>2 DEF RentalInv

------------------------------------------------------------------------------
(* The calls begin. *)

LEMMA OpenInv ==
  ASSUME RentalAssumption, RentalInv, NEW r \in Request, Open(r) PROVE RentalInv'
<1> USE DEF RentalInv, Begin, At, Goto, rowVars, copyVars
<1>1. ASSUME NEW st \in Statuses, NEW I \in ItemSets, NEW P \in PeriodSets,
             ProcessOrder(r, st, I, P)
      PROVE  RentalInv'
  <2>1. now' \in Time /\ Slots(events) \subseteq Slot
    BY <1>1 DEF ProcessOrder, TypeOK, Time, RentalAssumption, Slots
  <2>2. task'[r] \in OrderTask /\ task' \in [Request -> Task] /\ todo' \in [Request -> SUBSET Item]
    BY <1>1, <2>1 DEF ProcessOrder, RentalAssumption, OrderTask, Task, TypeOK
  <2>3. TypeOK'
    BY <1>1, <2>1, <2>2 DEF ProcessOrder, TypeOK, Stage, Active
  <2>4. CallFits(r)'
    BY <1>1, <2>2 DEF ProcessOrder, CallFits, Asked, TypeOK, DateStages, QueryStages
  <2> QED BY <1>1, <2>3, <2>4, StepInv DEF ProcessOrder, TypeOK
<1>2. ASSUME NEW x \in Product, NEW p \in Windows, NEW kind \in {"dates", "query"},
             NEW stage \in {"inner", "readInner"},
             Begin(r, [kind |-> kind, product |-> x, window |-> p], stage),
             UNCHANGED <<rowVars, now, copyVars, asked>>
      PROVE  RentalInv'
  <2>1. Slots(events) \subseteq Slot
    BY DEF Slots
  <2>2. task'[r] \in WindowTask /\ task' \in [Request -> Task]
    BY <1>2 DEF RentalAssumption, WindowTask, Task, TypeOK
  <2>3. TypeOK'
    BY <1>2, <2>1, <2>2 DEF TypeOK, Stage, Active
  <2>4. CallFits(r)'
    BY <1>2, <2>2 DEF CallFits, Asked, TypeOK, OrderStages
  <2> QED BY <1>2, <2>3, <2>4, StepInv DEF TypeOK
<1> QED BY <1>1, <1>2 DEF Open, ReleaseProductByDates, BuildSchedule

------------------------------------------------------------------------------
(* The steps of processOrder. *)

LEMMA ReleaseProductsInv ==
  ASSUME RentalInv, NEW r \in Request, ReleaseProducts(r) PROVE RentalInv'
<1> USE DEF RentalInv, ReleaseProducts, At, Goto, copyVars, ghostVars
<1>1. TypeOK'  BY DEF TypeOK, Stage
<1>2. CallFits(r)'
  BY DEF CallFits, TypeOK, OrderStages, DateStages, QueryStages, Asked
<1> QED BY <1>1, <1>2, StepInv DEF TypeOK

LEMMA BlockProductsInv ==
  ASSUME RentalAssumption, RentalInv, NEW r \in Request, NEW i \in Item, BlockProducts(r, i)
  PROVE  RentalInv'
<1> DEFINE st == ScheduleStatus(task[r].kind)
           Row(p) == Fresh([id |-> 0, item |-> i, start |-> p[1], end |-> p[2], status |-> st])
           New == {Row(p) : p \in task[r].periods}
<1>1. /\ At(r, "block") /\ Write(r, New, "block") /\ batch' = batch + 1
      /\ todo' = [todo EXCEPT ![r] = @ \ {i}] /\ asked' = asked \cup Slots(New)
      /\ UNCHANGED <<present, now, task, held, rights, outer, found, before, disturbed>>
  BY DEF BlockProducts
<1>2. task[r].periods \subseteq Period /\ st \in {"reserved", "rented"}
  BY <1>1 DEF At, RentalInv, CallFits, OrderStages, OrderTask, ScheduleStatus
<1>3. New \subseteq Event
  <2>1. ASSUME NEW p \in Period PROVE Row(p) \in Event
    BY <1>2, PeriodEnds DEF Fresh, Event, Id, RentalInv, TypeOK
  <2> HIDE DEF Row
  <2> QED BY <1>2, <2>1
<1> HIDE DEF New, st, Row
<1>4. /\ events' \subseteq events \cup New
      /\ events' \subseteq Event /\ \A e \in events' : e.item \in present
      /\ pc' = [pc EXCEPT ![r] = "block"] \/ pc' = [pc EXCEPT ![r] = "failed"]
      /\ pc' \in [Request -> Stage]
  BY <1>1, <1>3, WriteStep DEF Stage, RentalInv
<1>5. TypeOK'
  BY <1>1, <1>4 DEF RentalInv, TypeOK, Slots
<1>6. CallFits(r)'
  BY <1>1, <1>4 DEF RentalInv, CallFits, TypeOK, At, OrderStages, DateStages,
     QueryStages, Asked
<1>7. \A e \in New : Asked(e)'
  BY <1>1, <1>3, BlockedAsked
<1> QED BY <1>1, <1>4, <1>5, <1>6, <1>7, StepInv DEF RentalInv, TypeOK

LEMMA ReleaseFutureInv ==
  ASSUME RentalInv, NEW r \in Request, ReleaseFuture(r) PROVE RentalInv'
<1> USE DEF RentalInv, ReleaseFuture, At, Goto, copyVars, ghostVars
<1>1. TypeOK'  BY DEF TypeOK, Stage, Future
<1>2. CallFits(r)'
  BY DEF CallFits, TypeOK, OrderStages, DateStages, QueryStages, Asked
<1> QED BY <1>1, <1>2, StepInv DEF TypeOK, Future

LEMMA ReadCrossingInv ==
  ASSUME RentalInv, NEW r \in Request, ReadCrossing(r) PROVE RentalInv'
<1> USE DEF RentalInv, ReadCrossing, At, Goto, rowVars, ghostVars
<1>1. Crossing(OfItems(task[r].items), task[r].date) \subseteq events
  BY DEF Crossing, OfItems
<1>2. TypeOK'  BY <1>1 DEF TypeOK, Stage
<1>3. CallFits(r)'
  <2>1. \A e \in held'[r] : Asked(e)'
    BY <1>1 DEF RowsAsked, Asked, TypeOK
  <2>2. \A e \in held'[r] : e.start < task[r].date /\ task[r].date < e.end
    BY DEF Crossing, TypeOK
  <2> QED BY <2>1, <2>2 DEF CallFits, TypeOK, OrderStages, DateStages, QueryStages, Asked
<1> QED BY <1>2, <1>3, StepInv DEF TypeOK

LEMMA TrimInv ==
  ASSUME RentalAssumption, RentalInv, NEW r \in Request, NEW e \in held[r], Trim(r, e)
  PROVE  RentalInv'
<1> DEFINE f == Trimmed(e, task[r].date)
<1>1. /\ At(r, "trim") /\ Write(r, {f}, "trim") /\ held' = [held EXCEPT ![r] = Rest(@, e)]
      /\ UNCHANGED <<present, batch, now, task, todo, rights, outer, found, ghostVars>>
  BY DEF Trim
<1>2. /\ e \in Event /\ Asked(e) /\ task[r].date \in Time
      /\ e.start < task[r].date /\ task[r].date < e.end
  BY <1>1 DEF RentalInv, TypeOK, CallFits, OrderStages, OrderTask, At
<1>3. f \in Event /\ Asked(f)
  <2>1. /\ f \in Event /\ f.item = e.item /\ f.status = e.status
        /\ f.start = e.start /\ f.end = task[r].date
    BY <1>2, TrimmedFacts
  <2>2. f.start >= e.start /\ f.end <= e.end
    BY <1>2, <2>1, RowTypes DEF RentalAssumption, Time
  <2> QED BY <1>2, <2>1, <2>2, PartAsked DEF RentalAssumption
<1> HIDE DEF f
<1>4. /\ events' \subseteq events \cup {f}
      /\ events' \subseteq Event /\ \A x \in events' : x.item \in present
      /\ pc' = [pc EXCEPT ![r] = "trim"] \/ pc' = [pc EXCEPT ![r] = "failed"]
      /\ pc' \in [Request -> Stage]
  BY <1>1, <1>3, WriteStep DEF Stage, RentalInv
<1>5. TypeOK'
  BY <1>1, <1>4 DEF RentalInv, TypeOK, Rest, ghostVars
<1>6. CallFits(r)'
  BY <1>1, <1>4 DEF RentalInv, CallFits, TypeOK, At, OrderStages, DateStages,
     QueryStages, Asked, Rest, ghostVars
<1> QED BY <1>1, <1>3, <1>4, <1>5, <1>6, StepInv DEF RentalInv, TypeOK, Asked, ghostVars

------------------------------------------------------------------------------
(* The steps of releaseProductByDates. *)

LEMMA ReleaseInnerInv ==
  ASSUME RentalInv, NEW r \in Request, ReleaseInner(r) PROVE RentalInv'
<1> USE DEF RentalInv, ReleaseInner, At, Goto, copyVars, ghostVars
<1>1. TypeOK'  BY DEF TypeOK, Stage
<1>2. CallFits(r)'
  BY DEF CallFits, TypeOK, OrderStages, DateStages, QueryStages, Asked
<1> QED BY <1>1, <1>2, StepInv DEF TypeOK

LEMMA ReadOutersInv ==
  ASSUME RentalInv, NEW r \in Request, ReadOuters(r) PROVE RentalInv'
<1> USE DEF RentalInv, ReadOuters, At, Goto, rowVars, ghostVars
<1>1. Outer(Mine(r), Window(r)) \subseteq events
  BY DEF Outer, Mine, OfProduct
<1>2. TypeOK'  BY <1>1 DEF TypeOK, Stage
<1>3. CallFits(r)'
  <2>1. \A e \in held'[r] : Asked(e)'
    BY <1>1 DEF RowsAsked, Asked, TypeOK
  <2>2. \A e \in held'[r] : Spans(e, Window(r))
    BY DEF Outer, TypeOK, Spans
  <2> QED BY <2>1, <2>2 DEF CallFits, TypeOK, OrderStages, DateStages, QueryStages, Asked, Window
<1> QED BY <1>2, <1>3, StepInv DEF TypeOK

(* The period of a call that splits or cuts rows. *)
LEMMA WindowEnds ==
  ASSUME RentalInv, NEW r \in Request, pc[r] \in DateStages \cup QueryStages
  PROVE  Window(r) \in Period /\ Window(r)[1] \in Time /\ Window(r)[2] \in Time
BY PeriodEnds DEF RentalInv, CallFits, WindowTask, Window

LEMMA SaveHeadInv ==
  ASSUME RentalAssumption, RentalInv, NEW r \in Request, NEW e \in held[r], SaveHead(r, e)
  PROVE  RentalInv'
<1> DEFINE f == Fresh(Piece(e, e.start, Window(r)[1]))
<1>1. /\ At(r, "split") /\ Write(r, {f}, "tail") /\ batch' = batch + 1
      /\ outer' = [outer EXCEPT ![r] = {e}] /\ held' = [held EXCEPT ![r] = Rest(@, e)]
      /\ UNCHANGED <<present, now, task, todo, rights, found, ghostVars>>
  BY DEF SaveHead
<1>2. /\ e \in Event /\ Asked(e) /\ Spans(e, Window(r))
      /\ Window(r)[1] \in Time /\ Window(r)[2] \in Time /\ batch \in Nat
  BY <1>1, WindowEnds DEF RentalInv, TypeOK, CallFits, DateStages, At
<1>3. f \in Event /\ Asked(f)
  <2> DEFINE a == e.start
             b == Window(r)[1]
  <2>1. a \in Time /\ b \in Time /\ a >= e.start /\ b <= e.end
    BY <1>1, <1>2, RowTypes, WindowEnds DEF RentalAssumption, Time, Spans, Period, At, DateStages
  <2> HIDE DEF a, b
  <2>2. Fresh(Piece(e, a, b)) \in Event /\ Asked(Fresh(Piece(e, a, b)))
    BY <1>2, <2>1, PieceAsked
  <2> QED BY <2>2 DEF a, b
<1> HIDE DEF f
<1>4. /\ events' \subseteq events \cup {f}
      /\ events' \subseteq Event /\ \A x \in events' : x.item \in present
      /\ pc' = [pc EXCEPT ![r] = "tail"] \/ pc' = [pc EXCEPT ![r] = "failed"]
      /\ pc' \in [Request -> Stage]
  BY <1>1, <1>3, WriteStep DEF Stage, RentalInv
<1>5. TypeOK'
  BY <1>1, <1>2, <1>4 DEF RentalInv, TypeOK, Rest, ghostVars
<1>6. CallFits(r)'
  BY <1>1, <1>2, <1>4 DEF RentalInv, CallFits, TypeOK, At, OrderStages, DateStages,
     QueryStages, Asked, Rest, Window, ghostVars
<1> QED BY <1>1, <1>3, <1>4, <1>5, <1>6, StepInv DEF RentalInv, TypeOK, Asked, ghostVars

LEMMA SaveTailInv ==
  ASSUME RentalAssumption, RentalInv, NEW r \in Request, NEW e \in outer[r], SaveTail(r, e)
  PROVE  RentalInv'
<1> DEFINE f == Fresh(Piece(e, Window(r)[2], e.end))
<1>1. /\ At(r, "tail") /\ Write(r, {f}, "drop") /\ batch' = batch + 1
      /\ UNCHANGED <<present, now, task, copyVars, ghostVars>>
  BY DEF SaveTail
<1>2. /\ e \in Event /\ Asked(e) /\ Spans(e, Window(r))
      /\ Window(r)[1] \in Time /\ Window(r)[2] \in Time /\ batch \in Nat
  BY <1>1, WindowEnds DEF RentalInv, TypeOK, CallFits, DateStages, At
<1>3. f \in Event /\ Asked(f)
  <2> DEFINE a == Window(r)[2]
             b == e.end
  <2>1. a \in Time /\ b \in Time /\ a >= e.start /\ b <= e.end
    BY <1>1, <1>2, RowTypes, WindowEnds DEF RentalAssumption, Time, Spans, Period, At, DateStages
  <2> HIDE DEF a, b
  <2>2. Fresh(Piece(e, a, b)) \in Event /\ Asked(Fresh(Piece(e, a, b)))
    BY <1>2, <2>1, PieceAsked
  <2> QED BY <2>2 DEF a, b
<1> HIDE DEF f
<1>4. /\ events' \subseteq events \cup {f}
      /\ events' \subseteq Event /\ \A x \in events' : x.item \in present
      /\ pc' = [pc EXCEPT ![r] = "drop"] \/ pc' = [pc EXCEPT ![r] = "failed"]
      /\ pc' \in [Request -> Stage]
  BY <1>1, <1>3, WriteStep DEF Stage, RentalInv
<1>5. TypeOK'
  BY <1>1, <1>4 DEF RentalInv, TypeOK, copyVars, ghostVars
<1>6. CallFits(r)'
  BY <1>1, <1>4 DEF RentalInv, CallFits, TypeOK, At, OrderStages, DateStages,
     QueryStages, Asked, Window, copyVars, ghostVars
<1> QED BY <1>1, <1>3, <1>4, <1>5, <1>6, StepInv
        DEF RentalInv, TypeOK, Asked, copyVars, ghostVars

LEMMA DropOuterInv ==
  ASSUME RentalInv, NEW r \in Request, NEW e \in outer[r], DropOuter(r, e) PROVE RentalInv'
<1> USE DEF RentalInv, DropOuter, At, Goto, ghostVars
<1>1. TypeOK'  BY DEF TypeOK, Stage
<1>2. CallFits(r)'
  BY DEF CallFits, TypeOK, OrderStages, DateStages, QueryStages, Asked, Window
<1> QED BY <1>1, <1>2, StepInv DEF TypeOK

LEMMA ReadLeftsInv ==
  ASSUME RentalInv, NEW r \in Request, ReadLefts(r) PROVE RentalInv'
<1> USE DEF RentalInv, ReadLefts, At, Goto, rowVars, ghostVars
<1>1. Left(Mine(r), Window(r)) \subseteq events
  BY DEF Left, Mine, OfProduct
<1>2. TypeOK'  BY <1>1 DEF TypeOK, Stage
<1>3. CallFits(r)'
  <2>1. \A e \in held'[r] : Asked(e)'
    BY <1>1 DEF RowsAsked, Asked, TypeOK
  <2> QED BY <2>1 DEF CallFits, TypeOK, OrderStages, DateStages, QueryStages, Asked, Window
<1> QED BY <1>2, <1>3, StepInv DEF TypeOK

LEMMA ReadRightsInv ==
  ASSUME RentalInv, NEW r \in Request, ReadRights(r) PROVE RentalInv'
<1> USE DEF RentalInv, ReadRights, At, Goto, rowVars, ghostVars
<1>1. Right(Mine(r), Window(r)) \subseteq events
  BY DEF Right, Mine, OfProduct
<1>2. TypeOK'  BY <1>1 DEF TypeOK, Stage
<1>3. CallFits(r)'
  <2>1. \A e \in rights'[r] : Asked(e)'
    BY <1>1 DEF RowsAsked, Asked, TypeOK
  <2> QED BY <2>1 DEF CallFits, TypeOK, OrderStages, DateStages, QueryStages, Asked, Window
<1> QED BY <1>2, <1>3, StepInv DEF TypeOK

(* A row that releaseIntersectEvents has cut is a part of the one it read. *)
LEMMA ClipAsked ==
  ASSUME RentalAssumption, NEW e \in Event, Asked(e), NEW a \in Time, NEW b \in Time
  PROVE  Clip(e, a, b) \in Event /\ Asked(Clip(e, a, b))
<1>1. /\ Clip(e, a, b) \in Event
      /\ Clip(e, a, b).item = e.item /\ Clip(e, a, b).status = e.status
      /\ Clip(e, a, b).start >= e.start /\ Clip(e, a, b).end <= e.end
  BY ClipFacts DEF RentalAssumption
<1> QED BY <1>1, PartAsked DEF RentalAssumption

LEMMA SaveLeftsInv ==
  ASSUME RentalAssumption, RentalInv, NEW r \in Request, SaveLefts(r) PROVE RentalInv'
<1> DEFINE E == {Clip(e, e.start, Window(r)[1]) : e \in held[r]}
<1>1. /\ At(r, "saveLefts") /\ Write(r, E, "saveRights") /\ held' = [held EXCEPT ![r] = {}]
      /\ UNCHANGED <<present, batch, now, task, todo, rights, outer, found, ghostVars>>
  BY DEF SaveLefts
<1>2. /\ held[r] \subseteq Event /\ Window(r)[1] \in Time
      /\ \A e \in held[r] : Asked(e) /\ e.start \in Time
  BY <1>1, WindowEnds, RowTypes DEF RentalInv, TypeOK, CallFits, DateStages, At
<1>3. E \subseteq Event /\ \A f \in E : Asked(f)
  BY <1>2, ClipAsked
<1> HIDE DEF E
<1>4. /\ events' \subseteq events \cup E
      /\ events' \subseteq Event /\ \A x \in events' : x.item \in present
      /\ pc' = [pc EXCEPT ![r] = "saveRights"] \/ pc' = [pc EXCEPT ![r] = "failed"]
      /\ pc' \in [Request -> Stage]
  BY <1>1, <1>3, WriteStep DEF Stage, RentalInv
<1>5. TypeOK'
  BY <1>1, <1>4 DEF RentalInv, TypeOK, ghostVars
<1>6. CallFits(r)'
  BY <1>1, <1>4 DEF RentalInv, CallFits, TypeOK, At, OrderStages, DateStages,
     QueryStages, Asked, Window, ghostVars
<1> QED BY <1>1, <1>3, <1>4, <1>5, <1>6, StepInv DEF RentalInv, TypeOK, Asked, ghostVars

LEMMA SaveRightsInv ==
  ASSUME RentalAssumption, RentalInv, NEW r \in Request, SaveRights(r) PROVE RentalInv'
<1> DEFINE E == {Clip(e, Window(r)[2], e.end) : e \in rights[r]}
<1>1. /\ At(r, "saveRights") /\ Write(r, E, "end") /\ rights' = [rights EXCEPT ![r] = {}]
      /\ UNCHANGED <<present, batch, now, task, todo, held, outer, found, ghostVars>>
  BY DEF SaveRights
<1>2. /\ rights[r] \subseteq Event /\ Window(r)[2] \in Time
      /\ \A e \in rights[r] : Asked(e) /\ e.end \in Time
  BY <1>1, WindowEnds, RowTypes DEF RentalInv, TypeOK, CallFits, DateStages, At
<1>3. E \subseteq Event /\ \A f \in E : Asked(f)
  BY <1>2, ClipAsked
<1> HIDE DEF E
<1>4. /\ events' \subseteq events \cup E
      /\ events' \subseteq Event /\ \A x \in events' : x.item \in present
      /\ pc' = [pc EXCEPT ![r] = "end"] \/ pc' = [pc EXCEPT ![r] = "failed"]
      /\ pc' \in [Request -> Stage]
  BY <1>1, <1>3, WriteStep DEF Stage, RentalInv
<1>5. TypeOK'
  BY <1>1, <1>4 DEF RentalInv, TypeOK, ghostVars
<1>6. CallFits(r)'
  BY <1>1, <1>4 DEF RentalInv, CallFits, TypeOK, At, OrderStages, DateStages,
     QueryStages, Asked, Window, ghostVars
<1> QED BY <1>1, <1>3, <1>4, <1>5, <1>6, StepInv DEF RentalInv, TypeOK, Asked, ghostVars

------------------------------------------------------------------------------
(* buildSchedule, the end of a call, and the steps that are no call's. *)

LEMMA ReadInv ==
  ASSUME RentalInv, NEW r \in Request, NEW stage \in QueryStages, NEW class \in Class,
         NEW E \in SUBSET events, NEW next \in QueryStages \cup {"end"},
         Read(r, stage, class, E, next)
  PROVE  RentalInv'
<1> USE DEF RentalInv, Read, At, Goto, rowVars, ghostVars
<1>1. found'[r] \subseteq Class \X Event
  BY DEF TypeOK
<1>2. TypeOK'  BY <1>1 DEF TypeOK, Stage, QueryStages
<1>3. CallFits(r)'
  BY DEF CallFits, TypeOK, OrderStages, DateStages, QueryStages, Asked
<1> QED BY <1>2, <1>3, StepInv DEF TypeOK

LEMMA ReadScheduleInv ==
  ASSUME RentalInv, NEW r \in Request, ReadSchedule(r) PROVE RentalInv'
<1>1. /\ Inner(Mine(r), Window(r)) \subseteq events /\ Outer(Mine(r), Window(r)) \subseteq events
      /\ Left(Mine(r), Window(r)) \subseteq events /\ Right(Mine(r), Window(r)) \subseteq events
  BY DEF Inner, Outer, Left, Right, Mine, OfProduct
<1> QED BY <1>1, ReadInv DEF ReadSchedule, QueryStages, Class

LEMMA ReturnInv ==
  ASSUME RentalInv, NEW r \in Request, Return(r) PROVE RentalInv'
<1> USE DEF RentalInv, Return, At, Goto, rowVars
<1>1. TypeOK'  BY DEF TypeOK, Stage, Task
<1>2. CallFits(r)'
  BY DEF CallFits, TypeOK, OrderStages, DateStages, QueryStages, Asked
<1> QED BY <1>1, <1>2, StepInv DEF TypeOK

LEMMA RemoveItemInv ==
  ASSUME RentalInv, NEW i \in Item, RemoveItem(i) PROVE RentalInv'
<1> USE DEF RentalInv, RemoveItem, copyVars
<1>1. TypeOK'  BY DEF TypeOK, OfItems, Active
<1>2. RowsAsked'  BY DEF RowsAsked, Asked
<1>3. \A q \in Request : CallFits(q)'  BY OthersFit
<1> QED BY <1>1, <1>2, <1>3

LEMMA StutterInv == ASSUME RentalInv, UNCHANGED vars PROVE RentalInv'
BY DEF RentalInv, vars, rowVars, copyVars, ghostVars, TypeOK, RowsAsked, CallFits, Asked, Window

LEMMA NextInv == ASSUME RentalAssumption, RentalInv, [Next]_vars PROVE RentalInv'
<1>1. ASSUME NEW r \in Request, Step(r) PROVE RentalInv'
  <2>1. CASE \E i \in Item : BlockProducts(r, i)
    BY <2>1, BlockProductsInv
  <2>2. CASE \E e \in held[r] : Trim(r, e) \/ SaveHead(r, e)
    BY <2>2, TrimInv, SaveHeadInv
  <2>3. CASE \E e \in outer[r] : SaveTail(r, e) \/ DropOuter(r, e)
    BY <2>3, SaveTailInv, DropOuterInv
  <2>4. CASE ReleaseProducts(r) \/ ReleaseFuture(r) \/ ReadCrossing(r)
    BY <2>4, ReleaseProductsInv, ReleaseFutureInv, ReadCrossingInv
  <2>5. CASE ReleaseInner(r) \/ ReadOuters(r) \/ ReadLefts(r) \/ ReadRights(r)
    BY <2>5, ReleaseInnerInv, ReadOutersInv, ReadLeftsInv, ReadRightsInv
  <2>6. CASE SaveLefts(r) \/ SaveRights(r) \/ ReadSchedule(r) \/ Return(r)
    BY <2>6, SaveLeftsInv, SaveRightsInv, ReadScheduleInv, ReturnInv
  <2> QED BY <1>1, <2>1, <2>2, <2>3, <2>4, <2>5, <2>6 DEF Step
<1> QED BY <1>1, OpenInv, RemoveItemInv, StutterInv DEF Next

LEMMA InvHolds == Spec => []RentalInv
<1>1. RentalInv /\ [Next]_vars => RentalInv'  BY RentalAssumption, NextInv
<1> QED BY <1>1, RentalAssumption, InitInv, PTL DEF Spec

(* The rows keep their foreign key to an existing item, and every call keeps *)
(* its arguments and copies in their types, however many calls interleave.   *)
THEOREM RentalTypeCorrect == Spec => []TypeOK
BY InvHolds, PTL DEF RentalInv

(* No interleaving of splits, cuts, trims, blocks and removals ever blocks a *)
(* product at a time, or with a status, that no order has asked for.         *)
THEOREM NothingInventedCorrect == Spec => []NothingInvented
<1>1. RentalInv => NothingInvented
  BY DEF RentalInv, TypeOK, RowsAsked, Asked, NothingInvented, Slots, Slot
<1> QED BY <1>1, InvHolds, PTL
------------------------------------------------------------------------------
(* The rows' primary key: saves of copies, however old, keep it, because a      *)
(* save that creates rows issues numbers nobody has.                            *)
Keyed(E) == \A e, f \in E : e.id = f.id => e = f
Issued(E) == \A e \in E : e.id[1] <= batch

KeyInv ==
  /\ Keyed(events) /\ Issued(events)
  /\ \A r \in Request : /\ Keyed(held[r]) /\ Keyed(rights[r])
                        /\ Issued(held[r] \cup rights[r] \cup outer[r])

------------------------------------------------------------------------------
(* What a call that nothing runs beside has done when it is at a stage.  Only   *)
(* its own steps write then, so what it has read is still so.                   *)
Running(r) == pc[r] \notin {"new", "done", "failed"}
Calm(r) == Running(r) /\ r \notin disturbed

Kept(r, s) == ProductOf[s[1]] # task[r].product \/ s[3] < Window(r)[1] \/ Window(r)[2] <= s[3]
Part(f, e, from, to) ==
  f.item = e.item /\ f.status = e.status /\ f.start = from /\ f.end = to

(* releaseProductByDates: nothing outside the period is lost, and step by step  *)
(* the rows inside it, those around it and those that reach into it give it up. *)
DatesDone(r) ==
  LET a == Window(r)[1]
      b == Window(r)[2]
  IN
  /\ Slots(events) \subseteq before[r]
  /\ \A s \in before[r] : Kept(r, s) => s \in Slots(events)
  /\ pc[r] # "inner" => Inner(Mine(r), Window(r)) = {}
  /\ pc[r] \in {"split", "tail", "drop"} =>
       /\ held[r] \cup outer[r] \subseteq Mine(r) /\ held[r] \cap outer[r] = {}
       /\ Outer(Mine(r), Window(r)) \subseteq held[r] \cup outer[r]
  /\ pc[r] = "split" => outer[r] = {}
  /\ pc[r] \in {"tail", "drop"} => \E e \in outer[r] : outer[r] = {e}
  /\ pc[r] \in {"tail", "drop"} =>
       \A e \in outer[r] : \E f \in events : Part(f, e, e.start, a)
  /\ pc[r] = "drop" => \A e \in outer[r] : \E f \in events : Part(f, e, b, e.end)
  /\ pc[r] \in {"rights", "saveLefts"} =>
       held[r] = Left(Mine(r), Window(r)) /\ Outer(Mine(r), Window(r)) = {}
  /\ pc[r] \in {"saveLefts", "saveRights"} => rights[r] = Right(Mine(r), Window(r))
  /\ pc[r] = "saveRights" => \A e \in Mine(r) : e.start < b /\ e.end > a => e \in rights[r]
  /\ pc[r] = "end" => \A e \in Mine(r) : e.end <= a \/ e.start >= b

Times(E) == {<<e.start, e.end>> : e \in E}

(* processOrder, of an order that is not returned: its items lose their rows    *)
(* and get the new ones, one item after the other.                              *)
OrderDone(r) ==
  /\ \A s \in Slot : s[1] \notin task[r].items => (s \in Slots(events) <=> s \in before[r])
  /\ pc[r] = "release" => todo[r] = task[r].items
  /\ pc[r] = "block" =>
       /\ task[r].kind \in Blocking /\ todo[r] \subseteq task[r].items
       /\ \A e \in events : e.item \notin todo[r]
       /\ \A e \in OfItems(task[r].items) : e.status = ScheduleStatus(task[r].kind)
       /\ \A i \in task[r].items \ todo[r] : Times(OfItems({i})) = task[r].periods
  /\ pc[r] = "end" => task[r].kind \notin Blocking /\ OfItems(task[r].items) = {}

(* processOrder, of an order that is returned. *)
ReturnDone(r) ==
  /\ \A s \in Slot : s[1] \in task[r].items /\ s[3] < task[r].date
                       => (s \in Slots(events) <=> s \in before[r])
  /\ pc[r] \in {"cut", "trim"} => \A e \in OfItems(task[r].items) : e.start <= task[r].date
  /\ pc[r] = "trim" =>
       /\ held[r] \subseteq OfItems(task[r].items)
       /\ Crossing(OfItems(task[r].items), task[r].date) \subseteq held[r]

(* buildSchedule: the queries made so far. *)
QueryDone(r) ==
  found[r] =
    UNION {IF pc[r] = "readInner" THEN {} ELSE {"inner"} \X Inner(Mine(r), Window(r)),
           IF pc[r] \in {"readInner", "readOuter"} THEN {} ELSE {"outer"} \X Outer(Mine(r), Window(r)),
           IF pc[r] \in {"readInner", "readOuter", "readLefts"} THEN {}
             ELSE {"left"} \X Left(Mine(r), Window(r)),
           IF pc[r] = "end" THEN {"right"} \X Right(Mine(r), Window(r)) ELSE {}}

KindFits(r) ==
  /\ pc[r] \in DateStages => task[r].kind = "dates"
  /\ pc[r] \in QueryStages => task[r].kind = "query"
  /\ pc[r] \in {"release", "block"} => task[r].kind \in OrderStatus \ Returning
  /\ pc[r] \in {"future", "cut", "trim"} => task[r].kind \in Returning
  /\ pc[r] = "end" => task[r] \in WindowTask \cup {t \in OrderTask : t.kind \notin Returning}
  /\ pc[r] = "new" => found[r] = {}

Done(r) ==
  /\ task[r].kind = "dates" => DatesDone(r)
  /\ task[r].kind = "query" => QueryDone(r)
  /\ task[r].kind \in OrderStatus \ Returning => OrderDone(r)
  /\ task[r].kind \in Returning => ReturnDone(r)

CalmInv ==
  /\ \A r \in Request : KindFits(r)
  /\ \A r \in Request : Calm(r) => Active = {r} /\ Done(r)

------------------------------------------------------------------------------
(* While no two calls have ever run side by side the rows of an item lie apart, *)
(* except while splitOuterEvent has saved a part of a row and not yet removed   *)
(* the row.                                                                     *)
ApartInv ==
  disturbed = {} =>
    /\ (\A r \in Request : pc[r] \notin {"tail", "drop"}) => Disjoint(events)
    /\ \A r \in Request : pc[r] \in {"tail", "drop"} => Disjoint(events \ outer[r])
    /\ \A r \in Request : pc[r] = "tail" =>
         \A e \in outer[r], f \in events \ outer[r] :
           f.item = e.item => Apart(e, f) \/ f.end <= Window(r)[1]
------------------------------------------------------------------------------
(* The primary key. *)

LEMMA KeyStep ==
  ASSUME RentalInv, KeyInv, NEW E \in SUBSET Event, Keyed(E), \A e \in E : e.id[1] <= batch',
         batch' \in Nat, batch <= batch', events' \subseteq Save(E),
         \A q \in Request :
           /\ held'[q] \subseteq held[q] \/ held'[q] \subseteq events
           /\ rights'[q] \subseteq rights[q] \/ rights'[q] \subseteq events
           /\ outer'[q] \subseteq outer[q] \cup held[q]
  PROVE  KeyInv'
<1>1. /\ batch \in Nat /\ \A e \in Event : e.id[1] \in Nat
      /\ events \subseteq Event
      /\ \A q \in Request : held[q] \subseteq Event /\ rights[q] \subseteq Event /\ outer[q] \subseteq Event
  BY DEF RentalInv, TypeOK, Event, Id
<1>2. Keyed(events)'
  BY DEF KeyInv, Keyed, Save
<1>3. Issued(events)'
  BY <1>1 DEF KeyInv, Issued, Save
<1>4. ASSUME NEW q \in Request
      PROVE  Keyed(held[q])' /\ Keyed(rights[q])' /\ Issued(held[q] \cup rights[q] \cup outer[q])'
  <2>0. /\ held'[q] \subseteq held[q] \/ held'[q] \subseteq events
        /\ rights'[q] \subseteq rights[q] \/ rights'[q] \subseteq events
        /\ outer'[q] \subseteq outer[q] \cup held[q]
    OBVIOUS
  <2>a. Keyed(held[q]) /\ Keyed(rights[q]) /\ Keyed(events)
    BY DEF KeyInv
  <2>1. Keyed(held[q])'  BY <2>0, <2>a DEF Keyed
  <2>2. Keyed(rights[q])'  BY <2>0, <2>a DEF Keyed
  <2>3. \A e \in held[q] \cup rights[q] \cup outer[q] \cup events : e.id[1] <= batch'
    BY <1>1 DEF KeyInv, Issued
  <2>4. held'[q] \cup rights'[q] \cup outer'[q] \subseteq held[q] \cup rights[q] \cup outer[q] \cup events
    BY <2>0
  <2> QED BY <2>1, <2>2, <2>3, <2>4 DEF Issued
<1> QED BY <1>2, <1>3, <1>4 DEF KeyInv

LEMMA KeyReads ==
  ASSUME RentalInv, KeyInv, events' \subseteq events, batch' = batch,
         \A q \in Request :
           /\ held'[q] \subseteq held[q] \/ held'[q] \subseteq events
           /\ rights'[q] \subseteq rights[q] \/ rights'[q] \subseteq events
           /\ outer'[q] \subseteq outer[q] \cup held[q]
  PROVE  KeyInv'
<1>1. Save({}) = events  BY DEF Save
<1>2. Keyed({})  BY DEF Keyed
<1>3. batch \in Nat  BY DEF RentalInv, TypeOK
<1> QED BY <1>1, <1>2, <1>3, KeyStep

LEMMA KeyNext ==
  ASSUME RentalAssumption, RentalInv, KeyInv, [Next]_vars PROVE KeyInv'
<1>0. /\ held \in [Request -> SUBSET Event] /\ rights \in [Request -> SUBSET Event]
      /\ outer \in [Request -> SUBSET Event] /\ batch \in Nat /\ events \subseteq Event
  BY DEF RentalInv, TypeOK
<1>1. ASSUME UNCHANGED <<events, batch, held, rights, outer>> PROVE KeyInv'
  BY <1>1, KeyReads
<1>2. ASSUME NEW r \in Request, Step(r) PROVE KeyInv'
  <2>1. CASE \/ ReleaseProducts(r) \/ ReleaseFuture(r) \/ ReleaseInner(r)
             \/ \E e \in outer[r] : DropOuter(r, e)
    BY <1>0, <2>1, KeyReads DEF ReleaseProducts, ReleaseFuture, ReleaseInner, DropOuter, copyVars
  <2>2. CASE ReadCrossing(r) \/ ReadOuters(r) \/ ReadLefts(r) \/ ReadRights(r)
    BY <1>0, <2>2, KeyReads DEF ReadCrossing, ReadOuters, ReadLefts, ReadRights, Crossing, OfItems,
       Outer, Left, Right, Mine, OfProduct, rowVars
  <2>3. ASSUME NEW i \in Item, BlockProducts(r, i) PROVE KeyInv'
    <3> DEFINE st == ScheduleStatus(task[r].kind)
               Row(p) == [id |-> 0, item |-> i, start |-> p[1], end |-> p[2], status |-> st]
               New == {Fresh(Row(p)) : p \in task[r].periods}
    <3>6. Write(r, New, "block") /\ batch' = batch + 1 /\ UNCHANGED <<held, rights, outer>>
      BY <2>3 DEF BlockProducts
    <3>1. task[r].periods \subseteq Period /\ st \in {"reserved", "rented"}
      BY <2>3 DEF BlockProducts, At, RentalInv, CallFits, OrderStages, OrderTask, ScheduleStatus
    <3>2. ASSUME NEW p \in Period
          PROVE  /\ Fresh(Row(p)) = [id |-> <<batch + 1, <<p[1], p[2]>>>>, item |-> i,
                                     start |-> p[1], end |-> p[2], status |-> st]
                 /\ p = <<p[1], p[2]>>
      BY DEF Fresh, Period
    <3> HIDE DEF st, Row
    <3>3. ASSUME NEW p \in Period
          PROVE  Fresh(Row(p)) \in Event /\ Fresh(Row(p)).id[1] = batch + 1
      <4>1. p[1] \in Time /\ p[2] \in Time /\ batch + 1 \in Nat
        BY <1>0, PeriodEnds
      <4> QED BY <3>1, <3>2, <4>1 DEF Event, Id
    <3>4. New \subseteq Event /\ \A e \in New : e.id[1] <= batch + 1
      BY <1>0, <3>1, <3>3
    <3>5. Keyed(New)
      BY <3>1, <3>2 DEF Keyed
    <3>7. events' \subseteq Save(New) \/ events' = events
      BY <3>6 DEF Write
    <3> HIDE DEF New
    <3>8. CASE events' \subseteq Save(New)
      BY <1>0, <3>4, <3>5, <3>6, <3>8, KeyStep
    <3>9. CASE events' = events
      <4>1. Save({}) = events /\ Keyed({})  BY DEF Save, Keyed
      <4> QED BY <1>0, <3>6, <3>9, <4>1, KeyStep
    <3> QED BY <3>7, <3>8, <3>9
  <2>4. ASSUME NEW e \in held[r], Trim(r, e) PROVE KeyInv'
    <3> DEFINE f == Trimmed(e, task[r].date)
    <3>1. e \in Event /\ task[r].date \in Time
      BY <1>0, <2>4 DEF Trim, At, RentalInv, CallFits, OrderStages, OrderTask
    <3>2. f \in Event /\ f.id = e.id  BY <3>1, TrimmedFacts DEF Trimmed, Event
    <3>3. {f} \in SUBSET Event /\ Keyed({f}) /\ \A x \in {f} : x.id[1] <= batch
      BY <3>2 DEF KeyInv, Issued, Keyed
    <3>4. Save({}) = events /\ Keyed({})  BY DEF Save, Keyed
    <3>5. /\ Write(r, {f}, "trim") /\ held' = [held EXCEPT ![r] = Rest(@, e)]
          /\ UNCHANGED <<batch, rights, outer>>
      BY <2>4 DEF Trim
    <3> HIDE DEF f
    <3>6. events' = Save({f}) \/ events' = events
      BY <3>5 DEF Write
    <3>7. \A q \in Request : held'[q] \subseteq held[q]  BY <1>0, <3>5 DEF Rest
    <3>8. CASE events' = Save({f})
      <4>1. batch' \in Nat /\ batch <= batch' /\ batch' = batch  BY <1>0, <3>5
      <4>2. \A q \in Request : held'[q] \subseteq held[q] /\ rights'[q] \subseteq rights[q]
                               /\ outer'[q] \subseteq outer[q] \cup held[q]
        BY <3>5, <3>7
      <4>3. \A x \in {f} : x.id[1] <= batch'  BY <3>3, <4>1
      <4> QED BY <3>3, <3>8, <4>1, <4>2, <4>3, KeyStep
    <3>9. CASE events' = events
      BY <1>0, <3>5, <3>7, <3>9, KeyReads
    <3> QED BY <3>6, <3>8, <3>9
  <2>5. ASSUME NEW e \in Event, NEW a \in Time, NEW b \in Time, NEW stage,
               Write(r, {Fresh(Piece(e, a, b))}, stage), batch' = batch + 1,
               UNCHANGED rights, \A q \in Request : held'[q] \subseteq held[q],
               \A q \in Request : outer'[q] \subseteq outer[q] \cup held[q]
        PROVE  KeyInv'
    <3> DEFINE f == Fresh(Piece(e, a, b))
    <3>1. f \in Event  BY <1>0, PieceFacts
    <3>2. f.id = <<batch + 1, <<a, b>>>>
      BY <1>0 DEF Fresh, Piece
    <3>3. {f} \in SUBSET Event /\ Keyed({f}) /\ \A x \in {f} : x.id[1] <= batch'
      BY <1>0, <2>5, <3>1, <3>2 DEF Keyed
    <3>4. Save({}) = events /\ Keyed({})  BY DEF Save, Keyed
    <3>5. events' = Save({f}) \/ events' = events
      BY <2>5 DEF Write
    <3> HIDE DEF f
    <3>6. CASE events' = Save({f})
      <4>1. batch' \in Nat /\ batch <= batch'  BY <1>0, <2>5
      <4>2. \A q \in Request : held'[q] \subseteq held[q] /\ rights'[q] \subseteq rights[q]
                               /\ outer'[q] \subseteq outer[q] \cup held[q]
        BY <2>5
      <4> QED BY <3>3, <3>6, <4>1, <4>2, KeyStep
    <3>7. CASE events' = events
      BY <1>0, <2>5, <3>4, <3>7, KeyStep
    <3> QED BY <3>5, <3>6, <3>7
  <2>6. ASSUME NEW e \in held[r], SaveHead(r, e) PROVE KeyInv'
    <3>1. e \in Event /\ e.start \in Time /\ Window(r)[1] \in Time
      BY <1>0, <2>6, RowTypes, WindowEnds DEF SaveHead, At, DateStages
    <3>2. /\ UNCHANGED rights /\ \A q \in Request : held'[q] \subseteq held[q]
          /\ \A q \in Request : outer'[q] \subseteq outer[q] \cup held[q]
      BY <1>0, <2>6 DEF SaveHead, Rest
    <3> QED BY <2>5, <2>6, <3>1, <3>2 DEF SaveHead
  <2>7. ASSUME NEW e \in outer[r], SaveTail(r, e) PROVE KeyInv'
    <3>1. e \in Event /\ e.end \in Time /\ Window(r)[2] \in Time
      BY <1>0, <2>7, RowTypes, WindowEnds DEF SaveTail, At, DateStages
    <3> QED BY <2>5, <2>7, <3>1 DEF SaveTail, copyVars
  <2>8. ASSUME NEW S \in SUBSET Event, Keyed(S), Issued(S), NEW a \in [S -> Time],
               NEW b \in [S -> Time], NEW stage,
               Write(r, {Clip(e, a[e], b[e]) : e \in S}, stage), UNCHANGED <<batch, outer>>,
               \A q \in Request : held'[q] \subseteq held[q] /\ rights'[q] \subseteq rights[q]
        PROVE  KeyInv'
    <3> DEFINE E == {Clip(e, a[e], b[e]) : e \in S}
    <3>1. ASSUME NEW e \in S PROVE Clip(e, a[e], b[e]) \in Event /\ Clip(e, a[e], b[e]).id = e.id
      <4>1. Clip(e, a[e], b[e]).id = e.id  BY DEF Clip, Event
      <4> QED BY <4>1, ClipFacts DEF RentalAssumption
    <3>2. E \subseteq Event /\ Keyed(E) /\ \A e \in E : e.id[1] <= batch
      BY <2>8, <3>1 DEF Keyed, Issued
    <3>3. events' = Save(E) \/ events' = events
      BY <2>8 DEF Write
    <3> HIDE DEF E
    <3>4. CASE events' = Save(E)
      BY <1>0, <2>8, <3>2, <3>4, KeyStep
    <3>5. CASE events' = events
      BY <1>0, <2>8, <3>5, KeyReads
    <3> QED BY <3>3, <3>4, <3>5
  <2>9. CASE SaveLefts(r)
    <3>1. held[r] \in SUBSET Event /\ Window(r)[1] \in Time /\ Keyed(held[r]) /\ Issued(held[r])
      BY <1>0, <2>9, WindowEnds DEF SaveLefts, At, DateStages, KeyInv, Issued
    <3> DEFINE a == [e \in held[r] |-> e.start]
               b == [e \in held[r] |-> Window(r)[1]]
    <3>2. a \in [held[r] -> Time] /\ b \in [held[r] -> Time]  BY <3>1, RowTypes
    <3>3. {Clip(e, a[e], b[e]) : e \in held[r]} = {Clip(e, e.start, Window(r)[1]) : e \in held[r]}
      <4>1. \A e \in held[r] : Clip(e, a[e], b[e]) = Clip(e, e.start, Window(r)[1])  OBVIOUS
      <4> HIDE DEF a, b
      <4> QED BY <4>1
    <3>4. /\ Write(r, {Clip(e, a[e], b[e]) : e \in held[r]}, "saveRights") /\ UNCHANGED <<batch, outer>>
          /\ \A q \in Request : held'[q] \subseteq held[q] /\ rights'[q] \subseteq rights[q]
      BY <1>0, <2>9, <3>3 DEF SaveLefts
    <3> HIDE DEF a, b
    <3> QED BY <2>8, <3>1, <3>2, <3>4
  <2>10. CASE SaveRights(r)
    <3>1. rights[r] \in SUBSET Event /\ Window(r)[2] \in Time /\ Keyed(rights[r]) /\ Issued(rights[r])
      BY <1>0, <2>10, WindowEnds DEF SaveRights, At, DateStages, KeyInv, Issued
    <3> DEFINE a == [e \in rights[r] |-> Window(r)[2]]
               b == [e \in rights[r] |-> e.end]
    <3>2. a \in [rights[r] -> Time] /\ b \in [rights[r] -> Time]  BY <3>1, RowTypes
    <3>3. {Clip(e, a[e], b[e]) : e \in rights[r]} = {Clip(e, Window(r)[2], e.end) : e \in rights[r]}
      <4>1. \A e \in rights[r] : Clip(e, a[e], b[e]) = Clip(e, Window(r)[2], e.end)  OBVIOUS
      <4> HIDE DEF a, b
      <4> QED BY <4>1
    <3>4. /\ Write(r, {Clip(e, a[e], b[e]) : e \in rights[r]}, "end") /\ UNCHANGED <<batch, outer>>
          /\ \A q \in Request : held'[q] \subseteq held[q] /\ rights'[q] \subseteq rights[q]
      BY <1>0, <2>10, <3>3 DEF SaveRights
    <3> HIDE DEF a, b
    <3> QED BY <2>8, <3>1, <3>2, <3>4
  <2>11. CASE ReadSchedule(r) \/ Return(r)
    BY <1>1, <2>11 DEF ReadSchedule, Read, Return, rowVars
  <2> QED
    BY <1>2, <2>1, <2>2, <2>3, <2>4, <2>6, <2>7, <2>9, <2>10, <2>11 DEF Step
<1>3. ASSUME NEW r \in Request, Open(r) PROVE KeyInv'
  BY <1>1, <1>3 DEF Open, ProcessOrder, ReleaseProductByDates, BuildSchedule, rowVars, copyVars
<1>4. ASSUME NEW i \in Item, RemoveItem(i) PROVE KeyInv'
  BY <1>4, KeyReads DEF RemoveItem, copyVars
<1>5. CASE UNCHANGED vars
  BY <1>1, <1>5 DEF vars, rowVars, copyVars
<1> QED BY <1>2, <1>3, <1>4, <1>5 DEF Next

------------------------------------------------------------------------------
(* A calm call goes on alone: what disturbs it is the beginning of another call *)
(* or the removal of an item.                                                   *)

LEMMA CalmStep ==
  ASSUME RentalInv, CalmInv, NEW r \in Request, Running(r), disturbed' = disturbed,
         \A q \in Request \ {r} : pc'[q] = pc[q] /\ task'[q] = task[q] /\ found'[q] = found[q],
         KindFits(r)', Calm(r) /\ Running(r)' => Done(r)'
  PROVE  CalmInv'
<1>1. \A q \in Request : KindFits(q)'
  BY DEF CalmInv, KindFits
<1>2. ASSUME NEW q \in Request, Calm(q)' PROVE Active' = {q} /\ Done(q)'
  <2>1. Calm(q)
    BY <1>2 DEF Calm, Running
  <2>2. q = r
    BY <2>1 DEF CalmInv, Active, Running
  <2>3. Active' = {r}
    BY <1>2, <2>1, <2>2 DEF CalmInv, Active, Calm, Running
  <2> QED BY <1>2, <2>1, <2>2, <2>3 DEF Calm
<1> QED BY <1>1, <1>2 DEF CalmInv

LEMMA CalmOpen ==
  ASSUME RentalAssumption, RentalInv, CalmInv, NEW r \in Request, Open(r) PROVE CalmInv'
<1>1. PICK t, stage : Begin(r, t, stage)
  BY DEF Open, ProcessOrder, ReleaseProductByDates, BuildSchedule
<1>2. /\ pc[r] = "new" /\ pc' = [pc EXCEPT ![r] = stage] /\ task' = [task EXCEPT ![r] = t]
      /\ before'[r] = Slots(events) /\ pc \in [Request -> Stage] /\ task \in [Request -> Task]
      /\ disturbed' = IF Active = {} THEN disturbed ELSE disturbed \cup Active \cup {r}
  BY <1>1 DEF Begin, At, Goto, RentalInv, TypeOK
<1>3. UNCHANGED <<events, found>> /\ found[r] = {}
  BY <1>2 DEF Open, ProcessOrder, ReleaseProductByDates, BuildSchedule, rowVars, copyVars, CalmInv, KindFits
<1>4. KindFits(r)' /\ Done(r)'
  <2>1. ASSUME NEW st \in Statuses, NEW I \in ItemSets, NEW P \in PeriodSets, ProcessOrder(r, st, I, P)
        PROVE  KindFits(r)' /\ Done(r)'
    <3>1. /\ task'[r].kind = st /\ task'[r].items = I /\ st \in OrderStatus
          /\ pc'[r] = IF st \in Returning THEN "future" ELSE "release"
      BY <1>2, <2>1 DEF ProcessOrder, Begin, Goto, RentalAssumption
    <3>2. KindFits(r)'
      BY <3>1 DEF KindFits, DateStages, QueryStages
    <3>3. todo'[r] = task'[r].items
      BY <2>1, <3>1 DEF ProcessOrder, RentalInv, TypeOK
    <3>4. Done(r)'
      BY <1>2, <1>3, <3>1, <3>3 DEF Done, OrderDone, ReturnDone, OrderStatus, Slots
    <3> QED BY <3>2, <3>4
  <2>2. ASSUME NEW x \in Product, NEW p \in Windows, ReleaseProductByDates(r, x, p)
        PROVE  KindFits(r)' /\ Done(r)'
    <3>1. task'[r].kind = "dates" /\ pc'[r] = "inner"
      BY <1>2, <2>2 DEF ReleaseProductByDates, Begin, Goto
    <3>2. KindFits(r)'
      BY <3>1 DEF KindFits, DateStages, QueryStages
    <3>3. Done(r)'
      BY <1>2, <1>3, <3>1 DEF Done, DatesDone, OrderStatus, Returning, Slots
    <3> QED BY <3>2, <3>3
  <2>3. ASSUME NEW x \in Product, NEW p \in Windows, BuildSchedule(r, x, p)
        PROVE  KindFits(r)' /\ Done(r)'
    <3>1. task'[r].kind = "query" /\ pc'[r] = "readInner"
      BY <1>2, <2>3 DEF BuildSchedule, Begin, Goto
    <3>2. KindFits(r)'
      BY <3>1 DEF KindFits, DateStages, QueryStages
    <3>3. Done(r)'
      BY <1>2, <1>3, <3>1 DEF Done, QueryDone, OrderStatus, Returning
    <3> QED BY <3>2, <3>3
  <2> QED BY <2>1, <2>2, <2>3 DEF Open
<1>5. \A q \in Request : KindFits(q)'
  BY <1>2, <1>3, <1>4 DEF CalmInv, KindFits
<1>6. ASSUME NEW q \in Request, Calm(q)' PROVE q = r /\ Active' = {q}
  <2>1. ASSUME NEW p \in Active PROVE FALSE
    BY <1>2, <1>6, <2>1 DEF Calm, Running, Active
  <2> QED BY <1>2, <1>6, <2>1 DEF Active, Calm, Running
<1> QED BY <1>4, <1>5, <1>6 DEF CalmInv

LEMMA CalmRemove ==
  ASSUME RentalInv, CalmInv, NEW i \in Item, RemoveItem(i) PROVE CalmInv'
<1>1. UNCHANGED <<pc, task, found>> /\ disturbed' = disturbed \cup Active
  BY DEF RemoveItem, copyVars
<1>2. \A q \in Request : ~Calm(q)'
  BY <1>1 DEF Calm, Running, Active
<1>3. \A q \in Request : KindFits(q)'
  BY <1>1 DEF CalmInv, KindFits
<1> QED BY <1>2, <1>3 DEF CalmInv

LEMMA CalmStutter == ASSUME CalmInv, UNCHANGED vars PROVE CalmInv'
<1> USE DEF vars, rowVars, copyVars, ghostVars
<1>1. \A q \in Request : KindFits(q)' /\ (Calm(q)' => Calm(q)) /\ Active' = Active
  BY DEF CalmInv, KindFits, Calm, Running, Active
<1>2. ASSUME NEW q \in Request, Done(q) PROVE Done(q)'
  <2>1. DatesDone(q) => DatesDone(q)'
    BY DEF DatesDone, Kept, Window, Mine, OfProduct, Part, Slots
  <2>2. OrderDone(q) => OrderDone(q)'
    BY DEF OrderDone, OfItems, Times, Slots
  <2>3. ReturnDone(q) => ReturnDone(q)'
    BY DEF ReturnDone, OfItems, Slots
  <2>4. QueryDone(q) => QueryDone(q)'
    BY DEF QueryDone, Window, Mine, OfProduct
  <2> QED BY <1>2, <2>1, <2>2, <2>3, <2>4 DEF Done
<1> QED BY <1>1, <1>2 DEF CalmInv

------------------------------------------------------------------------------
(* What the writes of a calm call do to the rows. *)

LEMMA SaveFresh ==
  ASSUME RentalInv, KeyInv, NEW E, \A e \in E : e.id[1] = batch + 1 PROVE Save(E) = events \cup E
<1>1. \A e \in events : e.id[1] \in Nat /\ e.id[1] <= batch
  BY DEF KeyInv, Issued, RentalInv, TypeOK, Event, Id
<1>2. batch \in Nat  BY DEF RentalInv, TypeOK
<1> QED BY <1>1, <1>2 DEF Save

LEMMA SaveCopies ==
  ASSUME KeyInv, NEW S \in SUBSET events, NEW E,
         \A e \in S : \E x \in E : x.id = e.id, \A x \in E : \E e \in S : x.id = e.id
  PROVE  Save(E) = (events \ S) \cup E
BY DEF Save, KeyInv, Keyed

LEMMA ClipLeft ==
  ASSUME MaxTime \in Nat, NEW e \in Event, NEW a \in Time, e.end >= a
  PROVE  /\ Clip(e, e.start, a).id = e.id /\ Clip(e, e.start, a).item = e.item
         /\ Clip(e, e.start, a).status = e.status
         /\ Clip(e, e.start, a).start = e.start /\ Clip(e, e.start, a).end = a
<1>1. e.start \in Int /\ e.end \in Int /\ a \in Int  BY DEF Event, Time
<1>2. (IF e.start < e.start THEN e.start ELSE e.start) = e.start
      /\ (IF e.end > a THEN a ELSE e.end) = a
  BY <1>1
<1>3. Clip(e, e.start, a) = [e EXCEPT !.start = e.start, !.end = a]  BY <1>2 DEF Clip
<1> QED BY <1>3 DEF Event

LEMMA ClipRight ==
  ASSUME MaxTime \in Nat, NEW e \in Event, NEW b \in Time, e.start <= b
  PROVE  /\ Clip(e, b, e.end).id = e.id /\ Clip(e, b, e.end).item = e.item
         /\ Clip(e, b, e.end).status = e.status
         /\ Clip(e, b, e.end).start = b /\ Clip(e, b, e.end).end = e.end
<1>1. e.start \in Int /\ e.end \in Int /\ b \in Int  BY DEF Event, Time
<1>2. (IF e.start < b THEN b ELSE e.start) = b
      /\ (IF e.end > e.end THEN e.end ELSE e.end) = e.end
  BY <1>1
<1>3. Clip(e, b, e.end) = [e EXCEPT !.start = b, !.end = e.end]  BY <1>2 DEF Clip
<1> QED BY <1>3 DEF Event

(* The numbers in the rows of a product and in a period. *)
LEMMA DatesFacts ==
  ASSUME RentalAssumption, RentalInv, NEW r \in Request, pc[r] \in DateStages \cup QueryStages
  PROVE  /\ Window(r) \in Period /\ Window(r)[1] \in Int /\ Window(r)[2] \in Int
         /\ Window(r)[1] <= Window(r)[2] /\ Mine(r) \subseteq events /\ events \subseteq Event
         /\ \A e \in events : e.start \in Int /\ e.end \in Int /\ e \in Event
         /\ \A s \in Slot : s[3] \in Int
         /\ MaxTime \in Nat
<1>1. Window(r) \in Period /\ MaxTime \in Nat /\ events \subseteq Event
  BY WindowEnds DEF RentalAssumption, RentalInv, TypeOK
<1> QED BY <1>1, PeriodEnds DEF Mine, OfProduct, Time, Event, Slot

------------------------------------------------------------------------------
(* releaseProductByDates, run alone. *)

(* The rows a calm call reaches by its steps: everything else stays. *)
LEMMA DatesStep ==
  ASSUME RentalInv, CalmInv, NEW r \in Request, pc[r] \in DateStages, disturbed' = disturbed,
         UNCHANGED <<task, found>>, \A q \in Request \ {r} : pc'[q] = pc[q],
         pc'[r] \in DateStages \cup {"end", "failed"},
         Calm(r) /\ DatesDone(r) /\ pc'[r] # "failed" => DatesDone(r)'
  PROVE  CalmInv'
<1>1. task[r].kind = "dates" /\ task[r] \in WindowTask
  BY DEF CalmInv, KindFits, RentalInv, CallFits
<1>2. KindFits(r)'
  BY <1>1 DEF KindFits, DateStages, QueryStages
<1>3. Running(r)  BY DEF Running, DateStages
<1>4. Calm(r) /\ Running(r)' => Done(r)'
  BY <1>1 DEF Done, CalmInv, Running, OrderStatus, Returning
<1> QED BY <1>2, <1>3, <1>4, CalmStep

LEMMA CalmReleaseInner ==
  ASSUME RentalAssumption, RentalInv, CalmInv, NEW r \in Request, ReleaseInner(r) PROVE CalmInv'
<1>1. /\ pc[r] = "inner" /\ pc' = [pc EXCEPT ![r] = "outer"] /\ pc'[r] = "outer"
      /\ events' = events \ Inner(Mine(r), Window(r))
      /\ UNCHANGED <<task, found, before, disturbed>> /\ Window(r)' = Window(r)
  BY DEF ReleaseInner, At, Goto, copyVars, ghostVars, RentalInv, TypeOK, Window
<1>2. pc[r] \in DateStages /\ pc'[r] \in DateStages
  BY <1>1 DEF DateStages
<1>3. ASSUME DatesDone(r) PROVE DatesDone(r)'
  <2>1. Mine(r)' = Mine(r) \ Inner(Mine(r), Window(r))
    BY <1>1 DEF Mine, OfProduct
  <2>2. Inner(Mine(r), Window(r))' = {}
    BY <1>1, <2>1 DEF Inner
  <2>3. Slots(events)' \subseteq before'[r]
    BY <1>1, <1>3 DEF DatesDone, Slots
  <2>4. ASSUME NEW s \in before[r], Kept(r, s) PROVE s \in Slots(events')
    <3>1. s \in Slot /\ \E e \in events : e.item = s[1] /\ e.status = s[2] /\ e.start <= s[3] /\ s[3] < e.end
      BY <1>3, <2>4 DEF DatesDone, Slots
    <3>2. PICK e \in events : e.item = s[1] /\ e.status = s[2] /\ e.start <= s[3] /\ s[3] < e.end
      BY <3>1
    <3>3. e \notin Inner(Mine(r), Window(r))
      BY <1>2, <2>4, <3>1, <3>2, DatesFacts DEF Kept, Inner, Mine, OfProduct
    <3> QED BY <1>1, <3>1, <3>2, <3>3 DEF Slots
  <2> QED BY <1>1, <2>2, <2>3, <2>4 DEF DatesDone, Kept
<1> QED BY <1>1, <1>2, <1>3, DatesStep DEF RentalInv, TypeOK

LEMMA CalmReadOuters ==
  ASSUME RentalInv, CalmInv, NEW r \in Request, ReadOuters(r) PROVE CalmInv'
<1>1. /\ pc[r] = "outer" /\ pc' = [pc EXCEPT ![r] = "split"] /\ pc'[r] = "split"
      /\ held'[r] = Outer(Mine(r), Window(r)) /\ outer'[r] = {}
      /\ UNCHANGED <<events, task, found, before, disturbed>>
      /\ Window(r)' = Window(r) /\ Mine(r)' = Mine(r)
  BY DEF ReadOuters, At, Goto, rowVars, ghostVars, RentalInv, TypeOK, Window, Mine, OfProduct, CallFits
<1>2. pc[r] \in DateStages /\ pc'[r] \in DateStages
  BY <1>1 DEF DateStages
<1>3. ASSUME DatesDone(r) PROVE DatesDone(r)'
  BY <1>1, <1>3 DEF DatesDone, Kept, Outer
<1> QED BY <1>1, <1>2, <1>3, DatesStep DEF RentalInv, TypeOK

LEMMA CalmSaveHead ==
  ASSUME RentalAssumption, RentalInv, KeyInv, CalmInv, NEW r \in Request, NEW e \in held[r], SaveHead(r, e)
  PROVE  CalmInv'
<1> DEFINE f == Fresh(Piece(e, e.start, Window(r)[1]))
<1>1. /\ pc[r] = "split" /\ Write(r, {f}, "tail") /\ outer'[r] = {e} /\ held'[r] = held[r] \ {e}
      /\ UNCHANGED <<task, found, before, disturbed>> /\ Window(r)' = Window(r)
  BY DEF SaveHead, At, ghostVars, RentalInv, TypeOK, Window, Rest
<1>2. /\ pc'[r] \in {"tail", "failed"} /\ \A q \in Request \ {r} : pc'[q] = pc[q]
  BY <1>1 DEF Write, Goto, RentalInv, TypeOK
<1>3. pc[r] \in DateStages /\ pc'[r] \in DateStages \cup {"failed"}
  BY <1>1, <1>2 DEF DateStages
<1>4. ASSUME DatesDone(r), pc'[r] # "failed" PROVE DatesDone(r)'
  <2>1. e \in Mine(r) /\ e \in Event /\ Spans(e, Window(r)) /\ batch \in Nat
    BY <1>1, <1>4 DEF DatesDone, RentalInv, TypeOK, CallFits
  <2>2. /\ f.item = e.item /\ f.status = e.status /\ f.start = e.start /\ f.end = Window(r)[1]
        /\ f.id[1] = batch + 1
    BY DEF Fresh, Piece
  <2> HIDE DEF f
  <2>3. events' = events \cup {f}
    BY <1>1, <1>4, <2>2, SaveFresh DEF Write, Goto, RentalInv, TypeOK
  <2>4. Mine(r)' = Mine(r) \cup {f}
    BY <1>1, <2>1, <2>2, <2>3 DEF Mine, OfProduct
  <2>5. /\ e.start < Window(r)[1] /\ e.end > Window(r)[2] /\ Window(r)[1] <= Window(r)[2]
        /\ Window(r)[1] \in Int /\ Window(r)[2] \in Int /\ e.start \in Int /\ e.end \in Int
        /\ \A s \in Slot : s[3] \in Int
    BY <1>3, <2>1, DatesFacts DEF Spans, Mine, OfProduct
  <2>6. Slots(events') = Slots(events)
    <3>1. ASSUME NEW s \in Slot, f.start <= s[3], s[3] < f.end PROVE e.start <= s[3] /\ s[3] < e.end
      BY <2>2, <2>5, <3>1
    <3> QED BY <2>1, <2>2, <2>3, <3>1 DEF Slots, Mine, OfProduct
  <2>7. Inner(Mine(r), Window(r))' = Inner(Mine(r), Window(r))
    BY <1>1, <2>2, <2>4, <2>5 DEF Inner
  <2>8. Outer(Mine(r), Window(r))' = Outer(Mine(r), Window(r))
    BY <1>1, <2>2, <2>4, <2>5 DEF Outer
  <2>9. Part(f, e, e.start, Window(r)[1]) /\ f \in events'
    BY <2>2, <2>3 DEF Part
  <2> QED
    BY <1>1, <1>2, <1>4, <2>3, <2>4, <2>6, <2>7, <2>8, <2>9 DEF DatesDone, Kept, Part
<1> QED BY <1>1, <1>2, <1>3, <1>4, DatesStep

LEMMA CalmSaveTail ==
  ASSUME RentalAssumption, RentalInv, KeyInv, CalmInv, NEW r \in Request, NEW e \in outer[r], SaveTail(r, e)
  PROVE  CalmInv'
<1> DEFINE f == Fresh(Piece(e, Window(r)[2], e.end))
<1>1. /\ pc[r] = "tail" /\ Write(r, {f}, "drop") /\ UNCHANGED <<held, rights, outer>>
      /\ UNCHANGED <<task, found, before, disturbed>> /\ Window(r)' = Window(r)
  BY DEF SaveTail, At, ghostVars, copyVars, Window
<1>2. /\ pc'[r] \in {"drop", "failed"} /\ \A q \in Request \ {r} : pc'[q] = pc[q]
  BY <1>1 DEF Write, Goto, RentalInv, TypeOK
<1>3. pc[r] \in DateStages /\ pc'[r] \in DateStages \cup {"failed"}
  BY <1>1, <1>2 DEF DateStages
<1>4. ASSUME DatesDone(r), pc'[r] # "failed" PROVE DatesDone(r)'
  <2>1. e \in Mine(r) /\ e \in Event /\ Spans(e, Window(r)) /\ batch \in Nat /\ outer[r] = {e}
    BY <1>1, <1>4 DEF DatesDone, RentalInv, TypeOK, CallFits
  <2>2. /\ f.item = e.item /\ f.status = e.status /\ f.start = Window(r)[2] /\ f.end = e.end
        /\ f.id[1] = batch + 1
    BY DEF Fresh, Piece
  <2> HIDE DEF f
  <2>3. events' = events \cup {f}
    BY <1>1, <1>4, <2>2, SaveFresh DEF Write, Goto, RentalInv, TypeOK
  <2>4. Mine(r)' = Mine(r) \cup {f}
    BY <1>1, <2>1, <2>2, <2>3 DEF Mine, OfProduct
  <2>5. /\ e.start < Window(r)[1] /\ e.end > Window(r)[2] /\ Window(r)[1] <= Window(r)[2]
        /\ Window(r)[1] \in Int /\ Window(r)[2] \in Int /\ e.start \in Int /\ e.end \in Int
        /\ \A s \in Slot : s[3] \in Int
    BY <1>3, <2>1, DatesFacts DEF Spans, Mine, OfProduct
  <2>6. Slots(events') = Slots(events)
    <3>1. ASSUME NEW s \in Slot, f.start <= s[3], s[3] < f.end PROVE e.start <= s[3] /\ s[3] < e.end
      BY <2>2, <2>5, <3>1
    <3> QED BY <2>1, <2>2, <2>3, <3>1 DEF Slots, Mine, OfProduct
  <2>7. Inner(Mine(r), Window(r))' = Inner(Mine(r), Window(r))
    BY <1>1, <2>2, <2>4, <2>5 DEF Inner
  <2>8. Outer(Mine(r), Window(r))' = Outer(Mine(r), Window(r))
    BY <1>1, <2>2, <2>4, <2>5 DEF Outer
  <2>9. Part(f, e, Window(r)[2], e.end) /\ f \in events'
    BY <2>2, <2>3 DEF Part
  <2>10. (\E h \in events' : Part(h, e, e.start, Window(r)[1]))
         /\ \E t \in events' : Part(t, e, Window(r)[2], e.end)
    BY <1>1, <1>4, <2>1, <2>3, <2>9 DEF DatesDone
  <2>11. pc'[r] = "drop" /\ outer'[r] = {e} /\ held'[r] = held[r]
    BY <1>1, <1>2, <1>4, <2>1
  <2>12. held[r] \cup {e} \subseteq Mine(r)' /\ held[r] \cap {e} = {}
    BY <1>1, <1>4, <2>1, <2>4 DEF DatesDone
  <2>13. Outer(Mine(r), Window(r))' \subseteq held[r] \cup {e} /\ Inner(Mine(r), Window(r))' = {}
    BY <1>1, <1>4, <2>1, <2>7, <2>8 DEF DatesDone
  <2>14. Slots(events') \subseteq before'[r] /\ \A s \in before'[r] : Kept(r, s)' => s \in Slots(events')
    BY <1>1, <1>4, <2>6 DEF DatesDone, Kept
  <2> QED
    BY <1>1, <2>10, <2>11, <2>12, <2>13, <2>14 DEF DatesDone
<1> QED BY <1>1, <1>2, <1>3, <1>4, DatesStep

LEMMA CalmDropOuter ==
  ASSUME RentalAssumption, RentalInv, KeyInv, CalmInv, NEW r \in Request, NEW e \in outer[r], DropOuter(r, e)
  PROVE  CalmInv'
<1>1. /\ pc[r] = "drop" /\ pc'[r] = "split" /\ \A q \in Request \ {r} : pc'[q] = pc[q]
      /\ events' = events \ Dropped(e) /\ outer'[r] = {} /\ UNCHANGED <<held, rights>>
      /\ UNCHANGED <<task, found, before, disturbed>> /\ Window(r)' = Window(r)
  BY DEF DropOuter, At, Goto, ghostVars, RentalInv, TypeOK, Window
<1>2. pc[r] \in DateStages /\ pc'[r] \in DateStages
  BY <1>1 DEF DateStages
<1>3. ASSUME DatesDone(r) PROVE DatesDone(r)'
  <2>1. /\ e \in Mine(r) /\ e \in events /\ ProductOf[e.item] = task[r].product
        /\ Spans(e, Window(r)) /\ outer[r] = {e}
    BY <1>1, <1>3 DEF DatesDone, RentalInv, TypeOK, CallFits, Mine, OfProduct
  <2>2. events' = events \ {e}
    BY <1>1, <2>1 DEF Dropped, KeyInv, Keyed
  <2>3. Mine(r)' = Mine(r) \ {e}
    BY <1>1, <2>2 DEF Mine, OfProduct
  <2>4. /\ e.start < Window(r)[1] /\ e.end > Window(r)[2] /\ Window(r)[1] <= Window(r)[2]
        /\ Window(r)[1] \in Int /\ Window(r)[2] \in Int /\ e.start \in Int /\ e.end \in Int
        /\ \A s \in Slot : s[3] \in Int
    BY <1>2, <2>1, DatesFacts DEF Spans
  <2>5. Slots(events') \subseteq before[r]
    BY <1>3, <2>2 DEF DatesDone, Slots
  <2>6. ASSUME NEW s \in before[r], Kept(r, s) PROVE s \in Slots(events')
    <3>1. s \in Slot /\ \E x \in events : x.item = s[1] /\ x.status = s[2] /\ x.start <= s[3] /\ s[3] < x.end
      BY <1>3, <2>6 DEF DatesDone, Slots
    <3>2. PICK x \in events : x.item = s[1] /\ x.status = s[2] /\ x.start <= s[3] /\ s[3] < x.end
      BY <3>1
    <3>3. CASE x # e
      BY <2>2, <3>1, <3>2, <3>3 DEF Slots
    <3>4. CASE x = e
      <4>1. s[3] < Window(r)[1] \/ Window(r)[2] <= s[3]
        BY <2>1, <2>6, <3>2, <3>4 DEF Kept
      <4>2. PICK h \in events : Part(h, e, e.start, Window(r)[1])
        BY <1>1, <1>3 DEF DatesDone
      <4>3. PICK t \in events : Part(t, e, Window(r)[2], e.end)
        BY <1>1, <1>3 DEF DatesDone
      <4>4. h # e /\ t # e
        BY <2>4, <4>2, <4>3 DEF Part
      <4>5. CASE s[3] < Window(r)[1]
        BY <2>2, <3>1, <3>2, <3>4, <4>2, <4>4, <4>5 DEF Slots, Part
      <4>6. CASE Window(r)[2] <= s[3]
        BY <2>2, <3>1, <3>2, <3>4, <4>3, <4>4, <4>6 DEF Slots, Part
      <4> QED BY <4>1, <4>5, <4>6
    <3> QED BY <3>3, <3>4
  <2>7. Inner(Mine(r), Window(r))' = {}
    BY <1>1, <1>3, <2>3 DEF DatesDone, Inner
  <2>8. Outer(Mine(r), Window(r))' \subseteq held'[r]
    BY <1>1, <1>3, <2>1, <2>3 DEF DatesDone, Outer
  <2>9. held'[r] \subseteq Mine(r)'
    BY <1>1, <1>3, <2>1, <2>3 DEF DatesDone
  <2> QED BY <1>1, <2>5, <2>6, <2>7, <2>8, <2>9 DEF DatesDone, Kept
<1> QED BY <1>1, <1>2, <1>3, DatesStep

LEMMA CalmReadLefts ==
  ASSUME RentalInv, CalmInv, NEW r \in Request, ReadLefts(r) PROVE CalmInv'
<1>1. /\ pc[r] = "split" /\ held[r] = {} /\ pc' = [pc EXCEPT ![r] = "rights"] /\ pc'[r] = "rights"
      /\ held'[r] = Left(Mine(r), Window(r))
      /\ UNCHANGED <<events, task, found, before, disturbed, rights, outer>>
      /\ Window(r)' = Window(r) /\ Mine(r)' = Mine(r)
  BY DEF ReadLefts, At, Goto, rowVars, ghostVars, RentalInv, TypeOK, Window, Mine, OfProduct
<1>2. pc[r] \in DateStages /\ pc'[r] \in DateStages
  BY <1>1 DEF DateStages
<1>3. ASSUME DatesDone(r) PROVE DatesDone(r)'
  BY <1>1, <1>3 DEF DatesDone, Kept
<1> QED BY <1>1, <1>2, <1>3, DatesStep DEF RentalInv, TypeOK

LEMMA CalmReadRights ==
  ASSUME RentalInv, CalmInv, NEW r \in Request, ReadRights(r) PROVE CalmInv'
<1>1. /\ pc[r] = "rights" /\ pc' = [pc EXCEPT ![r] = "saveLefts"] /\ pc'[r] = "saveLefts"
      /\ rights'[r] = Right(Mine(r), Window(r))
      /\ UNCHANGED <<events, task, found, before, disturbed, held, outer>>
      /\ Window(r)' = Window(r) /\ Mine(r)' = Mine(r)
  BY DEF ReadRights, At, Goto, rowVars, ghostVars, RentalInv, TypeOK, Window, Mine, OfProduct
<1>2. pc[r] \in DateStages /\ pc'[r] \in DateStages
  BY <1>1 DEF DateStages
<1>3. ASSUME DatesDone(r) PROVE DatesDone(r)'
  BY <1>1, <1>3 DEF DatesDone, Kept
<1> QED BY <1>1, <1>2, <1>3, DatesStep DEF RentalInv, TypeOK

LEMMA CalmSaveLefts ==
  ASSUME RentalAssumption, RentalInv, KeyInv, CalmInv, NEW r \in Request, SaveLefts(r) PROVE CalmInv'
<1> DEFINE a == Window(r)[1]
           b == Window(r)[2]
           F == [e \in held[r] |-> Clip(e, e.start, a)]
           E == {F[e] : e \in held[r]}
<1>1. /\ pc[r] = "saveLefts" /\ Write(r, {Clip(e, e.start, a) : e \in held[r]}, "saveRights")
      /\ UNCHANGED <<rights, outer>>
      /\ UNCHANGED <<task, found, before, disturbed>> /\ Window(r)' = Window(r)
  BY DEF SaveLefts, At, ghostVars, Window
<1>2. /\ pc'[r] \in {"saveRights", "failed"} /\ \A q \in Request \ {r} : pc'[q] = pc[q]
  BY <1>1 DEF Write, Goto, RentalInv, TypeOK
<1>3. pc[r] \in DateStages /\ pc'[r] \in DateStages \cup {"failed"}
  BY <1>1, <1>2 DEF DateStages
<1>4. ASSUME DatesDone(r), pc'[r] # "failed" PROVE DatesDone(r)'
  <2>0. /\ a \in Int /\ b \in Int /\ a <= b /\ Window(r) \in Period /\ MaxTime \in Nat /\ a \in Time
        /\ Mine(r) \subseteq events /\ events \subseteq Event
        /\ \A e \in events : e.start \in Int /\ e.end \in Int
        /\ \A s \in Slot : s[3] \in Int
    BY <1>3, DatesFacts, WindowEnds
  <2>1. held[r] = Left(Mine(r), Window(r)) /\ rights[r] = Right(Mine(r), Window(r))
        /\ Outer(Mine(r), Window(r)) = {} /\ Inner(Mine(r), Window(r)) = {}
    BY <1>1, <1>4 DEF DatesDone
  <2>2. held[r] \subseteq Mine(r) /\ \A e \in held[r] : e.start < a /\ e.end >= a /\ e.end <= b
    BY <2>1 DEF Left
  <2>3. \A e \in held[r] : /\ F[e].id = e.id /\ F[e].item = e.item /\ F[e].status = e.status
                           /\ F[e].start = e.start /\ F[e].end = a
    BY <2>0, <2>2, ClipLeft
  <2>4. E = {Clip(e, e.start, a) : e \in held[r]}
    <3>1. \A e \in held[r] : F[e] = Clip(e, e.start, a)  OBVIOUS
    <3> HIDE DEF F
    <3> QED BY <3>1
  <2> HIDE DEF a, b, F
  <2>5. events' = (events \ held[r]) \cup E
    <3>1. events' = Save(E)
      BY <1>1, <1>4, <2>4 DEF Write, Goto, RentalInv, TypeOK
    <3>2. held[r] \in SUBSET events
      BY <2>0, <2>2
    <3>3. (\A e \in held[r] : \E x \in E : x.id = e.id) /\ \A x \in E : \E e \in held[r] : x.id = e.id
      BY <2>3
    <3> HIDE DEF E
    <3> QED BY <3>1, <3>2, <3>3, SaveCopies
  <2>6. Mine(r)' = (Mine(r) \ held[r]) \cup E
    BY <1>1, <2>2, <2>3, <2>5 DEF Mine, OfProduct
  <2>7. Slots(events') \subseteq Slots(events)
    <3>1. ASSUME NEW s \in Slots(events') PROVE s \in Slots(events)
      <4>1. s \in Slot /\ \E x \in events' : x.item = s[1] /\ x.status = s[2] /\ x.start <= s[3] /\ s[3] < x.end
        BY <3>1 DEF Slots
      <4>2. PICK x \in events' : x.item = s[1] /\ x.status = s[2] /\ x.start <= s[3] /\ s[3] < x.end
        BY <4>1
      <4>3. CASE x \in events
        BY <4>1, <4>2, <4>3 DEF Slots
      <4>4. CASE x \in E
        <5>1. PICK e \in held[r] : x = F[e]  BY <4>4
        <5>2. e \in events /\ e.item = s[1] /\ e.status = s[2] /\ e.start <= s[3]
          BY <2>0, <2>2, <2>3, <4>2, <5>1
        <5>3. s[3] < e.end
          BY <2>0, <2>2, <2>3, <4>1, <4>2, <5>1
        <5> QED BY <4>1, <5>2, <5>3 DEF Slots
      <4> QED BY <2>5, <4>3, <4>4
    <3> QED BY <3>1
  <2>8. ASSUME NEW s \in before[r], Kept(r, s) PROVE s \in Slots(events')
    <3>1. s \in Slot /\ \E x \in events : x.item = s[1] /\ x.status = s[2] /\ x.start <= s[3] /\ s[3] < x.end
      BY <1>4, <2>8 DEF DatesDone, Slots
    <3>2. PICK x \in events : x.item = s[1] /\ x.status = s[2] /\ x.start <= s[3] /\ s[3] < x.end
      BY <3>1
    <3>3. CASE x \notin held[r]
      BY <2>5, <3>1, <3>2, <3>3 DEF Slots
    <3>4. CASE x \in held[r]
      <4>1. s[3] < a \/ b <= s[3]
        BY <2>2, <2>8, <3>2, <3>4 DEF Kept, Mine, OfProduct, a, b
      <4>2. s[3] < a
        BY <2>0, <2>2, <3>1, <3>2, <3>4, <4>1
      <4>3. F[x] \in events' /\ F[x].item = s[1] /\ F[x].status = s[2] /\ F[x].start <= s[3] /\ s[3] < F[x].end
        BY <2>3, <2>5, <3>2, <3>4, <4>2
      <4> QED BY <3>1, <4>3 DEF Slots
    <3> QED BY <3>3, <3>4
  <2>9. Inner(Mine(r), Window(r))' = {}
    <3>1. \A x \in E : x.start < a  BY <2>2, <2>3
    <3>2. \A x \in Inner(Mine(r)', Window(r)) : x.start >= a
      BY DEF Inner, a
    <3>3. \A x \in Inner(Mine(r)', Window(r)) : x \in Mine(r)'
      BY DEF Inner
    <3>4. \A x \in Inner(Mine(r)', Window(r)) : x \in Mine(r)
      BY <2>0, <2>2, <2>3, <2>6, <3>2, <3>3
    <3>5. Inner(Mine(r)', Window(r)) = {}
      BY <2>1, <3>4 DEF Inner
    <3> QED BY <1>1, <3>5 DEF Inner
  <2>10. rights'[r] = Right(Mine(r), Window(r))'
    <3>1. ASSUME NEW x \in E PROVE ~(x.start >= a)
      BY <2>0, <2>2, <2>3
    <3>2. \A x \in held[r] : ~(x.start >= a)
      BY <2>0, <2>2
    <3>3. Right(Mine(r)', Window(r)) = Right(Mine(r), Window(r))
      BY <2>6, <3>1, <3>2 DEF Right, a
    <3> QED BY <1>1, <2>1, <3>3 DEF Right
  <2>11. ASSUME NEW x \in Mine(r)', x.start < b, x.end > a PROVE x \in rights[r]
    <3>1. x \notin E  BY <2>0, <2>3, <2>11
    <3>2. x \in Mine(r) \ held[r]  BY <2>6, <2>11, <3>1
    <3>3. x.start <= b /\ x.end >= a  BY <2>0, <2>11, <3>2
    <3>4. x.start <= x.end \/ x.start > x.end  BY <2>0, <3>2
    <3> QED BY <2>0, <2>1, <2>11, <3>2, <3>3 DEF Inner, Outer, Left, Right, a, b
  <2> QED
    BY <1>1, <1>2, <1>4, <2>7, <2>8, <2>9, <2>10, <2>11 DEF DatesDone, Kept, a, b
<1> QED BY <1>1, <1>2, <1>3, <1>4, DatesStep

LEMMA CalmSaveRights ==
  ASSUME RentalAssumption, RentalInv, KeyInv, CalmInv, NEW r \in Request, SaveRights(r) PROVE CalmInv'
<1> DEFINE a == Window(r)[1]
           b == Window(r)[2]
           F == [e \in rights[r] |-> Clip(e, b, e.end)]
           E == {F[e] : e \in rights[r]}
<1>1. /\ pc[r] = "saveRights" /\ Write(r, {Clip(e, b, e.end) : e \in rights[r]}, "end")
      /\ UNCHANGED <<held, outer>>
      /\ UNCHANGED <<task, found, before, disturbed>> /\ Window(r)' = Window(r)
  BY DEF SaveRights, At, ghostVars, Window
<1>2. /\ pc'[r] \in {"end", "failed"} /\ \A q \in Request \ {r} : pc'[q] = pc[q]
  BY <1>1 DEF Write, Goto, RentalInv, TypeOK
<1>3. pc[r] \in DateStages /\ pc'[r] \in DateStages \cup {"end", "failed"}
  BY <1>1, <1>2 DEF DateStages
<1>4. ASSUME DatesDone(r), pc'[r] # "failed" PROVE DatesDone(r)'
  <2>0. /\ a \in Int /\ b \in Int /\ a <= b /\ Window(r) \in Period /\ MaxTime \in Nat /\ b \in Time
        /\ Mine(r) \subseteq events /\ events \subseteq Event
        /\ \A e \in events : e.start \in Int /\ e.end \in Int
        /\ \A s \in Slot : s[3] \in Int
    BY <1>3, DatesFacts, WindowEnds
  <2>1. rights[r] = Right(Mine(r), Window(r)) /\ Inner(Mine(r), Window(r)) = {}
        /\ \A e \in Mine(r) : e.start < b /\ e.end > a => e \in rights[r]
    BY <1>1, <1>4 DEF DatesDone
  <2>2. rights[r] \subseteq Mine(r) /\ \A e \in rights[r] : e.start >= a /\ e.start <= b /\ e.end > b
    BY <2>1 DEF Right
  <2>3. \A e \in rights[r] : /\ F[e].id = e.id /\ F[e].item = e.item /\ F[e].status = e.status
                             /\ F[e].start = b /\ F[e].end = e.end
    BY <2>0, <2>2, ClipRight
  <2>4. E = {Clip(e, b, e.end) : e \in rights[r]}
    <3>1. \A e \in rights[r] : F[e] = Clip(e, b, e.end)  OBVIOUS
    <3> HIDE DEF F
    <3> QED BY <3>1
  <2> HIDE DEF a, b, F
  <2>5. events' = (events \ rights[r]) \cup E
    <3>1. events' = Save(E)
      BY <1>1, <1>4, <2>4 DEF Write, Goto, RentalInv, TypeOK
    <3>2. rights[r] \in SUBSET events
      BY <2>0, <2>2
    <3>3. (\A e \in rights[r] : \E x \in E : x.id = e.id) /\ \A x \in E : \E e \in rights[r] : x.id = e.id
      BY <2>3
    <3> HIDE DEF E
    <3> QED BY <3>1, <3>2, <3>3, SaveCopies
  <2>6. Mine(r)' = (Mine(r) \ rights[r]) \cup E
    BY <1>1, <2>2, <2>3, <2>5 DEF Mine, OfProduct
  <2>7. Slots(events') \subseteq Slots(events)
    <3>1. ASSUME NEW s \in Slots(events') PROVE s \in Slots(events)
      <4>1. s \in Slot /\ \E x \in events' : x.item = s[1] /\ x.status = s[2] /\ x.start <= s[3] /\ s[3] < x.end
        BY <3>1 DEF Slots
      <4>2. PICK x \in events' : x.item = s[1] /\ x.status = s[2] /\ x.start <= s[3] /\ s[3] < x.end
        BY <4>1
      <4>3. CASE x \in events
        BY <4>1, <4>2, <4>3 DEF Slots
      <4>4. CASE x \in E
        <5>1. PICK e \in rights[r] : x = F[e]  BY <4>4
        <5>2. e \in events /\ e.item = s[1] /\ e.status = s[2] /\ s[3] < e.end
          BY <2>0, <2>2, <2>3, <4>2, <5>1
        <5>3. e.start <= s[3]
          BY <2>0, <2>2, <2>3, <4>1, <4>2, <5>1
        <5> QED BY <4>1, <5>2, <5>3 DEF Slots
      <4> QED BY <2>5, <4>3, <4>4
    <3> QED BY <3>1
  <2>8. ASSUME NEW s \in before[r], Kept(r, s) PROVE s \in Slots(events')
    <3>1. s \in Slot /\ \E x \in events : x.item = s[1] /\ x.status = s[2] /\ x.start <= s[3] /\ s[3] < x.end
      BY <1>4, <2>8 DEF DatesDone, Slots
    <3>2. PICK x \in events : x.item = s[1] /\ x.status = s[2] /\ x.start <= s[3] /\ s[3] < x.end
      BY <3>1
    <3>3. CASE x \notin rights[r]
      BY <2>5, <3>1, <3>2, <3>3 DEF Slots
    <3>4. CASE x \in rights[r]
      <4>1. s[3] < a \/ b <= s[3]
        BY <2>2, <2>8, <3>2, <3>4 DEF Kept, Mine, OfProduct, a, b
      <4>2. b <= s[3]
        BY <2>0, <2>2, <3>1, <3>2, <3>4, <4>1
      <4>3. F[x] \in events' /\ F[x].item = s[1] /\ F[x].status = s[2] /\ F[x].start <= s[3] /\ s[3] < F[x].end
        BY <2>3, <2>5, <3>2, <3>4, <4>2
      <4> QED BY <3>1, <4>3 DEF Slots
    <3> QED BY <3>3, <3>4
  <2>9. Inner(Mine(r), Window(r))' = {}
    <3>1. \A x \in E : ~(x.end <= b)  BY <2>0, <2>2, <2>3
    <3>2. \A x \in Inner(Mine(r)', Window(r)) : x.end <= b /\ x \in Mine(r)'
      BY DEF Inner, b
    <3>3. \A x \in Inner(Mine(r)', Window(r)) : x \in Mine(r)
      BY <2>6, <3>1, <3>2
    <3>4. Inner(Mine(r)', Window(r)) = {}
      BY <2>1, <3>3 DEF Inner
    <3> QED BY <1>1, <3>4 DEF Inner
  <2>10. ASSUME NEW x \in Mine(r)' PROVE x.end <= a \/ x.start >= b
    <3>1. CASE x \in E  BY <2>0, <2>3, <3>1
    <3>2. CASE x \in Mine(r) \ rights[r]  BY <2>0, <2>1, <3>2
    <3> QED BY <2>6, <3>1, <3>2
  <2> QED
    BY <1>1, <1>2, <1>4, <2>7, <2>8, <2>9, <2>10 DEF DatesDone, Kept, a, b
<1> QED BY <1>1, <1>2, <1>3, <1>4, DatesStep

------------------------------------------------------------------------------
(* processOrder, run alone. *)

LEMMA OrderStep ==
  ASSUME RentalInv, CalmInv, NEW r \in Request, pc[r] \in {"release", "block"},
         disturbed' = disturbed, UNCHANGED <<task, found>>,
         \A q \in Request \ {r} : pc'[q] = pc[q], pc'[r] \in {"block", "end", "failed"},
         Calm(r) /\ OrderDone(r) /\ pc'[r] # "failed" => OrderDone(r)'
  PROVE  CalmInv'
<1>1. task[r].kind \in OrderStatus \ Returning /\ task[r] \in OrderTask
  BY DEF CalmInv, KindFits, RentalInv, CallFits, OrderStages
<1>2. KindFits(r)'
  BY <1>1 DEF KindFits, DateStages, QueryStages
<1>3. Running(r)  BY DEF Running
<1>4. Calm(r) /\ Running(r)' => Done(r)'
  BY <1>1 DEF Done, CalmInv, Running, OrderStatus, Returning
<1> QED BY <1>2, <1>3, <1>4, CalmStep

LEMMA CalmReleaseProducts ==
  ASSUME RentalInv, CalmInv, NEW r \in Request, ReleaseProducts(r) PROVE CalmInv'
<1>1. /\ pc[r] = "release" /\ \A q \in Request \ {r} : pc'[q] = pc[q]
      /\ pc'[r] = IF task[r].kind \in Blocking THEN "block" ELSE "end"
      /\ events' = events \ OfItems(task[r].items)
      /\ UNCHANGED <<task, found, before, disturbed, todo>>
  BY DEF ReleaseProducts, At, Goto, copyVars, ghostVars, RentalInv, TypeOK
<1>2. ASSUME OrderDone(r) PROVE OrderDone(r)'
  <2>1. \A e \in events' : e.item \notin task[r].items
    BY <1>1 DEF OfItems
  <2>2. ASSUME NEW s \in Slot, s[1] \notin task[r].items
        PROVE  s \in Slots(events') <=> s \in Slots(events)
    BY <1>1, <2>2 DEF Slots, OfItems
  <2>3. todo[r] = task[r].items
    BY <1>1, <1>2 DEF OrderDone
  <2>4. OfItems(task[r].items)' = {}
    BY <1>1, <2>1 DEF OfItems
  <2> QED BY <1>1, <1>2, <2>1, <2>2, <2>3, <2>4 DEF OrderDone, OfItems
<1> QED BY <1>1, <1>2, OrderStep

LEMMA CalmBlockProducts ==
  ASSUME RentalInv, KeyInv, CalmInv, NEW r \in Request, NEW i \in Item, BlockProducts(r, i)
  PROVE  CalmInv'
<1> DEFINE st == ScheduleStatus(task[r].kind)
           Row(p) == Fresh([id |-> 0, item |-> i, start |-> p[1], end |-> p[2], status |-> st])
           New == {Row(p) : p \in task[r].periods}
<1>1. /\ pc[r] = "block" /\ i \in todo[r] /\ Write(r, New, "block")
      /\ todo'[r] = todo[r] \ {i} /\ UNCHANGED <<task, found, before, disturbed>>
  BY DEF BlockProducts, At, RentalInv, TypeOK
<1>2. pc'[r] \in {"block", "failed"} /\ \A q \in Request \ {r} : pc'[q] = pc[q]
  BY <1>1 DEF Write, Goto, RentalInv, TypeOK
<1>3. task[r].periods \subseteq Period
  BY <1>1 DEF RentalInv, CallFits, OrderStages, OrderTask
<1>4. \A p \in Period : /\ Row(p).id[1] = batch + 1 /\ Row(p).item = i /\ Row(p).status = st
                        /\ <<Row(p).start, Row(p).end>> = p
  BY DEF Fresh, Period
<1> HIDE DEF st, Row
<1>5. ASSUME OrderDone(r), pc'[r] # "failed" PROVE OrderDone(r)'
  <2>1. /\ \A e \in New : e.id[1] = batch + 1 /\ e.item = i /\ e.status = st
        /\ Times(New) = task[r].periods
    BY <1>3, <1>4 DEF Times
  <2> HIDE DEF New
  <2>2. events' = events \cup New
    <3>1. events' = Save(New)
      BY <1>1, <1>5 DEF Write, Goto, RentalInv, TypeOK
    <3> QED BY <2>1, <3>1, SaveFresh
  <2>3. /\ task[r].kind \in Blocking /\ todo[r] \subseteq task[r].items
        /\ \A e \in events : e.item \notin todo[r]
        /\ \A e \in OfItems(task[r].items) : e.status = st
        /\ \A j \in task[r].items \ todo[r] : Times(OfItems({j})) = task[r].periods
    BY <1>1, <1>5 DEF OrderDone, st
  <2>4. ASSUME NEW s \in Slot, s[1] \notin task[r].items
        PROVE  s \in Slots(events') <=> s \in Slots(events)
    BY <1>1, <2>1, <2>2, <2>3, <2>4 DEF Slots
  <2>5. \A e \in events' : e.item \notin todo'[r]
    BY <1>1, <2>1, <2>2, <2>3
  <2>6. \A e \in OfItems(task[r].items)' : e.status = st
    BY <1>1, <2>1, <2>2, <2>3 DEF OfItems
  <2>7. ASSUME NEW j \in task[r].items \ todo'[r] PROVE Times(OfItems({j}))' = task[r].periods
    <3>1. CASE j = i
      <4>1. OfItems({j})' = New  BY <1>1, <2>1, <2>2, <2>3, <3>1 DEF OfItems
      <4> QED BY <2>1, <4>1 DEF Times
    <3>2. CASE j # i
      <4>1. OfItems({j})' = OfItems({j})  BY <2>1, <2>2, <3>2 DEF OfItems
      <4>2. j \in task[r].items \ todo[r]  BY <1>1, <2>7, <3>2
      <4> QED BY <2>3, <4>1, <4>2 DEF Times
    <3> QED BY <3>1, <3>2
  <2> QED BY <1>1, <1>2, <1>5, <2>3, <2>4, <2>5, <2>6, <2>7 DEF OrderDone, st
<1> QED BY <1>1, <1>2, <1>5, OrderStep

LEMMA ReturnStep ==
  ASSUME RentalInv, CalmInv, NEW r \in Request, pc[r] \in {"future", "cut", "trim"},
         disturbed' = disturbed, UNCHANGED <<task, found>>,
         \A q \in Request \ {r} : pc'[q] = pc[q], pc'[r] \in {"cut", "trim", "failed"},
         Calm(r) /\ ReturnDone(r) /\ pc'[r] # "failed" => ReturnDone(r)'
  PROVE  CalmInv'
<1>1. task[r].kind \in Returning
  BY DEF CalmInv, KindFits
<1>2. KindFits(r)'
  BY <1>1 DEF KindFits, DateStages, QueryStages
<1>3. Running(r)  BY DEF Running
<1>4. Calm(r) /\ Running(r)' => Done(r)'
  BY <1>1 DEF Done, CalmInv, Running, OrderStatus, Returning
<1> QED BY <1>2, <1>3, <1>4, CalmStep

(* The instants of a return and of the rows. *)
LEMMA ReturnFacts ==
  ASSUME RentalAssumption, RentalInv, NEW r \in Request, pc[r] \in {"future", "cut", "trim"}
  PROVE  /\ task[r].date \in Int /\ task[r].date \in Time /\ events \subseteq Event
         /\ \A e \in events : e.start \in Int /\ e.end \in Int
         /\ \A s \in Slot : s[3] \in Int
<1>1. task[r] \in OrderTask /\ events \subseteq Event
  BY DEF RentalInv, TypeOK, CallFits, OrderStages
<1> QED BY <1>1 DEF OrderTask, Time, Event, Slot

LEMMA CalmReleaseFuture ==
  ASSUME RentalAssumption, RentalInv, CalmInv, NEW r \in Request, ReleaseFuture(r) PROVE CalmInv'
<1>1. /\ pc[r] = "future" /\ \A q \in Request \ {r} : pc'[q] = pc[q]
      /\ pc'[r] \in {"cut", "failed"}
      /\ pc'[r] = "cut" => events' = events \ Future(OfItems(task[r].items), task[r].date)
      /\ UNCHANGED <<task, found, before, disturbed>>
  BY DEF ReleaseFuture, At, Goto, copyVars, ghostVars, RentalInv, TypeOK
<1>2. ASSUME ReturnDone(r), pc'[r] # "failed" PROVE ReturnDone(r)'
  <2>0. /\ task[r].date \in Int /\ \A e \in events : e.start \in Int /\ e.end \in Int
        /\ \A s \in Slot : s[3] \in Int
    BY <1>1, ReturnFacts
  <2>1. events' = events \ Future(OfItems(task[r].items), task[r].date) /\ pc'[r] = "cut"
    BY <1>1, <1>2
  <2>2. \A e \in events' : e.item \in task[r].items => e.start <= task[r].date
    BY <2>0, <2>1 DEF Future, OfItems
  <2>3. ASSUME NEW s \in Slot, s[3] < task[r].date
        PROVE  s \in Slots(events') <=> s \in Slots(events)
    <3>1. \A e \in events : e.start <= s[3] => e \in events'
      BY <2>0, <2>1, <2>3 DEF Future
    <3> QED BY <2>1, <3>1 DEF Slots
  <2> QED BY <1>1, <1>2, <2>1, <2>2, <2>3 DEF ReturnDone, OfItems
<1> QED BY <1>1, <1>2, ReturnStep

LEMMA CalmReadCrossing ==
  ASSUME RentalInv, CalmInv, NEW r \in Request, ReadCrossing(r) PROVE CalmInv'
<1>1. /\ pc[r] = "cut" /\ \A q \in Request \ {r} : pc'[q] = pc[q]
      /\ pc'[r] = "trim" /\ held'[r] = Crossing(OfItems(task[r].items), task[r].date)
      /\ UNCHANGED <<events, task, found, before, disturbed>>
  BY DEF ReadCrossing, At, Goto, rowVars, ghostVars, RentalInv, TypeOK
<1>2. ASSUME ReturnDone(r) PROVE ReturnDone(r)'
  BY <1>1, <1>2 DEF ReturnDone, OfItems, Crossing
<1> QED BY <1>1, <1>2, ReturnStep

LEMMA CalmTrim ==
  ASSUME RentalAssumption, RentalInv, KeyInv, CalmInv, NEW r \in Request, NEW e \in held[r], Trim(r, e)
  PROVE  CalmInv'
<1> DEFINE t == task[r].date
           f == Trimmed(e, t)
           I == task[r].items
<1>1. /\ pc[r] = "trim" /\ Write(r, {f}, "trim") /\ held'[r] = held[r] \ {e}
      /\ UNCHANGED <<task, found, before, disturbed>>
  BY DEF Trim, At, ghostVars, RentalInv, TypeOK, Rest
<1>2. pc'[r] \in {"trim", "failed"} /\ \A q \in Request \ {r} : pc'[q] = pc[q]
  BY <1>1 DEF Write, Goto, RentalInv, TypeOK
<1>3. ASSUME ReturnDone(r), pc'[r] # "failed" PROVE ReturnDone(r)'
  <2>0. /\ t \in Int /\ t \in Time /\ events \subseteq Event
        /\ \A x \in events : x.start \in Int /\ x.end \in Int
        /\ \A s \in Slot : s[3] \in Int
    BY <1>1, ReturnFacts
  <2>1. /\ e \in events /\ e \in Event /\ e.item \in I /\ held[r] \subseteq OfItems(I)
        /\ Crossing(OfItems(I), t) \subseteq held[r]
        /\ \A x \in OfItems(I) : x.start <= t
    BY <1>1, <1>3, <2>0 DEF ReturnDone, OfItems
  <2>2. e.start < t /\ t < e.end
    BY <1>1 DEF RentalInv, CallFits
  <2>3. /\ f.id = e.id /\ f.item = e.item /\ f.status = e.status /\ f.start = e.start /\ f.end = t
    BY <2>0, <2>1 DEF Trimmed, Event
  <2> HIDE DEF f, t, I
  <2>4. events' = (events \ {e}) \cup {f}
    <3>1. events' = Save({f})
      BY <1>1, <1>3 DEF Write, Goto, RentalInv, TypeOK
    <3>2. /\ {e} \in SUBSET events /\ \A x \in {e} : \E y \in {f} : y.id = x.id
          /\ \A y \in {f} : \E x \in {e} : y.id = x.id
      BY <2>1, <2>3
    <3> QED BY <3>1, <3>2, SaveCopies
  <2>5. OfItems(I)' = (OfItems(I) \ {e}) \cup {f}
    BY <1>1, <2>1, <2>3, <2>4 DEF OfItems, I
  <2>6. ASSUME NEW s \in Slot, s[3] < t PROVE s \in Slots(events') <=> s \in Slots(events)
    <3>1. f.start <= s[3] /\ s[3] < f.end <=> e.start <= s[3] /\ s[3] < e.end
      BY <2>0, <2>1, <2>2, <2>3, <2>6
    <3> QED BY <2>1, <2>3, <2>4, <3>1 DEF Slots
  <2>7. held'[r] \subseteq OfItems(I)'
    BY <1>1, <2>1, <2>5
  <2>8. Crossing(OfItems(I), t)' \subseteq held'[r]
    <3>1. \A x \in Crossing(OfItems(I)', t) : x \in OfItems(I)' /\ x.start < t /\ x.end > t
      BY DEF Crossing
    <3>2. \A x \in Crossing(OfItems(I)', t) : x # f
      BY <2>0, <2>3, <3>1
    <3>3. \A x \in Crossing(OfItems(I)', t) : x \in Crossing(OfItems(I), t)
      BY <2>5, <3>1, <3>2 DEF Crossing
    <3>4. t' = t  BY <1>1 DEF t
    <3> QED BY <1>1, <2>1, <2>5, <3>1, <3>2, <3>3, <3>4 DEF Crossing
  <2>9. \A x \in OfItems(I)' : x.start <= t
    BY <2>1, <2>3, <2>5
  <2> QED BY <1>1, <1>2, <1>3, <2>6, <2>7, <2>8, <2>9 DEF ReturnDone, t, I
<1> QED BY <1>1, <1>2, <1>3, ReturnStep

------------------------------------------------------------------------------
(* buildSchedule, run alone: its queries see the same rows. *)

LEMMA CalmReadSchedule ==
  ASSUME RentalInv, CalmInv, NEW r \in Request, ReadSchedule(r) PROVE CalmInv'
<1>1. /\ pc[r] \in QueryStages /\ pc \in [Request -> Stage]
      /\ UNCHANGED <<events, task, disturbed>> /\ found \in [Request -> SUBSET (Class \X Event)]
      /\ Window(r)' = Window(r) /\ Mine(r)' = Mine(r)
  BY DEF ReadSchedule, Read, At, QueryStages, rowVars, ghostVars, RentalInv, TypeOK, Window, Mine, OfProduct
<1>2. task[r].kind = "query" /\ task[r] \in WindowTask
  BY <1>1 DEF CalmInv, KindFits, RentalInv, CallFits
<1>3. /\ \A q \in Request \ {r} : pc'[q] = pc[q] /\ found'[q] = found[q]
      /\ pc'[r] \in QueryStages \cup {"end"}
  BY <1>1 DEF ReadSchedule, Read, Goto, QueryStages
<1>4. KindFits(r)'
  BY <1>1, <1>2, <1>3 DEF KindFits, QueryStages, DateStages
<1>5. Running(r)  BY <1>1 DEF Running, QueryStages
<1>6. ASSUME Calm(r) PROVE Done(r)'
  <2>1. QueryDone(r)
    BY <1>2, <1>6 DEF CalmInv, Done
  <2>2. QueryDone(r)'
    <3> DEFINE A == Inner(Mine(r), Window(r))
               B == Outer(Mine(r), Window(r))
               C == Left(Mine(r), Window(r))
               D == Right(Mine(r), Window(r))
    <3>0. /\ A = Inner(Mine(r), Window(r))' /\ B = Outer(Mine(r), Window(r))'
          /\ C = Left(Mine(r), Window(r))' /\ D = Right(Mine(r), Window(r))'
      BY <1>1 DEF Inner, Outer, Left, Right
    <3>1. CASE Read(r, "readInner", "inner", A, "readOuter")
      <4>1. pc[r] = "readInner" /\ pc'[r] = "readOuter" /\ found'[r] = found[r] \cup {"inner"} \X A
        BY <1>1, <3>1 DEF Read, At, Goto
      <4> HIDE DEF A, B, C, D
      <4> QED BY <2>1, <3>0, <4>1 DEF QueryDone, A, B, C, D
    <3>2. CASE Read(r, "readOuter", "outer", B, "readLefts")
      <4>1. pc[r] = "readOuter" /\ pc'[r] = "readLefts" /\ found'[r] = found[r] \cup {"outer"} \X B
        BY <1>1, <3>2 DEF Read, At, Goto
      <4> QED BY <2>1, <3>0, <4>1 DEF QueryDone
    <3>3. CASE Read(r, "readLefts", "left", C, "readRights")
      <4>1. pc[r] = "readLefts" /\ pc'[r] = "readRights" /\ found'[r] = found[r] \cup {"left"} \X C
        BY <1>1, <3>3 DEF Read, At, Goto
      <4> QED BY <2>1, <3>0, <4>1 DEF QueryDone
    <3>4. CASE Read(r, "readRights", "right", D, "end")
      <4>1. pc[r] = "readRights" /\ pc'[r] = "end" /\ found'[r] = found[r] \cup {"right"} \X D
        BY <1>1, <3>4 DEF Read, At, Goto
      <4> QED BY <2>1, <3>0, <4>1 DEF QueryDone
    <3> QED BY <3>1, <3>2, <3>3, <3>4 DEF ReadSchedule
  <2> QED BY <1>1, <1>2, <2>2 DEF Done, OrderStatus, Returning
<1> QED BY <1>1, <1>3, <1>4, <1>5, <1>6, CalmStep

LEMMA CalmReturn ==
  ASSUME RentalInv, CalmInv, NEW r \in Request, Return(r) PROVE CalmInv'
<1>1. /\ pc' = [pc EXCEPT ![r] = "done"] /\ pc'[r] = "done" /\ found'[r] = {} /\ disturbed' = disturbed
      /\ \A q \in Request \ {r} : pc'[q] = pc[q] /\ task'[q] = task[q] /\ found'[q] = found[q]
      /\ Running(r)
  BY DEF Return, At, Goto, RentalInv, TypeOK, Running
<1>2. KindFits(r)' /\ ~Running(r)'
  BY <1>1 DEF KindFits, Running, DateStages, QueryStages
<1> QED BY <1>1, <1>2, CalmStep

LEMMA CalmNext ==
  ASSUME RentalAssumption, RentalInv, KeyInv, CalmInv, [Next]_vars PROVE CalmInv'
<1>1. ASSUME NEW r \in Request, Step(r) PROVE CalmInv'
  <2>1. CASE \E i \in Item : BlockProducts(r, i)
    BY <2>1, CalmBlockProducts
  <2>2. CASE \E e \in held[r] : Trim(r, e) \/ SaveHead(r, e)
    BY <2>2, CalmTrim, CalmSaveHead
  <2>3. CASE \E e \in outer[r] : SaveTail(r, e) \/ DropOuter(r, e)
    BY <2>3, CalmSaveTail, CalmDropOuter
  <2>4. CASE ReleaseProducts(r) \/ ReleaseFuture(r) \/ ReadCrossing(r)
    BY <2>4, CalmReleaseProducts, CalmReleaseFuture, CalmReadCrossing
  <2>5. CASE ReleaseInner(r) \/ ReadOuters(r) \/ ReadLefts(r) \/ ReadRights(r)
    BY <2>5, CalmReleaseInner, CalmReadOuters, CalmReadLefts, CalmReadRights
  <2>6. CASE SaveLefts(r) \/ SaveRights(r) \/ ReadSchedule(r) \/ Return(r)
    BY <2>6, CalmSaveLefts, CalmSaveRights, CalmReadSchedule, CalmReturn
  <2> QED BY <1>1, <2>1, <2>2, <2>3, <2>4, <2>5, <2>6 DEF Step
<1> QED BY <1>1, CalmOpen, CalmRemove, CalmStutter DEF Next

ExactInv == RentalInv /\ KeyInv /\ CalmInv

LEMMA ExactHolds == Spec => []ExactInv
<1>1. RentalAssumption /\ Init => KeyInv /\ CalmInv
  <2> SUFFICES ASSUME RentalAssumption, Init PROVE KeyInv /\ CalmInv
    OBVIOUS
  <2>1. Keyed(events) /\ Issued(events)
    BY DEF RentalAssumption, Init, Keyed, Issued
  <2>2. KeyInv
    BY <2>1 DEF Init, KeyInv, Keyed, Issued
  <2>3. CalmInv
    BY DEF Init, CalmInv, KindFits, Calm, Running, DateStages, QueryStages
  <2> QED BY <2>2, <2>3
<1>2. ExactInv /\ [Next]_vars => ExactInv'
  BY RentalAssumption, NextInv, KeyNext, CalmNext DEF ExactInv
<1>3. Init => ExactInv
  BY <1>1, RentalAssumption, InitInv DEF ExactInv
<1> QED BY <1>2, <1>3, PTL DEF Spec

------------------------------------------------------------------------------
(* The calls' results. *)

LEMMA EndsByReturn ==
  ASSUME RentalInv, NEW r \in Request, [Next]_vars, Ends(r)
  PROVE  Return(r) /\ UNCHANGED events
<1>0. pc \in [Request -> Stage]  BY DEF RentalInv, TypeOK
<1>1. ASSUME NEW q \in Request, Open(q) PROVE FALSE
  <2>1. pc'[r] = "done" /\ pc[r] # "done"  BY DEF Ends
  <2>2. PICK stage : pc' = [pc EXCEPT ![q] = stage] /\ stage # "done"
    BY <1>1 DEF Open, ProcessOrder, ReleaseProductByDates, BuildSchedule, Begin, Goto
  <2> QED BY <1>0, <2>1, <2>2
<1>2. ASSUME NEW q \in Request, Step(q) PROVE Return(r)
  <2>1. pc'[r] = "done" /\ pc[r] # "done"  BY DEF Ends
  <2>2. \/ Return(q)
        \/ \E stage : stage # "done" /\ pc' = [pc EXCEPT ![q] = stage]
    BY <1>2 DEF Step, ReleaseProducts, ReleaseFuture, ReadCrossing, BlockProducts, ReleaseInner,
       ReadOuters, ReadLefts, ReadRights, Trim, SaveHead, SaveTail, DropOuter, SaveLefts, SaveRights,
       ReadSchedule, Read, Write, Goto
  <2>3. CASE Return(q)
    <3>1. pc' = [pc EXCEPT ![q] = "done"]  BY <2>3 DEF Return, Goto
    <3>2. q = r  BY <1>0, <2>1, <3>1
    <3> QED BY <2>3, <3>2
  <2> QED BY <1>0, <2>1, <2>2, <2>3
<1>3. ASSUME NEW i \in Item, RemoveItem(i) PROVE FALSE
  BY <1>3 DEF RemoveItem, Ends
<1>4. ASSUME UNCHANGED vars PROVE FALSE
  BY <1>4 DEF vars, Ends
<1>5. Return(r)  BY <1>1, <1>2, <1>3, <1>4 DEF Next
<1> QED BY <1>5 DEF Return, rowVars

(* A call that ends and that nothing ran beside has done what its stage says. *)
LEMMA EndsCalm ==
  ASSUME ExactInv, NEW r \in Request, [Next]_vars, Ends(r), Alone(r)
  PROVE  /\ Done(r) /\ KindFits(r)
         /\ pc[r] = "end" \/ (pc[r] = "block" /\ todo[r] = {}) \/ (pc[r] = "trim" /\ held[r] = {})
<1>1. Return(r)  BY EndsByReturn DEF ExactInv
<1>2. pc[r] = "end" \/ (pc[r] = "block" /\ todo[r] = {}) \/ (pc[r] = "trim" /\ held[r] = {})
  BY <1>1 DEF Return, At
<1>3. Calm(r)  BY <1>2 DEF Calm, Running, Alone
<1> QED BY <1>2, <1>3 DEF ExactInv, CalmInv

LEMMA EndsDates ==
  ASSUME RentalAssumption, ExactInv, NEW r \in Request, [Next]_vars, Ends(r),
         task[r].kind = "dates", Alone(r)
  PROVE  Slots(events) =
           {s \in before[r] : \/ ProductOf[s[1]] # task[r].product
                              \/ s[3] < Window(r)[1] \/ Window(r)[2] <= s[3]}
<1>1. pc[r] = "end" /\ DatesDone(r) /\ task[r] \in WindowTask
  BY EndsCalm DEF KindFits, Done, OrderStatus, Returning, OrderTask, OrderStages
<1>2. /\ Slots(events) \subseteq before[r]
      /\ \A s \in before[r] : Kept(r, s) => s \in Slots(events)
      /\ \A e \in Mine(r) : e.end <= Window(r)[1] \/ e.start >= Window(r)[2]
  BY <1>1 DEF DatesDone
<1>3. /\ Window(r)[1] \in Int /\ Window(r)[2] \in Int
      /\ \A e \in events : e.start \in Int /\ e.end \in Int
      /\ \A s \in Slot : s[3] \in Int
  <2>1. Window(r) \in Period /\ events \subseteq Event
    BY <1>1 DEF WindowTask, Window, ExactInv, RentalInv, TypeOK
  <2> QED BY <2>1, PeriodEnds DEF Time, Event, Slot
<1>4. ASSUME NEW s \in Slots(events) PROVE Kept(r, s)
  <2>1. s \in Slot /\ \E e \in events : e.item = s[1] /\ e.start <= s[3] /\ s[3] < e.end
    BY DEF Slots
  <2>2. PICK e \in events : e.item = s[1] /\ e.start <= s[3] /\ s[3] < e.end
    BY <2>1
  <2>3. CASE ProductOf[s[1]] = task[r].product
    <3>1. e \in Mine(r)  BY <2>2, <2>3 DEF Mine, OfProduct
    <3>2. s[3] < Window(r)[1] \/ Window(r)[2] <= s[3]
      BY <1>2, <1>3, <2>1, <2>2, <3>1
    <3> QED BY <3>2 DEF Kept
  <2> QED BY <2>3 DEF Kept
<1> QED BY <1>2, <1>4 DEF Kept

(* releaseProductByDates frees exactly its period, when nothing runs beside it: *)
(* the split, the two cuts and the deletions together lose no slot outside the  *)
(* period and leave none inside.                                                *)
THEOREM ReleaseExactCorrect == Spec => ReleaseExact
<1>1. ExactInv /\ [Next]_vars =>
        [\A r \in Request :
           Ends(r) /\ task[r].kind = "dates" /\ Alone(r) =>
             Slots(events) =
               {s \in before[r] : \/ ProductOf[s[1]] # task[r].product
                                  \/ s[3] < Window(r)[1] \/ Window(r)[2] <= s[3]}]_vars
  BY RentalAssumption, EndsDates
<1> QED BY <1>1, ExactHolds, PTL DEF Spec, ReleaseExact

LEMMA EndsOrder ==
  ASSUME ExactInv, NEW r \in Request, [Next]_vars, Ends(r),
         task[r].kind \in OrderStatus \ Returning, Alone(r)
  PROVE  LET st == task[r].kind
             Now == {e \in events : e.item \in task[r].items}
         IN
         /\ \A e \in Now : e.status = "rented" <=> st \in {"shipped", "delivered"}
         /\ \A i \in task[r].items :
              {<<e.start, e.end>> : e \in {x \in Now : x.item = i}}
                = IF st \in Blocking THEN task[r].periods ELSE {}
         /\ {s \in Slots(events) : s[1] \notin task[r].items}
              = {s \in before[r] : s[1] \notin task[r].items}
<1> DEFINE st == task[r].kind
           Now == {e \in events : e.item \in task[r].items}
<1>1. OrderDone(r) /\ (pc[r] = "end" \/ (pc[r] = "block" /\ todo[r] = {}))
  BY EndsCalm DEF KindFits, Done, Returning
<1>2. Now = OfItems(task[r].items)  BY DEF OfItems
<1>3. \A i \in task[r].items : {<<e.start, e.end>> : e \in {x \in Now : x.item = i}} = Times(OfItems({i}))
  <2>1. \A i \in task[r].items : {x \in Now : x.item = i} = OfItems({i})  BY DEF OfItems
  <2> QED BY <2>1 DEF Times
<1>4. before[r] \subseteq Slot /\ Slots(events) \subseteq Slot
  BY DEF ExactInv, RentalInv, TypeOK, Slots
<1>5. {s \in Slots(events) : s[1] \notin task[r].items} = {s \in before[r] : s[1] \notin task[r].items}
  BY <1>1, <1>4 DEF OrderDone
<1>6. CASE pc[r] = "end"
  <2>1. st \notin Blocking /\ Now = {}  BY <1>1, <1>2, <1>6 DEF OrderDone
  <2>2. \A i \in task[r].items : {<<e.start, e.end>> : e \in {x \in Now : x.item = i}} = {}
    BY <2>1
  <2> QED BY <1>5, <2>1, <2>2
<1>7. CASE pc[r] = "block" /\ todo[r] = {}
  <2>1. /\ st \in Blocking /\ \A e \in Now : e.status = ScheduleStatus(st)
        /\ \A i \in task[r].items : Times(OfItems({i})) = task[r].periods
    BY <1>1, <1>2, <1>7 DEF OrderDone
  <2> QED BY <1>3, <1>5, <2>1 DEF ScheduleStatus
<1> QED BY <1>1, <1>6, <1>7

(* processOrder leaves an order's items blocked for exactly its periods, with   *)
(* the status of the order, or free, when nothing runs beside it.               *)
THEOREM BlockExactCorrect == Spec => BlockExact
<1>1. ExactInv /\ [Next]_vars =>
        [\A r \in Request :
           LET st == task[r].kind
               Now == {e \in events : e.item \in task[r].items}
           IN
           Ends(r) /\ st \in OrderStatus \ Returning /\ Alone(r) =>
             /\ \A e \in Now : e.status = "rented" <=> st \in {"shipped", "delivered"}
             /\ \A i \in task[r].items :
                  {<<e.start, e.end>> : e \in {x \in Now : x.item = i}}
                    = IF st \in Blocking THEN task[r].periods ELSE {}
             /\ {s \in Slots(events) : s[1] \notin task[r].items}
                  = {s \in before[r] : s[1] \notin task[r].items}]_vars
  BY EndsOrder
<1> QED BY <1>1, ExactHolds, PTL DEF Spec, BlockExact

LEMMA EndsReturn ==
  ASSUME RentalAssumption, ExactInv, NEW r \in Request, [Next]_vars, Ends(r),
         task[r].kind \in Returning, Alone(r)
  PROVE  LET Past(S) == {s \in S : s[1] \in task[r].items /\ s[3] < task[r].date} IN
         /\ \A e \in events : e.item \in task[r].items =>
              e.end <= task[r].date \/ e.start = task[r].date
         /\ Past(Slots(events)) = Past(before[r])
<1>1. pc[r] = "trim" /\ held[r] = {} /\ ReturnDone(r)
  BY EndsCalm DEF KindFits, Done, Returning, WindowTask, OrderStatus
<1>2. /\ task[r].date \in Int
      /\ \A e \in events : e.start \in Int /\ e.end \in Int
  BY <1>1, ReturnFacts DEF ExactInv
<1>3. before[r] \subseteq Slot /\ Slots(events) \subseteq Slot
  BY DEF ExactInv, RentalInv, TypeOK, Slots
<1>4. ASSUME NEW e \in events, e.item \in task[r].items
      PROVE  e.end <= task[r].date \/ e.start = task[r].date
  <2>1. e \in OfItems(task[r].items) /\ e.start <= task[r].date
    BY <1>1, <1>4 DEF OfItems, ReturnDone
  <2>2. e \notin Crossing(OfItems(task[r].items), task[r].date)
    BY <1>1 DEF ReturnDone
  <2> QED BY <1>2, <2>1, <2>2 DEF Crossing
<1> QED BY <1>1, <1>3, <1>4 DEF ReturnDone

(* Returned goods are free from the moment of the return and stay booked for    *)
(* the time before, when nothing runs beside the call.                          *)
THEOREM ReturnFreesCorrect == Spec => ReturnFrees
<1>1. ExactInv /\ [Next]_vars =>
        [\A r \in Request :
           LET Past(S) == {s \in S : s[1] \in task[r].items /\ s[3] < task[r].date} IN
           Ends(r) /\ task[r].kind \in Returning /\ Alone(r) =>
             /\ \A e \in events : e.item \in task[r].items =>
                  e.end <= task[r].date \/ e.start = task[r].date
             /\ Past(Slots(events)) = Past(before[r])]_vars
  BY RentalAssumption, EndsReturn
<1> QED BY <1>1, ExactHolds, PTL DEF Spec, ReturnFrees

------------------------------------------------------------------------------
(* The rows are finitely many and none ends before it starts: the copies that   *)
(* are cut reach over the instant they are cut at, however old they are.        *)
Forward(E) == \A e \in E : e.start <= e.end

RowInv ==
  /\ IsFiniteSet(events) /\ Forward(events)
  /\ \A r \in Request :
       /\ IsFiniteSet(held[r]) /\ IsFiniteSet(rights[r])
       /\ Forward(held[r]) /\ Forward(rights[r])
       /\ pc[r] \in {"rights", "saveLefts"} => \A e \in held[r] : e.start < Window(r)[1]
       /\ pc[r] \in {"saveLefts", "saveRights"} => \A e \in rights[r] : e.end > Window(r)[2]

(* What a call that goes on keeps of it. *)
Reaching(r) ==
  /\ pc[r] \in {"rights", "saveLefts"} => \A e \in held[r] : e.start < Window(r)[1]
  /\ pc[r] \in {"saveLefts", "saveRights"} => \A e \in rights[r] : e.end > Window(r)[2]

LEMMA RowStep ==
  ASSUME RowInv, NEW E, IsFiniteSet(E), Forward(E), events' \subseteq events \cup E,
         \A q \in Request :
           /\ held'[q] \subseteq held[q] \/ held'[q] \subseteq events
           /\ rights'[q] \subseteq rights[q] \/ rights'[q] \subseteq events
           /\ Reaching(q) => Reaching(q)'
  PROVE  RowInv'
<1>1. IsFiniteSet(events')
  <2>1. IsFiniteSet(events \cup E)  BY FS_Union DEF RowInv
  <2> QED BY <2>1, FS_Subset
<1>2. Forward(events')  BY DEF RowInv, Forward
<1>3. ASSUME NEW q \in Request
      PROVE  /\ IsFiniteSet(held'[q]) /\ IsFiniteSet(rights'[q])
             /\ Forward(held'[q]) /\ Forward(rights'[q]) /\ Reaching(q)'
  <2>1. /\ IsFiniteSet(held[q]) /\ IsFiniteSet(rights[q]) /\ IsFiniteSet(events)
        /\ Forward(held[q]) /\ Forward(rights[q]) /\ Forward(events) /\ Reaching(q)
    BY DEF RowInv, Reaching
  <2>2. /\ held'[q] \subseteq held[q] \/ held'[q] \subseteq events
        /\ rights'[q] \subseteq rights[q] \/ rights'[q] \subseteq events
    OBVIOUS
  <2>3. IsFiniteSet(held'[q])  BY <2>1, <2>2, FS_Subset
  <2>4. IsFiniteSet(rights'[q])  BY <2>1, <2>2, FS_Subset
  <2> QED BY <2>1, <2>2, <2>3, <2>4 DEF Forward
<1> QED BY <1>1, <1>2, <1>3 DEF RowInv, Reaching, Forward

(* As many rows are written as there are copies or periods. *)
LEMMA FiniteImage ==
  ASSUME NEW S, IsFiniteSet(S), NEW F PROVE IsFiniteSet({F[x] : x \in S})
<1> DEFINE T == {F[x] : x \in S}
           G == [x \in S |-> F[x]]
<1>1. G \in Surjection(S, T)  BY DEF Surjection
<1> HIDE DEF T, G
<1>2. IsFiniteSet(T)  BY <1>1, FS_Surjection
<1> QED BY <1>2 DEF T

LEMMA FinitePeriods ==
  ASSUME RentalAssumption, NEW P \in SUBSET Period PROVE IsFiniteSet(P)
<1>0. MaxTime \in Int  BY DEF RentalAssumption
<1>1. IsFiniteSet(Time)  BY <1>0, FS_Interval DEF Time
<1>2. IsFiniteSet(Time \X Time)  BY <1>1, FS_Product
<1>3. P \subseteq Time \X Time  BY DEF Period
<1> QED BY <1>2, <1>3, FS_Subset

LEMMA RowWrite ==
  ASSUME RowInv, NEW r \in Request, NEW E, IsFiniteSet(E), Forward(E), events' \subseteq events \cup E,
         held'[r] \subseteq held[r] \/ held'[r] \subseteq events,
         rights'[r] \subseteq rights[r] \/ rights'[r] \subseteq events, Reaching(r)',
         \A q \in Request \ {r} : /\ pc'[q] = pc[q] /\ task'[q] = task[q]
                                  /\ held'[q] = held[q] /\ rights'[q] = rights[q]
  PROVE  RowInv'
<1>1. \A q \in Request : Reaching(q) => Reaching(q)'
  BY DEF Reaching, Window
<1> QED BY <1>1, RowStep

LEMMA RowReads ==
  ASSUME RowInv, NEW r \in Request, events' \subseteq events,
         held'[r] \subseteq held[r] \/ held'[r] \subseteq events,
         rights'[r] \subseteq rights[r] \/ rights'[r] \subseteq events, Reaching(r)',
         \A q \in Request \ {r} : /\ pc'[q] = pc[q] /\ task'[q] = task[q]
                                  /\ held'[q] = held[q] /\ rights'[q] = rights[q]
  PROVE  RowInv'
<1>1. IsFiniteSet({}) /\ Forward({})  BY FS_EmptySet DEF Forward
<1> QED BY <1>1, RowWrite

LEMMA WriteRows ==
  ASSUME NEW r \in Request, NEW E, NEW stage, Write(r, E, stage), RentalInv
  PROVE  /\ events' \subseteq events \cup E /\ pc'[r] \in {stage, "failed"}
         /\ \A q \in Request \ {r} : pc'[q] = pc[q]
BY DEF Write, Save, Goto, RentalInv, TypeOK

LEMMA RowNext ==
  ASSUME RentalAssumption, RentalInv, RowInv, [Next]_vars PROVE RowInv'
<1>0. /\ held \in [Request -> SUBSET Event] /\ rights \in [Request -> SUBSET Event]
      /\ batch \in Nat /\ events \subseteq Event /\ pc \in [Request -> Stage]
      /\ task \in [Request -> Task] /\ MaxTime \in Nat /\ MaxTime \in Int
  BY DEF RentalInv, TypeOK, RentalAssumption
<1>1. ASSUME NEW r \in Request, Step(r) PROVE RowInv'
  <2>1. CASE \/ ReleaseProducts(r) \/ ReleaseFuture(r) \/ ReleaseInner(r)
             \/ \E e \in outer[r] : DropOuter(r, e)
    <3>1. /\ events' \subseteq events /\ UNCHANGED <<held, rights, task>>
          /\ pc'[r] \notin {"rights", "saveLefts", "saveRights"}
          /\ \A q \in Request \ {r} : pc'[q] = pc[q]
      BY <1>0, <2>1 DEF ReleaseProducts, ReleaseFuture, ReleaseInner, DropOuter, copyVars, Goto
    <3> QED BY <3>1, RowReads DEF Reaching
  <2>2. CASE ReadCrossing(r) \/ ReadOuters(r) \/ ReadSchedule(r) \/ Return(r)
    <3>1. /\ UNCHANGED <<events, rights>>
          /\ held'[r] \subseteq held[r] \/ held'[r] \subseteq events
          /\ pc'[r] \notin {"rights", "saveLefts", "saveRights"}
          /\ \A q \in Request \ {r} : pc'[q] = pc[q] /\ held'[q] = held[q] /\ task'[q] = task[q]
      BY <1>0, <2>2 DEF ReadCrossing, ReadOuters, ReadSchedule, Read, Return, Goto, rowVars, Crossing,
         OfItems, Outer, Mine, OfProduct
    <3> QED BY <3>1, RowReads DEF Reaching
  <2>3. CASE ReadLefts(r)
    <3>1. /\ UNCHANGED <<events, rights, task>> /\ pc'[r] = "rights"
          /\ held'[r] = Left(Mine(r), Window(r)) /\ held'[r] \subseteq events
          /\ \A q \in Request \ {r} : pc'[q] = pc[q] /\ held'[q] = held[q]
      BY <1>0, <2>3 DEF ReadLefts, Goto, rowVars, Left, Mine, OfProduct
    <3>2. Reaching(r)'  BY <3>1 DEF Reaching, Left, Window
    <3> QED BY <3>1, <3>2, RowReads
  <2>4. CASE ReadRights(r)
    <3>1. /\ UNCHANGED <<events, held, task>> /\ pc[r] = "rights" /\ pc'[r] = "saveLefts"
          /\ rights'[r] = Right(Mine(r), Window(r)) /\ rights'[r] \subseteq events
          /\ \A q \in Request \ {r} : pc'[q] = pc[q] /\ rights'[q] = rights[q]
      BY <1>0, <2>4 DEF ReadRights, At, Goto, rowVars, Right, Mine, OfProduct
    <3>2. Reaching(r)'  BY <3>1 DEF Reaching, Right, Window, RowInv
    <3> QED BY <3>1, <3>2, RowReads
  <2>5. ASSUME NEW i \in Item, BlockProducts(r, i) PROVE RowInv'
    <3> DEFINE st == ScheduleStatus(task[r].kind)
               RowOf(p) == Fresh([id |-> 0, item |-> i, start |-> p[1], end |-> p[2], status |-> st])
               Row == [p \in task[r].periods |-> RowOf(p)]
               New == {Row[p] : p \in task[r].periods}
               Rows == {RowOf(p) : p \in task[r].periods}
    <3>1. Write(r, Rows, "block") /\ UNCHANGED <<held, rights, task>>
      BY <2>5 DEF BlockProducts
    <3>2. task[r].periods \subseteq Period
      BY <2>5 DEF BlockProducts, At, RentalInv, CallFits, OrderStages, OrderTask
    <3>3. Rows = New
      <4>1. \A p \in task[r].periods : Row[p] = RowOf(p)  OBVIOUS
      <4> HIDE DEF Row, RowOf
      <4> QED BY <4>1
    <3>4. \A p \in task[r].periods : Row[p].start <= Row[p].end
      BY <3>2 DEF Fresh, Period
    <3> HIDE DEF Row, Rows
    <3>5. Forward(New)  BY <3>4 DEF Forward
    <3>6. IsFiniteSet(New)
      <4>1. IsFiniteSet(task[r].periods)  BY <3>2, FinitePeriods
      <4> QED BY <4>1, FiniteImage
    <3> HIDE DEF New
    <3>7. /\ events' \subseteq events \cup New /\ pc'[r] \in {"block", "failed"}
          /\ \A q \in Request \ {r} : pc'[q] = pc[q]
      BY <3>1, <3>3, WriteRows
    <3> QED BY <3>1, <3>5, <3>6, <3>7, RowWrite DEF Reaching
  <2>6. ASSUME NEW f, NEW stage, stage \notin {"rights", "saveLefts", "saveRights"}, f.start <= f.end,
               Write(r, {f}, stage), UNCHANGED <<task, rights>>,
               \A q \in Request \ {r} : held'[q] = held[q], held'[r] \subseteq held[r]
        PROVE  RowInv'
    <3>1. IsFiniteSet({f})  BY FS_Singleton
    <3>2. Forward({f})  BY <2>6 DEF Forward
    <3>3. /\ events' \subseteq events \cup {f} /\ pc'[r] \in {stage, "failed"}
          /\ \A q \in Request \ {r} : pc'[q] = pc[q]
      BY <2>6, WriteRows
    <3>4. Reaching(r)'  BY <2>6, <3>3 DEF Reaching
    <3> QED BY <2>6, <3>1, <3>2, <3>3, <3>4, RowWrite
  <2>7. ASSUME NEW e \in held[r], Trim(r, e) PROVE RowInv'
    <3>1. e \in Event /\ task[r].date \in Time /\ e.start < task[r].date
      BY <1>0, <2>7 DEF Trim, At, RentalInv, CallFits, OrderStages, OrderTask
    <3>2. Trimmed(e, task[r].date).start <= Trimmed(e, task[r].date).end
      BY <1>0, <3>1, TrimmedFacts, RowTypes DEF Time
    <3> QED BY <1>0, <2>6, <2>7, <3>2 DEF Trim, Rest
  <2>8. ASSUME NEW e \in held[r], SaveHead(r, e) PROVE RowInv'
    <3>1. e \in Event /\ e.start \in Time /\ Window(r)[1] \in Time
      BY <1>0, <2>8, RowTypes, WindowEnds DEF SaveHead, At, DateStages
    <3>2. e.start < Window(r)[1]
      BY <2>8 DEF SaveHead, At, RentalInv, CallFits, Spans
    <3>3. Fresh(Piece(e, e.start, Window(r)[1])).start <= Fresh(Piece(e, e.start, Window(r)[1])).end
      <4>1. Fresh(Piece(e, e.start, Window(r)[1])).start = e.start /\ Fresh(Piece(e, e.start, Window(r)[1])).end = Window(r)[1]
        BY <1>0, <3>1, PieceFacts
      <4>2. e.start <= Window(r)[1]
        BY <1>0, <3>1, <3>2 DEF Time
      <4> QED BY <4>1, <4>2
    <3> QED BY <1>0, <2>6, <2>8, <3>3 DEF SaveHead, Rest
  <2>9. ASSUME NEW e \in outer[r], SaveTail(r, e) PROVE RowInv'
    <3>1. e \in Event /\ e.end \in Time /\ Window(r)[2] \in Time
      BY <2>9, RowTypes, WindowEnds DEF SaveTail, At, DateStages, RentalInv, TypeOK
    <3>2. Window(r)[2] < e.end
      BY <1>0, <2>9, <3>1 DEF SaveTail, At, RentalInv, CallFits, Spans, Time
    <3>3. Fresh(Piece(e, Window(r)[2], e.end)).start <= Fresh(Piece(e, Window(r)[2], e.end)).end
      <4>1. Fresh(Piece(e, Window(r)[2], e.end)).start = Window(r)[2] /\ Fresh(Piece(e, Window(r)[2], e.end)).end = e.end
        BY <1>0, <3>1, PieceFacts
      <4>2. Window(r)[2] <= e.end
        BY <1>0, <3>1, <3>2 DEF Time
      <4> QED BY <4>1, <4>2
    <3> QED BY <1>0, <2>6, <2>9, <3>3 DEF SaveTail, copyVars
  <2>10. CASE SaveLefts(r)
    <3> DEFINE a == Window(r)[1]
               F == [e \in held[r] |-> Clip(e, e.start, a)]
               E == {F[e] : e \in held[r]}
               Clips == {Clip(e, e.start, a) : e \in held[r]}
    <3>1. /\ Write(r, Clips, "saveRights") /\ UNCHANGED <<rights, task>> /\ pc[r] = "saveLefts"
          /\ held'[r] = {} /\ \A q \in Request \ {r} : held'[q] = held[q]
      BY <1>0, <2>10 DEF SaveLefts, At
    <3>2. a \in Time /\ held[r] \subseteq Event /\ Forward(held[r]) /\ IsFiniteSet(held[r])
          /\ \A e \in held[r] : e.start < a
      BY <1>0, <3>1, WindowEnds DEF DateStages, RowInv
    <3> HIDE DEF a
    <3>3. ASSUME NEW e \in held[r] PROVE F[e].start <= F[e].end
      <4>1. e.start \in Int /\ e.end \in Int /\ a \in Int /\ e.start < a /\ e.start <= e.end
        BY <1>0, <3>2 DEF Event, Time, Forward
      <4>2. (IF e.start < e.start THEN e.start ELSE e.start) = e.start  BY <4>1
      <4>3. Clip(e, e.start, a).start = e.start
            /\ Clip(e, e.start, a).end = IF e.end > a THEN a ELSE e.end
        BY <3>2, <4>2 DEF Clip, Event
      <4> QED BY <4>1, <4>3
    <3>4. E = Clips
      <4>1. \A e \in held[r] : F[e] = Clip(e, e.start, a)  OBVIOUS
      <4> HIDE DEF F
      <4> QED BY <4>1
    <3> HIDE DEF Clips, F
    <3>5. Forward(E)  BY <3>3 DEF Forward
    <3>6. IsFiniteSet(E)  BY <3>2, FiniteImage
    <3> HIDE DEF E
    <3>7. /\ events' \subseteq events \cup E /\ pc'[r] \in {"saveRights", "failed"}
          /\ \A q \in Request \ {r} : pc'[q] = pc[q]
      BY <3>1, <3>4, WriteRows
    <3>8. Reaching(r)'  BY <3>1, <3>7 DEF Reaching, RowInv, Window
    <3> QED BY <3>1, <3>5, <3>6, <3>7, <3>8, RowWrite
  <2>11. CASE SaveRights(r)
    <3> DEFINE b == Window(r)[2]
               F == [e \in rights[r] |-> Clip(e, b, e.end)]
               E == {F[e] : e \in rights[r]}
               Clips == {Clip(e, b, e.end) : e \in rights[r]}
    <3>1. /\ Write(r, Clips, "end") /\ UNCHANGED <<held, task>> /\ pc[r] = "saveRights"
          /\ rights'[r] = {} /\ \A q \in Request \ {r} : rights'[q] = rights[q]
      BY <1>0, <2>11 DEF SaveRights, At
    <3>2. b \in Time /\ rights[r] \subseteq Event /\ Forward(rights[r]) /\ IsFiniteSet(rights[r])
          /\ \A e \in rights[r] : e.end > b
      BY <1>0, <3>1, WindowEnds DEF DateStages, RowInv
    <3> HIDE DEF b
    <3>3. ASSUME NEW e \in rights[r] PROVE F[e].start <= F[e].end
      <4>1. e.start \in Int /\ e.end \in Int /\ b \in Int /\ e.end > b /\ e.start <= e.end
        BY <1>0, <3>2 DEF Event, Time, Forward
      <4>2. (IF e.end > e.end THEN e.end ELSE e.end) = e.end  BY <4>1
      <4>3. Clip(e, b, e.end).end = e.end
            /\ Clip(e, b, e.end).start = IF e.start < b THEN b ELSE e.start
        BY <3>2, <4>2 DEF Clip, Event
      <4> QED BY <4>1, <4>3
    <3>4. E = Clips
      <4>1. \A e \in rights[r] : F[e] = Clip(e, b, e.end)  OBVIOUS
      <4> HIDE DEF F
      <4> QED BY <4>1
    <3> HIDE DEF Clips, F
    <3>5. Forward(E)  BY <3>3 DEF Forward
    <3>6. IsFiniteSet(E)  BY <3>2, FiniteImage
    <3> HIDE DEF E
    <3>7. /\ events' \subseteq events \cup E /\ pc'[r] \in {"end", "failed"}
          /\ \A q \in Request \ {r} : pc'[q] = pc[q]
      BY <3>1, <3>4, WriteRows
    <3>8. Reaching(r)'  BY <3>7 DEF Reaching
    <3> QED BY <3>1, <3>5, <3>6, <3>7, <3>8, RowWrite
  <2> QED
    BY <1>1, <2>1, <2>2, <2>3, <2>4, <2>5, <2>7, <2>8, <2>9, <2>10, <2>11 DEF Step
<1>2. ASSUME NEW r \in Request, Open(r) PROVE RowInv'
  <2>1. /\ UNCHANGED <<events, held, rights>> /\ pc'[r] \notin {"rights", "saveLefts", "saveRights"}
        /\ \A q \in Request \ {r} : pc'[q] = pc[q] /\ task'[q] = task[q]
    BY <1>0, <1>2 DEF Open, ProcessOrder, ReleaseProductByDates, BuildSchedule, Begin, Goto, rowVars, copyVars
  <2> QED BY <2>1, RowReads DEF Reaching
<1>3. ASSUME events' \subseteq events, UNCHANGED <<pc, task, held, rights>> PROVE RowInv'
  <2>1. IsFiniteSet({}) /\ Forward({})  BY FS_EmptySet DEF Forward
  <2>2. \A q \in Request : Reaching(q) => Reaching(q)'
    BY <1>3 DEF Reaching, Window
  <2> QED BY <1>3, <2>1, <2>2, RowStep
<1>4. ASSUME NEW i \in Item, RemoveItem(i) PROVE RowInv'
  BY <1>3, <1>4 DEF RemoveItem, copyVars
<1>5. CASE UNCHANGED vars
  BY <1>3, <1>5 DEF vars, rowVars, copyVars
<1> QED BY <1>1, <1>2, <1>4, <1>5 DEF Next

LEMMA RowsHold == Spec => []RowInv
<1>1. Init => RowInv
  <2> SUFFICES ASSUME Init PROVE RowInv
    OBVIOUS
  <2>1. IsFiniteSet(events) /\ Forward(events)
    BY RentalAssumption DEF RentalAssumption, Init, Forward
  <2>2. IsFiniteSet({})  BY FS_EmptySet
  <2> QED BY <2>1, <2>2 DEF Init, RowInv, Forward
<1>2. ExactInv /\ RowInv /\ [Next]_vars => RowInv'
  BY RentalAssumption, RowNext DEF ExactInv
<1> QED BY <1>1, <1>2, ExactHolds, PTL DEF Spec

LEMMA EndsQuery ==
  ASSUME RentalAssumption, ExactInv, RowInv, NEW r \in Request, [Next]_vars, Ends(r),
         task[r].kind = "query", Alone(r)
  PROVE  LET Touching == {e \in Mine(r) : e.start <= Window(r)[2] /\ e.end >= Window(r)[1]} IN
         /\ {f[2] : f \in found[r]} = Touching
         /\ Cardinality(found[r]) = Cardinality(Touching)
<1> DEFINE p == Window(r)
           M == Mine(r)
           T == {e \in M : e.start <= p[2] /\ e.end >= p[1]}
           A == Inner(M, p)
           B == Outer(M, p)
           C == Left(M, p)
           D == Right(M, p)
           S == found[r]
<1>1. pc[r] = "end" /\ QueryDone(r) /\ task[r] \in WindowTask
  BY EndsCalm DEF KindFits, Done, OrderStatus, Returning, OrderTask
<1>2. S = UNION {{"inner"} \X A, {"outer"} \X B, {"left"} \X C, {"right"} \X D}
  BY <1>1 DEF QueryDone
<1>3. /\ A \cup B \cup C \cup D = T
      /\ A \cap (B \cup C \cup D) = {} /\ B \cap (C \cup D) = {} /\ C \cap D = {}
  <2>1. p \in Period /\ MaxTime \in Nat
    BY <1>1 DEF WindowTask, Window, RentalAssumption
  <2>2. M \subseteq events /\ events \subseteq Event
    BY DEF Mine, OfProduct, ExactInv, RentalInv, TypeOK
  <2>3. M \in SUBSET Event /\ \A e \in M : e.start <= e.end
    BY <2>2 DEF RowInv, Forward
  <2> HIDE DEF p, M
  <2> QED BY <2>1, <2>3, QueriesPartition
<1>4. IsFiniteSet(T)
  <2>1. T \subseteq events  BY DEF Mine, OfProduct
  <2> QED BY <2>1, FS_Subset DEF RowInv
<1> HIDE DEF p, M, T, A, B, C, D, S
<1>5. \A f \in S : f[2] \in T
  BY <1>2, <1>3
<1>6. ASSUME NEW e \in T PROVE \E f \in S : f[2] = e
  <2>1. \E c : <<c, e>> \in S
    BY <1>2, <1>3
  <2>2. PICK c : <<c, e>> \in S  BY <2>1
  <2> QED BY <2>2
<1>7. ASSUME NEW f \in S, NEW g \in S, f[2] = g[2] PROVE f = g
  <2>1. /\ f = <<f[1], f[2]>> /\ g = <<g[1], g[2]>>
        /\ \/ f[1] = "inner" /\ f[2] \in A
           \/ f[1] = "outer" /\ f[2] \in B
           \/ f[1] = "left" /\ f[2] \in C
           \/ f[1] = "right" /\ f[2] \in D
        /\ \/ g[1] = "inner" /\ g[2] \in A
           \/ g[1] = "outer" /\ g[2] \in B
           \/ g[1] = "left" /\ g[2] \in C
           \/ g[1] = "right" /\ g[2] \in D
    BY <1>2
  <2> QED BY <1>3, <1>7, <2>1
<1> DEFINE F == [f \in S |-> f[2]]
<1>8. F \in Injection(S, T) /\ F \in Surjection(S, T)
  BY <1>5, <1>6, <1>7 DEF Injection, Surjection, IsInjective
<1>9. Cardinality(S) = Cardinality(T)
  BY <1>4, <1>8, FS_Injection
<1>10. {f[2] : f \in S} = T
  BY <1>5, <1>6
<1> QED BY <1>9, <1>10 DEF S, T, M, p

(* buildSchedule finds each row that touches the period once, and nothing else, *)
(* when nothing runs beside it.                                                 *)
THEOREM ScheduleExactCorrect == Spec => ScheduleExact
<1>1. ExactInv /\ RowInv /\ [Next]_vars =>
        [\A r \in Request :
           LET Touching == {e \in Mine(r) : e.start <= Window(r)[2] /\ e.end >= Window(r)[1]} IN
           Ends(r) /\ task[r].kind = "query" /\ Alone(r) =>
             /\ {f[2] : f \in found[r]} = Touching
             /\ Cardinality(found[r]) = Cardinality(Touching)]_vars
  BY RentalAssumption, EndsQuery
<1> QED BY <1>1, ExactHolds, RowsHold, PTL DEF Spec, ScheduleExact

------------------------------------------------------------------------------
(* One booking at a time. *)

(* While no two calls ran side by side, every running call is a calm one. *)
LEMMA OnlyOne ==
  ASSUME CalmInv, disturbed = {}, NEW r \in Request, Running(r)
  PROVE  Calm(r) /\ Done(r) /\ \A q \in Request \ {r} : pc[q] \notin {"tail", "drop"}
<1>1. Calm(r)  BY DEF Calm
<1>2. Active = {r} /\ Done(r)  BY <1>1 DEF CalmInv
<1> QED BY <1>1, <1>2 DEF Active

(* A step outside the splits that keeps the rows apart keeps the invariant. *)
LEMMA ApartStep ==
  ASSUME CalmInv, ApartInv, NEW r \in Request, Running(r), disturbed' = disturbed,
         {pc[r], pc'[r]} \cap {"tail", "drop"} = {},
         \A q \in Request \ {r} : pc'[q] = pc[q],
         disturbed = {} /\ Done(r) /\ Disjoint(events) => Disjoint(events')
  PROVE  ApartInv'
<1>1. ASSUME disturbed' = {} PROVE Disjoint(events') /\ \A q \in Request : pc'[q] \notin {"tail", "drop"}
  <2>1. disturbed = {} /\ Done(r) /\ \A q \in Request : pc[q] \notin {"tail", "drop"}
    BY <1>1, OnlyOne
  <2>2. Disjoint(events)  BY <2>1 DEF ApartInv
  <2> QED BY <2>1, <2>2
<1> QED BY <1>1 DEF ApartInv

(* Rows that shrink stay apart. *)
LEMMA Shrink ==
  ASSUME NEW E, NEW S \in SUBSET E, NEW F, NEW G, \A x \in G : \E e \in S : x = F[e], Disjoint(E),
         \A e \in E : e.start \in Int /\ e.end \in Int,
         \A e \in S : /\ F[e].item = e.item /\ F[e].start \in Int /\ F[e].end \in Int
                      /\ e.start <= F[e].start /\ F[e].end <= e.end
  PROVE  Disjoint((E \ S) \cup G)
<1> DEFINE O(x) == {e \in E : \/ e \notin S /\ x = e
                              \/ e \in S /\ x = F[e]}
<1>1. ASSUME NEW x \in (E \ S) \cup G
      PROVE  \E o \in E : o \in O(x)
  OBVIOUS
<1>2. ASSUME NEW x, NEW o \in O(x)
      PROVE  /\ x.item = o.item /\ x.start \in Int /\ x.end \in Int
             /\ o.start <= x.start /\ x.end <= o.end /\ o.start \in Int /\ o.end \in Int
  OBVIOUS
<1>3. ASSUME NEW x, NEW y, NEW o, o \in O(x), o \in O(y) PROVE x = y
  BY <1>3
<1>4. ASSUME NEW x \in (E \ S) \cup G, NEW y \in (E \ S) \cup G,
             x # y, x.item = y.item
      PROVE  Apart(x, y)
  <2>1. PICK o \in E : o \in O(x)  BY <1>1
  <2>2. PICK u \in E : u \in O(y)  BY <1>1
  <2>3. o # u  BY <1>3, <1>4, <2>1, <2>2
  <2>4. /\ x.item = o.item /\ x.start \in Int /\ x.end \in Int
        /\ o.start <= x.start /\ x.end <= o.end /\ o.start \in Int /\ o.end \in Int
    BY <1>2, <2>1
  <2>5. /\ y.item = u.item /\ y.start \in Int /\ y.end \in Int
        /\ u.start <= y.start /\ y.end <= u.end /\ u.start \in Int /\ u.end \in Int
    BY <1>2, <2>2
  <2>6. Apart(o, u)  BY <1>4, <2>3, <2>4, <2>5 DEF Disjoint
  <2> QED BY <2>4, <2>5, <2>6 DEF Apart
<1> QED BY <1>4 DEF Disjoint

LEMMA ApartSaveHead ==
  ASSUME RentalAssumption, RentalInv, KeyInv, CalmInv, ApartInv,
         NEW r \in Request, NEW e \in held[r], SaveHead(r, e)
  PROVE  ApartInv'
<1> DEFINE a == Window(r)[1]
           h == Fresh(Piece(e, e.start, a))
<1>1. /\ pc[r] = "split" /\ Write(r, {h}, "tail") /\ outer'[r] = {e} /\ disturbed' = disturbed
      /\ Window(r)' = Window(r) /\ \A q \in Request \ {r} : outer'[q] = outer[q]
  BY DEF SaveHead, At, ghostVars, RentalInv, TypeOK, Window
<1>2. \A q \in Request \ {r} : pc'[q] = pc[q]
  BY <1>1, WriteRows
<1>3. ASSUME disturbed' = {} PROVE ApartInv'
  <2>1. /\ DatesDone(r) /\ \A q \in Request : pc[q] \notin {"tail", "drop"}
    <3>1. Running(r) /\ task[r].kind = "dates"
      BY <1>1 DEF Running, CalmInv, KindFits, DateStages
    <3> QED BY <1>1, <1>3, <3>1, OnlyOne DEF Done
  <2>2. Disjoint(events) /\ e \in events /\ e \in Event /\ e.item \in present
    BY <1>1, <1>3, <2>1 DEF ApartInv, DatesDone, Mine, OfProduct, RentalInv, TypeOK
  <2>3. /\ h.id = <<batch + 1, <<e.start, a>>>> /\ h.item = e.item /\ h.start = e.start /\ h.end = a
    BY DEF Fresh, Piece
  <2>4. /\ a \in Int /\ e.start \in Int /\ e.end \in Int /\ a < e.end
        /\ \A x \in events : x.start \in Int /\ x.end \in Int
    <3>1. Spans(e, Window(r)) /\ Window(r)[2] \in Int /\ a \in Int /\ a <= Window(r)[2]
      BY <1>1, DatesFacts DEF RentalInv, CallFits, DateStages
    <3>2. \A x \in events : x.start \in Int /\ x.end \in Int
      BY <1>1, DatesFacts DEF DateStages
    <3> QED BY <2>2, <3>1, <3>2 DEF Spans
  <2> HIDE DEF h, a
  <2>5. events' = events \cup {h} /\ pc'[r] = "tail"
    <3>1. Saveable({h})  BY <2>2, <2>3 DEF Saveable
    <3>2. events' = Save({h}) /\ pc' = [pc EXCEPT ![r] = "tail"]
      BY <1>1, <3>1 DEF Write, Goto
    <3> QED BY <2>3, <3>2, SaveFresh DEF RentalInv, TypeOK
  <2>6. \A f \in events \ {e} : f.item = e.item => Apart(h, f) /\ Apart(f, h) /\ Apart(e, f)
    BY <2>2, <2>3, <2>4 DEF Disjoint, Apart
  <2>7. Disjoint(events' \ {e})
    BY <2>2, <2>3, <2>5, <2>6 DEF Disjoint
  <2>8. \A f \in events' \ {e} : f.item = e.item => Apart(e, f) \/ f.end <= a
    BY <2>3, <2>4, <2>5, <2>6
  <2>9. \A q \in Request \ {r} : pc'[q] \notin {"tail", "drop"}
    BY <1>2, <2>1
  <2>10. \A q \in Request : pc'[q] \in {"tail", "drop"} => q = r
    BY <2>9
  <2>11. \A f \in events' \ {e} : f.item = e.item => Apart(e, f) \/ f.end <= Window(r)'[1]
    BY <1>1, <2>8 DEF a
  <2> QED BY <1>1, <2>5, <2>7, <2>10, <2>11 DEF ApartInv
<1> QED BY <1>3 DEF ApartInv

LEMMA ApartSaveTail ==
  ASSUME RentalAssumption, RentalInv, KeyInv, CalmInv, ApartInv,
         NEW r \in Request, NEW e \in outer[r], SaveTail(r, e)
  PROVE  ApartInv'
<1> DEFINE b == Window(r)[2]
           t == Fresh(Piece(e, b, e.end))
<1>1. /\ pc[r] = "tail" /\ Write(r, {t}, "drop") /\ outer' = outer /\ disturbed' = disturbed
  BY DEF SaveTail, At, ghostVars, copyVars
<1>2. \A q \in Request \ {r} : pc'[q] = pc[q]
  BY <1>1, WriteRows
<1>3. ASSUME disturbed' = {} PROVE ApartInv'
  <2>1. /\ DatesDone(r) /\ \A q \in Request \ {r} : pc[q] \notin {"tail", "drop"}
    <3>1. Running(r) /\ task[r].kind = "dates"
      BY <1>1 DEF Running, CalmInv, KindFits, DateStages
    <3> QED BY <1>1, <1>3, <3>1, OnlyOne DEF Done
  <2>2. outer[r] = {e} /\ e \in events /\ e \in Event /\ e.item \in present
    BY <1>1, <2>1 DEF DatesDone, Mine, OfProduct, RentalInv, TypeOK
  <2>3. /\ Disjoint(events \ {e})
        /\ \A f \in events \ {e} : f.item = e.item => Apart(e, f) \/ f.end <= Window(r)[1]
    BY <1>1, <1>3, <2>2 DEF ApartInv
  <2>4. /\ t.id = <<batch + 1, <<b, e.end>>>> /\ t.item = e.item /\ t.start = b /\ t.end = e.end
    BY DEF Fresh, Piece
  <2>5. /\ b \in Int /\ e.start \in Int /\ e.end \in Int /\ e.start < b
        /\ Window(r)[1] \in Int /\ Window(r)[1] <= b
        /\ \A x \in events : x.start \in Int /\ x.end \in Int
    <3>1. Spans(e, Window(r)) /\ b \in Int /\ Window(r)[1] \in Int /\ Window(r)[1] <= b
      BY <1>1, DatesFacts DEF RentalInv, CallFits, DateStages
    <3>2. \A x \in events : x.start \in Int /\ x.end \in Int
      BY <1>1, DatesFacts DEF DateStages
    <3> QED BY <2>2, <3>1, <3>2 DEF Spans
  <2> HIDE DEF t, b
  <2>6. events' = events \cup {t} /\ pc'[r] = "drop"
    <3>1. Saveable({t})  BY <2>2, <2>4 DEF Saveable
    <3>2. events' = Save({t}) /\ pc' = [pc EXCEPT ![r] = "drop"]
      BY <1>1, <3>1 DEF Write, Goto
    <3> QED BY <2>4, <3>2, SaveFresh DEF RentalInv, TypeOK
  <2>7. \A f \in events \ {e} : f.item = e.item => Apart(t, f) /\ Apart(f, t)
    BY <2>3, <2>4, <2>5 DEF Apart
  <2>8. Disjoint(events' \ {e})
    BY <2>3, <2>4, <2>6, <2>7 DEF Disjoint
  <2>9. \A q \in Request \ {r} : pc'[q] \notin {"tail", "drop"}
    BY <1>2, <2>1
  <2> QED BY <1>1, <2>2, <2>6, <2>8, <2>9 DEF ApartInv
<1> QED BY <1>3 DEF ApartInv

LEMMA ApartDropOuter ==
  ASSUME RentalInv, KeyInv, CalmInv, ApartInv, NEW r \in Request, NEW e \in outer[r], DropOuter(r, e)
  PROVE  ApartInv'
<1>1. /\ pc[r] = "drop" /\ pc'[r] = "split" /\ \A q \in Request \ {r} : pc'[q] = pc[q]
      /\ events' = events \ Dropped(e) /\ disturbed' = disturbed
  BY DEF DropOuter, At, Goto, ghostVars, RentalInv, TypeOK
<1>2. ASSUME disturbed' = {}
      PROVE  Disjoint(events') /\ \A q \in Request : pc'[q] \notin {"tail", "drop"}
  <2>1. /\ DatesDone(r) /\ \A q \in Request \ {r} : pc[q] \notin {"tail", "drop"}
    <3>1. Running(r) /\ task[r].kind = "dates"
      BY <1>1 DEF Running, CalmInv, KindFits, DateStages
    <3> QED BY <1>1, <1>2, <3>1, OnlyOne DEF Done
  <2>2. outer[r] = {e} /\ e \in events
    BY <1>1, <2>1 DEF DatesDone, Mine, OfProduct
  <2>3. events' = events \ {e}
    BY <1>1, <2>2 DEF Dropped, KeyInv, Keyed
  <2> QED BY <1>1, <1>2, <2>1, <2>2, <2>3 DEF ApartInv
<1> QED BY <1>2 DEF ApartInv

LEMMA ApartBlockProducts ==
  ASSUME RentalAssumption, PeriodsApart, RentalInv, KeyInv, CalmInv, ApartInv,
         \A q \in Request : task[q] \in OrderTask => task[q].periods \in PeriodSets,
         NEW r \in Request, NEW i \in Item, BlockProducts(r, i)
  PROVE  ApartInv'
<1> DEFINE st == ScheduleStatus(task[r].kind)
           Row(p) == Fresh([id |-> 0, item |-> i, start |-> p[1], end |-> p[2], status |-> st])
           New == {Row(p) : p \in task[r].periods}
<1>1. /\ pc[r] = "block" /\ i \in todo[r] /\ Write(r, New, "block") /\ disturbed' = disturbed
  BY DEF BlockProducts, At
<1>2. /\ pc'[r] \in {"block", "failed"} /\ \A q \in Request \ {r} : pc'[q] = pc[q]
      /\ events' = events \/ events' = Save(New)
  BY <1>1 DEF Write, Goto, RentalInv, TypeOK
<1>3. task[r] \in OrderTask /\ task[r].periods \in PeriodSets /\ task[r].periods \subseteq Period
  BY <1>1 DEF RentalInv, CallFits, OrderStages, OrderTask
<1>4. \A p \in Period : /\ Row(p).id[1] = batch + 1 /\ Row(p).item = i
                        /\ Row(p).start = p[1] /\ Row(p).end = p[2]
  BY DEF Fresh
<1> HIDE DEF st, Row
<1>5. (\A e \in New : e.id[1] = batch + 1 /\ e.item = i) /\ Disjoint(New)
  BY <1>3, <1>4 DEF PeriodsApart, Disjoint, Apart
<1> HIDE DEF New
<1>6. Running(r)  BY <1>1 DEF Running
<1>7. ASSUME disturbed = {}, Done(r), Disjoint(events) PROVE Disjoint(events')
  <2>1. OrderDone(r)
    BY <1>1, <1>7 DEF CalmInv, KindFits, Done
  <2>2. \A e \in events : e.item # i
    BY <1>1, <2>1 DEF OrderDone
  <2>3. events' = events \/ events' = events \cup New
    BY <1>2, <1>5, SaveFresh
  <2> QED BY <1>5, <1>7, <2>2, <2>3 DEF Disjoint
<1>8. {pc[r], pc'[r]} \cap {"tail", "drop"} = {}  BY <1>1, <1>2
<1> QED BY <1>1, <1>2, <1>6, <1>7, <1>8, ApartStep

(* A step that saves shrunk copies of rows the call has read. *)
LEMMA ApartSave ==
  ASSUME RentalInv, KeyInv, CalmInv, ApartInv, NEW r \in Request, NEW S, NEW F, NEW E, NEW stage,
         Running(r), disturbed' = disturbed, {pc[r], stage} \cap {"tail", "drop"} = {},
         Write(r, E, stage), \A x \in E : \E e \in S : x = F[e], \A e \in S : F[e] \in E,
         disturbed = {} /\ Done(r) =>
           /\ S \subseteq events
           /\ \A e \in events : e.start \in Int /\ e.end \in Int
           /\ \A e \in S : /\ F[e].id = e.id /\ F[e].item = e.item
                           /\ F[e].start \in Int /\ F[e].end \in Int
                           /\ e.start <= F[e].start /\ F[e].end <= e.end
  PROVE  ApartInv'
<1>1. /\ pc'[r] \in {stage, "failed"} /\ \A q \in Request \ {r} : pc'[q] = pc[q]
      /\ events' = events \/ events' = Save(E)
  BY DEF Write, Goto, RentalInv, TypeOK
<1>2. ASSUME disturbed = {}, Done(r), Disjoint(events) PROVE Disjoint(events')
  <2>1. /\ S \in SUBSET events
        /\ \A e \in events : e.start \in Int /\ e.end \in Int
        /\ \A e \in S : /\ F[e].id = e.id /\ F[e].item = e.item
                        /\ F[e].start \in Int /\ F[e].end \in Int
                        /\ e.start <= F[e].start /\ F[e].end <= e.end
    BY <1>2
  <2>2. Disjoint((events \ S) \cup E)
    BY <1>2, <2>1, Shrink
  <2>3. (\A e \in S : \E x \in E : x.id = e.id) /\ \A x \in E : \E e \in S : x.id = e.id
    BY <2>1
  <2>4. Save(E) = (events \ S) \cup E
    BY <2>1, <2>3, SaveCopies
  <2> QED BY <1>1, <1>2, <2>2, <2>4
<1>3. {pc[r], pc'[r]} \cap {"tail", "drop"} = {}  BY <1>1
<1> QED BY <1>1, <1>2, <1>3, ApartStep

LEMMA ApartTrim ==
  ASSUME RentalAssumption, RentalInv, KeyInv, CalmInv, ApartInv,
         NEW r \in Request, NEW e \in held[r], Trim(r, e)
  PROVE  ApartInv'
<1> DEFINE t == task[r].date
           F == [x \in {e} |-> Trimmed(x, t)]
<1>1. /\ pc[r] = "trim" /\ Write(r, {Trimmed(e, t)}, "trim") /\ disturbed' = disturbed
  BY DEF Trim, At, ghostVars
<1>2. /\ t \in Int /\ t \in Time /\ e \in Event /\ e.start \in Int /\ e.end \in Int /\ t < e.end
      /\ \A x \in events : x.start \in Int /\ x.end \in Int
  <2>1. /\ t \in Int /\ t \in Time /\ e \in Event /\ \A x \in events : x.start \in Int /\ x.end \in Int
    BY <1>1, ReturnFacts DEF RentalInv, TypeOK
  <2> QED BY <1>1, <2>1 DEF RentalInv, CallFits, Event, Time
<1>3. /\ F[e].id = e.id /\ F[e].item = e.item /\ F[e].start = e.start /\ F[e].end = t
  BY <1>2 DEF Trimmed, Event
<1>4. F[e] = Trimmed(e, t)
  OBVIOUS
<1>5. ASSUME Done(r) PROVE e \in events
  <2>1. ReturnDone(r)  BY <1>1, <1>5 DEF CalmInv, KindFits, Done
  <2> QED BY <1>1, <2>1 DEF ReturnDone, OfItems
<1>6. Running(r)  BY <1>1 DEF Running
<1> HIDE DEF F, t
<1>7. Write(r, {Trimmed(e, t)}, "trim")  BY <1>1
<1>8. Done(r) =>
        /\ {e} \subseteq events
        /\ \A x \in {e} : /\ F[x].id = x.id /\ F[x].item = x.item
                          /\ F[x].start \in Int /\ F[x].end \in Int
                          /\ x.start <= F[x].start /\ F[x].end <= x.end
  BY <1>2, <1>3, <1>5
<1>9. (\A x \in {Trimmed(e, t)} : \E y \in {e} : x = F[y]) /\ \A y \in {e} : F[y] \in {Trimmed(e, t)}
  BY <1>4
<1>10. {pc[r], "trim"} \cap {"tail", "drop"} = {}  BY <1>1
<1>11. disturbed' = disturbed /\ \A x \in events : x.start \in Int /\ x.end \in Int
  BY <1>1, <1>2
<1> DEFINE S == {e}
           E == {Trimmed(e, t)}
<1>12. Done(r) =>
        /\ S \subseteq events
        /\ \A x \in events : x.start \in Int /\ x.end \in Int
        /\ \A x \in S : /\ F[x].id = x.id /\ F[x].item = x.item
                        /\ F[x].start \in Int /\ F[x].end \in Int
                        /\ x.start <= F[x].start /\ F[x].end <= x.end
  BY <1>8, <1>11
<1>13. Write(r, E, "trim") /\ (\A x \in E : \E y \in S : x = F[y]) /\ \A y \in S : F[y] \in E
  BY <1>7, <1>9
<1> HIDE DEF S, E
<1> QED BY <1>6, <1>10, <1>11, <1>12, <1>13, ApartSave

LEMMA ApartSaveLefts ==
  ASSUME RentalAssumption, RentalInv, KeyInv, CalmInv, ApartInv, NEW r \in Request, SaveLefts(r)
  PROVE  ApartInv'
<1> DEFINE a == Window(r)[1]
           S == held[r]
           F == [e \in S |-> Clip(e, e.start, a)]
           E == {Clip(e, e.start, a) : e \in S}
<1>1. /\ pc[r] = "saveLefts" /\ Write(r, {Clip(e, e.start, a) : e \in S}, "saveRights")
      /\ disturbed' = disturbed
  BY DEF SaveLefts, At, ghostVars
<1>2. /\ a \in Int /\ a \in Time /\ events \subseteq Event /\ MaxTime \in Nat
      /\ \A x \in events : x.start \in Int /\ x.end \in Int
  BY <1>1, DatesFacts, WindowEnds DEF DateStages
<1>3. (\A c \in E : \E e \in S : c = F[e]) /\ \A e \in S : F[e] \in E
  OBVIOUS
<1>4. ASSUME Done(r) PROVE S \subseteq events /\ \A e \in S : e.end >= a
  <2>1. DatesDone(r)  BY <1>1, <1>4 DEF CalmInv, KindFits, Done, DateStages
  <2> QED BY <1>1, <2>1 DEF DatesDone, Left, Mine, OfProduct
<1>5. ASSUME Done(r), NEW e \in S
      PROVE  /\ F[e].id = e.id /\ F[e].item = e.item /\ F[e].start \in Int /\ F[e].end \in Int
             /\ e.start <= F[e].start /\ F[e].end <= e.end
  <2>1. e \in events /\ e \in Event /\ e.end >= a  BY <1>2, <1>4, <1>5
  <2>2. /\ F[e].id = e.id /\ F[e].item = e.item /\ F[e].start = e.start /\ F[e].end = a
    BY <1>2, <2>1, ClipLeft
  <2> QED BY <1>2, <2>1, <2>2
<1>6. Running(r)  BY <1>1 DEF Running
<1>7. Write(r, E, "saveRights") /\ {pc[r], "saveRights"} \cap {"tail", "drop"} = {}  BY <1>1
<1> HIDE DEF E, F, S, a
<1>8. Done(r) =>
        /\ S \subseteq events
        /\ \A e \in events : e.start \in Int /\ e.end \in Int
        /\ \A e \in S : /\ F[e].id = e.id /\ F[e].item = e.item
                        /\ F[e].start \in Int /\ F[e].end \in Int
                        /\ e.start <= F[e].start /\ F[e].end <= e.end
  BY <1>2, <1>4, <1>5
<1>9. disturbed' = disturbed  BY <1>1
<1> QED BY <1>3, <1>6, <1>7, <1>8, <1>9, ApartSave

LEMMA ApartSaveRights ==
  ASSUME RentalAssumption, RentalInv, KeyInv, CalmInv, ApartInv, NEW r \in Request, SaveRights(r)
  PROVE  ApartInv'
<1> DEFINE b == Window(r)[2]
           S == rights[r]
           F == [e \in S |-> Clip(e, b, e.end)]
           E == {Clip(e, b, e.end) : e \in S}
<1>1. /\ pc[r] = "saveRights" /\ Write(r, {Clip(e, b, e.end) : e \in S}, "end")
      /\ disturbed' = disturbed
  BY DEF SaveRights, At, ghostVars
<1>2. /\ b \in Int /\ b \in Time /\ events \subseteq Event /\ MaxTime \in Nat
      /\ \A x \in events : x.start \in Int /\ x.end \in Int
  BY <1>1, DatesFacts, WindowEnds DEF DateStages
<1>3. (\A c \in E : \E e \in S : c = F[e]) /\ \A e \in S : F[e] \in E
  OBVIOUS
<1>4. ASSUME Done(r) PROVE S \subseteq events /\ \A e \in S : e.start <= b
  <2>1. DatesDone(r)  BY <1>1, <1>4 DEF CalmInv, KindFits, Done, DateStages
  <2> QED BY <1>1, <2>1 DEF DatesDone, Right, Mine, OfProduct
<1>5. ASSUME Done(r), NEW e \in S
      PROVE  /\ F[e].id = e.id /\ F[e].item = e.item /\ F[e].start \in Int /\ F[e].end \in Int
             /\ e.start <= F[e].start /\ F[e].end <= e.end
  <2>1. e \in events /\ e \in Event /\ e.start <= b  BY <1>2, <1>4, <1>5
  <2>2. /\ F[e].id = e.id /\ F[e].item = e.item /\ F[e].start = b /\ F[e].end = e.end
    BY <1>2, <2>1, ClipRight
  <2> QED BY <1>2, <2>1, <2>2
<1>6. Running(r)  BY <1>1 DEF Running
<1>7. Write(r, E, "end") /\ {pc[r], "end"} \cap {"tail", "drop"} = {}  BY <1>1
<1> HIDE DEF E, F, S, b
<1>8. Done(r) =>
        /\ S \subseteq events
        /\ \A e \in events : e.start \in Int /\ e.end \in Int
        /\ \A e \in S : /\ F[e].id = e.id /\ F[e].item = e.item
                        /\ F[e].start \in Int /\ F[e].end \in Int
                        /\ e.start <= F[e].start /\ F[e].end <= e.end
  BY <1>2, <1>4, <1>5
<1>9. disturbed' = disturbed  BY <1>1
<1> QED BY <1>3, <1>6, <1>7, <1>8, <1>9, ApartSave

(* The periods of a running processOrder are ones an order can have. *)
PeriodsInv == \A r \in Request : task[r] \in OrderTask => task[r].periods \in PeriodSets

LEMMA PeriodsNext ==
  ASSUME RentalInv, PeriodsInv, [Next]_vars PROVE PeriodsInv'
<1>0. task \in [Request -> Task]  BY DEF RentalInv, TypeOK
<1>1. ASSUME NEW r \in Request, NEW t, task' = [task EXCEPT ![r] = t],
             t \in OrderTask => t.periods \in PeriodSets
      PROVE  PeriodsInv'
  BY <1>0, <1>1 DEF PeriodsInv
<1>2. ASSUME NEW r \in Request, Open(r) PROVE PeriodsInv'
  <2>1. ASSUME NEW st \in Statuses, NEW I \in ItemSets, NEW P \in PeriodSets, ProcessOrder(r, st, I, P)
        PROVE  PeriodsInv'
    BY <1>1, <2>1 DEF ProcessOrder, Begin
  <2>2. ASSUME NEW x \in Product, NEW p \in Windows, NEW kind \in {"dates", "query"}
        PROVE  [kind |-> kind, product |-> x, window |-> p] \notin OrderTask
    BY DEF OrderTask, OrderStatus
  <2>3. ASSUME NEW x \in Product, NEW p \in Windows, ReleaseProductByDates(r, x, p) \/ BuildSchedule(r, x, p)
        PROVE  PeriodsInv'
    BY <1>1, <2>2, <2>3 DEF ReleaseProductByDates, BuildSchedule, Begin
  <2> QED BY <1>2, <2>1, <2>3 DEF Open
<1>3. ASSUME NEW r \in Request, Return(r) PROVE PeriodsInv'
  BY <1>1, <1>3 DEF Return, OrderTask, NoTask, OrderStatus
<1>4. ASSUME task' = task PROVE PeriodsInv'
  BY <1>4 DEF PeriodsInv
<1>5. ASSUME NEW r \in Request, Step(r), ~Return(r) PROVE task' = task
  BY <1>5 DEF Step, ReleaseProducts, ReleaseFuture, ReadCrossing, BlockProducts, ReleaseInner,
     ReadOuters, ReadLefts, ReadRights, Trim, SaveHead, SaveTail, DropOuter, SaveLefts, SaveRights,
     ReadSchedule, Read
<1>6. ASSUME NEW i \in Item, RemoveItem(i) PROVE task' = task
  BY <1>6 DEF RemoveItem
<1> QED BY <1>2, <1>3, <1>4, <1>5, <1>6 DEF Next, vars

LEMMA ApartNext ==
  ASSUME RentalAssumption, PeriodsApart, ExactInv, PeriodsInv, ApartInv, [Next]_vars PROVE ApartInv'
<1> USE DEF ExactInv
<1>0. pc \in [Request -> Stage]  BY DEF RentalInv, TypeOK
<1>1. ASSUME NEW r \in Request, Step(r) PROVE ApartInv'
  <2>1. CASE \E i \in Item : BlockProducts(r, i)
    BY <2>1, ApartBlockProducts DEF PeriodsInv
  <2>2. CASE \E e \in held[r] : Trim(r, e) \/ SaveHead(r, e)
    BY <2>2, ApartTrim, ApartSaveHead
  <2>3. CASE \E e \in outer[r] : SaveTail(r, e) \/ DropOuter(r, e)
    BY <2>3, ApartSaveTail, ApartDropOuter
  <2>4. CASE SaveLefts(r) \/ SaveRights(r)
    BY <2>4, ApartSaveLefts, ApartSaveRights
  <2>5. CASE \/ ReleaseProducts(r) \/ ReleaseFuture(r) \/ ReadCrossing(r)
             \/ ReleaseInner(r) \/ ReadOuters(r) \/ ReadLefts(r) \/ ReadRights(r)
             \/ ReadSchedule(r) \/ Return(r)
    <3>1. /\ events' \subseteq events /\ disturbed' = disturbed
          /\ {pc[r], pc'[r]} \cap {"tail", "drop"} = {}
          /\ \A q \in Request \ {r} : pc'[q] = pc[q]
          /\ Running(r)
      BY <1>0, <2>5 DEF ReleaseProducts, ReleaseFuture, ReadCrossing, ReleaseInner, ReadOuters,
         ReadLefts, ReadRights, ReadSchedule, Read, Return, At, Goto, Running, rowVars, ghostVars
    <3>2. Disjoint(events) => Disjoint(events')  BY <3>1 DEF Disjoint
    <3> QED BY <3>1, <3>2, ApartStep
  <2> QED BY <1>1, <2>1, <2>2, <2>3, <2>4, <2>5 DEF Step
<1>2. ASSUME disturbed' = {} => Active = {}, disturbed \subseteq disturbed', events' \subseteq events,
             \A q \in Request : pc'[q] = pc[q] \/ pc'[q] \notin {"tail", "drop"}
      PROVE  ApartInv'
  <2>1. ASSUME disturbed' = {} PROVE Disjoint(events') /\ \A q \in Request : pc'[q] \notin {"tail", "drop"}
    <3>1. disturbed = {} /\ \A q \in Request : pc[q] \notin {"tail", "drop"}
      BY <1>2, <2>1 DEF Active
    <3> QED BY <1>2, <3>1 DEF ApartInv, Disjoint
  <2> QED BY <2>1 DEF ApartInv
<1>3. ASSUME NEW r \in Request, Open(r) PROVE ApartInv'
  <2>1. PICK t, stage : Begin(r, t, stage) /\ stage \in {"future", "release", "inner", "readInner"}
    <3>1. CASE \E st \in Statuses, I \in ItemSets, P \in PeriodSets : ProcessOrder(r, st, I, P)
      BY <3>1 DEF ProcessOrder
    <3>2. CASE \E x \in Product, p \in Windows : ReleaseProductByDates(r, x, p) \/ BuildSchedule(r, x, p)
      BY <3>2 DEF ReleaseProductByDates, BuildSchedule
    <3> QED BY <1>3, <3>1, <3>2 DEF Open
  <2>2. events' = events
    BY <1>3 DEF Open, ProcessOrder, ReleaseProductByDates, BuildSchedule, rowVars
  <2> QED BY <1>0, <1>2, <2>1, <2>2 DEF Begin, Goto
<1>4. ASSUME NEW i \in Item, RemoveItem(i) PROVE ApartInv'
  BY <1>2, <1>4 DEF RemoveItem
<1>5. ASSUME UNCHANGED vars PROVE ApartInv'
  BY <1>5 DEF vars, rowVars, ghostVars, copyVars, ApartInv, Window
<1> QED BY <1>1, <1>3, <1>4, <1>5 DEF Next

(* An item is booked once at a time: when the orders' periods do not overlap,   *)
(* no sequence of blocks, splits, cuts and trims makes two rows of one item     *)
(* overlap, as long as the calls come one after the other.                      *)
THEOREM BookedOnceCorrect == PeriodsApart => (Spec => []BookedOnce)
<1> SUFFICES ASSUME PeriodsApart PROVE Spec => []BookedOnce
  OBVIOUS
<1>1. Init => PeriodsInv /\ ApartInv
  BY RentalAssumption DEF Init, PeriodsInv, ApartInv, PeriodsApart, OrderTask, NoTask, OrderStatus
<1>2. ExactInv /\ PeriodsInv /\ ApartInv /\ [Next]_vars => (PeriodsInv /\ ApartInv)'
  BY RentalAssumption, PeriodsNext, ApartNext DEF ExactInv
<1>3. ApartInv => BookedOnce
  BY DEF ApartInv, BookedOnce, Active, Disjoint, Apart
<1> QED BY <1>1, <1>2, <1>3, ExactHolds, PTL DEF Spec
==============================================================================
