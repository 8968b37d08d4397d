------------------------------- MODULE Orders -------------------------------
(***************************************************************************)
(* Orders of the inventory module, composed with Shipments: OrderService,  *)
(* OrderItemService, ReservationService, OrderHandler.                     *)
(*                                                                         *)
(* A request of Shipments is now the tail of an order call: the call works *)
(* on the order, its items and reservations, then (stage "ship") hands its *)
(* status to the shipments and waits.  The event handler of OrderHandler   *)
(* runs beside the calls: every ShipmentStatusChanged event sets the       *)
(* status of the whole order, from a copy of the row read before.          *)
(*                                                                         *)
(* Order items are slots (Line); the reservations of an item at a          *)
(* warehouse are added up.                                                 *)
(***************************************************************************)
EXTENDS Shipments

CONSTANTS
  Handler,     \* bound: ShipmentStatusChanged handlers running at once
  Dtos,        \* bodies of create and update
  Targets,     \* statuses the callers ask for
  NoStatus,    \* status_id is null
  InitialOrder \* orders that exist at first, without items or shipments

Closing == {"shipped", "cancelled", "returned"}
OrderStatus == Status \cup {NoStatus}
Reservations == [Line -> [Warehouse -> Quantity]]
Dto == [total : Nat, lines : SUBSET Line, reservations : Reservations,
        omitted : SUBSET Line]  \* omitted: kept items without a reservations field
Nothing == [l \in Line |-> [w \in Warehouse |-> 0]]
NoCall == [stage |-> "new"]
Ended == {"new", "done", "failed"}
Resting == [stage |-> "idle"]

ASSUME OrdersAssumption ==
  /\ Dtos \subseteq Dto /\ Targets \subseteq OrderStatus /\ NoStatus \notin Status
  /\ InitialOrder \subseteq Order /\ InitialLast = 0

VARIABLES
  olive,       \* orders rows that exist
  orow,        \* their columns
  lines,       \* order_item rows of an order
  worth,       \* what the items of an order add up to
  reserved,    \* reservation rows
  call,        \* the order calls
  handler,     \* the running event handlers
  overlapped   \* ghost: orders on which two calls or handlers overlapped

rowVars == <<olive, orow>>
itemVars == <<lines, worth, reserved>>
callVars == <<call, handler>>
orderVars == <<rowVars, itemVars, callVars, overlapped>>
allVars == <<vars, orderVars>>

------------------------------------------------------------------------------
Active == {r \in Request : call[r].stage \notin Ended}
ActiveHandlers == {h \in Handler : handler[h] # Resting}

(* Something is still being done about order o. *)
Busy(o) ==
  \/ \E r \in Active : call[r].order = o
  \/ \E h \in ActiveHandlers : handler[h].order = o
  \/ \E st \in Status : events[<<o, st>>] > 0

(* Something is being done about order o that gives it another status. *)
Conflict(o, target) ==
  \/ \E r \in Active : call[r].order = o /\ call[r].target # target
  \/ \E h \in ActiveHandlers : handler[h].order = o /\ handler[h].row.status # target
  \/ \E st \in Status \ {target} : events[<<o, st>>] > 0

Touch(o, busy) == overlapped' = IF busy THEN overlapped \cup {o} ELSE overlapped

At(r, stage) == call[r].stage = stage
Goto(r, stage) == call' = [call EXCEPT ![r].stage = stage]
Fail(r) == Goto(r, "failed")

(* Changed forms of the next definitions: the bugs the properties must see. *)
RowOf_OldTotal(o, target, dto) == [orow[o] EXCEPT !.status = target]
Breaks_Empty(c, l) == l \in c.known /\ c.dto.reservations[l] = Nothing[l]
AfterItems_NoShipments(c) ==
  IF c.process /\ c.target \notin Closing THEN "ship" ELSE "done"
AfterItems_KeepsReservations(c) == IF c.process THEN "ship" ELSE "done"
Answered_Done(r) == pc[r] = "done"

(* The row create and update save. *)
RowOf(o, target, dto) == [status |-> target, total |-> dto.total]

(* createMany is awaited before updateItems: the new items come first. *)
CreatedFirst(c, l) ==
  l \in c.known => c.todo \cup c.saved \cup {x[1] : x \in c.fill} \subseteq c.known

(* updateItems hands an existing item's missing reservations to a for loop. *)
Breaks(c, l) == l \in c.known \cap c.dto.omitted

(* The shipments have answered a call. *)
Answered(r) == pc[r] \in {"done", "failed"}

(* The stage after the items: processOrderStatus only for a new status. *)
AfterItems(c) ==
  IF ~c.process THEN "done"
  ELSE IF c.target \in Closing THEN "release" ELSE "ship"

Call(kind, o, target, row_, dto, ret, process, stage) ==
  [kind |-> kind, order |-> o, target |-> target, row |-> row_, dto |-> dto,
   returnStocks |-> ret, process |-> process, stage |-> stage,
   known |-> {}, todo |-> {}, saved |-> {}, fill |-> {}, held |-> Nothing]

NoDto == [total |-> 0, lines |-> {}, reservations |-> Nothing, omitted |-> {}]

Open(r, c) ==
  /\ At(r, "new")
  /\ call' = [call EXCEPT ![r] = c]
  /\ Touch(c.order, Busy(c.order))
  /\ UNCHANGED <<vars, rowVars, itemVars, handler>>

------------------------------------------------------------------------------
(* The calls *)

(* findOne, updateFromDto; the status read here decides about processing. *)
Update(r, o, target, dto, ret) ==
  /\ o \in olive
  /\ Open(r, Call("update", o, target, RowOf(o, target, dto), dto, ret,
                  target # NoStatus /\ target # orow[o].status, "save"))

Create(r, o, target, dto) ==
  /\ o \notin olive \cup InitialOrder
  /\ \A q \in Request : call[q] # NoCall => call[q].order # o
  /\ Open(r, Call("create", o, target, RowOf(o, target, dto), dto, FALSE,
                  target # NoStatus, "save"))

(* checkCancelOrders for one order of its query: reserved and overdue. *)
Cancel(r, o) ==
  /\ o \in olive /\ orow[o].status = "reserved"
  /\ Open(r, Call("cancel", o, "cancelled", [orow[o] EXCEPT !.status = "cancelled"], NoDto,
                  TRUE, TRUE, "save"))

DeleteOrder(r, o, ret) ==
  /\ o \in olive
  /\ Open(r, Call("delete", o, Deleted, orow[o], NoDto, ret, TRUE, "release"))

(* The status of one shipment is changed directly (ShipmentController). *)
ChangeShipment(r, s, target, ret) ==
  /\ At(r, "new")
  /\ ChangeStatus(r, s, target, ret)
  /\ call' = [call EXCEPT ![r] = Call("shipment", row[s].order, target, orow[row[s].order],
                                      NoDto, ret, TRUE, "wait")]
  /\ Touch(row[s].order, Busy(row[s].order))
  /\ UNCHANGED <<rowVars, itemVars, handler>>

------------------------------------------------------------------------------
(* Their steps *)

SaveOrder(r) ==
  LET c == call[r] IN
  /\ At(r, "save")
  /\ orow' = [orow EXCEPT ![c.order] = c.row]
  /\ olive' = olive \cup {c.order}
  /\ Goto(r, IF c.kind = "cancel" THEN "release" ELSE "read")
  /\ UNCHANGED <<vars, itemVars, handler, overlapped>>

ReadItems(r) ==
  LET c == call[r] IN
  /\ At(r, "read")
  /\ call' = [call EXCEPT ![r] = [c EXCEPT !.known = lines[c.order], !.todo = c.dto.lines,
                                           !.stage = "items"]]
  /\ UNCHANGED <<vars, rowVars, itemVars, handler, overlapped>>

SaveLine(r, l) ==
  LET c == call[r] IN
  /\ At(r, "items") /\ l \in c.todo /\ CreatedFirst(c, l)
  /\ IF c.order \notin olive
       THEN Fail(r) /\ UNCHANGED lines
       ELSE /\ lines' = [lines EXCEPT ![c.order] = @ \cup {l}]
            /\ call' = [call EXCEPT ![r] = [c EXCEPT !.todo = @ \ {l}, !.saved = @ \cup {l}]]
  /\ UNCHANGED <<vars, rowVars, worth, reserved, handler, overlapped>>

(* The quantities create has to reserve for item l, by warehouse. *)
Asks(c, l) ==
  {<<l, w>> : w \in {x \in Warehouse : l \notin c.dto.omitted /\ c.dto.reservations[l][x] > 0}}

(* The reservations the item had are deleted.  An existing item whose dto   *)
(* has no reservations then breaks the loop over them.                      *)
DropReservations(r, l) ==
  LET c == call[r] IN
  /\ At(r, "items") /\ l \in c.saved
  /\ reserved' = [reserved EXCEPT ![c.order][l] = Nothing[l]]
  /\ IF Breaks(c, l)
       THEN Fail(r)
       ELSE call' = [call EXCEPT ![r] = [c EXCEPT !.saved = @ \ {l}, !.fill = @ \cup Asks(c, l)]]
  /\ UNCHANGED <<vars, rowVars, lines, worth, handler, overlapped>>

SaveReservation(r, l, w) ==
  LET c == call[r] IN
  /\ At(r, "items") /\ <<l, w>> \in c.fill
  /\ IF l \notin lines[c.order]
       THEN Fail(r) /\ UNCHANGED reserved
       ELSE /\ reserved' = [reserved EXCEPT ![c.order][l][w] = @ + c.dto.reservations[l][w]]
            /\ call' = [call EXCEPT ![r].fill = @ \ {<<l, w>>}]
  /\ UNCHANGED <<vars, rowVars, lines, worth, handler, overlapped>>

(* The items the dto does not name go, their reservations by cascade. *)
RemoveLines(r) ==
  LET c == call[r]
      gone == c.known \ c.dto.lines
  IN
  /\ At(r, "items") /\ c.todo \cup c.saved = {} /\ c.fill = {}
  /\ lines' = [lines EXCEPT ![c.order] = @ \ gone]
  /\ reserved' = [reserved EXCEPT ![c.order] =
                    [l \in Line |-> IF l \in gone THEN Nothing[l] ELSE @[l]]]
  /\ worth' = [worth EXCEPT ![c.order] = c.dto.total]
  /\ Goto(r, "reread")
  /\ UNCHANGED <<vars, rowVars, handler, overlapped>>

(* getForOrder reads the items, then the reservations of one at a time, and *)
(* processOrderStatus follows when the status is a new one.                 *)
Reread(c, held, left) ==
  [c EXCEPT !.held = held, !.todo = left, !.stage = IF left = {} THEN AfterItems(c) ELSE "fetch"]
RereadItems(r) ==
  LET c == call[r] IN
  /\ At(r, "reread")
  /\ call' = [call EXCEPT ![r] = Reread(c, Nothing, lines[c.order])]
  /\ UNCHANGED <<vars, rowVars, itemVars, handler, overlapped>>
FetchReservations(r, l) ==
  LET c == call[r] IN
  /\ At(r, "fetch") /\ l \in c.todo
  /\ call' = [call EXCEPT ![r] =
       Reread(c, [c.held EXCEPT ![l] = reserved[c.order][l]], c.todo \ {l})]
  /\ UNCHANGED <<vars, rowVars, itemVars, handler, overlapped>>

Release(r) ==
  LET c == call[r] IN
  /\ At(r, "release")
  /\ reserved' = [reserved EXCEPT ![c.order] = Nothing]
  /\ Goto(r, "ship")
  /\ UNCHANGED <<vars, rowVars, lines, worth, handler, overlapped>>

(* shipmentService.processOrder, or .delete for a deleted order. *)
Ship(r) ==
  LET c == call[r] IN
  /\ At(r, "ship")
  /\ CASE c.target = Deleted -> Delete(r, OfOrder(c.order), c.returnStocks)
       [] c.target = "sent_for_shipment" -> CreateForOrder(r, c.order, c.held)
       [] OTHER -> ProcessOrder(r, c.order, c.target, c.returnStocks)
  /\ Goto(r, "wait")
  /\ UNCHANGED <<rowVars, itemVars, handler, overlapped>>

(* The shipments are done; a deleted order takes its rows with it. *)
EndCall(r) ==
  LET c == call[r]
      gone == IF pc[r] = "done" /\ c.kind = "delete" THEN {c.order} ELSE {}
  IN
  /\ At(r, "wait") /\ Answered(r)
  /\ Goto(r, pc[r])
  /\ olive' = olive \ gone
  /\ lines' = [o \in Order |-> IF o \in gone THEN {} ELSE lines[o]]
  /\ reserved' = [o \in Order |-> IF o \in gone THEN Nothing ELSE reserved[o]]
  /\ live' = {s \in live : row[s].order \notin gone}
  /\ items' = [s \in Shipment |-> IF s \in live' THEN items[s] ELSE [l \in Line |-> 0]]
  /\ UNCHANGED <<stockVars, row, lastId, pc, createVars, jobVars, events, collided, contended,
                 aborts, orow, worth, handler, overlapped>>

(* The steps of Shipments; rows of a deleted order can not be inserted. *)
ShipmentStep(r) ==
  /\ At(r, "wait")
  /\ \/ \E s \in Shipment, l \in Line : ReadStock(r, s, l) \/ SaveStock(r, s, l)
     \/ \E s \in Shipment :
          SaveShipment(r, s) /\ (s \in live \/ job[r][s].row.order \in olive)
     \/ \E w \in Warehouse :
          \/ CreateShipment(r, w) /\ filter[r].orders \subseteq olive
          \/ \E l \in Line : CreateItem(r, l, w)
     \/ DeleteRows(r)
     \/ Return(r)
     \/ /\ \/ pc[r] = "create" /\ ~filter[r].orders \subseteq olive
              /\ \E w \in Warehouse : made[r][w] = 0 /\ \E l \in Line : plan[r][l][w] > 0
           \/ \E s \in Running(r) \ live :
                /\ job[r][s].target # Deleted /\ \A l \in Line : at[r][s][l] = "idle"
                /\ job[r][s].row.order \notin olive
        /\ Lose(r) /\ UNCHANGED aborts
  /\ UNCHANGED orderVars

(* The process restarts or the database refuses a call. *)
AbortCall(r) ==
  /\ aborts < MaxAborts
  /\ \/ At(r, "wait") /\ Abort(r) /\ UNCHANGED call
     \/ /\ call[r].stage \notin Ended \cup {"wait"}
        /\ aborts' = aborts + 1 /\ Fail(r)
        /\ UNCHANGED <<stockVars, shipmentVars, pc, createVars, jobVars, events, collided,
                       contended>>
  /\ UNCHANGED <<rowVars, itemVars, handler, overlapped>>

------------------------------------------------------------------------------
(* OrderHandler.onShipmentStatusChanged: processShipmentStatusChanged *)

TakeEvent(h, o, st) ==
  /\ handler[h] = Resting /\ events[<<o, st>>] > 0
  /\ events' = [events EXCEPT ![<<o, st>>] = @ - 1]
  /\ IF o \in olive /\ orow[o].status # st
       THEN /\ handler' = [handler EXCEPT ![h] =
                 [order |-> o, row |-> [orow[o] EXCEPT !.status = st], stage |-> "save"]]
            /\ Touch(o, Conflict(o, st))
       ELSE UNCHANGED <<handler, overlapped>>
  /\ UNCHANGED <<stockVars, shipmentVars, pc, createVars, jobVars, collided, contended, aborts,
                 rowVars, itemVars, call>>

SaveHandled(h) ==
  LET c == handler[h] IN
  /\ c.stage = "save"
  /\ orow' = [orow EXCEPT ![c.order] = c.row]
  /\ olive' = olive \cup {c.order}
  /\ handler' = [handler EXCEPT ![h] =
       IF c.row.status \in Closing THEN [c EXCEPT !.stage = "release"] ELSE Resting]
  /\ UNCHANGED <<vars, itemVars, call, overlapped>>

ReleaseHandled(h) ==
  LET c == handler[h] IN
  /\ c.stage = "release"
  /\ reserved' = [reserved EXCEPT ![c.order] = Nothing]
  /\ handler' = [handler EXCEPT ![h] = Resting]
  /\ UNCHANGED <<vars, rowVars, lines, worth, call, overlapped>>

(* A restart loses the handlers and the events, which live in memory only. *)
LoseHandlers ==
  /\ aborts < MaxAborts /\ aborts' = aborts + 1
  /\ handler' = [h \in Handler |-> Resting]
  /\ events' = [e \in Order \X Status |-> 0]
  /\ UNCHANGED <<stockVars, shipmentVars, pc, createVars, jobVars, collided, contended,
                 rowVars, itemVars, call, overlapped>>

------------------------------------------------------------------------------
OrdersInit ==
  /\ Init
  /\ olive = InitialOrder
  /\ orow = [o \in Order |-> [status |-> "reserved", total |-> 0]]
  /\ lines = [o \in Order |-> {}] /\ worth = [o \in Order |-> 0]
  /\ reserved = [o \in Order |-> Nothing]
  /\ call = [r \in Request |-> NoCall] /\ handler = [h \in Handler |-> Resting]
  /\ overlapped = {}

OpenCall(r) ==
  /\ Cardinality(Active) < MaxActive
  /\ \/ \E o \in Order, st \in Targets, d \in Dtos, ret \in BOOLEAN : Update(r, o, st, d, ret)
     \/ \E o \in Order, st \in Targets, d \in Dtos : Create(r, o, st, d)
     \/ \E o \in Order : Cancel(r, o)
     \/ \E o \in Order, ret \in BOOLEAN : DeleteOrder(r, o, ret)
     \/ \E s \in Shipment, st \in Targets \ {NoStatus}, ret \in BOOLEAN :
          ChangeShipment(r, s, st, ret)

CallStep(r) ==
  \/ SaveOrder(r) \/ ReadItems(r) \/ RemoveLines(r) \/ RereadItems(r)
  \/ \E l \in Line :
       \/ SaveLine(r, l) \/ DropReservations(r, l) \/ FetchReservations(r, l)
       \/ \E w \in Warehouse : SaveReservation(r, l, w)
  \/ Release(r) \/ Ship(r) \/ ShipmentStep(r) \/ EndCall(r)

HandlerStep(h) ==
  \/ \E o \in Order, st \in Status : TakeEvent(h, o, st)
  \/ SaveHandled(h) \/ ReleaseHandled(h)

OrdersNext ==
  \/ \E r \in Request : OpenCall(r) \/ CallStep(r) \/ AbortCall(r)
  \/ \E h \in Handler : HandlerStep(h)
  \/ LoseHandlers

(* Awaited calls return, and the emitter runs every listener. *)
OrdersFairness ==
  /\ \A r \in Request : WF_allVars(CallStep(r))
  /\ \A h \in Handler : WF_allVars(HandlerStep(h))

OrdersSpec == OrdersInit /\ [][OrdersNext]_allVars /\ OrdersFairness

------------------------------------------------------------------------------
(* Properties *)

(* Nobody works on order o now, nobody ever overlapped or was lost on it. *)
Settled(o) ==
  /\ o \in olive \ overlapped /\ ~Busy(o) /\ aborts = 0
  /\ \A r \in Request : call[r].stage # "failed"

(* An order and its shipments agree: once the calls and the asynchronous     *)
(* events about an order are done, one of its shipments has its status       *)
(* (processOrderStatus, processShipment, processShipmentStatusChanged).      *)
AgreeWhenSettled ==
  \A o \in Order :
    LET S == Matches(OfOrder(o)) IN
    Settled(o) /\ orow[o].status # NoStatus /\ S # {}
      => \E s \in S : row[s].status = orow[o].status

(* The amount of an order is the one of its items: neither the cron nor an   *)
(* event handler, which save the whole row from a copy, brings back an older *)
(* one as long as they do not overlap an update (update, checkCancelOrders,  *)
(* processShipmentStatusChanged).                                            *)
TotalWhenSettled == \A o \in Order : Settled(o) => orow[o].total = worth[o]

(* A call that overlaps no other never runs into a foreign key or breaks     *)
(* half-way, unless its body leaves out the reservations of an item the      *)
(* order has already, a field the DTO declares optional (updateItems,        *)
(* ReservationService.create).                                               *)
NoCallFails ==
  \A r \in Request :
    call[r].stage = "failed" =>
      \/ aborts > 0 \/ call[r].order \in overlapped
      \/ call[r].dto.omitted # {}

Ends(r) == call[r].stage \notin Ended /\ call[r]'.stage = "done"

(* A call that closes an order leaves no goods reserved for it, whatever     *)
(* reservations its body carries (processOrderStatus).                       *)
ClosingReleases ==
  [][\A r \in Request :
       LET o == call[r].order IN
       Ends(r) /\ call[r].kind # "shipment" /\ call[r].process
         /\ call[r].target \in Closing /\ o \notin overlapped
         => reserved'[o] = Nothing]_allVars

(* A call that sends an order for shipment leaves one shipment for each      *)
(* warehouse with reservations, holding exactly the reserved quantities, and *)
(* no other shipment (createForOrder, createForOrderItem).                   *)
SentShipsReservations ==
  [][\A r \in Request :
       LET o == call[r].order
           At_(w) == {s \in live' : row'[s].order = o /\ row'[s].warehouse = w}
       IN
       Ends(r) /\ call[r].kind # "shipment" /\ call[r].process
         /\ call[r].target = "sent_for_shipment" /\ o \notin overlapped
         => \A w \in Warehouse :
              IF \E l \in Line : reserved[o][l][w] > 0
                THEN \E s \in At_(w) : At_(w) = {s} /\ row'[s].status = "sent_for_shipment"
                       /\ \A l \in Line : items'[s][l] = reserved[o][l][w]
                ELSE At_(w) = {}]_allVars

(* Every call ends and every emitted event is handled. *)
Quiesces == \A o \in Order : []<>(~Busy(o))
==============================================================================
