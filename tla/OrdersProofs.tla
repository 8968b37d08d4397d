----------------------------- MODULE OrdersProofs -----------------------------
(***************************************************************************)
(* Theorems about Orders, for every number of orders, warehouses, items,   *)
(* concurrent calls and handlers, and however much aborts.                 *)
(***************************************************************************)
EXTENDS Orders, TLAPS

(* Types.  Calls that overlap can add the reservations of an item up beyond *)
(* the quantity one of them carries: quantities are natural numbers here.   *)
Amounts == [Line -> [Warehouse -> Nat]]
OrderRow == [status : OrderStatus, total : Nat]
CallStage == {"save", "read", "items", "reread", "fetch", "release", "ship", "wait", "done",
              "failed"}
CallRec ==
  [kind : {"update", "create", "cancel", "delete", "shipment"}, order : Order,
   target : OrderStatus \cup {Deleted}, row : OrderRow, dto : Dto, returnStocks : BOOLEAN,
   process : BOOLEAN, stage : CallStage, known : SUBSET Line, todo : SUBSET Line,
   saved : SUBSET Line, fill : SUBSET (Line \X Warehouse), held : Amounts]
HandlerRec == [order : Order, row : [status : Status, total : Nat], stage : {"save", "release"}]
ShipJob == [row : Row, items : [Line -> Nat], target : Status \cup {Deleted},
            returnStocks : BOOLEAN]
Jobs == [Request -> [Shipment -> ShipJob \cup {NoJob}]]

RowTypes ==
  /\ live \subseteq 1..lastId /\ lastId \in 0..MaxShipment
  /\ row \in [Shipment -> Row] /\ items \in [Shipment -> [Line -> Nat]]
  /\ events \in [Order \X Status -> Nat] /\ aborts \in Nat
  /\ olive \subseteq Order /\ orow \in [Order -> OrderRow]
  /\ lines \in [Order -> SUBSET Line] /\ worth \in [Order -> Nat]
  /\ reserved \in [Order -> Amounts] /\ overlapped \subseteq Order

CallTypes ==
  /\ call \in [Request -> CallRec \cup {NoCall}]
  /\ handler \in [Handler -> HandlerRec \cup {Resting}]
  /\ pc \in [Request -> {"new", "run", "create", "delete", "done", "failed"}]
  /\ filter \in [Request -> Filter] /\ plan \in [Request -> Amounts]
  /\ made \in [Request -> [Warehouse -> 0..MaxShipment]]
  /\ job \in Jobs

(* Reservations belong to an item. *)
LinesFit == \A o \in Order : \A l \in Line \ lines[o] : reserved[o][l] = Nothing[l]

(* Shipments that do not exist have no items, those that do have an order. *)
RowsFit ==
  /\ \A s \in Shipment \ live, l \in Line : items[s][l] = 0
  /\ \A s \in live : row[s].order \in olive

Saving == {"update", "create", "cancel"}

(* What the kind of a call says about its other fields. *)
Shape(c) ==
  /\ c.kind = "delete" => c.target = Deleted /\ c.stage \notin {"save", "read", "items", "reread", "fetch"}
  /\ c.kind = "shipment" => c.stage \in {"wait", "done", "failed"}
  /\ c.kind = "cancel" => c.process /\ c.target = "cancelled"
                        /\ c.stage \notin {"read", "items", "reread", "fetch"}
  /\ c.kind \in {"update", "create"} => c.row.total = c.dto.total
  /\ c.kind \in Saving => c.row.status = c.target
  /\ c.kind # "delete" /\ c.process => c.target \in Status
  /\ ~c.process => c.kind \in {"update", "create"} /\ c.stage \notin {"release", "ship", "wait"}
  /\ c.kind = "create" /\ ~c.process => c.target = NoStatus
  /\ c.stage = "ship" => c.kind = "delete" \/ c.target \in Status

(* What a call knows of the shipments it has handed to Shipments. *)
Own(r) ==
  LET c == call[r] IN
  /\ c.stage # "wait" => pc[r] \in {"new", "done", "failed"}
  /\ c.stage = "wait" =>
       \/ pc[r] \in {"done", "failed"}
       \/ pc[r] = "delete" /\ c.kind = "delete"
       \/ pc[r] = "create" /\ c.kind \in Saving /\ c.target = "sent_for_shipment"
       \/ pc[r] = "run" /\ c.kind # "delete" /\ (c.kind \in Saving => c.target # "sent_for_shipment")
  /\ filter[r] = IF pc[r] \in {"create", "delete"} THEN OfOrder(c.order) ELSE NoFilter
  /\ \A s \in Shipment :
       job[r][s] # NoJob =>
         /\ pc[r] \in {"run", "delete"} /\ s <= lastId /\ job[r][s].target = c.target
         /\ job[r][s].row.order = c.order /\ row[s].order = c.order
         /\ job[r][s].row.warehouse = row[s].warehouse
  /\ \A w \in Warehouse :
       made[r][w] # 0 =>
         /\ pc[r] = "create" /\ made[r][w] <= lastId
         /\ row[made[r][w]].order = c.order /\ row[made[r][w]].warehouse = w

Base ==
  /\ RowTypes /\ CallTypes /\ RowsFit
  /\ \A r \in Request : (call[r] # NoCall => Shape(call[r])) /\ Own(r)

------------------------------------------------------------------------------
(* Orders on which nothing has overlapped. *)
ShipmentsOf(o) == {s \in live : row[s].order = o}
On(h, o) == handler[h] # Resting /\ handler[h].order = o
Handled(o, st) == \E h \in Handler : On(h, o) /\ handler[h].row.status = st
Pending(o, st) == events[<<o, st>>] > 0 \/ Handled(o, st)

(* createForOrder on its way: the shipments of the order are those it made. *)
Shipping(r) ==
  LET o == call[r].order IN
  /\ \A w \in Warehouse :
       made[r][w] # 0 => /\ made[r][w] \in live /\ row[made[r][w]].status = "sent_for_shipment"
                         /\ \E l \in Line : call[r].held[l][w] > 0
  /\ \A s \in ShipmentsOf(o) : made[r][row[s].warehouse] = s
  /\ \A l \in Line, w \in Warehouse :
       \/ /\ plan[r][l][w] = call[r].held[l][w]
          /\ made[r][w] # 0 => items[made[r][w]][l] = 0
       \/ /\ plan[r][l][w] = 0 /\ made[r][w] # 0
          /\ items[made[r][w]][l] = call[r].held[l][w]

(* What createForOrder leaves. *)
ShippedAll(o) ==
  \A w \in Warehouse :
    LET At_ == {s \in live : row[s].order = o /\ row[s].warehouse = w} IN
    IF \E l \in Line : reserved[o][l][w] > 0
      THEN \E s \in At_ : At_ = {s} /\ row[s].status = "sent_for_shipment"
                          /\ \A l \in Line : items[s][l] = reserved[o][l][w]
      ELSE At_ = {}

Sends(c) == c.kind \in Saving /\ c.target = "sent_for_shipment" /\ c.stage \in {"ship", "wait"}

(* An undisturbed call finds what it has written, and no handler but those   *)
(* of the events it causes itself.                                           *)
Undisturbed(r) ==
  LET c == call[r]
      o == c.order
  IN
  /\ c.kind # "shipment" => \A st \in Status : ~Handled(o, st)
  /\ \A st \in Status : Pending(o, st) =>
       st = c.target /\ c.stage = "wait" /\ c.kind # "delete" /\ ~Sends(c)
  /\ c.kind \in Saving /\ c.stage # "save" => o \in olive /\ orow[o] = c.row
  /\ c.kind = "cancel" /\ c.stage = "save" => c.row.total = orow[o].total
  /\ c.kind = "update" /\ c.stage = "save" /\ ~c.process =>
       c.target = NoStatus \/ c.target = orow[o].status
  /\ c.stage \in {"save", "read"} => c.fill = {} /\ c.saved = {}
  /\ c.stage = "items" => c.saved \subseteq lines[o] /\ \A x \in c.fill : x[1] \in lines[o]
  /\ c.stage = "fetch" => \A l \in Line \ c.todo : c.held[l] = reserved[o][l]
  /\ c.stage = "release" /\ c.kind \in Saving => c.target \in Closing
  /\ c.kind \in Saving /\ c.target \in Closing /\ c.stage \in {"ship", "wait"} => reserved[o] = Nothing
  /\ Sends(c) => c.held = reserved[o]
  /\ \A s \in Shipment : job[r][s] # NoJob => s \in live
  /\ pc[r] = "create" => Shipping(r)
  /\ Sends(c) /\ pc[r] = "done" /\ c.stage = "wait" => ShippedAll(o)
  /\ pc[r] = "failed" /\ c.stage = "wait" => aborts > 0

Calls(o) == {r \in Active : call[r].order = o}

Single(o) ==
  /\ \A q, r \in Calls(o) : q = r
  /\ \A st, tt \in Status : Pending(o, st) /\ Pending(o, tt) => st = tt
  /\ \A h \in Handler : On(h, o) =>
       /\ handler[h].row.total = orow[o].total
       /\ handler[h].stage = "release" => orow[o].status = handler[h].row.status
  /\ \A r \in Calls(o) : Undisturbed(r)

SingleInv == \A o \in Order : o \notin overlapped => Single(o)

Failed == \A r \in Request :
  call[r].stage = "failed" =>
    aborts > 0 \/ call[r].order \in overlapped \/ call[r].dto.omitted # {}

------------------------------------------------------------------------------
(* The amount and the status, as long as nothing has been lost. *)
Clean == aborts = 0 /\ \A r \in Request : call[r].stage # "failed"

Agree(o) ==
  ShipmentsOf(o) # {} /\ orow[o].status # NoStatus
    => \E s \in ShipmentsOf(o) : row[s].status = orow[o].status

(* The call's part of the way to agreement. *)
Agreeing(r) ==
  LET c == call[r]
      o == c.order
  IN
  /\ c.kind \in Saving /\ c.stage = "save" /\ ~c.process => c.target = NoStatus \/ Agree(o)
  /\ c.kind \in Saving /\ c.stage # "save" /\ ~c.process => Agree(o)
  /\ c.kind \in Saving /\ c.stage = "wait" =>
       \A s \in ShipmentsOf(o) : row[s].status = c.target \/ job[r][s] # NoJob

Consistent(o) ==
  /\ (\A r \in Calls(o) : call[r].stage \notin {"read", "items"}) => orow[o].total = worth[o]
  /\ \A st \in Status : Pending(o, st) => \E s \in ShipmentsOf(o) : row[s].status = st
  /\ (\A r \in Calls(o) : call[r].kind = "shipment") =>
       Agree(o) \/ \E st \in Status : Pending(o, st)
  /\ \A r \in Calls(o) : Agreeing(r)

ConsistentInv == Clean => \A o \in Order : o \notin overlapped => Consistent(o)
------------------------------------------------------------------------------
(* Steps that leave most of the state alone. *)
OrderTypes ==
  /\ olive \subseteq Order /\ orow \in [Order -> OrderRow]
  /\ lines \in [Order -> SUBSET Line] /\ worth \in [Order -> Nat]
  /\ reserved \in [Order -> Amounts] /\ overlapped \subseteq Order

(* The calls other than r stand where they stood. *)
Others(r) ==
  \A q \in Request \ {r} :
    /\ call'[q] = call[q] /\ pc'[q] = pc[q] /\ filter'[q] = filter[q]
    /\ plan'[q] = plan[q] /\ made'[q] = made[q] /\ job'[q] = job[q]

(* A shipment keeps its order and its warehouse. *)
IdsKept ==
  /\ lastId <= lastId'
  /\ \A s \in Shipment : s <= lastId => /\ row'[s].order = row[s].order
                                        /\ row'[s].warehouse = row[s].warehouse

Fits(r) == (call[r] # NoCall => Shape(call[r])) /\ Own(r)

LEMMA StageTypes ==
  ASSUME CallTypes, NEW r \in Request, call[r].stage # "new"
  PROVE  call[r] \in CallRec /\ call[r] # NoCall
BY DEF CallTypes, NoCall

LEMMA RecNotNoCall == ASSUME NEW c \in CallRec PROVE c # NoCall /\ c.stage # "new"
BY DEF CallRec, NoCall, CallStage

LEMMA OwnKept ==
  ASSUME Base, RowTypes', IdsKept, NEW q \in Request,
         call'[q] = call[q], pc'[q] = pc[q], filter'[q] = filter[q],
         made'[q] = made[q], job'[q] = job[q]
  PROVE  Own(q)'
<1>1. lastId \in Nat /\ lastId' \in Nat /\ \A s \in Shipment : s \in Nat
  BY ShipmentsAssumption DEF Base, RowTypes, Shipment
<1>2. Own(q)  BY DEF Base
<1>3. \A s \in Shipment : s <= lastId => s <= lastId' /\ row'[s].order = row[s].order
                                        /\ row'[s].warehouse = row[s].warehouse
  BY <1>1 DEF IdsKept
<1>4. \A w \in Warehouse : made[q][w] # 0 => made[q][w] \in Shipment
  BY ShipmentsAssumption DEF Base, CallTypes, Shipment
<1> QED BY <1>1, <1>2, <1>3, <1>4 DEF Own, OfOrder, NoFilter

LEMMA BaseFrom ==
  ASSUME Base, NEW r \in Request, Others(r), IdsKept, RowTypes', CallTypes', RowsFit', Fits(r)'
  PROVE  Base'
<1>1. ASSUME NEW q \in Request \ {r} PROVE Fits(q)'
  <2>1. Own(q)'  BY OwnKept DEF Others
  <2>2. (call[q] # NoCall => Shape(call[q]))'
    BY DEF Others, Base, Shape
  <2> QED BY <2>1, <2>2 DEF Fits
<1> QED BY <1>1 DEF Base, Fits

(* A step of a call that is not with the shipments. *)
LEMMA OrderStep ==
  ASSUME Base, UNCHANGED <<shipmentVars, pc, createVars, job, events>>, aborts' \in Nat,
         NEW r \in Request, call' \in [Request -> CallRec \cup {NoCall}],
         \A q \in Request \ {r} : call'[q] = call[q],
         call[r].stage # "wait", call'[r].stage # "wait",
         call'[r] # NoCall => Shape(call'[r]),
         OrderTypes', handler' \in [Handler -> HandlerRec \cup {Resting}], olive \subseteq olive'
  PROVE  Base'
<1>1. RowTypes' /\ CallTypes' /\ RowsFit'
  BY DEF Base, RowTypes, CallTypes, RowsFit, OrderTypes, shipmentVars, createVars
<1>2. Others(r)
  BY DEF Others, createVars
<1>3. IdsKept
  BY DEF IdsKept, shipmentVars, Base, RowTypes
<1>4. Own(r)'
  <2>1. Own(r)  BY DEF Base
  <2>2. pc[r] \in {"new", "done", "failed"}  BY <2>1 DEF Own
  <2>3. \A s \in Shipment : job[r][s] = NoJob  BY <2>1, <2>2 DEF Own
  <2>4. \A w \in Warehouse : made[r][w] = 0  BY <2>1, <2>2 DEF Own
  <2>5. filter[r] = NoFilter  BY <2>1, <2>2 DEF Own
  <2> QED BY <2>2, <2>3, <2>4, <2>5 DEF Own, createVars
<1>5. Fits(r)'  BY <1>4 DEF Fits, Shape
<1> QED BY <1>1, <1>2, <1>3, <1>5, BaseFrom

(* A step of a handler. *)
LEMMA HandlerBase ==
  ASSUME Base, UNCHANGED <<shipmentVars, pc, createVars, job, call>>, aborts' \in Nat,
         events' \in [Order \X Status -> Nat],
         OrderTypes', handler' \in [Handler -> HandlerRec \cup {Resting}], olive \subseteq olive'
  PROVE  Base'
<1>1. RowTypes' /\ CallTypes' /\ RowsFit'
  BY DEF Base, RowTypes, CallTypes, RowsFit, OrderTypes, shipmentVars, createVars
<1>3. IdsKept
  BY DEF IdsKept, shipmentVars, Base, RowTypes
<1>4. ASSUME NEW q \in Request PROVE Fits(q)'
  <2>1. Own(q)'  BY <1>1, <1>3, OwnKept DEF createVars
  <2> QED BY <2>1 DEF Fits, Base, Shape
<1> QED BY <1>1, <1>4 DEF Base, Fits
------------------------------------------------------------------------------
(* Types and shapes: the calls are opened. *)
LEMMA NothingTyped == Nothing \in Amounts /\ NoDto \in Dto /\ NoCall.stage = "new"
<1>1. Nothing \in Amounts  BY DEF Nothing, Amounts
<1>2. Nothing \in Reservations
  BY ShipmentsAssumption DEF Nothing, Reservations, Quantity
<1> QED BY <1>1, <1>2 DEF NoDto, Dto, NoCall

LEMMA CallTyped ==
  ASSUME NEW kind \in {"update", "create", "cancel", "delete", "shipment"}, NEW o \in Order,
         NEW target \in OrderStatus \cup {Deleted}, NEW rw \in OrderRow, NEW dto \in Dto,
         NEW ret \in BOOLEAN, NEW process \in BOOLEAN, NEW stage \in CallStage
  PROVE  Call(kind, o, target, rw, dto, ret, process, stage) \in CallRec
BY NothingTyped DEF Call, CallRec

LEMMA OpenBase ==
  ASSUME Base, NEW r \in Request, NEW c \in CallRec, Open(r, c), Shape(c), c.stage # "wait"
  PROVE  Base'
<1>1. /\ call' \in [Request -> CallRec \cup {NoCall}] /\ call'[r] = c
      /\ \A q \in Request \ {r} : call'[q] = call[q]
  BY DEF Base, CallTypes, Open
<1>2. call[r].stage # "wait"
  BY DEF Open, At
<1>3. overlapped' \subseteq Order
  BY DEF Open, Touch, Base, RowTypes, CallRec
<1>4. OrderTypes' /\ handler' \in [Handler -> HandlerRec \cup {Resting}] /\ olive \subseteq olive'
  BY <1>3 DEF Open, Base, RowTypes, CallTypes, OrderTypes, rowVars, itemVars
<1>5. UNCHANGED <<shipmentVars, pc, createVars, job, events>> /\ aborts' \in Nat
  BY DEF Open, vars, jobVars, Base, RowTypes
<1> QED BY <1>1, <1>2, <1>4, <1>5, OrderStep

LEMMA UpdateBase ==
  ASSUME OrdersAssumption, Base, NEW r \in Request, NEW o \in Order, NEW target \in Targets,
         NEW dto \in Dtos, NEW ret \in BOOLEAN, Update(r, o, target, dto, ret)
  PROVE  Base'
<1> DEFINE c == Call("update", o, target, RowOf(o, target, dto), dto, ret,
                     target # NoStatus /\ target # orow[o].status, "save")
<1>1. target \in OrderStatus /\ dto \in Dto
  BY DEF OrdersAssumption
<1>2. RowOf(o, target, dto) \in OrderRow
  BY <1>1 DEF RowOf, OrderRow, Dto
<1>3. c \in CallRec
  BY <1>1, <1>2, CallTyped DEF CallStage
<1>4. Shape(c) /\ c.stage # "wait"
  BY <1>1 DEF Shape, Call, RowOf, OrderStatus, Saving
<1>5. Open(r, c)
  BY DEF Update
<1> QED BY <1>3, <1>4, <1>5, OpenBase

LEMMA CreateBase ==
  ASSUME OrdersAssumption, Base, NEW r \in Request, NEW o \in Order, NEW target \in Targets,
         NEW dto \in Dtos, Create(r, o, target, dto)
  PROVE  Base'
<1> DEFINE c == Call("create", o, target, RowOf(o, target, dto), dto, FALSE,
                     target # NoStatus, "save")
<1>1. target \in OrderStatus /\ dto \in Dto
  BY DEF OrdersAssumption
<1>2. RowOf(o, target, dto) \in OrderRow
  BY <1>1 DEF RowOf, OrderRow, Dto
<1>3. c \in CallRec
  BY <1>1, <1>2, CallTyped DEF CallStage
<1>4. Shape(c) /\ c.stage # "wait"
  BY <1>1 DEF Shape, Call, RowOf, OrderStatus, Saving
<1>5. Open(r, c)
  BY DEF Create
<1> QED BY <1>3, <1>4, <1>5, OpenBase

LEMMA CancelBase ==
  ASSUME OrdersAssumption, Base, NEW r \in Request, NEW o \in Order, Cancel(r, o)
  PROVE  Base'
<1> DEFINE c == Call("cancel", o, "cancelled", [orow[o] EXCEPT !.status = "cancelled"], NoDto,
                     TRUE, TRUE, "save")
<1>1. orow[o] \in OrderRow /\ "cancelled" \in OrderStatus
  BY DEF Base, RowTypes, OrderStatus, Status
<1>2. [orow[o] EXCEPT !.status = "cancelled"] \in OrderRow
  BY <1>1 DEF OrderRow
<1>3. c \in CallRec
  BY <1>1, <1>2, NothingTyped, CallTyped DEF CallStage
<1>4. Shape(c) /\ c.stage # "wait"
  BY <1>1 DEF Shape, Call, Saving, Status, OrderRow
<1>5. Open(r, c)
  BY DEF Cancel
<1> QED BY <1>3, <1>4, <1>5, OpenBase

LEMMA DeleteOrderBase ==
  ASSUME OrdersAssumption, Base, NEW r \in Request, NEW o \in Order, NEW ret \in BOOLEAN,
         DeleteOrder(r, o, ret)
  PROVE  Base'
<1> DEFINE c == Call("delete", o, Deleted, orow[o], NoDto, ret, TRUE, "release")
<1>1. orow[o] \in OrderRow
  BY DEF Base, RowTypes
<1>3. c \in CallRec
  BY <1>1, NothingTyped, CallTyped DEF CallStage
<1>4. Shape(c) /\ c.stage # "wait"
  BY <1>1 DEF Shape, Call, Saving
<1>5. Open(r, c)
  BY DEF DeleteOrder
<1> QED BY <1>3, <1>4, <1>5, OpenBase
------------------------------------------------------------------------------
(* Types and shapes: the steps of a call before it goes to the shipments. *)
LEMMA GotoTyped ==
  ASSUME Base, NEW r \in Request, call[r] # NoCall, NEW st \in CallStage, Goto(r, st)
  PROVE  /\ call' \in [Request -> CallRec \cup {NoCall}]
         /\ call'[r] = [call[r] EXCEPT !.stage = st] /\ call'[r] \in CallRec
         /\ \A q \in Request \ {r} : call'[q] = call[q]
<1>1. call \in [Request -> CallRec \cup {NoCall}] /\ call[r] \in CallRec
  BY DEF Base, CallTypes
<1>2. [call[r] EXCEPT !.stage = st] \in CallRec
  BY <1>1 DEF CallRec
<1> QED BY <1>1, <1>2 DEF Goto

LEMMA ChangedTyped ==
  ASSUME Base, NEW r \in Request, NEW c \in CallRec, call' = [call EXCEPT ![r] = c]
  PROVE  /\ call' \in [Request -> CallRec \cup {NoCall}] /\ call'[r] = c
         /\ \A q \in Request \ {r} : call'[q] = call[q]
BY DEF Base, CallTypes

LEMMA SaveOrderBase ==
  ASSUME OrdersAssumption, Base, NEW r \in Request, SaveOrder(r)
  PROVE  Base'
<1> DEFINE c == call[r]
<1>1. c \in CallRec /\ c # NoCall /\ c.stage = "save"
  BY StageTypes DEF SaveOrder, At, Base
<1>2. PICK st \in {"release", "read"} : st = (IF c.kind = "cancel" THEN "release" ELSE "read")
  OBVIOUS
<1>3. Goto(r, st) /\ st \in CallStage
  BY <1>2 DEF SaveOrder, CallStage
<1>4. /\ call' \in [Request -> CallRec \cup {NoCall}] /\ call'[r] = [c EXCEPT !.stage = st]
      /\ \A q \in Request \ {r} : call'[q] = call[q]
  BY <1>1, <1>3, GotoTyped
<1>5. Shape(c)
  BY <1>1 DEF Base
<1>6. Shape(call'[r]) /\ call'[r].stage # "wait"
  BY <1>1, <1>2, <1>4, <1>5 DEF Shape, CallRec, Saving
<1>7. c.order \in Order /\ c.row \in OrderRow
  BY <1>1 DEF CallRec
<1>8. OrderTypes' /\ handler' \in [Handler -> HandlerRec \cup {Resting}] /\ olive \subseteq olive'
  BY <1>7 DEF SaveOrder, Base, RowTypes, CallTypes, OrderTypes, itemVars
<1>9. UNCHANGED <<shipmentVars, pc, createVars, job, events>> /\ aborts' \in Nat
  BY DEF SaveOrder, vars, jobVars, Base, RowTypes
<1> QED BY <1>1, <1>4, <1>6, <1>8, <1>9, OrderStep

LEMMA ReadItemsBase ==
  ASSUME OrdersAssumption, Base, NEW r \in Request, ReadItems(r)
  PROVE  Base'
<1> DEFINE c == call[r]
           d == [c EXCEPT !.known = lines[c.order], !.todo = c.dto.lines, !.stage = "items"]
<1>1. c \in CallRec /\ c # NoCall /\ c.stage = "read"
  BY StageTypes DEF ReadItems, At, Base
<1>2. d \in CallRec
  BY <1>1 DEF CallRec, CallStage, Dto, Base, RowTypes
<1>3. call' = [call EXCEPT ![r] = d]
  BY DEF ReadItems
<1>4. /\ call' \in [Request -> CallRec \cup {NoCall}] /\ call'[r] = d
      /\ \A q \in Request \ {r} : call'[q] = call[q]
  BY <1>2, <1>3, ChangedTyped
<1>5. Shape(c)
  BY <1>1 DEF Base
<1>6. Shape(d) /\ d.stage # "wait"
  BY <1>1, <1>5 DEF Shape, CallRec, Saving
<1>8. OrderTypes' /\ handler' \in [Handler -> HandlerRec \cup {Resting}] /\ olive \subseteq olive'
  BY DEF ReadItems, Base, RowTypes, CallTypes, OrderTypes, rowVars, itemVars
<1>9. UNCHANGED <<shipmentVars, pc, createVars, job, events>> /\ aborts' \in Nat
  BY DEF ReadItems, vars, jobVars, Base, RowTypes
<1> QED BY <1>1, <1>4, <1>6, <1>8, <1>9, OrderStep

(* What saving an item and dropping its reservations do to the call. *)
AtLine(r, l) == SaveLine(r, l) \/ DropReservations(r, l)

LEMMA LineCall ==
  ASSUME Base, NEW r \in Request, NEW l \in Line, AtLine(r, l)
  PROVE  LET c == call[r]
             d == call'[r]
         IN /\ c \in CallRec /\ c # NoCall /\ c.stage = "items" /\ c.order \in Order
            /\ d \in CallRec /\ d.order = c.order /\ d.kind = c.kind /\ d.target = c.target
            /\ d.row = c.row /\ d.dto = c.dto /\ d.process = c.process
            /\ call' \in [Request -> CallRec \cup {NoCall}]
            /\ \A q \in Request \ {r} : call'[q] = call[q]
            /\ \/ d.stage = "failed" /\ (c.order \notin olive \/ Breaks(c, l))
               \/ /\ d.stage = "items" /\ d.saved \subseteq c.saved \cup {l}
                  /\ \A x \in d.fill : x \in c.fill \/ x[1] = l
                  /\ l \in c.saved \/ lines' = [lines EXCEPT ![c.order] = @ \cup {l}]
<1> DEFINE c == call[r]
           F == Asks(c, l)
<1>1. c \in CallRec /\ c # NoCall /\ c.stage = "items" /\ c.order \in Order
  <2>1. c.stage = "items"
    BY DEF AtLine, SaveLine, DropReservations, At
  <2> QED BY <2>1, StageTypes DEF Base, CallRec
<1>2. F \subseteq Line \X Warehouse /\ \A x \in F : x[1] = l
  BY DEF Asks
<1>3. CASE Goto(r, "failed") /\ (c.order \notin olive \/ Breaks(c, l))
  <2>1. /\ call' \in [Request -> CallRec \cup {NoCall}]
        /\ call'[r] = [c EXCEPT !.stage = "failed"] /\ call'[r] \in CallRec
        /\ \A q \in Request \ {r} : call'[q] = call[q]
    BY <1>1, <1>3, GotoTyped DEF CallStage
  <2> QED BY <1>1, <1>3, <2>1 DEF CallRec
<1>4. CASE SaveLine(r, l) /\ c.order \in olive
  <2> DEFINE d == [c EXCEPT !.todo = @ \ {l}, !.saved = @ \cup {l}]
  <2>1. call' = [call EXCEPT ![r] = d] /\ lines' = [lines EXCEPT ![c.order] = @ \cup {l}]
    BY <1>4 DEF SaveLine
  <2>2. d \in CallRec
    BY <1>1 DEF CallRec
  <2>3. /\ call' \in [Request -> CallRec \cup {NoCall}] /\ call'[r] = d
        /\ \A q \in Request \ {r} : call'[q] = call[q]
    BY <2>1, <2>2, ChangedTyped
  <2>4. /\ d.order = c.order /\ d.kind = c.kind /\ d.target = c.target /\ d.row = c.row
        /\ d.dto = c.dto /\ d.process = c.process /\ d.stage = "items"
        /\ d.saved = c.saved \cup {l} /\ d.fill = c.fill
    BY <1>1 DEF CallRec
  <2> HIDE DEF d
  <2> QED BY <1>1, <2>1, <2>2, <2>3, <2>4
<1>5. CASE DropReservations(r, l) /\ ~Breaks(c, l)
  <2> DEFINE d == [c EXCEPT !.saved = @ \ {l}, !.fill = @ \cup F]
  <2> HIDE DEF F
  <2>1. call' = [call EXCEPT ![r] = d] /\ l \in c.saved
    BY <1>5 DEF DropReservations, F
  <2>2. d \in CallRec
    BY <1>1, <1>2 DEF CallRec
  <2>3. /\ call' \in [Request -> CallRec \cup {NoCall}] /\ call'[r] = d
        /\ \A q \in Request \ {r} : call'[q] = call[q]
    BY <2>1, <2>2, ChangedTyped
  <2>4. /\ d.order = c.order /\ d.kind = c.kind /\ d.target = c.target /\ d.row = c.row
        /\ d.dto = c.dto /\ d.process = c.process /\ d.stage = "items"
        /\ d.saved = c.saved \ {l} /\ d.fill = c.fill \cup F
    BY <1>1 DEF CallRec
  <2> HIDE DEF d
  <2> QED BY <1>1, <1>2, <2>1, <2>2, <2>3, <2>4
<1> QED BY <1>3, <1>4, <1>5 DEF AtLine, SaveLine, DropReservations, Fail

(* What they do to the rows. *)
LEMMA LineRows ==
  ASSUME Base, NEW r \in Request, NEW l \in Line, AtLine(r, l), call[r].order \in Order
  PROVE  LET o == call[r].order IN
         /\ lines' \in {lines, [lines EXCEPT ![o] = @ \cup {l}]}
         /\ reserved' \in {reserved, [reserved EXCEPT ![o] = [reserved[o] EXCEPT ![l] = Nothing[l]]]}
         /\ UNCHANGED <<shipmentVars, pc, createVars, job, events, handler, overlapped, aborts,
                        olive, orow, worth>>
<1>1. CASE SaveLine(r, l)
  BY <1>1 DEF SaveLine, vars, jobVars, rowVars
<1>2. CASE DropReservations(r, l)
  <2>1. reserved' = [reserved EXCEPT ![call[r].order] =
                       [reserved[call[r].order] EXCEPT ![l] = Nothing[l]]]
    BY <1>2 DEF DropReservations, Base, RowTypes
  <2> QED BY <1>2, <2>1 DEF DropReservations, vars, jobVars, rowVars
<1> QED BY <1>1, <1>2 DEF AtLine

LEMMA AmountsTyped ==
  ASSUME NEW a \in Amounts, NEW l \in Line, NEW w \in Warehouse, NEW n \in Nat
  PROVE  [a EXCEPT ![l] = Nothing[l]] \in Amounts /\ [a EXCEPT ![l][w] = n] \in Amounts
BY NothingTyped DEF Amounts

LEMMA LineBase ==
  ASSUME OrdersAssumption, Base, NEW r \in Request, NEW l \in Line, AtLine(r, l)
  PROVE  Base'
<1> DEFINE c == call[r]
<1>1. /\ c \in CallRec /\ c # NoCall /\ c.stage = "items" /\ c.order \in Order
      /\ call'[r] \in CallRec /\ call'[r].stage \in {"items", "failed"}
      /\ call' \in [Request -> CallRec \cup {NoCall}]
      /\ \A q \in Request \ {r} : call'[q] = call[q]
      /\ call'[r].kind = c.kind /\ call'[r].target = c.target /\ call'[r].row = c.row
      /\ call'[r].dto = c.dto /\ call'[r].process = c.process
  BY LineCall
<1>5. Shape(c)
  BY <1>1 DEF Base
<1>6. Shape(call'[r]) /\ call'[r].stage # "wait" /\ c.stage # "wait"
  BY <1>1, <1>5 DEF Shape, Saving
<1>7. /\ lines' \in {lines, [lines EXCEPT ![c.order] = @ \cup {l}]}
      /\ reserved' \in {reserved, [reserved EXCEPT ![c.order] =
                                     [reserved[c.order] EXCEPT ![l] = Nothing[l]]]}
      /\ UNCHANGED <<shipmentVars, pc, createVars, job, events, handler, overlapped, aborts,
                     olive, orow, worth>>
  BY <1>1, LineRows
<1>8. [reserved[c.order] EXCEPT ![l] = Nothing[l]] \in Amounts
  BY <1>1, NothingTyped DEF Amounts, Base, RowTypes
<1>9. OrderTypes' /\ handler' \in [Handler -> HandlerRec \cup {Resting}] /\ olive \subseteq olive'
  <2>1. lines' \in [Order -> SUBSET Line]
    <3>1. lines \in [Order -> SUBSET Line]
      BY DEF Base, RowTypes
    <3> QED BY <1>1, <1>7, <3>1
  <2>2. reserved' \in [Order -> Amounts]
    <3>1. reserved \in [Order -> Amounts]
      BY DEF Base, RowTypes
    <3> QED BY <1>1, <1>7, <1>8, <3>1
  <2> QED BY <1>7, <2>1, <2>2 DEF Base, RowTypes, CallTypes, OrderTypes
<1>10. aborts' \in Nat
  BY <1>7 DEF Base, RowTypes
<1> QED BY <1>1, <1>6, <1>7, <1>9, <1>10, OrderStep

LEMMA SaveReservationBase ==
  ASSUME OrdersAssumption, Base, NEW r \in Request, NEW l \in Line, NEW w \in Warehouse,
         SaveReservation(r, l, w)
  PROVE  Base'
<1> DEFINE c == call[r]
           d == [c EXCEPT !.fill = @ \ {<<l, w>>}]
<1>1. c \in CallRec /\ c # NoCall /\ c.stage = "items"
  BY StageTypes DEF SaveReservation, At, Base
<1>2. Goto(r, "failed") \/ call' = [call EXCEPT ![r] = d]
  BY <1>1 DEF SaveReservation, Fail, Base, CallTypes
<1>3. /\ call' \in [Request -> CallRec \cup {NoCall}]
      /\ call'[r] \in {[c EXCEPT !.stage = "failed"], d}
      /\ \A q \in Request \ {r} : call'[q] = call[q]
  <2>1. d \in CallRec
    BY <1>1 DEF CallRec
  <2>2. CASE Goto(r, "failed")
    BY <1>1, <2>2, GotoTyped DEF CallStage
  <2>3. CASE call' = [call EXCEPT ![r] = d]
    BY <2>1, <2>3, ChangedTyped
  <2> QED BY <1>2, <2>2, <2>3
<1>5. Shape(c)
  BY <1>1 DEF Base
<1>6. Shape(call'[r]) /\ call'[r].stage # "wait"
  BY <1>1, <1>3, <1>5 DEF Shape, Saving, CallRec
<1>7. c.order \in Order /\ c.dto.reservations[l][w] \in Nat /\ reserved[c.order][l][w] \in Nat
  BY <1>1, ShipmentsAssumption
  DEF CallRec, Dto, Reservations, Quantity, Base, RowTypes, Amounts
<1>8. /\ reserved[c.order] \in Amounts
      /\ \A n \in Nat : [reserved[c.order] EXCEPT ![l][w] = n] \in Amounts
  BY <1>7, AmountsTyped DEF Base, RowTypes
<1>9. OrderTypes' /\ handler' \in [Handler -> HandlerRec \cup {Resting}] /\ olive \subseteq olive'
  <2>1. \/ UNCHANGED <<itemVars, olive, orow, handler, overlapped>>
        \/ /\ reserved' = [reserved EXCEPT ![c.order] = [reserved[c.order] EXCEPT ![l][w] =
                             reserved[c.order][l][w] + c.dto.reservations[l][w]]]
           /\ UNCHANGED <<lines, worth, olive, orow, handler, overlapped>>
    BY <1>7 DEF SaveReservation, rowVars, itemVars, Base, RowTypes, Amounts
  <2>2. reserved[c.order][l][w] + c.dto.reservations[l][w] \in Nat
    BY <1>7
  <2>3. reserved' \in [Order -> Amounts]
    BY <1>7, <1>8, <2>1, <2>2 DEF Base, RowTypes, itemVars
  <2> QED BY <2>1, <2>3 DEF Base, RowTypes, CallTypes, OrderTypes, itemVars
<1>10. UNCHANGED <<shipmentVars, pc, createVars, job, events>> /\ aborts' \in Nat
  BY DEF SaveReservation, vars, jobVars, Base, RowTypes
<1> QED BY <1>1, <1>3, <1>6, <1>9, <1>10, OrderStep

LEMMA RemoveLinesBase ==
  ASSUME OrdersAssumption, Base, NEW r \in Request, RemoveLines(r)
  PROVE  Base'
<1> DEFINE c == call[r]
           left == [l \in Line |-> IF l \in c.known \ c.dto.lines THEN Nothing[l]
                                   ELSE reserved[c.order][l]]
<1>1. c \in CallRec /\ c # NoCall /\ c.stage = "items"
  BY StageTypes DEF RemoveLines, At, Base
<1>2. Goto(r, "reread")
  BY DEF RemoveLines
<1>3. /\ call' \in [Request -> CallRec \cup {NoCall}]
      /\ call'[r] = [c EXCEPT !.stage = "reread"]
      /\ \A q \in Request \ {r} : call'[q] = call[q]
  BY <1>1, <1>2, GotoTyped DEF CallStage
<1>5. Shape(c)
  BY <1>1 DEF Base
<1>6. Shape(call'[r]) /\ call'[r].stage # "wait"
  BY <1>1, <1>3, <1>5 DEF Shape, Saving, CallRec
<1>7. c.order \in Order /\ c.dto.total \in Nat
  BY <1>1 DEF CallRec, Dto
<1>8. left \in Amounts
  BY <1>7, NothingTyped DEF Amounts, Base, RowTypes
<1>9. reserved' = [reserved EXCEPT ![c.order] = left]
  BY <1>7 DEF RemoveLines, Base, RowTypes
<1>10. OrderTypes' /\ handler' \in [Handler -> HandlerRec \cup {Resting}] /\ olive \subseteq olive'
  <2> HIDE DEF left
  <2>1. reserved' \in [Order -> Amounts]
    BY <1>7, <1>8, <1>9 DEF Base, RowTypes
  <2> QED BY <1>7, <2>1 DEF RemoveLines, Base, RowTypes, CallTypes, OrderTypes, rowVars
<1>11. UNCHANGED <<shipmentVars, pc, createVars, job, events>> /\ aborts' \in Nat
  BY DEF RemoveLines, vars, jobVars, Base, RowTypes
<1> QED BY <1>1, <1>3, <1>6, <1>10, <1>11, OrderStep

(* What rereading the items does to the call. *)
Rereads(r) == RereadItems(r) \/ \E l \in Line : FetchReservations(r, l)

LEMMA RereadTyped ==
  ASSUME Base, NEW r \in Request, Rereads(r)
  PROVE  LET c == call[r]
             d == call'[r]
         IN /\ c.stage \in {"reread", "fetch"} /\ c \in CallRec /\ c # NoCall /\ c.order \in Order
            /\ d \in CallRec /\ d.order = c.order /\ d.kind = c.kind /\ d.target = c.target
            /\ d.row = c.row /\ d.dto = c.dto /\ d.process = c.process
            /\ \/ /\ c.stage = "reread" /\ d.held = Nothing /\ d.todo = lines[c.order]
               \/ \E l \in c.todo : /\ c.stage = "fetch" /\ d.todo = c.todo \ {l}
                                     /\ d.held = [c.held EXCEPT ![l] = reserved[c.order][l]]
            /\ d.stage = IF d.todo = {} THEN AfterItems(c) ELSE "fetch"
            /\ call' \in [Request -> CallRec \cup {NoCall}]
            /\ \A q \in Request \ {r} : call'[q] = call[q]
            /\ UNCHANGED <<shipmentVars, pc, createVars, job, events, handler, overlapped, aborts,
                           olive, orow, lines, worth, reserved>>
<1> DEFINE c == call[r]
<1>1. c.stage \in {"reread", "fetch"} /\ c.stage # "new"
  BY DEF Rereads, RereadItems, FetchReservations, At
<1>2. c \in CallRec /\ c # NoCall /\ c.order \in Order
  BY <1>1, StageTypes DEF Base, CallRec
<1>3. UNCHANGED <<shipmentVars, pc, createVars, job, events, handler, overlapped, aborts,
                  olive, orow, lines, worth, reserved>>
  BY DEF Rereads, RereadItems, FetchReservations, vars, jobVars, rowVars, itemVars
<1> DEFINE Then(held, left) ==
             LET d == call'[r] IN
             /\ d \in CallRec /\ d.order = c.order /\ d.kind = c.kind /\ d.target = c.target
             /\ d.row = c.row /\ d.dto = c.dto /\ d.process = c.process
             /\ d.held = held /\ d.todo = left
             /\ d.stage = IF left = {} THEN AfterItems(c) ELSE "fetch"
             /\ call' \in [Request -> CallRec \cup {NoCall}]
             /\ \A q \in Request \ {r} : call'[q] = call[q]
<1>4. ASSUME NEW held \in Amounts, NEW left \in SUBSET Line,
             call' = [call EXCEPT ![r] = Reread(c, held, left)]
      PROVE  Then(held, left)
  <2> DEFINE st == IF left = {} THEN AfterItems(c) ELSE "fetch"
             d == [c EXCEPT !.held = held, !.todo = left, !.stage = st]
  <2>1. st \in CallStage
    BY DEF AfterItems, CallStage
  <2>2. call' = [call EXCEPT ![r] = d]
    BY <1>4 DEF Reread
  <2> HIDE DEF st
  <2>3. d \in CallRec
    BY <1>2, <2>1 DEF CallRec
  <2>4. /\ d.order = c.order /\ d.kind = c.kind /\ d.target = c.target /\ d.row = c.row
        /\ d.dto = c.dto /\ d.process = c.process /\ d.held = held /\ d.todo = left /\ d.stage = st
    BY <1>2 DEF CallRec
  <2> HIDE DEF d
  <2>5. /\ call' \in [Request -> CallRec \cup {NoCall}] /\ call'[r] = d
        /\ \A q \in Request \ {r} : call'[q] = call[q]
    BY <2>2, <2>3, ChangedTyped
  <2> QED BY <2>3, <2>4, <2>5 DEF st
<1>5. CASE RereadItems(r)
  <2>1. call' = [call EXCEPT ![r] = Reread(c, Nothing, lines[c.order])] /\ c.stage = "reread"
    BY <1>5 DEF RereadItems, At
  <2>2. Nothing \in Amounts /\ lines[c.order] \in SUBSET Line
    BY <1>2, NothingTyped DEF Base, RowTypes
  <2>3. Then(Nothing, lines[c.order])
    BY <1>4, <2>1, <2>2
  <2> QED BY <1>2, <1>3, <2>1, <2>3 DEF Then
<1>6. ASSUME NEW l \in Line, FetchReservations(r, l)
      PROVE  /\ c.stage = "fetch" /\ l \in c.todo
             /\ call' = [call EXCEPT ![r] =
                   Reread(c, [c.held EXCEPT ![l] = reserved[c.order][l]], c.todo \ {l})]
             /\ [c.held EXCEPT ![l] = reserved[c.order][l]] \in Amounts /\ c.todo \ {l} \in SUBSET Line
  <2>1. c.held \in Amounts /\ reserved[c.order] \in Amounts /\ c.todo \in SUBSET Line
    BY <1>2 DEF CallRec, Base, RowTypes
  <2> QED BY <1>6, <2>1 DEF FetchReservations, At, Amounts
<1>7. CASE \E l \in Line : FetchReservations(r, l)
  <2>1. PICK l \in Line : FetchReservations(r, l)
    BY <1>7
  <2> DEFINE held == [c.held EXCEPT ![l] = reserved[c.order][l]]
  <2>2. Then(held, c.todo \ {l})
    BY <1>4, <1>6, <2>1
  <2> QED BY <1>2, <1>3, <1>6, <2>1, <2>2 DEF Then
<1> QED BY <1>5, <1>7 DEF Rereads

LEMMA RereadBase ==
  ASSUME OrdersAssumption, Base, NEW r \in Request, Rereads(r)
  PROVE  Base'
<1> DEFINE c == call[r]
           d == call'[r]
<1>1. /\ c.stage \in {"reread", "fetch"} /\ c \in CallRec /\ c # NoCall
      /\ d \in CallRec /\ d.kind = c.kind /\ d.target = c.target /\ d.row = c.row
      /\ d.dto = c.dto /\ d.process = c.process
      /\ d.stage = IF d.todo = {} THEN AfterItems(c) ELSE "fetch"
      /\ call' \in [Request -> CallRec \cup {NoCall}]
      /\ \A q \in Request \ {r} : call'[q] = call[q]
      /\ UNCHANGED <<shipmentVars, pc, createVars, job, events, handler, overlapped, aborts,
                     olive, orow, lines, worth, reserved>>
  BY RereadTyped
<1>5. Shape(c)
  BY <1>1 DEF Base
<1>6. Shape(d) /\ d.stage # "wait"
  BY <1>1, <1>5 DEF Shape, CallRec, Saving, AfterItems
<1>8. OrderTypes' /\ handler' \in [Handler -> HandlerRec \cup {Resting}] /\ olive \subseteq olive'
  BY <1>1 DEF Base, RowTypes, CallTypes, OrderTypes
<1>9. aborts' \in Nat
  BY <1>1 DEF Base, RowTypes
<1> QED BY <1>1, <1>6, <1>8, <1>9, OrderStep

LEMMA ReleaseBase ==
  ASSUME OrdersAssumption, Base, NEW r \in Request, Release(r)
  PROVE  Base'
<1> DEFINE c == call[r]
<1>1. c \in CallRec /\ c # NoCall /\ c.stage = "release"
  BY StageTypes DEF Release, At, Base
<1>2. Goto(r, "ship")
  BY DEF Release
<1>3. /\ call' \in [Request -> CallRec \cup {NoCall}]
      /\ call'[r] = [c EXCEPT !.stage = "ship"]
      /\ \A q \in Request \ {r} : call'[q] = call[q]
  BY <1>1, <1>2, GotoTyped DEF CallStage
<1>5. Shape(c)
  BY <1>1 DEF Base
<1>6. Shape(call'[r]) /\ call'[r].stage # "wait"
  BY <1>1, <1>3, <1>5 DEF Shape, Saving, CallRec
<1>7. c.order \in Order
  BY <1>1 DEF CallRec
<1>10. OrderTypes' /\ handler' \in [Handler -> HandlerRec \cup {Resting}] /\ olive \subseteq olive'
  BY <1>7, NothingTyped DEF Release, Base, RowTypes, CallTypes, OrderTypes, rowVars
<1>11. UNCHANGED <<shipmentVars, pc, createVars, job, events>> /\ aborts' \in Nat
  BY DEF Release, vars, jobVars, Base, RowTypes
<1> QED BY <1>1, <1>3, <1>6, <1>10, <1>11, OrderStep

(* A call is lost before it goes to the shipments. *)
Drop(r) ==
  /\ call[r].stage \notin Ended \cup {"wait"} /\ aborts' = aborts + 1 /\ Fail(r)
  /\ UNCHANGED <<stockVars, shipmentVars, pc, createVars, jobVars, events, collided, contended>>
  /\ UNCHANGED <<rowVars, itemVars, handler, overlapped>>

LEMMA DropBase ==
  ASSUME OrdersAssumption, Base, NEW r \in Request, Drop(r)
  PROVE  Base'
<1> DEFINE c == call[r]
<1>1. c \in CallRec /\ c # NoCall /\ c.stage # "wait"
  BY StageTypes DEF Drop, Ended, Base
<1>2. Goto(r, "failed")
  BY DEF Drop, Fail
<1>3. /\ call' \in [Request -> CallRec \cup {NoCall}]
      /\ call'[r] = [c EXCEPT !.stage = "failed"]
      /\ \A q \in Request \ {r} : call'[q] = call[q]
  BY <1>1, <1>2, GotoTyped DEF CallStage
<1>5. Shape(c)
  BY <1>1 DEF Base
<1>6. Shape(call'[r]) /\ call'[r].stage # "wait"
  BY <1>1, <1>3, <1>5 DEF Shape, Saving, CallRec
<1>10. OrderTypes' /\ handler' \in [Handler -> HandlerRec \cup {Resting}] /\ olive \subseteq olive'
  BY DEF Drop, Base, RowTypes, CallTypes, OrderTypes, rowVars, itemVars
<1>11. UNCHANGED <<shipmentVars, pc, createVars, job, events>> /\ aborts' \in Nat
  BY DEF Drop, jobVars, Base, RowTypes
<1> QED BY <1>1, <1>3, <1>6, <1>10, <1>11, OrderStep
------------------------------------------------------------------------------
(* Types and shapes: the handlers. *)
LEMMA TakeEventBase ==
  ASSUME OrdersAssumption, Base, NEW h \in Handler, NEW o \in Order, NEW st \in Status,
         TakeEvent(h, o, st)
  PROVE  Base'
<1> DEFINE d == [order |-> o, row |-> [orow[o] EXCEPT !.status = st], stage |-> "save"]
<1>1. d \in HandlerRec
  BY DEF HandlerRec, Base, RowTypes, OrderRow
<1>2. handler' \in [Handler -> HandlerRec \cup {Resting}]
  <2>1. handler' = [handler EXCEPT ![h] = d] \/ handler' = handler
    BY DEF TakeEvent
  <2> HIDE DEF d
  <2> QED BY <1>1, <2>1 DEF Base, CallTypes
<1>3. overlapped' \subseteq Order
  BY DEF TakeEvent, Touch, Base, RowTypes
<1>4. OrderTypes' /\ olive \subseteq olive'
  BY <1>3 DEF TakeEvent, Base, RowTypes, OrderTypes, rowVars, itemVars
<1>5. events' \in [Order \X Status -> Nat]
  <2>1. events[<<o, st>>] \in Nat /\ events[<<o, st>>] > 0
    BY DEF TakeEvent, Base, RowTypes
  <2>2. events[<<o, st>>] - 1 \in Nat
    BY <2>1
  <2> QED BY <2>2 DEF TakeEvent, Base, RowTypes
<1>6. UNCHANGED <<shipmentVars, pc, createVars, job, call>> /\ aborts' \in Nat
  BY DEF TakeEvent, jobVars, Base, RowTypes
<1> QED BY <1>2, <1>4, <1>5, <1>6, HandlerBase

LEMMA SaveHandledBase ==
  ASSUME OrdersAssumption, Base, NEW h \in Handler, SaveHandled(h)
  PROVE  Base'
<1> DEFINE c == handler[h]
<1>1. c \in HandlerRec
  BY DEF SaveHandled, Base, CallTypes, Resting
<1>2. c.order \in Order /\ c.row \in OrderRow /\ [c EXCEPT !.stage = "release"] \in HandlerRec
  BY <1>1 DEF HandlerRec, OrderRow, OrderStatus
<1>3. handler' \in [Handler -> HandlerRec \cup {Resting}]
  BY <1>2 DEF SaveHandled, Base, CallTypes
<1>4. OrderTypes' /\ olive \subseteq olive' /\ events' \in [Order \X Status -> Nat]
  BY <1>2 DEF SaveHandled, Base, RowTypes, OrderTypes, itemVars, vars
<1>6. UNCHANGED <<shipmentVars, pc, createVars, job, call>> /\ aborts' \in Nat
  BY DEF SaveHandled, vars, jobVars, Base, RowTypes
<1> QED BY <1>3, <1>4, <1>6, HandlerBase

LEMMA ReleaseHandledBase ==
  ASSUME OrdersAssumption, Base, NEW h \in Handler, ReleaseHandled(h)
  PROVE  Base'
<1> DEFINE c == handler[h]
<1>1. c \in HandlerRec
  BY DEF ReleaseHandled, Base, CallTypes, Resting
<1>2. c.order \in Order
  BY <1>1 DEF HandlerRec
<1>3. handler' \in [Handler -> HandlerRec \cup {Resting}]
  BY <1>2 DEF ReleaseHandled, Base, CallTypes
<1>4. OrderTypes' /\ olive \subseteq olive' /\ events' \in [Order \X Status -> Nat]
  BY <1>2, NothingTyped DEF ReleaseHandled, Base, RowTypes, OrderTypes, rowVars, vars
<1>6. UNCHANGED <<shipmentVars, pc, createVars, job, call>> /\ aborts' \in Nat
  BY DEF ReleaseHandled, vars, jobVars, Base, RowTypes
<1> QED BY <1>3, <1>4, <1>6, HandlerBase

LEMMA LoseHandlersBase == ASSUME OrdersAssumption, Base, LoseHandlers PROVE Base'
<1>1. handler' \in [Handler -> HandlerRec \cup {Resting}] /\ events' \in [Order \X Status -> Nat]
  BY DEF LoseHandlers
<1>2. OrderTypes' /\ olive \subseteq olive'
  BY DEF LoseHandlers, Base, RowTypes, OrderTypes, rowVars, itemVars
<1>3. UNCHANGED <<shipmentVars, pc, createVars, job, call>> /\ aborts' \in Nat
  BY DEF LoseHandlers, jobVars, Base, RowTypes
<1> QED BY <1>1, <1>2, <1>3, HandlerBase
------------------------------------------------------------------------------
(* Types and shapes: the calls at the shipments. *)
LEMMA WaitingCall ==
  ASSUME Base, NEW r \in Request, At(r, "wait")
  PROVE  /\ call[r] \in CallRec /\ call[r] # NoCall /\ call[r].stage = "wait"
         /\ Shape(call[r]) /\ Own(r) /\ call[r].order \in Order
<1>1. call[r] \in CallRec /\ call[r] # NoCall /\ call[r].stage = "wait"
  BY StageTypes DEF At, Base
<1> QED BY <1>1 DEF Base, CallRec

LEMMA JobTyped ==
  ASSUME Base, NEW r \in Request, NEW S \in SUBSET Shipment, NEW target \in Status \cup {Deleted},
         NEW ret, ret \in BOOLEAN, StartJobs(r, S, target, ret)
  PROVE  /\ job' \in Jobs
         /\ \A q \in Request \ {r} : job'[q] = job[q]
         /\ \A s \in S : /\ job'[r][s].row = row[s] /\ job'[r][s].items = items[s]
                         /\ job'[r][s].target = target /\ job'[r][s] # NoJob
         /\ \A s \in Shipment \ S : job'[r][s] = NoJob
<1> DEFINE J == [s \in Shipment |-> IF s \in S THEN [row |-> row[s], items |-> items[s],
                                                     target |-> target, returnStocks |-> ret]
                                    ELSE NoJob]
<1>1. ASSUME NEW s \in Shipment
      PROVE  [row |-> row[s], items |-> items[s], target |-> target, returnStocks |-> ret] \in ShipJob
  BY DEF Base, RowTypes, ShipJob
<1>2. J \in [Shipment -> ShipJob \cup {NoJob}]
  BY <1>1
<1>3. job' = [job EXCEPT ![r] = J]
  BY DEF StartJobs
<1>4. job \in Jobs
  BY DEF Base, CallTypes
<1>5. /\ job'[r] = J /\ job' \in Jobs
      /\ \A q \in Request \ {r} : job'[q] = job[q]
  <2> HIDE DEF J
  <2> QED BY <1>2, <1>3, <1>4 DEF Jobs
<1>6. ASSUME NEW s \in S
      PROVE  J[s].row = row[s] /\ J[s].items = items[s] /\ J[s].target = target /\ J[s] # NoJob
  <2>1. "none" \notin Status \cup {Deleted}
    BY DEF Status, Deleted
  <2> QED BY <2>1 DEF NoJob
<1>7. \A s \in Shipment \ S : J[s] = NoJob
  OBVIOUS
<1> HIDE DEF J
<1> QED BY <1>5, <1>6, <1>7

LEMMA ChangeShipmentBase ==
  ASSUME OrdersAssumption, Base, NEW r \in Request, NEW s \in Shipment,
         NEW target \in Targets \ {NoStatus}, NEW ret \in BOOLEAN, ChangeShipment(r, s, target, ret)
  PROVE  Base'
<1> DEFINE o == row[s].order
           c == Call("shipment", o, target, orow[o], NoDto, ret, TRUE, "wait")
<1>0. PICK S \in SUBSET {s} : S = {x \in {s} : row[x].status # target}
  OBVIOUS
<1>1. target \in Status /\ o \in Order /\ s \in live /\ s <= lastId
  BY DEF OrdersAssumption, OrderStatus, Base, RowTypes, Row, ChangeShipment, ChangeStatus
<1>2. c \in CallRec
  <2>1. orow[o] \in OrderRow  BY <1>1 DEF Base, RowTypes
  <2> QED BY <1>1, <2>1, NothingTyped, CallTyped DEF CallStage, OrderStatus
<1>3. call' = [call EXCEPT ![r] = c]
  BY DEF ChangeShipment
<1>4. /\ call' \in [Request -> CallRec \cup {NoCall}] /\ call'[r] = c
      /\ \A q \in Request \ {r} : call'[q] = call[q]
  BY <1>2, <1>3, ChangedTyped
<1>5. StartJobs(r, S, target, ret) /\ S \in SUBSET Shipment
  BY <1>0 DEF ChangeShipment, ChangeStatus
<1>6. /\ job' \in Jobs
      /\ \A q \in Request \ {r} : job'[q] = job[q]
      /\ \A t \in S : job'[r][t].row = row[t] /\ job'[r][t].target = target
      /\ \A t \in Shipment \ S : job'[r][t] = NoJob
  <2>1. target \in Status \cup {Deleted}
    BY <1>1
  <2>2. \A v : v \in BOOLEAN /\ StartJobs(r, S, target, v) =>
          /\ job' \in Jobs
          /\ \A q \in Request \ {r} : job'[q] = job[q]
          /\ \A t \in S : job'[r][t].row = row[t] /\ job'[r][t].target = target
          /\ \A t \in Shipment \ S : job'[r][t] = NoJob
    BY <1>5, <2>1, JobTyped
  <2> QED BY <1>5, <2>2
<1>7. call[r].stage = "new" /\ pc[r] = "new" /\ pc' = [pc EXCEPT ![r] = "run"]
  BY DEF ChangeShipment, ChangeStatus, At
<1>8. /\ UNCHANGED <<shipmentVars, createVars, events, aborts, rowVars, itemVars, handler>>
      /\ overlapped' \subseteq Order
  BY <1>1 DEF ChangeShipment, ChangeStatus, Touch, Base, RowTypes
<1>9. RowTypes' /\ RowsFit'
  BY <1>8 DEF Base, RowTypes, RowsFit, shipmentVars, rowVars, itemVars
<1>10. CallTypes'
  BY <1>4, <1>6, <1>7, <1>8 DEF Base, CallTypes, createVars
<1>11. Others(r)
  BY <1>4, <1>6, <1>7, <1>8 DEF Others, createVars, Base, CallTypes
<1>12. IdsKept
  BY <1>8 DEF IdsKept, shipmentVars, Base, RowTypes
<1>13. Shape(c)
  BY <1>1 DEF Shape, Call, Saving
<1>14. Own(r)'
  <2>1. pc'[r] = "run"  BY <1>7 DEF Base, CallTypes
  <2>2. Own(r)  BY DEF Base
  <2>3. filter'[r] = NoFilter /\ \A w \in Warehouse : made'[r][w] = 0
    BY <1>7, <1>8, <2>2 DEF Own, createVars
  <2>4. c.kind = "shipment" /\ c.stage = "wait" /\ c.order = o /\ c.target = target
    BY DEF Call
  <2>5. \A t \in Shipment : job'[r][t] # NoJob => t = s
    BY <1>6
  <2>6. job'[r][s] # NoJob => job'[r][s].row = row[s] /\ job'[r][s].target = target
    BY <1>6
  <2>7. lastId' = lastId /\ row' = row
    BY <1>8 DEF shipmentVars
  <2> HIDE DEF c
  <2> QED BY <1>1, <1>4, <2>1, <2>3, <2>4, <2>5, <2>6, <2>7 DEF Own, Saving
<1> QED BY <1>4, <1>9, <1>10, <1>11, <1>12, <1>13, <1>14, BaseFrom DEF Fits

(* Ship, by what the call does there. *)
LEMMA ShipBegins ==
  ASSUME Base, NEW r \in Request, Ship(r)
  PROVE  LET c == call[r] IN
         /\ c \in CallRec /\ c # NoCall /\ c.stage = "ship" /\ Shape(c) /\ Own(r)
         /\ c.order \in Order /\ c.returnStocks \in BOOLEAN
         /\ call' \in [Request -> CallRec \cup {NoCall}]
         /\ call'[r] = [c EXCEPT !.stage = "wait"] /\ Shape(call'[r])
         /\ \A q \in Request \ {r} : call'[q] = call[q]
         /\ \/ c.kind = "delete" /\ Delete(r, OfOrder(c.order), c.returnStocks)
            \/ /\ c.kind \in Saving /\ c.target = "sent_for_shipment"
               /\ CreateForOrder(r, c.order, c.held)
            \/ /\ c.kind \in Saving /\ c.target \in Status \ {"sent_for_shipment"}
               /\ ProcessOrder(r, c.order, c.target, c.returnStocks)
<1> DEFINE c == call[r]
<1>1. c \in CallRec /\ c # NoCall /\ c.stage = "ship"
  BY StageTypes DEF Ship, At, Base
<1>2. Shape(c) /\ Own(r)
  BY <1>1 DEF Base
<1>3. c.order \in Order /\ c.returnStocks \in BOOLEAN
  BY <1>1 DEF CallRec
<1>4. Goto(r, "wait")
  BY DEF Ship
<1>5. /\ call' \in [Request -> CallRec \cup {NoCall}] /\ call'[r] = [c EXCEPT !.stage = "wait"]
      /\ \A q \in Request \ {r} : call'[q] = call[q]
  BY <1>1, <1>4, GotoTyped DEF CallStage
<1>6. Shape(call'[r])
  BY <1>1, <1>2, <1>5 DEF Shape, Saving, CallRec
<1>7. c.kind = "delete" => c.target = Deleted
  BY <1>2 DEF Shape
<1>8. c.kind # "delete" => c.kind \in Saving /\ c.target \in Status
  BY <1>1, <1>2 DEF Shape, Saving, CallRec
<1>9. Deleted \notin Status /\ "sent_for_shipment" \in Status /\ Deleted # "sent_for_shipment"
  BY DEF Deleted, Status
<1>10. \/ c.target = Deleted /\ Delete(r, OfOrder(c.order), c.returnStocks)
       \/ c.target = "sent_for_shipment" /\ CreateForOrder(r, c.order, c.held)
       \/ c.target \notin {Deleted, "sent_for_shipment"}
            /\ ProcessOrder(r, c.order, c.target, c.returnStocks)
  BY DEF Ship
<1> QED BY <1>1, <1>2, <1>3, <1>5, <1>6, <1>7, <1>8, <1>9, <1>10

LEMMA OfOrderMatches ==
  ASSUME NEW o \in Order, RowTypes
  PROVE  Matches(OfOrder(o)) = ShipmentsOf(o)
<1>1. \A s \in live : s \in Shipment /\ row[s].warehouse \in Warehouse
  <2>1. live \subseteq Shipment
    BY ShipmentsAssumption DEF RowTypes, Shipment
  <2> QED BY <2>1 DEF RowTypes, Row
<1> QED BY <1>1 DEF Matches, OfOrder, ShipmentsOf

LEMMA LiveIds == ASSUME RowTypes PROVE live \subseteq Shipment /\ \A s \in live : s <= lastId
BY ShipmentsAssumption DEF RowTypes, Shipment

(* ProcessOrder and Delete: the call runs jobs on some shipments of its order. *)
LEMMA JobsBegin ==
  ASSUME Base, NEW r \in Request, NEW S \in SUBSET ShipmentsOf(call[r].order),
         call[r] \in CallRec, Own(r), call[r].stage = "ship",
         call' \in [Request -> CallRec \cup {NoCall}], call'[r] = [call[r] EXCEPT !.stage = "wait"],
         \A q \in Request \ {r} : call'[q] = call[q], Shape(call'[r]),
         StartJobs(r, S, call[r].target, call[r].returnStocks),
         NEW stage \in {"run", "delete"}, pc' = [pc EXCEPT ![r] = stage],
         filter' = IF stage = "delete" THEN [filter EXCEPT ![r] = OfOrder(call[r].order)] ELSE filter,
         stage = "delete" => call[r].kind = "delete",
         stage = "run" => call[r].kind \in Saving /\ call[r].target # "sent_for_shipment",
         call[r].target \in Status \cup {Deleted},
         UNCHANGED <<shipmentVars, plan, made, events, aborts, rowVars, itemVars, handler, overlapped>>
  PROVE  Base'
<1> DEFINE c == call[r]
<1>1. c.order \in Order /\ c.returnStocks \in BOOLEAN
  BY DEF CallRec
<1>2. S \in SUBSET Shipment
  BY LiveIds DEF Base, ShipmentsOf
<1>3. /\ job' \in Jobs
      /\ \A q \in Request \ {r} : job'[q] = job[q]
      /\ \A s \in S : job'[r][s].row = row[s] /\ job'[r][s].target = c.target
      /\ \A s \in Shipment \ S : job'[r][s] = NoJob
  <2>1. \A v : v \in BOOLEAN /\ StartJobs(r, S, c.target, v) =>
          /\ job' \in Jobs
          /\ \A q \in Request \ {r} : job'[q] = job[q]
          /\ \A s \in S : job'[r][s].row = row[s] /\ job'[r][s].target = c.target
          /\ \A s \in Shipment \ S : job'[r][s] = NoJob
    BY <1>2, JobTyped
  <2> QED BY <1>1, <2>1
<1>4. OfOrder(c.order) \in Filter
  BY <1>1 DEF OfOrder, Filter
<1>5. /\ pc' \in [Request -> {"new", "run", "create", "delete", "done", "failed"}]
      /\ pc'[r] = stage /\ \A q \in Request \ {r} : pc'[q] = pc[q]
  BY DEF Base, CallTypes
<1>6. filter' \in [Request -> Filter] /\ \A q \in Request \ {r} : filter'[q] = filter[q]
  BY <1>4 DEF Base, CallTypes
<1>7. pc[r] \in {"new", "done", "failed"}
  BY DEF Own
<1>8. filter[r] = NoFilter /\ \A w \in Warehouse : made[r][w] = 0
  BY <1>7 DEF Own
<1>9. filter'[r] = IF stage = "delete" THEN OfOrder(c.order) ELSE NoFilter
  BY <1>8 DEF Base, CallTypes
<1>10. RowTypes' /\ RowsFit'
  BY DEF Base, RowTypes, RowsFit, shipmentVars, rowVars, itemVars
<1>11. CallTypes'
  BY <1>3, <1>5, <1>6 DEF Base, CallTypes
<1>12. Others(r)
  BY <1>3, <1>5, <1>6 DEF Others
<1>13. IdsKept
  BY DEF IdsKept, shipmentVars, Base, RowTypes
<1>14. Own(r)'
  <2>1. /\ call'[r].kind = c.kind /\ call'[r].order = c.order /\ call'[r].target = c.target
        /\ call'[r].stage = "wait"
    BY DEF CallRec
  <2>2. \A s \in Shipment : job'[r][s] # NoJob => s \in S
    BY <1>3
  <2>3. \A s \in S : row[s].order = c.order /\ s <= lastId
    BY LiveIds DEF ShipmentsOf, Base
  <2>4. lastId' = lastId /\ row' = row /\ made' = made
    BY DEF shipmentVars
  <2>a. OfOrder(call[r].order)' = OfOrder(c.order)
    BY <2>1 DEF OfOrder
  <2>5. filter'[r] = IF pc'[r] \in {"create", "delete"} THEN OfOrder(call[r].order)' ELSE NoFilter
    BY <1>5, <1>9, <2>a
  <2>6. \/ pc'[r] = "delete" /\ c.kind = "delete"
        \/ pc'[r] = "run" /\ c.kind # "delete" /\ (c.kind \in Saving => c.target # "sent_for_shipment")
    BY <1>5 DEF Saving
  <2>7. \A s \in Shipment : job'[r][s] # NoJob =>
          /\ pc'[r] \in {"run", "delete"} /\ s <= lastId' /\ job'[r][s].target = c.target
          /\ job'[r][s].row.order = c.order /\ row'[s].order = c.order
          /\ job'[r][s].row.warehouse = row'[s].warehouse
    BY <1>3, <1>5, <2>2, <2>3, <2>4
  <2> HIDE DEF c
  <2> QED BY <1>8, <2>1, <2>4, <2>5, <2>6, <2>7 DEF Own
<1> QED BY <1>10, <1>11, <1>12, <1>13, <1>14, BaseFrom DEF Fits

LEMMA CreateBegins ==
  ASSUME Base, NEW r \in Request, call[r] \in CallRec, Own(r), call[r].stage = "ship",
         call' \in [Request -> CallRec \cup {NoCall}], call'[r] = [call[r] EXCEPT !.stage = "wait"],
         \A q \in Request \ {r} : call'[q] = call[q], Shape(call'[r]),
         call[r].kind \in Saving, call[r].target = "sent_for_shipment",
         CreateForOrder(r, call[r].order, call[r].held),
         UNCHANGED <<rowVars, itemVars, handler, overlapped>>
  PROVE  Base'
<1> DEFINE c == call[r]
           S == ShipmentsOf(c.order)
<1>1. c.order \in Order /\ c.held \in Amounts
  BY DEF CallRec
<1>2. Replaced(c.order) = S
  BY <1>1, OfOrderMatches DEF Replaced, Base
<1>3. live' = live \ S /\ items' = [s \in Shipment |-> IF s \in S THEN [l \in Line |-> 0] ELSE items[s]]
  BY <1>2 DEF CreateForOrder
<1>4. /\ pc' = [pc EXCEPT ![r] = "create"] /\ filter' = [filter EXCEPT ![r] = OfOrder(c.order)]
      /\ plan' = [plan EXCEPT ![r] = c.held]
      /\ UNCHANGED <<row, lastId, made, job, events, aborts>>
  BY DEF CreateForOrder, jobVars
<1>5. OfOrder(c.order) \in Filter
  BY <1>1 DEF OfOrder, Filter
<1>6. RowTypes'
  BY <1>3, <1>4 DEF Base, RowTypes, rowVars, itemVars
<1>7. RowsFit'
  BY <1>3, <1>4 DEF Base, RowsFit, RowTypes, rowVars
<1> HIDE DEF S
<1>8. CallTypes'
  BY <1>1, <1>4, <1>5 DEF Base, CallTypes
<1>9. Others(r)
  BY <1>4 DEF Others, Base, CallTypes
<1>10. IdsKept
  BY <1>4 DEF IdsKept, Base, RowTypes
<1>11. Own(r)'
  <2>1. /\ call'[r].kind = c.kind /\ call'[r].order = c.order /\ call'[r].target = c.target
        /\ call'[r].stage = "wait"
    BY DEF CallRec
  <2>2. pc[r] \in {"new", "done", "failed"}
    BY DEF Own
  <2>3. (\A s \in Shipment : job[r][s] = NoJob) /\ \A w \in Warehouse : made[r][w] = 0
    BY <2>2 DEF Own
  <2>4. pc'[r] = "create" /\ filter'[r] = OfOrder(c.order)
    BY <1>4 DEF Base, CallTypes
  <2>a. OfOrder(call[r].order)' = OfOrder(c.order)
    BY <2>1 DEF OfOrder
  <2> QED BY <1>4, <2>1, <2>3, <2>4, <2>a DEF Own
<1> QED BY <1>6, <1>7, <1>8, <1>9, <1>10, <1>11, BaseFrom DEF Fits

LEMMA ShipBase ==
  ASSUME OrdersAssumption, Base, NEW r \in Request, Ship(r)
  PROVE  Base'
<1> DEFINE c == call[r]
<1>1. /\ c \in CallRec /\ c # NoCall /\ c.stage = "ship" /\ Shape(c) /\ Own(r)
      /\ c.order \in Order /\ c.returnStocks \in BOOLEAN
      /\ call' \in [Request -> CallRec \cup {NoCall}]
      /\ call'[r] = [c EXCEPT !.stage = "wait"] /\ Shape(call'[r])
      /\ \A q \in Request \ {r} : call'[q] = call[q]
      /\ \/ c.kind = "delete" /\ Delete(r, OfOrder(c.order), c.returnStocks)
         \/ /\ c.kind \in Saving /\ c.target = "sent_for_shipment"
            /\ CreateForOrder(r, c.order, c.held)
         \/ /\ c.kind \in Saving /\ c.target \in Status \ {"sent_for_shipment"}
            /\ ProcessOrder(r, c.order, c.target, c.returnStocks)
  BY ShipBegins
<1>2. UNCHANGED <<rowVars, itemVars, handler, overlapped>>
  BY DEF Ship
<1>3. Matches(OfOrder(c.order)) = ShipmentsOf(c.order)
  BY <1>1, OfOrderMatches DEF Base
<1>4. CASE c.kind = "delete" /\ Delete(r, OfOrder(c.order), c.returnStocks)
  <2>1. PICK S \in SUBSET ShipmentsOf(c.order) :
          S = {s \in ShipmentsOf(c.order) : c.returnStocks /\ row[s].status = "shipped"}
    OBVIOUS
  <2>2. StartJobs(r, S, Deleted, c.returnStocks)
    BY <1>3, <1>4, <2>1 DEF Delete
  <2>3. c.target = Deleted
    BY <1>1, <1>4 DEF Shape
  <2>4. /\ pc' = [pc EXCEPT ![r] = "delete"] /\ filter' = [filter EXCEPT ![r] = OfOrder(c.order)]
        /\ UNCHANGED <<shipmentVars, plan, made, events, aborts>>
    BY <1>4 DEF Delete
  <2> QED BY <1>1, <1>2, <1>4, <2>2, <2>3, <2>4, JobsBegin
<1>5. CASE c.kind \in Saving /\ c.target = "sent_for_shipment" /\ CreateForOrder(r, c.order, c.held)
  BY <1>1, <1>2, <1>5, CreateBegins
<1>6. CASE c.kind \in Saving /\ c.target \in Status \ {"sent_for_shipment"}
             /\ ProcessOrder(r, c.order, c.target, c.returnStocks)
  <2>1. PICK S \in SUBSET ShipmentsOf(c.order) :
          S = {s \in ShipmentsOf(c.order) : row[s].status # c.target}
    OBVIOUS
  <2>2. StartJobs(r, S, c.target, c.returnStocks)
    BY <1>3, <1>6, <2>1 DEF ProcessOrder
  <2>4. /\ pc' = [pc EXCEPT ![r] = "run"] /\ filter' = filter
        /\ UNCHANGED <<shipmentVars, plan, made, events, aborts>>
    BY <1>6 DEF ProcessOrder, createVars
  <2> QED BY <1>1, <1>2, <1>6, <2>2, <2>4, JobsBegin
<1> QED BY <1>1, <1>4, <1>5, <1>6

(* The order of a call, and its shape, stay while it waits. *)
LEMMA WaitFrom ==
  ASSUME Base, NEW r \in Request, At(r, "wait"), UNCHANGED orderVars, aborts' \in Nat,
         Others(r), IdsKept, Own(r)', RowsFit', pc' \in [Request -> {"new", "run", "create", "delete", "done", "failed"}],
         live' \subseteq 1..lastId', lastId' \in 0..MaxShipment, row' \in [Shipment -> Row],
         items' \in [Shipment -> [Line -> Nat]], events' \in [Order \X Status -> Nat],
         filter' \in [Request -> Filter], plan' \in [Request -> Amounts],
         made' \in [Request -> [Warehouse -> 0..MaxShipment]], job' \in Jobs
  PROVE  Base'
<1>1. RowTypes' /\ CallTypes'
  BY DEF Base, RowTypes, CallTypes, orderVars, rowVars, itemVars, callVars
<1>2. Fits(r)'
  BY DEF Fits, Base, Shape, orderVars, callVars
<1> QED BY <1>1, <1>2, BaseFrom

(* What SaveShipment does. *)
LEMMA SaveShipmentDoes ==
  ASSUME Base, NEW r \in Request, At(r, "wait"), NEW s \in Shipment, SaveShipment(r, s)
  PROVE  LET c == call[r] IN
         /\ c.order \in Order /\ c.target \in Status /\ job[r][s] # NoJob /\ pc[r] = "run"
         /\ s <= lastId /\ row[s].order = c.order
         /\ row' \in [Shipment -> Row] /\ row'[s].order = c.order /\ row'[s].status = c.target
         /\ row'[s].warehouse = row[s].warehouse
         /\ \A t \in Shipment \ {s} : row'[t] = row[t]
         /\ live' = live \cup {s}
         /\ events' \in [Order \X Status -> Nat] /\ events'[<<c.order, c.target>>] > 0
         /\ \A o \in Order, st \in Status :
              <<o, st>> # <<c.order, c.target>> => events'[<<o, st>>] = events[<<o, st>>]
         /\ job' \in Jobs /\ job'[r][s] = NoJob
         /\ \A t \in Shipment \ {s} : job'[r][t] = job[r][t]
         /\ \A q \in Request \ {r} : job'[q] = job[q]
         /\ UNCHANGED <<items, lastId, pc, createVars, aborts>>
<1> DEFINE c == call[r]
           j == job[r][s]
<1>1. c \in CallRec /\ c.stage = "wait" /\ Shape(c) /\ Own(r) /\ c.order \in Order
  BY WaitingCall
<1>2. j # NoJob /\ j.target # Deleted
  BY DEF SaveShipment
<1>3. j \in ShipJob
  BY <1>2 DEF Base, CallTypes, Jobs
<1>4. /\ pc[r] \in {"run", "delete"} /\ s <= lastId /\ j.target = c.target
      /\ j.row.order = c.order /\ row[s].order = c.order /\ j.row.warehouse = row[s].warehouse
  BY <1>1, <1>2 DEF Own
<1>5. c.target \in Status
  BY <1>2, <1>3, <1>4 DEF ShipJob
<1>6. pc[r] = "run"
  BY <1>1, <1>2, <1>4 DEF Own, Shape
<1>7. row' = [row EXCEPT ![s] = Processed(j.row, j.target)]
  BY DEF SaveShipment
<1>8. /\ Processed(j.row, j.target) \in Row /\ Processed(j.row, j.target).order = c.order
      /\ Processed(j.row, j.target).status = c.target
      /\ Processed(j.row, j.target).warehouse = row[s].warehouse
  <2>1. j.row \in Row
    BY <1>3 DEF ShipJob
  <2> QED BY <2>1, <1>4, <1>5 DEF Processed, Row
<1>9. /\ row' \in [Shipment -> Row] /\ row'[s] = Processed(j.row, j.target)
      /\ \A t \in Shipment \ {s} : row'[t] = row[t]
  BY <1>7, <1>8 DEF Base, RowTypes
<1>10. events' = [events EXCEPT ![<<c.order, c.target>>] = @ + 1]
  BY <1>4 DEF SaveShipment
<1>11. /\ events' \in [Order \X Status -> Nat] /\ events'[<<c.order, c.target>>] > 0
       /\ \A o \in Order, st \in Status :
            <<o, st>> # <<c.order, c.target>> => events'[<<o, st>>] = events[<<o, st>>]
  <2>1. events \in [Order \X Status -> Nat] /\ <<c.order, c.target>> \in Order \X Status
    BY <1>1, <1>5 DEF Base, RowTypes
  <2>2. events[<<c.order, c.target>>] \in Nat
    BY <2>1
  <2>3. events'[<<c.order, c.target>>] = events[<<c.order, c.target>>] + 1
    BY <1>10, <2>1
  <2>4. events' \in [Order \X Status -> Nat]
    BY <1>10, <2>1, <2>2
  <2>5. \A e \in Order \X Status : e # <<c.order, c.target>> => events'[e] = events[e]
    BY <1>10, <2>1
  <2> QED BY <2>2, <2>3, <2>4, <2>5
<1>12. job' = [job EXCEPT ![r][s] = NoJob]
  BY DEF SaveShipment
<1>13. /\ job' \in Jobs /\ job'[r][s] = NoJob
       /\ \A t \in Shipment \ {s} : job'[r][t] = job[r][t]
       /\ \A q \in Request \ {r} : job'[q] = job[q]
  <2>1. job \in Jobs
    BY DEF Base, CallTypes
  <2> QED BY <1>12, <2>1 DEF Jobs
<1>14. live' = live \cup {s} /\ UNCHANGED <<items, lastId, pc, createVars, aborts>>
  BY DEF SaveShipment
<1> QED BY <1>1, <1>2, <1>4, <1>5, <1>6, <1>8, <1>9, <1>11, <1>13, <1>14

LEMMA SaveShipmentBase ==
  ASSUME OrdersAssumption, Base, NEW r \in Request, At(r, "wait"), NEW s \in Shipment,
         SaveShipment(r, s), s \in live \/ job[r][s].row.order \in olive, UNCHANGED orderVars
  PROVE  Base'
<1> DEFINE c == call[r]
<1>1. c \in CallRec /\ c.stage = "wait" /\ Shape(c) /\ Own(r) /\ c.order \in Order
  BY WaitingCall
<1>2. /\ c.target \in Status /\ job[r][s] # NoJob /\ pc[r] = "run" /\ s <= lastId
      /\ row[s].order = c.order
      /\ row' \in [Shipment -> Row] /\ row'[s].order = c.order
      /\ row'[s].warehouse = row[s].warehouse
      /\ \A t \in Shipment \ {s} : row'[t] = row[t]
      /\ live' = live \cup {s} /\ events' \in [Order \X Status -> Nat]
      /\ job' \in Jobs /\ job'[r][s] = NoJob
      /\ \A t \in Shipment \ {s} : job'[r][t] = job[r][t]
      /\ \A q \in Request \ {r} : job'[q] = job[q]
      /\ UNCHANGED <<items, lastId, pc, createVars, aborts>>
  BY SaveShipmentDoes
<1>3. IdsKept
  <2>1. \A t \in Shipment : row'[t].order = row[t].order /\ row'[t].warehouse = row[t].warehouse
    BY <1>2
  <2> QED BY <1>2, <2>1 DEF IdsKept, Base, RowTypes
<1>4. Others(r)
  BY <1>2 DEF Others, createVars, orderVars, callVars
<1>5. RowsFit'
  <2>1. olive' = olive
    BY DEF orderVars, rowVars
  <2>2. job[r][s].row.order = c.order
    BY <1>1, <1>2 DEF Own
  <2>3. s \in live => row[s].order \in olive
    BY DEF Base, RowsFit
  <2>4. c.order \in olive
    BY <1>2, <2>2, <2>3
  <2>5. live \subseteq Shipment
    BY LiveIds DEF Base
  <2>6. \A t \in live' : row'[t].order \in olive
    BY <1>2, <2>4, <2>5 DEF RowsFit, Base
  <2>7. \A t \in Shipment \ live', l \in Line : items'[t][l] = 0
    BY <1>2 DEF RowsFit, Base
  <2> QED BY <2>1, <2>6, <2>7 DEF RowsFit
<1>6. Own(r)'
  <2>1. call' = call
    BY DEF orderVars, callVars
  <2>2. \A t \in Shipment : row'[t].order = row[t].order /\ row'[t].warehouse = row[t].warehouse
    BY <1>2
  <2>3. \A t \in Shipment : job'[r][t] # NoJob => t # s /\ job'[r][t] = job[r][t]
    BY <1>2
  <2>4. \A w \in Warehouse : made[r][w] = 0
    BY <1>1, <1>2 DEF Own
  <2>5. pc' = pc /\ filter' = filter /\ made' = made /\ lastId' = lastId
    BY <1>2 DEF createVars
  <2> QED BY <1>1, <1>2, <2>1, <2>2, <2>3, <2>4, <2>5 DEF Own, OfOrder
<1>7. live' \subseteq 1..lastId'
  <2>1. lastId \in Nat /\ s \in 1..lastId
    BY <1>2, ShipmentsAssumption DEF Base, RowTypes, Shipment
  <2> QED BY <1>2, <2>1 DEF Base, RowTypes
<1> QED BY <1>2, <1>3, <1>4, <1>5, <1>6, <1>7, WaitFrom DEF Base, RowTypes, CallTypes, createVars

(* What CreateShipment does. *)
LEMMA CreateShipmentDoes ==
  ASSUME Base, NEW r \in Request, At(r, "wait"), NEW w \in Warehouse, CreateShipment(r, w)
  PROVE  LET c == call[r]
             s == lastId + 1
         IN
         /\ c.order \in Order /\ pc[r] = "create" /\ s \in Shipment /\ lastId \in Nat
         /\ made[r][w] = 0 /\ \E l \in Line : plan[r][l][w] > 0
         /\ lastId' = s /\ live' = live \cup {s}
         /\ row' \in [Shipment -> Row]
         /\ row'[s].order = c.order /\ row'[s].status = "sent_for_shipment" /\ row'[s].warehouse = w
         /\ \A t \in Shipment \ {s} : row'[t] = row[t]
         /\ made' \in [Request -> [Warehouse -> 0..MaxShipment]] /\ made'[r][w] = s
         /\ \A v \in Warehouse \ {w} : made'[r][v] = made[r][v]
         /\ \A q \in Request \ {r} : made'[q] = made[q]
         /\ UNCHANGED <<items, pc, filter, plan, job, events, aborts>>
<1> DEFINE c == call[r]
           s == lastId + 1
           new == [order |-> c.order, status |-> "sent_for_shipment",
                   shippedAt |-> FALSE, warehouse |-> w]
<1>1. c \in CallRec /\ c.stage = "wait" /\ Own(r) /\ c.order \in Order
  BY WaitingCall
<1>2. pc[r] = "create" /\ made[r][w] = 0 /\ lastId < MaxShipment /\ \E l \in Line : plan[r][l][w] > 0
  BY DEF CreateShipment, HasShipment
<1>3. lastId \in Nat /\ s \in Shipment /\ s \in 1..MaxShipment
  BY <1>2, ShipmentsAssumption DEF Base, RowTypes, Shipment
<1>4. filter[r].orders = {c.order}
  BY <1>1, <1>2 DEF Own, OfOrder
<1>5. lastId' = s /\ live' = live \cup {s}
  BY DEF CreateShipment
<1>6. new \in Row
  BY <1>1 DEF Row, Status
<1>7. row' = [row EXCEPT ![s] = new]
  BY <1>4, <1>5 DEF CreateShipment
<1>8. /\ row' \in [Shipment -> Row] /\ \A t \in Shipment \ {s} : row'[t] = row[t]
      /\ row'[s].order = c.order /\ row'[s].status = "sent_for_shipment" /\ row'[s].warehouse = w
  <2>1. row' \in [Shipment -> Row] /\ row'[s] = new /\ \A t \in Shipment \ {s} : row'[t] = row[t]
    <3> HIDE DEF new, s
    <3> QED BY <1>3, <1>6, <1>7 DEF Base, RowTypes
  <2> QED BY <2>1
<1>9. made' = [made EXCEPT ![r][w] = s]
  BY <1>5 DEF CreateShipment
<1>10. /\ made' \in [Request -> [Warehouse -> 0..MaxShipment]] /\ made'[r][w] = s
       /\ \A v \in Warehouse \ {w} : made'[r][v] = made[r][v]
       /\ \A q \in Request \ {r} : made'[q] = made[q]
  <2>1. s \in 0..MaxShipment
    BY <1>3
  <2> HIDE DEF s
  <2> QED BY <1>9, <2>1 DEF Base, CallTypes
<1>11. UNCHANGED <<items, pc, filter, plan, job, events, aborts>>
  BY DEF CreateShipment, jobVars
<1> QED BY <1>1, <1>2, <1>3, <1>5, <1>8, <1>10, <1>11

LEMMA CreateShipmentBase ==
  ASSUME OrdersAssumption, Base, NEW r \in Request, At(r, "wait"), NEW w \in Warehouse,
         CreateShipment(r, w), filter[r].orders \subseteq olive, UNCHANGED orderVars
  PROVE  Base'
<1> DEFINE c == call[r]
<1>1. c \in CallRec /\ c.stage = "wait" /\ Shape(c) /\ Own(r) /\ c.order \in Order
  BY WaitingCall
<1>0. PICK s \in Shipment : s = lastId + 1
  BY CreateShipmentDoes
<1>2. /\ pc[r] = "create" /\ lastId \in Nat /\ made[r][w] = 0
      /\ lastId' = s /\ live' = live \cup {s} /\ row' \in [Shipment -> Row]
      /\ row'[s].order = c.order /\ row'[s].warehouse = w
      /\ \A t \in Shipment \ {s} : row'[t] = row[t]
      /\ made' \in [Request -> [Warehouse -> 0..MaxShipment]] /\ made'[r][w] = s
      /\ \A v \in Warehouse \ {w} : made'[r][v] = made[r][v]
      /\ \A q \in Request \ {r} : made'[q] = made[q]
      /\ UNCHANGED <<items, pc, filter, plan, job, events, aborts>>
  BY <1>0, CreateShipmentDoes
<1>3. \A t \in Shipment : t <= lastId => t # s /\ row'[t] = row[t] /\ t <= lastId'
  BY <1>0, <1>2 DEF Shipment
<1>4. IdsKept
  BY <1>0, <1>2, <1>3 DEF IdsKept
<1>5. Others(r)
  BY <1>2 DEF Others, orderVars, callVars
<1>6. RowsFit'
  <2>1. olive' = olive /\ c.order \in olive
    BY <1>1, <1>2 DEF orderVars, rowVars, Own, OfOrder
  <2>2. \A t \in live : t \in Shipment /\ t <= lastId
    BY LiveIds DEF Base
  <2>3. \A t \in live : row'[t].order \in olive
    BY <1>3, <2>2 DEF RowsFit, Base
  <2>4. \A t \in live' : row'[t].order \in olive
    BY <1>2, <2>1, <2>3
  <2>5. \A t \in Shipment \ live', l \in Line : items'[t][l] = 0
    BY <1>2 DEF RowsFit, Base
  <2> QED BY <2>1, <2>4, <2>5 DEF RowsFit
<1>7. Own(r)'
  <2>1. call' = call /\ pc' = pc /\ filter' = filter /\ job' = job
    BY <1>2 DEF orderVars, callVars
  <2>2. \A t \in Shipment : job[r][t] = NoJob
    BY <1>1, <1>2 DEF Own
  <2>3. ASSUME NEW v \in Warehouse, made'[r][v] # 0
        PROVE  /\ made'[r][v] <= lastId'
               /\ row'[made'[r][v]].order = c.order /\ row'[made'[r][v]].warehouse = v
    <3>1. CASE v = w
      BY <1>2, <3>1
    <3>2. CASE v # w
      <4>1. made'[r][v] = made[r][v]
        BY <1>2, <3>2
      <4>2. made[r][v] \in Shipment /\ made[r][v] <= lastId
        BY <1>1, <2>3, <4>1, ShipmentsAssumption DEF Own, Base, CallTypes, Shipment
      <4> QED BY <1>1, <1>3, <2>3, <4>1, <4>2 DEF Own
    <3> QED BY <3>1, <3>2
  <2> QED BY <1>1, <1>2, <2>1, <2>2, <2>3 DEF Own, OfOrder
<1>8. live' \subseteq 1..lastId' /\ lastId' \in 0..MaxShipment
  BY <1>0, <1>2, ShipmentsAssumption DEF Base, RowTypes, Shipment
<1> QED BY <1>2, <1>4, <1>5, <1>6, <1>7, <1>8, WaitFrom DEF Base, RowTypes, CallTypes

(* What CreateItem does. *)
LEMMA CreateItemDoes ==
  ASSUME Base, NEW r \in Request, At(r, "wait"), NEW l \in Line, NEW w \in Warehouse,
         CreateItem(r, l, w)
  PROVE  LET s == made[r][w] IN
         /\ pc[r] = "create" /\ plan[r][l][w] > 0 /\ s \in Shipment /\ s <= lastId
         /\ row[s].order = call[r].order
         /\ UNCHANGED <<live, row, lastId, job, events, aborts>>
         /\ \/ /\ s \in live /\ items' = [items EXCEPT ![s][l] = plan[r][l][w]]
               /\ plan' = [plan EXCEPT ![r][l][w] = 0] /\ UNCHANGED <<pc, filter, made>>
            \/ /\ s \notin live /\ pc' = [pc EXCEPT ![r] = "failed"]
               /\ plan' = [plan EXCEPT ![r] = Nothing]
               /\ made' = [made EXCEPT ![r] = [y \in Warehouse |-> 0]]
               /\ filter' = [filter EXCEPT ![r] = NoFilter] /\ UNCHANGED items
<1>1. Own(r)
  BY WaitingCall
<1>2. pc[r] = "create" /\ plan[r][l][w] > 0 /\ made[r][w] # 0
  BY DEF CreateItem, HasShipment
<1>3. made[r][w] \in Shipment
  BY <1>2, ShipmentsAssumption DEF Base, CallTypes, Shipment
<1> QED BY <1>1, <1>2, <1>3 DEF CreateItem, Own, jobVars, Nothing

LEMMA ItemsTyped ==
  ASSUME RowTypes, NEW s \in Shipment, NEW l \in Line, NEW n \in Nat
  PROVE  /\ [items EXCEPT ![s][l] = n] \in [Shipment -> [Line -> Nat]]
         /\ [items EXCEPT ![s][l] = n][s][l] = n
         /\ \A t \in Shipment, k \in Line :
              <<t, k>> # <<s, l>> => [items EXCEPT ![s][l] = n][t][k] = items[t][k]
BY DEF RowTypes

LEMMA PlanTyped ==
  ASSUME CallTypes, NEW r \in Request, NEW l \in Line, NEW w \in Warehouse
  PROVE  /\ [plan EXCEPT ![r][l][w] = 0] \in [Request -> Amounts]
         /\ [plan EXCEPT ![r][l][w] = 0][r][l][w] = 0
         /\ \A k \in Line, v \in Warehouse :
              <<k, v>> # <<l, w>> => [plan EXCEPT ![r][l][w] = 0][r][k][v] = plan[r][k][v]
         /\ \A q \in Request \ {r} : [plan EXCEPT ![r][l][w] = 0][q] = plan[q]
<1>1. plan[r] \in Amounts /\ [plan[r] EXCEPT ![l][w] = 0] \in Amounts
  BY AmountsTyped DEF CallTypes
<1>2. [plan EXCEPT ![r][l][w] = 0] = [plan EXCEPT ![r] = [plan[r] EXCEPT ![l][w] = 0]]
  BY <1>1 DEF CallTypes, Amounts
<1>3. /\ [plan[r] EXCEPT ![l][w] = 0][l][w] = 0
      /\ \A k \in Line, v \in Warehouse :
           <<k, v>> # <<l, w>> => [plan[r] EXCEPT ![l][w] = 0][k][v] = plan[r][k][v]
  BY <1>1 DEF Amounts
<1> QED BY <1>1, <1>2, <1>3 DEF CallTypes

LEMMA CreateItemBase ==
  ASSUME OrdersAssumption, Base, NEW r \in Request, At(r, "wait"), NEW l \in Line,
         NEW w \in Warehouse, CreateItem(r, l, w), UNCHANGED orderVars
  PROVE  Base'
<1> DEFINE s == made[r][w]
<1>1. call[r] \in CallRec /\ call[r].stage = "wait" /\ Own(r)
  BY WaitingCall
<1>2. /\ pc[r] = "create" /\ s \in Shipment /\ s <= lastId
      /\ UNCHANGED <<live, row, lastId, job, events, aborts>>
      /\ \/ /\ s \in live /\ items' = [items EXCEPT ![s][l] = plan[r][l][w]]
            /\ plan' = [plan EXCEPT ![r][l][w] = 0] /\ UNCHANGED <<pc, filter, made>>
         \/ /\ s \notin live /\ pc' = [pc EXCEPT ![r] = "failed"]
            /\ plan' = [plan EXCEPT ![r] = Nothing]
            /\ made' = [made EXCEPT ![r] = [y \in Warehouse |-> 0]]
            /\ filter' = [filter EXCEPT ![r] = NoFilter] /\ UNCHANGED items
  BY CreateItemDoes
<1>3. IdsKept
  BY <1>2 DEF IdsKept, Base, RowTypes
<1>4. call' = call /\ olive' = olive
  BY DEF orderVars, callVars, rowVars
<1>5. CASE /\ s \in live /\ items' = [items EXCEPT ![s][l] = plan[r][l][w]]
           /\ plan' = [plan EXCEPT ![r][l][w] = 0] /\ UNCHANGED <<pc, filter, made>>
  <2>1. plan[r][l][w] \in Nat
    BY DEF Base, CallTypes, Amounts
  <2>2. items' \in [Shipment -> [Line -> Nat]] /\ \A t \in Shipment \ {s}, k \in Line : items'[t][k] = items[t][k]
    BY <1>2, <1>5, <2>1, ItemsTyped DEF Base
  <2>3. plan' \in [Request -> Amounts] /\ \A q \in Request \ {r} : plan'[q] = plan[q]
    BY <1>5, PlanTyped DEF Base
  <2>4. Others(r)
    BY <1>2, <1>4, <1>5, <2>3 DEF Others
  <2>5. RowsFit'
    BY <1>2, <1>4, <1>5, <2>2 DEF Base, RowsFit
  <2>6. Own(r)'
    BY <1>1, <1>2, <1>4, <1>5 DEF Own, OfOrder
  <2> QED BY <1>2, <1>3, <1>5, <2>2, <2>3, <2>4, <2>5, <2>6, WaitFrom DEF Base, RowTypes, CallTypes
<1>6. CASE /\ s \notin live /\ pc' = [pc EXCEPT ![r] = "failed"]
           /\ plan' = [plan EXCEPT ![r] = Nothing]
           /\ made' = [made EXCEPT ![r] = [y \in Warehouse |-> 0]]
           /\ filter' = [filter EXCEPT ![r] = NoFilter] /\ UNCHANGED items
  <2>1. NoFilter \in Filter /\ [y \in Warehouse |-> 0] \in [Warehouse -> 0..MaxShipment]
    BY ShipmentsAssumption DEF NoFilter, Filter
  <2>2. /\ pc' \in [Request -> {"new", "run", "create", "delete", "done", "failed"}]
        /\ filter' \in [Request -> Filter] /\ plan' \in [Request -> Amounts]
        /\ made' \in [Request -> [Warehouse -> 0..MaxShipment]]
        /\ pc'[r] = "failed" /\ filter'[r] = NoFilter /\ \A v \in Warehouse : made'[r][v] = 0
    BY <1>6, <2>1, NothingTyped DEF Base, CallTypes
  <2>4. Others(r)
    BY <1>2, <1>4, <1>6 DEF Others, Base, CallTypes
  <2>5. RowsFit'
    BY <1>2, <1>4, <1>6 DEF Base, RowsFit
  <2>7. \A t \in Shipment : job'[r][t] = NoJob
    BY <1>1, <1>2 DEF Own
  <2>6. Own(r)'
    BY <1>1, <1>2, <1>4, <2>2, <2>7 DEF Own
  <2> QED BY <1>2, <1>3, <1>6, <2>2, <2>4, <2>5, <2>6, WaitFrom DEF Base, RowTypes, CallTypes
<1> QED BY <1>2, <1>5, <1>6

(* The ends of a call at the shipments: the request of Shipments is over. *)
LEMMA OverBase ==
  ASSUME OrdersAssumption, Base, NEW r \in Request, At(r, "wait"), UNCHANGED orderVars,
         aborts' \in Nat, IdsKept, RowsFit',
         NEW end \in {"done", "failed"}, pc' = [pc EXCEPT ![r] = end],
         filter' = [filter EXCEPT ![r] = NoFilter],
         made' \in {made, [made EXCEPT ![r] = [w \in Warehouse |-> 0]]},
         job' \in {job, [job EXCEPT ![r] = [s \in Shipment |-> NoJob]]},
         plan' \in {plan, [plan EXCEPT ![r] = Nothing]},
         \A s \in Shipment : job'[r][s] = NoJob, \A w \in Warehouse : made'[r][w] = 0,
         live' \subseteq live, items' \in [Shipment -> [Line -> Nat]], UNCHANGED <<row, lastId, events>>
  PROVE  Base'
<1>1. call[r] \in CallRec /\ call[r].stage = "wait" /\ Own(r)
  BY WaitingCall
<1>2. /\ NoFilter \in Filter /\ [y \in Warehouse |-> 0] \in [Warehouse -> 0..MaxShipment]
      /\ [s \in Shipment |-> NoJob] \in [Shipment -> ShipJob \cup {NoJob}]
  BY ShipmentsAssumption DEF NoFilter, Filter
<1>3. /\ pc' \in [Request -> {"new", "run", "create", "delete", "done", "failed"}]
      /\ filter' \in [Request -> Filter] /\ pc'[r] = end /\ filter'[r] = NoFilter
      /\ \A q \in Request \ {r} : pc'[q] = pc[q] /\ filter'[q] = filter[q]
  BY <1>2 DEF Base, CallTypes
<1>4. plan' \in [Request -> Amounts] /\ \A q \in Request \ {r} : plan'[q] = plan[q]
  BY NothingTyped DEF Base, CallTypes
<1>5. made' \in [Request -> [Warehouse -> 0..MaxShipment]] /\ \A q \in Request \ {r} : made'[q] = made[q]
  BY <1>2 DEF Base, CallTypes
<1>6. job' \in Jobs /\ \A q \in Request \ {r} : job'[q] = job[q]
  BY <1>2 DEF Base, CallTypes, Jobs
<1>7. call' = call
  BY DEF orderVars, callVars
<1>8. Others(r)
  BY <1>3, <1>4, <1>5, <1>6, <1>7 DEF Others
<1>9. Own(r)'
  BY <1>1, <1>3, <1>7 DEF Own
<1>10. /\ live' \subseteq 1..lastId' /\ lastId' \in 0..MaxShipment /\ row' \in [Shipment -> Row]
       /\ events' \in [Order \X Status -> Nat]
  BY DEF Base, RowTypes
<1> QED BY <1>3, <1>4, <1>5, <1>6, <1>8, <1>9, <1>10, WaitFrom

LEMMA ReturnBase ==
  ASSUME OrdersAssumption, Base, NEW r \in Request, At(r, "wait"), Return(r), UNCHANGED orderVars
  PROVE  Base'
<1>1. call[r].stage = "wait" /\ Own(r)
  BY WaitingCall
<1>2. /\ pc' = [pc EXCEPT ![r] = "done"] /\ made' = [made EXCEPT ![r] = [w \in Warehouse |-> 0]]
      /\ filter' = [filter EXCEPT ![r] = NoFilter]
      /\ UNCHANGED <<live, row, items, lastId, plan, job, events, aborts>>
  BY DEF Return, shipmentVars, jobVars
<1>3. \A s \in Shipment : job'[r][s] = NoJob
  <2>1. (pc[r] = "run" /\ Running(r) = {}) \/ pc[r] = "create"
    BY DEF Return
  <2> QED BY <1>1, <1>2, <2>1 DEF Running, Own
<1>4. \A w \in Warehouse : made'[r][w] = 0
  BY <1>2 DEF Base, CallTypes
<1>5. RowsFit' /\ IdsKept
  BY <1>2 DEF orderVars, rowVars, Base, RowsFit, IdsKept, RowTypes
<1>6. aborts' \in Nat /\ items' \in [Shipment -> [Line -> Nat]]
  BY <1>2 DEF Base, RowTypes
<1> QED BY <1>2, <1>3, <1>4, <1>5, <1>6, OverBase

(* What DeleteRows does. *)
LEMMA DeleteRowsDoes ==
  ASSUME Base, NEW r \in Request, At(r, "wait"), DeleteRows(r)
  PROVE  LET S == ShipmentsOf(call[r].order) IN
         /\ pc[r] = "delete" /\ live' = live \ S
         /\ items' = [s \in Shipment |-> IF s \in S THEN [l \in Line |-> 0] ELSE items[s]]
         /\ job' = [job EXCEPT ![r] = [s \in Shipment |-> NoJob]]
         /\ filter' = [filter EXCEPT ![r] = NoFilter] /\ pc' = [pc EXCEPT ![r] = "done"]
         /\ UNCHANGED <<row, lastId, plan, made, events, aborts>>
<1>1. Own(r) /\ call[r].order \in Order
  BY WaitingCall
<1>2. pc[r] = "delete"
  BY DEF DeleteRows
<1>3. filter[r] = OfOrder(call[r].order)
  BY <1>1, <1>2 DEF Own
<1>4. Matches(filter[r]) = ShipmentsOf(call[r].order)
  BY <1>1, <1>3, OfOrderMatches DEF Base
<1> QED BY <1>2, <1>4 DEF DeleteRows

LEMMA DeleteRowsBase ==
  ASSUME OrdersAssumption, Base, NEW r \in Request, At(r, "wait"), DeleteRows(r), UNCHANGED orderVars
  PROVE  Base'
<1> DEFINE S == ShipmentsOf(call[r].order)
<1>1. call[r].stage = "wait" /\ Own(r)
  BY WaitingCall
<1>2. /\ pc[r] = "delete" /\ live' = live \ S
      /\ items' = [s \in Shipment |-> IF s \in S THEN [l \in Line |-> 0] ELSE items[s]]
      /\ job' = [job EXCEPT ![r] = [s \in Shipment |-> NoJob]]
      /\ filter' = [filter EXCEPT ![r] = NoFilter] /\ pc' = [pc EXCEPT ![r] = "done"]
      /\ UNCHANGED <<row, lastId, plan, made, events, aborts>>
  BY DeleteRowsDoes
<1> HIDE DEF S
<1>3. \A s \in Shipment : job'[r][s] = NoJob
  BY <1>2 DEF Base, CallTypes, Jobs
<1>4. \A w \in Warehouse : made'[r][w] = 0
  BY <1>1, <1>2 DEF Own
<1>5. RowsFit' /\ IdsKept
  BY <1>2 DEF orderVars, rowVars, Base, RowsFit, IdsKept, RowTypes
<1>6. aborts' \in Nat /\ items' \in [Shipment -> [Line -> Nat]] /\ live' \subseteq live
  BY <1>2 DEF Base, RowTypes
<1> QED BY <1>2, <1>3, <1>4, <1>5, <1>6, OverBase

LEMMA LoseBase ==
  ASSUME OrdersAssumption, Base, NEW r \in Request, At(r, "wait"), Lose(r), aborts' \in Nat,
         UNCHANGED orderVars
  PROVE  Base'
<1>2. /\ pc' = [pc EXCEPT ![r] = "failed"] /\ made' = [made EXCEPT ![r] = [w \in Warehouse |-> 0]]
      /\ job' = [job EXCEPT ![r] = [s \in Shipment |-> NoJob]]
      /\ plan' = [plan EXCEPT ![r] = Nothing]
      /\ filter' = [filter EXCEPT ![r] = NoFilter]
      /\ UNCHANGED <<live, row, items, lastId, events>>
  BY DEF Lose, shipmentVars, Nothing
<1>3. \A s \in Shipment : job'[r][s] = NoJob
  BY <1>2 DEF Base, CallTypes, Jobs
<1>4. \A w \in Warehouse : made'[r][w] = 0
  BY <1>2 DEF Base, CallTypes
<1>5. RowsFit' /\ IdsKept
  BY <1>2 DEF orderVars, rowVars, Base, RowsFit, IdsKept, RowTypes
<1>6. items' \in [Shipment -> [Line -> Nat]]
  BY <1>2 DEF Base, RowTypes
<1> QED BY <1>2, <1>3, <1>4, <1>5, <1>6, OverBase

(* Reading and saving stock changes nothing that is spoken of here. *)
StockOnly == UNCHANGED <<shipmentVars, pc, createVars, job, events, aborts, orderVars>>

LEMMA StockBase == ASSUME OrdersAssumption, Base, StockOnly PROVE Base'
<1>1. /\ UNCHANGED <<shipmentVars, pc, createVars, job, call>> /\ aborts' \in Nat
      /\ events' \in [Order \X Status -> Nat]
  BY DEF StockOnly, orderVars, callVars, Base, RowTypes
<1>2. OrderTypes' /\ handler' \in [Handler -> HandlerRec \cup {Resting}] /\ olive \subseteq olive'
  BY DEF StockOnly, orderVars, rowVars, itemVars, callVars, Base, RowTypes, CallTypes, OrderTypes
<1> QED BY <1>1, <1>2, HandlerBase

(* The steps of a call at the shipments. *)
LEMMA ShipmentStepCases ==
  ASSUME NEW r \in Request, ShipmentStep(r)
  PROVE  /\ At(r, "wait") /\ UNCHANGED orderVars
         /\ \/ StockOnly
            \/ \E s \in Shipment : SaveShipment(r, s) /\ (s \in live \/ job[r][s].row.order \in olive)
            \/ \E w \in Warehouse : CreateShipment(r, w) /\ filter[r].orders \subseteq olive
            \/ \E w \in Warehouse, l \in Line : CreateItem(r, l, w)
            \/ DeleteRows(r)
            \/ Return(r)
            \/ /\ \/ pc[r] = "create" /\ ~filter[r].orders \subseteq olive
                  \/ \E s \in Running(r) \ live :
                       job[r][s].target # Deleted /\ job[r][s].row.order \notin olive
               /\ Lose(r) /\ UNCHANGED aborts
<1>1. At(r, "wait") /\ UNCHANGED orderVars
  BY DEF ShipmentStep
<1>2. ASSUME NEW s \in Shipment, NEW l \in Line, ReadStock(r, s, l) \/ SaveStock(r, s, l)
      PROVE  StockOnly
  BY <1>1, <1>2 DEF ReadStock, SaveStock, StockOnly
<1> QED BY <1>1, <1>2 DEF ShipmentStep

LEMMA ShipmentStepBase ==
  ASSUME OrdersAssumption, Base, NEW r \in Request, ShipmentStep(r)
  PROVE  Base'
<1>1. At(r, "wait") /\ UNCHANGED orderVars
  BY ShipmentStepCases
<1>2. CASE StockOnly
  BY <1>2, StockBase
<1>3. CASE \E s \in Shipment : SaveShipment(r, s) /\ (s \in live \/ job[r][s].row.order \in olive)
  BY <1>1, <1>3, SaveShipmentBase
<1>4. CASE \E w \in Warehouse : CreateShipment(r, w) /\ filter[r].orders \subseteq olive
  BY <1>1, <1>4, CreateShipmentBase
<1>5. CASE \E w \in Warehouse, l \in Line : CreateItem(r, l, w)
  BY <1>1, <1>5, CreateItemBase
<1>6. CASE DeleteRows(r)
  BY <1>1, <1>6, DeleteRowsBase
<1>7. CASE Return(r)
  BY <1>1, <1>7, ReturnBase
<1>8. CASE Lose(r) /\ UNCHANGED aborts
  BY <1>1, <1>8, LoseBase DEF Base, RowTypes
<1> QED BY <1>2, <1>3, <1>4, <1>5, <1>6, <1>7, <1>8, ShipmentStepCases

LEMMA EndCallBase ==
  ASSUME OrdersAssumption, Base, NEW r \in Request, EndCall(r)
  PROVE  Base'
<1> DEFINE c == call[r]
<1>0. PICK gone \in SUBSET {c.order} :
        gone = IF pc[r] = "done" /\ c.kind = "delete" THEN {c.order} ELSE {}
  OBVIOUS
<1>1. c \in CallRec /\ c # NoCall /\ c.stage = "wait" /\ Shape(c) /\ Own(r) /\ c.order \in Order
  BY WaitingCall DEF EndCall
<1>2. pc[r] \in {"done", "failed"} /\ pc[r] \in CallStage
  BY DEF EndCall, Answered, CallStage
<1>3. Goto(r, pc[r])
  BY DEF EndCall
<1>4. /\ call' \in [Request -> CallRec \cup {NoCall}] /\ call'[r] = [c EXCEPT !.stage = pc[r]]
      /\ \A q \in Request \ {r} : call'[q] = call[q]
  BY <1>1, <1>2, <1>3, GotoTyped
<1>5. Shape(call'[r])
  BY <1>1, <1>2, <1>4 DEF Shape, Saving, CallRec
<1>6. /\ olive' = olive \ gone
      /\ lines' = [o \in Order |-> IF o \in gone THEN {} ELSE lines[o]]
      /\ reserved' = [o \in Order |-> IF o \in gone THEN Nothing ELSE reserved[o]]
      /\ live' = {s \in live : row[s].order \notin gone}
      /\ items' = [s \in Shipment |-> IF s \in live' THEN items[s] ELSE [l \in Line |-> 0]]
      /\ UNCHANGED <<row, lastId, pc, createVars, job, events, aborts, orow, worth, handler, overlapped>>
  BY <1>0 DEF EndCall, jobVars
<1>7. RowTypes'
  <2>1. reserved' \in [Order -> Amounts]
    BY <1>6, NothingTyped DEF Base, RowTypes
  <2>2. lines' \in [Order -> SUBSET Line] /\ items' \in [Shipment -> [Line -> Nat]]
    BY <1>6 DEF Base, RowTypes
  <2> QED BY <1>6, <2>1, <2>2 DEF Base, RowTypes
<1>8. CallTypes'
  BY <1>4, <1>6 DEF Base, CallTypes, createVars
<1>9. RowsFit'
  <2>1. \A s \in live' : row'[s].order \in olive'
    BY <1>6 DEF Base, RowsFit
  <2>2. \A s \in Shipment \ live', l \in Line : items'[s][l] = 0
    BY <1>6
  <2> QED BY <2>1, <2>2 DEF RowsFit
<1>10. Others(r)
  BY <1>4, <1>6 DEF Others, createVars
<1>11. IdsKept
  BY <1>6 DEF IdsKept, Base, RowTypes
<1>12. Own(r)'
  <2>1. filter[r] = NoFilter /\ (\A s \in Shipment : job[r][s] = NoJob) /\ \A w \in Warehouse : made[r][w] = 0
    BY <1>1, <1>2 DEF Own
  <2>2. call'[r].stage # "wait"
    BY <1>1, <1>2, <1>4 DEF CallRec
  <2> QED BY <1>2, <1>6, <2>1, <2>2 DEF Own, createVars
<1> QED BY <1>5, <1>7, <1>8, <1>9, <1>10, <1>11, <1>12, BaseFrom DEF Fits

LEMMA AbortCases ==
  ASSUME NEW r \in Request, AbortCall(r)
  PROVE  Drop(r) \/ (At(r, "wait") /\ Lose(r) /\ aborts' = aborts + 1 /\ UNCHANGED orderVars)
<1>1. CASE At(r, "wait") /\ Abort(r) /\ UNCHANGED call
  BY <1>1 DEF AbortCall, Abort, orderVars, callVars
<1>2. CASE ~(At(r, "wait") /\ Abort(r) /\ UNCHANGED call)
  <2>1. /\ call[r].stage \notin Ended \cup {"wait"} /\ aborts' = aborts + 1 /\ Fail(r)
        /\ UNCHANGED <<stockVars, shipmentVars, pc, createVars, jobVars, events, collided, contended>>
    BY <1>2 DEF AbortCall
  <2>2. UNCHANGED <<rowVars, itemVars, handler, overlapped>>
    BY DEF AbortCall
  <2> QED BY <2>1, <2>2 DEF Drop
<1> QED BY <1>1, <1>2

LEMMA AbortBase == ASSUME OrdersAssumption, Base, NEW r \in Request, AbortCall(r) PROVE Base'
<1>1. CASE Drop(r)
  BY <1>1, DropBase
<1>2. CASE At(r, "wait") /\ Lose(r) /\ aborts' = aborts + 1 /\ UNCHANGED orderVars
  BY <1>2, LoseBase DEF Base, RowTypes
<1> QED BY <1>1, <1>2, AbortCases

LEMMA BaseInit == ASSUME OrdersAssumption, OrdersInit PROVE Base
<1>1. RowTypes
  <2>1. /\ live = {} /\ lastId = 0 /\ row = InitialRow /\ aborts = 0
        /\ items = [s \in Shipment |-> IF s \in live THEN InitialItems[s] ELSE [l \in Line |-> 0]]
        /\ events = [e \in Order \X Status |-> 0]
    BY ShipmentsAssumption DEF OrdersAssumption, OrdersInit, Init
  <2>2. items \in [Shipment -> [Line -> Nat]]
    BY <2>1
  <2>3. orow \in [Order -> OrderRow]
    BY DEF OrdersInit, OrderRow, OrderStatus, Status
  <2>4. reserved \in [Order -> Amounts]
    BY NothingTyped DEF OrdersInit
  <2> QED BY <2>1, <2>2, <2>3, <2>4, ShipmentsAssumption DEF OrdersInit, OrdersAssumption, RowTypes
<1>2. CallTypes
  <2>1. Nothing \in Amounts /\ NoFilter \in Filter
    BY NothingTyped DEF NoFilter, Filter
  <2>2. /\ pc = [r \in Request |-> "new"] /\ filter = [r \in Request |-> NoFilter]
        /\ plan = [r \in Request |-> Nothing] /\ made = [r \in Request |-> [w \in Warehouse |-> 0]]
        /\ job = [r \in Request |-> [s \in Shipment |-> NoJob]]
    BY DEF OrdersInit, Init, Nothing
  <2>3. job \in Jobs
    BY <2>2 DEF Jobs
  <2> QED BY <2>1, <2>2, <2>3, ShipmentsAssumption DEF CallTypes, OrdersInit
<1>3. RowsFit
  BY ShipmentsAssumption DEF OrdersAssumption, OrdersInit, Init, RowsFit
<1>4. ASSUME NEW r \in Request PROVE call[r] = NoCall /\ Own(r)
  <2>1. /\ pc[r] = "new" /\ filter[r] = NoFilter /\ \A w \in Warehouse : made[r][w] = 0
        /\ call[r] = NoCall /\ \A s \in Shipment : job[r][s] = NoJob
    BY DEF OrdersInit, Init
  <2> QED BY <2>1, NothingTyped DEF Own
<1> QED BY <1>1, <1>2, <1>3, <1>4 DEF Base

LEMMA NextBase == ASSUME OrdersAssumption, Base, [OrdersNext]_allVars PROVE Base'
<1>1. ASSUME NEW r \in Request, OpenCall(r) PROVE Base'
  BY <1>1, UpdateBase, CreateBase, CancelBase, DeleteOrderBase, ChangeShipmentBase DEF OpenCall
<1>2. ASSUME NEW r \in Request, CallStep(r) PROVE Base'
  BY <1>2, SaveOrderBase, ReadItemsBase, LineBase, SaveReservationBase, RemoveLinesBase,
     RereadBase, ReleaseBase, ShipBase, ShipmentStepBase, EndCallBase DEF CallStep, AtLine, Rereads
<1>3. ASSUME NEW h \in Handler, HandlerStep(h) PROVE Base'
  BY <1>3, TakeEventBase, SaveHandledBase, ReleaseHandledBase DEF HandlerStep
<1>4. CASE UNCHANGED allVars
  BY <1>4, StockBase DEF allVars, StockOnly, vars, shipmentVars, jobVars
<1> QED BY <1>1, <1>2, <1>3, <1>4, AbortBase, LoseHandlersBase DEF OrdersNext
------------------------------------------------------------------------------
(* Nothing about order o changes. *)
ForOrder(r, o) == call[r] # NoCall /\ call[r].order = o

SameColumns(o) ==
  /\ o \in olive' <=> o \in olive
  /\ orow'[o] = orow[o] /\ lines'[o] = lines[o] /\ worth'[o] = worth[o]
  /\ reserved'[o] = reserved[o]

SameShipments(o) ==
  /\ ShipmentsOf(o)' = ShipmentsOf(o)
  /\ \A s \in ShipmentsOf(o) : row'[s] = row[s] /\ items'[s] = items[s]

SameCalls(o) ==
  \A r \in Request : ForOrder(r, o) \/ ForOrder(r, o)' =>
    /\ call'[r] = call[r] /\ pc'[r] = pc[r] /\ plan'[r] = plan[r] /\ made'[r] = made[r]
    /\ job'[r] = job[r]

SameHandlers(o) ==
  /\ \A h \in Handler : On(h, o) \/ On(h, o)' => handler'[h] = handler[h]
  /\ \A st \in Status : events'[<<o, st>>] = events[<<o, st>>]

SameOrder(o) == SameColumns(o) /\ SameShipments(o) /\ SameCalls(o) /\ SameHandlers(o)

LEMMA ActiveCalls ==
  ASSUME CallTypes
  PROVE  \A r \in Active : r \in Request /\ call[r] \in CallRec /\ call[r] # NoCall
BY DEF CallTypes, Active, Ended, NoCall

LEMMA SamePending ==
  ASSUME NEW o \in Order, SameHandlers(o)
  PROVE  \A st \in Status : /\ Handled(o, st)' <=> Handled(o, st)
                            /\ Pending(o, st)' <=> Pending(o, st)
<1>1. ASSUME NEW h \in Handler PROVE On(h, o)' <=> On(h, o)
  BY DEF SameHandlers, On
<1>2. ASSUME NEW st \in Status PROVE Handled(o, st)' <=> Handled(o, st)
  BY <1>1 DEF SameHandlers, Handled, On
<1>3. ASSUME NEW st \in Status PROVE Pending(o, st)' <=> Pending(o, st)
  BY <1>2 DEF SameHandlers, Pending
<1> QED BY <1>2, <1>3

LEMMA SameActive ==
  ASSUME NEW o \in Order, SameCalls(o), CallTypes, CallTypes'
  PROVE  Calls(o)' = Calls(o) /\ \A r \in Calls(o) : r \in Request /\ ForOrder(r, o) /\ call'[r] = call[r]
<1>1. \A r \in Calls(o) : r \in Request /\ ForOrder(r, o)
  BY ActiveCalls DEF Calls, ForOrder
<1>2. \A r \in Calls(o)' : r \in Request /\ ForOrder(r, o)'
  BY ActiveCalls DEF Calls, ForOrder, CallTypes, Active, Ended, NoCall
<1>3. \A r \in Request : ForOrder(r, o) \/ ForOrder(r, o)' => call'[r] = call[r]
  BY DEF SameCalls
<1>4. Calls(o) \subseteq Calls(o)'
  BY <1>1, <1>3 DEF Calls, Active
<1>5. Calls(o)' \subseteq Calls(o)
  BY <1>2, <1>3 DEF Calls, Active
<1> QED BY <1>1, <1>3, <1>4, <1>5

(* The shipments a call has created or works on are its order's. *)
LEMMA OwnShipments ==
  ASSUME Base, NEW r \in Request, call[r] # NoCall
  PROVE  /\ \A w \in Warehouse : made[r][w] # 0 =>
              /\ made[r][w] \in Shipment /\ row[made[r][w]].order = call[r].order
              /\ row[made[r][w]].warehouse = w
              /\ made[r][w] \in live => made[r][w] \in ShipmentsOf(call[r].order)
         /\ \A s \in Shipment : job[r][s] # NoJob =>
              /\ row[s].order = call[r].order
              /\ s \in live => s \in ShipmentsOf(call[r].order)
<1>1. Own(r)
  BY DEF Base
<1>2. \A w \in Warehouse : made[r][w] # 0 => made[r][w] \in Shipment
  BY ShipmentsAssumption DEF Base, CallTypes, Shipment
<1> QED BY <1>1, <1>2 DEF Own, ShipmentsOf

LEMMA KeepShipping ==
  ASSUME Base, NEW r \in Request, call[r] # NoCall, NEW o \in Order, o = call[r].order,
         SameShipments(o), SameCalls(o), Shipping(r)
  PROVE  Shipping(r)'
<1>1. call'[r] = call[r] /\ plan'[r] = plan[r] /\ made'[r] = made[r]
  BY DEF SameCalls, ForOrder
<1>2. /\ ShipmentsOf(o)' = ShipmentsOf(o)
      /\ \A s \in ShipmentsOf(o) : row'[s] = row[s] /\ items'[s] = items[s]
      /\ \A s \in ShipmentsOf(o) : s \in live'
  BY DEF SameShipments, ShipmentsOf
<1>3. \A w \in Warehouse : made[r][w] # 0 => made[r][w] \in ShipmentsOf(o)
  BY OwnShipments DEF Shipping
<1>4. \A w \in Warehouse : made'[r][w] # 0 =>
        /\ made'[r][w] \in live' /\ row'[made'[r][w]].status = "sent_for_shipment"
        /\ \E l \in Line : call'[r].held[l][w] > 0
  BY <1>1, <1>2, <1>3 DEF Shipping
<1>5. \A s \in ShipmentsOf(o)' : made'[r][row'[s].warehouse] = s
  BY <1>1, <1>2 DEF Shipping
<1>6. \A l \in Line, w \in Warehouse :
       \/ /\ plan'[r][l][w] = call'[r].held[l][w]
          /\ made'[r][w] # 0 => items'[made'[r][w]][l] = 0
       \/ /\ plan'[r][l][w] = 0 /\ made'[r][w] # 0
          /\ items'[made'[r][w]][l] = call'[r].held[l][w]
  BY <1>1, <1>2, <1>3 DEF Shipping
<1>7. ShipmentsOf(call[r].order)' = ShipmentsOf(o)'
  BY <1>1 DEF ShipmentsOf
<1> QED BY <1>4, <1>5, <1>6, <1>7 DEF Shipping

LEMMA KeepShippedAll ==
  ASSUME NEW o \in Order, SameShipments(o), reserved'[o] = reserved[o], ShippedAll(o)
  PROVE  ShippedAll(o)'
<1>1. /\ ShipmentsOf(o)' = ShipmentsOf(o)
      /\ \A s \in ShipmentsOf(o) : row'[s] = row[s] /\ items'[s] = items[s]
  BY DEF SameShipments
<1>2. ASSUME NEW w \in Warehouse
      PROVE  {s \in live : row[s].order = o /\ row[s].warehouse = w}' =
             {s \in live : row[s].order = o /\ row[s].warehouse = w}
  BY <1>1 DEF ShipmentsOf
<1>3. ASSUME NEW w \in Warehouse
      PROVE  \A s \in {x \in live : row[x].order = o /\ row[x].warehouse = w} :
               row'[s] = row[s] /\ items'[s] = items[s]
  BY <1>1 DEF ShipmentsOf
<1> QED BY <1>2, <1>3 DEF ShippedAll

LEMMA KeepUndisturbed ==
  ASSUME Base, NEW r \in Request, call[r] # NoCall, NEW o \in Order, o = call[r].order,
         SameOrder(o), aborts <= aborts', aborts' \in Nat, Undisturbed(r)
  PROVE  Undisturbed(r)'
<1>1. call'[r] = call[r] /\ pc'[r] = pc[r] /\ job'[r] = job[r]
  BY DEF SameOrder, SameCalls, ForOrder
<1>2. \A st \in Status : /\ Handled(o, st)' <=> Handled(o, st)
                         /\ Pending(o, st)' <=> Pending(o, st)
  BY SamePending DEF SameOrder
<1>3. \A s \in Shipment : job'[r][s] # NoJob => s \in live'
  <2>1. \A s \in Shipment : job[r][s] # NoJob => s \in ShipmentsOf(o)
    BY OwnShipments DEF Undisturbed
  <2>2. \A s \in ShipmentsOf(o) : s \in live'
    BY DEF SameOrder, SameShipments, ShipmentsOf
  <2> QED BY <1>1, <2>1, <2>2
<1>4. pc'[r] = "create" => Shipping(r)'
  BY <1>1, KeepShipping DEF Undisturbed, SameOrder
<1>5. Sends(call[r])' <=> Sends(call[r])
  BY <1>1 DEF Sends
<1>6. Sends(call'[r]) /\ pc'[r] = "done" /\ call'[r].stage = "wait" => ShippedAll(o)'
  BY <1>1, <1>5, KeepShippedAll DEF Undisturbed, SameOrder, SameColumns, Sends
<1>7. aborts > 0 => aborts' > 0
  BY DEF Base, RowTypes
<1>8. /\ o \in olive' <=> o \in olive
      /\ orow'[o] = orow[o] /\ lines'[o] = lines[o] /\ reserved'[o] = reserved[o]
  BY DEF SameOrder, SameColumns
<1>9. call'[r].order = o
  BY <1>1
<1>10. /\ call'[r].kind # "shipment" => \A st \in Status : ~Handled(o, st)'
       /\ \A st \in Status : Pending(o, st)' =>
            st = call'[r].target /\ call'[r].stage = "wait" /\ call'[r].kind # "delete" /\ ~Sends(call'[r])
  BY <1>1, <1>2 DEF Undisturbed
<1> QED BY <1>1, <1>3, <1>4, <1>6, <1>7, <1>8, <1>9, <1>10 DEF Undisturbed, Handled, Pending, On, ShippedAll

LEMMA KeepSingle ==
  ASSUME Base, Base', NEW o \in Order, SameOrder(o), aborts <= aborts', Single(o)
  PROVE  Single(o)'
<1>1. Calls(o)' = Calls(o) /\ \A r \in Calls(o) : r \in Request /\ ForOrder(r, o)
  BY SameActive DEF SameOrder, Base
<1>2. \A st \in Status : Pending(o, st)' <=> Pending(o, st)
  BY SamePending DEF SameOrder
<1>3. \A h \in Handler : On(h, o)' => On(h, o) /\ handler'[h] = handler[h]
  BY DEF SameOrder, SameHandlers, On
<1>4. orow'[o] = orow[o]
  BY DEF SameOrder, SameColumns
<1>5. ASSUME NEW r \in Calls(o) PROVE Undisturbed(r)'
  <2>1. r \in Request /\ call[r] # NoCall /\ call[r].order = o /\ Undisturbed(r)
    BY <1>1 DEF ForOrder, Single
  <2> QED BY <2>1, KeepUndisturbed DEF Base, RowTypes
<1>6. \A q, r \in Calls(o)' : q = r
  BY <1>1 DEF Single
<1>7. \A st, tt \in Status : Pending(o, st)' /\ Pending(o, tt)' => st = tt
  BY <1>2 DEF Single
<1>8. \A h \in Handler : On(h, o)' =>
       /\ handler'[h].row.total = orow'[o].total
       /\ handler'[h].stage = "release" => orow'[o].status = handler'[h].row.status
  BY <1>3, <1>4 DEF Single
<1> QED BY <1>1, <1>5, <1>6, <1>7, <1>8 DEF Single
------------------------------------------------------------------------------
(* Steps of a call leave the other orders alone. *)

(* A step that does not touch shipments. *)
LEMMA OrderLocal ==
  ASSUME Base, Base', UNCHANGED <<shipmentVars, pc, createVars, job, events, handler>>,
         NEW r \in Request, \A q \in Request \ {r} : call'[q] = call[q], call'[r] # NoCall,
         call[r] # NoCall => call[r].order = call'[r].order,
         \A o \in Order \ {call'[r].order} : SameColumns(o)
  PROVE  \A o \in Order \ {call'[r].order} : SameOrder(o)
<1> SUFFICES ASSUME NEW o \in Order \ {call'[r].order} PROVE SameOrder(o)
  OBVIOUS
<1>1. SameShipments(o)
  BY DEF SameShipments, ShipmentsOf, shipmentVars
<1>2. SameCalls(o)
  BY DEF SameCalls, ForOrder, createVars
<1>3. SameHandlers(o)
  BY DEF SameHandlers, On
<1> QED BY <1>1, <1>2, <1>3 DEF SameOrder

(* A step at the shipments. *)
LEMMA ShipmentLocal ==
  ASSUME Base, Base', UNCHANGED <<handler>>, NEW r \in Request, Others(r), call'[r] # NoCall,
         call[r] # NoCall => call[r].order = call'[r].order, 
         \A o \in Order \ {call'[r].order} : SameColumns(o) /\ SameShipments(o)
           /\ \A st \in Status : events'[<<o, st>>] = events[<<o, st>>]
  PROVE  \A o \in Order \ {call'[r].order} : SameOrder(o)
<1> SUFFICES ASSUME NEW o \in Order \ {call'[r].order} PROVE SameOrder(o)
  OBVIOUS
<1>2. SameCalls(o)
  BY DEF SameCalls, ForOrder, Others
<1>3. SameHandlers(o)
  BY DEF SameHandlers, On
<1> QED BY <1>2, <1>3 DEF SameOrder
------------------------------------------------------------------------------
(* Steps of a call on its own order, on which nothing has overlapped. *)
LEMMA OwnSingle ==
  ASSUME Base, Base', NEW r \in Request, NEW p \in Order, r \in Calls(p), Single(p),
         \A q \in Request \ {r} : call'[q] = call[q], call'[r].order = p, handler' = handler,
         \A st \in Status : events'[<<p, st>>] = events[<<p, st>>],
         orow'[p] = orow[p] \/ call[r].kind # "shipment",
         call'[r].stage \notin Ended => Undisturbed(r)'
  PROVE  Single(p)'
<1>1. Undisturbed(r) /\ call[r].order = p
  BY DEF Single, Calls
<1>2. \A q \in Calls(p)' : q = r
  <2> SUFFICES ASSUME NEW q \in Request, q # r, call'[q].stage \notin Ended, call'[q].order = p
               PROVE  FALSE
    BY DEF Calls, Active
  <2>1. q \in Calls(p)
    BY DEF Calls, Active
  <2> QED BY <2>1 DEF Single
<1>3. \A q \in Calls(p)' : Undisturbed(q)'
  BY <1>2 DEF Calls, Active
<1>4. \A st \in Status : Pending(p, st)' <=> Pending(p, st)
  BY DEF Pending, Handled, On
<1>5. \A h \in Handler : On(h, p)' => On(h, p) /\ handler'[h] = handler[h]
  BY DEF On
<1>6. \A h \in Handler : On(h, p) => orow'[p] = orow[p]
  <2> SUFFICES ASSUME NEW h \in Handler, On(h, p), call[r].kind # "shipment" PROVE FALSE
    OBVIOUS
  <2>1. handler[h].row.status \in Status
    BY DEF On, Base, CallTypes, HandlerRec
  <2> QED BY <1>1, <2>1 DEF Undisturbed, Handled
<1>7. \A h \in Handler : On(h, p)' =>
       /\ handler'[h].row.total = orow'[p].total
       /\ handler'[h].stage = "release" => orow'[p].status = handler'[h].row.status
  BY <1>5, <1>6 DEF Single
<1>8. \A st, tt \in Status : Pending(p, st)' /\ Pending(p, tt)' => st = tt
  BY <1>4 DEF Single
<1>9. \A q, t \in Calls(p)' : q = t
  BY <1>2
<1> QED BY <1>3, <1>7, <1>8, <1>9 DEF Single

LEMMA SingleFrom ==
  ASSUME Base, Base', SingleInv, aborts <= aborts', overlapped \subseteq overlapped',
         NEW p \in Order, \A o \in Order \ {p} : SameOrder(o), p \notin overlapped' => Single(p)'
  PROVE  SingleInv'
<1> SUFFICES ASSUME NEW o \in Order, o \notin overlapped', o # p PROVE Single(o)'
  BY DEF SingleInv
<1> QED BY KeepSingle DEF SingleInv

(* A call that is not with the shipments. *)
LEMMA EarlyUndisturbed ==
  ASSUME Base', NEW r \in Request, NEW p \in Order, NEW d \in CallRec, call'[r] = d, d.order = p,
         d.stage # "wait",
         \A st \in Status : ~Pending(p, st)',
         d.kind \in Saving /\ d.stage # "save" => p \in olive' /\ orow'[p] = d.row,
         d.kind = "cancel" /\ d.stage = "save" => d.row.total = orow'[p].total,
         d.kind = "update" /\ d.stage = "save" /\ ~d.process =>
           d.target = NoStatus \/ d.target = orow'[p].status,
         d.stage \in {"save", "read"} => d.fill = {} /\ d.saved = {},
         d.stage = "items" => d.saved \subseteq lines'[p] /\ \A x \in d.fill : x[1] \in lines'[p],
         d.stage = "fetch" => \A l \in Line \ d.todo : d.held[l] = reserved'[p][l],
         d.stage = "release" /\ d.kind \in Saving => d.target \in Closing,
         d.kind \in Saving /\ d.target \in Closing /\ d.stage = "ship" => reserved'[p] = Nothing,
         d.kind \in Saving /\ d.target = "sent_for_shipment" /\ d.stage = "ship"
           => d.held = reserved'[p]
  PROVE  Undisturbed(r)'
<1>1. Own(r)'
  BY DEF Base
<1>2. pc'[r] \in {"new", "done", "failed"}
  BY <1>1 DEF Own
<1>3. \A s \in Shipment : job'[r][s] = NoJob
  BY <1>1, <1>2 DEF Own
<1>4. \A st \in Status : ~Handled(p, st)'
  BY DEF Pending
<1>5. call'[r].order = p
  OBVIOUS
<1> QED BY <1>2, <1>3, <1>4, <1>5 DEF Undisturbed, Sends, Pending, Handled, On

LEMMA CallActs ==
  ASSUME Base, NEW r \in Request, call[r].stage \notin Ended
  PROVE  /\ call[r] \in CallRec /\ call[r] # NoCall /\ call[r].order \in Order
         /\ r \in Calls(call[r].order) /\ Shape(call[r]) /\ Own(r)
         /\ Single(call[r].order) => Undisturbed(r)
<1>1. call[r] \in CallRec /\ call[r] # NoCall
  BY StageTypes DEF Base, Ended
<1>2. r \in Calls(call[r].order)
  BY DEF Calls, Active
<1> QED BY <1>1, <1>2 DEF Base, CallRec, Single

(* An undisturbed call that is not with the shipments has caused no event. *)
LEMMA NothingPending ==
  ASSUME NEW r \in Request, Undisturbed(r), call[r].stage # "wait"
  PROVE  \A st \in Status : ~Pending(call[r].order, st)
BY DEF Undisturbed
------------------------------------------------------------------------------
(* A call begins. *)
LEMMA NotBusy ==
  ASSUME Base, NEW p \in Order, ~Busy(p)
  PROVE  Calls(p) = {} /\ (\A h \in Handler : ~On(h, p)) /\ \A st \in Status : ~Pending(p, st)
<1>1. \A h \in Handler : ~On(h, p)
  BY DEF Busy, ActiveHandlers, On
<1>2. \A st \in Status : ~Pending(p, st)
  BY <1>1 DEF Busy, Pending, Handled
<1> QED BY <1>1, <1>2 DEF Busy, Calls

LEMMA NewCall == ASSUME Base, NEW r \in Request, At(r, "new") PROVE call[r] = NoCall
BY RecNotNoCall DEF Base, CallTypes, At

LEMMA BeginSingle ==
  ASSUME Base, Base', SingleInv, aborts' = aborts, NEW r \in Request, NEW p \in Order,
         \A q \in Request \ {r} : call'[q] = call[q], call'[r].order = p,
         \A o \in Order \ {p} : SameOrder(o), Touch(p, Busy(p)), UNCHANGED <<events, handler>>,
         ~Busy(p) => Undisturbed(r)'
  PROVE  SingleInv'
<1>1. overlapped \subseteq overlapped' /\ (p \notin overlapped' => ~Busy(p))
  BY DEF Touch
<1>2. ASSUME p \notin overlapped' PROVE Single(p)'
  <2>1. Calls(p) = {} /\ (\A h \in Handler : ~On(h, p)) /\ \A st \in Status : ~Pending(p, st)
    BY <1>1, <1>2, NotBusy
  <2>2. \A q \in Calls(p)' : q = r
    BY <2>1 DEF Calls, Active
  <2>3. \A h \in Handler : ~On(h, p)'
    BY <2>1 DEF On
  <2>4. \A st \in Status : ~Pending(p, st)'
    BY <2>1 DEF Pending, Handled, On
  <2>5. Undisturbed(r)'
    BY <1>1, <1>2
  <2> QED BY <2>2, <2>3, <2>4, <2>5 DEF Single
<1>3. aborts <= aborts'
  BY DEF Base, RowTypes
<1> QED BY <1>1, <1>2, <1>3, SingleFrom

LEMMA OpenSingle ==
  ASSUME Base, Base', SingleInv, NEW r \in Request, NEW c \in CallRec, Open(r, c), c.stage # "wait",
         c.fill = {}, c.saved = {}, c.stage \in {"save", "release"},
         c.stage = "release" => c.kind = "delete",
         c.kind = "cancel" => c.row.total = orow[c.order].total,
         c.kind = "update" /\ ~c.process => c.target = NoStatus \/ c.target = orow[c.order].status
  PROVE  SingleInv'
<1> DEFINE p == c.order
<1>1. c.order \in Order
  BY DEF CallRec
<1>2. call[r] = NoCall
  BY NewCall DEF Open
<1>3. call'[r] = c /\ \A q \in Request \ {r} : call'[q] = call[q]
  BY DEF Open, Base, CallTypes
<1>4. UNCHANGED <<shipmentVars, pc, createVars, job, events, aborts, olive, orow, itemVars, handler>>
  BY DEF Open, vars, jobVars, rowVars
<1>5. \A o \in Order : SameColumns(o)
  BY <1>4 DEF SameColumns, itemVars
<1>6. \A o \in Order \ {p} : SameOrder(o)
  BY <1>2, <1>3, <1>4, <1>5, RecNotNoCall, OrderLocal
<1>7. ASSUME ~Busy(p) PROVE Undisturbed(r)'
  <2>1. \A st \in Status : ~Pending(p, st)'
    BY <1>1, <1>4, <1>7, NotBusy DEF Pending, Handled, On
  <2>2. c.kind \in Saving => c.stage = "save"
    BY DEF Saving
  <2> HIDE DEF p
  <2>3. p = c.order /\ p \in Order /\ orow' = orow
    BY <1>1, <1>4 DEF p
  <2> QED BY <1>3, <2>1, <2>2, <2>3, EarlyUndisturbed
<1>8. Touch(p, Busy(p))
  BY DEF Open
<1>9. UNCHANGED <<events, handler, aborts>>
  BY <1>4
<1> HIDE DEF p
<1>10. p \in Order /\ call'[r].order = p
  BY <1>1, <1>3 DEF p
<1> QED BY <1>3, <1>6, <1>7, <1>8, <1>9, <1>10, BeginSingle

LEMMA UpdateSingle ==
  ASSUME OrdersAssumption, Base, Base', SingleInv, NEW r \in Request, NEW o \in Order,
         NEW target \in Targets, NEW dto \in Dtos, NEW ret \in BOOLEAN,
         Update(r, o, target, dto, ret)
  PROVE  SingleInv'
<1> DEFINE c == Call("update", o, target, RowOf(o, target, dto), dto, ret,
                     target # NoStatus /\ target # orow[o].status, "save")
<1>1. target \in OrderStatus /\ dto \in Dto
  BY DEF OrdersAssumption
<1>2. RowOf(o, target, dto) \in OrderRow
  BY <1>1 DEF RowOf, OrderRow, Dto
<1>3. c \in CallRec
  BY <1>1, <1>2, CallTyped DEF CallStage
<1>4. /\ c.kind = "update" /\ c.order = o /\ c.stage = "save" /\ c.fill = {} /\ c.saved = {}
      /\ c.target = target
      /\ ~c.process => target = NoStatus \/ target = orow[o].status
  BY DEF Call
<1>5. Open(r, c)
  BY DEF Update
<1> HIDE DEF c
<1> QED BY <1>3, <1>4, <1>5, OpenSingle

LEMMA CreateSingle ==
  ASSUME OrdersAssumption, Base, Base', SingleInv, NEW r \in Request, NEW o \in Order,
         NEW target \in Targets, NEW dto \in Dtos, Create(r, o, target, dto)
  PROVE  SingleInv'
<1> DEFINE c == Call("create", o, target, RowOf(o, target, dto), dto, FALSE,
                     target # NoStatus, "save")
<1>1. target \in OrderStatus /\ dto \in Dto
  BY DEF OrdersAssumption
<1>2. RowOf(o, target, dto) \in OrderRow
  BY <1>1 DEF RowOf, OrderRow, Dto
<1>3. c \in CallRec
  BY <1>1, <1>2, CallTyped DEF CallStage
<1>4. c.kind = "create" /\ c.stage = "save" /\ c.fill = {} /\ c.saved = {}
  BY DEF Call
<1>5. Open(r, c)
  BY DEF Create
<1> HIDE DEF c
<1> QED BY <1>3, <1>4, <1>5, OpenSingle

LEMMA CancelSingle ==
  ASSUME OrdersAssumption, Base, Base', SingleInv, NEW r \in Request, NEW o \in Order, Cancel(r, o)
  PROVE  SingleInv'
<1> DEFINE c == Call("cancel", o, "cancelled", [orow[o] EXCEPT !.status = "cancelled"], NoDto,
                     TRUE, TRUE, "save")
<1>1. orow[o] \in OrderRow /\ "cancelled" \in OrderStatus
  BY DEF Base, RowTypes, OrderStatus, Status
<1>2. /\ [orow[o] EXCEPT !.status = "cancelled"] \in OrderRow
      /\ [orow[o] EXCEPT !.status = "cancelled"].total = orow[o].total
  BY <1>1 DEF OrderRow
<1>3. c \in CallRec
  BY <1>1, <1>2, NothingTyped, CallTyped DEF CallStage
<1>4. /\ c.kind = "cancel" /\ c.order = o /\ c.stage = "save" /\ c.fill = {} /\ c.saved = {}
      /\ c.row.total = orow[o].total
  BY <1>2 DEF Call
<1>5. Open(r, c)
  BY DEF Cancel
<1> HIDE DEF c
<1> QED BY <1>3, <1>4, <1>5, OpenSingle

LEMMA DeleteOrderSingle ==
  ASSUME OrdersAssumption, Base, Base', SingleInv, NEW r \in Request, NEW o \in Order,
         NEW ret \in BOOLEAN, DeleteOrder(r, o, ret)
  PROVE  SingleInv'
<1> DEFINE c == Call("delete", o, Deleted, orow[o], NoDto, ret, TRUE, "release")
<1>1. orow[o] \in OrderRow
  BY DEF Base, RowTypes
<1>3. c \in CallRec
  BY <1>1, NothingTyped, CallTyped DEF CallStage
<1>4. c.kind = "delete" /\ c.order = o /\ c.stage = "release" /\ c.fill = {} /\ c.saved = {}
  BY DEF Call
<1>5. Open(r, c)
  BY DEF DeleteOrder
<1> HIDE DEF c
<1> QED BY <1>3, <1>4, <1>5, OpenSingle

LEMMA ChangeShipmentSingle ==
  ASSUME OrdersAssumption, Base, Base', SingleInv, NEW r \in Request, NEW s \in Shipment,
         NEW target \in Targets \ {NoStatus}, NEW ret \in BOOLEAN, ChangeShipment(r, s, target, ret)
  PROVE  SingleInv'
<1> DEFINE c == Call("shipment", row[s].order, target, orow[row[s].order], NoDto, ret, TRUE, "wait")
<1>0. PICK p \in Order : p = row[s].order
  BY DEF Base, RowTypes, Row
<1>1. s \in live /\ pc[r] = "new" /\ pc' = [pc EXCEPT ![r] = "run"]
  BY DEF ChangeShipment, ChangeStatus
<1>2. call[r] = NoCall
  BY NewCall DEF ChangeShipment
<1>3. /\ call'[r] = c /\ \A q \in Request \ {r} : call'[q] = call[q]
  BY DEF ChangeShipment, Base, CallTypes
<1>4. /\ c.kind = "shipment" /\ c.order = p /\ c.stage = "wait" /\ c.fill = {} /\ c.target = target
  BY <1>0 DEF Call
<1> HIDE DEF c
<1>5. call'[r] # NoCall
  BY <1>3, <1>4, NothingTyped
<1>6. UNCHANGED <<shipmentVars, createVars, events, aborts, olive, orow, itemVars, handler>>
  BY DEF ChangeShipment, ChangeStatus, rowVars
<1>7. PICK S \in SUBSET {s} : S = {x \in {s} : row[x].status # target}
  OBVIOUS
<1>8. /\ (\A q \in Request \ {r} : job'[q] = job[q]) /\ \A t \in Shipment : job'[r][t] # NoJob => t = s
  <2>1. StartJobs(r, S, target, ret)
    BY <1>7 DEF ChangeShipment, ChangeStatus
  <2>2. job \in Jobs
    BY DEF Base, CallTypes
  <2> QED BY <2>1, <2>2 DEF StartJobs, Jobs
<1>9. Others(r)
  BY <1>1, <1>3, <1>6, <1>8 DEF Others, createVars, Base, CallTypes
<1>10. \A o \in Order : SameColumns(o) /\ SameShipments(o)
         /\ \A st \in Status : events'[<<o, st>>] = events[<<o, st>>]
  BY <1>6 DEF SameColumns, SameShipments, itemVars, shipmentVars, ShipmentsOf
<1>11. \A o \in Order \ {p} : SameOrder(o)
  BY <1>2, <1>3, <1>4, <1>5, <1>6, <1>9, <1>10, ShipmentLocal
<1>12. ASSUME ~Busy(p) PROVE Undisturbed(r)'
  <2>1. \A st \in Status : ~Pending(p, st)'
    BY <1>6, <1>12, NotBusy DEF Pending, Handled, On
  <2>2. \A t \in Shipment : job'[r][t] # NoJob => t \in live'
    BY <1>1, <1>6, <1>8 DEF shipmentVars
  <2>3. pc'[r] = "run"
    BY <1>1 DEF Base, CallTypes
  <2>4. call'[r].kind = "shipment" /\ call'[r].order = p /\ call'[r].stage = "wait"
    BY <1>3, <1>4
  <2> QED BY <2>1, <2>2, <2>3, <2>4 DEF Undisturbed, Saving, Sends, Pending, Handled, On
<1>13. Touch(p, Busy(p))
  BY <1>0 DEF ChangeShipment
<1> QED BY <1>3, <1>4, <1>6, <1>11, <1>12, <1>13, BeginSingle
------------------------------------------------------------------------------
(* The steps of a call before it goes to the shipments. *)
Early(r) ==
  LET d == call[r]
      p == d.order
  IN
  /\ d.stage # "wait"
  /\ d.kind \in Saving /\ d.stage # "save" => p \in olive /\ orow[p] = d.row
  /\ d.kind = "cancel" /\ d.stage = "save" => d.row.total = orow[p].total
  /\ d.kind = "update" /\ d.stage = "save" /\ ~d.process =>
       d.target = NoStatus \/ d.target = orow[p].status
  /\ d.stage \in {"save", "read"} => d.fill = {} /\ d.saved = {}
  /\ d.stage = "items" => d.saved \subseteq lines[p] /\ \A x \in d.fill : x[1] \in lines[p]
  /\ d.stage = "fetch" => \A l \in Line \ d.todo : d.held[l] = reserved[p][l]
  /\ d.stage = "release" /\ d.kind \in Saving => d.target \in Closing
  /\ d.kind \in Saving /\ d.target \in Closing /\ d.stage = "ship" => reserved[p] = Nothing
  /\ d.kind \in Saving /\ d.target = "sent_for_shipment" /\ d.stage = "ship" => d.held = reserved[p]

LEMMA EarlySingle ==
  ASSUME Base, Base', SingleInv, NEW r \in Request, call[r].stage \notin Ended \cup {"wait"},
         UNCHANGED <<shipmentVars, pc, createVars, job, events, handler, overlapped>>,
         aborts <= aborts', \A q \in Request \ {r} : call'[q] = call[q],
         call'[r] \in CallRec, call'[r].order = call[r].order,
         \A o \in Order \ {call[r].order} : SameColumns(o),
         Undisturbed(r) /\ call'[r].stage \notin Ended => Early(r)'
  PROVE  SingleInv'
<1>1. /\ call[r] \in CallRec /\ call[r] # NoCall /\ call[r].order \in Order
      /\ r \in Calls(call[r].order) /\ Shape(call[r])
  BY CallActs
<1>2. PICK p \in Order : p = call[r].order
  BY <1>1
<1>3. \A o \in Order \ {p} : SameOrder(o)
  BY <1>1, <1>2, RecNotNoCall, OrderLocal
<1>4. ASSUME p \notin overlapped' PROVE Single(p)'
  <2>1. Single(p) /\ Undisturbed(r)
    BY <1>1, <1>2, <1>4, CallActs DEF SingleInv
  <2>2. \A st \in Status : ~Pending(p, st)
    BY <1>2, <2>1, NothingPending
  <2>3. \A st \in Status : ~Pending(p, st)'
    BY <2>2 DEF Pending, Handled, On
  <2>4. ASSUME call'[r].stage \notin Ended PROVE Undisturbed(r)'
    <3>1. Early(r)'
      BY <2>1, <2>4
    <3>2. PICK d \in CallRec : d = call'[r]
      OBVIOUS
    <3>3. d.order = p
      BY <1>2, <3>2
    <3> QED BY <2>3, <3>1, <3>2, <3>3, EarlyUndisturbed DEF Early
  <2>5. call[r].kind # "shipment"
    BY <1>1 DEF Shape, Ended
  <2>6. \A st \in Status : events'[<<p, st>>] = events[<<p, st>>]
    OBVIOUS
  <2> QED BY <1>1, <1>2, <2>1, <2>4, <2>5, <2>6, OwnSingle
<1>5. overlapped \subseteq overlapped'
  OBVIOUS
<1> QED BY <1>3, <1>4, <1>5, SingleFrom

(* The columns of the other orders. *)
LEMMA OneOrder ==
  ASSUME Base, NEW p \in Order,
         olive' \in {olive, olive \cup {p}},
         \E x : orow' = [orow EXCEPT ![p] = x] \/ orow' = orow,
         \E x : lines' = [lines EXCEPT ![p] = x] \/ lines' = lines,
         \E x : worth' = [worth EXCEPT ![p] = x] \/ worth' = worth,
         \E x : reserved' = [reserved EXCEPT ![p] = x] \/ reserved' = reserved
  PROVE  \A o \in Order \ {p} : SameColumns(o)
<1> SUFFICES ASSUME NEW o \in Order, o # p PROVE SameColumns(o)
  OBVIOUS
<1>1. o \in olive' <=> o \in olive
  OBVIOUS
<1>2. orow'[o] = orow[o] /\ lines'[o] = lines[o] /\ worth'[o] = worth[o] /\ reserved'[o] = reserved[o]
  BY DEF Base, RowTypes
<1> QED BY <1>1, <1>2 DEF SameColumns

LEMMA SaveOrderSingle ==
  ASSUME OrdersAssumption, Base, Base', SingleInv, NEW r \in Request, SaveOrder(r)
  PROVE  SingleInv'
<1> DEFINE c == call[r]
<1>1. c.stage = "save" /\ c.stage \notin Ended \cup {"wait"}
  BY DEF SaveOrder, At, Ended
<1>2. c \in CallRec /\ c # NoCall /\ c.order \in Order /\ Shape(c)
  BY <1>1, CallActs
<1>3. PICK st \in {"release", "read"} : st = (IF c.kind = "cancel" THEN "release" ELSE "read")
  OBVIOUS
<1>4. /\ call' \in [Request -> CallRec \cup {NoCall}] /\ call'[r] = [c EXCEPT !.stage = st]
      /\ call'[r] \in CallRec
      /\ \A q \in Request \ {r} : call'[q] = call[q]
  BY <1>2, <1>3, GotoTyped DEF SaveOrder, CallStage
<1>5. /\ orow' = [orow EXCEPT ![c.order] = c.row] /\ olive' = olive \cup {c.order}
      /\ UNCHANGED <<lines, worth, reserved>>
  BY DEF SaveOrder, itemVars
<1>6. UNCHANGED <<shipmentVars, pc, createVars, job, events, handler, overlapped, aborts>>
  BY DEF SaveOrder, vars, jobVars
<1>7. \A o \in Order \ {c.order} : SameColumns(o)
  BY <1>2, <1>5, OneOrder
<1>8. aborts <= aborts'
  BY <1>6 DEF Base, RowTypes
<1>9. ASSUME Undisturbed(r) PROVE Early(r)'
  <2>1. call'[r].order = c.order /\ call'[r].stage = st /\ call'[r].kind = c.kind
        /\ call'[r].target = c.target /\ call'[r].row = c.row /\ call'[r].fill = c.fill
        /\ call'[r].saved = c.saved
    BY <1>2, <1>4 DEF CallRec
  <2>2. c.fill = {} /\ c.saved = {}
    BY <1>1, <1>9 DEF Undisturbed
  <2>3. c.order \in olive' /\ orow'[c.order] = c.row
    BY <1>2, <1>5 DEF Base, RowTypes
  <2>4. c.kind = "cancel" => c.target \in Closing
    BY <1>2 DEF Shape, Closing
  <2> QED BY <1>3, <2>1, <2>2, <2>3, <2>4 DEF Early
<1> QED BY <1>1, <1>2, <1>4, <1>6, <1>7, <1>8, <1>9, EarlySingle DEF CallRec

LEMMA ReadItemsSingle ==
  ASSUME OrdersAssumption, Base, Base', SingleInv, NEW r \in Request, ReadItems(r)
  PROVE  SingleInv'
<1> DEFINE c == call[r]
           d == [c EXCEPT !.known = lines[c.order], !.todo = c.dto.lines, !.stage = "items"]
<1>1. c.stage = "read" /\ c.stage \notin Ended \cup {"wait"}
  BY DEF ReadItems, At, Ended
<1>2. c \in CallRec /\ c # NoCall /\ c.order \in Order /\ Shape(c)
  BY <1>1, CallActs
<1>3. d \in CallRec
  BY <1>2 DEF CallRec, CallStage, Dto, Base, RowTypes
<1>4. call'[r] = d /\ \A q \in Request \ {r} : call'[q] = call[q]
  BY <1>3, ChangedTyped DEF ReadItems
<1>5. UNCHANGED <<olive, orow, lines, worth, reserved>>
  BY DEF ReadItems, rowVars, itemVars
<1>6. UNCHANGED <<shipmentVars, pc, createVars, job, events, handler, overlapped, aborts>>
  BY DEF ReadItems, vars, jobVars
<1>7. \A o \in Order \ {c.order} : SameColumns(o)
  BY <1>5 DEF SameColumns
<1>8. aborts <= aborts'
  BY <1>6 DEF Base, RowTypes
<1>a. /\ d.order = c.order /\ d.stage = "items" /\ d.kind = c.kind
      /\ d.target = c.target /\ d.row = c.row /\ d.fill = c.fill /\ d.saved = c.saved
  BY <1>2 DEF CallRec
<1> HIDE DEF d
<1>9. ASSUME Undisturbed(r) PROVE Early(r)'
  <2>2. c.fill = {} /\ c.saved = {}
    BY <1>1, <1>9 DEF Undisturbed
  <2>3. c.kind \in Saving => c.order \in olive' /\ orow'[c.order] = c.row
    BY <1>1, <1>5, <1>9 DEF Undisturbed
  <2> QED BY <1>4, <1>a, <2>2, <2>3 DEF Early
<1> QED BY <1>1, <1>2, <1>3, <1>4, <1>a, <1>6, <1>7, <1>8, <1>9, EarlySingle

LEMMA LineSingle ==
  ASSUME OrdersAssumption, Base, Base', SingleInv, NEW r \in Request, NEW l \in Line, AtLine(r, l)
  PROVE  SingleInv'
<1> DEFINE c == call[r]
           d == call'[r]
<1>1. /\ c \in CallRec /\ c.stage = "items" /\ c.order \in Order
      /\ d \in CallRec /\ d.order = c.order /\ d.kind = c.kind /\ d.target = c.target
      /\ d.row = c.row /\ \A q \in Request \ {r} : call'[q] = call[q]
      /\ \/ d.stage = "failed"
         \/ /\ d.stage = "items" /\ d.saved \subseteq c.saved \cup {l}
            /\ \A x \in d.fill : x \in c.fill \/ x[1] = l
            /\ l \in c.saved \/ lines' = [lines EXCEPT ![c.order] = @ \cup {l}]
  BY LineCall
<1>2. c.stage \notin Ended \cup {"wait"}
  BY <1>1 DEF Ended
<1>4. /\ lines' \in {lines, [lines EXCEPT ![c.order] = @ \cup {l}]}
      /\ reserved' \in {reserved, [reserved EXCEPT ![c.order] =
                                     [reserved[c.order] EXCEPT ![l] = Nothing[l]]]}
      /\ UNCHANGED <<shipmentVars, pc, createVars, job, events, handler, overlapped, aborts,
                     olive, orow, worth>>
  BY <1>1, LineRows
<1>7. \A o \in Order \ {c.order} : SameColumns(o)
  BY <1>1, <1>4, OneOrder
<1>8. aborts <= aborts'
  BY <1>4 DEF Base, RowTypes
<1>9. ASSUME Undisturbed(r), d.stage \notin Ended PROVE Early(r)'
  <2>1. /\ d.stage = "items" /\ d.saved \subseteq c.saved \cup {l}
        /\ \A x \in d.fill : x \in c.fill \/ x[1] = l
        /\ l \in c.saved \/ lines' = [lines EXCEPT ![c.order] = @ \cup {l}]
    BY <1>1, <1>9 DEF Ended
  <2>2. c.saved \subseteq lines[c.order] /\ \A x \in c.fill : x[1] \in lines[c.order]
    BY <1>1, <1>9 DEF Undisturbed
  <2>3. l \in lines'[c.order] /\ lines[c.order] \subseteq lines'[c.order]
    BY <1>1, <1>4, <2>1, <2>2 DEF Base, RowTypes
  <2>4. d.saved \subseteq lines'[c.order] /\ \A x \in d.fill : x[1] \in lines'[c.order]
    BY <2>1, <2>2, <2>3
  <2>5. c.kind \in Saving => c.order \in olive' /\ orow'[c.order] = c.row
    BY <1>1, <1>4, <1>9 DEF Undisturbed
  <2> QED BY <1>1, <2>1, <2>4, <2>5 DEF Early
<1> QED BY <1>1, <1>2, <1>4, <1>7, <1>8, <1>9, EarlySingle

LEMMA SaveReservationSingle ==
  ASSUME OrdersAssumption, Base, Base', SingleInv, NEW r \in Request, NEW l \in Line,
         NEW w \in Warehouse, SaveReservation(r, l, w)
  PROVE  SingleInv'
<1> DEFINE c == call[r]
           d == [c EXCEPT !.fill = @ \ {<<l, w>>}]
<1>1. c.stage = "items" /\ c.stage \notin Ended \cup {"wait"}
  BY DEF SaveReservation, At, Ended
<1>2. c \in CallRec /\ c # NoCall /\ c.order \in Order /\ Shape(c)
  BY <1>1, CallActs
<1>3. /\ call'[r] \in {[c EXCEPT !.stage = "failed"], d} /\ call'[r] \in CallRec
      /\ \A q \in Request \ {r} : call'[q] = call[q]
  <2>1. d \in CallRec
    BY <1>2 DEF CallRec
  <2>2. Goto(r, "failed") \/ call' = [call EXCEPT ![r] = d]
    BY <1>2 DEF SaveReservation, Fail, Base, CallTypes
  <2>3. CASE Goto(r, "failed")
    BY <1>2, <2>3, GotoTyped DEF CallStage
  <2>4. CASE call' = [call EXCEPT ![r] = d]
    BY <2>1, <2>4, ChangedTyped
  <2> QED BY <2>2, <2>3, <2>4
<1>4. \E x : reserved' = [reserved EXCEPT ![c.order] = x] \/ reserved' = reserved
  <2>1. CASE l \notin lines[c.order]
    BY <2>1 DEF SaveReservation
  <2>2. CASE l \in lines[c.order]
    <3>1. reserved' = [reserved EXCEPT ![c.order] = [reserved[c.order] EXCEPT ![l][w] =
                         reserved[c.order][l][w] + c.dto.reservations[l][w]]]
      BY <1>2, <2>2 DEF SaveReservation, Base, RowTypes, Amounts
    <3> QED BY <3>1
  <2> QED BY <2>1, <2>2
<1>6. UNCHANGED <<shipmentVars, pc, createVars, job, events, handler, overlapped, aborts, olive, orow,
                  lines, worth>>
  BY DEF SaveReservation, vars, jobVars, rowVars
<1>7. \A o \in Order \ {c.order} : SameColumns(o)
  BY <1>2, <1>4, <1>6, OneOrder
<1>8. aborts <= aborts'
  BY <1>6 DEF Base, RowTypes
<1>a. /\ call'[r].order = c.order /\ call'[r].kind = c.kind
      /\ call'[r].target = c.target /\ call'[r].row = c.row
      /\ \/ call'[r].stage = "failed"
         \/ /\ call'[r].stage = "items" /\ call'[r].fill \subseteq c.fill
            /\ call'[r].saved = c.saved
  BY <1>1, <1>2, <1>3 DEF CallRec
<1>9. ASSUME Undisturbed(r), call'[r].stage \notin Ended PROVE Early(r)'
  <2>1. call'[r].stage = "items" /\ call'[r].fill \subseteq c.fill /\ call'[r].saved = c.saved
    BY <1>a, <1>9 DEF Ended
  <2>2. c.saved \subseteq lines[c.order] /\ \A x \in c.fill : x[1] \in lines[c.order]
    BY <1>1, <1>9 DEF Undisturbed
  <2>4. c.kind \in Saving => c.order \in olive' /\ orow'[c.order] = c.row
    BY <1>1, <1>6, <1>9 DEF Undisturbed
  <2> QED BY <1>6, <1>a, <2>1, <2>2, <2>4 DEF Early
<1> QED BY <1>1, <1>3, <1>a, <1>6, <1>7, <1>8, <1>9, EarlySingle

LEMMA RemoveLinesSingle ==
  ASSUME OrdersAssumption, Base, Base', SingleInv, NEW r \in Request, RemoveLines(r)
  PROVE  SingleInv'
<1> DEFINE c == call[r]
<1>1. c.stage = "items" /\ c.stage \notin Ended \cup {"wait"}
  BY DEF RemoveLines, At, Ended
<1>2. c \in CallRec /\ c # NoCall /\ c.order \in Order /\ Shape(c)
  BY <1>1, CallActs
<1>3. /\ call'[r] = [c EXCEPT !.stage = "reread"] /\ call'[r] \in CallRec
      /\ \A q \in Request \ {r} : call'[q] = call[q]
  BY <1>2, GotoTyped DEF RemoveLines, CallStage
<1>4. /\ \E x : lines' = [lines EXCEPT ![c.order] = x]
      /\ \E x : reserved' = [reserved EXCEPT ![c.order] = x]
      /\ \E x : worth' = [worth EXCEPT ![c.order] = x]
  BY <1>2 DEF RemoveLines, Base, RowTypes
<1>6. UNCHANGED <<shipmentVars, pc, createVars, job, events, handler, overlapped, aborts, olive, orow>>
  BY DEF RemoveLines, vars, jobVars, rowVars
<1>7. \A o \in Order \ {c.order} : SameColumns(o)
  BY <1>2, <1>4, <1>6, OneOrder
<1>8. aborts <= aborts'
  BY <1>6 DEF Base, RowTypes
<1>a. /\ call'[r].order = c.order /\ call'[r].kind = c.kind
      /\ call'[r].target = c.target /\ call'[r].row = c.row /\ call'[r].stage = "reread"
  BY <1>2, <1>3 DEF CallRec
<1>9. ASSUME Undisturbed(r) PROVE Early(r)'
  <2>4. c.kind \in Saving => c.order \in olive' /\ orow'[c.order] = c.row
    BY <1>1, <1>6, <1>9 DEF Undisturbed
  <2> QED BY <1>a, <2>4 DEF Early
<1> QED BY <1>1, <1>3, <1>a, <1>6, <1>7, <1>8, <1>9, EarlySingle

LEMMA RereadCall ==
  ASSUME Base, NEW r \in Request, Rereads(r)
  PROVE  LET c == call[r]
             d == call'[r]
         IN
         /\ c.stage \in {"reread", "fetch"} /\ c.kind \in {"update", "create"}
         /\ d.stage \in {"fetch", "done", "release", "ship"}
         /\ d.stage = "fetch" \/ d.todo = {}
         /\ d.stage = "done" => ~c.process
         /\ d.stage \in {"release", "ship"} => c.process
         /\ d.stage = "release" => c.target \in Closing
         /\ d.stage = "ship" => c.target \notin Closing
<1> DEFINE c == call[r]
           d == call'[r]
<1>1. /\ c.stage \in {"reread", "fetch"} /\ c \in CallRec /\ c # NoCall
      /\ d.stage = IF d.todo = {} THEN AfterItems(c) ELSE "fetch"
  BY RereadTyped
<1>2. Shape(c)
  BY <1>1 DEF Base
<1>3. c.kind \in {"update", "create"}
  BY <1>1, <1>2 DEF Shape, CallRec
<1> QED BY <1>1, <1>3 DEF AfterItems

LEMMA RereadSingle ==
  ASSUME OrdersAssumption, Base, Base', SingleInv, LinesFit, NEW r \in Request, Rereads(r)
  PROVE  SingleInv'
<1> DEFINE c == call[r]
           d == call'[r]
           o == c.order
<1>1. /\ c.stage \in {"reread", "fetch"} /\ c \in CallRec /\ c # NoCall /\ c.order \in Order
      /\ d \in CallRec /\ d.order = c.order /\ d.kind = c.kind /\ d.target = c.target
      /\ d.row = c.row
      /\ \/ c.stage = "reread" /\ d.held = Nothing /\ d.todo = lines[o]
         \/ \E l \in c.todo : /\ c.stage = "fetch" /\ d.todo = c.todo \ {l}
                               /\ d.held = [c.held EXCEPT ![l] = reserved[o][l]]
      /\ \A q \in Request \ {r} : call'[q] = call[q]
      /\ UNCHANGED <<shipmentVars, pc, createVars, job, events, handler, overlapped, aborts,
                     olive, orow, lines, worth, reserved>>
  BY RereadTyped
<1>2. c.stage \notin Ended \cup {"wait"}
  BY <1>1 DEF Ended
<1>3. /\ d.stage \in {"fetch", "done", "release", "ship"}
      /\ d.stage = "fetch" \/ d.todo = {}
      /\ d.stage = "release" => c.target \in Closing
      /\ d.stage = "ship" => c.target \notin Closing
  BY RereadCall
<1>7. \A x \in Order \ {o} : SameColumns(x)
  BY <1>1 DEF SameColumns
<1>8. aborts <= aborts'
  BY <1>1 DEF Base, RowTypes
<1>9. ASSUME Undisturbed(r) PROVE Early(r)'
  <2>1. \A l \in Line \ d.todo : d.held[l] = reserved[o][l]
    <3>1. CASE c.stage = "reread"
      <4>1. d.held = Nothing /\ d.todo = lines[o]
        BY <1>1, <3>1
      <4> QED BY <1>1, <4>1 DEF LinesFit
    <3>2. CASE c.stage = "fetch"
      <4>1. PICK l \in c.todo : d.todo = c.todo \ {l} /\ d.held = [c.held EXCEPT ![l] = reserved[o][l]]
        BY <1>1, <3>2
      <4>2. \A x \in Line \ c.todo : c.held[x] = reserved[o][x]
        BY <1>9, <3>2 DEF Undisturbed
      <4>3. c.held \in Amounts /\ c.todo \subseteq Line
        BY <1>1 DEF CallRec
      <4> QED BY <4>1, <4>2, <4>3 DEF Amounts
    <3> QED BY <1>1, <3>1, <3>2
  <2>2. d.stage # "fetch" => d.held = reserved[o]
    <3>1. d.held \in Amounts /\ reserved[o] \in Amounts
      BY <1>1 DEF CallRec, Base, RowTypes
    <3>2. d.stage # "fetch" => \A l \in Line : d.held[l] = reserved[o][l]
      BY <1>3, <2>1
    <3> QED BY <3>1, <3>2 DEF Amounts
  <2>3. c.kind \in Saving => o \in olive' /\ orow'[o] = c.row
    BY <1>1, <1>9 DEF Undisturbed
  <2> QED BY <1>1, <1>3, <2>1, <2>2, <2>3 DEF Early
<1> QED BY <1>1, <1>2, <1>7, <1>8, <1>9, EarlySingle

LEMMA ReleaseSingle ==
  ASSUME OrdersAssumption, Base, Base', SingleInv, NEW r \in Request, Release(r)
  PROVE  SingleInv'
<1> DEFINE c == call[r]
<1>1. c.stage = "release" /\ c.stage \notin Ended \cup {"wait"}
  BY DEF Release, At, Ended
<1>2. c \in CallRec /\ c # NoCall /\ c.order \in Order /\ Shape(c)
  BY <1>1, CallActs
<1>3. /\ call'[r] = [c EXCEPT !.stage = "ship"] /\ call'[r] \in CallRec
      /\ \A q \in Request \ {r} : call'[q] = call[q]
  BY <1>2, GotoTyped DEF Release, CallStage
<1>4. reserved' = [reserved EXCEPT ![c.order] = Nothing]
  BY DEF Release
<1>6. UNCHANGED <<shipmentVars, pc, createVars, job, events, handler, overlapped, aborts, olive, orow,
                  lines, worth>>
  BY DEF Release, vars, jobVars, rowVars
<1>7. \A o \in Order \ {c.order} : SameColumns(o)
  BY <1>2, <1>4, <1>6, OneOrder
<1>8. aborts <= aborts'
  BY <1>6 DEF Base, RowTypes
<1>a. /\ call'[r].order = c.order /\ call'[r].kind = c.kind
      /\ call'[r].target = c.target /\ call'[r].row = c.row /\ call'[r].stage = "ship"
  BY <1>2, <1>3 DEF CallRec
<1>9. ASSUME Undisturbed(r) PROVE Early(r)'
  <2>1. c.kind \in Saving => c.order \in olive' /\ orow'[c.order] = c.row
    BY <1>1, <1>6, <1>9 DEF Undisturbed
  <2>2. c.kind \in Saving => c.target \in Closing
    BY <1>1, <1>9 DEF Undisturbed
  <2>3. reserved'[c.order] = Nothing
    BY <1>2, <1>4 DEF Base, RowTypes
  <2>4. "sent_for_shipment" \notin Closing
    BY DEF Closing
  <2> QED BY <1>a, <2>1, <2>2, <2>3, <2>4 DEF Early
<1> QED BY <1>1, <1>3, <1>a, <1>6, <1>7, <1>8, <1>9, EarlySingle

LEMMA DropSingle ==
  ASSUME OrdersAssumption, Base, Base', SingleInv, NEW r \in Request, Drop(r)
  PROVE  SingleInv'
<1> DEFINE c == call[r]
<1>1. c.stage \notin Ended \cup {"wait"}
  BY DEF Drop
<1>2. c \in CallRec /\ c # NoCall /\ c.order \in Order /\ Shape(c)
  BY <1>1, CallActs
<1>3. /\ call'[r] = [c EXCEPT !.stage = "failed"] /\ call'[r] \in CallRec
      /\ \A q \in Request \ {r} : call'[q] = call[q]
  BY <1>2, GotoTyped DEF Drop, Fail, CallStage
<1>6. UNCHANGED <<shipmentVars, pc, createVars, job, events, handler, overlapped, olive, orow,
                  lines, worth, reserved>>
  BY DEF Drop, jobVars, rowVars, itemVars
<1>7. \A o \in Order \ {c.order} : SameColumns(o)
  BY <1>6 DEF SameColumns
<1>8. aborts <= aborts'
  BY DEF Base, RowTypes, Drop
<1>a. call'[r].order = c.order /\ call'[r].stage = "failed" /\ "failed" \in Ended
  BY <1>2, <1>3 DEF CallRec, Ended
<1> QED BY <1>1, <1>3, <1>a, <1>6, <1>7, <1>8, EarlySingle
------------------------------------------------------------------------------
(* The steps of a call at the shipments. *)
LEMMA OthersShipments ==
  ASSUME RowTypes, RowTypes', NEW p \in Order, NEW S \in SUBSET Shipment,
         \A s \in S : (s \in live => row[s].order = p) /\ (s \in live' => row'[s].order = p),
         \A s \in Shipment \ S : (s \in live' <=> s \in live) /\ row'[s] = row[s] /\ items'[s] = items[s]
  PROVE  \A o \in Order \ {p} : SameShipments(o)
<1>1. live \subseteq Shipment /\ live' \subseteq Shipment
  BY ShipmentsAssumption DEF RowTypes, Shipment
<1> SUFFICES ASSUME NEW o \in Order, o # p PROVE SameShipments(o)
  OBVIOUS
<1>2. ASSUME NEW s \in Shipment PROVE s \in ShipmentsOf(o)' <=> s \in ShipmentsOf(o)
  BY <1>1 DEF ShipmentsOf
<1>3. ASSUME NEW s \in ShipmentsOf(o) PROVE row'[s] = row[s] /\ items'[s] = items[s]
  BY <1>1 DEF ShipmentsOf
<1>4. ShipmentsOf(o) \subseteq Shipment /\ ShipmentsOf(o)' \subseteq Shipment
  BY <1>1 DEF ShipmentsOf
<1>5. ShipmentsOf(o)' = ShipmentsOf(o)
  BY <1>2, <1>4
<1> QED BY <1>3, <1>5 DEF SameShipments

(* What is left to show of the call that takes the step. *)
AtShipments(r) ==
  LET c == call[r]
      p == c.order
  IN
  /\ \A st \in Status : events[<<p, st>>] > 0 => st = c.target /\ c.kind # "delete" /\ ~Sends(c)
  /\ \A s \in Shipment : job[r][s] # NoJob => s \in live
  /\ pc[r] = "create" => Shipping(r)
  /\ Sends(c) /\ pc[r] = "done" => ShippedAll(p)
  /\ pc[r] = "failed" => aborts > 0

LEMMA WaitSingle ==
  ASSUME Base, Base', SingleInv, NEW r \in Request, call[r].stage \in {"ship", "wait"},
         UNCHANGED <<olive, orow, lines, worth, reserved, handler, overlapped>>,
         aborts <= aborts', Others(r), call'[r] = [call[r] EXCEPT !.stage = "wait"],
         \A o \in Order \ {call[r].order} : SameShipments(o)
           /\ \A st \in Status : events'[<<o, st>>] = events[<<o, st>>],
         Undisturbed(r) => AtShipments(r)'
  PROVE  SingleInv'
<1>1. /\ call[r] \in CallRec /\ call[r] # NoCall /\ call[r].order \in Order
      /\ r \in Calls(call[r].order) /\ Shape(call[r])
  BY CallActs DEF Ended
<1>2. PICK p \in Order : p = call[r].order
  BY <1>1
<1>3. PICK d \in CallRec : d = call'[r]
  BY <1>1 DEF CallRec, CallStage
<1>4. /\ d.kind = call[r].kind /\ d.order = p /\ d.target = call[r].target /\ d.row = call[r].row
      /\ d.held = call[r].held /\ d.stage = "wait" /\ d # NoCall
  BY <1>1, <1>2, <1>3, RecNotNoCall DEF CallRec
<1>5. \A o \in Order : SameColumns(o)
  BY DEF SameColumns
<1>6. \A o \in Order \ {p} : SameOrder(o)
  BY <1>2, <1>3, <1>4, <1>5, ShipmentLocal
<1>7. ASSUME p \notin overlapped' PROVE Single(p)'
  <2>1. Single(p) /\ Undisturbed(r) /\ AtShipments(r)'
    BY <1>1, <1>2, <1>7, CallActs DEF SingleInv, Ended
  <2>2. \A h \in Handler : On(h, p)' <=> On(h, p)
    BY DEF On
  <2>3. \A st \in Status : Handled(p, st)' <=> Handled(p, st)
    BY <2>2 DEF Handled
  <2>4. Sends(d) <=> Sends(call[r])
    BY <1>4 DEF Sends
  <2>5. ASSUME NEW st \in Status, Pending(p, st)'
        PROVE  st = d.target /\ d.kind # "delete" /\ ~Sends(d)
    <3>1. CASE events'[<<p, st>>] > 0
      BY <1>3, <1>4, <2>1, <3>1 DEF AtShipments
    <3>2. CASE Handled(p, st)
      BY <1>2, <1>4, <2>1, <2>4, <3>2 DEF Undisturbed, Pending
    <3> QED BY <2>3, <2>5, <3>1, <3>2 DEF Pending
  <2>6. Undisturbed(r)'
    <3>1. d.kind # "shipment" => \A st \in Status : ~Handled(p, st)'
      BY <1>2, <1>4, <2>1, <2>3 DEF Undisturbed
    <3>2. d.kind \in Saving => p \in olive' /\ orow'[p] = d.row
      BY <1>2, <1>4, <2>1 DEF Undisturbed
    <3>3. d.kind \in Saving /\ d.target \in Closing => reserved'[p] = Nothing
      BY <1>2, <1>4, <2>1 DEF Undisturbed
    <3>4. Sends(d) => d.held = reserved'[p]
      BY <1>2, <1>4, <2>1, <2>4 DEF Undisturbed
    <3>5. /\ \A s \in Shipment : job'[r][s] # NoJob => s \in live'
          /\ pc'[r] = "create" => Shipping(r)'
          /\ Sends(d) /\ pc'[r] = "done" => ShippedAll(p)'
          /\ pc'[r] = "failed" => aborts' > 0
      BY <1>3, <1>4, <2>1 DEF AtShipments, ShippedAll
    <3> QED BY <1>3, <1>4, <2>5, <3>1, <3>2, <3>3, <3>4, <3>5
            DEF Undisturbed, Pending, Handled, On, ShippedAll
  <2>7. \A q \in Calls(p)' : q = r
    <3>1. \A q \in Request \ {r} : call'[q] = call[q]
      BY DEF Others
    <3> QED BY <1>1, <1>2, <2>1, <3>1 DEF Single, Calls, Active
  <2>8. \A st, tt \in Status : Pending(p, st)' /\ Pending(p, tt)' => st = tt
    BY <2>5
  <2>9. \A h \in Handler : On(h, p)' =>
          /\ handler'[h].row.total = orow'[p].total
          /\ handler'[h].stage = "release" => orow'[p].status = handler'[h].row.status
    BY <2>1, <2>2 DEF Single
  <2> QED BY <2>6, <2>7, <2>8, <2>9 DEF Single
<1> QED BY <1>6, <1>7, SingleFrom

LEMMA ShipSingle ==
  ASSUME OrdersAssumption, Base, Base', SingleInv, NEW r \in Request, Ship(r)
  PROVE  SingleInv'
<1> DEFINE c == call[r]
<1>1. /\ c \in CallRec /\ c # NoCall /\ c.stage = "ship" /\ Own(r)
      /\ call'[r] = [c EXCEPT !.stage = "wait"]
      /\ \A q \in Request \ {r} : call'[q] = call[q]
      /\ \/ c.kind = "delete" /\ Delete(r, OfOrder(c.order), c.returnStocks)
         \/ /\ c.kind \in Saving /\ c.target = "sent_for_shipment"
            /\ CreateForOrder(r, c.order, c.held)
         \/ /\ c.kind \in Saving /\ c.target \in Status \ {"sent_for_shipment"}
            /\ ProcessOrder(r, c.order, c.target, c.returnStocks)
  BY ShipBegins
<1>2. PICK p \in Order : p = c.order
  BY <1>1 DEF CallRec
<1>3. /\ call'[r].kind = c.kind /\ call'[r].order = p /\ call'[r].target = c.target
      /\ call'[r].held = c.held /\ call'[r].stage = "wait"
  BY <1>1, <1>2 DEF CallRec
<1>4. UNCHANGED <<olive, orow, lines, worth, reserved, handler, overlapped>>
  BY DEF Ship, rowVars, itemVars
<1>5. Matches(OfOrder(p)) = ShipmentsOf(p)
  BY OfOrderMatches DEF Base
<1>6. ShipmentsOf(p) \in SUBSET Shipment /\ \A s \in ShipmentsOf(p) : row[s].order = p
  BY LiveIds DEF Base, ShipmentsOf
<1>7. (\A s \in Shipment : job[r][s] = NoJob) /\ \A w \in Warehouse : made[r][w] = 0
  BY <1>1 DEF Own
<1>8. ASSUME Undisturbed(r) PROVE \A st \in Status : ~(events[<<p, st>>] > 0)
  BY <1>1, <1>2, <1>8, NothingPending DEF Pending
<1>9. ASSUME NEW S \in SUBSET ShipmentsOf(p), NEW target, NEW ret, StartJobs(r, S, target, ret),
             NEW stage \in {"run", "delete"}, pc' = [pc EXCEPT ![r] = stage],
             \A q \in Request \ {r} : filter'[q] = filter[q],
             stage = "run" => c.target # "sent_for_shipment", stage = "delete" => c.kind = "delete",
             UNCHANGED <<shipmentVars, plan, made, events, aborts>>
      PROVE  SingleInv'
  <2>1. pc'[r] = stage /\ \A q \in Request \ {r} : pc'[q] = pc[q]
    BY <1>9 DEF Base, CallTypes
  <2>2. /\ \A q \in Request \ {r} : job'[q] = job[q]
        /\ \A s \in Shipment : job'[r][s] # NoJob => s \in S
    <3>1. job \in Jobs
      BY DEF Base, CallTypes
    <3> QED BY <1>9, <3>1 DEF StartJobs, Jobs
  <2>3. Others(r)
    BY <1>1, <1>9, <2>1, <2>2 DEF Others
  <2>4. \A o \in Order : SameShipments(o)
    BY <1>9 DEF SameShipments, ShipmentsOf, shipmentVars
  <2>5. ASSUME Undisturbed(r) PROVE AtShipments(r)'
    <3>1. \A s \in Shipment : job'[r][s] # NoJob => s \in live'
      BY <1>9, <2>2 DEF ShipmentsOf, shipmentVars
    <3>2. \A st \in Status : ~(events'[<<p, st>>] > 0)
      BY <1>8, <1>9, <2>5
    <3> QED BY <1>3, <2>1, <3>1, <3>2 DEF AtShipments, ShippedAll
  <2>6. aborts <= aborts'
    BY <1>9 DEF Base, RowTypes
  <2> QED BY <1>1, <1>4, <1>9, <2>3, <2>4, <2>5, <2>6, WaitSingle
<1>10. CASE c.kind = "delete" /\ Delete(r, OfOrder(c.order), c.returnStocks)
  <2>1. PICK S \in SUBSET ShipmentsOf(p) :
          S = {s \in ShipmentsOf(p) : c.returnStocks /\ row[s].status = "shipped"}
    OBVIOUS
  <2>2. StartJobs(r, S, Deleted, c.returnStocks)
    BY <1>2, <1>5, <1>10, <2>1 DEF Delete
  <2>3. /\ pc' = [pc EXCEPT ![r] = "delete"] /\ filter' = [filter EXCEPT ![r] = OfOrder(c.order)]
        /\ UNCHANGED <<shipmentVars, plan, made, events, aborts>>
    BY <1>10 DEF Delete
  <2>4. \A q \in Request \ {r} : filter'[q] = filter[q]
    BY <2>3 DEF Base, CallTypes
  <2> QED BY <1>9, <1>10, <2>2, <2>3, <2>4
<1>11. CASE c.kind \in Saving /\ c.target \in Status \ {"sent_for_shipment"}
              /\ ProcessOrder(r, c.order, c.target, c.returnStocks)
  <2>1. PICK S \in SUBSET ShipmentsOf(p) : S = {s \in ShipmentsOf(p) : row[s].status # c.target}
    OBVIOUS
  <2>2. StartJobs(r, S, c.target, c.returnStocks)
    BY <1>2, <1>5, <1>11, <2>1 DEF ProcessOrder
  <2>3. /\ pc' = [pc EXCEPT ![r] = "run"] /\ \A q \in Request \ {r} : filter'[q] = filter[q]
        /\ UNCHANGED <<shipmentVars, plan, made, events, aborts>>
    BY <1>11 DEF ProcessOrder, createVars
  <2> QED BY <1>9, <1>11, <2>2, <2>3
<1>12. CASE /\ c.kind \in Saving /\ c.target = "sent_for_shipment"
            /\ CreateForOrder(r, c.order, c.held)
  <2>1. Replaced(p) = ShipmentsOf(p)
    BY <1>5 DEF Replaced
  <2>2. /\ live' = live \ ShipmentsOf(p)
        /\ items' = [s \in Shipment |-> IF s \in ShipmentsOf(p) THEN [l \in Line |-> 0] ELSE items[s]]
        /\ pc' = [pc EXCEPT ![r] = "create"] /\ filter' = [filter EXCEPT ![r] = OfOrder(c.order)]
        /\ plan' = [plan EXCEPT ![r] = c.held]
        /\ UNCHANGED <<row, lastId, made, job, events, aborts>>
    BY <1>2, <1>12, <2>1 DEF CreateForOrder, jobVars
  <2>3. /\ pc'[r] = "create" /\ plan'[r] = c.held
    BY <2>2 DEF Base, CallTypes
  <2>4. Others(r)
    BY <1>1, <2>2 DEF Others, Base, CallTypes
  <2>5. \A o \in Order \ {p} : SameShipments(o)
    <3>1. \A s \in ShipmentsOf(p) : (s \in live => row[s].order = p) /\ (s \in live' => row'[s].order = p)
      BY <1>6, <2>2
    <3>2. \A s \in Shipment \ ShipmentsOf(p) :
             (s \in live' <=> s \in live) /\ row'[s] = row[s] /\ items'[s] = items[s]
      BY <2>2
    <3> QED BY <1>6, <3>1, <3>2, OthersShipments DEF Base
  <2>6. ShipmentsOf(p)' = {}
    BY <2>2 DEF ShipmentsOf
  <2>7. Shipping(r)'
    <3>1. ShipmentsOf(call[r].order)' = {}
      BY <1>3, <2>6 DEF ShipmentsOf
    <3>2. made' = made /\ \A w \in Warehouse : made'[r][w] = 0
      BY <1>7, <2>2
    <3>3. \A l \in Line, w \in Warehouse : plan'[r][l][w] = call'[r].held[l][w]
      BY <1>3, <2>3
    <3> QED BY <3>1, <3>2, <3>3 DEF Shipping
  <2>8. ASSUME Undisturbed(r) PROVE AtShipments(r)'
    <3>1. \A st \in Status : ~(events'[<<p, st>>] > 0)
      BY <1>8, <2>2, <2>8
    <3> QED BY <1>3, <1>7, <2>2, <2>3, <2>7, <3>1 DEF AtShipments, ShippedAll
  <2>9. aborts <= aborts'
    BY <2>2 DEF Base, RowTypes
  <2> QED BY <1>1, <1>2, <1>4, <2>2, <2>4, <2>5, <2>8, <2>9, WaitSingle
<1> QED BY <1>1, <1>10, <1>11, <1>12

LEMMA WaitStays ==
  ASSUME Base, NEW r \in Request, At(r, "wait"), UNCHANGED orderVars
  PROVE  /\ call'[r] = [call[r] EXCEPT !.stage = "wait"] /\ call[r].stage \in {"ship", "wait"}
         /\ call' = call
         /\ UNCHANGED <<olive, orow, lines, worth, reserved, handler, overlapped>>
<1>1. call[r] \in CallRec /\ call[r].stage = "wait"
  BY WaitingCall
<1>2. [call[r] EXCEPT !.stage = "wait"] = call[r]
  BY <1>1 DEF CallRec
<1> QED BY <1>1, <1>2 DEF orderVars, rowVars, itemVars, callVars

LEMMA SaveShipmentSingle ==
  ASSUME OrdersAssumption, Base, Base', SingleInv, NEW r \in Request, At(r, "wait"),
         NEW s \in Shipment, SaveShipment(r, s), UNCHANGED orderVars
  PROVE  SingleInv'
<1> DEFINE c == call[r]
<1>1. c \in CallRec /\ c.stage = "wait" /\ Shape(c) /\ Own(r) /\ c.order \in Order
  BY WaitingCall
<1>2. /\ c.target \in Status /\ job[r][s] # NoJob /\ pc[r] = "run"
      /\ row[s].order = c.order /\ row'[s].order = c.order
      /\ \A t \in Shipment \ {s} : row'[t] = row[t]
      /\ live' = live \cup {s} /\ events' \in [Order \X Status -> Nat]
      /\ \A o \in Order, st \in Status :
           <<o, st>> # <<c.order, c.target>> => events'[<<o, st>>] = events[<<o, st>>]
      /\ job'[r][s] = NoJob /\ \A t \in Shipment \ {s} : job'[r][t] = job[r][t]
      /\ \A q \in Request \ {r} : job'[q] = job[q]
      /\ UNCHANGED <<items, lastId, pc, createVars, aborts>>
  BY SaveShipmentDoes
<1>3. /\ call'[r] = [c EXCEPT !.stage = "wait"] /\ c.stage \in {"ship", "wait"} /\ call' = call
      /\ UNCHANGED <<olive, orow, lines, worth, reserved, handler, overlapped>>
  BY WaitStays
<1>4. Others(r)
  BY <1>2, <1>3 DEF Others, createVars
<1>5. PICK p \in Order : p = c.order
  BY <1>1
<1>6. \A o \in Order \ {p} : SameShipments(o)
  <2>1. {s} \in SUBSET Shipment
    OBVIOUS
  <2>2. \A t \in {s} : (t \in live => row[t].order = p) /\ (t \in live' => row'[t].order = p)
    BY <1>2, <1>5
  <2>3. \A t \in Shipment \ {s} : (t \in live' <=> t \in live) /\ row'[t] = row[t] /\ items'[t] = items[t]
    BY <1>2
  <2> QED BY <2>1, <2>2, <2>3, OthersShipments DEF Base
<1>7. \A o \in Order \ {p}, st \in Status : events'[<<o, st>>] = events[<<o, st>>]
  BY <1>2, <1>5
<1>8. c.kind # "delete" /\ ~Sends(c)
  BY <1>1, <1>2 DEF Own, Sends
<1>9. ASSUME Undisturbed(r) PROVE AtShipments(r)'
  <2>1. \A st \in Status : events'[<<p, st>>] > 0 => st = c.target
    BY <1>2, <1>5, <1>9 DEF Undisturbed, Pending
  <2>2. \A t \in Shipment : job'[r][t] # NoJob => t \in live'
    BY <1>2, <1>9 DEF Undisturbed
  <2> QED BY <1>2, <1>3, <1>5, <1>8, <2>1, <2>2 DEF AtShipments, ShippedAll, Sends
<1>10. aborts <= aborts'
  BY <1>2 DEF Base, RowTypes
<1> QED BY <1>3, <1>4, <1>5, <1>6, <1>7, <1>9, <1>10, WaitSingle

LEMMA CreateShipmentSingle ==
  ASSUME OrdersAssumption, Base, Base', SingleInv, NEW r \in Request, At(r, "wait"),
         NEW w \in Warehouse, CreateShipment(r, w), UNCHANGED orderVars
  PROVE  SingleInv'
<1> DEFINE c == call[r]
<1>1. c \in CallRec /\ c.stage = "wait" /\ Own(r) /\ c.order \in Order
  BY WaitingCall
<1>0. PICK s \in Shipment : s = lastId + 1
  BY CreateShipmentDoes
<1>2. /\ pc[r] = "create" /\ lastId \in Nat /\ made[r][w] = 0 /\ \E l \in Line : plan[r][l][w] > 0
      /\ live' = live \cup {s}
      /\ row'[s].order = c.order /\ row'[s].status = "sent_for_shipment" /\ row'[s].warehouse = w
      /\ \A t \in Shipment \ {s} : row'[t] = row[t]
      /\ made' \in [Request -> [Warehouse -> 0..MaxShipment]] /\ made'[r][w] = s
      /\ \A v \in Warehouse \ {w} : made'[r][v] = made[r][v]
      /\ \A q \in Request \ {r} : made'[q] = made[q]
      /\ UNCHANGED <<items, pc, filter, plan, job, events, aborts>>
  BY <1>0, CreateShipmentDoes
<1>3. /\ call'[r] = [c EXCEPT !.stage = "wait"] /\ c.stage \in {"ship", "wait"} /\ call' = call
      /\ UNCHANGED <<olive, orow, lines, worth, reserved, handler, overlapped>>
  BY WaitStays
<1>4. Others(r)
  BY <1>2, <1>3 DEF Others
<1>5. PICK p \in Order : p = c.order
  BY <1>1
<1>6. s \notin live /\ live \subseteq Shipment /\ s # 0 /\ \A l \in Line : items[s][l] = 0
  <2>1. s \notin live /\ live \subseteq Shipment /\ s # 0
    BY <1>0, <1>2, LiveIds DEF Base, RowTypes
  <2> QED BY <2>1 DEF Base, RowsFit
<1>7. \A o \in Order \ {p} : SameShipments(o)
  <2>1. {s} \in SUBSET Shipment
    OBVIOUS
  <2>2. \A t \in {s} : (t \in live => row[t].order = p) /\ (t \in live' => row'[t].order = p)
    BY <1>2, <1>5, <1>6
  <2>3. \A t \in Shipment \ {s} : (t \in live' <=> t \in live) /\ row'[t] = row[t] /\ items'[t] = items[t]
    BY <1>2
  <2> QED BY <2>1, <2>2, <2>3, OthersShipments DEF Base
<1>8. \A t \in live : t \in Shipment /\ t # s /\ row'[t] = row[t]
  BY <1>2, <1>6
<1>9. ASSUME Shipping(r) PROVE Shipping(r)'
  <2>1. ASSUME NEW v \in Warehouse, made'[r][v] # 0
        PROVE  /\ made'[r][v] \in live' /\ row'[made'[r][v]].status = "sent_for_shipment"
               /\ \E l \in Line : call'[r].held[l][v] > 0
    <3>1. CASE v = w
      <4>1. PICK l \in Line : plan[r][l][w] > 0
        BY <1>2
      <4>2. call[r].held[l][w] > 0
        BY <1>2, <1>9, <4>1 DEF Shipping
      <4> QED BY <1>2, <1>3, <3>1, <4>2
    <3>2. CASE v # w
      BY <1>2, <1>3, <1>8, <1>9, <2>1, <3>2 DEF Shipping
    <3> QED BY <3>1, <3>2
  <2>2. ASSUME NEW t \in ShipmentsOf(p)' PROVE made'[r][row'[t].warehouse] = t
    <3>1. t \in live' /\ row'[t].order = p
      BY <2>2 DEF ShipmentsOf
    <3>2. CASE t = s
      BY <1>2, <3>2
    <3>3. CASE t # s
      <4>1. t \in live /\ row'[t] = row[t]
        BY <1>2, <1>8, <3>1, <3>3
      <4>2. t \in ShipmentsOf(p)
        BY <3>1, <4>1 DEF ShipmentsOf
      <4>3. made[r][row[t].warehouse] = t
        BY <1>5, <1>9, <4>2 DEF Shipping
      <4>a. t \in Shipment /\ row \in [Shipment -> Row]
        BY <1>8, <4>1 DEF Base, RowTypes
      <4>4. row[t].warehouse \in Warehouse /\ t # 0
        BY <4>a, ShipmentsAssumption DEF Row, Shipment
      <4>5. row[t].warehouse # w
        BY <1>2, <4>3, <4>4
      <4> QED BY <1>2, <4>1, <4>3, <4>4, <4>5
    <3> QED BY <3>2, <3>3
  <2>3. ASSUME NEW l \in Line, NEW v \in Warehouse
        PROVE  \/ /\ plan'[r][l][v] = call'[r].held[l][v]
                  /\ made'[r][v] # 0 => items'[made'[r][v]][l] = 0
               \/ /\ plan'[r][l][v] = 0 /\ made'[r][v] # 0
                  /\ items'[made'[r][v]][l] = call'[r].held[l][v]
    <3>1. CASE v = w
      BY <1>2, <1>3, <1>6, <1>9, <3>1 DEF Shipping
    <3>2. CASE v # w
      BY <1>2, <1>3, <1>9, <3>2 DEF Shipping
    <3> QED BY <3>1, <3>2
  <2>4. ShipmentsOf(call[r].order)' = ShipmentsOf(p)'
    BY <1>3, <1>5 DEF ShipmentsOf
  <2> QED BY <2>1, <2>2, <2>3, <2>4 DEF Shipping
<1>10. ASSUME Undisturbed(r) PROVE AtShipments(r)'
  <2>1. Shipping(r)'
    BY <1>2, <1>9, <1>10 DEF Undisturbed
  <2>2. \A st \in Status : events'[<<p, st>>] > 0 => st = c.target /\ c.kind # "delete" /\ ~Sends(c)
    BY <1>2, <1>5, <1>10 DEF Undisturbed, Pending
  <2>3. \A t \in Shipment : job'[r][t] # NoJob => t \in live'
    BY <1>2, <1>10 DEF Undisturbed
  <2> QED BY <1>2, <1>3, <1>5, <2>1, <2>2, <2>3 DEF AtShipments, ShippedAll, Sends
<1>11. aborts <= aborts'
  BY <1>2 DEF Base, RowTypes
<1> QED BY <1>2, <1>3, <1>4, <1>5, <1>7, <1>10, <1>11, WaitSingle

LEMMA CreateItemSingle ==
  ASSUME OrdersAssumption, Base, Base', SingleInv, NEW r \in Request, At(r, "wait"), NEW l \in Line,
         NEW w \in Warehouse, CreateItem(r, l, w), UNCHANGED orderVars
  PROVE  SingleInv'
<1> DEFINE c == call[r]
           s == made[r][w]
<1>1. c \in CallRec /\ c.stage = "wait" /\ Own(r) /\ c.order \in Order
  BY WaitingCall
<1>2. /\ pc[r] = "create" /\ plan[r][l][w] > 0 /\ s \in Shipment /\ row[s].order = c.order
      /\ UNCHANGED <<live, row, lastId, job, events, aborts>>
      /\ \/ /\ s \in live /\ items' = [items EXCEPT ![s][l] = plan[r][l][w]]
            /\ plan' = [plan EXCEPT ![r][l][w] = 0] /\ UNCHANGED <<pc, filter, made>>
         \/ /\ s \notin live /\ pc' = [pc EXCEPT ![r] = "failed"]
            /\ plan' = [plan EXCEPT ![r] = Nothing]
            /\ made' = [made EXCEPT ![r] = [y \in Warehouse |-> 0]]
            /\ filter' = [filter EXCEPT ![r] = NoFilter] /\ UNCHANGED items
  BY CreateItemDoes
<1>3. /\ call'[r] = [c EXCEPT !.stage = "wait"] /\ c.stage \in {"ship", "wait"} /\ call' = call
      /\ UNCHANGED <<olive, orow, lines, worth, reserved, handler, overlapped>>
  BY WaitStays
<1>5. PICK p \in Order : p = c.order
  BY <1>1
<1>6. aborts <= aborts'
  BY <1>2 DEF Base, RowTypes
<1>7. CASE /\ s \in live /\ items' = [items EXCEPT ![s][l] = plan[r][l][w]]
           /\ plan' = [plan EXCEPT ![r][l][w] = 0] /\ UNCHANGED <<pc, filter, made>>
  <2>1. plan[r][l][w] \in Nat
    BY DEF Base, CallTypes, Amounts
  <2>2. /\ items'[s][l] = plan[r][l][w]
        /\ \A t \in Shipment, k \in Line : <<t, k>> # <<s, l>> => items'[t][k] = items[t][k]
        /\ \A t \in Shipment \ {s} : items'[t] = items[t]
    <3>1. items \in [Shipment -> [Line -> Nat]]
      BY DEF Base, RowTypes
    <3> HIDE DEF s
    <3>2. \A t \in Shipment \ {s} : items'[t] = items[t]
      BY <1>2, <1>7, <3>1
    <3> QED BY <1>2, <1>7, <2>1, <3>2, ItemsTyped DEF Base
  <2>3. /\ plan'[r][l][w] = 0
        /\ \A k \in Line, v \in Warehouse : <<k, v>> # <<l, w>> => plan'[r][k][v] = plan[r][k][v]
        /\ \A q \in Request \ {r} : plan'[q] = plan[q]
    <3>1. plan' = [plan EXCEPT ![r][l][w] = 0] /\ CallTypes
      BY <1>7 DEF Base
    <3> HIDE DEF s, c
    <3>2. plan'[r][l][w] = 0
      BY <3>1 DEF CallTypes, Amounts
    <3>3. \A q \in Request \ {r} : plan'[q] = plan[q]
      BY <3>1, PlanTyped
    <3>4. ASSUME NEW k \in Line, NEW v \in Warehouse, <<k, v>> # <<l, w>>
          PROVE  plan'[r][k][v] = plan[r][k][v]
      BY <3>1, <3>4, PlanTyped
    <3> QED BY <3>2, <3>3, <3>4
  <2>4. Others(r)
    BY <1>2, <1>3, <1>7, <2>3 DEF Others
  <2>5. \A o \in Order \ {p} : SameShipments(o)
    <3>1. {s} \in SUBSET Shipment
      BY <1>2
    <3>2. \A t \in {s} : (t \in live => row[t].order = p) /\ (t \in live' => row'[t].order = p)
      BY <1>2, <1>5
    <3>3. \A t \in Shipment \ {s} : (t \in live' <=> t \in live) /\ row'[t] = row[t] /\ items'[t] = items[t]
      BY <1>2, <2>2
    <3> QED BY <3>1, <3>2, <3>3, OthersShipments DEF Base
  <2>6. ASSUME Shipping(r) PROVE Shipping(r)'
    <3>1. \A v \in Warehouse :
            made'[r][v] # 0 => /\ made'[r][v] \in live' /\ row'[made'[r][v]].status = "sent_for_shipment"
                               /\ \E k \in Line : call'[r].held[k][v] > 0
      BY <1>2, <1>3, <1>7, <2>6 DEF Shipping
    <3>2. \A t \in ShipmentsOf(p)' : made'[r][row'[t].warehouse] = t
      BY <1>2, <1>5, <1>7, <2>6 DEF Shipping, ShipmentsOf
    <3>3. ASSUME NEW k \in Line, NEW v \in Warehouse
          PROVE  \/ /\ plan'[r][k][v] = call'[r].held[k][v]
                    /\ made'[r][v] # 0 => items'[made'[r][v]][k] = 0
                 \/ /\ plan'[r][k][v] = 0 /\ made'[r][v] # 0
                    /\ items'[made'[r][v]][k] = call'[r].held[k][v]
      <4>1. CASE <<k, v>> = <<l, w>>
        <5>1. plan[r][l][w] = call[r].held[l][w]
          BY <1>2, <2>1, <2>6 DEF Shipping
        <5>2. s # 0
          BY <1>2, ShipmentsAssumption DEF Shipment
        <5> QED BY <1>3, <1>7, <2>2, <2>3, <4>1, <5>1, <5>2
      <4>2. CASE <<k, v>> # <<l, w>>
        <5>1. plan'[r][k][v] = plan[r][k][v]
          BY <2>3, <4>2
        <5>2. made[r][v] # 0 => items'[made[r][v]][k] = items[made[r][v]][k]
          <6> SUFFICES ASSUME made[r][v] # 0 PROVE items'[made[r][v]][k] = items[made[r][v]][k]
            OBVIOUS
          <6>1. made[r][v] \in Shipment /\ row[made[r][v]].warehouse = v /\ row[s].warehouse = w
            <7>1. s # 0
              BY <1>2, ShipmentsAssumption DEF Shipment
            <7>2. c # NoCall
              BY <1>1, RecNotNoCall
            <7> QED BY <7>1, <7>2, OwnShipments
          <6>2. <<made[r][v], k>> # <<s, l>>
            BY <4>2, <6>1
          <6> QED BY <2>2, <6>1, <6>2
        <5> QED BY <1>3, <1>7, <2>6, <5>1, <5>2 DEF Shipping
      <4> QED BY <4>1, <4>2
    <3>4. ShipmentsOf(call[r].order)' = ShipmentsOf(p)'
      BY <1>3, <1>5 DEF ShipmentsOf
    <3> QED BY <3>1, <3>2, <3>3, <3>4 DEF Shipping
  <2>7. ASSUME Undisturbed(r) PROVE AtShipments(r)'
    <3>1. Shipping(r)'
      BY <1>2, <2>6, <2>7 DEF Undisturbed
    <3>2. \A st \in Status : events'[<<p, st>>] > 0 => st = c.target /\ c.kind # "delete" /\ ~Sends(c)
      BY <1>2, <1>5, <2>7 DEF Undisturbed, Pending
    <3>3. \A t \in Shipment : job'[r][t] # NoJob => t \in live'
      BY <1>2, <2>7 DEF Undisturbed
    <3> QED BY <1>2, <1>3, <1>5, <1>7, <3>1, <3>2, <3>3 DEF AtShipments, ShippedAll, Sends
  <2> QED BY <1>2, <1>3, <1>5, <1>6, <2>4, <2>5, <2>7, WaitSingle
<1>8. CASE /\ s \notin live /\ pc' = [pc EXCEPT ![r] = "failed"]
           /\ plan' = [plan EXCEPT ![r] = Nothing]
           /\ made' = [made EXCEPT ![r] = [y \in Warehouse |-> 0]]
           /\ filter' = [filter EXCEPT ![r] = NoFilter] /\ UNCHANGED items
  <2>1. Others(r)
    BY <1>2, <1>3, <1>8 DEF Others, Base, CallTypes
  <2>2. \A o \in Order : SameShipments(o)
    BY <1>2, <1>8 DEF SameShipments, ShipmentsOf
  <2>3. ~Undisturbed(r)
    <3>1. s # 0
      BY <1>2, ShipmentsAssumption DEF Shipment
    <3> QED BY <1>2, <1>8, <3>1 DEF Undisturbed, Shipping
  <2> QED BY <1>2, <1>3, <1>6, <2>1, <2>2, <2>3, WaitSingle
<1> QED BY <1>2, <1>7, <1>8

LEMMA DeleteRowsSingle ==
  ASSUME OrdersAssumption, Base, Base', SingleInv, NEW r \in Request, At(r, "wait"), DeleteRows(r),
         UNCHANGED orderVars
  PROVE  SingleInv'
<1> DEFINE c == call[r]
<1>1. c \in CallRec /\ c.stage = "wait" /\ Own(r) /\ Shape(c) /\ c.order \in Order
  BY WaitingCall
<1>0. PICK p \in Order : p = c.order
  BY <1>1
<1>2. /\ pc[r] = "delete" /\ live' = live \ ShipmentsOf(p)
      /\ items' = [s \in Shipment |-> IF s \in ShipmentsOf(p) THEN [l \in Line |-> 0] ELSE items[s]]
      /\ job' = [job EXCEPT ![r] = [s \in Shipment |-> NoJob]]
      /\ filter' = [filter EXCEPT ![r] = NoFilter] /\ pc' = [pc EXCEPT ![r] = "done"]
      /\ UNCHANGED <<row, lastId, plan, made, events, aborts>>
  BY <1>0, DeleteRowsDoes
<1>3. /\ call'[r] = [c EXCEPT !.stage = "wait"] /\ c.stage \in {"ship", "wait"} /\ call' = call
      /\ UNCHANGED <<olive, orow, lines, worth, reserved, handler, overlapped>>
  BY WaitStays
<1>4. /\ pc'[r] = "done" /\ \A s \in Shipment : job'[r][s] = NoJob
      /\ Others(r)
  BY <1>2, <1>3 DEF Base, CallTypes, Jobs, Others
<1>5. \A o \in Order \ {p} : SameShipments(o)
  <2>1. ShipmentsOf(p) \in SUBSET Shipment
    BY LiveIds DEF Base, ShipmentsOf
  <2>2. \A s \in ShipmentsOf(p) : (s \in live => row[s].order = p) /\ (s \in live' => row'[s].order = p)
    BY <1>2 DEF ShipmentsOf
  <2>3. \A s \in Shipment \ ShipmentsOf(p) :
          (s \in live' <=> s \in live) /\ row'[s] = row[s] /\ items'[s] = items[s]
    BY <1>2
  <2> QED BY <2>1, <2>2, <2>3, OthersShipments DEF Base
<1>6. c.kind = "delete" /\ ~Sends(c)
  BY <1>1, <1>2 DEF Own, Sends, Saving
<1>7. ASSUME Undisturbed(r) PROVE AtShipments(r)'
  <2>1. \A st \in Status : ~(events'[<<p, st>>] > 0)
    BY <1>0, <1>2, <1>6, <1>7 DEF Undisturbed, Pending
  <2> QED BY <1>0, <1>3, <1>4, <1>6, <2>1 DEF AtShipments, ShippedAll, Sends
<1>8. aborts <= aborts'
  BY <1>2 DEF Base, RowTypes
<1> QED BY <1>0, <1>2, <1>3, <1>4, <1>5, <1>7, <1>8, WaitSingle

(* createForOrder is over: every reservation has become a shipment item. *)
LEMMA AllShipped ==
  ASSUME Base, NEW r \in Request, call[r].stage = "wait", Shipping(r), call[r].held \in Amounts,
         \A l \in Line, w \in Warehouse : plan[r][l][w] = 0,
         NEW p \in Order, p = call[r].order, call[r].held = reserved[p]
  PROVE  ShippedAll(p)
<1> SUFFICES ASSUME NEW w \in Warehouse
             PROVE  LET At_ == {s \in live : row[s].order = p /\ row[s].warehouse = w} IN
                    IF \E l \in Line : reserved[p][l][w] > 0
                      THEN \E s \in At_ : At_ = {s} /\ row[s].status = "sent_for_shipment"
                                          /\ \A l \in Line : items[s][l] = reserved[p][l][w]
                      ELSE At_ = {}
  BY DEF ShippedAll
<1> DEFINE At_ == {s \in live : row[s].order = p /\ row[s].warehouse = w}
           s == made[r][w]
<1>1. \A t \in At_ : t \in ShipmentsOf(p) /\ t = s /\ t # 0
  <2>1. 0 \notin live
    BY DEF Base, RowTypes
  <2> QED BY <2>1 DEF ShipmentsOf, Shipping
<1>2. call[r] # NoCall
  BY NothingTyped
<1>3. CASE \E l \in Line : reserved[p][l][w] > 0
  <2>1. PICK l \in Line : reserved[p][l][w] > 0
    BY <1>3
  <2>2. s # 0
    BY <2>1 DEF Shipping
  <2>3. s \in live /\ row[s].order = p /\ row[s].warehouse = w /\ row[s].status = "sent_for_shipment"
    BY <1>2, <2>2, OwnShipments DEF Shipping
  <2>4. \A k \in Line : items[s][k] = reserved[p][k][w]
    BY <2>2 DEF Shipping
  <2>5. At_ = {s} /\ s \in At_
    BY <1>1, <2>3
  <2> HIDE DEF s
  <2> QED BY <1>3, <2>3, <2>4, <2>5
<1>4. CASE ~\E l \in Line : reserved[p][l][w] > 0
  <2>1. s = 0
    BY <1>4 DEF Shipping
  <2>2. At_ = {}
    BY <1>1, <2>1
  <2> QED BY <1>4, <2>2
<1> QED BY <1>3, <1>4

LEMMA ReturnSingle ==
  ASSUME OrdersAssumption, Base, Base', SingleInv, NEW r \in Request, At(r, "wait"), Return(r),
         UNCHANGED orderVars
  PROVE  SingleInv'
<1> DEFINE c == call[r]
<1>1. c \in CallRec /\ c.stage = "wait" /\ Own(r) /\ Shape(c) /\ c.order \in Order
  BY WaitingCall
<1>0. PICK p \in Order : p = c.order
  BY <1>1
<1>2. /\ pc' = [pc EXCEPT ![r] = "done"] /\ made' = [made EXCEPT ![r] = [w \in Warehouse |-> 0]]
      /\ filter' = [filter EXCEPT ![r] = NoFilter]
      /\ UNCHANGED <<live, row, items, lastId, plan, job, events, aborts>>
  BY DEF Return, shipmentVars, jobVars
<1>3. /\ call'[r] = [c EXCEPT !.stage = "wait"] /\ c.stage \in {"ship", "wait"} /\ call' = call
      /\ UNCHANGED <<olive, orow, lines, worth, reserved, handler, overlapped>>
  BY WaitStays
<1>4. pc'[r] = "done" /\ Others(r)
  BY <1>2, <1>3 DEF Base, CallTypes, Others
<1>5. \A o \in Order : SameShipments(o)
  BY <1>2 DEF SameShipments, ShipmentsOf
<1>6. \/ pc[r] = "run" /\ ~Sends(c)
      \/ pc[r] = "create" /\ \A l \in Line, w \in Warehouse : plan[r][l][w] = 0
  BY <1>1 DEF Return, Own, Sends
<1>7. ASSUME Undisturbed(r) PROVE AtShipments(r)'
  <2>1. \A st \in Status : events'[<<p, st>>] > 0 => st = c.target /\ c.kind # "delete" /\ ~Sends(c)
    BY <1>0, <1>2, <1>7 DEF Undisturbed, Pending
  <2>2. \A t \in Shipment : job'[r][t] # NoJob => t \in live'
    BY <1>2, <1>7 DEF Undisturbed
  <2>3. Sends(c) => ShippedAll(p)
    <3> SUFFICES ASSUME Sends(c) PROVE ShippedAll(p)
      OBVIOUS
    <3>1. Shipping(r) /\ \A l \in Line, w \in Warehouse : plan[r][l][w] = 0
      BY <1>6, <1>7 DEF Undisturbed
    <3>2. c.held = reserved[p] /\ c.held \in Amounts
      BY <1>0, <1>1, <1>7 DEF Undisturbed, CallRec
    <3> QED BY <1>0, <1>1, <3>1, <3>2, AllShipped
  <2>4. Sends(c) => ShippedAll(p)'
    BY <1>2, <1>3, <2>3 DEF ShippedAll
  <2> QED BY <1>0, <1>3, <1>4, <2>1, <2>2, <2>4 DEF AtShipments, ShippedAll, Sends
<1>8. aborts <= aborts'
  BY <1>2 DEF Base, RowTypes
<1> QED BY <1>0, <1>2, <1>3, <1>4, <1>5, <1>7, <1>8, WaitSingle

LEMMA LoseSingle ==
  ASSUME OrdersAssumption, Base, Base', SingleInv, NEW r \in Request, At(r, "wait"), Lose(r),
         \/ aborts' = aborts + 1
         \/ /\ aborts' = aborts
            /\ \/ pc[r] = "create" /\ ~filter[r].orders \subseteq olive
               \/ \E s \in Running(r) \ live :
                    job[r][s].target # Deleted /\ job[r][s].row.order \notin olive,
         UNCHANGED orderVars
  PROVE  SingleInv'
<1> DEFINE c == call[r]
<1>1. c \in CallRec /\ c.stage = "wait" /\ Own(r) /\ Shape(c) /\ c.order \in Order
  BY WaitingCall
<1>0. PICK p \in Order : p = c.order
  BY <1>1
<1>2. /\ pc' = [pc EXCEPT ![r] = "failed"] /\ made' = [made EXCEPT ![r] = [w \in Warehouse |-> 0]]
      /\ job' = [job EXCEPT ![r] = [s \in Shipment |-> NoJob]]
      /\ plan' = [plan EXCEPT ![r] = Nothing]
      /\ filter' = [filter EXCEPT ![r] = NoFilter]
      /\ UNCHANGED <<live, row, items, lastId, events>>
  BY DEF Lose, shipmentVars, Nothing
<1>3. /\ call'[r] = [c EXCEPT !.stage = "wait"] /\ c.stage \in {"ship", "wait"} /\ call' = call
      /\ UNCHANGED <<olive, orow, lines, worth, reserved, handler, overlapped>>
  BY WaitStays
<1>4. pc'[r] = "failed" /\ (\A s \in Shipment : job'[r][s] = NoJob) /\ Others(r)
  BY <1>2, <1>3 DEF Base, CallTypes, Jobs, Others
<1>5. \A o \in Order : SameShipments(o)
  BY <1>2 DEF SameShipments, ShipmentsOf
<1>6. aborts \in Nat /\ aborts <= aborts'
  BY DEF Base, RowTypes
<1>7. ASSUME Undisturbed(r) PROVE AtShipments(r)'
  <2>1. \A st \in Status : events'[<<p, st>>] > 0 => st = c.target /\ c.kind # "delete" /\ ~Sends(c)
    BY <1>0, <1>2, <1>7 DEF Undisturbed, Pending
  <2>2. aborts' > 0
    <3>1. CASE aborts' = aborts + 1
      BY <1>6, <3>1
    <3>2. CASE pc[r] = "create" /\ ~filter[r].orders \subseteq olive
      <4>1. c.kind \in Saving /\ filter[r].orders = {p}
        BY <1>0, <1>1, <3>2 DEF Own, OfOrder
      <4>2. p \in olive
        BY <1>0, <1>1, <1>7, <4>1 DEF Undisturbed
      <4> QED BY <3>2, <4>1, <4>2
    <3>3. CASE \E s \in Running(r) \ live :
                 job[r][s].target # Deleted /\ job[r][s].row.order \notin olive
      BY <1>7, <3>3 DEF Undisturbed, Running
    <3> QED BY <3>1, <3>2, <3>3
  <2> QED BY <1>0, <1>3, <1>4, <2>1, <2>2 DEF AtShipments, ShippedAll, Sends
<1> QED BY <1>0, <1>2, <1>3, <1>4, <1>5, <1>6, <1>7, WaitSingle

LEMMA StockSame == ASSUME StockOnly PROVE \A o \in Order : SameOrder(o)
<1>1. UNCHANGED <<live, row, items, pc, plan, made, job, events, call, handler, olive, orow, lines,
                  worth, reserved>>
  BY DEF StockOnly, orderVars, rowVars, itemVars, callVars, shipmentVars, createVars
<1> SUFFICES ASSUME NEW o \in Order PROVE SameOrder(o)
  OBVIOUS
<1>2. SameColumns(o)
  BY <1>1 DEF SameColumns
<1>3. SameShipments(o)
  BY <1>1 DEF SameShipments, ShipmentsOf
<1>4. SameCalls(o) /\ SameHandlers(o)
  BY <1>1 DEF SameCalls, SameHandlers
<1> QED BY <1>2, <1>3, <1>4 DEF SameOrder

LEMMA StockSingle == ASSUME Base, Base', SingleInv, StockOnly PROVE SingleInv'
<1>1. aborts <= aborts' /\ overlapped' = overlapped
  BY DEF StockOnly, orderVars, Base, RowTypes
<1> QED BY <1>1, StockSame, KeepSingle DEF SingleInv

LEMMA ShipmentStepSingle ==
  ASSUME OrdersAssumption, Base, Base', SingleInv, NEW r \in Request, ShipmentStep(r)
  PROVE  SingleInv'
<1>1. At(r, "wait") /\ UNCHANGED orderVars
  BY ShipmentStepCases
<1>2. CASE StockOnly
  BY <1>2, StockSingle
<1>3. CASE \E s \in Shipment : SaveShipment(r, s)
  BY <1>1, <1>3, SaveShipmentSingle
<1>4. CASE \E w \in Warehouse : CreateShipment(r, w)
  BY <1>1, <1>4, CreateShipmentSingle
<1>5. CASE \E w \in Warehouse, l \in Line : CreateItem(r, l, w)
  BY <1>1, <1>5, CreateItemSingle
<1>6. CASE DeleteRows(r)
  BY <1>1, <1>6, DeleteRowsSingle
<1>7. CASE Return(r)
  BY <1>1, <1>7, ReturnSingle
<1>8. CASE /\ \/ pc[r] = "create" /\ ~filter[r].orders \subseteq olive
              \/ \E s \in Running(r) \ live :
                   job[r][s].target # Deleted /\ job[r][s].row.order \notin olive
           /\ Lose(r) /\ UNCHANGED aborts
  BY <1>1, <1>8, LoseSingle
<1> QED BY <1>2, <1>3, <1>4, <1>5, <1>6, <1>7, <1>8, ShipmentStepCases

LEMMA AbortSingle ==
  ASSUME OrdersAssumption, Base, Base', SingleInv, NEW r \in Request, AbortCall(r) PROVE SingleInv'
<1>1. CASE Drop(r)
  BY <1>1, DropSingle
<1>2. CASE At(r, "wait") /\ Lose(r) /\ aborts' = aborts + 1 /\ UNCHANGED orderVars
  BY <1>2, LoseSingle
<1> QED BY <1>1, <1>2, AbortCases

(* What EndCall does: a deleted order takes its rows with it. *)
LEMMA EndCallDoes ==
  ASSUME Base, NEW r \in Request, EndCall(r)
  PROVE  LET c == call[r]
             p == c.order
         IN
         /\ c \in CallRec /\ c.stage = "wait" /\ Shape(c) /\ Own(r) /\ p \in Order
         /\ r \in Calls(p) /\ pc[r] \in {"done", "failed"}
         /\ call'[r] = [c EXCEPT !.stage = pc[r]] /\ \A q \in Request \ {r} : call'[q] = call[q]
         /\ Others(r)
         /\ \A o \in Order \ {p} : SameColumns(o) /\ SameShipments(o)
         /\ UNCHANGED <<row, lastId, pc, createVars, job, events, aborts, orow, worth, handler,
                        overlapped>>
         /\ pc[r] = "failed" \/ c.kind # "delete" => SameColumns(p) /\ SameShipments(p)
         /\ pc[r] = "done" /\ c.kind = "delete" => p \notin olive' /\ ShipmentsOf(p)' = {}
<1> DEFINE c == call[r]
<1>0. PICK p \in Order : p = c.order
  BY WaitingCall DEF EndCall
<1>a. PICK gone \in SUBSET {p} : gone = IF pc[r] = "done" /\ c.kind = "delete" THEN {p} ELSE {}
  OBVIOUS
<1>1. c \in CallRec /\ c # NoCall /\ c.stage = "wait" /\ Shape(c) /\ Own(r)
  BY WaitingCall DEF EndCall
<1>2. pc[r] \in {"done", "failed"} /\ Goto(r, pc[r]) /\ pc[r] \in CallStage
  BY DEF EndCall, Answered, CallStage
<1>3. call'[r] = [c EXCEPT !.stage = pc[r]] /\ \A q \in Request \ {r} : call'[q] = call[q]
  BY <1>1, <1>2, GotoTyped
<1>4. r \in Calls(p)
  BY <1>0, <1>1 DEF Calls, Active, Ended
<1>5. /\ olive' = olive \ gone
      /\ lines' = [o \in Order |-> IF o \in gone THEN {} ELSE lines[o]]
      /\ reserved' = [o \in Order |-> IF o \in gone THEN Nothing ELSE reserved[o]]
      /\ live' = {s \in live : row[s].order \notin gone}
      /\ items' = [s \in Shipment |-> IF s \in live' THEN items[s] ELSE [l \in Line |-> 0]]
      /\ UNCHANGED <<row, lastId, pc, createVars, job, events, aborts, orow, worth, handler, overlapped>>
  BY <1>0, <1>a DEF EndCall, jobVars
<1>6. Others(r)
  BY <1>3, <1>5 DEF Others, createVars
<1>7. ASSUME NEW o \in Order, o \notin gone PROVE SameColumns(o) /\ SameShipments(o)
  <2>1. SameColumns(o)
    BY <1>5, <1>7 DEF SameColumns
  <2>2. ShipmentsOf(o)' = ShipmentsOf(o)
    BY <1>5, <1>7 DEF ShipmentsOf
  <2>3. \A s \in ShipmentsOf(o) : row'[s] = row[s] /\ items'[s] = items[s]
    BY <1>5, <1>7, LiveIds DEF ShipmentsOf, Base
  <2> QED BY <2>1, <2>2, <2>3 DEF SameShipments
<1>8. p \in gone => p \notin olive' /\ ShipmentsOf(p)' = {}
  BY <1>5 DEF ShipmentsOf
<1> QED BY <1>0, <1>a, <1>1, <1>2, <1>3, <1>4, <1>5, <1>6, <1>7, <1>8

LEMMA EndCallSingle ==
  ASSUME OrdersAssumption, Base, Base', SingleInv, NEW r \in Request, EndCall(r)
  PROVE  SingleInv'
<1> DEFINE c == call[r]
<1>0. PICK p \in Order : p = c.order
  BY EndCallDoes
<1>1. /\ c \in CallRec /\ r \in Calls(p) /\ pc[r] \in {"done", "failed"}
      /\ call'[r] = [c EXCEPT !.stage = pc[r]] /\ \A q \in Request \ {r} : call'[q] = call[q]
      /\ Others(r)
      /\ \A o \in Order \ {p} : SameColumns(o) /\ SameShipments(o)
      /\ UNCHANGED <<events, aborts, orow, handler, overlapped>>
  BY <1>0, EndCallDoes
<1>2. call'[r].order = p /\ call'[r].stage \in Ended /\ call'[r] \in CallRec
  BY <1>0, <1>1 DEF CallRec, Ended, CallStage
<1>3. \A o \in Order \ {p} : SameOrder(o)
  BY <1>0, <1>1, <1>2, RecNotNoCall, ShipmentLocal
<1>4. ASSUME p \notin overlapped' PROVE Single(p)'
  <2>1. Single(p)
    BY <1>1, <1>4 DEF SingleInv
  <2> QED BY <1>1, <1>2, <2>1, OwnSingle
<1>5. aborts <= aborts'
  BY <1>1 DEF Base, RowTypes
<1> QED BY <1>1, <1>3, <1>4, <1>5, SingleFrom
------------------------------------------------------------------------------
(* The handlers: a call that writes the order itself meets none at work. *)
LEMMA HandlerUndisturbed ==
  ASSUME Base, NEW p \in Order, NEW r \in Calls(p), Undisturbed(r),
         UNCHANGED <<shipmentVars, pc, createVars, job, call>>, aborts <= aborts', aborts' \in Nat,
         \A st \in Status : Pending(p, st)' => Pending(p, st),
         call[r].kind = "shipment" \/ (SameColumns(p) /\ \A st \in Status : ~Handled(p, st)')
  PROVE  Undisturbed(r)'
<1> DEFINE c == call[r]
<1>1. r \in Request /\ c \in CallRec /\ c.order = p /\ Shape(c) /\ Own(r) /\ c.stage \notin Ended
  BY ActiveCalls DEF Base, Calls, Active
<1>2. call'[r] = c /\ pc'[r] = pc[r] /\ job'[r] = job[r] /\ live' = live
  BY DEF shipmentVars
<1>3. aborts > 0 => aborts' > 0
  BY DEF Base, RowTypes
<1>4. \A st \in Status : Pending(p, st)' => st = c.target /\ c.stage = "wait" /\ c.kind # "delete" /\ ~Sends(c)
  BY <1>1 DEF Undisturbed
<1>5. CASE c.kind = "shipment"
  <2>1. c.stage = "wait" /\ pc[r] # "create" /\ ~Sends(c)
    BY <1>1, <1>5 DEF Shape, Own, Sends, Saving, Ended
  <2>2. /\ \A s \in Shipment : job'[r][s] # NoJob => s \in live'
        /\ pc'[r] = "failed" => aborts' > 0
    BY <1>2, <1>3, <2>1 DEF Undisturbed
  <2> QED BY <1>1, <1>2, <1>4, <1>5, <2>1, <2>2 DEF Undisturbed, Saving, Sends, Pending, Handled, On
<1>6. CASE SameColumns(p) /\ \A st \in Status : ~Handled(p, st)'
  <2>1. Shipping(r) => Shipping(r)'
    BY DEF Shipping, ShipmentsOf, shipmentVars, createVars
  <2>2. reserved'[p] = reserved[p] => (ShippedAll(p) => ShippedAll(p)')
    BY DEF ShippedAll, shipmentVars
  <2>3. /\ p \in olive' <=> p \in olive
        /\ orow'[p] = orow[p] /\ lines'[p] = lines[p] /\ reserved'[p] = reserved[p]
    BY <1>6 DEF SameColumns
  <2> QED BY <1>1, <1>2, <1>3, <1>4, <1>6, <2>1, <2>2, <2>3
          DEF Undisturbed, Sends, Pending, Handled, On, ShippedAll
<1> QED BY <1>5, <1>6

LEMMA HandlerOwn ==
  ASSUME Base, Base', NEW p \in Order, Single(p),
         UNCHANGED <<shipmentVars, pc, createVars, job, call>>, aborts <= aborts',
         \A st \in Status : Pending(p, st)' => Pending(p, st),
         \A g \in Handler : On(g, p)' =>
           /\ handler'[g].row.total = orow'[p].total
           /\ handler'[g].stage = "release" => orow'[p].status = handler'[g].row.status,
         \A r \in Calls(p) : call[r].kind = "shipment"
                             \/ (SameColumns(p) /\ \A st \in Status : ~Handled(p, st)')
  PROVE  Single(p)'
<1>1. Calls(p)' = Calls(p)
  BY DEF Calls, Active
<1>2. \A q, r \in Calls(p)' : q = r
  BY <1>1 DEF Single
<1>3. \A st, tt \in Status : Pending(p, st)' /\ Pending(p, tt)' => st = tt
  BY DEF Single
<1>4. aborts' \in Nat
  BY DEF Base, RowTypes
<1>5. ASSUME NEW r \in Calls(p) PROVE Undisturbed(r)'
  <2>1. Undisturbed(r)
    BY DEF Single
  <2> QED BY <1>4, <2>1, HandlerUndisturbed
<1> QED BY <1>1, <1>2, <1>3, <1>5 DEF Single

(* A handler works on its own order. *)
LEMMA HandlerLocal ==
  ASSUME Base, UNCHANGED <<shipmentVars, pc, createVars, job, call>>, NEW p \in Order,
         NEW h \in Handler, \A g \in Handler \ {h} : handler'[g] = handler[g],
         handler[h] # Resting => handler[h].order = p,
         handler'[h] # Resting => handler'[h].order = p,
         \A o \in Order \ {p}, st \in Status : events'[<<o, st>>] = events[<<o, st>>],
         \A o \in Order \ {p} : SameColumns(o)
  PROVE  \A o \in Order \ {p} : SameOrder(o)
<1> SUFFICES ASSUME NEW o \in Order, o # p PROVE SameOrder(o)
  OBVIOUS
<1>1. SameShipments(o) /\ SameCalls(o)
  BY DEF SameShipments, ShipmentsOf, SameCalls, shipmentVars, createVars
<1>2. SameHandlers(o)
  BY DEF SameHandlers, On
<1> QED BY <1>1, <1>2 DEF SameOrder

(* A handler at work: the calls on its order are those of its shipments. *)
LEMMA HandledCalls ==
  ASSUME Base, NEW p \in Order, Single(p), NEW h \in Handler, On(h, p)
  PROVE  /\ \A r \in Calls(p) : call[r].kind = "shipment"
         /\ handler[h] \in HandlerRec /\ Pending(p, handler[h].row.status)
<1>1. handler[h] \in HandlerRec /\ handler[h].row.status \in Status
  BY DEF Base, CallTypes, On, HandlerRec
<1>2. Handled(p, handler[h].row.status)
  BY DEF Handled
<1>3. \A r \in Calls(p) : call[r].kind = "shipment"
  BY <1>1, <1>2 DEF Single, Undisturbed, Calls
<1> QED BY <1>1, <1>2, <1>3 DEF Pending

(* What TakeEvent does. *)
LEMMA TakeEventDoes ==
  ASSUME Base, NEW h \in Handler, NEW p \in Order, NEW st \in Status, TakeEvent(h, p, st)
  PROVE  /\ handler[h] = Resting /\ events[<<p, st>>] > 0
         /\ \A x \in Status : events'[<<p, x>>] > 0 => events[<<p, x>>] > 0
         /\ \A x \in Status \ {st} : events'[<<p, x>>] = events[<<p, x>>]
         /\ \A o \in Order \ {p}, x \in Status : events'[<<o, x>>] = events[<<o, x>>]
         /\ UNCHANGED <<shipmentVars, pc, createVars, job, aborts, olive, orow, lines, worth, reserved, call>>
         /\ \A o \in Order : SameColumns(o)
         /\ overlapped \subseteq overlapped'
         /\ \A o \in Order \ {p} : SameOrder(o)
         /\ \/ ~(p \in olive /\ orow[p].status # st) /\ handler' = handler
            \/ /\ p \in olive /\ orow[p].status # st /\ handler'[h] # Resting
               /\ handler'[h].order = p /\ handler'[h].row.status = st
               /\ handler'[h].row.total = orow[p].total /\ handler'[h].stage = "save"
               /\ \A g \in Handler \ {h} : handler'[g] = handler[g]
<1> DEFINE d == [order |-> p, row |-> [orow[p] EXCEPT !.status = st], stage |-> "save"]
<1>1. handler[h] = Resting /\ events[<<p, st>>] > 0
  BY DEF TakeEvent
<1>2. /\ events \in [Order \X Status -> Nat] /\ events' = [events EXCEPT ![<<p, st>>] = @ - 1]
      /\ events[<<p, st>>] \in Nat /\ orow[p] \in OrderRow
  BY DEF TakeEvent, Base, RowTypes
<1>3. \A e \in Order \X Status : e # <<p, st>> => events'[e] = events[e]
  BY <1>2
<1>4. /\ \A x \in Status : events'[<<p, x>>] > 0 => events[<<p, x>>] > 0
      /\ \A x \in Status \ {st} : events'[<<p, x>>] = events[<<p, x>>]
      /\ \A o \in Order \ {p}, x \in Status : events'[<<o, x>>] = events[<<o, x>>]
  BY <1>1, <1>3
<1>5. UNCHANGED <<shipmentVars, pc, createVars, job, aborts, olive, orow, lines, worth, reserved, call>>
  BY DEF TakeEvent, jobVars, rowVars, itemVars
<1>6. overlapped \subseteq overlapped'
  BY DEF TakeEvent, Touch
<1>7. d # Resting /\ d.order = p /\ d.row.status = st /\ d.row.total = orow[p].total /\ d.stage = "save"
  BY <1>2 DEF Resting, OrderRow
<1>8. \/ ~(p \in olive /\ orow[p].status # st) /\ handler' = handler
      \/ p \in olive /\ orow[p].status # st /\ handler' = [handler EXCEPT ![h] = d]
  BY DEF TakeEvent
<1> HIDE DEF d
<1>9. \/ ~(p \in olive /\ orow[p].status # st) /\ handler' = handler
      \/ /\ p \in olive /\ orow[p].status # st /\ handler'[h] = d
         /\ \A g \in Handler \ {h} : handler'[g] = handler[g]
  BY <1>8 DEF Base, CallTypes
<1>10. \A o \in Order : SameColumns(o)
  BY <1>5 DEF SameColumns
<1>11. \A o \in Order \ {p} : SameOrder(o)
  BY <1>1, <1>4, <1>5, <1>7, <1>9, <1>10, HandlerLocal
<1> QED BY <1>1, <1>4, <1>5, <1>6, <1>7, <1>9, <1>10, <1>11

(* The event a handler takes up comes from a change of one shipment only. *)
LEMMA TakenCalls ==
  ASSUME Base, NEW p \in Order, Single(p), NEW st \in Status, Pending(p, st), orow[p].status # st
  PROVE  \A r \in Calls(p) : call[r].kind = "shipment"
<1> SUFFICES ASSUME NEW r \in Calls(p), call[r].kind # "shipment" PROVE FALSE
  OBVIOUS
<1>1. /\ r \in Request /\ call[r] \in CallRec /\ call[r].order = p /\ Shape(call[r])
      /\ Undisturbed(r)
  BY ActiveCalls DEF Base, Calls, Single
<1>2. st = call[r].target /\ call[r].stage = "wait" /\ call[r].kind # "delete"
  BY <1>1 DEF Undisturbed
<1>3. call[r].kind \in Saving
  BY <1>1, <1>2 DEF CallRec, Saving
<1> QED BY <1>1, <1>2, <1>3 DEF Undisturbed, Shape

LEMMA TakeEventSingle ==
  ASSUME OrdersAssumption, Base, Base', SingleInv, NEW h \in Handler, NEW p \in Order,
         NEW st \in Status, TakeEvent(h, p, st)
  PROVE  SingleInv'
<1>1. /\ handler[h] = Resting /\ events[<<p, st>>] > 0
      /\ \A x \in Status : events'[<<p, x>>] > 0 => events[<<p, x>>] > 0
      /\ UNCHANGED <<shipmentVars, pc, createVars, job, aborts, orow, call>>
      /\ SameColumns(p)
      /\ overlapped \subseteq overlapped'
      /\ \A o \in Order \ {p} : SameOrder(o)
      /\ \/ handler' = handler
         \/ /\ orow[p].status # st /\ handler'[h].row.status = st
            /\ handler'[h].row.total = orow[p].total /\ handler'[h].stage = "save"
            /\ \A g \in Handler \ {h} : handler'[g] = handler[g]
  BY TakeEventDoes
<1>2. aborts <= aborts'
  BY <1>1 DEF Base, RowTypes
<1>3. ASSUME p \notin overlapped' PROVE Single(p)'
  <2>1. Single(p)
    BY <1>1, <1>3 DEF SingleInv
  <2>2. \A x \in Status : Handled(p, x)' => Handled(p, x) \/ x = st
    BY <1>1 DEF Handled, On
  <2>3. \A x \in Status : Pending(p, x)' => Pending(p, x)
    BY <1>1, <2>2 DEF Pending
  <2>4. \A g \in Handler : On(g, p)' =>
           /\ handler'[g].row.total = orow'[p].total
           /\ handler'[g].stage = "release" => orow'[p].status = handler'[g].row.status
    BY <1>1, <2>1 DEF Single, On
  <2>5. CASE handler' = handler
    <3>1. \A x \in Status : Handled(p, x)' <=> Handled(p, x)
      BY <2>5 DEF Handled, On
    <3>2. \A r \in Calls(p) : call[r].kind = "shipment"
                             \/ (SameColumns(p) /\ \A x \in Status : ~Handled(p, x)')
      BY <1>1, <2>1, <3>1 DEF Single, Undisturbed, Calls
    <3> QED BY <1>1, <1>2, <2>1, <2>3, <2>4, <3>2, HandlerOwn
  <2>6. CASE orow[p].status # st
    <3>1. \A r \in Calls(p) : call[r].kind = "shipment"
      BY <1>1, <2>1, <2>6, TakenCalls DEF Pending
    <3> QED BY <1>1, <1>2, <2>1, <2>3, <2>4, <3>1, HandlerOwn
  <2> QED BY <1>1, <2>5, <2>6
<1> QED BY <1>1, <1>2, <1>3, SingleFrom

(* What the other steps of a handler do. *)
LEMMA SaveHandledDoes ==
  ASSUME Base, NEW h \in Handler, SaveHandled(h)
  PROVE  LET c == handler[h]
             p == c.order
         IN
         /\ p \in Order /\ c \in HandlerRec /\ On(h, p)
         /\ orow'[p] = c.row /\ p \in olive'
         /\ \/ handler'[h] = [c EXCEPT !.stage = "release"] /\ c.row.status \in Closing
            \/ handler'[h] = Resting
         /\ \A g \in Handler \ {h} : handler'[g] = handler[g]
         /\ UNCHANGED <<shipmentVars, pc, createVars, job, aborts, events, lines, worth, reserved,
                        call, overlapped>>
         /\ \A o \in Order \ {p} : SameOrder(o)
<1> DEFINE c == handler[h]
<1>1. c \in HandlerRec /\ c # Resting
  BY DEF SaveHandled, Base, CallTypes, Resting
<1>2. PICK p \in Order : p = c.order
  BY <1>1 DEF HandlerRec
<1>3. orow'[p] = c.row /\ (\A o \in Order \ {p} : orow'[o] = orow[o]) /\ olive' = olive \cup {p}
  BY <1>1, <1>2 DEF SaveHandled, Base, RowTypes
<1>4. /\ \/ handler'[h] = [c EXCEPT !.stage = "release"] /\ c.row.status \in Closing
         \/ handler'[h] = Resting
      /\ \A g \in Handler \ {h} : handler'[g] = handler[g]
  BY DEF SaveHandled, Base, CallTypes
<1>5. UNCHANGED <<shipmentVars, pc, createVars, job, aborts, events, lines, worth, reserved,
                  call, overlapped>>
  BY DEF SaveHandled, vars, jobVars, itemVars
<1>6. \A o \in Order \ {p} : SameColumns(o)
  BY <1>3, <1>5 DEF SameColumns
<1>7. [c EXCEPT !.stage = "release"].order = p
  BY <1>1, <1>2 DEF HandlerRec
<1>8. \A o \in Order \ {p} : SameOrder(o)
  BY <1>2, <1>4, <1>5, <1>6, <1>7, HandlerLocal
<1> QED BY <1>1, <1>2, <1>3, <1>4, <1>5, <1>8 DEF On

LEMMA ReleaseHandledDoes ==
  ASSUME Base, NEW h \in Handler, ReleaseHandled(h)
  PROVE  LET c == handler[h]
             p == c.order
         IN
         /\ p \in Order /\ c \in HandlerRec /\ On(h, p) /\ c.stage = "release"
         /\ handler'[h] = Resting /\ \A g \in Handler \ {h} : handler'[g] = handler[g]
         /\ UNCHANGED <<shipmentVars, pc, createVars, job, aborts, events, olive, orow, lines, worth,
                        call, overlapped>>
         /\ \A o \in Order \ {p} : SameOrder(o)
<1> DEFINE c == handler[h]
<1>1. c \in HandlerRec /\ c # Resting /\ c.stage = "release"
  BY DEF ReleaseHandled, Base, CallTypes, Resting
<1>2. PICK p \in Order : p = c.order
  BY <1>1 DEF HandlerRec
<1>3. \A o \in Order \ {p} : reserved'[o] = reserved[o]
  BY <1>2 DEF ReleaseHandled, Base, RowTypes
<1>4. handler'[h] = Resting /\ \A g \in Handler \ {h} : handler'[g] = handler[g]
  BY DEF ReleaseHandled, Base, CallTypes
<1>5. UNCHANGED <<shipmentVars, pc, createVars, job, aborts, events, olive, orow, lines, worth,
                  call, overlapped>>
  BY DEF ReleaseHandled, vars, jobVars, rowVars
<1>6. \A o \in Order \ {p} : SameColumns(o)
  BY <1>3, <1>5 DEF SameColumns
<1>8. \A o \in Order \ {p} : SameOrder(o)
  BY <1>2, <1>4, <1>5, <1>6, HandlerLocal
<1> QED BY <1>1, <1>2, <1>4, <1>5, <1>8 DEF On

LEMMA SaveHandledSingle ==
  ASSUME OrdersAssumption, Base, Base', SingleInv, NEW h \in Handler, SaveHandled(h)
  PROVE  SingleInv'
<1> DEFINE c == handler[h]
<1>0. PICK p \in Order : p = c.order
  BY SaveHandledDoes
<1>1. /\ c \in HandlerRec /\ On(h, p) /\ orow'[p] = c.row
      /\ \/ handler'[h] = [c EXCEPT !.stage = "release"]
         \/ handler'[h] = Resting
      /\ \A g \in Handler \ {h} : handler'[g] = handler[g]
      /\ UNCHANGED <<shipmentVars, pc, createVars, job, aborts, events, call, overlapped>>
      /\ \A o \in Order \ {p} : SameOrder(o)
  BY <1>0, SaveHandledDoes
<1>2. aborts <= aborts'
  BY <1>1 DEF Base, RowTypes
<1>3. ASSUME p \notin overlapped' PROVE Single(p)'
  <2>1. Single(p)
    BY <1>1, <1>3 DEF SingleInv
  <2>2. \A r \in Calls(p) : call[r].kind = "shipment"
    BY <1>1, <2>1, HandledCalls
  <2>3. \A g \in Handler : On(g, p)' => On(g, p) /\ handler'[g].row = handler[g].row
    BY <1>1 DEF On, HandlerRec
  <2>4. \A x \in Status : Pending(p, x)' => Pending(p, x)
    BY <1>1, <2>3 DEF Pending, Handled
  <2>5. ASSUME NEW g \in Handler, On(g, p)'
        PROVE  /\ handler'[g].row.total = orow'[p].total
               /\ handler'[g].stage = "release" => orow'[p].status = handler'[g].row.status
    <3>1. On(g, p) /\ handler'[g].row = handler[g].row
      BY <2>3, <2>5
    <3>2. handler[g].row.total = orow[p].total /\ c.row.total = orow[p].total
      BY <1>1, <2>1, <3>1 DEF Single
    <3>3. handler[g].row.status = c.row.status
      <4>1. /\ Pending(p, handler[g].row.status) /\ Pending(p, c.row.status)
            /\ handler[g].row.status \in Status /\ c.row.status \in Status
        BY <1>1, <2>1, <3>1, HandledCalls DEF HandlerRec
      <4> QED BY <2>1, <4>1 DEF Single
    <3> QED BY <1>1, <3>1, <3>2, <3>3
  <2> QED BY <1>1, <1>2, <2>1, <2>2, <2>4, <2>5, HandlerOwn
<1>4. overlapped \subseteq overlapped'
  BY <1>1
<1> QED BY <1>1, <1>2, <1>3, <1>4, SingleFrom

LEMMA ReleaseHandledSingle ==
  ASSUME OrdersAssumption, Base, Base', SingleInv, NEW h \in Handler, ReleaseHandled(h)
  PROVE  SingleInv'
<1> DEFINE c == handler[h]
<1>0. PICK p \in Order : p = c.order
  BY ReleaseHandledDoes
<1>1. /\ c \in HandlerRec /\ On(h, p) /\ handler'[h] = Resting
      /\ \A g \in Handler \ {h} : handler'[g] = handler[g]
      /\ UNCHANGED <<shipmentVars, pc, createVars, job, aborts, events, orow, call, overlapped>>
      /\ \A o \in Order \ {p} : SameOrder(o)
  BY <1>0, ReleaseHandledDoes
<1>2. aborts <= aborts'
  BY <1>1 DEF Base, RowTypes
<1>3. ASSUME p \notin overlapped' PROVE Single(p)'
  <2>1. Single(p)
    BY <1>1, <1>3 DEF SingleInv
  <2>2. \A r \in Calls(p) : call[r].kind = "shipment"
    BY <1>1, <2>1, HandledCalls
  <2>3. \A g \in Handler : On(g, p)' => On(g, p) /\ handler'[g] = handler[g]
    BY <1>1 DEF On
  <2>4. \A x \in Status : Pending(p, x)' => Pending(p, x)
    BY <1>1, <2>3 DEF Pending, Handled
  <2>5. \A g \in Handler : On(g, p)' =>
           /\ handler'[g].row.total = orow'[p].total
           /\ handler'[g].stage = "release" => orow'[p].status = handler'[g].row.status
    BY <1>1, <2>1, <2>3 DEF Single
  <2> QED BY <1>1, <1>2, <2>1, <2>2, <2>4, <2>5, HandlerOwn
<1>4. overlapped \subseteq overlapped'
  BY <1>1
<1> QED BY <1>1, <1>2, <1>3, <1>4, SingleFrom

LEMMA LoseHandlersSingle ==
  ASSUME OrdersAssumption, Base, Base', SingleInv, LoseHandlers
  PROVE  SingleInv'
<1>1. /\ \A h \in Handler : handler'[h] = Resting
      /\ UNCHANGED <<shipmentVars, pc, createVars, job, olive, orow, lines, worth, reserved, call,
                     overlapped>>
      /\ aborts <= aborts'
  BY DEF LoseHandlers, jobVars, rowVars, itemVars, Base, RowTypes
<1> SUFFICES ASSUME NEW p \in Order, p \notin overlapped' PROVE Single(p)'
  BY DEF SingleInv
<1>2. Single(p)
  BY <1>1 DEF SingleInv
<1>3. \A h \in Handler : ~On(h, p)'
  BY <1>1 DEF On
<1>4. \A st \in Status : ~Handled(p, st)' /\ ~Pending(p, st)'
  BY <1>3 DEF Handled, Pending, LoseHandlers
<1>5. SameColumns(p)
  BY <1>1 DEF SameColumns
<1> QED BY <1>1, <1>2, <1>3, <1>4, <1>5, HandlerOwn

LEMMA SingleInit == ASSUME OrdersAssumption, OrdersInit PROVE SingleInv
<1>1. Active = {}
  BY DEF OrdersInit, Active, NoCall, Ended
<1>2. (\A h \in Handler : handler[h] = Resting) /\ \A o \in Order, st \in Status : events[<<o, st>>] = 0
  BY DEF OrdersInit, Init
<1>3. ASSUME NEW o \in Order, NEW st \in Status PROVE ~Pending(o, st)
  <2>1. events[<<o, st>>] = 0
    BY <1>2
  <2> QED BY <1>2, <2>1 DEF Pending, Handled, On
<1> QED BY <1>1, <1>2, <1>3 DEF SingleInv, Single, Calls, On

LEMMA NextSingle ==
  ASSUME OrdersAssumption, Base, Base', SingleInv, LinesFit, [OrdersNext]_allVars PROVE SingleInv'
<1>1. ASSUME NEW r \in Request, OpenCall(r) PROVE SingleInv'
  BY <1>1, UpdateSingle, CreateSingle, CancelSingle, DeleteOrderSingle, ChangeShipmentSingle
     DEF OpenCall
<1>2. ASSUME NEW r \in Request, CallStep(r) PROVE SingleInv'
  BY <1>2, SaveOrderSingle, ReadItemsSingle, LineSingle, SaveReservationSingle,
     RemoveLinesSingle, RereadSingle, ReleaseSingle, ShipSingle, ShipmentStepSingle,
     EndCallSingle DEF CallStep, AtLine, Rereads
<1>3. ASSUME NEW h \in Handler, HandlerStep(h) PROVE SingleInv'
  BY <1>3, TakeEventSingle, SaveHandledSingle, ReleaseHandledSingle DEF HandlerStep
<1>4. CASE UNCHANGED allVars
  BY <1>4, StockSingle DEF allVars, StockOnly, vars, shipmentVars, jobVars
<1> QED BY <1>1, <1>2, <1>3, <1>4, AbortSingle, LoseHandlersSingle DEF OrdersNext

(* No step leaves a reservation without its item. *)
LEMMA LinesFitKept ==
  ASSUME Base, LinesFit, NEW o \in Order, NEW f \in Amounts, NEW L \in SUBSET Line,
         lines' = [lines EXCEPT ![o] = L], reserved' = [reserved EXCEPT ![o] = f],
         \A l \in Line \ L : f[l] = Nothing[l]
  PROVE  LinesFit'
<1> SUFFICES ASSUME NEW p \in Order, NEW l \in Line \ lines'[p] PROVE reserved'[p][l] = Nothing[l]
  BY DEF LinesFit
<1>1. CASE p = o
  BY <1>1 DEF Base, RowTypes
<1>2. CASE p # o
  BY <1>2 DEF Base, RowTypes, LinesFit
<1> QED BY <1>1, <1>2

LEMMA LinesFitStep ==
  ASSUME Base, LinesFit, [OrdersNext]_allVars PROVE LinesFit'
<1>1. CASE UNCHANGED <<lines, reserved>>
  BY <1>1 DEF LinesFit
<1>2. lines \in [Order -> SUBSET Line] /\ reserved \in [Order -> Amounts] /\ Nothing \in Amounts
  BY NothingTyped DEF Base, RowTypes
<1>3. ASSUME NEW r \in Request, call[r].stage # "new"
      PROVE  call[r] \in CallRec /\ call[r].order \in Order
  BY <1>3, StageTypes DEF Base, CallRec
<1>4. ASSUME NEW r \in Request, NEW l \in Line, AtLine(r, l) PROVE LinesFit'
  <2>1. call[r].order \in Order
    BY <1>4, LineCall
  <2> DEFINE o == call[r].order
  <2>2. /\ lines' \in {lines, [lines EXCEPT ![o] = @ \cup {l}]}
        /\ reserved' \in {reserved, [reserved EXCEPT ![o] = [reserved[o] EXCEPT ![l] = Nothing[l]]]}
    BY <1>4, <2>1, LineRows
  <2>3. \A p \in Order : lines[p] \subseteq lines'[p]
    BY <1>2, <2>1, <2>2
  <2>4. ASSUME NEW p \in Order, NEW x \in Line
        PROVE  reserved'[p][x] \in {reserved[p][x], Nothing[x]}
    <3>1. CASE reserved' = reserved
      BY <3>1
    <3>2. CASE reserved' = [reserved EXCEPT ![o] = [reserved[o] EXCEPT ![l] = Nothing[l]]]
      <4> DEFINE f == [reserved[o] EXCEPT ![l] = Nothing[l]]
      <4>1. f[x] \in {reserved[o][x], Nothing[x]}
        BY <1>2, <2>1 DEF Amounts
      <4>2. reserved'[p] = IF p = o THEN f ELSE reserved[p]
        BY <1>2, <2>1, <3>2
      <4> QED BY <4>1, <4>2
    <3> QED BY <2>2, <3>1, <3>2
  <2> QED BY <1>2, <2>3, <2>4 DEF LinesFit
<1>5. ASSUME NEW r \in Request, NEW l \in Line, NEW w \in Warehouse, SaveReservation(r, l, w)
      PROVE  LinesFit'
  <2> DEFINE o == call[r].order
             n == reserved[o][l][w] + call[r].dto.reservations[l][w]
  <2>1. o \in Order
    BY <1>3, <1>5 DEF SaveReservation, At
  <2>2. CASE l \notin lines[o]
    BY <1>1, <1>5, <2>2 DEF SaveReservation
  <2>3. CASE l \in lines[o]
    <3>1. reserved' = [reserved EXCEPT ![o] = [reserved[o] EXCEPT ![l] = [reserved[o][l] EXCEPT ![w] = n]]]
          /\ lines' = lines
      BY <1>2, <1>5, <2>1, <2>3 DEF SaveReservation, Amounts
    <3> HIDE DEF n
    <3>2. \A p \in Order, x \in Line : p # o \/ x # l => reserved'[p][x] = reserved[p][x]
      BY <1>2, <2>1, <3>1 DEF Amounts
    <3> QED BY <2>3, <3>1, <3>2 DEF LinesFit
  <2> QED BY <2>2, <2>3
<1>6. ASSUME NEW r \in Request, RemoveLines(r) PROVE LinesFit'
  <2> DEFINE o == call[r].order
             gone == call[r].known \ call[r].dto.lines
             f == [l \in Line |-> IF l \in gone THEN Nothing[l] ELSE reserved[o][l]]
  <2>1. o \in Order
    BY <1>3, <1>6 DEF RemoveLines, At
  <2>2. lines' = [lines EXCEPT ![o] = lines[o] \ gone] /\ reserved' = [reserved EXCEPT ![o] = f]
    BY <1>2, <1>6, <2>1 DEF RemoveLines
  <2>3. f \in Amounts
    BY <1>2, <2>1 DEF Amounts
  <2>4. \A l \in Line \ (lines[o] \ gone) : f[l] = Nothing[l]
    BY <2>1 DEF LinesFit
  <2>5. lines[o] \ gone \in SUBSET Line
    BY <1>2, <2>1
  <2> HIDE DEF f, gone
  <2> QED BY <2>1, <2>2, <2>3, <2>4, <2>5, LinesFitKept
<1>7. ASSUME NEW o \in Order, reserved' = [reserved EXCEPT ![o] = Nothing], lines' = lines
      PROVE  LinesFit'
  BY <1>2, <1>7 DEF LinesFit
<1>8. ASSUME NEW r \in Request, Release(r) PROVE LinesFit'
  <2>1. call[r].order \in Order
    BY <1>3, <1>8 DEF Release, At
  <2> QED BY <1>7, <1>8, <2>1 DEF Release
<1>9. ASSUME NEW h \in Handler, ReleaseHandled(h) PROVE LinesFit'
  <2>1. handler[h].order \in Order
    BY <1>9 DEF ReleaseHandled, Resting, Base, CallTypes, HandlerRec
  <2> QED BY <1>7, <1>9, <2>1 DEF ReleaseHandled
<1>10. ASSUME NEW r \in Request, EndCall(r) PROVE LinesFit'
  <2>1. PICK gone \in SUBSET {call[r].order} :
          /\ lines' = [o \in Order |-> IF o \in gone THEN {} ELSE lines[o]]
          /\ reserved' = [o \in Order |-> IF o \in gone THEN Nothing ELSE reserved[o]]
    BY <1>10 DEF EndCall
  <2> QED BY <2>1 DEF LinesFit
<1>11. ASSUME NEW r \in Request, CallStep(r) PROVE LinesFit'
  <2>1. CASE SaveOrder(r) \/ ReadItems(r) \/ Ship(r) \/ ShipmentStep(r)
    BY <1>1, <2>1 DEF SaveOrder, ReadItems, Ship, ShipmentStep, itemVars, orderVars
  <2>2. CASE Rereads(r)
    BY <1>1, <2>2, RereadTyped
  <2> QED BY <1>4, <1>5, <1>6, <1>8, <1>10, <1>11, <2>1, <2>2 DEF CallStep, AtLine, Rereads
<1>12. ASSUME NEW r \in Request, OpenCall(r) \/ AbortCall(r) PROVE LinesFit'
  BY <1>1, <1>12 DEF OpenCall, Update, Create, Cancel, DeleteOrder, ChangeShipment, Open, AbortCall, itemVars
<1>13. ASSUME NEW h \in Handler, HandlerStep(h) PROVE LinesFit'
  BY <1>1, <1>9, <1>13 DEF HandlerStep, TakeEvent, SaveHandled, itemVars
<1>14. CASE LoseHandlers \/ UNCHANGED allVars
  BY <1>1, <1>14 DEF LoseHandlers, allVars, orderVars, itemVars
<1> QED BY <1>11, <1>12, <1>13, <1>14 DEF OrdersNext

LEMMA SingleHolds == OrdersSpec => [](Base /\ SingleInv)
<1>1. Base /\ SingleInv /\ LinesFit /\ [OrdersNext]_allVars => (Base /\ SingleInv /\ LinesFit)'
  BY OrdersAssumption, NextBase, NextSingle, LinesFitStep
<1>2. OrdersInit => Base /\ SingleInv /\ LinesFit
  BY OrdersAssumption, BaseInit, SingleInit DEF OrdersInit, LinesFit
<1> QED BY <1>1, <1>2, PTL DEF OrdersSpec
------------------------------------------------------------------------------
(* What makes a call fail. *)
LEMMA FailedFrom ==
  ASSUME Base, Base', Failed, NEW r \in Request, \A q \in Request \ {r} : call'[q] = call[q],
         aborts <= aborts', overlapped \subseteq overlapped',
         call'[r].stage = "failed" =>
           aborts' > 0 \/ call'[r].order \in overlapped' \/ call'[r].dto.omitted # {}
  PROVE  Failed'
<1>1. aborts > 0 => aborts' > 0
  BY DEF Base, RowTypes
<1> SUFFICES ASSUME NEW q \in Request, q # r, call'[q].stage = "failed"
             PROVE  aborts' > 0 \/ call'[q].order \in overlapped' \/ call'[q].dto.omitted # {}
  BY DEF Failed
<1> QED BY <1>1 DEF Failed

LEMMA FailedSame ==
  ASSUME Base, Base', Failed, call' = call, aborts <= aborts', overlapped \subseteq overlapped'
  PROVE  Failed'
<1>1. aborts > 0 => aborts' > 0
  BY DEF Base, RowTypes
<1> QED BY <1>1 DEF Failed

LEMMA OpenFailed ==
  ASSUME Base, Base', Failed, NEW r \in Request, OpenCall(r)
  PROVE  Failed'
<1>1. call'[r].stage \in {"save", "release", "wait"}
  BY DEF OpenCall, Update, Create, Cancel, DeleteOrder, ChangeShipment, Open, Call, Base, CallTypes
<1>2. \A q \in Request \ {r} : call'[q] = call[q]
  BY DEF OpenCall, Update, Create, Cancel, DeleteOrder, ChangeShipment, Open, Base, CallTypes
<1>3. aborts' = aborts /\ overlapped \subseteq overlapped'
  <2>1. ASSUME NEW c, Open(r, c) PROVE aborts' = aborts /\ overlapped \subseteq overlapped'
    BY <2>1 DEF Open, Touch, vars
  <2>2. ASSUME NEW s, NEW t, NEW ret, ChangeShipment(r, s, t, ret)
        PROVE  aborts' = aborts /\ overlapped \subseteq overlapped'
    BY <2>2 DEF ChangeShipment, ChangeStatus, Touch
  <2> QED BY <2>1, <2>2 DEF OpenCall, Update, Create, Cancel, DeleteOrder
<1>4. aborts <= aborts'
  BY <1>3 DEF Base, RowTypes
<1> QED BY <1>1, <1>2, <1>3, <1>4, FailedFrom

(* An undisturbed call that writes the order finds its row. *)
LEMMA LineFailed ==
  ASSUME Base, Base', SingleInv, Failed, NEW r \in Request, NEW l \in Line, AtLine(r, l)
  PROVE  Failed'
<1> DEFINE c == call[r]
<1>1. /\ c \in CallRec /\ c.stage = "items" /\ c.order \in Order
      /\ call'[r].order = c.order /\ call'[r].dto = c.dto
      /\ \A q \in Request \ {r} : call'[q] = call[q]
      /\ \/ call'[r].stage = "failed" /\ (c.order \notin olive \/ Breaks(c, l))
         \/ call'[r].stage = "items"
  BY LineCall
<1>2. Shape(c) /\ (c.order \notin overlapped => Undisturbed(r))
  BY <1>1, CallActs DEF SingleInv, Ended
<1>3. overlapped' = overlapped /\ aborts' = aborts
  BY <1>1, LineRows
<1>4. c.order \notin olive => c.order \in overlapped
  BY <1>1, <1>2 DEF Undisturbed, Shape, CallRec, Saving
<1>5. Breaks(c, l) => c.dto.omitted # {}
  BY DEF Breaks
<1>6. aborts <= aborts'
  BY <1>3 DEF Base, RowTypes
<1> QED BY <1>1, <1>3, <1>4, <1>5, <1>6, FailedFrom

LEMMA ReservationFailed ==
  ASSUME Base, Base', SingleInv, Failed, NEW r \in Request, NEW l \in Line, NEW w \in Warehouse,
         SaveReservation(r, l, w)
  PROVE  Failed'
<1> DEFINE c == call[r]
           d == [c EXCEPT !.fill = @ \ {<<l, w>>}]
<1>1. c.stage = "items" /\ c.stage \notin Ended /\ <<l, w>> \in c.fill
  BY DEF SaveReservation, At, Ended
<1>2. c \in CallRec /\ c # NoCall /\ c.order \in Order /\ Shape(c)
      /\ (c.order \notin overlapped => Undisturbed(r))
  BY <1>1, CallActs DEF SingleInv
<1>3. \/ Fail(r) /\ l \notin lines[c.order]
      \/ call' = [call EXCEPT ![r] = d]
  BY <1>2 DEF SaveReservation, Base, CallTypes
<1>4. overlapped' = overlapped /\ aborts' = aborts
  BY DEF SaveReservation, vars
<1>5. aborts <= aborts'
  BY <1>4 DEF Base, RowTypes
<1>6. CASE Fail(r) /\ l \notin lines[c.order]
  <2>1. call'[r] = [c EXCEPT !.stage = "failed"] /\ \A q \in Request \ {r} : call'[q] = call[q]
    BY <1>2, <1>6, GotoTyped DEF Fail, CallStage
  <2>2. call'[r].order = c.order
    BY <1>2, <2>1 DEF CallRec
  <2>3. c.order \in overlapped
    BY <1>1, <1>2, <1>6 DEF Undisturbed
  <2> QED BY <1>4, <1>5, <2>1, <2>2, <2>3, FailedFrom
<1>7. CASE call' = [call EXCEPT ![r] = d]
  <2>1. d \in CallRec /\ d.stage = "items"
    BY <1>1, <1>2 DEF CallRec
  <2> HIDE DEF d
  <2>2. call'[r].stage # "failed" /\ \A q \in Request \ {r} : call'[q] = call[q]
    BY <1>7, <2>1 DEF Base, CallTypes
  <2> QED BY <1>4, <1>5, <2>2, FailedFrom
<1> QED BY <1>3, <1>6, <1>7

LEMMA EndFailed ==
  ASSUME Base, Base', SingleInv, Failed, NEW r \in Request, EndCall(r)
  PROVE  Failed'
<1> DEFINE c == call[r]
<1>1. /\ c \in CallRec /\ c.stage = "wait" /\ c.order \in Order /\ r \in Calls(c.order)
      /\ call'[r] = [c EXCEPT !.stage = pc[r]] /\ \A q \in Request \ {r} : call'[q] = call[q]
      /\ UNCHANGED <<aborts, overlapped>>
  BY EndCallDoes
<1>2. call'[r].stage = pc[r] /\ call'[r].order = c.order
  BY <1>1 DEF CallRec
<1>3. pc[r] = "failed" => aborts > 0 \/ c.order \in overlapped
  BY <1>1 DEF SingleInv, Single, Undisturbed
<1>4. aborts <= aborts'
  BY <1>1 DEF Base, RowTypes
<1> QED BY <1>1, <1>2, <1>3, <1>4, FailedFrom

LEMMA CallFailed ==
  ASSUME Base, Base', SingleInv, Failed, NEW r \in Request, CallStep(r)
  PROVE  Failed'
<1>1. ASSUME \/ SaveOrder(r) \/ ReadItems(r) \/ RemoveLines(r) \/ Rereads(r)
             \/ Release(r) \/ Ship(r)
      PROVE  Failed'
  <2>1. call[r].stage \notin Ended
    BY <1>1 DEF SaveOrder, ReadItems, RemoveLines, Rereads, RereadItems, FetchReservations, Release, Ship,
       At, Ended
  <2>2. call[r] \in CallRec
    BY <2>1, CallActs
  <2>3. call'[r].stage # "failed" /\ \A q \in Request \ {r} : call'[q] = call[q]
    <3>1. ASSUME NEW st \in {"release", "read", "reread", "ship", "wait"}, Goto(r, st)
          PROVE  call'[r].stage = st /\ \A q \in Request \ {r} : call'[q] = call[q]
      BY <2>2, <3>1 DEF Goto, CallRec, Base, CallTypes
    <3>2. CASE SaveOrder(r) \/ RemoveLines(r) \/ Release(r) \/ Ship(r)
      BY <3>1, <3>2 DEF SaveOrder, RemoveLines, Release, Ship
    <3>3. CASE ReadItems(r)
      BY <2>2, <3>3 DEF ReadItems, CallRec, Base, CallTypes
    <3>4. CASE Rereads(r)
      BY <3>4, RereadTyped, RereadCall
    <3> QED BY <1>1, <3>2, <3>3, <3>4
  <2>4. overlapped' = overlapped /\ aborts' = aborts
    <3>1. CASE SaveOrder(r) \/ ReadItems(r) \/ RemoveLines(r) \/ Rereads(r) \/ Release(r)
      BY <3>1 DEF SaveOrder, ReadItems, RemoveLines, Rereads, RereadItems, FetchReservations, Release, vars
    <3>2. CASE Ship(r)
      BY <3>2 DEF Ship, Delete, CreateForOrder, ProcessOrder
    <3> QED BY <1>1, <3>1, <3>2
  <2>5. aborts <= aborts'
    BY <2>4 DEF Base, RowTypes
  <2> QED BY <2>3, <2>4, <2>5, FailedFrom
<1>2. ASSUME ShipmentStep(r) PROVE Failed'
  <2>1. UNCHANGED orderVars
    BY <1>2, ShipmentStepCases
  <2>2. aborts' = aborts
    BY <1>2, ShipmentStepCases DEF StockOnly, SaveShipment, CreateShipment, CreateItem, DeleteRows, Return
  <2>3. call' = call /\ overlapped' = overlapped /\ aborts <= aborts'
    BY <2>1, <2>2 DEF orderVars, callVars, Base, RowTypes
  <2> QED BY <2>3, FailedSame
<1> QED BY <1>1, <1>2, LineFailed, ReservationFailed, EndFailed DEF CallStep, AtLine, Rereads

LEMMA AbortFailed ==
  ASSUME Base, Base', Failed, NEW r \in Request, AbortCall(r)
  PROVE  Failed'
<1>1. aborts' > 0 /\ aborts <= aborts' /\ overlapped' = overlapped
  BY DEF AbortCall, Abort, Base, RowTypes
<1>2. \A q \in Request \ {r} : call'[q] = call[q]
  BY DEF AbortCall, Fail, Goto, Base, CallTypes
<1> QED BY <1>1, <1>2, FailedFrom

LEMMA NextFailed ==
  ASSUME Base, Base', SingleInv, Failed, [OrdersNext]_allVars PROVE Failed'
<1>1. ASSUME NEW h \in Handler, HandlerStep(h) PROVE Failed'
  <2>1. call' = call /\ overlapped \subseteq overlapped' /\ aborts' = aborts
    BY <1>1 DEF HandlerStep, TakeEvent, SaveHandled, ReleaseHandled, Touch, vars
  <2>2. aborts <= aborts'
    BY <2>1 DEF Base, RowTypes
  <2> QED BY <2>1, <2>2, FailedSame
<1>2. CASE LoseHandlers
  <2>1. call' = call /\ overlapped' = overlapped /\ aborts <= aborts'
    BY <1>2 DEF LoseHandlers, Base, RowTypes
  <2> QED BY <2>1, FailedSame
<1>3. CASE UNCHANGED allVars
  <2>1. call' = call /\ overlapped' = overlapped /\ aborts <= aborts'
    BY <1>3 DEF allVars, orderVars, callVars, vars, Base, RowTypes
  <2> QED BY <2>1, FailedSame
<1> QED BY <1>1, <1>2, <1>3, OpenFailed, CallFailed, AbortFailed DEF OrdersNext

(* However the calls, the steps at their shipments, the handlers and the     *)
(* aborts interleave, a call on an order nothing else touches fails only     *)
(* when something is lost, or when its body leaves out the reservations of   *)
(* an item the order has (OrderItemService.updateItems,                      *)
(* ReservationService.create).                                               *)
THEOREM NoCallFailsCorrect == OrdersSpec => []NoCallFails
<1>1. OrdersInit => Failed
  BY DEF OrdersInit, Failed, NoCall
<1>2. Base /\ Base' /\ SingleInv /\ Failed /\ [OrdersNext]_allVars => Failed'
  BY NextFailed
<1>3. Failed => NoCallFails
  BY DEF Failed, NoCallFails
<1> QED BY <1>1, <1>2, <1>3, SingleHolds, PTL DEF OrdersSpec
------------------------------------------------------------------------------
(* How a call ends. *)
LEMMA EndsByAnswer ==
  ASSUME Base, NEW r \in Request, [OrdersNext]_allVars, Ends(r), call[r].process
  PROVE  EndCall(r) /\ pc[r] = "done"
<1>1. call[r].stage # "done" /\ call'[r].stage = "done" /\ call[r].stage \notin Ended
  BY DEF Ends, Ended
<1>2. call[r] \in CallRec
  BY <1>1, CallActs
<1>3. ASSUME NEW q \in Request, OpenCall(q) PROVE q = r /\ FALSE
  <2>1. q # r => call'[r] = call[r]
    BY <1>3 DEF OpenCall, Update, Create, Cancel, DeleteOrder, ChangeShipment, Open, Base, CallTypes
  <2>2. call[q].stage = "new"
    BY <1>3 DEF OpenCall, Update, Create, Cancel, DeleteOrder, ChangeShipment, Open, At
  <2> QED BY <1>1, <2>1, <2>2 DEF Ended
<1>4. ASSUME NEW q \in Request, CallStep(q), q # r PROVE FALSE
  <2>1. ASSUME NEW st, Goto(q, st) PROVE call'[r] = call[r]
    BY <1>4, <2>1 DEF Goto, Base, CallTypes
  <2>2. CASE SaveOrder(q) \/ ReadItems(q) \/ RemoveLines(q) \/ Rereads(q) \/ Release(q) \/ Ship(q)
             \/ EndCall(q)
    BY <1>1, <1>4, <2>1, <2>2 DEF SaveOrder, ReadItems, RemoveLines, Rereads, RereadItems, FetchReservations,
       Release, Ship, EndCall, Base, CallTypes
  <2>3. CASE \E l \in Line : AtLine(q, l) \/ \E w \in Warehouse : SaveReservation(q, l, w)
    <3>1. call'[r] = call[r]
      BY <1>4, <2>1, <2>3 DEF AtLine, SaveLine, DropReservations, SaveReservation, Fail, Base, CallTypes
    <3> QED BY <1>1, <3>1
  <2>4. CASE ShipmentStep(q)
    BY <1>1, <2>4 DEF ShipmentStep, orderVars, callVars
  <2> QED BY <1>4, <2>2, <2>3, <2>4 DEF CallStep, AtLine, Rereads
<1>5. CASE CallStep(r)
  <2>1. ASSUME NEW st, Goto(r, st) PROVE call'[r].stage = st
    BY <1>2, <2>1 DEF Goto, CallRec, Base, CallTypes
  <2>2. CASE SaveOrder(r) \/ RemoveLines(r) \/ Release(r) \/ Ship(r)
    BY <1>1, <2>1, <2>2 DEF SaveOrder, RemoveLines, Release, Ship
  <2>3. CASE ReadItems(r)
    BY <1>1, <1>2, <2>3 DEF ReadItems, CallRec, Base, CallTypes
  <2>4. CASE Rereads(r)
    BY <1>1, <2>4, RereadCall
  <2>5. CASE \E l \in Line : AtLine(r, l) \/ \E w \in Warehouse : SaveReservation(r, l, w)
    <3>1. ASSUME NEW l \in Line, AtLine(r, l) PROVE call'[r].stage \in {"items", "failed"}
      BY <3>1, LineCall
    <3>2. ASSUME NEW l \in Line, NEW w \in Warehouse, SaveReservation(r, l, w)
          PROVE  call'[r].stage \in {"items", "failed"}
      BY <1>2, <2>1, <3>2 DEF SaveReservation, Fail, At, CallRec, Base, CallTypes
    <3> QED BY <1>1, <2>5, <3>1, <3>2
  <2>6. CASE ShipmentStep(r)
    BY <1>1, <2>6 DEF ShipmentStep, orderVars, callVars
  <2>7. EndCall(r)
    BY <1>5, <2>2, <2>3, <2>4, <2>5, <2>6 DEF CallStep, AtLine, Rereads
  <2>8. call'[r].stage = pc[r]
    BY <2>1, <2>7 DEF EndCall
  <2> QED BY <1>1, <2>7, <2>8
<1>6. ASSUME NEW q \in Request, AbortCall(q) PROVE FALSE
  <2>1. CASE UNCHANGED call
    BY <1>1, <2>1
  <2>2. CASE Fail(q)
    <3>1. q # r => call'[r] = call[r]
      BY <2>2 DEF Fail, Goto, Base, CallTypes
    <3>2. q = r => call'[r].stage = "failed"
      BY <1>2, <2>2 DEF Fail, Goto, CallRec, Base, CallTypes
    <3> QED BY <1>1, <3>1, <3>2
  <2> QED BY <1>6, <2>1, <2>2 DEF AbortCall
<1>7. ASSUME \/ \E h \in Handler : HandlerStep(h)
             \/ LoseHandlers
             \/ UNCHANGED allVars
      PROVE  FALSE
  BY <1>1, <1>7 DEF HandlerStep, TakeEvent, SaveHandled, ReleaseHandled, LoseHandlers, allVars, orderVars,
     callVars
<1> QED BY <1>3, <1>4, <1>5, <1>6, <1>7 DEF OrdersNext

(* What the last step of an undisturbed call leaves of its order. *)
LEMMA EndsQuietly ==
  ASSUME Base, SingleInv, [OrdersNext]_allVars, NEW r \in Request, Ends(r),
         call[r].kind # "shipment", call[r].process, call[r].target \in Status,
         call[r].order \notin overlapped
  PROVE  /\ call[r].kind \in Saving /\ call[r].stage = "wait" /\ pc[r] = "done" /\ Undisturbed(r)
         /\ call[r].order \in Order /\ SameColumns(call[r].order) /\ SameShipments(call[r].order)
<1>1. EndCall(r) /\ pc[r] = "done"
  BY EndsByAnswer
<1>2. /\ call[r] \in CallRec /\ call[r].stage = "wait" /\ Shape(call[r]) /\ call[r].order \in Order
      /\ call[r].kind # "delete" => SameColumns(call[r].order) /\ SameShipments(call[r].order)
  BY <1>1, EndCallDoes
<1>3. Undisturbed(r)
  BY <1>2, CallActs DEF Ended, SingleInv
<1>4. call[r].kind \in Saving
  BY <1>2 DEF Shape, CallRec, Saving, Status, Deleted
<1> QED BY <1>1, <1>2, <1>3, <1>4 DEF Saving

LEMMA ClosingReleasesStep ==
  ASSUME Base, SingleInv, [OrdersNext]_allVars, NEW r \in Request, Ends(r),
         call[r].kind # "shipment", call[r].process, call[r].target \in Closing,
         call[r].order \notin overlapped
  PROVE  reserved'[call[r].order] = Nothing
<1>1. call[r].target \in Status
  BY DEF Closing, Status
<1>2. /\ call[r].kind \in Saving /\ call[r].stage = "wait" /\ Undisturbed(r)
      /\ SameColumns(call[r].order)
  BY <1>1, EndsQuietly
<1> QED BY <1>2 DEF Undisturbed, SameColumns

LEMMA SentShipsStep ==
  ASSUME Base, SingleInv, [OrdersNext]_allVars, NEW r \in Request, Ends(r),
         call[r].kind # "shipment", call[r].process, call[r].target = "sent_for_shipment",
         NEW o, o = call[r].order, o \notin overlapped
  PROVE  LET At_(w) == {s \in live' : row'[s].order = o /\ row'[s].warehouse = w} IN
         \A w \in Warehouse :
           IF \E l \in Line : reserved[o][l][w] > 0
             THEN \E s \in At_(w) : At_(w) = {s} /\ row'[s].status = "sent_for_shipment"
                    /\ \A l \in Line : items'[s][l] = reserved[o][l][w]
             ELSE At_(w) = {}
<1>1. call[r].target \in Status
  BY DEF Status
<1>2. /\ call[r].kind \in Saving /\ call[r].stage = "wait" /\ pc[r] = "done" /\ Undisturbed(r)
      /\ o \in Order /\ SameColumns(o) /\ SameShipments(o)
  BY <1>1, EndsQuietly
<1>3. ShippedAll(o) /\ reserved'[o] = reserved[o]
  BY <1>2 DEF Undisturbed, Sends, SameColumns
<1>4. ShippedAll(o)'
  BY <1>2, <1>3, KeepShippedAll
<1> QED BY <1>3, <1>4 DEF ShippedAll

(* Whatever else goes on, a call that closes an order nothing else touches   *)
(* leaves no reservation of it, whatever reservations its body has written   *)
(* before (OrderService.processOrderStatus, ReservationService.delete).      *)
THEOREM ClosingReleasesCorrect == OrdersSpec => ClosingReleases
<1>1. Base /\ SingleInv /\ [OrdersNext]_allVars =>
        [\A r \in Request :
           LET o == call[r].order IN
           Ends(r) /\ call[r].kind # "shipment" /\ call[r].process
             /\ call[r].target \in Closing /\ o \notin overlapped
             => reserved'[o] = Nothing]_allVars
  BY ClosingReleasesStep
<1> QED BY <1>1, SingleHolds, PTL DEF OrdersSpec, ClosingReleases

(* Whatever else goes on, a call that sends an order nothing else touches    *)
(* for shipment leaves one shipment for each warehouse with reservations,    *)
(* with exactly the reserved quantities, and no other shipment: the items    *)
(* its parallel loops insert are the reservations it has reread              *)
(* (ShipmentService.createForOrder, createForOrderItem).                     *)
THEOREM SentShipsReservationsCorrect == OrdersSpec => SentShipsReservations
<1>1. Base /\ SingleInv /\ [OrdersNext]_allVars =>
        [\A r \in Request :
           LET o == call[r].order
               At_(w) == {s \in live' : row'[s].order = o /\ row'[s].warehouse = w}
           IN
           Ends(r) /\ call[r].kind # "shipment" /\ call[r].process
             /\ call[r].target = "sent_for_shipment" /\ o \notin overlapped
             => \A w \in Warehouse :
                  IF \E l \in Line : reserved[o][l][w] > 0
                    THEN \E s \in At_(w) : At_(w) = {s} /\ row'[s].status = "sent_for_shipment"
                           /\ \A l \in Line : items'[s][l] = reserved[o][l][w]
                    ELSE At_(w) = {}]_allVars
  BY SentShipsStep
<1> QED BY <1>1, SingleHolds, PTL DEF OrdersSpec, SentShipsReservations
------------------------------------------------------------------------------
(* The amount and the status of an order. *)

(* A call that has ended stays as it is. *)
LEMMA EndedStay ==
  ASSUME Base, [OrdersNext]_allVars, NEW q \in Request, call[q].stage \in {"done", "failed"}
  PROVE  call'[q] = call[q]
<1>1. ASSUME NEW r \in Request, OpenCall(r) PROVE call'[q] = call[q]
  <2>1. call[r].stage = "new" /\ \A x \in Request \ {r} : call'[x] = call[x]
    BY <1>1 DEF OpenCall, Update, Create, Cancel, DeleteOrder, ChangeShipment, Open, At, Base, CallTypes
  <2> QED BY <2>1
<1>2. ASSUME NEW r \in Request, CallStep(r) PROVE call'[q] = call[q]
  <2>1. ASSUME NEW st, Goto(r, st), q # r PROVE call'[q] = call[q]
    BY <2>1 DEF Goto, Base, CallTypes
  <2>2. CASE SaveOrder(r) \/ ReadItems(r) \/ RemoveLines(r) \/ Rereads(r) \/ Release(r) \/ Ship(r)
             \/ EndCall(r)
    BY <2>1, <2>2 DEF SaveOrder, ReadItems, RemoveLines, Rereads, RereadItems, FetchReservations, Release,
       Ship, EndCall, At, Base, CallTypes
  <2>3. CASE \E l \in Line : AtLine(r, l) \/ \E w \in Warehouse : SaveReservation(r, l, w)
    BY <2>1, <2>3 DEF AtLine, SaveLine, DropReservations, SaveReservation, Fail, At, Base, CallTypes
  <2>4. CASE ShipmentStep(r)
    BY <2>4 DEF ShipmentStep, orderVars, callVars
  <2> QED BY <1>2, <2>2, <2>3, <2>4 DEF CallStep, AtLine, Rereads
<1>3. ASSUME NEW r \in Request, AbortCall(r) PROVE call'[q] = call[q]
  BY <1>3 DEF AbortCall, Fail, Goto, Base, CallTypes, Ended
<1>4. ASSUME \/ \E h \in Handler : HandlerStep(h)
             \/ LoseHandlers
             \/ UNCHANGED allVars
      PROVE  call'[q] = call[q]
  BY <1>4 DEF HandlerStep, TakeEvent, SaveHandled, ReleaseHandled, LoseHandlers, allVars, orderVars, callVars
<1> QED BY <1>1, <1>2, <1>3, <1>4 DEF OrdersNext

LEMMA AbortsGrow ==
  ASSUME Base, [OrdersNext]_allVars
  PROVE  aborts \in Nat /\ (aborts' = aborts \/ aborts' = aborts + 1)
<1>0. aborts \in Nat
  BY DEF Base, RowTypes
<1>1. ASSUME NEW r \in Request, OpenCall(r) PROVE aborts' = aborts
  <2>1. ASSUME NEW c, Open(r, c) PROVE aborts' = aborts
    BY <2>1 DEF Open, vars
  <2>2. ASSUME NEW s, NEW t, NEW ret, ChangeShipment(r, s, t, ret) PROVE aborts' = aborts
    BY <2>2 DEF ChangeShipment, ChangeStatus
  <2> QED BY <1>1, <2>1, <2>2 DEF OpenCall, Update, Create, Cancel, DeleteOrder
<1>2. ASSUME NEW r \in Request, CallStep(r) PROVE aborts' = aborts
  <2>1. CASE SaveOrder(r) \/ ReadItems(r) \/ RemoveLines(r) \/ Rereads(r) \/ Release(r)
    BY <2>1 DEF SaveOrder, ReadItems, RemoveLines, Rereads, RereadItems, FetchReservations, Release, vars
  <2>2. CASE Ship(r)
    BY <2>2 DEF Ship, Delete, CreateForOrder, ProcessOrder
  <2>3. CASE \E l \in Line : AtLine(r, l) \/ \E w \in Warehouse : SaveReservation(r, l, w)
    BY <2>3 DEF AtLine, SaveLine, DropReservations, SaveReservation, vars
  <2>4. CASE ShipmentStep(r)
    BY <2>4, ShipmentStepCases DEF StockOnly, SaveShipment, CreateShipment, CreateItem, DeleteRows, Return
  <2>5. CASE EndCall(r)
    BY <2>5 DEF EndCall
  <2> QED BY <1>2, <2>1, <2>2, <2>3, <2>4, <2>5 DEF CallStep, AtLine, Rereads
<1>3. ASSUME NEW r \in Request, AbortCall(r) PROVE aborts' = aborts + 1
  BY <1>3 DEF AbortCall, Abort
<1>4. ASSUME NEW h \in Handler, HandlerStep(h) PROVE aborts' = aborts
  BY <1>4 DEF HandlerStep, TakeEvent, SaveHandled, ReleaseHandled, vars
<1> QED BY <1>0, <1>1, <1>2, <1>3, <1>4 DEF OrdersNext, LoseHandlers, allVars, vars

LEMMA CleanBefore == ASSUME Base, Base', [OrdersNext]_allVars, Clean' PROVE Clean
<1>1. aborts = 0
  BY AbortsGrow DEF Clean
<1>2. \A q \in Request : call[q].stage # "failed"
  BY EndedStay DEF Clean
<1> QED BY <1>1, <1>2 DEF Clean

LEMMA KeepAgree ==
  ASSUME NEW o \in Order, SameShipments(o), orow'[o].status = orow[o].status
  PROVE  Agree(o)' <=> Agree(o)
BY DEF SameShipments, Agree

LEMMA KeepConsistent ==
  ASSUME Base, Base', NEW o \in Order, SameOrder(o), Consistent(o)
  PROVE  Consistent(o)'
<1>1. Calls(o)' = Calls(o) /\ \A r \in Calls(o) : r \in Request /\ ForOrder(r, o) /\ call'[r] = call[r]
  BY SameActive DEF SameOrder, Base
<1>2. \A st \in Status : Pending(o, st)' <=> Pending(o, st)
  BY SamePending DEF SameOrder
<1>3. Agree(o)' <=> Agree(o)
  BY KeepAgree DEF SameOrder, SameColumns
<1>4. /\ ShipmentsOf(o)' = ShipmentsOf(o)
      /\ \A s \in ShipmentsOf(o) : row'[s] = row[s]
  BY DEF SameOrder, SameShipments
<1>5. ASSUME NEW r \in Calls(o) PROVE Agreeing(r)'
  <2>1. call'[r] = call[r] /\ call[r].order = o /\ job'[r] = job[r]
    BY <1>1 DEF SameOrder, SameCalls, ForOrder
  <2>2. Agree(call[r].order)' <=> Agree(o)
    BY <1>3, <2>1 DEF Agree, ShipmentsOf
  <2>3. ShipmentsOf(call[r].order)' = ShipmentsOf(o)
    BY <1>4, <2>1 DEF ShipmentsOf
  <2>4. Agreeing(r)
    BY DEF Consistent
  <2> QED BY <1>4, <2>1, <2>2, <2>3, <2>4 DEF Agreeing
<1>6. (\A r \in Calls(o)' : call'[r].stage \notin {"read", "items"}) => orow'[o].total = worth'[o]
  BY <1>1 DEF Consistent, SameOrder, SameColumns
<1>7. \A st \in Status : Pending(o, st)' => \E s \in ShipmentsOf(o)' : row'[s].status = st
  BY <1>2, <1>4 DEF Consistent
<1>8. (\A r \in Calls(o)' : call'[r].kind = "shipment") => Agree(o)' \/ \E st \in Status : Pending(o, st)'
  BY <1>1, <1>2, <1>3 DEF Consistent
<1> QED BY <1>1, <1>5, <1>6, <1>7, <1>8 DEF Consistent

LEMMA ConsistentFrom ==
  ASSUME Base, Base', ConsistentInv, Clean, overlapped \subseteq overlapped',
         NEW p \in Order, \A o \in Order \ {p} : SameOrder(o), p \notin overlapped' => Consistent(p)'
  PROVE  ConsistentInv'
<1> SUFFICES ASSUME NEW o \in Order, o \notin overlapped', o # p PROVE Consistent(o)'
  BY DEF ConsistentInv
<1> QED BY KeepConsistent DEF ConsistentInv

(* A call begins on an order nothing else is done about. *)
LEMMA BeginConsistent ==
  ASSUME Base, Base', ConsistentInv, Clean, NEW r \in Request, NEW p \in Order,
         \A q \in Request \ {r} : call'[q] = call[q], call'[r].order = p,
         \A o \in Order \ {p} : SameOrder(o), Touch(p, Busy(p)), UNCHANGED <<events, handler>>,
         SameColumns(p), SameShipments(p),
         call'[r].kind \in Saving => call'[r].stage = "save",
         call'[r].stage \in {"save", "release", "wait"}
  PROVE  ConsistentInv'
<1>1. overlapped \subseteq overlapped' /\ (p \notin overlapped' => ~Busy(p) /\ p \notin overlapped)
  BY DEF Touch
<1>2. ASSUME p \notin overlapped' PROVE Consistent(p)'
  <2>1. Calls(p) = {} /\ (\A h \in Handler : ~On(h, p)) /\ \A st \in Status : ~Pending(p, st)
    BY <1>1, <1>2, NotBusy
  <2>2. Consistent(p) /\ Agree(p) /\ orow[p].total = worth[p]
    BY <1>1, <1>2, <2>1 DEF ConsistentInv, Consistent
  <2>3. \A q \in Calls(p)' : q = r
    BY <2>1 DEF Calls, Active
  <2>4. \A st \in Status : ~Pending(p, st)'
    BY <2>1 DEF Pending, Handled, On
  <2>5. Agree(p)' /\ orow'[p].total = worth'[p]
    BY <2>2, KeepAgree DEF SameColumns
  <2>6. Agreeing(r)'
    <3>1. Agree(call[r].order)'
      BY <2>5 DEF Agree, ShipmentsOf
    <3> QED BY <3>1 DEF Agreeing
  <2> QED BY <2>3, <2>4, <2>5, <2>6 DEF Consistent
<1> QED BY <1>1, <1>2, ConsistentFrom

LEMMA OpenConsistent ==
  ASSUME Base, Base', ConsistentInv, Clean, NEW r \in Request, NEW c \in CallRec, Open(r, c),
         c.stage \in {"save", "release"}, c.kind \in Saving => c.stage = "save"
  PROVE  ConsistentInv'
<1> DEFINE p == c.order
<1>1. p \in Order
  BY DEF CallRec
<1>2. call[r] = NoCall
  BY NewCall DEF Open
<1>3. call'[r] = c /\ \A q \in Request \ {r} : call'[q] = call[q]
  BY DEF Open, Base, CallTypes
<1>4. UNCHANGED <<shipmentVars, pc, createVars, job, events, olive, orow, lines, worth, reserved, handler>>
  BY DEF Open, vars, jobVars, rowVars, itemVars
<1>5. \A o \in Order : SameColumns(o) /\ SameShipments(o)
  BY <1>4 DEF SameColumns, SameShipments, ShipmentsOf, shipmentVars
<1>6. \A o \in Order \ {p} : SameOrder(o)
  BY <1>2, <1>3, <1>4, <1>5, RecNotNoCall, OrderLocal
<1>7. Touch(p, Busy(p))
  BY DEF Open
<1> HIDE DEF p
<1>8. call'[r].order = p
  BY <1>3 DEF p
<1> QED BY <1>1, <1>3, <1>4, <1>5, <1>6, <1>7, <1>8, BeginConsistent

LEMMA OpenCallConsistent ==
  ASSUME OrdersAssumption, Base, Base', ConsistentInv, Clean, NEW r \in Request, OpenCall(r)
  PROVE  ConsistentInv'
<1>1. ASSUME NEW o \in Order, NEW target \in Targets, NEW dto \in Dtos, NEW ret \in BOOLEAN,
             Update(r, o, target, dto, ret)
      PROVE  ConsistentInv'
  <2> DEFINE c == Call("update", o, target, RowOf(o, target, dto), dto, ret,
                       target # NoStatus /\ target # orow[o].status, "save")
  <2>1. target \in OrderStatus /\ dto \in Dto
    BY DEF OrdersAssumption
  <2>2. RowOf(o, target, dto) \in OrderRow
    BY <2>1 DEF RowOf, OrderRow, Dto
  <2>3. c \in CallRec
    BY <2>1, <2>2, CallTyped DEF CallStage
  <2>4. c.stage = "save" /\ Open(r, c)
    BY <1>1 DEF Call, Update
  <2> HIDE DEF c
  <2> QED BY <2>3, <2>4, OpenConsistent
<1>2. ASSUME NEW o \in Order, NEW target \in Targets, NEW dto \in Dtos, Create(r, o, target, dto)
      PROVE  ConsistentInv'
  <2> DEFINE c == Call("create", o, target, RowOf(o, target, dto), dto, FALSE,
                       target # NoStatus, "save")
  <2>1. target \in OrderStatus /\ dto \in Dto
    BY DEF OrdersAssumption
  <2>2. RowOf(o, target, dto) \in OrderRow
    BY <2>1 DEF RowOf, OrderRow, Dto
  <2>3. c \in CallRec
    BY <2>1, <2>2, CallTyped DEF CallStage
  <2>4. c.stage = "save" /\ Open(r, c)
    BY <1>2 DEF Call, Create
  <2> HIDE DEF c
  <2> QED BY <2>3, <2>4, OpenConsistent
<1>3. ASSUME NEW o \in Order, Cancel(r, o) PROVE ConsistentInv'
  <2> DEFINE c == Call("cancel", o, "cancelled", [orow[o] EXCEPT !.status = "cancelled"], NoDto,
                       TRUE, TRUE, "save")
  <2>1. orow[o] \in OrderRow /\ "cancelled" \in OrderStatus
    BY DEF Base, RowTypes, OrderStatus, Status
  <2>2. [orow[o] EXCEPT !.status = "cancelled"] \in OrderRow
    BY <2>1 DEF OrderRow
  <2>3. c \in CallRec
    BY <2>1, <2>2, NothingTyped, CallTyped DEF CallStage
  <2>4. c.stage = "save" /\ Open(r, c)
    BY <1>3 DEF Call, Cancel
  <2> HIDE DEF c
  <2> QED BY <2>3, <2>4, OpenConsistent
<1>4. ASSUME NEW o \in Order, NEW ret \in BOOLEAN, DeleteOrder(r, o, ret) PROVE ConsistentInv'
  <2> DEFINE c == Call("delete", o, Deleted, orow[o], NoDto, ret, TRUE, "release")
  <2>1. orow[o] \in OrderRow
    BY DEF Base, RowTypes
  <2>3. c \in CallRec
    BY <2>1, NothingTyped, CallTyped DEF CallStage
  <2>4. c.stage = "release" /\ c.kind \notin Saving /\ Open(r, c)
    BY <1>4 DEF Call, DeleteOrder, Saving
  <2> HIDE DEF c
  <2> QED BY <2>3, <2>4, OpenConsistent
<1>5. ASSUME NEW s \in Shipment, NEW target \in Targets \ {NoStatus}, NEW ret \in BOOLEAN,
             ChangeShipment(r, s, target, ret)
      PROVE  ConsistentInv'
  <2> DEFINE c == Call("shipment", row[s].order, target, orow[row[s].order], NoDto, ret, TRUE, "wait")
  <2>0. PICK p \in Order : p = row[s].order
    BY DEF Base, RowTypes, Row
  <2>1. pc' = [pc EXCEPT ![r] = "run"]
    BY <1>5 DEF ChangeShipment, ChangeStatus
  <2>2. call[r] = NoCall
    BY <1>5, NewCall DEF ChangeShipment
  <2>3. call'[r] = c /\ \A q \in Request \ {r} : call'[q] = call[q]
    BY <1>5 DEF ChangeShipment, Base, CallTypes
  <2>4. c.kind \notin Saving /\ c.order = p /\ c.stage = "wait"
    BY <2>0 DEF Call, Saving
  <2> HIDE DEF c
  <2>5. call'[r] # NoCall
    BY <2>3, <2>4, NothingTyped
  <2>6. UNCHANGED <<shipmentVars, createVars, events, olive, orow, lines, worth, reserved, handler>>
    BY <1>5 DEF ChangeShipment, ChangeStatus, rowVars, itemVars
  <2>7. \A q \in Request \ {r} : job'[q] = job[q]
    <3>1. PICK S \in SUBSET {s} : S = {x \in {s} : row[x].status # target}
      OBVIOUS
    <3>2. StartJobs(r, S, target, ret)
      BY <1>5, <3>1 DEF ChangeShipment, ChangeStatus
    <3>3. job \in Jobs
      BY DEF Base, CallTypes
    <3> QED BY <3>2, <3>3 DEF StartJobs, Jobs
  <2>8. Others(r)
    BY <2>1, <2>3, <2>6, <2>7 DEF Others, createVars, Base, CallTypes
  <2>9. \A o \in Order : SameColumns(o) /\ SameShipments(o)
          /\ \A st \in Status : events'[<<o, st>>] = events[<<o, st>>]
    BY <2>6 DEF SameColumns, SameShipments, shipmentVars, ShipmentsOf
  <2>10. \A o \in Order \ {p} : SameOrder(o)
    BY <2>2, <2>3, <2>4, <2>5, <2>6, <2>8, <2>9, ShipmentLocal
  <2>11. Touch(p, Busy(p))
    BY <1>5, <2>0 DEF ChangeShipment
  <2> QED BY <2>3, <2>4, <2>6, <2>9, <2>10, <2>11, BeginConsistent
<1> QED BY <1>1, <1>2, <1>3, <1>4, <1>5 DEF OpenCall
------------------------------------------------------------------------------
(* Calls that are not with the shipments. *)

(* The amount and the status an undisturbed call knows, and must leave. *)
Totals(r) ==
  LET c == call[r] IN c.stage \notin {"read", "items"} => orow[c.order].total = worth[c.order]

EarlyAgrees(r) ==
  LET c == call[r] IN
  /\ Totals(r) /\ c.stage \notin {"save", "wait"}
  /\ c.kind \in Saving /\ ~c.process => Agree(c.order)
  /\ c.stage \in Ended => c.kind \in Saving /\ ~c.process

(* The only call on an order. *)
LEMMA OnlyCall ==
  ASSUME Base, SingleInv, ConsistentInv, Clean, NEW r \in Request, call[r].stage \notin Ended,
         call[r].order \notin overlapped
  PROVE  LET p == call[r].order IN
         /\ Single(p) /\ Undisturbed(r) /\ Consistent(p) /\ Agreeing(r) /\ Totals(r)
         /\ Calls(p) = {r} /\ p \in Order
<1> DEFINE p == call[r].order
<1>1. p \in Order /\ r \in Calls(p) /\ (Single(p) => Undisturbed(r))
  BY CallActs
<1> HIDE DEF p
<1>2. p = call[r].order
  BY DEF p
<1>3. Single(p) /\ Consistent(p)
  BY <1>1, <1>2 DEF SingleInv, ConsistentInv
<1>4. Calls(p) = {r}
  BY <1>1, <1>3 DEF Single
<1>5. Agreeing(r) /\ Totals(r)
  BY <1>2, <1>3, <1>4 DEF Consistent, Totals
<1> QED BY <1>1, <1>2, <1>3, <1>4, <1>5

LEMMA EarlyConsistent ==
  ASSUME Base, Base', SingleInv, ConsistentInv, Clean, NEW r \in Request,
         call[r].stage \notin Ended \cup {"wait"},
         UNCHANGED <<shipmentVars, pc, createVars, job, events, handler, overlapped>>,
         \A q \in Request \ {r} : call'[q] = call[q],
         call'[r] \in CallRec, call'[r].order = call[r].order, call'[r].kind = call[r].kind,
         \A o \in Order \ {call[r].order} : SameColumns(o),
         Undisturbed(r) /\ Agreeing(r) /\ Totals(r) => EarlyAgrees(r)'
  PROVE  ConsistentInv'
<1>1. /\ call[r] \in CallRec /\ call[r] # NoCall /\ call[r].order \in Order
      /\ r \in Calls(call[r].order) /\ Shape(call[r])
  BY CallActs
<1>2. PICK p \in Order : p = call[r].order
  BY <1>1
<1>3. \A o \in Order \ {p} : SameOrder(o)
  BY <1>1, <1>2, RecNotNoCall, OrderLocal
<1>4. ASSUME p \notin overlapped' PROVE Consistent(p)'
  <2>1. Single(p) /\ Undisturbed(r) /\ Consistent(p) /\ Agreeing(r) /\ Totals(r) /\ Calls(p) = {r}
    BY <1>2, <1>4, OnlyCall
  <2>2. EarlyAgrees(r)'
    BY <2>1
  <2>3. \A st \in Status : ~Pending(p, st)
    BY <1>2, <2>1, NothingPending
  <2>4. \A st \in Status : ~Pending(p, st)'
    BY <2>3 DEF Pending, Handled, On
  <2>5. \A q \in Calls(p)' : q = r
    BY <2>1 DEF Calls, Active
  <2>6. call'[r].kind # "shipment"
    BY <1>1 DEF Shape, Ended
  <2>7. call'[r].stage \in Ended => Agree(p)'
    BY <1>2, <2>2 DEF EarlyAgrees, Agree, ShipmentsOf
  <2>8. r \notin Calls(p)' => call'[r].stage \in Ended
    BY <1>2 DEF Calls, Active
  <2>9. orow'[p].total = worth'[p] \/ (r \in Calls(p)' /\ call'[r].stage \in {"read", "items"})
    BY <1>2, <2>2, <2>8 DEF EarlyAgrees, Totals, Ended
  <2>10. Agreeing(r)'
    BY <2>2 DEF EarlyAgrees, Agreeing, Agree, ShipmentsOf
  <2>11. (\A q \in Calls(p)' : call'[q].kind = "shipment") => Agree(p)'
    BY <2>6, <2>7, <2>8
  <2> QED BY <2>4, <2>5, <2>9, <2>10, <2>11 DEF Consistent
<1> QED BY <1>2, <1>3, <1>4, ConsistentFrom

LEMMA SaveOrderConsistent ==
  ASSUME OrdersAssumption, Base, Base', SingleInv, ConsistentInv, Clean, Clean', NEW r \in Request,
         SaveOrder(r)
  PROVE  ConsistentInv'
<1> DEFINE c == call[r]
<1>1. c.stage = "save" /\ c.stage \notin Ended \cup {"wait"}
  BY DEF SaveOrder, At, Ended
<1>2. c \in CallRec /\ c # NoCall /\ c.order \in Order /\ Shape(c)
  BY <1>1, CallActs
<1>3. PICK st \in {"release", "read"} : st = (IF c.kind = "cancel" THEN "release" ELSE "read")
  OBVIOUS
<1>4. /\ call'[r] = [c EXCEPT !.stage = st] /\ call'[r] \in CallRec
      /\ \A q \in Request \ {r} : call'[q] = call[q]
  BY <1>2, <1>3, GotoTyped DEF SaveOrder, CallStage
<1>5. /\ orow' = [orow EXCEPT ![c.order] = c.row] /\ olive' = olive \cup {c.order}
      /\ UNCHANGED <<lines, worth, reserved>>
  BY DEF SaveOrder, itemVars
<1>6. UNCHANGED <<shipmentVars, pc, createVars, job, events, handler, overlapped>>
  BY DEF SaveOrder, vars, jobVars
<1>7. \A o \in Order \ {c.order} : SameColumns(o)
  BY <1>2, <1>5, OneOrder
<1>8. /\ call'[r].order = c.order /\ call'[r].stage = st /\ call'[r].kind = c.kind
      /\ call'[r].target = c.target /\ call'[r].row = c.row /\ call'[r].process = c.process
  BY <1>2, <1>4 DEF CallRec
<1>9. ASSUME Undisturbed(r), Agreeing(r), Totals(r) PROVE EarlyAgrees(r)'
  <2>1. orow'[c.order] = c.row /\ worth' = worth
    BY <1>2, <1>5 DEF Base, RowTypes
  <2>2. st = "release" => orow'[c.order].total = worth[c.order]
    <3>1. c.kind = "cancel" => c.row.total = orow[c.order].total
      BY <1>1, <1>9 DEF Undisturbed
    <3>2. orow[c.order].total = worth[c.order]
      BY <1>1, <1>9 DEF Totals
    <3> QED BY <1>3, <2>1, <3>1, <3>2
  <2>3. c.kind \in Saving /\ ~c.process => Agree(c.order)'
    <3> SUFFICES ASSUME c.kind \in Saving, ~c.process PROVE Agree(c.order)'
      OBVIOUS
    <3>1. orow'[c.order].status = c.target
      BY <1>2, <2>1 DEF Shape
    <3>2. CASE c.target = NoStatus
      BY <1>8, <2>1, <3>1, <3>2 DEF Agree
    <3>3. CASE c.target # NoStatus
      <4>1. c.kind = "update"
        BY <1>2, <3>3 DEF Shape
      <4>2. orow'[c.order].status = orow[c.order].status
        BY <1>1, <1>9, <3>1, <3>3, <4>1 DEF Undisturbed
      <4>3. Agree(c.order)
        BY <1>1, <1>9, <3>3 DEF Agreeing
      <4> QED BY <1>6, <1>8, <4>2, <4>3 DEF Agree, ShipmentsOf, shipmentVars
    <3> QED BY <3>2, <3>3
  <2>4. Agree(call[r].order)' <=> Agree(c.order)'
    BY <1>8 DEF Agree, ShipmentsOf
  <2>5. st \notin Ended /\ st \notin {"save", "wait"}
    BY <1>3 DEF Ended
  <2> QED BY <1>3, <1>8, <2>1, <2>2, <2>3, <2>4, <2>5 DEF EarlyAgrees, Totals
<1> QED BY <1>1, <1>2, <1>4, <1>6, <1>7, <1>8, <1>9, EarlyConsistent

(* A step that leaves the row and the shipments alone. *)
LEMMA RowKept ==
  ASSUME NEW r \in Request, UNCHANGED <<shipmentVars, orow, worth>>, call'[r].order = call[r].order,
         call'[r].kind = call[r].kind, call'[r].process = call[r].process,
         call[r].stage \notin {"save", "wait"}, call'[r].stage \notin {"save", "wait"},
         Agreeing(r), Totals(r),
         call[r].stage \in {"read", "items"} => call'[r].stage \in {"read", "items"},
         call'[r].stage \in Ended => call'[r].kind \in Saving /\ ~call'[r].process
  PROVE  EarlyAgrees(r)'
<1> DEFINE p == call[r].order
<1>1. Agree(call[r].order)' <=> Agree(p)
  BY DEF Agree, ShipmentsOf, shipmentVars
<1>2. call[r].kind \in Saving /\ ~call[r].process => Agree(p)
  BY DEF Agreeing
<1>3. Totals(r)'
  BY DEF Totals
<1> QED BY <1>1, <1>2, <1>3 DEF EarlyAgrees

LEMMA ReadItemsConsistent ==
  ASSUME OrdersAssumption, Base, Base', SingleInv, ConsistentInv, Clean, Clean', NEW r \in Request,
         ReadItems(r)
  PROVE  ConsistentInv'
<1> DEFINE c == call[r]
           d == [c EXCEPT !.known = lines[c.order], !.todo = c.dto.lines, !.stage = "items"]
<1>1. c.stage = "read" /\ c.stage \notin Ended \cup {"wait"}
  BY DEF ReadItems, At, Ended
<1>2. c \in CallRec /\ c # NoCall /\ c.order \in Order /\ Shape(c)
  BY <1>1, CallActs
<1>3. d \in CallRec
  BY <1>2 DEF CallRec, CallStage, Dto, Base, RowTypes
<1>4. call'[r] = d /\ \A q \in Request \ {r} : call'[q] = call[q]
  BY <1>3, ChangedTyped DEF ReadItems
<1>5. UNCHANGED <<olive, orow, lines, worth, reserved>>
  BY DEF ReadItems, rowVars, itemVars
<1>6. UNCHANGED <<shipmentVars, pc, createVars, job, events, handler, overlapped>>
  BY DEF ReadItems, vars, jobVars
<1>7. \A o \in Order \ {c.order} : SameColumns(o)
  BY <1>5 DEF SameColumns
<1>a. d.order = c.order /\ d.stage = "items" /\ d.kind = c.kind /\ d.process = c.process
  BY <1>2 DEF CallRec
<1> HIDE DEF d
<1>8. "items" \notin Ended
  BY DEF Ended
<1>9. ASSUME Agreeing(r), Totals(r) PROVE EarlyAgrees(r)'
  BY <1>1, <1>4, <1>a, <1>5, <1>6, <1>8, <1>9, RowKept
<1> QED BY <1>1, <1>2, <1>3, <1>4, <1>a, <1>6, <1>7, <1>9, EarlyConsistent

LEMMA LineConsistent ==
  ASSUME OrdersAssumption, Base, Base', SingleInv, ConsistentInv, Clean, Clean', NEW r \in Request,
         NEW l \in Line, AtLine(r, l)
  PROVE  ConsistentInv'
<1> DEFINE c == call[r]
<1>1. call'[r].stage # "failed"
  BY DEF Clean
<1>2. /\ c \in CallRec /\ c.stage = "items" /\ c.order \in Order
      /\ call'[r] \in CallRec /\ call'[r].order = c.order /\ call'[r].kind = c.kind
      /\ call'[r].process = c.process /\ call'[r].stage = "items"
      /\ \A q \in Request \ {r} : call'[q] = call[q]
  BY <1>1, LineCall
<1>3. c.stage \notin Ended \cup {"wait"} /\ "items" \notin Ended
  BY <1>2 DEF Ended
<1>4. /\ lines' \in {lines, [lines EXCEPT ![c.order] = @ \cup {l}]}
      /\ reserved' \in {reserved, [reserved EXCEPT ![c.order] =
                                     [reserved[c.order] EXCEPT ![l] = Nothing[l]]]}
      /\ UNCHANGED <<shipmentVars, pc, createVars, job, events, handler, overlapped, olive, orow, worth>>
  BY <1>2, LineRows
<1>7. \A o \in Order \ {c.order} : SameColumns(o)
  BY <1>2, <1>4, OneOrder
<1>9. ASSUME Agreeing(r), Totals(r) PROVE EarlyAgrees(r)'
  BY <1>2, <1>3, <1>4, <1>9, RowKept
<1> QED BY <1>2, <1>3, <1>4, <1>7, <1>9, EarlyConsistent

LEMMA SaveReservationConsistent ==
  ASSUME OrdersAssumption, Base, Base', SingleInv, ConsistentInv, Clean, Clean', NEW r \in Request,
         NEW l \in Line, NEW w \in Warehouse, SaveReservation(r, l, w)
  PROVE  ConsistentInv'
<1> DEFINE c == call[r]
           d == [c EXCEPT !.fill = @ \ {<<l, w>>}]
<1>1. c.stage = "items" /\ c.stage \notin Ended \cup {"wait"}
  BY DEF SaveReservation, At, Ended
<1>2. c \in CallRec /\ c # NoCall /\ c.order \in Order /\ Shape(c)
  BY <1>1, CallActs
<1>3. call'[r] # [c EXCEPT !.stage = "failed"]
  BY <1>2 DEF Clean, CallRec
<1>4. l \in lines[c.order] /\ call' = [call EXCEPT ![r] = d]
  BY <1>2, <1>3 DEF SaveReservation, Fail, Goto, Base, CallTypes
<1>5. d \in CallRec
  BY <1>2 DEF CallRec
<1>6. call'[r] = d /\ \A q \in Request \ {r} : call'[q] = call[q]
  BY <1>4, <1>5, ChangedTyped
<1>7. d.order = c.order /\ d.kind = c.kind /\ d.process = c.process /\ d.stage = "items"
  BY <1>1, <1>2 DEF CallRec
<1> HIDE DEF d
<1>8. reserved' = [reserved EXCEPT ![c.order] = [reserved[c.order] EXCEPT ![l][w] =
                     reserved[c.order][l][w] + c.dto.reservations[l][w]]]
  BY <1>2, <1>4 DEF SaveReservation, Base, RowTypes, Amounts
<1>9. UNCHANGED <<shipmentVars, pc, createVars, job, events, handler, overlapped, olive, orow,
                  lines, worth>>
  BY DEF SaveReservation, vars, jobVars, rowVars
<1>10. \A o \in Order \ {c.order} : SameColumns(o)
  BY <1>2, <1>8, <1>9, OneOrder
<1>11. "items" \notin Ended
  BY DEF Ended
<1>12. ASSUME Agreeing(r), Totals(r) PROVE EarlyAgrees(r)'
  BY <1>1, <1>6, <1>7, <1>9, <1>11, <1>12, RowKept
<1> QED BY <1>1, <1>5, <1>6, <1>7, <1>9, <1>10, <1>12, EarlyConsistent

LEMMA RemoveLinesConsistent ==
  ASSUME OrdersAssumption, Base, Base', SingleInv, ConsistentInv, Clean, Clean', NEW r \in Request,
         RemoveLines(r)
  PROVE  ConsistentInv'
<1> DEFINE c == call[r]
<1>1. c.stage = "items" /\ c.stage \notin Ended \cup {"wait"}
  BY DEF RemoveLines, At, Ended
<1>2. c \in CallRec /\ c # NoCall /\ c.order \in Order /\ Shape(c)
  BY <1>1, CallActs
<1>3. /\ call'[r] = [c EXCEPT !.stage = "reread"] /\ call'[r] \in CallRec
      /\ \A q \in Request \ {r} : call'[q] = call[q]
  BY <1>2, GotoTyped DEF RemoveLines, CallStage
<1>4. /\ \E x : lines' = [lines EXCEPT ![c.order] = x]
      /\ \E x : reserved' = [reserved EXCEPT ![c.order] = x]
      /\ worth' = [worth EXCEPT ![c.order] = c.dto.total]
  BY <1>2 DEF RemoveLines, Base, RowTypes
<1>6. UNCHANGED <<shipmentVars, pc, createVars, job, events, handler, overlapped, olive, orow>>
  BY DEF RemoveLines, vars, jobVars, rowVars
<1>7. \A o \in Order \ {c.order} : SameColumns(o)
  BY <1>2, <1>4, <1>6, OneOrder
<1>a. /\ call'[r].order = c.order /\ call'[r].kind = c.kind /\ call'[r].process = c.process
      /\ call'[r].stage = "reread" /\ "reread" \notin Ended
  BY <1>2, <1>3 DEF CallRec, Ended
<1>9. ASSUME Undisturbed(r), Agreeing(r), Totals(r) PROVE EarlyAgrees(r)'
  <2>1. c.kind \in {"update", "create"}
    BY <1>1, <1>2 DEF Shape, CallRec
  <2>2. orow[c.order] = c.row /\ c.row.total = c.dto.total
    BY <1>1, <1>2, <1>9, <2>1 DEF Undisturbed, Shape, Saving
  <2>3. orow'[call'[r].order].total = worth'[call'[r].order]
    BY <1>2, <1>4, <1>6, <1>a, <2>2 DEF Base, RowTypes
  <2>4. c.kind \in Saving /\ ~c.process => Agree(c.order)
    BY <1>1, <1>9 DEF Agreeing
  <2>5. Agree(call[r].order)' <=> Agree(c.order)
    BY <1>6, <1>a DEF Agree, ShipmentsOf, shipmentVars
  <2> QED BY <1>a, <2>3, <2>4, <2>5 DEF EarlyAgrees, Totals
<1> QED BY <1>1, <1>3, <1>a, <1>6, <1>7, <1>9, EarlyConsistent

LEMMA RereadConsistent ==
  ASSUME OrdersAssumption, Base, Base', SingleInv, ConsistentInv, Clean, Clean', NEW r \in Request,
         Rereads(r)
  PROVE  ConsistentInv'
<1> DEFINE c == call[r]
           d == call'[r]
<1>1. /\ c.stage \in {"reread", "fetch"} /\ c \in CallRec /\ c.order \in Order
      /\ d \in CallRec /\ d.order = c.order /\ d.kind = c.kind /\ d.process = c.process
      /\ \A q \in Request \ {r} : call'[q] = call[q]
      /\ UNCHANGED <<shipmentVars, pc, createVars, job, events, handler, overlapped,
                     olive, orow, lines, worth, reserved>>
  BY RereadTyped
<1>3. /\ c.kind \in {"update", "create"} /\ d.stage \in {"fetch", "done", "release", "ship"}
      /\ d.stage = "done" => ~c.process
  BY RereadCall
<1>2. c.stage \notin Ended \cup {"wait"}
  BY <1>1 DEF Ended
<1>7. \A o \in Order \ {c.order} : SameColumns(o)
  BY <1>1 DEF SameColumns
<1>8. d.stage \in Ended => d.kind \in Saving /\ ~d.process
  BY <1>1, <1>3 DEF Ended, Saving
<1>10. d.stage \notin {"save", "wait"} /\ c.stage \notin {"save", "wait", "read", "items"}
  BY <1>1, <1>3
<1>9. ASSUME Agreeing(r), Totals(r) PROVE EarlyAgrees(r)'
  BY <1>1, <1>8, <1>9, <1>10, RowKept
<1> QED BY <1>1, <1>2, <1>7, <1>9, EarlyConsistent

LEMMA ReleaseConsistent ==
  ASSUME OrdersAssumption, Base, Base', SingleInv, ConsistentInv, Clean, Clean', NEW r \in Request,
         Release(r)
  PROVE  ConsistentInv'
<1> DEFINE c == call[r]
<1>1. c.stage = "release" /\ c.stage \notin Ended \cup {"wait"}
  BY DEF Release, At, Ended
<1>2. c \in CallRec /\ c # NoCall /\ c.order \in Order /\ Shape(c)
  BY <1>1, CallActs
<1>3. /\ call'[r] = [c EXCEPT !.stage = "ship"] /\ call'[r] \in CallRec
      /\ \A q \in Request \ {r} : call'[q] = call[q]
  BY <1>2, GotoTyped DEF Release, CallStage
<1>4. reserved' = [reserved EXCEPT ![c.order] = Nothing]
  BY DEF Release
<1>6. UNCHANGED <<shipmentVars, pc, createVars, job, events, handler, overlapped, olive, orow,
                  lines, worth>>
  BY DEF Release, vars, jobVars, rowVars
<1>7. \A o \in Order \ {c.order} : SameColumns(o)
  BY <1>2, <1>4, <1>6, OneOrder
<1>a. /\ call'[r].order = c.order /\ call'[r].kind = c.kind /\ call'[r].process = c.process
      /\ call'[r].stage = "ship" /\ "ship" \notin Ended
  BY <1>2, <1>3 DEF CallRec, Ended
<1>9. ASSUME Agreeing(r), Totals(r) PROVE EarlyAgrees(r)'
  BY <1>1, <1>6, <1>a, <1>9, RowKept
<1> QED BY <1>1, <1>3, <1>a, <1>6, <1>7, <1>9, EarlyConsistent
------------------------------------------------------------------------------
(* Calls at the shipments. *)
ShipmentsAgree(r) ==
  LET c == call[r]
      p == c.order
  IN
  /\ \A st \in Status : Pending(p, st) => \E s \in ShipmentsOf(p) : row[s].status = st
  /\ c.kind = "shipment" => Agree(p) \/ \E st \in Status : Pending(p, st)
  /\ c.kind \in Saving => \A s \in ShipmentsOf(p) : row[s].status = c.target \/ job[r][s] # NoJob

LEMMA WaitConsistent ==
  ASSUME Base, Base', SingleInv, SingleInv', ConsistentInv, Clean, Clean', NEW r \in Request,
         call[r].stage \in {"ship", "wait"},
         UNCHANGED <<olive, orow, lines, worth, reserved, handler, overlapped>>,
         Others(r), call'[r] = [call[r] EXCEPT !.stage = "wait"],
         \A o \in Order \ {call[r].order} : SameShipments(o)
           /\ \A st \in Status : events'[<<o, st>>] = events[<<o, st>>],
         Undisturbed(r) /\ Undisturbed(r)' /\ Consistent(call[r].order) /\ pc'[r] # "failed"
           /\ Calls(call[r].order) = {r} => ShipmentsAgree(r)'
  PROVE  ConsistentInv'
<1>1. /\ call[r] \in CallRec /\ call[r] # NoCall /\ call[r].order \in Order
      /\ r \in Calls(call[r].order) /\ Shape(call[r])
  BY CallActs DEF Ended
<1>2. PICK p \in Order : p = call[r].order
  BY <1>1
<1>3. PICK d \in CallRec : d = call'[r]
  BY <1>1 DEF CallRec, CallStage
<1>4. /\ d.kind = call[r].kind /\ d.order = p /\ d.target = call[r].target
      /\ d.process = call[r].process /\ d.stage = "wait" /\ d # NoCall
  BY <1>1, <1>2, <1>3, RecNotNoCall DEF CallRec
<1>5. \A o \in Order : SameColumns(o)
  BY DEF SameColumns
<1>6. \A o \in Order \ {p} : SameOrder(o)
  BY <1>2, <1>3, <1>4, <1>5, ShipmentLocal
<1>7. ASSUME p \notin overlapped' PROVE Consistent(p)'
  <2>1. Single(p) /\ Undisturbed(r) /\ Consistent(p) /\ Totals(r) /\ Calls(p) = {r}
    BY <1>2, <1>7, OnlyCall DEF Ended
  <2>2. r \in Calls(p)'
    BY <1>3, <1>4 DEF Calls, Active, Ended
  <2>3. Single(p)'
    BY <1>7 DEF SingleInv
  <2>4. Undisturbed(r)'
    BY <2>2, <2>3 DEF Single
  <2>5. pc'[r] # "failed"
    BY <1>3, <1>4, <2>4 DEF Undisturbed, Clean, Base, RowTypes
  <2>6. ShipmentsAgree(r)'
    BY <1>2, <2>1, <2>4, <2>5
  <2>7. \A q \in Calls(p)' : q = r
    BY <2>2, <2>3 DEF Single
  <2>8. orow'[p].total = worth'[p]
    BY <1>2, <2>1 DEF Totals
  <2>9. d.process
    <3>1. Shape(d)
      BY <1>3, <1>4 DEF Base
    <3> QED BY <1>4, <3>1 DEF Shape
  <2>10. Agreeing(r)'
    BY <1>3, <1>4, <2>6, <2>9 DEF Agreeing, ShipmentsAgree, ShipmentsOf
  <2>11. \A st \in Status : Pending(p, st)' => \E s \in ShipmentsOf(p)' : row'[s].status = st
    BY <1>3, <1>4, <2>6 DEF ShipmentsAgree, Pending, Handled, On, ShipmentsOf
  <2>12. d.kind = "shipment" => Agree(p)' \/ \E st \in Status : Pending(p, st)'
    BY <1>3, <1>4, <2>6 DEF ShipmentsAgree, Pending, Handled, On, ShipmentsOf, Agree
  <2> QED BY <1>3, <2>2, <2>7, <2>8, <2>10, <2>11, <2>12 DEF Consistent
<1> QED BY <1>6, <1>7, ConsistentFrom

LEMMA ShipConsistent ==
  ASSUME OrdersAssumption, Base, Base', SingleInv, SingleInv', ConsistentInv, Clean, Clean',
         NEW r \in Request, Ship(r)
  PROVE  ConsistentInv'
<1> DEFINE c == call[r]
<1>1. /\ c \in CallRec /\ c # NoCall /\ c.stage = "ship" /\ Own(r) /\ Shape(c)
      /\ c.returnStocks \in BOOLEAN
      /\ call'[r] = [c EXCEPT !.stage = "wait"]
      /\ \A q \in Request \ {r} : call'[q] = call[q]
      /\ \/ c.kind = "delete" /\ Delete(r, OfOrder(c.order), c.returnStocks)
         \/ /\ c.kind \in Saving /\ c.target = "sent_for_shipment"
            /\ CreateForOrder(r, c.order, c.held)
         \/ /\ c.kind \in Saving /\ c.target \in Status \ {"sent_for_shipment"}
            /\ ProcessOrder(r, c.order, c.target, c.returnStocks)
  BY ShipBegins
<1>2. PICK p \in Order : p = c.order
  BY <1>1 DEF CallRec
<1>3. /\ call'[r].kind = c.kind /\ call'[r].order = p /\ call'[r].target = c.target
      /\ call'[r].stage = "wait"
  BY <1>1, <1>2 DEF CallRec
<1>4. UNCHANGED <<olive, orow, lines, worth, reserved, handler, overlapped>>
  BY DEF Ship, rowVars, itemVars
<1>5. Matches(OfOrder(p)) = ShipmentsOf(p)
  BY OfOrderMatches DEF Base
<1>6. ShipmentsOf(p) \in SUBSET Shipment /\ \A s \in ShipmentsOf(p) : row[s].order = p
  BY LiveIds DEF Base, ShipmentsOf
<1>8. ASSUME Undisturbed(r), events' = events
      PROVE  \A st \in Status : ~Pending(call[r].order, st)'
  <2>1. \A st \in Status : ~Pending(p, st)
    BY <1>1, <1>2, <1>8, NothingPending
  <2> QED BY <1>3, <1>4, <1>8, <2>1 DEF Pending, Handled, On
<1>9. ASSUME NEW S \in SUBSET ShipmentsOf(p), StartJobs(r, S, c.target, c.returnStocks),
             c.target \in Status \cup {Deleted},
             NEW stage \in {"run", "delete"}, pc' = [pc EXCEPT ![r] = stage],
             \A q \in Request \ {r} : filter'[q] = filter[q], c.kind # "shipment",
             c.kind \in Saving => \A s \in ShipmentsOf(p) \ S : row[s].status = c.target,
             UNCHANGED <<shipmentVars, plan, made, events, aborts>>
      PROVE  ConsistentInv'
  <2>1. pc'[r] = stage /\ \A q \in Request \ {r} : pc'[q] = pc[q]
    BY <1>9 DEF Base, CallTypes
  <2>2. S \in SUBSET Shipment
    BY <1>6
  <2>3. /\ \A q \in Request \ {r} : job'[q] = job[q]
        /\ \A s \in S : job'[r][s] # NoJob
    <3>1. \A v : v \in BOOLEAN /\ StartJobs(r, S, c.target, v) =>
            /\ \A q \in Request \ {r} : job'[q] = job[q]
            /\ \A s \in S : job'[r][s] # NoJob
      BY <1>9, <2>2, JobTyped
    <3> QED BY <1>1, <1>9, <3>1
  <2>4. Others(r)
    BY <1>1, <1>9, <2>1, <2>3 DEF Others
  <2>5. \A o \in Order : SameShipments(o)
    BY <1>9 DEF SameShipments, ShipmentsOf, shipmentVars
  <2>6. ASSUME Undisturbed(r) PROVE ShipmentsAgree(r)'
    <3>1. ShipmentsOf(call[r].order)' = ShipmentsOf(p) /\ row' = row
      BY <1>3, <1>9 DEF ShipmentsOf, shipmentVars
    <3>2. c.kind \in Saving => \A s \in ShipmentsOf(p) : row'[s].status = c.target \/ job'[r][s] # NoJob
      BY <1>9, <2>3, <3>1
    <3>3. \A st \in Status : ~Pending(call[r].order, st)'
      BY <1>8, <1>9, <2>6
    <3> HIDE DEF c
    <3>4. call'[r].kind # "shipment"
      BY <1>3, <1>9 DEF c
    <3>5. call'[r].kind \in Saving =>
            \A s \in ShipmentsOf(call[r].order)' : row'[s].status = call'[r].target \/ job'[r][s] # NoJob
      BY <1>3, <3>1, <3>2
    <3> QED BY <3>3, <3>4, <3>5 DEF ShipmentsAgree
  <2> QED BY <1>1, <1>4, <1>9, <2>4, <2>5, <2>6, WaitConsistent
<1>10. CASE c.kind = "delete" /\ Delete(r, OfOrder(c.order), c.returnStocks)
  <2>1. PICK S \in SUBSET ShipmentsOf(p) :
          S = {s \in ShipmentsOf(p) : c.returnStocks /\ row[s].status = "shipped"}
    OBVIOUS
  <2>2. c.target = Deleted /\ c.kind \notin Saving /\ c.kind # "shipment"
    BY <1>1, <1>10 DEF Shape, Saving
  <2>3. StartJobs(r, S, c.target, c.returnStocks)
    BY <1>2, <1>5, <1>10, <2>1, <2>2 DEF Delete
  <2>4. /\ pc' = [pc EXCEPT ![r] = "delete"] /\ filter' = [filter EXCEPT ![r] = OfOrder(c.order)]
        /\ UNCHANGED <<shipmentVars, plan, made, events, aborts>>
    BY <1>10 DEF Delete
  <2>5. \A q \in Request \ {r} : filter'[q] = filter[q]
    BY <2>4 DEF Base, CallTypes
  <2> QED BY <1>9, <2>2, <2>3, <2>4, <2>5
<1>11. CASE c.kind \in Saving /\ c.target \in Status \ {"sent_for_shipment"}
              /\ ProcessOrder(r, c.order, c.target, c.returnStocks)
  <2>1. PICK S \in SUBSET ShipmentsOf(p) : S = {s \in ShipmentsOf(p) : row[s].status # c.target}
    OBVIOUS
  <2>2. StartJobs(r, S, c.target, c.returnStocks)
    BY <1>2, <1>5, <1>11, <2>1 DEF ProcessOrder
  <2>3. /\ pc' = [pc EXCEPT ![r] = "run"] /\ \A q \in Request \ {r} : filter'[q] = filter[q]
        /\ UNCHANGED <<shipmentVars, plan, made, events, aborts>>
    BY <1>11 DEF ProcessOrder, createVars
  <2>4. \A s \in ShipmentsOf(p) \ S : row[s].status = c.target
    BY <2>1
  <2>5. c.kind # "shipment"
    BY <1>11 DEF Saving
  <2> QED BY <1>9, <1>11, <2>2, <2>3, <2>4, <2>5
<1>12. CASE /\ c.kind \in Saving /\ c.target = "sent_for_shipment"
            /\ CreateForOrder(r, c.order, c.held)
  <2>1. Replaced(p) = ShipmentsOf(p)
    BY <1>5 DEF Replaced
  <2>2. /\ live' = live \ ShipmentsOf(p)
        /\ items' = [s \in Shipment |-> IF s \in ShipmentsOf(p) THEN [l \in Line |-> 0] ELSE items[s]]
        /\ pc' = [pc EXCEPT ![r] = "create"] /\ filter' = [filter EXCEPT ![r] = OfOrder(c.order)]
        /\ plan' = [plan EXCEPT ![r] = c.held]
        /\ UNCHANGED <<row, lastId, made, job, events, aborts>>
    BY <1>2, <1>12, <2>1 DEF CreateForOrder, jobVars
  <2>4. Others(r)
    BY <1>1, <2>2 DEF Others, Base, CallTypes
  <2>5. \A o \in Order \ {p} : SameShipments(o)
    <3>1. \A s \in ShipmentsOf(p) : (s \in live => row[s].order = p) /\ (s \in live' => row'[s].order = p)
      BY <1>6, <2>2
    <3>2. \A s \in Shipment \ ShipmentsOf(p) :
             (s \in live' <=> s \in live) /\ row'[s] = row[s] /\ items'[s] = items[s]
      BY <2>2
    <3> QED BY <1>6, <3>1, <3>2, OthersShipments DEF Base
  <2>6. ShipmentsOf(call[r].order)' = {}
    BY <1>3, <2>2 DEF ShipmentsOf
  <2>7. ASSUME Undisturbed(r) PROVE ShipmentsAgree(r)'
    <3>1. \A st \in Status : ~Pending(call[r].order, st)'
      BY <1>8, <2>2, <2>7
    <3>2. call'[r].kind # "shipment"
      BY <1>3, <1>12 DEF Saving
    <3> QED BY <2>6, <3>1, <3>2 DEF ShipmentsAgree
  <2> QED BY <1>1, <1>2, <1>4, <2>2, <2>4, <2>5, <2>7, WaitConsistent
<1> QED BY <1>1, <1>10, <1>11, <1>12

(* A step that leaves the rows, the jobs and the events alone. *)
LEMMA ShipmentsKept ==
  ASSUME Base, NEW r \in Request, call[r].stage = "wait", Consistent(call[r].order), Agreeing(r),
         Calls(call[r].order) = {r}, UNCHANGED <<live, row, job, events, call, handler, orow>>
  PROVE  ShipmentsAgree(r)'
<1> DEFINE c == call[r]
           p == c.order
<1>1. /\ \A st \in Status : Pending(p, st) => \E s \in ShipmentsOf(p) : row[s].status = st
      /\ c.kind = "shipment" => Agree(p) \/ \E st \in Status : Pending(p, st)
  BY DEF Consistent
<1>2. c.kind \in Saving => \A s \in ShipmentsOf(p) : row[s].status = c.target \/ job[r][s] # NoJob
  BY DEF Agreeing
<1> QED BY <1>1, <1>2 DEF ShipmentsAgree, Pending, Handled, On, ShipmentsOf, Agree

LEMMA SaveShipmentConsistent ==
  ASSUME OrdersAssumption, Base, Base', SingleInv, SingleInv', ConsistentInv, Clean, Clean',
         NEW r \in Request, At(r, "wait"), NEW s \in Shipment, SaveShipment(r, s), UNCHANGED orderVars
  PROVE  ConsistentInv'
<1> DEFINE c == call[r]
<1>1. c \in CallRec /\ c.stage = "wait" /\ Shape(c) /\ Own(r) /\ c.order \in Order
  BY WaitingCall
<1>2. /\ c.target \in Status
      /\ row[s].order = c.order /\ row'[s].order = c.order /\ row'[s].status = c.target
      /\ \A t \in Shipment \ {s} : row'[t] = row[t]
      /\ live' = live \cup {s} /\ events'[<<c.order, c.target>>] > 0
      /\ \A o \in Order, st \in Status :
           <<o, st>> # <<c.order, c.target>> => events'[<<o, st>>] = events[<<o, st>>]
      /\ \A t \in Shipment \ {s} : job'[r][t] = job[r][t]
      /\ \A q \in Request \ {r} : job'[q] = job[q]
      /\ UNCHANGED <<items, pc, createVars>>
  BY SaveShipmentDoes
<1>3. /\ call'[r] = [c EXCEPT !.stage = "wait"] /\ c.stage \in {"ship", "wait"} /\ call' = call
      /\ UNCHANGED <<olive, orow, lines, worth, reserved, handler, overlapped>>
  BY WaitStays
<1>4. Others(r)
  BY <1>2, <1>3 DEF Others, createVars
<1>5. PICK p \in Order : p = c.order
  BY <1>1
<1>6. \A o \in Order \ {p} : SameShipments(o)
  <2>1. {s} \in SUBSET Shipment
    OBVIOUS
  <2>2. \A t \in {s} : (t \in live => row[t].order = p) /\ (t \in live' => row'[t].order = p)
    BY <1>2, <1>5
  <2>3. \A t \in Shipment \ {s} : (t \in live' <=> t \in live) /\ row'[t] = row[t] /\ items'[t] = items[t]
    BY <1>2
  <2> QED BY <2>1, <2>2, <2>3, OthersShipments DEF Base
<1>7. \A o \in Order \ {p}, st \in Status : events'[<<o, st>>] = events[<<o, st>>]
  BY <1>2, <1>5
<1>9. ASSUME Undisturbed(r)', Consistent(p) PROVE ShipmentsAgree(r)'
  <2>1. s \in ShipmentsOf(p)'
    BY <1>2, <1>5 DEF ShipmentsOf
  <2>2. \A st \in Status : Pending(p, st)' => st = c.target
    BY <1>3, <1>5, <1>9 DEF Undisturbed, Pending, Handled, On
  <2>3. Pending(p, c.target)'
    BY <1>2, <1>3, <1>5 DEF Pending
  <2>4. c.kind \in Saving => \A t \in ShipmentsOf(p)' : row'[t].status = c.target \/ job'[r][t] # NoJob
    <3> SUFFICES ASSUME c.kind \in Saving, NEW t \in ShipmentsOf(p)', t # s
                 PROVE  row'[t].status = c.target \/ job'[r][t] # NoJob
      BY <1>2
    <3>1. t \in Shipment
      BY LiveIds, <1>2 DEF ShipmentsOf, Base
    <3>2. t \in ShipmentsOf(p)
      BY <1>2, <3>1 DEF ShipmentsOf
    <3>3. Agreeing(r)
      BY <1>1, <1>5, <1>9 DEF Consistent, Calls, Active, Ended
    <3> QED BY <1>1, <1>2, <1>5, <3>1, <3>2, <3>3 DEF Agreeing
  <2>5. ShipmentsOf(call[r].order)' = ShipmentsOf(p)'
    BY <1>3, <1>5 DEF ShipmentsOf
  <2>6. \A st \in Status : Pending(call[r].order, st)' <=> Pending(p, st)'
    BY <1>3, <1>5 DEF Pending, Handled, On
  <2> HIDE DEF c
  <2>7. call'[r].kind = c.kind /\ call'[r].target = c.target
    BY <1>3 DEF c
  <2>8. row'[s].status = c.target /\ c.target \in Status
    BY <1>2
  <2>9. c.target = c.target' 
    BY <1>3 DEF c
  <2>10. \E st \in Status : Pending(call[r].order, st)'
    BY <2>3, <2>6, <2>8, <2>9
  <2> QED BY <2>1, <2>2, <2>4, <2>5, <2>6, <2>7, <2>8, <2>10 DEF ShipmentsAgree
<1> QED BY <1>3, <1>4, <1>5, <1>6, <1>7, <1>9, WaitConsistent

LEMMA CreateShipmentConsistent ==
  ASSUME OrdersAssumption, Base, Base', SingleInv, SingleInv', ConsistentInv, Clean, Clean',
         NEW r \in Request, At(r, "wait"), NEW w \in Warehouse, CreateShipment(r, w),
         UNCHANGED orderVars
  PROVE  ConsistentInv'
<1> DEFINE c == call[r]
<1>1. c \in CallRec /\ c.stage = "wait" /\ Shape(c) /\ Own(r) /\ c.order \in Order
  BY WaitingCall
<1>0. PICK s \in Shipment : s = lastId + 1
  BY CreateShipmentDoes
<1>2. /\ pc[r] = "create" /\ live' = live \cup {s} /\ lastId \in Nat
      /\ row'[s].order = c.order /\ row'[s].status = "sent_for_shipment"
      /\ \A t \in Shipment \ {s} : row'[t] = row[t]
      /\ \A q \in Request \ {r} : made'[q] = made[q]
      /\ UNCHANGED <<items, pc, filter, plan, job, events>>
  BY <1>0, CreateShipmentDoes
<1>3. /\ call'[r] = [c EXCEPT !.stage = "wait"] /\ c.stage \in {"ship", "wait"} /\ call' = call
      /\ UNCHANGED <<olive, orow, lines, worth, reserved, handler, overlapped>>
  BY WaitStays
<1>4. Others(r)
  BY <1>2, <1>3 DEF Others
<1>5. PICK p \in Order : p = c.order
  BY <1>1
<1>6. s \notin live /\ live \subseteq Shipment
  BY <1>0, <1>2, LiveIds DEF Base, RowTypes
<1>7. \A o \in Order \ {p} : SameShipments(o)
  <2>1. {s} \in SUBSET Shipment
    OBVIOUS
  <2>2. \A t \in {s} : (t \in live => row[t].order = p) /\ (t \in live' => row'[t].order = p)
    BY <1>2, <1>5, <1>6
  <2>3. \A t \in Shipment \ {s} : (t \in live' <=> t \in live) /\ row'[t] = row[t] /\ items'[t] = items[t]
    BY <1>2
  <2> QED BY <2>1, <2>2, <2>3, OthersShipments DEF Base
<1>8. c.kind \in Saving /\ c.target = "sent_for_shipment"
  BY <1>1, <1>2 DEF Own
<1>9. ASSUME Undisturbed(r)', Consistent(p) PROVE ShipmentsAgree(r)'
  <2>1. \A st \in Status : ~Pending(call[r].order, st)'
    BY <1>1, <1>3, <1>8, <1>9 DEF Undisturbed, Sends
  <2>2. ASSUME NEW t \in ShipmentsOf(p)', t # s PROVE row'[t].status = c.target \/ job'[r][t] # NoJob
    <3>1. t \in Shipment /\ t \in live
      BY <1>2, <1>6, <2>2 DEF ShipmentsOf
    <3>2. t \in ShipmentsOf(p)
      BY <1>2, <2>2, <3>1 DEF ShipmentsOf
    <3>3. Agreeing(r)
      BY <1>1, <1>5, <1>9 DEF Consistent, Calls, Active, Ended
    <3> QED BY <1>1, <1>2, <1>5, <1>8, <2>2, <3>1, <3>2, <3>3 DEF Agreeing
  <2>3. ShipmentsOf(call[r].order)' = ShipmentsOf(p)'
    BY <1>3, <1>5 DEF ShipmentsOf
  <2>4. call'[r].kind # "shipment" /\ call'[r].target = c.target
    BY <1>3, <1>8 DEF Saving
  <2>5. \A t \in ShipmentsOf(call[r].order)' : row'[t].status = c.target \/ job'[r][t] # NoJob
    BY <1>2, <1>8, <2>2, <2>3
  <2> HIDE DEF c
  <2> QED BY <2>1, <2>4, <2>5 DEF ShipmentsAgree
<1> QED BY <1>2, <1>3, <1>4, <1>5, <1>7, <1>9, WaitConsistent

LEMMA WaitingKept ==
  ASSUME OrdersAssumption, Base, Base', SingleInv, SingleInv', ConsistentInv, Clean, Clean',
         NEW r \in Request, At(r, "wait"), UNCHANGED orderVars, Others(r),
         \A o \in Order \ {call[r].order} : SameShipments(o), UNCHANGED <<live, row, events>>,
         Undisturbed(r) /\ pc'[r] # "failed" => job' = job
  PROVE  ConsistentInv'
<1>1. /\ call'[r] = [call[r] EXCEPT !.stage = "wait"] /\ call[r].stage = "wait" /\ call' = call
      /\ UNCHANGED <<olive, orow, lines, worth, reserved, handler, overlapped>>
  BY WaitStays DEF At
<1>2. ASSUME Undisturbed(r), Consistent(call[r].order), pc'[r] # "failed", Calls(call[r].order) = {r}
      PROVE  ShipmentsAgree(r)'
  <2>1. Agreeing(r)
    BY <1>2 DEF Consistent
  <2> QED BY <1>1, <1>2, <2>1, ShipmentsKept
<1> QED BY <1>1, <1>2, WaitConsistent

LEMMA CreateItemConsistent ==
  ASSUME OrdersAssumption, Base, Base', SingleInv, SingleInv', ConsistentInv, Clean, Clean',
         NEW r \in Request, At(r, "wait"), NEW l \in Line, NEW w \in Warehouse, CreateItem(r, l, w),
         UNCHANGED orderVars
  PROVE  ConsistentInv'
<1> DEFINE c == call[r]
           s == made[r][w]
<1>1. /\ s \in Shipment /\ row[s].order = c.order
      /\ UNCHANGED <<live, row, job, events>>
      /\ \/ /\ items' = [items EXCEPT ![s][l] = plan[r][l][w]]
            /\ plan' = [plan EXCEPT ![r][l][w] = 0] /\ UNCHANGED <<pc, filter, made>>
         \/ /\ pc' = [pc EXCEPT ![r] = "failed"] /\ plan' = [plan EXCEPT ![r] = Nothing]
            /\ made' = [made EXCEPT ![r] = [y \in Warehouse |-> 0]]
            /\ filter' = [filter EXCEPT ![r] = NoFilter] /\ UNCHANGED items
  BY CreateItemDoes
<1>2. call' = call
  BY WaitStays
<1>3. PICK p \in Order : p = c.order
  BY WaitingCall
<1>4. \A t \in Shipment \ {s} : items'[t] = items[t]
  <2>1. items \in [Shipment -> [Line -> Nat]]
    BY DEF Base, RowTypes
  <2> HIDE DEF s
  <2> QED BY <1>1, <2>1
<1>5. Others(r)
  <2>1. /\ \A q \in Request \ {r} : pc'[q] = pc[q] /\ filter'[q] = filter[q] /\ made'[q] = made[q]
        /\ \A q \in Request \ {r} : plan'[q] = plan[q]
    <3>1. CallTypes
      BY DEF Base
    <3> HIDE DEF s
    <3>2. CASE plan' = [plan EXCEPT ![r][l][w] = 0] /\ UNCHANGED <<pc, filter, made>>
      BY <3>1, <3>2, PlanTyped
    <3>3. CASE /\ pc' = [pc EXCEPT ![r] = "failed"] /\ plan' = [plan EXCEPT ![r] = Nothing]
               /\ made' = [made EXCEPT ![r] = [y \in Warehouse |-> 0]]
               /\ filter' = [filter EXCEPT ![r] = NoFilter]
      BY <3>1, <3>3 DEF CallTypes
    <3> QED BY <1>1, <3>2, <3>3
  <2> QED BY <1>1, <1>2, <2>1 DEF Others
<1>6. \A o \in Order \ {p} : SameShipments(o)
  <2>1. {s} \in SUBSET Shipment
    BY <1>1
  <2>2. \A t \in {s} : (t \in live => row[t].order = p) /\ (t \in live' => row'[t].order = p)
    BY <1>1, <1>3
  <2>3. \A t \in Shipment \ {s} : (t \in live' <=> t \in live) /\ row'[t] = row[t] /\ items'[t] = items[t]
    BY <1>1, <1>4
  <2> QED BY <2>1, <2>2, <2>3, OthersShipments DEF Base
<1> QED BY <1>1, <1>3, <1>5, <1>6, WaitingKept

LEMMA DeleteRowsConsistent ==
  ASSUME OrdersAssumption, Base, Base', SingleInv, SingleInv', ConsistentInv, Clean, Clean',
         NEW r \in Request, At(r, "wait"), DeleteRows(r), UNCHANGED orderVars
  PROVE  ConsistentInv'
<1> DEFINE c == call[r]
<1>1. c \in CallRec /\ c.stage = "wait" /\ Own(r) /\ Shape(c) /\ c.order \in Order
  BY WaitingCall
<1>0. PICK p \in Order : p = c.order
  BY <1>1
<1>2. /\ pc[r] = "delete" /\ live' = live \ ShipmentsOf(p)
      /\ items' = [s \in Shipment |-> IF s \in ShipmentsOf(p) THEN [l \in Line |-> 0] ELSE items[s]]
      /\ job' = [job EXCEPT ![r] = [s \in Shipment |-> NoJob]]
      /\ filter' = [filter EXCEPT ![r] = NoFilter] /\ pc' = [pc EXCEPT ![r] = "done"]
      /\ UNCHANGED <<row, lastId, plan, made, events>>
  BY <1>0, DeleteRowsDoes
<1>3. /\ call'[r] = [c EXCEPT !.stage = "wait"] /\ c.stage \in {"ship", "wait"} /\ call' = call
      /\ UNCHANGED <<olive, orow, lines, worth, reserved, handler, overlapped>>
  BY WaitStays
<1>4. Others(r)
  BY <1>2, <1>3 DEF Base, CallTypes, Others
<1>5. \A o \in Order \ {p} : SameShipments(o)
  <2>1. ShipmentsOf(p) \in SUBSET Shipment
    BY LiveIds DEF Base, ShipmentsOf
  <2>2. \A s \in ShipmentsOf(p) : (s \in live => row[s].order = p) /\ (s \in live' => row'[s].order = p)
    BY <1>2 DEF ShipmentsOf
  <2>3. \A s \in Shipment \ ShipmentsOf(p) :
          (s \in live' <=> s \in live) /\ row'[s] = row[s] /\ items'[s] = items[s]
    BY <1>2
  <2> QED BY <2>1, <2>2, <2>3, OthersShipments DEF Base
<1>6. c.kind = "delete"
  BY <1>1, <1>2 DEF Own
<1>7. ASSUME Undisturbed(r)' PROVE ShipmentsAgree(r)'
  <2>1. \A st \in Status : ~Pending(call[r].order, st)'
    BY <1>3, <1>6, <1>7 DEF Undisturbed
  <2>2. call'[r].kind \notin Saving \cup {"shipment"}
    BY <1>3, <1>6 DEF Saving
  <2> QED BY <2>1, <2>2 DEF ShipmentsAgree
<1> QED BY <1>0, <1>2, <1>3, <1>4, <1>5, <1>7, WaitConsistent

LEMMA ReturnConsistent ==
  ASSUME OrdersAssumption, Base, Base', SingleInv, SingleInv', ConsistentInv, Clean, Clean',
         NEW r \in Request, At(r, "wait"), Return(r), UNCHANGED orderVars
  PROVE  ConsistentInv'
<1>1. /\ pc' = [pc EXCEPT ![r] = "done"] /\ made' = [made EXCEPT ![r] = [w \in Warehouse |-> 0]]
      /\ filter' = [filter EXCEPT ![r] = NoFilter]
      /\ UNCHANGED <<live, row, items, plan, job, events>>
  BY DEF Return, shipmentVars, jobVars
<1>2. call' = call
  BY WaitStays
<1>3. Others(r)
  BY <1>1, <1>2 DEF Base, CallTypes, Others
<1>4. \A o \in Order : SameShipments(o)
  BY <1>1 DEF SameShipments, ShipmentsOf
<1> QED BY <1>1, <1>3, <1>4, WaitingKept

LEMMA LoseConsistent ==
  ASSUME OrdersAssumption, Base, Base', SingleInv, SingleInv', ConsistentInv, Clean, Clean',
         NEW r \in Request, At(r, "wait"), Lose(r), UNCHANGED orderVars
  PROVE  ConsistentInv'
<1>1. /\ pc' = [pc EXCEPT ![r] = "failed"] /\ made' = [made EXCEPT ![r] = [w \in Warehouse |-> 0]]
      /\ job' = [job EXCEPT ![r] = [s \in Shipment |-> NoJob]]
      /\ plan' = [plan EXCEPT ![r] = Nothing]
      /\ filter' = [filter EXCEPT ![r] = NoFilter]
      /\ UNCHANGED <<live, row, items, events>>
  BY DEF Lose, shipmentVars, Nothing
<1>2. call' = call
  BY WaitStays
<1>3. pc'[r] = "failed" /\ Others(r)
  BY <1>1, <1>2 DEF Base, CallTypes, Jobs, Others
<1>4. \A o \in Order : SameShipments(o)
  BY <1>1 DEF SameShipments, ShipmentsOf
<1> QED BY <1>1, <1>3, <1>4, WaitingKept

LEMMA StockConsistent == ASSUME Base, Base', ConsistentInv, Clean, StockOnly PROVE ConsistentInv'
<1>1. overlapped' = overlapped
  BY DEF StockOnly, orderVars
<1> QED BY <1>1, StockSame, KeepConsistent DEF ConsistentInv

LEMMA ShipmentStepConsistent ==
  ASSUME OrdersAssumption, Base, Base', SingleInv, SingleInv', ConsistentInv, Clean, Clean',
         NEW r \in Request, ShipmentStep(r)
  PROVE  ConsistentInv'
<1>1. At(r, "wait") /\ UNCHANGED orderVars
  BY ShipmentStepCases
<1>2. CASE StockOnly
  BY <1>2, StockConsistent
<1>3. CASE \E s \in Shipment : SaveShipment(r, s)
  BY <1>1, <1>3, SaveShipmentConsistent
<1>4. CASE \E w \in Warehouse : CreateShipment(r, w)
  BY <1>1, <1>4, CreateShipmentConsistent
<1>5. CASE \E w \in Warehouse, l \in Line : CreateItem(r, l, w)
  BY <1>1, <1>5, CreateItemConsistent
<1>6. CASE DeleteRows(r)
  BY <1>1, <1>6, DeleteRowsConsistent
<1>7. CASE Return(r)
  BY <1>1, <1>7, ReturnConsistent
<1>8. CASE Lose(r)
  BY <1>1, <1>8, LoseConsistent
<1> QED BY <1>2, <1>3, <1>4, <1>5, <1>6, <1>7, <1>8, ShipmentStepCases

LEMMA EndCallConsistent ==
  ASSUME OrdersAssumption, Base, Base', SingleInv, SingleInv', ConsistentInv, Clean, Clean',
         NEW r \in Request, EndCall(r)
  PROVE  ConsistentInv'
<1> DEFINE c == call[r]
<1>0. PICK p \in Order : p = c.order
  BY EndCallDoes
<1>1. /\ c \in CallRec /\ c.stage = "wait" /\ Shape(c) /\ Own(r) /\ pc[r] \in {"done", "failed"}
      /\ call'[r] = [c EXCEPT !.stage = pc[r]] /\ \A q \in Request \ {r} : call'[q] = call[q]
      /\ Others(r)
      /\ \A o \in Order \ {p} : SameColumns(o) /\ SameShipments(o)
      /\ UNCHANGED <<events, orow, worth, handler, overlapped>>
      /\ pc[r] = "failed" \/ c.kind # "delete" => SameColumns(p) /\ SameShipments(p)
  BY <1>0, EndCallDoes
<1>2. pc[r] = "done" /\ call'[r].order = p /\ call'[r].stage \in Ended /\ call'[r] # NoCall
  <2>1. call'[r].order = p /\ call'[r].stage = pc[r]
    BY <1>0, <1>1 DEF CallRec
  <2>2. pc[r] = "done"
    BY <1>1, <2>1 DEF Clean
  <2> QED BY <2>1, <2>2 DEF Ended, NoCall
<1>3. \A o \in Order \ {p} : SameOrder(o)
  <2>1. c # NoCall /\ c.order = call'[r].order
    BY <1>0, <1>1, <1>2, RecNotNoCall
  <2> QED BY <1>1, <1>2, <2>1, ShipmentLocal
<1>4. ASSUME p \notin overlapped' PROVE Consistent(p)'
  <2>1. Undisturbed(r) /\ Consistent(p) /\ Agreeing(r) /\ Totals(r) /\ Calls(p) = {r}
    BY <1>0, <1>1, <1>4, OnlyCall DEF Ended
  <2>2. Calls(p)' = {}
    BY <1>1, <1>2, <2>1 DEF Calls, Active
  <2>3. orow'[p].total = worth'[p]
    BY <1>0, <1>1, <2>1 DEF Totals
  <2>4. \A st \in Status : Pending(p, st)' <=> Pending(p, st)
    BY <1>1 DEF Pending, Handled, On
  <2>5. CASE c.kind = "delete"
    <3>1. ShipmentsOf(p)' = {}
      <4>1. ShipmentsOf(call[r].order)' = {}
        BY <1>2, <2>5, EndCallDoes
      <4> QED BY <1>2, <4>1 DEF ShipmentsOf
    <3>2. \A st \in Status : ~Pending(p, st)
      BY <1>0, <2>1, <2>5 DEF Undisturbed
    <3> QED BY <2>2, <2>3, <2>4, <3>1, <3>2 DEF Consistent, Agree
  <2>6. CASE c.kind # "delete"
    <3>1. SameColumns(p) /\ SameShipments(p)
      BY <1>1, <2>6
    <3>2. Agree(p)' <=> Agree(p)
      BY <3>1, KeepAgree DEF SameColumns
    <3>3. \A st \in Status : Pending(p, st)' => \E s \in ShipmentsOf(p)' : row'[s].status = st
      BY <2>1, <2>4, <3>1 DEF Consistent, SameShipments
    <3>4. Agree(p) \/ \E st \in Status : Pending(p, st)
      <4>1. CASE c.kind = "shipment"
        BY <2>1, <4>1 DEF Consistent
      <4>2. CASE c.kind \in Saving
        <5>1. \A s \in Shipment : job[r][s] = NoJob
          BY <1>1, <1>2 DEF Own
        <5>2. \A s \in ShipmentsOf(p) : row[s].status = c.target
          BY <1>0, <1>1, <2>1, <4>2, <5>1, LiveIds DEF Agreeing, ShipmentsOf, Base
        <5>3. orow[p].status = c.target
          BY <1>0, <1>1, <2>1, <4>2 DEF Undisturbed, Shape
        <5> QED BY <5>2, <5>3 DEF Agree
      <4> QED BY <1>1, <2>6, <4>1, <4>2 DEF CallRec, Saving
    <3>5. Agree(p)' \/ \E st \in Status : Pending(p, st)'
      BY <2>4, <3>2, <3>4
    <3> QED BY <2>2, <2>3, <3>3, <3>5 DEF Consistent
  <2> QED BY <2>5, <2>6
<1>5. overlapped \subseteq overlapped'
  BY <1>1
<1> QED BY <1>3, <1>4, <1>5, ConsistentFrom
------------------------------------------------------------------------------
(* The handlers. *)
LEMMA HandlerConsistent ==
  ASSUME Base, Base', NEW p \in Order, Consistent(p),
         UNCHANGED <<shipmentVars, job, call, worth>>, orow'[p].total = orow[p].total,
         \A st \in Status : Pending(p, st)' => Pending(p, st),
         orow'[p] = orow[p] \/ \A r \in Calls(p) : call[r].kind = "shipment",
         Agree(p)' \/ (\E st \in Status : Pending(p, st)') \/ \E r \in Calls(p) : call[r].kind # "shipment"
  PROVE  Consistent(p)'
<1>1. Calls(p)' = Calls(p)
  BY DEF Calls, Active
<1>2. ShipmentsOf(p)' = ShipmentsOf(p) /\ row' = row
  BY DEF ShipmentsOf, shipmentVars
<1>3. ASSUME NEW r \in Calls(p) PROVE Agreeing(r)'
  <2>1. Agreeing(r) /\ call[r].order = p
    BY DEF Consistent, Calls
  <2>2. CASE call[r].kind = "shipment"
    BY <2>2 DEF Agreeing, Saving
  <2>3. CASE orow'[p] = orow[p]
    <3>1. Agree(call[r].order)' <=> Agree(p)
      BY <1>2, <2>1, <2>3 DEF Agree, ShipmentsOf
    <3> QED BY <1>2, <2>1, <3>1 DEF Agreeing, ShipmentsOf
  <2> QED BY <2>2, <2>3
<1>4. (\A r \in Calls(p)' : call'[r].stage \notin {"read", "items"}) => orow'[p].total = worth'[p]
  BY <1>1 DEF Consistent
<1>5. \A st \in Status : Pending(p, st)' => \E s \in ShipmentsOf(p)' : row'[s].status = st
  BY <1>2 DEF Consistent
<1>6. (\A r \in Calls(p)' : call'[r].kind = "shipment") => Agree(p)' \/ \E st \in Status : Pending(p, st)'
  BY <1>1
<1> QED BY <1>1, <1>3, <1>4, <1>5, <1>6 DEF Consistent

LEMMA TakeEventConsistent ==
  ASSUME OrdersAssumption, Base, Base', SingleInv, ConsistentInv, Clean, Clean',
         NEW h \in Handler, NEW p \in Order, NEW st \in Status, TakeEvent(h, p, st)
  PROVE  ConsistentInv'
<1>1. /\ events[<<p, st>>] > 0
      /\ \A x \in Status : events'[<<p, x>>] > 0 => events[<<p, x>>] > 0
      /\ UNCHANGED <<shipmentVars, job, orow, worth, call>>
      /\ overlapped \subseteq overlapped'
      /\ \A o \in Order \ {p} : SameOrder(o)
      /\ \/ ~(p \in olive /\ orow[p].status # st) /\ handler' = handler
         \/ /\ handler'[h] # Resting /\ handler'[h].order = p /\ handler'[h].row.status = st
            /\ \A g \in Handler \ {h} : handler'[g] = handler[g]
  BY TakeEventDoes
<1>2. ASSUME p \notin overlapped' PROVE Consistent(p)'
  <2>1. Consistent(p)
    BY <1>1, <1>2 DEF ConsistentInv
  <2>2. \A x \in Status : Handled(p, x)' => Handled(p, x) \/ x = st
    BY <1>1 DEF Handled, On
  <2>3. \A x \in Status : Pending(p, x)' => Pending(p, x)
    BY <1>1, <2>2 DEF Pending
  <2>4. Agree(p)' \/ \E x \in Status : Pending(p, x)'
    <3>1. CASE ~(p \in olive /\ orow[p].status # st)
      <4>1. PICK s \in ShipmentsOf(p) : row[s].status = st
        BY <1>1, <2>1 DEF Consistent, Pending
      <4>2. p \in olive
        BY <4>1 DEF Base, RowsFit, ShipmentsOf
      <4>3. Agree(p)
        BY <3>1, <4>1, <4>2 DEF Agree
      <4> QED BY <1>1, <4>3 DEF Agree, ShipmentsOf, shipmentVars
    <3>2. CASE handler'[h] # Resting /\ handler'[h].order = p /\ handler'[h].row.status = st
      BY <3>2 DEF Pending, Handled, On
    <3> QED BY <1>1, <3>1, <3>2
  <2> QED BY <1>1, <2>1, <2>3, <2>4, HandlerConsistent
<1> QED BY <1>1, <1>2, ConsistentFrom

(* A handler at work finds a shipment with the status it writes. *)
LEMMA HandlerAgrees ==
  ASSUME Base, NEW p \in Order, Single(p), Consistent(p), NEW h \in Handler, On(h, p)
  PROVE  /\ \A r \in Calls(p) : call[r].kind = "shipment"
         /\ handler[h].row.total = orow[p].total
         /\ \E s \in ShipmentsOf(p) : row[s].status = handler[h].row.status
<1>1. /\ \A r \in Calls(p) : call[r].kind = "shipment"
      /\ handler[h] \in HandlerRec /\ Pending(p, handler[h].row.status)
  BY HandledCalls
<1>2. handler[h].row.status \in Status
  BY <1>1 DEF HandlerRec
<1>3. handler[h].row.total = orow[p].total
  BY DEF Single
<1>4. \E s \in ShipmentsOf(p) : row[s].status = handler[h].row.status
  BY <1>1, <1>2 DEF Consistent
<1> QED BY <1>1, <1>3, <1>4

LEMMA SaveHandledConsistent ==
  ASSUME OrdersAssumption, Base, Base', SingleInv, ConsistentInv, Clean, Clean',
         NEW h \in Handler, SaveHandled(h)
  PROVE  ConsistentInv'
<1> DEFINE c == handler[h]
<1>0. PICK p \in Order : p = c.order
  BY SaveHandledDoes
<1>1. /\ c \in HandlerRec /\ On(h, p) /\ orow'[p] = c.row
      /\ \/ handler'[h] = [c EXCEPT !.stage = "release"]
         \/ handler'[h] = Resting
      /\ \A g \in Handler \ {h} : handler'[g] = handler[g]
      /\ UNCHANGED <<shipmentVars, job, events, worth, call, overlapped>>
      /\ \A o \in Order \ {p} : SameOrder(o)
  BY <1>0, SaveHandledDoes
<1>2. ASSUME p \notin overlapped' PROVE Consistent(p)'
  <2>1. Single(p) /\ Consistent(p)
    BY <1>1, <1>2 DEF SingleInv, ConsistentInv
  <2>2. /\ \A r \in Calls(p) : call[r].kind = "shipment"
        /\ c.row.total = orow[p].total
        /\ \E s \in ShipmentsOf(p) : row[s].status = c.row.status
    BY <1>1, <2>1, HandlerAgrees
  <2>3. \A g \in Handler : On(g, p)' => On(g, p) /\ handler'[g].row = handler[g].row
    BY <1>1 DEF On, HandlerRec
  <2>4. \A x \in Status : Pending(p, x)' => Pending(p, x)
    BY <1>1, <2>3 DEF Pending, Handled
  <2>5. Agree(p)'
    BY <1>1, <2>2 DEF Agree, ShipmentsOf, shipmentVars
  <2> QED BY <1>1, <2>1, <2>2, <2>4, <2>5, HandlerConsistent
<1>3. overlapped \subseteq overlapped'
  BY <1>1
<1> QED BY <1>1, <1>2, <1>3, ConsistentFrom

LEMMA ReleaseHandledConsistent ==
  ASSUME OrdersAssumption, Base, Base', SingleInv, ConsistentInv, Clean, Clean',
         NEW h \in Handler, ReleaseHandled(h)
  PROVE  ConsistentInv'
<1> DEFINE c == handler[h]
<1>0. PICK p \in Order : p = c.order
  BY ReleaseHandledDoes
<1>1. /\ c \in HandlerRec /\ On(h, p) /\ c.stage = "release" /\ handler'[h] = Resting
      /\ \A g \in Handler \ {h} : handler'[g] = handler[g]
      /\ UNCHANGED <<shipmentVars, job, events, orow, worth, call, overlapped>>
      /\ \A o \in Order \ {p} : SameOrder(o)
  BY <1>0, ReleaseHandledDoes
<1>2. ASSUME p \notin overlapped' PROVE Consistent(p)'
  <2>1. Single(p) /\ Consistent(p)
    BY <1>1, <1>2 DEF SingleInv, ConsistentInv
  <2>2. \E s \in ShipmentsOf(p) : row[s].status = c.row.status
    BY <1>1, <2>1, HandlerAgrees
  <2>3. orow[p].status = c.row.status
    BY <1>1, <2>1 DEF Single
  <2>4. \A g \in Handler : On(g, p)' => On(g, p) /\ handler'[g] = handler[g]
    BY <1>1 DEF On
  <2>5. \A x \in Status : Pending(p, x)' => Pending(p, x)
    BY <1>1, <2>4 DEF Pending, Handled
  <2>6. Agree(p)'
    BY <1>1, <2>2, <2>3 DEF Agree, ShipmentsOf, shipmentVars
  <2> QED BY <1>1, <2>1, <2>5, <2>6, HandlerConsistent
<1>3. overlapped \subseteq overlapped'
  BY <1>1
<1> QED BY <1>1, <1>2, <1>3, ConsistentFrom

LEMMA ConsistentInit == ASSUME OrdersAssumption, OrdersInit PROVE ConsistentInv
<1>1. Active = {} /\ \A o \in Order : orow[o].total = 0 /\ worth[o] = 0
  BY DEF OrdersInit, Active, NoCall, Ended
<1>2. live = {}
  BY DEF OrdersInit, Init, OrdersAssumption
<1>3. handler = [h \in Handler |-> Resting] /\ events = [e \in Order \X Status |-> 0]
  BY DEF OrdersInit, Init
<1>4. ASSUME NEW o \in Order, NEW st \in Status PROVE ~Pending(o, st)
  <2>1. events[<<o, st>>] = 0
    BY <1>3
  <2> QED BY <1>3, <2>1 DEF Pending, Handled, On
<1> QED BY <1>1, <1>2, <1>4 DEF ConsistentInv, Consistent, Calls, Agree, ShipmentsOf

LEMMA NextConsistent ==
  ASSUME OrdersAssumption, Base, Base', SingleInv, SingleInv', ConsistentInv, [OrdersNext]_allVars
  PROVE  ConsistentInv'
<1> SUFFICES ASSUME Clean' PROVE ConsistentInv'
  BY DEF ConsistentInv
<1>1. Clean
  BY CleanBefore
<1>2. ASSUME NEW r \in Request, OpenCall(r) PROVE ConsistentInv'
  BY <1>1, <1>2, OpenCallConsistent
<1>3. ASSUME NEW r \in Request, CallStep(r) PROVE ConsistentInv'
  BY <1>1, <1>3, SaveOrderConsistent, ReadItemsConsistent, LineConsistent,
     SaveReservationConsistent, RemoveLinesConsistent, RereadConsistent, ReleaseConsistent,
     ShipConsistent, ShipmentStepConsistent, EndCallConsistent DEF CallStep, AtLine, Rereads
<1>4. ASSUME NEW h \in Handler, HandlerStep(h) PROVE ConsistentInv'
  BY <1>1, <1>4, TakeEventConsistent, SaveHandledConsistent, ReleaseHandledConsistent DEF HandlerStep
<1>5. ASSUME LoseHandlers \/ \E r \in Request : AbortCall(r) PROVE FALSE
  BY <1>1, <1>5 DEF LoseHandlers, AbortCall, Abort, Clean
<1>6. CASE UNCHANGED allVars
  <2>1. StockOnly
    BY <1>6 DEF allVars, StockOnly, vars, shipmentVars, jobVars
  <2> QED BY <1>1, <2>1, StockConsistent
<1> QED BY <1>2, <1>3, <1>4, <1>5, <1>6 DEF OrdersNext

LEMMA ConsistentHolds == OrdersSpec => [](Base /\ ConsistentInv)
<1>1. /\ Base /\ Base' /\ SingleInv /\ SingleInv' /\ ConsistentInv /\ [OrdersNext]_allVars
         => ConsistentInv'
  BY OrdersAssumption, NextConsistent
<1>2. OrdersInit => ConsistentInv
  BY OrdersAssumption, ConsistentInit
<1> QED BY <1>1, <1>2, SingleHolds, PTL DEF OrdersSpec

(* Nothing is being done about a settled order any more, nor is pending. *)
LEMMA SettledConsistent ==
  ASSUME Base, ConsistentInv, NEW o \in Order, Settled(o)
  PROVE  orow[o].total = worth[o] /\ Agree(o)
<1>1. Clean /\ ~Busy(o) /\ o \notin overlapped
  BY DEF Settled, Clean
<1>2. Consistent(o)
  BY <1>1 DEF ConsistentInv
<1>3. Calls(o) = {} /\ \A st \in Status : ~Pending(o, st)
  BY <1>1, NotBusy
<1> QED BY <1>2, <1>3 DEF Consistent

(* Once everything on an order is done, and nothing on it overlapped or was *)
(* lost, its amount is what its items add up to: no event handler and no    *)
(* cron, which save the whole row from a copy, has brought back an older    *)
(* one (update, checkCancelOrders, processShipmentStatusChanged).           *)
THEOREM TotalWhenSettledCorrect == OrdersSpec => []TotalWhenSettled
<1>1. Base /\ ConsistentInv => TotalWhenSettled
  BY SettledConsistent DEF TotalWhenSettled
<1> QED BY <1>1, ConsistentHolds, PTL

(* Once everything on an order is done, and nothing on it overlapped or was *)
(* lost, an order with shipments has the status of one of them, whichever   *)
(* of the two was changed first (processOrderStatus, processShipment,       *)
(* processShipmentStatusChanged).                                           *)
THEOREM AgreeWhenSettledCorrect == OrdersSpec => []AgreeWhenSettled
<1>1. ASSUME Base, ConsistentInv PROVE AgreeWhenSettled
  <2> SUFFICES ASSUME NEW o \in Order, Settled(o), orow[o].status # NoStatus, Matches(OfOrder(o)) # {}
               PROVE  \E s \in Matches(OfOrder(o)) : row[s].status = orow[o].status
    BY DEF AgreeWhenSettled
  <2>1. Matches(OfOrder(o)) = ShipmentsOf(o)
    BY <1>1, OfOrderMatches DEF Base
  <2>2. Agree(o)
    BY <1>1, SettledConsistent
  <2> QED BY <2>1, <2>2 DEF Agree
<1> QED BY <1>1, ConsistentHolds, PTL
==============================================================================
