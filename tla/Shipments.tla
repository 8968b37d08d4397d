------------------------------ MODULE Shipments ------------------------------
(***************************************************************************)
(* Shipments of the inventory module and the product stock they move:      *)
(* ShipmentService and ProductStockService.  Every awaited repository call *)
(* is one action, so the requests running in the Node process interleave   *)
(* between any two calls; no service call opens a database transaction.    *)
(*                                                                         *)
(* A request is one call of a public method.  processShipment runs once    *)
(* per shipment, in parallel (Promise.all): each run is a "job" of the     *)
(* request, and inside a job the items of the shipment are moved in        *)
(* parallel too, each by reading the stock row and saving the sum.         *)
(*                                                                         *)
(* Variables that start with the word "ghost" in their comment record      *)
(* history for the properties; no action of the code reads them.           *)
(***************************************************************************)
EXTENDS Integers, FiniteSets

CONSTANTS
  Order,          \* orders.id
  Warehouse,      \* warehouse.id
  Product,        \* product.id
  Line,           \* item slots of a shipment: one per order item
  ProductOf,      \* [Line -> Product]
  MaxQty,         \* bound: quantity of one shipment item
  MaxShipment,    \* bound: rows the identity column of shipment can issue
  Request,        \* calls of the services
  MaxActive,      \* bound: requests running at the same time
  MaxAborts,      \* bound: requests lost half-way (restart, database error)
  Moves,          \* <<from, to, returnStocks>> the callers ask for
  Relocations,    \* <<from, to>>: warehouses whose rows move to another one
  StockValues,    \* quantities written by ProductStockService.update
  InitialKeys,    \* keys that have a product_stock row at first
  InitialStock,   \* [Product \X Warehouse -> Int]
  InitialRow,     \* [Shipment -> Row]: columns of the shipments there at first
  InitialItems,   \* [Shipment -> Items]
  InitialLast     \* their number: the shipments 1 .. InitialLast exist

Status == {"reserved", "sent_for_shipment", "shipped", "cancelled", "returned",
           "custom"}  \* order_status.code; "custom": a status without a code
Deleted == "deleted"  \* what a move to "no row" is called in Moves

Key == Product \X Warehouse        \* primary key of product_stock
Shipment == 1..MaxShipment
Quantity == 0..MaxQty              \* 0: the shipment has no such item
Row == [order : Order, status : Status, shippedAt : BOOLEAN, warehouse : Warehouse]
Items == [Line -> Quantity]
Filter == [orders : SUBSET Order, warehouses : SUBSET Warehouse]
Job == [row : Row, items : Items, target : Status \cup {Deleted}, returnStocks : BOOLEAN]
NoJob == [target |-> "none"]

ASSUME ShipmentsAssumption ==
  /\ ProductOf \in [Line -> Product]
  /\ MaxQty \in Nat /\ MaxShipment \in Nat /\ MaxActive \in Nat /\ MaxAborts \in Nat
  /\ Moves \subseteq Status \X (Status \cup {Deleted}) \X BOOLEAN
  /\ Relocations \subseteq Warehouse \X Warehouse
  /\ StockValues \subseteq Nat
  /\ InitialKeys \subseteq Key /\ InitialStock \in [Key -> Int]
  /\ InitialLast \in 0..MaxShipment
  /\ InitialRow \in [Shipment -> Row] /\ InitialItems \in [Shipment -> Items]
  /\ \A s \in Shipment : InitialRow[s].status = "sent_for_shipment" /\ ~InitialRow[s].shippedAt
  /\ \A s, t \in 1..InitialLast :
       s # t => \/ InitialRow[s].order # InitialRow[t].order
                \/ InitialRow[s].warehouse # InitialRow[t].warehouse

VARIABLES
  hasStock,   \* keys that have a product_stock row
  stock,      \* product_stock.stock_quantity
  live,       \* shipment rows that exist
  row,        \* their columns
  items,      \* shipment_item rows
  lastId,     \* last id issued by shipment's identity column
  pc,         \* where a request is
  filter,     \* rows a running delete or createForOrder is about
  plan,       \* reservations createForOrder has still to turn into items
  made,       \* shipments createForOrder has created, by warehouse (0: none)
  job,        \* the processShipment / increaseStocks runs of a request
  at,         \* stage of one item of a job
  seen,       \* the stock quantity an item of a job has read
  events,     \* ShipmentStatusChanged events emitted and not yet handled
  ledger,     \* ghost: initial or last set quantity plus the goods moved since
  raced,      \* ghost: keys a save computed from an overtaken read has written
  collided,   \* ghost: shipments two requests worked on at the same time
  contended,  \* ghost: shipments created while another createForOrder of their order
              \* was running, moved to another warehouse, or brought back by a save
  aborts      \* ghost: requests lost half-way

stockVars == <<hasStock, stock, ledger, raced>>
shipmentVars == <<live, row, items, lastId>>
createVars == <<filter, plan, made>>
jobVars == <<job, at, seen>>
vars == <<stockVars, shipmentVars, pc, createVars, jobVars, events, collided, contended,
                 aborts>>

------------------------------------------------------------------------------
(* Selecting rows and describing jobs *)

KeyOf(j, l) == <<ProductOf[l], j.row.warehouse>>

Matches(f) == {s \in live : row[s].order \in f.orders /\ row[s].warehouse \in f.warehouses}
OfOrder(o) == [orders |-> {o}, warehouses |-> Warehouse]
NoFilter == [orders |-> {}, warehouses |-> {}]

Running(r) == {s \in Shipment : job[r][s] # NoJob}

(* Changed forms of the next definitions: the bugs the properties must see. *)
Direction_Swapped(target, ret) ==
  IF target = "shipped" THEN 1
  ELSE IF target = Deleted \/ (target \in {"returned", "cancelled"} /\ ret) THEN -1 ELSE 0
Direction_ReturnedOnly(target, ret) ==
  IF target = "shipped" THEN -1
  ELSE IF target = Deleted \/ (target = "returned" /\ ret) THEN 1 ELSE 0
Processed_SwappedColumn(rw, target) == [rw EXCEPT !.warehouse = target]
Replaced_None(o) == {}
Replaced_NotLeft(o) == {s \in Matches(OfOrder(o)) : ~row[s].shippedAt}

(* What a job does to stock: reduce (-1), increase (1) or leave it alone (0). *)
Direction(target, ret) ==
  IF target = "shipped" THEN -1
  ELSE IF target = Deleted \/ (target \in {"returned", "cancelled"} /\ ret) THEN 1
  ELSE 0

(* The columns processShipment gives the shipment it has read. *)
Processed(rw, target) ==
  [rw EXCEPT !.status = target,
             !.shippedAt = target = "shipped"
                             \/ (rw.shippedAt /\ target \notin {"returned", "cancelled"})]

(* The stage of an item whose stock row does not exist: it is left alone. *)
MissingRow == "idle"

(* createForOrderItem has already created a shipment at warehouse w. *)
HasShipment(r, w) == made[r][w] # 0

(* The shipments createForOrder drops first. *)
Replaced(o) == Matches(OfOrder(o))

(* The callers ask only for the moves of Moves. *)
Asked(S, target, ret) == \A s \in S : <<row[s].status, target, ret>> \in Moves

(* Shipments of S that a request other than r is working on as well. *)
Shared(r, S) ==
  {s \in S : \E q \in Request \ {r} :
     \/ job[q][s] # NoJob
     \/ row[s].order \in filter[q].orders /\ row[s].warehouse \in filter[q].warehouses}

(* A write of key k: items that have read k now hold an old quantity. *)
Overtake(K) ==
  [r \in Request |-> [s \in Shipment |-> [l \in Line |->
     IF at[r][s][l] = "read" /\ KeyOf(job[r][s], l) \in K THEN "overtaken" ELSE at[r][s][l]]]]

StartJobs(r, S, target, ret) ==
  /\ job' = [job EXCEPT ![r] = [s \in Shipment |->
               IF s \in S THEN [row |-> row[s], items |-> items[s],
                                target |-> target, returnStocks |-> ret]
                          ELSE NoJob]]
  /\ at' = [at EXCEPT ![r] = [s \in Shipment |-> [l \in Line |->
               IF s \in S /\ items[s][l] > 0 /\ Direction(target, ret) # 0
                 THEN "todo" ELSE "idle"]]]
  /\ UNCHANGED seen

------------------------------------------------------------------------------
(* ShipmentService: the calls *)

ChangeStatus(r, s, target, ret) ==
  /\ pc[r] = "new" /\ s \in live
  /\ Asked({s}, target, ret)
  /\ StartJobs(r, {x \in {s} : row[x].status # target}, target, ret)
  /\ collided' = collided \cup Shared(r, {s})
  /\ pc' = [pc EXCEPT ![r] = "run"]
  /\ UNCHANGED <<stockVars, shipmentVars, createVars, events, contended, aborts>>

(* processOrder for every status but SentForShipment: processOrderShipments *)
ProcessOrder(r, o, target, ret) ==
  LET S == {s \in Matches(OfOrder(o)) : row[s].status # target} IN
  /\ pc[r] = "new" /\ target # "sent_for_shipment"
  /\ Asked(S, target, ret)
  /\ StartJobs(r, S, target, ret)
  /\ collided' = collided \cup Shared(r, S)
  /\ pc' = [pc EXCEPT ![r] = "run"]
  /\ UNCHANGED <<stockVars, shipmentVars, createVars, events, contended, aborts>>

(* processOrder for SentForShipment: createForOrder drops the shipments of  *)
(* the order, then creates one per warehouse of the reservations it read.   *)
CreateForOrder(r, o, reservations) ==
  LET S == Replaced(o) IN
  /\ pc[r] = "new"
  /\ Asked(S, Deleted, FALSE)
  /\ live' = live \ S
  /\ items' = [s \in Shipment |-> IF s \in S THEN [l \in Line |-> 0] ELSE items[s]]
  /\ plan' = [plan EXCEPT ![r] = reservations]
  /\ filter' = [filter EXCEPT ![r] = OfOrder(o)]
  /\ pc' = [pc EXCEPT ![r] = "create"]
  /\ collided' = collided \cup Shared(r, S)
  /\ UNCHANGED <<stockVars, row, lastId, made, jobVars, events, contended, aborts>>

(* The other calls that are creating shipments of the same order. *)
Rivals(r) ==
  {q \in Request \ {r} : pc[q] = "create" /\ filter[q].orders \cap filter[r].orders # {}}

CreateShipment(r, w) ==
  /\ pc[r] = "create" /\ ~HasShipment(r, w) /\ lastId < MaxShipment
  /\ \E l \in Line : plan[r][l][w] > 0
  /\ lastId' = lastId + 1
  /\ live' = live \cup {lastId'}
  /\ \E o \in filter[r].orders :
       row' = [row EXCEPT ![lastId'] = [order |-> o, status |-> "sent_for_shipment",
                                        shippedAt |-> FALSE, warehouse |-> w]]
  /\ made' = [made EXCEPT ![r][w] = lastId']
  /\ contended' = IF Rivals(r) = {} THEN contended ELSE contended \cup {lastId'}
  /\ UNCHANGED <<stockVars, items, pc, filter, plan, jobVars, events, collided, aborts>>

(* The foreign key of shipment_item: the insert fails, and with it the      *)
(* request, when another request has deleted the shipment meanwhile.        *)
CreateItem(r, l, w) ==
  /\ pc[r] = "create" /\ plan[r][l][w] > 0 /\ HasShipment(r, w)
  /\ IF made[r][w] \in live
       THEN /\ items' = [items EXCEPT ![made[r][w]][l] = plan[r][l][w]]
            /\ plan' = [plan EXCEPT ![r][l][w] = 0]
            /\ UNCHANGED <<pc, filter, made>>
       ELSE /\ pc' = [pc EXCEPT ![r] = "failed"]
            /\ plan' = [plan EXCEPT ![r] = [x \in Line |-> [y \in Warehouse |-> 0]]]
            /\ made' = [made EXCEPT ![r] = [y \in Warehouse |-> 0]]
            /\ filter' = [filter EXCEPT ![r] = NoFilter]
            /\ UNCHANGED items
  /\ UNCHANGED <<stockVars, live, row, lastId, jobVars, events, collided, contended,
                 aborts>>

Delete(r, f, ret) ==
  LET S == Matches(f) IN
  /\ pc[r] = "new"
  /\ Asked(S, Deleted, ret)
  /\ StartJobs(r, {s \in S : ret /\ row[s].status = "shipped"}, Deleted, ret)
  /\ collided' = collided \cup Shared(r, S)
  /\ filter' = [filter EXCEPT ![r] = f]
  /\ pc' = [pc EXCEPT ![r] = "delete"]
  /\ UNCHANGED <<stockVars, shipmentVars, plan, made, events, contended, aborts>>

(* delete with newWarehouseId: one UPDATE moves the rows. *)
Relocate(r, f, w) ==
  LET S == Matches(f) IN
  /\ pc[r] = "new"
  /\ row' = [s \in Shipment |-> IF s \in S THEN [row[s] EXCEPT !.warehouse = w] ELSE row[s]]
  /\ pc' = [pc EXCEPT ![r] = "done"]
  /\ collided' = collided \cup Shared(r, S)
  /\ contended' = contended \cup S
  /\ UNCHANGED <<stockVars, live, items, lastId, createVars, jobVars, events, aborts>>

------------------------------------------------------------------------------
(* ProductStockService.reduce and increase, called by a job for each item *)

ReadStock(r, s, l) ==
  LET k == KeyOf(job[r][s], l) IN
  /\ job[r][s] # NoJob /\ at[r][s][l] = "todo"
  /\ IF k \in hasStock
       THEN /\ at' = [at EXCEPT ![r][s][l] = "read"]
            /\ seen' = [seen EXCEPT ![r][s][l] = stock[k]]
       ELSE /\ at' = [at EXCEPT ![r][s][l] = MissingRow]
            /\ UNCHANGED seen
  /\ UNCHANGED <<stockVars, shipmentVars, pc, createVars, job, events, collided, contended,
                 aborts>>

SaveStock(r, s, l) ==
  LET j == job[r][s]
      k == KeyOf(j, l)
      moved == IF j.target = "shipped" THEN 0 - j.items[l] ELSE j.items[l]
  IN
  /\ j # NoJob /\ at[r][s][l] \in {"read", "overtaken"}
  /\ stock' = [stock EXCEPT ![k] = seen[r][s][l]
                                     + Direction(j.target, j.returnStocks) * j.items[l]]
  /\ hasStock' = hasStock \cup {k}
  /\ ledger' = [ledger EXCEPT ![k] = @ + moved]
  /\ raced' = IF at[r][s][l] = "overtaken" THEN raced \cup {k} ELSE raced
  /\ at' = [Overtake({k}) EXCEPT ![r][s][l] = "idle"]
  /\ seen' = [seen EXCEPT ![r][s][l] = 0]
  /\ UNCHANGED <<shipmentVars, pc, createVars, job, events, collided, contended,
                 aborts>>

(* The end of processShipment: save writes every column of the copy, and    *)
(* inserts the row again, without its items, when it has been deleted.      *)
SaveShipment(r, s) ==
  LET j == job[r][s]
      e == <<j.row.order, j.target>>
  IN
  /\ j # NoJob /\ j.target # Deleted
  /\ \A l \in Line : at[r][s][l] = "idle"
  /\ row' = [row EXCEPT ![s] = Processed(j.row, j.target)]
  /\ live' = live \cup {s}
  /\ events' = [events EXCEPT ![e] = @ + 1]
  /\ job' = [job EXCEPT ![r][s] = NoJob]
  /\ collided' = collided \cup ({s} \ live)
  /\ contended' = contended \cup ({s} \ live)
  /\ UNCHANGED <<stockVars, items, lastId, pc, createVars, at, seen, aborts>>

(* The end of delete: every row the filter selects now, read before or not. *)
DeleteRows(r) ==
  LET S == Matches(filter[r]) IN
  /\ pc[r] = "delete"
  /\ \A s \in Shipment, l \in Line : at[r][s][l] = "idle"
  /\ live' = live \ S
  /\ items' = [s \in Shipment |-> IF s \in S THEN [l \in Line |-> 0] ELSE items[s]]
  /\ job' = [job EXCEPT ![r] = [s \in Shipment |-> NoJob]]
  /\ filter' = [filter EXCEPT ![r] = NoFilter]
  /\ pc' = [pc EXCEPT ![r] = "done"]
  /\ collided' = collided \cup Shared(r, S)
  /\ UNCHANGED <<stockVars, row, lastId, plan, made, at, seen, events, contended, aborts>>

Return(r) ==
  /\ \/ pc[r] = "run" /\ Running(r) = {}
     \/ pc[r] = "create" /\ \A l \in Line, w \in Warehouse : plan[r][l][w] = 0
  /\ pc' = [pc EXCEPT ![r] = "done"]
  /\ made' = [made EXCEPT ![r] = [w \in Warehouse |-> 0]]
  /\ filter' = [filter EXCEPT ![r] = NoFilter]
  /\ UNCHANGED <<stockVars, shipmentVars, plan, jobVars, events, collided, contended,
                 aborts>>

(* A request ends between two calls: what it has written stays. *)
Lose(r) ==
  /\ pc' = [pc EXCEPT ![r] = "failed"]
  /\ job' = [job EXCEPT ![r] = [s \in Shipment |-> NoJob]]
  /\ at' = [at EXCEPT ![r] = [s \in Shipment |-> [l \in Line |-> "idle"]]]
  /\ seen' = [seen EXCEPT ![r] = [s \in Shipment |-> [l \in Line |-> 0]]]
  /\ plan' = [plan EXCEPT ![r] = [l \in Line |-> [w \in Warehouse |-> 0]]]
  /\ made' = [made EXCEPT ![r] = [w \in Warehouse |-> 0]]
  /\ filter' = [filter EXCEPT ![r] = NoFilter]
  /\ UNCHANGED <<stockVars, shipmentVars, events, collided, contended>>

(* The process restarts or the database refuses a call. *)
Abort(r) ==
  /\ pc[r] \in {"run", "create", "delete"} /\ aborts < MaxAborts
  /\ aborts' = aborts + 1
  /\ Lose(r)

------------------------------------------------------------------------------
(* ProductStockService.update (and create): absolute quantities *)

SetStock(r, k, q) ==
  /\ pc[r] = "new"
  /\ stock' = [stock EXCEPT ![k] = q]
  /\ hasStock' = hasStock \cup {k}
  /\ ledger' = [ledger EXCEPT ![k] = q]
  /\ raced' = raced \ {k}
  /\ at' = Overtake({k})
  /\ pc' = [pc EXCEPT ![r] = "done"]
  /\ UNCHANGED <<shipmentVars, createVars, job, seen, events, collided, contended,
                 aborts>>

RemoveStock(r, k) ==
  /\ pc[r] = "new" /\ k \in hasStock
  /\ hasStock' = hasStock \ {k}
  /\ at' = Overtake({k})
  /\ pc' = [pc EXCEPT ![r] = "done"]
  /\ UNCHANGED <<stock, ledger, raced, shipmentVars, createVars, job, seen, events,
                 collided, contended, aborts>>

------------------------------------------------------------------------------
Init ==
  /\ hasStock = InitialKeys /\ stock = InitialStock
  /\ live = 1..InitialLast /\ lastId = InitialLast
  /\ row = InitialRow
  /\ items = [s \in Shipment |-> IF s \in live THEN InitialItems[s] ELSE [l \in Line |-> 0]]
  /\ pc = [r \in Request |-> "new"]
  /\ filter = [r \in Request |-> NoFilter]
  /\ plan = [r \in Request |-> [l \in Line |-> [w \in Warehouse |-> 0]]]
  /\ made = [r \in Request |-> [w \in Warehouse |-> 0]]
  /\ job = [r \in Request |-> [s \in Shipment |-> NoJob]]
  /\ at = [r \in Request |-> [s \in Shipment |-> [l \in Line |-> "idle"]]]
  /\ seen = [r \in Request |-> [s \in Shipment |-> [l \in Line |-> 0]]]
  /\ events = [e \in Order \X Status |-> 0]
  /\ ledger = InitialStock /\ raced = {} /\ collided = {}
  /\ contended = {} /\ aborts = 0

MayBegin == Cardinality({r \in Request : pc[r] \in {"run", "create", "delete"}}) < MaxActive

Begin(r) ==
  /\ MayBegin
  /\ \/ \E s \in Shipment, t \in Status, ret \in BOOLEAN : ChangeStatus(r, s, t, ret)
     \/ \E o \in Order, t \in Status, ret \in BOOLEAN : ProcessOrder(r, o, t, ret)
     \/ \E o \in Order, p \in [Line -> [Warehouse -> Quantity]] : CreateForOrder(r, o, p)
     \/ \E o \in Order, ret \in BOOLEAN : Delete(r, OfOrder(o), ret)
     \/ \E m \in Relocations : Relocate(r, [orders |-> Order, warehouses |-> {m[1]}], m[2])
     \/ \E k \in Key, q \in StockValues : SetStock(r, k, q)
     \/ StockValues # {} /\ \E k \in Key : RemoveStock(r, k)

Step(r) ==
  \/ \E s \in Shipment, l \in Line : ReadStock(r, s, l) \/ SaveStock(r, s, l)
  \/ \E s \in Shipment : SaveShipment(r, s)
  \/ \E w \in Warehouse : CreateShipment(r, w) \/ \E l \in Line : CreateItem(r, l, w)
  \/ DeleteRows(r)
  \/ Return(r)

Next == \E r \in Request : Begin(r) \/ Step(r) \/ Abort(r)

Spec == Init /\ [][Next]_vars

------------------------------------------------------------------------------
(* Properties *)

(* Types of the rows, of what a request keeps in memory and of the ghosts. *)
TypeOK ==
  /\ hasStock \subseteq Key /\ stock \in [Key -> Int]
  /\ live \subseteq Shipment /\ row \in [Shipment -> Row] /\ items \in [Shipment -> Items]
  /\ lastId \in 0..MaxShipment
  /\ pc \in [Request -> {"new", "run", "create", "delete", "done", "failed"}]
  /\ filter \in [Request -> Filter]
  /\ plan \in [Request -> [Line -> [Warehouse -> Quantity]]]
  /\ made \in [Request -> [Warehouse -> 0..MaxShipment]]
  /\ job \in [Request -> [Shipment -> Job \cup {NoJob}]]
  /\ at \in [Request -> [Shipment -> [Line -> {"idle", "todo", "read", "overtaken"}]]]
  /\ seen \in [Request -> [Shipment -> [Line -> Int]]]
  /\ events \in [Order \X Status -> Nat]
  /\ ledger \in [Key -> Int] /\ raced \subseteq Key
  /\ collided \subseteq Shipment /\ contended \subseteq Shipment
  /\ aborts \in Nat

(* reduce and increase read a stock row and save the sum: however requests,  *)
(* their parallel items, aborted requests and absolute updates interleave,   *)
(* a stock row equals the sum of the movements unless a save overtook a read *)
(* (ProductStockService.reduce, increase and update).                        *)
StockMatchesLedger == \A k \in hasStock \ raced : stock[k] = ledger[k]

(* A shipped shipment has its shipping time, a returned or cancelled one has *)
(* none, also when a copy read long before is saved over a newer row or over *)
(* a deleted one (ShipmentService.processShipment and createForOrder).       *)
ShippedAtMatchesStatus ==
  \A s \in live :
    /\ row[s].status = "shipped" => row[s].shippedAt
    /\ row[s].status \in {"returned", "cancelled"} => ~row[s].shippedAt

(* createForOrder drops the shipments of the order and makes one per         *)
(* warehouse.  However calls and status changes overlap, stale copies are    *)
(* saved and requests are lost half-way, an order has two shipments at one   *)
(* warehouse only if one of the two was created while another createForOrder *)
(* of the order was running, has moved to that warehouse, or was deleted and *)
(* brought back by a save (createForOrder, createForOrderItem,               *)
(* processShipment, delete).                                                 *)
OneShipmentPerWarehouse ==
  \A s, t \in live \ contended :
    s # t => row[s].order # row[t].order \/ row[s].warehouse # row[t].warehouse
==============================================================================
