------------------------------ MODULE Warehouses ------------------------------
(***************************************************************************)
(* WarehouseService.delete with a new warehouse, beside the shipments: the *)
(* shipments move (Relocate), ProductStockService.delete merges the stock  *)
(* row by row, and the warehouse row goes, with what its foreign keys      *)
(* cascade to.  Rental orders move too, which nothing here looks at.       *)
(* Requests of Shipments are lost in Shipments; here deletions are.        *)
(***************************************************************************)
EXTENDS Shipments, Functions

(* So that quantities can be added up. *)
ASSUME WarehousesAssumption ==
  IsFiniteSet(Warehouse) /\ IsFiniteSet(Line) /\ IsFiniteSet(Request)

VARIABLES
  merge,    \* a running deletion: what it holds
  gone,     \* warehouses whose row has been deleted
  due,      \* ghost: the goods each warehouse should have, in stock or shipped
  unmoved,  \* ghost: shipments with an item that found no stock row
  cascaded, \* ghost: keys whose stock went with their warehouse
  oversold, \* ghost: stock rows that have held less than nothing
  repeated  \* ghost: a deletion was cut short or refused, or two have overlapped

warehouseVars == <<merge, gone, due, unmoved, cascaded, oversold, repeated>>
warehousesVars == <<vars, warehouseVars>>

NoMerge == [stage |-> "none"]
Deletes(r, stages) == merge[r].stage \in stages
Deletions == {r \in Request : merge[r] # NoMerge}
SourceOf(m, P) == P \X {m.from}
Target(m) == <<m.product, m.to>>

WarehousesInit ==
  /\ Init
  /\ merge = [r \in Request |-> NoMerge] /\ gone = {}
  /\ due = [k \in Key |-> IF k \in InitialKeys THEN InitialStock[k] ELSE 0]
  /\ unmoved = {} /\ cascaded = {} /\ repeated = FALSE
  /\ oversold = {k \in InitialKeys : InitialStock[k] < 0}

(* A write of the keys K, seen by the deletions that have read them. *)
Missed(K) ==
  [r \in Request |->
     IF merge[r] = NoMerge THEN NoMerge
     ELSE [merge[r] EXCEPT !.changed = @ \cup {p \in Product : SourceOf(merge[r], {p}) \cap K # {}},
                           !.stale = @ \/ (merge[r].stage = "save" /\ Target(merge[r]) \in K)]]

------------------------------------------------------------------------------
(* The books: what due counts *)

(* The shipment has left, before and after it is moved to target. *)
Left(s) == row[s].shippedAt
LeftAfter(s, target) ==
  target = "shipped" \/ (Left(s) /\ target \notin {"returned", "cancelled", Deleted})

(* The goods of an item are with the shipment once the call that works on  *)
(* it is done: an item that is still to move has not left yet, or not been *)
(* taken back.                                                             *)
Out(s, l) ==
  \/ Left(s) /\ \A r \in Request : job[r][s] = NoJob
  \/ \E r \in Request : /\ job[r][s] # NoJob
                       /\ IF at[r][s][l] = "idle" THEN LeftAfter(s, job[r][s].target)
                                                 ELSE job[r][s].target # "shipped"
OutAt(s, l) == IF s \in live /\ Out(s, l) THEN items[s][l] ELSE 0
OutFn(p, W) ==
  [x \in Shipment \X Line |->
    IF row[x[1]].warehouse \in W /\ ProductOf[x[2]] = p THEN OutAt(x[1], x[2]) ELSE 0]
OutOf(p, W) == SumFunction(OutFn(p, W))

(* What a call makes of the goods of a shipment: more when it takes back   *)
(* what has not left, fewer when they leave twice or are written off with  *)
(* a shipment that is not taken back.                                      *)
Gain(s, target, ret) ==
  IF ret /\ target \in {"returned", "cancelled", Deleted} /\ ~Left(s) THEN 1
  ELSE IF Left(s) /\ (target = "shipped" \/ (target \in {"returned", "cancelled"} /\ ~ret)) THEN -1
  ELSE 0

(* due, when the goods of the shipments S become more or fewer by gain. *)
GainFn(S, gain, p, w) ==
  [x \in Shipment \X Line |->
    IF x[1] \in S /\ row[x[1]].warehouse = w /\ ProductOf[x[2]] = p
      THEN gain[x[1]] * items[x[1]][x[2]] ELSE 0]
Owed(S, gain) == [k \in Key |-> due[k] + SumFunction(GainFn(S, gain, k[1], k[2]))]
Moved(S, target, ret) ==
  due' = Owed({s \in S : row[s].status # target}, [s \in Shipment |-> Gain(s, target, ret)])
(* Shipments that left are deleted and their goods not taken back. *)
WrittenOff(S) == due' = Owed({s \in S : Left(s)}, [s \in Shipment |-> -1])

------------------------------------------------------------------------------
(* The deletion of a warehouse *)

(* orderService.delete, of which only the shipments are seen here.  No     *)
(* shipment can be given to a warehouse that has gone; nothing else asks   *)
(* for the new warehouse, which may be the deleted one itself.             *)
DeleteWarehouse(r, from, to) ==
  /\ from \notin gone
  /\ to \in gone => \A s \in live : row[s].warehouse # from
  /\ Relocate(r, [orders |-> Order, warehouses |-> {from}], to)
  /\ merge' = [merge EXCEPT ![r] =
       [stage |-> "list", from |-> from, to |-> to, left |-> {}, had |-> [p \in Product |-> 0],
        product |-> CHOOSE p \in Product : TRUE, other |-> 0, stale |-> FALSE, changed |-> {}]]
  /\ repeated' = (repeated \/ Deletions # {})
  /\ UNCHANGED <<gone, due, unmoved, cascaded, oversold>>

Goes(r, new) == merge' = [merge EXCEPT ![r] = new]
OnlyMerge == UNCHANGED <<vars, gone, due, unmoved, cascaded, oversold, repeated>>

(* findBy: the rows of the old warehouse *)
ListStocks(r) ==
  /\ Deletes(r, {"list"})
  /\ LET found == {p \in Product : <<p, merge[r].from>> \in hasStock}
     IN  Goes(r, [merge[r] EXCEPT !.stage = "find", !.changed = {}, !.left = found,
                    !.had = [p \in Product |-> IF p \in found THEN stock[<<p, merge[r].from>>] ELSE 0]])
  /\ OnlyMerge

(* findOneBy: the row of the new warehouse *)
FindOther(r, p) ==
  LET m == [merge[r] EXCEPT !.product = p, !.left = @ \ {p}, !.stale = FALSE]
  IN
  /\ Deletes(r, {"find"}) /\ p \in merge[r].left
  /\ IF Target(m) \in hasStock
       THEN Goes(r, [m EXCEPT !.stage = "save", !.other = stock[Target(m)]])
       ELSE Goes(r, [m EXCEPT !.stage = "move"])
  /\ OnlyMerge

Merged_Replaced(m) == m.had[m.product]
Merged(m) == m.other + m.had[m.product]

(* The new warehouse has gone meanwhile: no row of it can be inserted. *)
NoTarget(m) == Target(m) \notin hasStock /\ m.to \in gone

(* save of the sum: an insert when the row has gone meanwhile *)
SaveOther(r) ==
  LET m == merge[r]
      k == Target(m)
  IN
  /\ Deletes(r, {"save"}) /\ ~NoTarget(m)
  /\ stock' = [stock EXCEPT ![k] = Merged(m)] /\ hasStock' = hasStock \cup {k}
  /\ raced' = IF m.stale \/ m.product \in m.changed THEN raced \cup {k} ELSE raced
  /\ at' = Overtake({k})
  /\ merge' = [Missed({k}) EXCEPT ![r] = [m EXCEPT !.stage = "find", !.other = 0, !.stale = FALSE]]
  /\ UNCHANGED <<ledger, shipmentVars, pc, createVars, job, seen, events, collided, contended,
                 aborts, gone, due, unmoved, cascaded, oversold, repeated>>

(* update of the row's warehouse: the row as it is now, none when it has gone *)
MoveRow(r) ==
  LET m == merge[r]
      old == <<m.product, m.from>>
  IN
  /\ Deletes(r, {"move"})
  /\ UNCHANGED <<ledger, raced, shipmentVars, pc, createVars, job, seen, events, collided,
                 contended, aborts, gone, due, unmoved, cascaded, oversold, repeated>>
  /\ \/ /\ Target(m) \notin hasStock /\ old \in hasStock /\ ~NoTarget(m)
        /\ stock' = [stock EXCEPT ![Target(m)] = stock[old]]
        /\ hasStock' = (hasStock \ {old}) \cup {Target(m)}
        /\ at' = Overtake({old, Target(m)})
        /\ merge' = [Missed({old, Target(m)}) EXCEPT ![r] = [m EXCEPT !.stage = "find", !.changed = @ \ {m.product}]]
     \/ /\ old \notin hasStock \/ m.from = m.to
        /\ Goes(r, [m EXCEPT !.stage = "find"])
        /\ UNCHANGED <<hasStock, stock, at>>

(* The write is refused: the new warehouse has gone, or has got a row of   *)
(* the product meanwhile.                                                  *)
MergeRefused(r) ==
  LET m == merge[r]
      old == <<m.product, m.from>>
  IN
  /\ \/ Deletes(r, {"save"}) /\ NoTarget(m)
     \/ Deletes(r, {"move"}) /\ old \in hasStock /\ m.from # m.to
          /\ (Target(m) \in hasStock \/ NoTarget(m))
  /\ Goes(r, NoMerge) /\ repeated' = TRUE
  /\ UNCHANGED <<vars, gone, due, unmoved, cascaded, oversold>>

(* The goods of m.from are those of m.to now, but for what has left with    *)
(* shipments made meanwhile.  A warehouse merged into itself is left with  *)
(* those alone.                                                            *)
Inherited(m) ==
  [k \in Key |->
     IF k[2] = m.from THEN OutOf(k[1], {m.from})
     ELSE IF k[2] = m.to THEN due[k] + due[<<k[1], m.from>>] - OutOf(k[1], {m.from})
     ELSE due[k]]

(* The last call of ProductStockService.delete *)
DropStocks(r) ==
  LET m == merge[r]
      K == SourceOf(m, Product) \cap hasStock
  IN
  /\ Deletes(r, {"find"}) /\ m.left = {}
  /\ hasStock' = hasStock \ K
  /\ raced' = raced \cup (m.changed \X {m.to})
  /\ at' = Overtake(K)
  /\ due' = Inherited(m)
  /\ cascaded' = IF m.from = m.to THEN cascaded \cup SourceOf(m, Product) ELSE cascaded
  /\ merge' = [Missed(K) EXCEPT ![r] = [m EXCEPT !.stage = "row"]]
  /\ UNCHANGED <<stock, ledger, shipmentVars, pc, createVars, job, seen, events, collided,
                 contended, aborts, gone, unmoved, oversold, repeated>>

(* The row of the warehouse goes, and with it its shipments and stock, or  *)
(* stays because an order or a reservation refers to it.                   *)
DeleteRow(r) ==
  LET w == merge[r].from
      S == {s \in live : row[s].warehouse = w}
      K == (Product \X {w}) \cap hasStock
  IN
  /\ Deletes(r, {"row"})
  /\ gone' = gone \cup {w}
  /\ live' = live \ S /\ collided' = collided \cup S
  /\ items' = [s \in Shipment |-> IF s \in S THEN [l \in Line |-> 0] ELSE items[s]]
  /\ hasStock' = hasStock \ K /\ cascaded' = cascaded \cup K /\ at' = Overtake(K)
  /\ merge' = [Missed(K) EXCEPT ![r] = NoMerge]
  /\ UNCHANGED <<stock, ledger, raced, row, lastId, pc, createVars, job, seen, events, contended,
                 aborts, due, unmoved, oversold, repeated>>
RowIsReferred(r) ==
  /\ Deletes(r, {"row"}) /\ Goes(r, NoMerge) /\ repeated' = TRUE
  /\ UNCHANGED <<vars, gone, due, unmoved, cascaded, oversold>>

(* The deletion is lost half-way. *)
CutShort(r) ==
  /\ merge[r] # NoMerge /\ aborts < MaxAborts /\ aborts' = aborts + 1
  /\ Goes(r, NoMerge) /\ repeated' = TRUE
  /\ UNCHANGED <<stockVars, shipmentVars, pc, createVars, jobVars, events, collided, contended,
                 gone, due, unmoved, cascaded, oversold>>

------------------------------------------------------------------------------
(* The shipments beside it *)

Untouched == UNCHANGED <<gone, due, cascaded, repeated>>
Refused(r, s, l) == KeyOf(job[r][s], l) \notin hasStock /\ job[r][s].row.warehouse \in gone

ReadBeside(r, s, l) ==
  /\ ReadStock(r, s, l)
  /\ unmoved' = IF KeyOf(job[r][s], l) \in hasStock THEN unmoved ELSE unmoved \cup {s}
  /\ UNCHANGED <<merge, oversold>> /\ Untouched
SaveBeside(r, s, l) ==
  /\ SaveStock(r, s, l) /\ ~Refused(r, s, l)
  /\ merge' = Missed({KeyOf(job[r][s], l)})
  /\ oversold' = oversold \cup {k \in {KeyOf(job[r][s], l)} : stock'[k] < 0}
  /\ UNCHANGED unmoved /\ Untouched
SaveShipmentBeside(r, s) ==
  /\ SaveShipment(r, s) /\ job[r][s].row.warehouse \notin gone
  /\ UNCHANGED warehouseVars
CreateBeside(r, w) ==
  /\ w \notin gone /\ CreateShipment(r, w) /\ UNCHANGED warehouseVars

(* The foreign keys: a stock row or a shipment of a warehouse that is no   *)
(* more.  The error ends the work on that shipment; other shipments of the *)
(* request go on.                                                          *)
DropJob(r, s) ==
  /\ job' = [job EXCEPT ![r][s] = NoJob]
  /\ at' = [at EXCEPT ![r][s] = [l \in Line |-> "idle"]]
  /\ seen' = [seen EXCEPT ![r][s] = [l \in Line |-> 0]]
  /\ pc' = IF pc[r] = "delete" THEN [pc EXCEPT ![r] = "failed"] ELSE pc
  /\ UNCHANGED <<stockVars, shipmentVars, createVars, events, collided, contended, aborts,
                 warehouseVars>>
StockRefused(r, s, l) ==
  job[r][s] # NoJob /\ at[r][s][l] \in {"read", "overtaken"} /\ Refused(r, s, l) /\ DropJob(r, s)
ShipmentRefused(r, s) ==
  /\ job[r][s] # NoJob /\ job[r][s].target # Deleted /\ job[r][s].row.warehouse \in gone
  /\ \A l \in Line : at[r][s][l] = "idle"
  /\ DropJob(r, s)
CreateRefused(r, w) ==
  /\ pc[r] = "create" /\ ~HasShipment(r, w) /\ w \in gone /\ \E l \in Line : plan[r][l][w] > 0
  /\ Lose(r) /\ UNCHANGED <<aborts, warehouseVars>>

------------------------------------------------------------------------------
BeginBeside(r) ==
  /\ MayBegin
  /\ \/ \E s \in Shipment, t \in Status, ret \in BOOLEAN :
          ChangeStatus(r, s, t, ret) /\ Moved({s}, t, ret)
     \/ \E o \in Order, t \in Status, ret \in BOOLEAN :
          ProcessOrder(r, o, t, ret) /\ Moved(Matches(OfOrder(o)), t, ret)
     \/ \E o \in Order, p \in [Line -> [Warehouse -> Quantity]] :
          CreateForOrder(r, o, p) /\ WrittenOff(Replaced(o))
     \/ \E o \in Order, ret \in BOOLEAN :
          Delete(r, OfOrder(o), ret) /\ UNCHANGED due
  /\ UNCHANGED <<merge, gone, unmoved, cascaded, oversold, repeated>>

DeleteRowsBeside(r) ==
  /\ DeleteRows(r) /\ WrittenOff(Matches(filter[r]) \ Running(r))
  /\ UNCHANGED <<merge, gone, unmoved, cascaded, oversold, repeated>>

StepBeside(r) ==
  \/ \E s \in Shipment, l \in Line :
       ReadBeside(r, s, l) \/ SaveBeside(r, s, l) \/ StockRefused(r, s, l)
  \/ \E s \in Shipment : SaveShipmentBeside(r, s) \/ ShipmentRefused(r, s)
  \/ \E w \in Warehouse :
       \/ CreateBeside(r, w) \/ CreateRefused(r, w)
       \/ \E l \in Line : CreateItem(r, l, w) /\ UNCHANGED warehouseVars
  \/ DeleteRowsBeside(r)
  \/ Return(r) /\ UNCHANGED warehouseVars

DeletionStep(r) ==
  \/ \E m \in Relocations : DeleteWarehouse(r, m[1], m[2])
  \/ ListStocks(r) \/ \E p \in Product : FindOther(r, p)
  \/ SaveOther(r) \/ MoveRow(r) \/ MergeRefused(r) \/ DropStocks(r)
  \/ DeleteRow(r) \/ RowIsReferred(r) \/ CutShort(r)

WarehousesNext == \E r \in Request : BeginBeside(r) \/ StepBeside(r) \/ DeletionStep(r)

WarehousesSpec == WarehousesInit /\ [][WarehousesNext]_warehousesVars

------------------------------------------------------------------------------
(* Properties *)

AtRest ==
  \A r \in Request : /\ pc[r] \in {"new", "done", "failed"} /\ merge[r] = NoMerge
                     /\ \A s \in Shipment, l \in Line : at[r][s][l] = "idle"

(* Goods of product p that are at the warehouses W, and those that have left *)
(* with the shipments of W.                                                  *)
InStock(p, W) ==
  SumFunction([w \in Warehouse |->
    IF w \in W /\ <<p, w>> \in hasStock THEN stock[<<p, w>>] ELSE 0])
Shipped(p, W) ==
  SumFunction([x \in Shipment \X Line |->
    IF /\ x[1] \in live /\ row[x[1]].shippedAt /\ row[x[1]].warehouse \in W
       /\ ProductOf[x[2]] = p
      THEN items[x[1]][x[2]] ELSE 0])
Goods(p, W) == InStock(p, W) + Shipped(p, W)
DueOf(p) == SumFunction([w \in Warehouse |-> due[<<p, w>>]])

(* Goods are neither lost nor invented while shipments are created, shipped, *)
(* returned, cancelled and deleted and warehouses merged: at rest, each      *)
(* warehouse has, in stock or shipped, what it had at first and what those   *)
(* merged into it had, changed only by the calls that say so: a return of    *)
(* goods that had not left adds them, a shipment that leaves twice, or that  *)
(* is cancelled or deleted after it left and not taken back, costs its       *)
(* goods.  A merge that was lost half-way or ran twice may add goods a       *)
(* second time, but loses none, unless the warehouse they went to was itself *)
(* being deleted, or less than nothing was in stock.  Provided that no       *)
(* request worked on the shipment of another or overtook it on a stock row,  *)
(* and that each item found its stock row (processShipment, createForOrder,  *)
(* delete, reduce, increase, ProductStockService.delete).                    *)
Conserved ==
  AtRest /\ raced = {} /\ collided = {} /\ unmoved = {} =>
    \A p \in Product :
      /\ ~repeated => \A w \in Warehouse : Goods(p, {w}) = due[<<p, w>>]
      /\ cascaded \cup oversold = {} => Goods(p, Warehouse) >= DueOf(p)
===============================================================================
