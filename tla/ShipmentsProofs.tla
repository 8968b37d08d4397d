--------------------------- MODULE ShipmentsProofs ---------------------------
(***************************************************************************)
(* Theorems about Shipments, for every number of orders, warehouses,       *)
(* products, items and concurrent requests.                                *)
(***************************************************************************)
EXTENDS Shipments, TLAPS

LEMMA NoJobIsNoJob == NoJob \notin Job
BY DEF NoJob, Job

LEMMA ProcessedType ==
  ASSUME NEW rw \in Row, NEW t \in Status
  PROVE  Processed(rw, t) \in Row
BY DEF Processed, Row, Status

LEMMA RelocatedType ==
  ASSUME NEW rw \in Row, NEW w \in Warehouse
  PROVE  [rw EXCEPT !.warehouse = w] \in Row
BY DEF Row

LEMMA DirectionType ==
  ASSUME NEW t, NEW ret PROVE Direction(t, ret) \in {-1, 0, 1}
BY DEF Direction

LEMMA KeyOfType ==
  ASSUME ShipmentsAssumption, NEW j \in Job, NEW l \in Line
  PROVE  KeyOf(j, l) \in Key
BY DEF ShipmentsAssumption, KeyOf, Key, Job, Row

LEMMA OvertakeType ==
  ASSUME TypeOK, NEW K
  PROVE  Overtake(K) \in [Request -> [Shipment -> [Line -> {"idle", "todo", "read", "overtaken"}]]]
BY DEF Overtake, TypeOK

LEMMA InitType == ShipmentsAssumption /\ Init => TypeOK
BY DEF ShipmentsAssumption, Init, TypeOK, Key, Shipment, Items, Quantity, Filter, NoFilter

LEMMA StartJobsType ==
  ASSUME TypeOK, NEW r \in Request, NEW S \in SUBSET Shipment,
         NEW t \in Status \cup {Deleted}, NEW ret \in BOOLEAN,
         StartJobs(r, S, t, ret)
  PROVE  /\ job' \in [Request -> [Shipment -> Job \cup {NoJob}]]
         /\ at' \in [Request -> [Shipment -> [Line -> {"idle", "todo", "read", "overtaken"}]]]
         /\ seen' = seen
BY DEF StartJobs, TypeOK, Job

LEMMA SaveStockType ==
  ASSUME ShipmentsAssumption, TypeOK, NEW r \in Request, NEW s \in Shipment, NEW l \in Line,
         SaveStock(r, s, l)
  PROVE  TypeOK'
<1> DEFINE j == job[r][s]
           k == KeyOf(j, l)
<1>1. j \in Job /\ j.items[l] \in Int /\ Direction(j.target, j.returnStocks) \in Int
  <2>1. j \in Job  BY DEF SaveStock, TypeOK
  <2>2. j.items[l] \in Quantity  BY <2>1 DEF Job, Items
  <2>3. j.items[l] \in Int  BY <2>2 DEF Quantity, ShipmentsAssumption
  <2> QED BY <2>1, <2>3, DirectionType
<1>2. k \in Key
  BY <1>1, KeyOfType
<1>3. stock' \in [Key -> Int] /\ hasStock' \subseteq Key /\ ledger' \in [Key -> Int]
       /\ raced' \subseteq Key
  BY <1>1, <1>2 DEF SaveStock, TypeOK
<1>4. at' \in [Request -> [Shipment -> [Line -> {"idle", "todo", "read", "overtaken"}]]]
  BY OvertakeType DEF SaveStock
<1>5. seen' \in [Request -> [Shipment -> [Line -> Int]]]
  BY DEF SaveStock, TypeOK
<1> QED
  BY <1>3, <1>4, <1>5 DEF SaveStock, TypeOK, shipmentVars, createVars

LEMMA TypeStep ==
  ASSUME ShipmentsAssumption, TypeOK, [Next]_vars
  PROVE  TypeOK'
<1>1. ASSUME NEW r \in Request, NEW s \in Shipment, NEW t \in Status, NEW ret \in BOOLEAN,
             ChangeStatus(r, s, t, ret)
      PROVE  TypeOK'
  <2> DEFINE S == {x \in {s} : row[x].status # t}
  <2>1. S \in SUBSET Shipment /\ t \in Status \cup {Deleted}  OBVIOUS
  <2>2. StartJobs(r, S, t, ret)  BY <1>1 DEF ChangeStatus
  <2>3. /\ job' \in [Request -> [Shipment -> Job \cup {NoJob}]]
        /\ at' \in [Request -> [Shipment -> [Line -> {"idle", "todo", "read", "overtaken"}]]]
        /\ seen' = seen
    BY <2>1, <2>2, StartJobsType
  <2> QED BY <1>1, <2>3
          DEF ChangeStatus, TypeOK, stockVars, shipmentVars, createVars, Shared
<1>2. ASSUME NEW r \in Request, NEW o \in Order, NEW t \in Status, NEW ret \in BOOLEAN,
             ProcessOrder(r, o, t, ret)
      PROVE  TypeOK'
  <2> DEFINE S == {s \in Matches(OfOrder(o)) : row[s].status # t}
  <2>1. S \in SUBSET Shipment /\ t \in Status \cup {Deleted}  BY DEF Matches, TypeOK
  <2>2. StartJobs(r, S, t, ret)  BY <1>2 DEF ProcessOrder
  <2>4. /\ job' \in [Request -> [Shipment -> Job \cup {NoJob}]]
        /\ at' \in [Request -> [Shipment -> [Line -> {"idle", "todo", "read", "overtaken"}]]]
        /\ seen' = seen
    BY <2>1, <2>2, StartJobsType
  <2>3. collided' \subseteq Shipment  BY <1>2, <2>1 DEF ProcessOrder, Shared, TypeOK
  <2> QED BY <1>2, <2>3, <2>4
          DEF ProcessOrder, TypeOK, stockVars, shipmentVars, createVars
<1>3. ASSUME NEW r \in Request, NEW o \in Order, NEW p \in [Line -> [Warehouse -> Quantity]],
             CreateForOrder(r, o, p)
      PROVE  TypeOK'
  <2>1. items' \in [Shipment -> Items]
    BY <1>3 DEF CreateForOrder, TypeOK, Items, Quantity, ShipmentsAssumption
  <2>2. OfOrder(o) \in Filter  BY DEF OfOrder, Filter
  <2>3. collided' \subseteq Shipment
    BY <1>3 DEF CreateForOrder, Replaced, Shared, Matches, TypeOK
  <2> QED BY <1>3, <2>1, <2>2, <2>3 DEF CreateForOrder, TypeOK, stockVars, jobVars
<1>4. ASSUME NEW r \in Request, NEW o \in Order, NEW ret \in BOOLEAN,
             Delete(r, OfOrder(o), ret)
      PROVE  TypeOK'
  <2> DEFINE f == OfOrder(o)
             S == {s \in Matches(f) : ret /\ row[s].status = "shipped"}
  <2>1. S \in SUBSET Shipment /\ Deleted \in Status \cup {Deleted}  BY DEF Matches, TypeOK
  <2>2. StartJobs(r, S, Deleted, ret)  BY <1>4 DEF Delete
  <2>5. /\ job' \in [Request -> [Shipment -> Job \cup {NoJob}]]
        /\ at' \in [Request -> [Shipment -> [Line -> {"idle", "todo", "read", "overtaken"}]]]
        /\ seen' = seen
    BY <2>1, <2>2, StartJobsType
  <2>3. f \in Filter  BY DEF OfOrder, Filter
  <2>4. collided' \subseteq Shipment  BY <1>4 DEF Delete, Shared, Matches, TypeOK
  <2> QED BY <1>4, <2>3, <2>4, <2>5
          DEF Delete, TypeOK, stockVars, shipmentVars
<1>5. ASSUME NEW r \in Request, NEW m \in Relocations,
             Relocate(r, [orders |-> Order, warehouses |-> {m[1]}], m[2])
      PROVE  TypeOK'
  <2>1. m[2] \in Warehouse  BY DEF ShipmentsAssumption
  <2>2. \A s \in Shipment : [row[s] EXCEPT !.warehouse = m[2]] \in Row
    BY <2>1, RelocatedType DEF TypeOK
  <2>4. row' \in [Shipment -> Row]  BY <1>5, <2>2 DEF Relocate, TypeOK
  <2>3. collided' \subseteq Shipment /\ contended' \subseteq Shipment
    BY <1>5 DEF Relocate, Shared, Matches, TypeOK, Row
  <2> QED BY <1>5, <2>3, <2>4 DEF Relocate, TypeOK, stockVars, createVars, jobVars
<1>6. ASSUME NEW r \in Request, NEW k \in Key, NEW q \in StockValues, SetStock(r, k, q)
      PROVE  TypeOK'
  BY <1>6, OvertakeType
     DEF SetStock, TypeOK, ShipmentsAssumption, shipmentVars, createVars
<1>7. ASSUME NEW r \in Request, NEW k \in Key, RemoveStock(r, k) PROVE TypeOK'
  BY <1>7, OvertakeType DEF RemoveStock, TypeOK, shipmentVars, createVars
<1>8. ASSUME NEW r \in Request, NEW s \in Shipment, NEW l \in Line, ReadStock(r, s, l)
      PROVE  TypeOK'
  <2>1. job[r][s] \in Job  BY <1>8 DEF ReadStock, MissingRow, TypeOK
  <2>2. KeyOf(job[r][s], l) \in Key  BY <2>1, KeyOfType
  <2>3. CASE KeyOf(job[r][s], l) \in hasStock
    <3>1. /\ at' = [at EXCEPT ![r][s][l] = "read"]
          /\ seen' = [seen EXCEPT ![r][s][l] = stock[KeyOf(job[r][s], l)]]
      BY <1>8, <2>3 DEF ReadStock
    <3>2. stock[KeyOf(job[r][s], l)] \in Int  BY <2>2 DEF TypeOK
    <3> QED BY <1>8, <3>1, <3>2
            DEF ReadStock, TypeOK, stockVars, shipmentVars, createVars
  <2>4. CASE KeyOf(job[r][s], l) \notin hasStock
    <3>1. at' = [at EXCEPT ![r][s][l] = "idle"] /\ seen' = seen
      BY <1>8, <2>4 DEF ReadStock, MissingRow
    <3> QED BY <1>8, <3>1 DEF ReadStock, TypeOK, stockVars, shipmentVars, createVars
  <2> QED BY <2>3, <2>4
<1>9. ASSUME NEW r \in Request, NEW s \in Shipment, NEW l \in Line, SaveStock(r, s, l)
      PROVE  TypeOK'
  BY <1>9, SaveStockType
<1>10. ASSUME NEW r \in Request, NEW s \in Shipment, SaveShipment(r, s) PROVE TypeOK'
  <2> DEFINE j == job[r][s]
  <2>1. j \in Job /\ j.target \in Status  BY <1>10 DEF SaveShipment, TypeOK, Job
  <2>2. Processed(j.row, j.target) \in Row  BY <2>1, ProcessedType DEF Job
  <2>3. <<j.row.order, j.target>> \in Order \X Status  BY <2>1 DEF Job, Row
  <2>4. row' \in [Shipment -> Row] /\ live' \subseteq Shipment
    BY <1>10, <2>2 DEF SaveShipment, TypeOK
  <2>5. events' \in [Order \X Status -> Nat]
    BY <1>10, <2>3 DEF SaveShipment, TypeOK
  <2>6. job' \in [Request -> [Shipment -> Job \cup {NoJob}]] /\ collided' \subseteq Shipment
    BY <1>10 DEF SaveShipment, TypeOK
  <2> QED BY <1>10, <2>4, <2>5, <2>6 DEF SaveShipment, TypeOK, stockVars, createVars
<1>11. ASSUME NEW r \in Request, NEW w \in Warehouse, CreateShipment(r, w) PROVE TypeOK'
  <2>1. lastId' \in Shipment /\ lastId' \in 0..MaxShipment
    BY <1>11 DEF CreateShipment, TypeOK, Shipment, ShipmentsAssumption
  <2>2. row' \in [Shipment -> Row]
    BY <1>11, <2>1 DEF CreateShipment, TypeOK, Row, Status, Filter
  <2>3. made' \in [Request -> [Warehouse -> 0..MaxShipment]]
    BY <1>11, <2>1 DEF CreateShipment, TypeOK
  <2> QED BY <1>11, <2>1, <2>2, <2>3 DEF CreateShipment, TypeOK, stockVars, jobVars
<1>12. ASSUME NEW r \in Request, NEW l \in Line, NEW w \in Warehouse, CreateItem(r, l, w)
       PROVE  TypeOK'
  <2>1. /\ plan[r][l][w] \in Quantity /\ 0 \in Quantity /\ 0 \in 0..MaxShipment
        /\ NoFilter \in Filter
    BY DEF TypeOK, Quantity, ShipmentsAssumption, NoFilter, Filter
  <2>2. CASE made[r][w] \in live
    <3>1. items' = [items EXCEPT ![made[r][w]][l] = plan[r][l][w]]
          /\ plan' = [plan EXCEPT ![r][l][w] = 0]
          /\ UNCHANGED <<pc, filter, made>>
      BY <1>12, <2>2 DEF CreateItem
    <3>2. items' \in [Shipment -> Items]  BY <2>1, <3>1 DEF TypeOK, Items
    <3>3. plan' \in [Request -> [Line -> [Warehouse -> Quantity]]]
      BY <2>1, <3>1 DEF TypeOK
    <3> QED BY <1>12, <3>1, <3>2, <3>3 DEF CreateItem, TypeOK, stockVars, jobVars
  <2>3. CASE made[r][w] \notin live
    <3>1. /\ pc' = [pc EXCEPT ![r] = "failed"]
          /\ plan' = [plan EXCEPT ![r] = [x \in Line |-> [y \in Warehouse |-> 0]]]
          /\ made' = [made EXCEPT ![r] = [y \in Warehouse |-> 0]]
          /\ filter' = [filter EXCEPT ![r] = NoFilter]
          /\ UNCHANGED items
      BY <1>12, <2>3 DEF CreateItem
    <3>2. plan' \in [Request -> [Line -> [Warehouse -> Quantity]]]
      BY <2>1, <3>1 DEF TypeOK
    <3>3. /\ made' \in [Request -> [Warehouse -> 0..MaxShipment]]
          /\ filter' \in [Request -> Filter]
      BY <2>1, <3>1 DEF TypeOK
    <3> QED BY <1>12, <3>1, <3>2, <3>3 DEF CreateItem, TypeOK, stockVars, jobVars
  <2> QED BY <2>2, <2>3
<1>13. ASSUME NEW r \in Request, DeleteRows(r) PROVE TypeOK'
  <2>1. items' \in [Shipment -> Items]
    BY <1>13 DEF DeleteRows, TypeOK, Items, Quantity, ShipmentsAssumption
  <2>2. NoFilter \in Filter  BY DEF NoFilter, Filter
  <2>3. collided' \subseteq Shipment  BY <1>13 DEF DeleteRows, Shared, Matches, TypeOK
  <2> QED BY <1>13, <2>1, <2>2, <2>3 DEF DeleteRows, TypeOK, stockVars
<1>14. ASSUME NEW r \in Request, Return(r) PROVE TypeOK'
  <2>1. 0 \in 0..MaxShipment /\ NoFilter \in Filter
    BY DEF ShipmentsAssumption, NoFilter, Filter
  <2> QED BY <1>14, <2>1 DEF Return, TypeOK, stockVars, shipmentVars, jobVars
<1>15. ASSUME NEW r \in Request, Abort(r) PROVE TypeOK'
  <2>1. 0 \in 0..MaxShipment /\ 0 \in Quantity /\ NoFilter \in Filter
    BY DEF ShipmentsAssumption, NoFilter, Filter, Quantity
  <2>2. plan' \in [Request -> [Line -> [Warehouse -> Quantity]]]
        /\ made' \in [Request -> [Warehouse -> 0..MaxShipment]]
        /\ filter' \in [Request -> Filter]
    BY <1>15, <2>1 DEF Abort, Lose, TypeOK
  <2> QED BY <1>15, <2>2 DEF Abort, Lose, TypeOK, stockVars, shipmentVars
<1>16. CASE UNCHANGED vars
  BY <1>16 DEF TypeOK, vars, stockVars, shipmentVars, createVars, jobVars
<1> QED BY <1>1, <1>2, <1>3, <1>4, <1>5, <1>6, <1>7, <1>8, <1>9, <1>10, <1>11,
           <1>12, <1>13, <1>14, <1>15, <1>16 DEF Next, Begin, Step

(* Type correctness: rows, in-memory copies and ghosts stay in their types   *)
(* whatever the requests do and wherever one of them is lost.                *)
THEOREM TypeCorrect == Spec => []TypeOK
BY InitType, TypeStep, ShipmentsAssumption, PTL DEF Spec

------------------------------------------------------------------------------
(* The strengthening behind StockMatchesLedger: an item that has read its    *)
(* stock row and has not been overtaken holds the present quantity, and only *)
(* items of a job that moves goods are under way.                            *)
FreshReads ==
  \A r \in Request, s \in Shipment, l \in Line :
    at[r][s][l] = "read" => /\ KeyOf(job[r][s], l) \in hasStock
                            /\ seen[r][s][l] = stock[KeyOf(job[r][s], l)]

MovingItems ==
  \A r \in Request, s \in Shipment, l \in Line :
    at[r][s][l] # "idle" => /\ job[r][s] # NoJob
                            /\ Direction(job[r][s].target, job[r][s].returnStocks) # 0

ReadsInv == TypeOK /\ MovingItems /\ FreshReads
LedgerInv == ReadsInv /\ StockMatchesLedger

(* Steps that touch neither stock nor the items of a job. *)
LEMMA QuietStep ==
  ASSUME ReadsInv, UNCHANGED <<stockVars, jobVars>>
  PROVE  MovingItems' /\ FreshReads'
BY DEF ReadsInv, MovingItems, FreshReads, stockVars, jobVars, KeyOf

(* Steps that put one request at new, waiting or no items. *)
LEMMA JobStep ==
  ASSUME ReadsInv, NEW r \in Request, UNCHANGED <<hasStock, stock>>,
         \A q \in Request \ {r} : job'[q] = job[q] /\ at'[q] = at[q] /\ seen'[q] = seen[q],
         \A s \in Shipment, l \in Line :
           /\ at'[r][s][l] \in {"idle", "todo"}
           /\ at'[r][s][l] # "idle" =>
                /\ job'[r][s] # NoJob
                /\ Direction(job'[r][s].target, job'[r][s].returnStocks) # 0
  PROVE  MovingItems' /\ FreshReads'
<1>1. MovingItems'  BY DEF ReadsInv, MovingItems
<1>2. FreshReads'  BY DEF ReadsInv, FreshReads, KeyOf
<1> QED BY <1>1, <1>2

LEMMA StartJobsStep ==
  ASSUME ReadsInv, NEW r \in Request, NEW S \in SUBSET Shipment,
         NEW t \in Status \cup {Deleted}, NEW ret \in BOOLEAN,
         StartJobs(r, S, t, ret), UNCHANGED stockVars
  PROVE  MovingItems' /\ FreshReads'
<1>1. \A q \in Request \ {r} : job'[q] = job[q] /\ at'[q] = at[q] /\ seen'[q] = seen[q]
  BY DEF StartJobs, ReadsInv, TypeOK
<1>2. ASSUME NEW s \in Shipment, NEW l \in Line
      PROVE  /\ at'[r][s][l] \in {"idle", "todo"}
             /\ at'[r][s][l] # "idle" =>
                  /\ job'[r][s] # NoJob
                  /\ Direction(job'[r][s].target, job'[r][s].returnStocks) # 0
  <2>1. at'[r][s][l] = IF s \in S /\ items[s][l] > 0 /\ Direction(t, ret) # 0
                         THEN "todo" ELSE "idle"
    BY DEF StartJobs, ReadsInv, TypeOK
  <2>2. s \in S => job'[r][s] = [row |-> row[s], items |-> items[s],
                                 target |-> t, returnStocks |-> ret]
    BY DEF StartJobs, ReadsInv, TypeOK
  <2>3. s \in S => job'[r][s] \in Job
    BY <2>2 DEF ReadsInv, TypeOK, Job
  <2> QED BY <2>1, <2>2, <2>3, NoJobIsNoJob
<1> QED BY <1>1, <1>2, JobStep DEF stockVars

LEMMA OvertakeStep ==
  ASSUME ReadsInv, NEW k \in Key,
         NEW r \in Request, NEW s \in Shipment, NEW l \in Line
  PROVE  /\ Overtake({k})[r][s][l] = "read" => at[r][s][l] = "read" /\ KeyOf(job[r][s], l) # k
         /\ Overtake({k})[r][s][l] # "idle" => at[r][s][l] # "idle"
BY DEF Overtake, ReadsInv, TypeOK

LEMMA SaveStockStep ==
  ASSUME ShipmentsAssumption, ReadsInv,
         NEW r \in Request, NEW s \in Shipment, NEW l \in Line, SaveStock(r, s, l)
  PROVE  MovingItems' /\ FreshReads'
<1> DEFINE j == job[r][s]
           k == KeyOf(j, l)
<1>1. j \in Job /\ j.items[l] \in Int
  BY DEF SaveStock, ReadsInv, TypeOK, Job, Items, Quantity, ShipmentsAssumption
<1>2. k \in Key  BY <1>1, KeyOfType
<1>3. /\ at[r][s][l] \in {"read", "overtaken"} /\ UNCHANGED job
      /\ hasStock' = hasStock \cup {k}
      /\ stock' = [stock EXCEPT ![k] = seen[r][s][l]
                                         + Direction(j.target, j.returnStocks) * j.items[l]]
      /\ at' = [Overtake({k}) EXCEPT ![r][s][l] = "idle"]
      /\ seen' = [seen EXCEPT ![r][s][l] = 0]
  BY DEF SaveStock
<1>4. ASSUME NEW q \in Request, NEW x \in Shipment, NEW y \in Line, at'[q][x][y] # "idle"
      PROVE  /\ at'[q][x][y] = Overtake({k})[q][x][y] /\ seen'[q][x][y] = seen[q][x][y]
  BY <1>3, <1>4, OvertakeType DEF ReadsInv, TypeOK
<1>5. MovingItems'
  <2> SUFFICES ASSUME NEW q \in Request, NEW x \in Shipment, NEW y \in Line,
                      at'[q][x][y] # "idle"
               PROVE  /\ job[q][x] # NoJob
                      /\ Direction(job[q][x].target, job[q][x].returnStocks) # 0
    BY <1>3 DEF MovingItems
  <2>1. at[q][x][y] # "idle"  BY <1>2, <1>4, OvertakeStep
  <2> QED BY <2>1 DEF ReadsInv, MovingItems
<1>6. FreshReads'
  <2> SUFFICES ASSUME NEW q \in Request, NEW x \in Shipment, NEW y \in Line,
                      at'[q][x][y] = "read"
               PROVE  /\ KeyOf(job[q][x], y) \in hasStock'
                      /\ seen'[q][x][y] = stock'[KeyOf(job[q][x], y)]
    BY <1>3 DEF FreshReads, KeyOf
  <2>1. at[q][x][y] = "read" /\ KeyOf(job[q][x], y) # k /\ seen'[q][x][y] = seen[q][x][y]
    BY <1>2, <1>4, OvertakeStep
  <2>2. KeyOf(job[q][x], y) \in hasStock /\ seen[q][x][y] = stock[KeyOf(job[q][x], y)]
    BY <2>1 DEF ReadsInv, FreshReads
  <2> QED BY <1>3, <2>1, <2>2 DEF ReadsInv, TypeOK
<1> QED BY <1>5, <1>6

LEMMA ReadsStep ==
  ASSUME ShipmentsAssumption, ReadsInv, [Next]_vars
  PROVE  MovingItems' /\ FreshReads'
<1> USE ShipmentsAssumption, ReadsInv
<1>1. ASSUME NEW r \in Request, NEW s \in Shipment, NEW t \in Status, NEW ret \in BOOLEAN,
             ChangeStatus(r, s, t, ret)
      PROVE  MovingItems' /\ FreshReads'
  <2> DEFINE S == {x \in {s} : row[x].status # t}
  <2>1. S \in SUBSET Shipment /\ t \in Status \cup {Deleted}  OBVIOUS
  <2>2. StartJobs(r, S, t, ret) /\ UNCHANGED stockVars  BY <1>1 DEF ChangeStatus
  <2> QED BY <2>1, <2>2, StartJobsStep
<1>2. ASSUME NEW r \in Request, NEW o \in Order, NEW t \in Status, NEW ret \in BOOLEAN,
             ProcessOrder(r, o, t, ret)
      PROVE  MovingItems' /\ FreshReads'
  <2> DEFINE S == {s \in Matches(OfOrder(o)) : row[s].status # t}
  <2>1. S \in SUBSET Shipment /\ t \in Status \cup {Deleted}
    BY DEF Matches, ReadsInv, TypeOK
  <2>2. StartJobs(r, S, t, ret) /\ UNCHANGED stockVars  BY <1>2 DEF ProcessOrder
  <2> QED BY <2>1, <2>2, StartJobsStep
<1>3. ASSUME NEW r \in Request, NEW o \in Order, NEW ret \in BOOLEAN,
             Delete(r, OfOrder(o), ret)
      PROVE  MovingItems' /\ FreshReads'
  <2> DEFINE S == {s \in Matches(OfOrder(o)) : ret /\ row[s].status = "shipped"}
  <2>1. S \in SUBSET Shipment /\ Deleted \in Status \cup {Deleted}
    BY DEF Matches, ReadsInv, TypeOK
  <2>2. StartJobs(r, S, Deleted, ret) /\ UNCHANGED stockVars  BY <1>3 DEF Delete
  <2> QED BY <2>1, <2>2, StartJobsStep
<1>4. ASSUME NEW r \in Request, NEW k \in Key, NEW q \in StockValues, SetStock(r, k, q)
      PROVE  MovingItems' /\ FreshReads'
  <2>1. /\ at' = Overtake({k}) /\ UNCHANGED <<job, seen>> /\ hasStock' = hasStock \cup {k}
        /\ stock' = [stock EXCEPT ![k] = q]
    BY <1>4 DEF SetStock
  <2>2. MovingItems'  BY <2>1, OvertakeStep DEF ReadsInv, MovingItems
  <2>3. FreshReads'
    <3> SUFFICES ASSUME NEW y \in Request, NEW x \in Shipment, NEW l \in Line,
                        at'[y][x][l] = "read"
                 PROVE  /\ KeyOf(job[y][x], l) \in hasStock'
                        /\ seen[y][x][l] = stock'[KeyOf(job[y][x], l)]
      BY <2>1 DEF FreshReads, KeyOf
    <3>1. at[y][x][l] = "read" /\ KeyOf(job[y][x], l) # k  BY <2>1, OvertakeStep
    <3>2. KeyOf(job[y][x], l) \in hasStock /\ seen[y][x][l] = stock[KeyOf(job[y][x], l)]
      BY <3>1 DEF ReadsInv, FreshReads
    <3> QED BY <2>1, <3>1, <3>2 DEF ReadsInv, TypeOK
  <2> QED BY <2>2, <2>3
<1>5. ASSUME NEW r \in Request, NEW k \in Key, RemoveStock(r, k)
      PROVE  MovingItems' /\ FreshReads'
  <2>1. /\ at' = Overtake({k}) /\ UNCHANGED <<job, seen, stock>>
        /\ hasStock' = hasStock \ {k}
    BY <1>5 DEF RemoveStock
  <2>2. MovingItems'  BY <2>1, OvertakeStep DEF ReadsInv, MovingItems
  <2>3. FreshReads'
    <3> SUFFICES ASSUME NEW y \in Request, NEW x \in Shipment, NEW l \in Line,
                        at'[y][x][l] = "read"
                 PROVE  /\ KeyOf(job[y][x], l) \in hasStock'
                        /\ seen[y][x][l] = stock'[KeyOf(job[y][x], l)]
      BY <2>1 DEF FreshReads, KeyOf
    <3>1. at[y][x][l] = "read" /\ KeyOf(job[y][x], l) # k  BY <2>1, OvertakeStep
    <3>2. KeyOf(job[y][x], l) \in hasStock /\ seen[y][x][l] = stock[KeyOf(job[y][x], l)]
      BY <3>1 DEF ReadsInv, FreshReads
    <3> QED BY <2>1, <3>1, <3>2 DEF ReadsInv, TypeOK
  <2> QED BY <2>2, <2>3
<1>6. ASSUME NEW r \in Request, NEW s \in Shipment, NEW l \in Line, ReadStock(r, s, l)
      PROVE  MovingItems' /\ FreshReads'
  <2> DEFINE k == KeyOf(job[r][s], l)
  <2>1. at[r][s][l] = "todo" /\ UNCHANGED <<job, stockVars>>  BY <1>6 DEF ReadStock
  <2>3. CASE k \in hasStock
    <3>1. /\ at' = [at EXCEPT ![r][s][l] = "read"]
          /\ seen' = [seen EXCEPT ![r][s][l] = stock[k]]
      BY <1>6, <2>3 DEF ReadStock
    <3>2. MovingItems'  BY <2>1, <3>1 DEF ReadsInv, MovingItems, TypeOK
    <3>3. FreshReads'
      <4> SUFFICES ASSUME NEW q \in Request, NEW x \in Shipment, NEW y \in Line,
                          at'[q][x][y] = "read"
                   PROVE  /\ KeyOf(job[q][x], y) \in hasStock
                          /\ seen'[q][x][y] = stock[KeyOf(job[q][x], y)]
        BY <2>1 DEF FreshReads, KeyOf, stockVars
      <4>1. CASE q = r /\ x = s /\ y = l
        BY <2>3, <3>1, <4>1 DEF ReadsInv, TypeOK
      <4>2. CASE ~(q = r /\ x = s /\ y = l)
        <5>1. at[q][x][y] = "read" /\ seen'[q][x][y] = seen[q][x][y]
          BY <3>1, <4>2 DEF ReadsInv, TypeOK
        <5> QED BY <5>1 DEF ReadsInv, FreshReads
      <4> QED BY <4>1, <4>2
    <3> QED BY <3>2, <3>3
  <2>4. CASE k \notin hasStock
    <3>1. at' = [at EXCEPT ![r][s][l] = "idle"] /\ seen' = seen
      BY <1>6, <2>4 DEF ReadStock, MissingRow
    <3>2. MovingItems'  BY <2>1, <3>1 DEF ReadsInv, MovingItems, TypeOK
    <3>3. FreshReads'
      BY <2>1, <3>1 DEF ReadsInv, FreshReads, TypeOK, KeyOf, stockVars
    <3> QED BY <3>2, <3>3
  <2> QED BY <2>3, <2>4
<1>7. ASSUME NEW r \in Request, NEW s \in Shipment, SaveShipment(r, s)
      PROVE  MovingItems' /\ FreshReads'
  <2>1. /\ \A l \in Line : at[r][s][l] = "idle"
        /\ job' = [job EXCEPT ![r][s] = NoJob] /\ UNCHANGED <<at, seen, stockVars>>
    BY <1>7 DEF SaveShipment
  <2>2. MovingItems'  BY <2>1 DEF ReadsInv, MovingItems, TypeOK
  <2>3. FreshReads'
    BY <2>1 DEF ReadsInv, FreshReads, TypeOK, KeyOf, stockVars
  <2> QED BY <2>2, <2>3
<1>8. ASSUME NEW r \in Request, DeleteRows(r) \/ Abort(r)
      PROVE  MovingItems' /\ FreshReads'
  <2>1. \A q \in Request \ {r} : job'[q] = job[q] /\ at'[q] = at[q] /\ seen'[q] = seen[q]
    BY <1>8 DEF DeleteRows, Abort, Lose, ReadsInv, TypeOK
  <2>2. \A s \in Shipment, l \in Line : at'[r][s][l] = "idle"
    BY <1>8 DEF DeleteRows, Abort, Lose, ReadsInv, TypeOK
  <2>3. UNCHANGED <<hasStock, stock>>
    BY <1>8 DEF DeleteRows, Abort, Lose, stockVars
  <2> QED BY <2>1, <2>2, <2>3, JobStep
<1>9. ASSUME NEW r \in Request,
             \/ \E o \in Order, p \in [Line -> [Warehouse -> Quantity]] : CreateForOrder(r, o, p)
             \/ \E m \in Relocations :
                  Relocate(r, [orders |-> Order, warehouses |-> {m[1]}], m[2])
             \/ \E w \in Warehouse :
                  CreateShipment(r, w) \/ \E l \in Line : CreateItem(r, l, w)
             \/ Return(r)
      PROVE  MovingItems' /\ FreshReads'
  <2>1. UNCHANGED <<stockVars, jobVars>>
    BY <1>9 DEF CreateForOrder, Relocate, CreateShipment, CreateItem, Return
  <2> QED BY <2>1, QuietStep
<1>10. CASE UNCHANGED vars
  BY <1>10, QuietStep DEF vars
<1> QED BY <1>1, <1>2, <1>3, <1>4, <1>5, <1>6, <1>7, <1>8, <1>9, <1>10, SaveStockStep
        DEF Next, Begin, Step

(* Saving what was read leaves a row that is not raced in step with its      *)
(* ledger.                                                                   *)
LEMMA SaveLedgerStep ==
  ASSUME ShipmentsAssumption, LedgerInv,
         NEW r \in Request, NEW s \in Shipment, NEW l \in Line, SaveStock(r, s, l)
  PROVE  StockMatchesLedger'
<1> DEFINE j == job[r][s]
           k == KeyOf(j, l)
<1>1. j \in Job /\ j.items[l] \in Int
  BY DEF SaveStock, LedgerInv, ReadsInv, TypeOK, Job, Items, Quantity, ShipmentsAssumption
<1>2. k \in Key  BY <1>1, KeyOfType
<1>3. /\ at[r][s][l] \in {"read", "overtaken"}
      /\ hasStock' = hasStock \cup {k}
      /\ stock' = [stock EXCEPT ![k] = seen[r][s][l]
                                         + Direction(j.target, j.returnStocks) * j.items[l]]
      /\ ledger' = [ledger EXCEPT ![k] = @ + (IF j.target = "shipped" THEN 0 - j.items[l]
                                                                     ELSE j.items[l])]
      /\ raced' = IF at[r][s][l] = "overtaken" THEN raced \cup {k} ELSE raced
  BY DEF SaveStock
<1> SUFFICES ASSUME NEW m \in hasStock' \ raced' PROVE stock'[m] = ledger'[m]
  BY DEF StockMatchesLedger
<1>4. CASE m # k
  BY <1>2, <1>3, <1>4 DEF LedgerInv, ReadsInv, StockMatchesLedger, TypeOK
<1>5. CASE m = k
  <2>1. at[r][s][l] = "read" /\ k \notin raced  BY <1>3, <1>5
  <2>2. k \in hasStock /\ seen[r][s][l] = stock[k] /\ stock[k] = ledger[k]
    BY <2>1 DEF LedgerInv, ReadsInv, FreshReads, StockMatchesLedger
  <2>3. Direction(j.target, j.returnStocks) # 0
    BY <1>3 DEF LedgerInv, ReadsInv, MovingItems
  <2>4. Direction(j.target, j.returnStocks) = IF j.target = "shipped" THEN -1 ELSE 1
    BY <2>3 DEF Direction
  <2>5. stock'[k] = stock[k] + Direction(j.target, j.returnStocks) * j.items[l]
    BY <1>2, <1>3, <2>2 DEF LedgerInv, ReadsInv, TypeOK
  <2>6. ledger'[k] = ledger[k] + (IF j.target = "shipped" THEN 0 - j.items[l] ELSE j.items[l])
    BY <1>2, <1>3 DEF LedgerInv, ReadsInv, TypeOK
  <2>7. stock[k] \in Int /\ ledger[k] \in Int  BY <1>2 DEF LedgerInv, ReadsInv, TypeOK
  <2> QED BY <1>1, <1>5, <2>2, <2>4, <2>5, <2>6, <2>7
<1> QED BY <1>4, <1>5

LEMMA LedgerStep ==
  ASSUME ShipmentsAssumption, LedgerInv, [Next]_vars
  PROVE  StockMatchesLedger'
<1>1. ASSUME NEW r \in Request, NEW k \in Key,
             RemoveStock(r, k) \/ \E v \in StockValues : SetStock(r, k, v)
      PROVE  StockMatchesLedger'
  <2>1. CASE RemoveStock(r, k)
    BY <2>1 DEF RemoveStock, LedgerInv, ReadsInv, StockMatchesLedger, TypeOK
  <2>2. ASSUME NEW v \in StockValues, SetStock(r, k, v) PROVE StockMatchesLedger'
    BY <2>2 DEF SetStock, LedgerInv, ReadsInv, StockMatchesLedger, TypeOK
  <2> QED BY <1>1, <2>1, <2>2
<1>2. CASE UNCHANGED stockVars
  BY <1>2 DEF LedgerInv, StockMatchesLedger, stockVars
<1>3. ASSUME NEW r \in Request, Step(r), ~UNCHANGED stockVars
      PROVE  \E s \in Shipment, l \in Line : SaveStock(r, s, l)
  BY <1>3 DEF Step, ReadStock, SaveShipment, CreateShipment, CreateItem, DeleteRows, Return
<1>4. ASSUME NEW r \in Request, Abort(r) PROVE UNCHANGED stockVars
  BY <1>4 DEF Abort, Lose
<1>5. ASSUME NEW r \in Request, Begin(r)
      PROVE  \/ UNCHANGED stockVars
             \/ \E k \in Key : RemoveStock(r, k) \/ \E v \in StockValues : SetStock(r, k, v)
  BY <1>5 DEF Begin, ChangeStatus, ProcessOrder, CreateForOrder, Delete, Relocate
<1> QED BY <1>1, <1>2, <1>3, <1>4, <1>5, SaveLedgerStep DEF Next, vars

(* Reading a stock row and saving the sum loses no movement unless another   *)
(* write came between the two: the only way stock drifts from the goods      *)
(* moved (ProductStockService.reduce, increase, update).                     *)
THEOREM LedgerCorrect == Spec => []StockMatchesLedger
<1>1. Init => LedgerInv
  <2>1. ASSUME Init PROVE MovingItems /\ FreshReads /\ StockMatchesLedger
    BY <2>1 DEF Init, MovingItems, FreshReads, StockMatchesLedger
  <2> QED BY <2>1, InitType, ShipmentsAssumption DEF LedgerInv, ReadsInv
<1>2. LedgerInv /\ [Next]_vars => LedgerInv'
  BY LedgerStep, ReadsStep, TypeStep, ShipmentsAssumption DEF LedgerInv, ReadsInv
<1>3. LedgerInv => StockMatchesLedger  BY DEF LedgerInv
<1> QED BY <1>1, <1>2, <1>3, PTL DEF Spec

(* The shipping time follows the status in every row, even one written back  *)
(* from an old copy (ShipmentService.processShipment).                       *)
THEOREM ShippedAtCorrect == Spec => []ShippedAtMatchesStatus
<1> DEFINE Inv == TypeOK /\ ShippedAtMatchesStatus
<1>1. Init => Inv
  BY InitType, ShipmentsAssumption DEF Init, ShippedAtMatchesStatus, ShipmentsAssumption, Shipment
<1>2. ASSUME Inv, [Next]_vars PROVE ShippedAtMatchesStatus'
  <2> DEFINE Good(x) == /\ x.status = "shipped" => x.shippedAt
                        /\ x.status \in {"returned", "cancelled"} => ~x.shippedAt
  <2>1. ASSUME NEW rw \in Row, NEW t \in Status PROVE Good(Processed(rw, t))
    BY DEF Processed, Row, Status
  <2>2. ASSUME NEW r \in Request, NEW s \in Shipment, SaveShipment(r, s)
        PROVE  ShippedAtMatchesStatus'
    <3>1. job[r][s].row \in Row /\ job[r][s].target \in Status
      BY <1>2, <2>2 DEF SaveShipment, TypeOK, Job
    <3>2. row' = [row EXCEPT ![s] = Processed(job[r][s].row, job[r][s].target)]
          /\ live' = live \cup {s}
      BY <2>2 DEF SaveShipment
    <3>3. Good(Processed(job[r][s].row, job[r][s].target))  BY <2>1, <3>1
    <3>4. row'[s] = Processed(job[r][s].row, job[r][s].target)
          /\ \A x \in Shipment \ {s} : row'[x] = row[x]
      BY <1>2, <3>2 DEF TypeOK
    <3> HIDE DEF Good
    <3>5. \A x \in live' : Good(row'[x])
      <4>1. \A x \in live : Good(row[x])  BY <1>2 DEF ShippedAtMatchesStatus, Good
      <4> QED BY <1>2, <3>2, <3>3, <3>4, <4>1 DEF TypeOK
    <3> QED BY <3>5 DEF ShippedAtMatchesStatus, Good
  <2>3. ASSUME NEW r \in Request, NEW w \in Warehouse, CreateShipment(r, w)
        PROVE  ShippedAtMatchesStatus'
    <3>1. PICK o \in filter[r].orders :
            row' = [row EXCEPT ![lastId'] = [order |-> o, status |-> "sent_for_shipment",
                                             shippedAt |-> FALSE, warehouse |-> w]]
      BY <2>3 DEF CreateShipment
    <3>2. live' = live \cup {lastId'} /\ lastId' \in Shipment
      BY <1>2, <2>3, ShipmentsAssumption DEF CreateShipment, TypeOK, Shipment, ShipmentsAssumption
    <3>3. row'[lastId'].status = "sent_for_shipment"
      BY <1>2, <3>1, <3>2 DEF TypeOK
    <3>4. \A x \in Shipment \ {lastId'} : row'[x] = row[x]
      BY <1>2, <3>1 DEF TypeOK
    <3> QED BY <1>2, <3>2, <3>3, <3>4 DEF ShippedAtMatchesStatus, TypeOK
  <2>4. ASSUME NEW r \in Request, NEW f, NEW w \in Warehouse, Relocate(r, f, w)
        PROVE  ShippedAtMatchesStatus'
    BY <1>2, <2>4 DEF Relocate, ShippedAtMatchesStatus, TypeOK, Row
  <2>5. ASSUME live' \subseteq live, UNCHANGED row PROVE ShippedAtMatchesStatus'
    BY <1>2, <2>5 DEF ShippedAtMatchesStatus
  <2>6. ASSUME NEW r \in Request, Abort(r) \/ Return(r) \/ DeleteRows(r)
        PROVE  live' \subseteq live /\ UNCHANGED row
    BY <2>6 DEF Abort, Lose, Return, DeleteRows, shipmentVars
  <2>7. ASSUME NEW r \in Request, NEW s \in Shipment, NEW l \in Line,
               ReadStock(r, s, l) \/ SaveStock(r, s, l)
        PROVE  live' \subseteq live /\ UNCHANGED row
    BY <2>7 DEF ReadStock, SaveStock, shipmentVars
  <2>8. ASSUME NEW r \in Request, NEW w \in Warehouse, NEW l \in Line, CreateItem(r, l, w)
        PROVE  live' \subseteq live /\ UNCHANGED row
    BY <2>8 DEF CreateItem
  <2>9. ASSUME NEW r \in Request, Begin(r),
               ~\E m \in Relocations :
                  Relocate(r, [orders |-> Order, warehouses |-> {m[1]}], m[2])
        PROVE  live' \subseteq live /\ UNCHANGED row
    BY <2>9 DEF Begin, ChangeStatus, ProcessOrder, CreateForOrder, Delete, SetStock,
                RemoveStock, shipmentVars
  <2>10. CASE UNCHANGED vars
    BY <2>5, <2>10 DEF vars, shipmentVars
  <2>11. \A m \in Relocations : m[2] \in Warehouse
    BY ShipmentsAssumption DEF ShipmentsAssumption
  <2> QED BY <1>2, <2>2, <2>3, <2>4, <2>5, <2>6, <2>7, <2>8, <2>9, <2>10, <2>11 DEF Next, Step
<1>3. Inv /\ [Next]_vars => Inv'  BY <1>2, TypeStep, ShipmentsAssumption
<1> QED BY <1>1, <1>3, PTL DEF Spec

------------------------------------------------------------------------------
(* The strengthening behind OneShipmentPerWarehouse: ids are issued once, a  *)
(* job's copy is of the order and, unless the shipment is contended, of the  *)
(* warehouse its row has, and the shipments of an order that are not         *)
(* contended are those each running createForOrder of it has on record.      *)
IssuedOnce ==
  /\ live \subseteq 1..lastId
  /\ \A q \in Request, s \in Shipment : job[q][s] # NoJob => s \in 1..lastId

CopiesAgree ==
  \A q \in Request, s \in Shipment :
    job[q][s] # NoJob =>
      /\ job[q][s].row.order = row[s].order
      /\ job[q][s].row.warehouse = row[s].warehouse \/ s \in contended

OnRecord ==
  \A q \in Request : pc[q] = "create" =>
    \E o \in Order :
      /\ filter[q] = OfOrder(o)
      /\ \A s \in live \ contended :
           row[s].order = o => made[q][row[s].warehouse] = s

OneInv == TypeOK /\ IssuedOnce /\ CopiesAgree /\ OnRecord /\ OneShipmentPerWarehouse

(* Steps that create no shipment and start no createForOrder. *)
LEMMA KeepOneStep ==
  ASSUME ShipmentsAssumption, OneInv, TypeOK',
         lastId' = lastId, live' \subseteq 1..lastId,
         live' \ contended' \subseteq live \ contended, contended \subseteq contended',
         \A s \in Shipment :
           /\ row'[s].order = row[s].order
           /\ row'[s].warehouse = row[s].warehouse \/ s \in contended',
         \A q \in Request, s \in Shipment : job'[q][s] # NoJob =>
           \/ job'[q][s] = job[q][s]
           \/ s \in live /\ job'[q][s].row = row[s],
         \A q \in Request : pc'[q] = "create" =>
           pc[q] = "create" /\ filter'[q] = filter[q] /\ made'[q] = made[q]
  PROVE  IssuedOnce' /\ CopiesAgree' /\ OnRecord' /\ OneShipmentPerWarehouse'
<1>1. IssuedOnce'
  <2>1. ASSUME NEW q \in Request, NEW s \in Shipment, job'[q][s] # NoJob
        PROVE  s \in 1..lastId
    <3>1. job[q][s] # NoJob \/ s \in live  BY <2>1
    <3> QED BY <3>1 DEF OneInv, IssuedOnce
  <2> QED BY <2>1 DEF IssuedOnce
<1>2. CopiesAgree'
  <2> SUFFICES ASSUME NEW q \in Request, NEW s \in Shipment, job'[q][s] # NoJob
               PROVE  /\ job'[q][s].row.order = row'[s].order
                      /\ job'[q][s].row.warehouse = row'[s].warehouse \/ s \in contended'
    BY DEF CopiesAgree
  <2>1. CASE job'[q][s] = job[q][s]  BY <2>1 DEF OneInv, CopiesAgree
  <2>2. CASE s \in live /\ job'[q][s].row = row[s]  BY <2>2
  <2> QED BY <2>1, <2>2
<1>3. \A s \in live' \ contended' : s \in Shipment /\ s \in live \ contended
        /\ row'[s].order = row[s].order /\ row'[s].warehouse = row[s].warehouse
  BY DEF OneInv, TypeOK
<1>4. OneShipmentPerWarehouse'
  BY <1>3 DEF OneInv, OneShipmentPerWarehouse
<1>5. OnRecord'
  <2> SUFFICES ASSUME NEW q \in Request, pc'[q] = "create"
               PROVE  \E o \in Order :
                        /\ filter'[q] = OfOrder(o)
                        /\ \A s \in live' \ contended' :
                             row'[s].order = o => made'[q][row'[s].warehouse] = s
    BY DEF OnRecord
  <2>1. pc[q] = "create" /\ filter'[q] = filter[q] /\ made'[q] = made[q]  OBVIOUS
  <2> QED BY <1>3, <2>1 DEF OneInv, OnRecord
<1> QED BY <1>1, <1>2, <1>4, <1>5

(* Steps of one request that keep rows and are not part of a creation. *)
LEMMA RowsKeptStep ==
  ASSUME ShipmentsAssumption, OneInv, TypeOK', NEW r \in Request,
         UNCHANGED <<row, lastId>>, live' \subseteq live,
         contended' = contended,
         \A q \in Request, s \in Shipment : job'[q][s] # NoJob =>
           job'[q][s] = job[q][s] \/ (s \in live /\ job'[q][s].row = row[s]),
         \A q \in Request : pc'[q] = "create" =>
           pc[q] = "create" /\ filter'[q] = filter[q] /\ made'[q] = made[q]
  PROVE  IssuedOnce' /\ CopiesAgree' /\ OnRecord' /\ OneShipmentPerWarehouse'
<1>1. live' \subseteq 1..lastId  BY DEF OneInv, IssuedOnce
<1> QED BY <1>1, KeepOneStep

(* Jobs start on rows that are there, with a copy of them. *)
LEMMA StartedCopies ==
  ASSUME OneInv, NEW r \in Request, NEW S \in SUBSET live, NEW t, NEW ret,
         StartJobs(r, S, t, ret), NEW q \in Request, NEW s \in Shipment, job'[q][s] # NoJob
  PROVE  job'[q][s] = job[q][s] \/ (s \in live /\ job'[q][s].row = row[s])
<1>1. CASE q = r
  <2>1. job'[r][s] = IF s \in S THEN [row |-> row[s], items |-> items[s],
                                      target |-> t, returnStocks |-> ret] ELSE NoJob
    BY DEF StartJobs, OneInv, TypeOK
  <2> QED BY <1>1, <2>1
<1>2. CASE q # r  BY <1>2 DEF StartJobs, OneInv, TypeOK
<1> QED BY <1>1, <1>2

LEMMA CreateShipmentStep ==
  ASSUME ShipmentsAssumption, OneInv, TypeOK',
         NEW r \in Request, NEW w \in Warehouse, CreateShipment(r, w)
  PROVE  IssuedOnce' /\ CopiesAgree' /\ OnRecord' /\ OneShipmentPerWarehouse'
<1> DEFINE n == lastId'
<1>1. /\ n = lastId + 1 /\ n \in Shipment /\ n \notin 1..lastId /\ lastId \in Nat
      /\ 1..n = 1..lastId \cup {n}
  BY DEF CreateShipment, OneInv, TypeOK, Shipment, ShipmentsAssumption
<1>2. PICK o \in Order :
        /\ filter[r] = OfOrder(o)
        /\ \A s \in live \ contended : row[s].order = o => made[r][row[s].warehouse] = s
  BY DEF CreateShipment, OneInv, OnRecord
<1>3. row' = [row EXCEPT ![n] = [order |-> o, status |-> "sent_for_shipment",
                                 shippedAt |-> FALSE, warehouse |-> w]]
  BY <1>2 DEF CreateShipment, OfOrder
<1>4. /\ row'[n].order = o /\ row'[n].warehouse = w
      /\ \A s \in Shipment \ {n} : row'[s] = row[s]
  BY <1>1, <1>3 DEF OneInv, TypeOK
<1>5. /\ live' = live \cup {n} /\ n \notin live /\ UNCHANGED <<job, pc, filter>>
      /\ contended' = IF Rivals(r) = {} THEN contended ELSE contended \cup {n}
  BY <1>1 DEF CreateShipment, OneInv, IssuedOnce, jobVars
<1>6. /\ made'[r][w] = n /\ \A u \in Warehouse \ {w} : made'[r][u] = made[r][u]
      /\ \A q \in Request \ {r} : made'[q] = made[q]
      /\ made[r][w] = 0
  BY DEF CreateShipment, HasShipment, OneInv, TypeOK
<1>7. IssuedOnce'
  <2>1. live' \subseteq 1..n  BY <1>1, <1>5 DEF OneInv, IssuedOnce
  <2>2. ASSUME NEW q \in Request, NEW s \in Shipment, job'[q][s] # NoJob PROVE s \in 1..n
    <3>1. s \in 1..lastId  BY <1>5, <2>2 DEF OneInv, IssuedOnce
    <3> QED BY <1>1, <3>1
  <2> QED BY <2>1, <2>2 DEF IssuedOnce
<1>8. CopiesAgree'
  <2> SUFFICES ASSUME NEW q \in Request, NEW s \in Shipment, job[q][s] # NoJob
               PROVE  /\ job[q][s].row.order = row'[s].order
                      /\ job[q][s].row.warehouse = row'[s].warehouse \/ s \in contended'
    BY <1>5 DEF CopiesAgree
  <2>1. s # n  BY <1>1 DEF OneInv, IssuedOnce
  <2> QED BY <1>4, <1>5, <2>1 DEF OneInv, CopiesAgree
<1>9. \A s \in live' \ contended' : s # n =>
        s \in live \ contended /\ s \in Shipment /\ row'[s] = row[s]
  BY <1>4, <1>5 DEF OneInv, TypeOK
(* The order has no other shipment at the warehouse. *)
<1>10. ASSUME NEW s \in live \ contended, row[s].order = o
       PROVE  row[s].warehouse \in Warehouse \ {w} /\ made[r][row[s].warehouse] = s
  <2>1. s \in Shipment /\ row[s] \in Row /\ s # 0  BY DEF OneInv, TypeOK, Shipment
  <2>2. made[r][row[s].warehouse] = s  BY <1>2, <1>10
  <2> QED BY <1>6, <2>1, <2>2 DEF Row
<1>11. OnRecord'
  <2> SUFFICES ASSUME NEW q \in Request, pc[q] = "create"
               PROVE  \E x \in Order :
                        /\ filter[q] = OfOrder(x)
                        /\ \A s \in live' \ contended' :
                             row'[s].order = x => made'[q][row'[s].warehouse] = s
    BY <1>5 DEF OnRecord
  <2>1. CASE q = r
    <3>1. ASSUME NEW s \in live' \ contended', row'[s].order = o
          PROVE  made'[r][row'[s].warehouse] = s
      <4>1. CASE s = n  BY <1>4, <1>6, <4>1
      <4>2. CASE s # n  BY <1>6, <1>9, <1>10, <3>1, <4>2
      <4> QED BY <4>1, <4>2
    <3> QED BY <1>2, <2>1, <3>1
  <2>2. CASE q # r
    <3>1. PICK x \in Order :
            /\ filter[q] = OfOrder(x)
            /\ \A s \in live \ contended : row[s].order = x => made[q][row[s].warehouse] = s
      BY DEF OneInv, OnRecord
    <3>2. ASSUME NEW s \in live' \ contended', row'[s].order = x
          PROVE  made'[q][row'[s].warehouse] = s
      <4>1. CASE s = n
        <5>1. x = o  BY <1>4, <3>2, <4>1
        <5>2. q \in Rivals(r)  BY <1>2, <2>2, <3>1, <5>1 DEF Rivals, OfOrder
        <5> QED BY <1>5, <4>1, <5>2
      <4>2. CASE s # n  BY <1>6, <1>9, <2>2, <3>1, <3>2, <4>2
      <4> QED BY <4>1, <4>2
    <3> QED BY <3>1, <3>2
  <2> QED BY <2>1, <2>2
<1>12. OneShipmentPerWarehouse'
  <2> SUFFICES ASSUME NEW s \in live' \ contended', NEW t \in live' \ contended', s # t,
                      row'[s].order = row'[t].order, row'[s].warehouse = row'[t].warehouse
               PROVE  FALSE
    BY DEF OneShipmentPerWarehouse
  <2>1. CASE s # n /\ t # n  BY <1>9, <2>1 DEF OneInv, OneShipmentPerWarehouse
  <2>2. CASE s = n  BY <1>4, <1>9, <1>10, <2>2
  <2>3. CASE t = n  BY <1>4, <1>9, <1>10, <2>3
  <2> QED BY <2>1, <2>2, <2>3
<1> QED BY <1>7, <1>8, <1>11, <1>12

LEMMA CreateForOrderStep ==
  ASSUME ShipmentsAssumption, OneInv, TypeOK',
         NEW r \in Request, NEW o \in Order, NEW p \in [Line -> [Warehouse -> Quantity]],
         CreateForOrder(r, o, p)
  PROVE  IssuedOnce' /\ CopiesAgree' /\ OnRecord' /\ OneShipmentPerWarehouse'
<1>1. /\ live' = live \ Matches(OfOrder(o)) /\ UNCHANGED <<row, lastId, job, made, contended>>
      /\ pc' = [pc EXCEPT ![r] = "create"] /\ filter' = [filter EXCEPT ![r] = OfOrder(o)]
  BY DEF CreateForOrder, Replaced, jobVars
<1>2. \A s \in live' : s \in live /\ s \in Shipment /\ row[s].order # o
  BY <1>1 DEF Matches, OfOrder, OneInv, TypeOK, Row
<1>3. IssuedOnce'  BY <1>1 DEF OneInv, IssuedOnce
<1>4. CopiesAgree'  BY <1>1 DEF OneInv, CopiesAgree
<1>5. OneShipmentPerWarehouse'
  BY <1>1, <1>2 DEF OneInv, OneShipmentPerWarehouse
<1>6. OnRecord'
  <2> SUFFICES ASSUME NEW q \in Request, pc'[q] = "create"
               PROVE  \E x \in Order :
                        /\ filter'[q] = OfOrder(x)
                        /\ \A s \in live' \ contended' :
                             row'[s].order = x => made'[q][row'[s].warehouse] = s
    BY DEF OnRecord
  <2>1. CASE q = r
    <3>1. filter'[r] = OfOrder(o)  BY <1>1 DEF OneInv, TypeOK
    <3> QED BY <1>1, <1>2, <2>1, <3>1
  <2>2. CASE q # r
    <3>1. pc[q] = "create" /\ filter'[q] = filter[q]  BY <1>1, <2>2 DEF OneInv, TypeOK
    <3> QED BY <1>1, <1>2, <3>1 DEF OneInv, OnRecord
  <2> QED BY <2>1, <2>2
<1> QED BY <1>3, <1>4, <1>5, <1>6

LEMMA SaveShipmentStep ==
  ASSUME ShipmentsAssumption, OneInv, TypeOK',
         NEW r \in Request, NEW s \in Shipment, SaveShipment(r, s)
  PROVE  IssuedOnce' /\ CopiesAgree' /\ OnRecord' /\ OneShipmentPerWarehouse'
<1> DEFINE j == job[r][s]
<1>1. /\ j # NoJob /\ row' = [row EXCEPT ![s] = Processed(j.row, j.target)]
      /\ live' = live \cup {s} /\ job' = [job EXCEPT ![r][s] = NoJob]
      /\ contended' = contended \cup ({s} \ live)
      /\ UNCHANGED <<lastId, pc, filter, made>>
  BY DEF SaveShipment, createVars
<1>2. /\ j.row \in Row /\ j.row.order = row[s].order
      /\ j.row.warehouse = row[s].warehouse \/ s \in contended
  BY <1>1 DEF OneInv, CopiesAgree, TypeOK, Job
<1>3. /\ Processed(j.row, j.target).order = j.row.order
      /\ Processed(j.row, j.target).warehouse = j.row.warehouse
  BY <1>2 DEF Processed, Row
<1>4. \A x \in Shipment : /\ row'[x].order = row[x].order
                          /\ row'[x].warehouse = row[x].warehouse \/ x \in contended'
  BY <1>1, <1>2, <1>3 DEF OneInv, TypeOK
<1>5. live' \subseteq 1..lastId  BY <1>1 DEF OneInv, IssuedOnce
<1>6. live' \ contended' \subseteq live \ contended  BY <1>1
<1>7. \A q \in Request, x \in Shipment : job'[q][x] # NoJob => job'[q][x] = job[q][x]
  BY <1>1 DEF OneInv, TypeOK
<1> QED BY <1>1, <1>4, <1>5, <1>6, <1>7, KeepOneStep

LEMMA RelocateStep ==
  ASSUME ShipmentsAssumption, OneInv, TypeOK', NEW r \in Request, NEW f, NEW w \in Warehouse,
         Relocate(r, f, w)
  PROVE  IssuedOnce' /\ CopiesAgree' /\ OnRecord' /\ OneShipmentPerWarehouse'
<1>1. /\ UNCHANGED <<live, lastId, job, filter, made>> /\ pc' = [pc EXCEPT ![r] = "done"]
      /\ contended' = contended \cup Matches(f)
      /\ row' = [s \in Shipment |->
                   IF s \in Matches(f) THEN [row[s] EXCEPT !.warehouse = w] ELSE row[s]]
  BY DEF Relocate, createVars, jobVars
<1>2. \A s \in Shipment : /\ row'[s].order = row[s].order
                          /\ row'[s].warehouse = row[s].warehouse \/ s \in contended'
  BY <1>1 DEF OneInv, TypeOK, Row
<1>3. \A q \in Request : pc'[q] = "create" => pc[q] = "create"
  BY <1>1 DEF OneInv, TypeOK
<1>4. live \subseteq 1..lastId  BY DEF OneInv, IssuedOnce
<1>5. live' \ contended' \subseteq live \ contended /\ contended \subseteq contended'
  BY <1>1
<1> QED BY <1>1, <1>2, <1>3, <1>4, <1>5, KeepOneStep

LEMMA OneStep ==
  ASSUME ShipmentsAssumption, OneInv, TypeOK', [Next]_vars
  PROVE  IssuedOnce' /\ CopiesAgree' /\ OnRecord' /\ OneShipmentPerWarehouse'
<1> DEFINE Kept == IssuedOnce' /\ CopiesAgree' /\ OnRecord' /\ OneShipmentPerWarehouse'
<1> USE ShipmentsAssumption, OneInv
<1>1. ASSUME NEW r \in Request, NEW s \in Shipment, NEW t \in Status, NEW ret \in BOOLEAN,
             ChangeStatus(r, s, t, ret)
      PROVE  Kept
  <2> DEFINE S == {x \in {s} : row[x].status # t}
  <2>1. S \in SUBSET live /\ StartJobs(r, S, t, ret)  BY <1>1 DEF ChangeStatus
  <2>2. \A q \in Request : pc'[q] = "create" => pc[q] = "create"
    BY <1>1 DEF ChangeStatus, OneInv, TypeOK
  <2>3. UNCHANGED <<row, lastId, live, filter, made, contended>>
    BY <1>1 DEF ChangeStatus, shipmentVars, createVars
  <2>4. \A q \in Request, x \in Shipment : job'[q][x] # NoJob =>
          job'[q][x] = job[q][x] \/ (x \in live /\ job'[q][x].row = row[x])
    BY <2>1, StartedCopies
  <2> QED BY <2>2, <2>3, <2>4, RowsKeptStep
<1>2. ASSUME NEW r \in Request, NEW o \in Order, NEW t \in Status, NEW ret \in BOOLEAN,
             ProcessOrder(r, o, t, ret)
      PROVE  Kept
  <2> DEFINE S == {s \in Matches(OfOrder(o)) : row[s].status # t}
  <2>1. S \in SUBSET live /\ StartJobs(r, S, t, ret)  BY <1>2 DEF ProcessOrder, Matches
  <2>2. \A q \in Request : pc'[q] = "create" => pc[q] = "create"
    BY <1>2 DEF ProcessOrder, OneInv, TypeOK
  <2>3. UNCHANGED <<row, lastId, live, filter, made, contended>>
    BY <1>2 DEF ProcessOrder, shipmentVars, createVars
  <2>4. \A q \in Request, x \in Shipment : job'[q][x] # NoJob =>
          job'[q][x] = job[q][x] \/ (x \in live /\ job'[q][x].row = row[x])
    BY <2>1, StartedCopies
  <2> QED BY <2>2, <2>3, <2>4, RowsKeptStep
<1>3. ASSUME NEW r \in Request, NEW f, NEW ret \in BOOLEAN, Delete(r, f, ret)
      PROVE  Kept
  <2> DEFINE S == {s \in Matches(f) : ret /\ row[s].status = "shipped"}
  <2>1. S \in SUBSET live /\ StartJobs(r, S, Deleted, ret)  BY <1>3 DEF Delete, Matches
  <2>2. \A q \in Request : pc'[q] = "create" => pc[q] = "create" /\ filter'[q] = filter[q]
    BY <1>3 DEF Delete, OneInv, TypeOK
  <2>3. UNCHANGED <<row, lastId, live, made, contended>>
    BY <1>3 DEF Delete, shipmentVars
  <2>4. \A q \in Request, x \in Shipment : job'[q][x] # NoJob =>
          job'[q][x] = job[q][x] \/ (x \in live /\ job'[q][x].row = row[x])
    BY <2>1, StartedCopies
  <2> QED BY <2>2, <2>3, <2>4, RowsKeptStep
<1>4. ASSUME NEW r \in Request, NEW k \in Key,
             RemoveStock(r, k) \/ \E v \in StockValues : SetStock(r, k, v)
      PROVE  Kept
  <2>1. /\ UNCHANGED <<row, lastId, live, filter, made, contended, collided, job>>
        /\ pc' = [pc EXCEPT ![r] = "done"]
    BY <1>4 DEF RemoveStock, SetStock, shipmentVars, createVars
  <2>2. \A q \in Request : pc'[q] = "create" => pc[q] = "create"
    BY <2>1 DEF OneInv, TypeOK
  <2> QED BY <2>1, <2>2, RowsKeptStep
<1>5. ASSUME NEW r \in Request, NEW s \in Shipment, NEW l \in Line,
             ReadStock(r, s, l) \/ SaveStock(r, s, l)
      PROVE  Kept
  <2>1. UNCHANGED <<row, lastId, live, filter, made, contended, collided, job, pc>>
    BY <1>5 DEF ReadStock, SaveStock, shipmentVars, createVars
  <2> QED BY <2>1, RowsKeptStep
<1>6. ASSUME NEW r \in Request, NEW w \in Warehouse, NEW l \in Line, CreateItem(r, l, w)
      PROVE  Kept
  <2>1. /\ UNCHANGED <<row, lastId, live, contended, collided, job>>
        /\ \/ UNCHANGED <<pc, filter, made>>
           \/ /\ pc' = [pc EXCEPT ![r] = "failed"]
              /\ made' = [made EXCEPT ![r] = [y \in Warehouse |-> 0]]
              /\ filter' = [filter EXCEPT ![r] = NoFilter]
    BY <1>6 DEF CreateItem, jobVars
  <2>2. \A q \in Request : pc'[q] = "create" =>
          pc[q] = "create" /\ filter'[q] = filter[q] /\ made'[q] = made[q]
    BY <2>1 DEF OneInv, TypeOK
  <2> QED BY <2>1, <2>2, RowsKeptStep
<1>7. ASSUME NEW r \in Request, DeleteRows(r) \/ Return(r) \/ Abort(r)
      PROVE  Kept
  <2>1. UNCHANGED <<row, lastId, contended>> /\ live' \subseteq live
    BY <1>7 DEF DeleteRows, Return, Abort, Lose, shipmentVars
  <2>2. \A q \in Request, x \in Shipment : job'[q][x] # NoJob => job'[q][x] = job[q][x]
    BY <1>7 DEF DeleteRows, Return, Abort, Lose, jobVars, OneInv, TypeOK
  <2>3. \A q \in Request : pc'[q] = "create" =>
          pc[q] = "create" /\ filter'[q] = filter[q] /\ made'[q] = made[q]
    BY <1>7 DEF DeleteRows, Return, Abort, Lose, OneInv, TypeOK
  <2> QED BY <2>1, <2>2, <2>3, RowsKeptStep
<1>8. CASE UNCHANGED vars
  <2>1. UNCHANGED <<row, lastId, live, filter, made, contended, collided, job, pc>>
    BY <1>8 DEF vars, shipmentVars, createVars, jobVars
  <2> QED BY <2>1, RowsKeptStep DEF OneInv, IssuedOnce, CopiesAgree, OnRecord,
                                    OneShipmentPerWarehouse
<1>9. \A m \in Relocations : m[2] \in Warehouse  BY DEF ShipmentsAssumption
<1> QED BY <1>1, <1>2, <1>3, <1>4, <1>5, <1>6, <1>7, <1>8, <1>9, CreateShipmentStep,
           CreateForOrderStep, SaveShipmentStep, RelocateStep DEF Next, Begin, Step

(* An order has two shipments at one warehouse only if one of them was       *)
(* created beside another createForOrder, moved or brought back, whatever    *)
(* else interleaves and wherever a request is lost                           *)
(* (ShipmentService.createForOrder, createForOrderItem, processShipment).    *)
THEOREM OneShipmentCorrect == Spec => []OneShipmentPerWarehouse
<1>1. Init => OneInv
  <2>1. ASSUME Init PROVE IssuedOnce /\ CopiesAgree /\ OnRecord
    BY <2>1 DEF Init, IssuedOnce, CopiesAgree, OnRecord
  <2>2. ASSUME Init PROVE OneShipmentPerWarehouse
    BY <2>2, ShipmentsAssumption DEF Init, OneShipmentPerWarehouse, ShipmentsAssumption
  <2> QED BY <2>1, <2>2, InitType, ShipmentsAssumption DEF OneInv
<1>2. OneInv /\ [Next]_vars => OneInv'
  BY OneStep, TypeStep, ShipmentsAssumption DEF OneInv
<1>3. OneInv => OneShipmentPerWarehouse  BY DEF OneInv
<1> QED BY <1>1, <1>2, <1>3, PTL DEF Spec
==============================================================================
