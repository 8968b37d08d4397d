---------------------------- MODULE ScheduledProofs ----------------------------
(***************************************************************************)
(* Theorems about ScheduledMessages, for every number of queues, sends,    *)
(* messages and failures: its safety properties and that it implements     *)
(* Outbox.                                                                 *)
(***************************************************************************)
EXTENDS ScheduledMessages, SequenceTheorems, TLAPS

(* The strengthening behind DeliveredOnce and InOrder.  Unless two sends of  *)
(* a message have overlapped, one send at most has it; unless that one was   *)
(* cut short, a message that has gone out was delivered once, and it is out  *)
(* of the queue but for the send that is about to mark it.                   *)
OneSend ==
  \A m \in Id \ overlapped : \A i, j \in Job : msg[i] = m /\ msg[j] = m => i = j
SentOnce ==
  \A m \in Id \ (overlapped \cup broken) : delivered[m] > 0 =>
    /\ delivered[m] = 1
    /\ \A j \in Job : msg[j] = m => stage[j] = "mark"
    /\ m \in Waiting => \E j \in Job : msg[j] = m
SendInv == ScheduledTypeOK /\ InOrder /\ OneSend /\ SentOnce

USE ScheduledAssumption

------------------------------------------------------------------------------
(* Facts about the data *)

LEMMA RowFacts ==
  ASSUME NEW r \in Row
  PROVE  /\ r.queue \in Queue /\ r.content \in Content(r.queue)
         /\ r.status \in {"waiting", "sent", "deleted"} /\ r.ago \in 0..Interval
         /\ [r EXCEPT !.status = "sent", !.ago = 0] \in Row
         /\ [r EXCEPT !.status = "deleted"] \in Row
         /\ r.ago < Interval => [r EXCEPT !.ago = @ + 1] \in Row
<1>1. 0 \in 0..Interval /\ \A a \in 0..Interval : a < Interval => a + 1 \in 0..Interval
  BY DEF ScheduledAssumption
<1> QED BY <1>1 DEF Row

LEMMA IdFacts ==
  ASSUME ScheduledTypeOK
  PROVE  /\ Id = 1..Len(rows) /\ Len(rows) \in Nat /\ NoMessage \notin Id
         /\ \A m \in Id : rows[m] \in Row /\ m \in Nat /\ delivered[m] \in 0..2
         /\ DOMAIN delivered = Id
BY DEF ScheduledTypeOK, Id

(* A sequence whose elements are replaced is one of the same length. *)
LEMMA SameLength ==
  ASSUME NEW S, NEW s \in Seq(S), NEW t \in [DOMAIN s -> S]
  PROVE  t \in Seq(S) /\ Len(t) = Len(s) /\ DOMAIN t = DOMAIN s
<1>1. DOMAIN s = 1..Len(s) /\ Len(s) \in Nat
  BY LenProperties
<1>2. t \in Seq(S)
  BY <1>1, SeqDef
<1>3. DOMAIN t = 1..Len(t) /\ Len(t) \in Nat
  BY <1>2, LenProperties
<1>4. DOMAIN t = DOMAIN s
  OBVIOUS
<1> QED BY <1>1, <1>2, <1>3, <1>4

LEMMA SeqIsFunction ==
  ASSUME NEW S, NEW s \in Seq(S) PROVE s = [i \in DOMAIN s |-> s[i]]
<1> PICK n \in Nat : s \in [1..n -> S]
  BY SeqDef
<1> QED OBVIOUS

LEMMA Appended ==
  ASSUME NEW S, NEW s \in Seq(S), NEW e \in S
  PROVE  /\ Append(s, e) \in Seq(S) /\ Len(Append(s, e)) = Len(s) + 1
         /\ DOMAIN Append(s, e) = 1..(Len(s) + 1)
         /\ \A i \in 1..Len(s) : Append(s, e)[i] = s[i]
         /\ Append(s, e)[Len(s) + 1] = e
BY AppendProperties, LenProperties

------------------------------------------------------------------------------
(* What steps leave alone *)

(* No row comes or changes its queue, none goes back to its queue.           *)
RowsKept ==
  /\ rows' \in Seq(Row) /\ Len(rows') = Len(rows) /\ Id' = Id
  /\ \A m \in Id : /\ rows'[m].queue = rows[m].queue
                   /\ rows'[m].status = "waiting" => rows[m].status = "waiting"

LEMMA SameRows == ASSUME ScheduledTypeOK, rows' = rows PROVE RowsKept
BY DEF RowsKept, ScheduledTypeOK, Id

LEMMA NewRows ==
  ASSUME ScheduledTypeOK, rows' \in [Id -> Row],
         \A m \in Id : /\ rows'[m].queue = rows[m].queue
                       /\ rows'[m].status = "waiting" => rows[m].status = "waiting"
  PROVE  RowsKept
BY SameLength DEF RowsKept, ScheduledTypeOK, Id

(* The order stays when only heads are taken and nothing else goes out.      *)
LEMMA OrderKept ==
  ASSUME ScheduledTypeOK, InOrder, RowsKept,
         \A m \in Id : delivered'[m] > 0 \/ (\E j \in Job : msg'[j] = m) =>
            delivered[m] > 0 \/ (\E j \in Job : msg[j] = m) \/ m \in Heads
  PROVE  InOrder'
<1> SUFFICES ASSUME NEW m \in Id', delivered'[m] > 0 \/ (\E j \in Job : msg'[j] = m)
             PROVE  Before(m)' \cap Waiting' = {}
  BY DEF InOrder
<1>1. m \in Id /\ Before(m)' = Before(m) /\ Waiting' \subseteq Waiting
  BY DEF RowsKept, Before, Waiting
<1>2. Before(m) \cap Waiting = {}
  BY <1>1 DEF InOrder, Heads
<1> QED BY <1>1, <1>2

LEMMA OneSendKept ==
  ASSUME ScheduledTypeOK, OneSend, RowsKept, overlapped \subseteq overlapped',
         \A j \in Job : msg'[j] \in {msg[j], NoMessage}
  PROVE  OneSend'
<1> SUFFICES ASSUME NEW m \in Id \ overlapped, NEW i \in Job, NEW j \in Job,
                    msg'[i] = m, msg'[j] = m
             PROVE  i = j
  BY DEF OneSend, RowsKept
<1> QED BY IdFacts DEF OneSend

(* Enough for a step that takes no message and marks none as sent out but    *)
(* those of broken sends.                                                    *)
LEMMA QuietStep ==
  ASSUME SendInv, ScheduledTypeOK', RowsKept,
         overlapped \subseteq overlapped', broken \subseteq broken',
         \A m \in Id : delivered'[m] = delivered[m] \/ (m \in broken' /\ \E j \in Job : msg[j] = m),
         \A j \in Job :
           \/ msg'[j] = msg[j] /\ (stage[j] = "mark" => stage'[j] = "mark")
           \/ /\ msg'[j] = NoMessage
              /\ stage[j] = "mark" => msg[j] \in broken' \/ msg[j] \notin Waiting'
  PROVE  SendInv'
<1>1. ScheduledTypeOK /\ InOrder /\ OneSend /\ SentOnce /\ NoMessage \notin Id
  BY IdFacts DEF SendInv
<1>2. InOrder'
  <2>1. \A m \in Id, j \in Job : msg'[j] = m => msg[j] = m
    BY <1>1
  <2> QED BY <1>1, <2>1, OrderKept
<1>3. OneSend'
  BY <1>1, OneSendKept
<1>4. SentOnce'
  <2> SUFFICES ASSUME NEW m \in Id \ (overlapped' \cup broken'), delivered'[m] > 0
               PROVE  /\ delivered'[m] = 1
                      /\ \A j \in Job : msg'[j] = m => stage'[j] = "mark"
                      /\ m \in Waiting' => \E j \in Job : msg'[j] = m
    BY DEF SentOnce, RowsKept
  <2>1. /\ delivered'[m] = delivered[m] /\ delivered[m] = 1
        /\ \A j \in Job : msg[j] = m => stage[j] = "mark"
        /\ m \in Waiting => \E j \in Job : msg[j] = m
    BY <1>1 DEF SentOnce
  <2>2. m \in Waiting' => m \in Waiting
    BY DEF Waiting, RowsKept
  <2> QED BY <1>1, <2>1, <2>2
<1> QED BY <1>2, <1>3, <1>4 DEF SendInv

LEMMA StillStep ==
  ASSUME SendInv, ScheduledTypeOK', RowsKept, UNCHANGED <<stage, msg, delivered, overlapped, broken>>
  PROVE  SendInv'
<1>1. /\ overlapped \subseteq overlapped' /\ broken \subseteq broken'
      /\ \A m \in Id : delivered'[m] = delivered[m]
      /\ \A j \in Job : msg'[j] = msg[j] /\ (stage[j] = "mark" => stage'[j] = "mark")
  OBVIOUS
<1> HIDE DEF RowsKept
<1> QED BY ONLY <1>1, QuietStep, SendInv, ScheduledTypeOK', RowsKept

(* A send that ends, and one that goes on.                                   *)
LEMMA EndsFacts ==
  ASSUME ScheduledTypeOK, NEW j \in Job, Ends(j)
  PROVE  /\ stage' \in [Job -> Stage] /\ msg' \in [Job -> Id \cup {NoMessage}]
         /\ \A i \in Job : stage'[i] = "idle" <=> msg'[i] = NoMessage
         /\ msg'[j] = NoMessage
         /\ \A i \in Job \ {j} : msg'[i] = msg[i] /\ stage'[i] = stage[i]
BY DEF Ends, ScheduledTypeOK, At, Stage

LEMMA GoesFacts ==
  ASSUME ScheduledTypeOK, NEW j \in Job, NEW s \in Stage \ {"idle"}, Goes(j, s), ~At(j, "idle")
  PROVE  /\ stage' \in [Job -> Stage] /\ msg' \in [Job -> Id \cup {NoMessage}]
         /\ \A i \in Job : stage'[i] = "idle" <=> msg'[i] = NoMessage
         /\ stage'[j] = s /\ msg' = msg
         /\ \A i \in Job \ {j} : stage'[i] = stage[i]
BY DEF Goes, ScheduledTypeOK, At, Stage

LEMMA Held ==
  ASSUME ScheduledTypeOK, NEW j \in Job, ~At(j, "idle") PROVE msg[j] \in Id /\ msg[j] # NoMessage
BY IdFacts DEF ScheduledTypeOK, At

------------------------------------------------------------------------------
(* Every action keeps the invariant. *)

LEMMA InitInv == Init => SendInv
<1> SUFFICES ASSUME Init PROVE SendInv
  OBVIOUS
<1>1. rows = <<>> /\ delivered = <<>> /\ plan = <<>> /\ Id = {}
  BY DEF Init, Id
<1>2. rows \in Seq(Row) /\ plan \in Seq(Row) /\ delivered \in Seq(0..2) /\ Len(delivered) = Len(rows)
  BY <1>1, EmptySeq
<1>3. ScheduledTypeOK
  BY <1>1, <1>2 DEF Init, ScheduledTypeOK, Stage, At
<1> QED BY <1>1, <1>3 DEF SendInv, InOrder, OneSend, SentOnce

LEMMA PlanInv ==
  ASSUME SendInv,
         (\E a \in Automations : Automate(a)) \/ CreateFails
  PROVE  SendInv'
<1>1. UNCHANGED <<rows, sendVars, ghostVars>>
  BY DEF Automate, CreateFails
<1>2. plan' \in Seq(Row)
  <2>1. ASSUME NEW a \in Automations, Automate(a) PROVE plan' \in Seq(Row)
    <3>1. a.queue \in Queue /\ a.contents \in Seq(Content(a.queue))
      BY AutomationsAssumption DEF AutomationsAssumption
    <3>2. \A c \in Content(a.queue) : NewRow(a.queue, c) \in Row
      BY <3>1 DEF NewRow, Row, Content
    <3>3. DOMAIN a.contents = 1..Len(a.contents) /\ Len(a.contents) \in Nat
          /\ \A i \in DOMAIN a.contents : a.contents[i] \in Content(a.queue)
      BY <3>1, ElementOfSeq, LenProperties
    <3>4. plan' \in [1..Len(a.contents) -> Row]
      BY <2>1, <3>2, <3>3 DEF Automate
    <3> QED BY <3>3, <3>4, SeqDef
  <2>2. CASE CreateFails
    <3>1. plan \in Seq(Row) /\ plan # <<>> /\ plan' \in {<<>>, Tail(plan)}
      BY <2>2 DEF CreateFails, SendInv, ScheduledTypeOK
    <3>2. Tail(plan) \in Seq(Row)
      BY <3>1, HeadTailProperties
    <3> QED BY <3>1, <3>2, EmptySeq
  <2> QED BY <2>1, <2>2
<1>3. accidents' \in 0..MaxAccidents
  BY DEF Automate, CreateFails, Accident, SendInv, ScheduledTypeOK
<1>4. ScheduledTypeOK'
  BY <1>1, <1>2, <1>3 DEF SendInv, ScheduledTypeOK, Id, At, sendVars, ghostVars
<1>5. RowsKept
  BY <1>1, SameRows DEF SendInv
<1>6. UNCHANGED <<stage, msg, delivered, overlapped, broken>>
  BY <1>1 DEF sendVars, ghostVars
<1> QED BY <1>4, <1>5, <1>6, StillStep

LEMMA DeleteInv ==
  ASSUME SendInv, NEW S \in SUBSET Id, Delete(S) PROVE SendInv'
<1>1. ScheduledTypeOK /\ \A m \in Id : rows[m] \in Row
  BY IdFacts DEF SendInv
<1>2. UNCHANGED <<plan, sendVars, ghostVars, accidents>>
      /\ rows' = [m \in Id |-> IF m \in S THEN [rows[m] EXCEPT !.status = "deleted"] ELSE rows[m]]
  BY DEF Delete
<1>3. rows' \in [Id -> Row]
  BY <1>1, <1>2, RowFacts
<1>4. \A m \in Id : /\ rows'[m].queue = rows[m].queue
                    /\ rows'[m].status = "waiting" => rows[m].status = "waiting"
  BY <1>1, <1>2 DEF Row
<1>5. RowsKept
  BY <1>1, <1>3, <1>4, NewRows
<1>6. ScheduledTypeOK'
  BY <1>1, <1>2, <1>5 DEF ScheduledTypeOK, RowsKept, At, sendVars, ghostVars
<1>7. UNCHANGED <<stage, msg, delivered, overlapped, broken>>
  BY <1>2 DEF sendVars, ghostVars
<1> QED BY <1>5, <1>6, <1>7, StillStep

(* A send that ends, goes on, or falls out with others.                      *)
LEMMA SendEndsInv ==
  ASSUME SendInv, NEW j \in Job, Ends(j), RowsKept, rows' \in Seq(Row), plan' = plan,
         delivered' \in Seq(0..2), Len(delivered') = Len(rows),
         accidents' \in 0..MaxAccidents, ~At(j, "idle"), overlapped' = overlapped,
         broken' \in {broken, broken \cup {msg[j]}},
         \A m \in Id : delivered'[m] = delivered[m] \/ (m \in broken' /\ m = msg[j]),
         At(j, "mark") => msg[j] \in broken' \/ msg[j] \notin Waiting'
  PROVE  SendInv'
<1>1. ScheduledTypeOK /\ msg[j] \in Id
  BY Held DEF SendInv
<1>2. /\ stage' \in [Job -> Stage] /\ msg' \in [Job -> Id \cup {NoMessage}]
      /\ \A i \in Job : stage'[i] = "idle" <=> msg'[i] = NoMessage
      /\ msg'[j] = NoMessage
      /\ \A i \in Job \ {j} : msg'[i] = msg[i] /\ stage'[i] = stage[i]
  BY <1>1, EndsFacts
<1>3. broken' \subseteq Id /\ overlapped' \subseteq Id /\ plan' \in Seq(Row)
  BY <1>1 DEF ScheduledTypeOK
<1>4. ScheduledTypeOK'
  BY <1>1, <1>2, <1>3 DEF ScheduledTypeOK, RowsKept, At
<1>5. \A i \in Job :
        \/ msg'[i] = msg[i] /\ (stage[i] = "mark" => stage'[i] = "mark")
        \/ /\ msg'[i] = NoMessage
           /\ stage[i] = "mark" => msg[i] \in broken' \/ msg[i] \notin Waiting'
  BY <1>2 DEF At
<1>6. \A m \in Id : delivered'[m] = delivered[m] \/ (m \in broken' /\ \E i \in Job : msg[i] = m)
  OBVIOUS
<1> QED BY <1>4, <1>5, <1>6, QuietStep

LEMMA SendGoesInv ==
  ASSUME SendInv, NEW j \in Job, NEW s \in Stage \ {"idle"}, Goes(j, s), ~At(j, "idle"),
         ~At(j, "mark"), UNCHANGED <<rows, plan, delivered, overlapped, broken, accidents>>
  PROVE  SendInv'
<1>1. ScheduledTypeOK /\ RowsKept
  BY SameRows DEF SendInv
<1>2. /\ stage' \in [Job -> Stage] /\ msg' \in [Job -> Id \cup {NoMessage}]
      /\ \A i \in Job : stage'[i] = "idle" <=> msg'[i] = NoMessage
      /\ stage'[j] = s /\ msg' = msg
      /\ \A i \in Job \ {j} : stage'[i] = stage[i]
  BY <1>1, GoesFacts
<1>3. ScheduledTypeOK'
  BY <1>1, <1>2 DEF ScheduledTypeOK, RowsKept, At
<1>4. \A i \in Job : msg'[i] = msg[i] /\ (stage[i] = "mark" => stage'[i] = "mark")
  BY <1>2 DEF At
<1>5. \A m \in Id : delivered'[m] = delivered[m] \/ (m \in broken' /\ \E i \in Job : msg[i] = m)
  OBVIOUS
<1> QED BY <1>1, <1>3, <1>4, <1>5, QuietStep

LEMMA OutFacts ==
  ASSUME ScheduledTypeOK, NEW m \in Id, Out(m)
  PROVE  /\ delivered' \in Seq(0..2) /\ Len(delivered') = Len(rows)
         /\ delivered'[m] = (IF delivered[m] < 2 THEN delivered[m] + 1 ELSE delivered[m])
         /\ \A k \in Id \ {m} : delivered'[k] = delivered[k]
<1>1. delivered \in Seq(0..2) /\ Len(delivered) = Len(rows) /\ DOMAIN delivered = Id
      /\ \A k \in Id : delivered[k] \in 0..2
  BY IdFacts DEF ScheduledTypeOK
<1>2. delivered' = [delivered EXCEPT ![m] = IF @ < 2 THEN @ + 1 ELSE @]
  BY DEF Out
<1>3. delivered' \in [Id -> 0..2]
  BY <1>1, <1>2
<1>4. delivered' \in Seq(0..2) /\ Len(delivered') = Len(delivered)
  BY <1>1, <1>3, SameLength
<1> QED BY <1>1, <1>2, <1>4

LEMMA ProcessMessageInv ==
  ASSUME SendInv, NEW j \in Job, ProcessMessage(j) \/ FindOne(j) PROVE SendInv'
<1>1. UNCHANGED <<rows, plan, delivered, overlapped, broken, accidents>>
  BY DEF ProcessMessage, FindOne, ghostVars
<1>2. ~At(j, "idle") /\ ~At(j, "mark") /\ (Ends(j) \/ Goes(j, "load") \/ Goes(j, "deliver"))
  BY DEF ProcessMessage, FindOne, At
<1>3. CASE Ends(j)
  <2>1. RowsKept /\ rows' \in Seq(Row) /\ delivered' \in Seq(0..2) /\ Len(delivered') = Len(rows)
        /\ accidents' \in 0..MaxAccidents
    BY <1>1, SameRows DEF SendInv, ScheduledTypeOK
  <2> QED BY <1>1, <1>2, <1>3, <2>1, SendEndsInv
<1>4. CASE \E s \in {"load", "deliver"} : Goes(j, s)
  BY <1>1, <1>2, <1>4, SendGoesInv DEF Stage
<1> QED BY <1>2, <1>3, <1>4

LEMMA ProcessMessageFailsInv ==
  ASSUME SendInv, NEW j \in Job, ProcessMessageFails(j) PROVE SendInv'
<1>1. ScheduledTypeOK /\ RowsKept /\ UNCHANGED <<rows, plan, delivered, overlapped, broken>>
      /\ accidents' \in 0..MaxAccidents
  BY SameRows DEF SendInv, ProcessMessageFails, ghostVars, Accident, ScheduledTypeOK
<1>2. PICK lost \in SUBSET Job :
        /\ \A i \in lost : At(i, "check")
        /\ stage' = [i \in Job |-> IF i \in lost THEN "idle" ELSE stage[i]]
        /\ msg' = [i \in Job |-> IF i \in lost THEN NoMessage ELSE msg[i]]
  <2>1. PICK others \in SUBSET {i \in Job : At(i, "check")} :
          /\ stage' = [i \in Job |-> IF i \in others \cup {j} THEN "idle" ELSE stage[i]]
          /\ msg' = [i \in Job |-> IF i \in others \cup {j} THEN NoMessage ELSE msg[i]]
    BY DEF ProcessMessageFails
  <2>2. At(j, "check")
    BY DEF ProcessMessageFails
  <2> QED BY <2>1, <2>2
<1>3. ScheduledTypeOK'
  BY <1>1, <1>2 DEF ScheduledTypeOK, RowsKept, At, Stage
<1>4. \A i \in Job : \/ msg'[i] = msg[i] /\ (stage[i] = "mark" => stage'[i] = "mark")
                     \/ msg'[i] = NoMessage /\ stage[i] # "mark"
  BY <1>2 DEF At
<1>5. \A m \in Id : delivered'[m] = delivered[m] \/ (m \in broken' /\ \E i \in Job : msg[i] = m)
  BY <1>1
<1> QED BY <1>1, <1>3, <1>4, <1>5, QuietStep

LEMMA DeliversNothingInv ==
  ASSUME SendInv, NEW j \in Job, DeliversNothing(j) PROVE SendInv'
<1>1. UNCHANGED <<rows, plan, delivered, overlapped, broken, accidents>>
      /\ ~At(j, "idle") /\ ~At(j, "mark") /\ Goes(j, "mark")
  BY DEF DeliversNothing, ghostVars, At
<1> QED BY <1>1, SendGoesInv DEF Stage

LEMMA DeliverFailsInv ==
  ASSUME SendInv, NEW j \in Job, DeliverFails(j) PROVE SendInv'
<1>1. ScheduledTypeOK /\ RowsKept /\ rows' \in Seq(Row) /\ msg[j] \in Id
  <2>1. ~At(j, "idle") /\ rows' = rows
    BY DEF DeliverFails, At
  <2> QED BY <2>1, Held, SameRows DEF SendInv, ScheduledTypeOK
<1>2. Ends(j) /\ plan' = plan /\ ~At(j, "idle") /\ ~At(j, "mark") /\ overlapped' = overlapped
      /\ accidents' \in 0..MaxAccidents
  BY <1>1 DEF DeliverFails, At, ghostVars, Accident, ScheduledTypeOK
<1>3. /\ delivered' \in Seq(0..2) /\ Len(delivered') = Len(rows)
      /\ broken' \in {broken, broken \cup {msg[j]}}
      /\ \A m \in Id : delivered'[m] = delivered[m] \/ (m \in broken' /\ m = msg[j])
  <2>1. CASE delivered' = delivered
    BY <1>1, <2>1 DEF DeliverFails, ghostVars, ScheduledTypeOK
  <2>2. CASE Out(msg[j]) /\ broken' = broken \cup {msg[j]}
    BY <1>1, <2>2, OutFacts
  <2> QED BY <2>1, <2>2 DEF DeliverFails, ghostVars
<1> QED BY <1>1, <1>2, <1>3, SendEndsInv

LEMMA MarkFailsInv ==
  ASSUME SendInv, NEW j \in Job, MarkFails(j) PROVE SendInv'
<1>1. ScheduledTypeOK /\ RowsKept /\ rows' \in Seq(Row)
  BY SameRows DEF SendInv, ScheduledTypeOK, MarkFails
<1>2. /\ Ends(j) /\ plan' = plan /\ ~At(j, "idle") /\ overlapped' = overlapped
      /\ broken' = broken \cup {msg[j]} /\ accidents' \in 0..MaxAccidents
      /\ delivered' = delivered /\ delivered' \in Seq(0..2) /\ Len(delivered') = Len(rows)
  BY <1>1 DEF MarkFails, At, Accident, ScheduledTypeOK
<1> QED BY <1>1, <1>2, SendEndsInv

LEMMA MarkInv ==
  ASSUME SendInv, NEW j \in Job, Mark(j) PROVE SendInv'
<1>1. ScheduledTypeOK /\ \A m \in Id : rows[m] \in Row
  BY IdFacts DEF SendInv
<1>2. rows' = [m \in Id |-> IF m \in Marks(j) THEN [rows[m] EXCEPT !.status = "sent", !.ago = 0] ELSE rows[m]]
  BY DEF Mark
<1>3. rows' \in [Id -> Row]
  BY <1>1, <1>2, RowFacts
<1>4. \A m \in Id : /\ rows'[m].queue = rows[m].queue
                    /\ rows'[m].status = "waiting" => rows[m].status = "waiting" /\ m # msg[j]
  BY <1>1, <1>2 DEF Row, Marks, Waiting
<1>5. RowsKept /\ rows' \in Seq(Row)
  BY <1>1, <1>3, <1>4, NewRows DEF RowsKept
<1>6. msg[j] \notin Waiting'
  BY <1>4, <1>5 DEF Waiting, RowsKept
<1>7. /\ Ends(j) /\ plan' = plan /\ ~At(j, "idle") /\ overlapped' = overlapped /\ broken' = broken
      /\ accidents' \in 0..MaxAccidents
      /\ delivered' = delivered /\ delivered' \in Seq(0..2) /\ Len(delivered') = Len(rows)
  BY <1>1 DEF Mark, At, ghostVars, ScheduledTypeOK
<1> QED BY <1>5, <1>6, <1>7, SendEndsInv

LEMMA RestartInv ==
  ASSUME SendInv, Restart PROVE SendInv'
<1>1. ScheduledTypeOK /\ RowsKept
  BY SameRows DEF SendInv, Restart
<1>2. /\ broken' = broken \cup {msg[j] : j \in {i \in Job : At(i, "mark")}}
      /\ stage' = [j \in Job |-> "idle"] /\ msg' = [j \in Job |-> NoMessage] /\ plan' = <<>>
      /\ UNCHANGED <<rows, delivered, overlapped>> /\ accidents' \in 0..MaxAccidents
  BY <1>1 DEF Restart, Accident, ScheduledTypeOK
<1>3. \A j \in Job : At(j, "mark") => msg[j] \in Id
  BY <1>1, Held DEF At
<1>4. broken' \subseteq Id /\ plan' \in Seq(Row)
  BY <1>1, <1>2, <1>3, EmptySeq DEF ScheduledTypeOK
<1>5. ScheduledTypeOK'
  BY <1>1, <1>2, <1>4 DEF ScheduledTypeOK, RowsKept, At, Stage
<1>6. \A j \in Job : msg'[j] = NoMessage /\ (stage[j] = "mark" => msg[j] \in broken')
  BY <1>2 DEF At
<1>7. \A m \in Id : delivered'[m] = delivered[m] \/ (m \in broken' /\ \E i \in Job : msg[i] = m)
  BY <1>2
<1> QED BY <1>1, <1>2, <1>5, <1>6, <1>7, QuietStep

LEMMA DeliverInv ==
  ASSUME SendInv, NEW j \in Job, Deliver(j) PROVE SendInv'
<1> DEFINE m == msg[j]
<1>1. ScheduledTypeOK /\ RowsKept /\ m \in Id /\ At(j, "deliver") /\ Out(m) /\ Goes(j, "mark")
      /\ UNCHANGED <<rows, plan, overlapped, broken, accidents>>
  <2>1. At(j, "deliver") /\ ~At(j, "idle") /\ rows' = rows
    BY DEF Deliver, At
  <2> QED BY <2>1, Held, SameRows DEF SendInv, Deliver
<1>2. /\ stage' \in [Job -> Stage] /\ msg' \in [Job -> Id \cup {NoMessage}]
      /\ \A i \in Job : stage'[i] = "idle" <=> msg'[i] = NoMessage
      /\ stage'[j] = "mark" /\ msg' = msg
      /\ \A i \in Job \ {j} : stage'[i] = stage[i]
  BY <1>1, GoesFacts DEF Stage, At
<1>3. /\ delivered' \in Seq(0..2) /\ Len(delivered') = Len(rows)
      /\ delivered'[m] = (IF delivered[m] < 2 THEN delivered[m] + 1 ELSE delivered[m])
      /\ \A k \in Id \ {m} : delivered'[k] = delivered[k]
  BY <1>1, OutFacts
<1>4. ScheduledTypeOK'
  BY <1>1, <1>2, <1>3 DEF ScheduledTypeOK, RowsKept, At
<1>5. InOrder'
  BY <1>1, <1>2, <1>3, OrderKept DEF SendInv
<1>6. OneSend'
  BY <1>1, <1>2, OneSendKept DEF SendInv
<1>7. SentOnce'
  <2> SUFFICES ASSUME NEW k \in Id \ (overlapped \cup broken), delivered'[k] > 0
               PROVE  /\ delivered'[k] = 1
                      /\ \A i \in Job : msg[i] = k => stage'[i] = "mark"
                      /\ k \in Waiting => \E i \in Job : msg[i] = k
    BY <1>1, <1>2 DEF SentOnce, RowsKept, Waiting
  <2>1. SentOnce /\ \A i \in Job : msg[i] = k /\ msg[j] = k => i = j
    BY DEF SendInv, OneSend
  <2>2. CASE k = m
    <3>1. delivered[k] = 0
      <4>1. ~(delivered[k] > 0)
        BY <1>1, <2>1, <2>2 DEF SentOnce, At
      <4> QED BY <1>1, <4>1, IdFacts
    <3> QED BY <1>2, <1>3, <2>1, <2>2, <3>1
  <2>3. CASE k # m
    BY <1>2, <1>3, <2>1, <2>3 DEF SentOnce
  <2> QED BY <2>2, <2>3
<1> QED BY <1>4, <1>5, <1>6, <1>7 DEF SendInv

LEMMA CronInv ==
  ASSUME SendInv, Cron PROVE SendInv'
<1>1. ScheduledTypeOK /\ InOrder /\ OneSend /\ SentOnce /\ NoMessage \notin Id
      /\ \A m \in Id : rows[m] \in Row
  BY IdFacts DEF SendInv
<1>2. PICK take \in [Idle -> Heads \cup {NoMessage}] :
        /\ \A i, j \in Idle : take[i] = take[j] => i = j \/ take[i] = NoMessage
        /\ msg' = [j \in Job |-> IF j \in Idle THEN take[j] ELSE msg[j]]
        /\ stage' = [j \in Job |-> IF j \in Idle /\ take[j] \in Heads THEN "check" ELSE stage[j]]
  BY DEF Cron
<1>3. /\ overlapped' = overlapped \cup {m \in Heads : \E j \in Job : msg[j] = m}
      /\ UNCHANGED <<plan, delivered, broken, accidents>>
      /\ rows' = [m \in Id |-> IF m \in Sent(rows[m].queue) /\ rows[m].ago < Interval
                               THEN [rows[m] EXCEPT !.ago = @ + 1] ELSE rows[m]]
  BY DEF Cron
<1>4. RowsKept
  <2>1. rows' \in [Id -> Row]
    BY <1>1, <1>3, RowFacts
  <2>2. \A m \in Id : rows'[m].queue = rows[m].queue /\ rows'[m].status = rows[m].status
    BY <1>1, <1>3 DEF Row
  <2> QED BY <1>1, <2>1, <2>2, NewRows
<1>5. Heads \subseteq Id /\ Heads \subseteq Waiting
  BY DEF Heads, Waiting
<1>6. \A j \in Job : \/ msg'[j] = msg[j] /\ stage'[j] = stage[j]
                     \/ j \in Idle /\ msg'[j] = take[j] /\ take[j] \in Heads /\ stage'[j] = "check"
  <2> SUFFICES ASSUME NEW j \in Idle, take[j] \notin Heads PROVE msg'[j] = msg[j]
    BY <1>2 DEF Idle
  <2> QED BY <1>1, <1>2 DEF Idle, ScheduledTypeOK
<1>7. ScheduledTypeOK'
  <2>1. /\ stage' \in [Job -> Stage] /\ msg' \in [Job -> Id \cup {NoMessage}]
        /\ overlapped' \subseteq Id
    BY <1>1, <1>2, <1>3, <1>5 DEF ScheduledTypeOK, Stage, Idle
  <2>2. \A j \in Job : stage'[j] = "idle" <=> msg'[j] = NoMessage
    BY <1>1, <1>5, <1>6 DEF ScheduledTypeOK, At
  <2> QED BY <1>1, <1>3, <1>4, <2>1, <2>2 DEF ScheduledTypeOK, RowsKept, At
<1>8. InOrder'
  BY <1>1, <1>3, <1>4, <1>6, OrderKept
<1>9. OneSend'
  <2> SUFFICES ASSUME NEW m \in Id \ overlapped', NEW i \in Job, NEW j \in Job,
                      msg'[i] = m, msg'[j] = m
               PROVE  i = j
    BY <1>4 DEF OneSend, RowsKept
  <2>1. CASE msg[i] = m \/ msg[j] = m
    <3>1. m \notin Heads
      BY <1>3, <2>1
    <3> QED BY <1>1, <1>3, <1>6, <3>1 DEF OneSend
  <2>2. CASE msg[i] # m /\ msg[j] # m
    BY <1>1, <1>2, <1>6, <2>2
  <2> QED BY <2>1, <2>2
<1>10. SentOnce'
  <2> SUFFICES ASSUME NEW m \in Id \ (overlapped' \cup broken), delivered[m] > 0
               PROVE  /\ delivered[m] = 1
                      /\ \A j \in Job : msg'[j] = m => stage'[j] = "mark"
                      /\ m \in Waiting' => \E j \in Job : msg'[j] = m
    BY <1>3, <1>4 DEF SentOnce, RowsKept
  <2>1. /\ delivered[m] = 1 /\ \A j \in Job : msg[j] = m => stage[j] = "mark"
        /\ m \in Waiting => \E j \in Job : msg[j] = m
    BY <1>1, <1>3 DEF SentOnce
  <2>2. m \notin Heads
    BY <1>3, <1>5, <2>1
  <2>3. \A j \in Job : msg[j] = m => msg'[j] = m
    BY <1>1, <1>6 DEF Idle, ScheduledTypeOK
  <2>4. m \in Waiting' => m \in Waiting
    BY <1>4 DEF Waiting, RowsKept
  <2> QED BY <1>6, <2>1, <2>2, <2>3, <2>4
<1> QED BY <1>7, <1>8, <1>9, <1>10 DEF SendInv

LEMMA CreateFacts ==
  ASSUME ScheduledTypeOK, Create
  PROVE  /\ rows' \in Seq(Row) /\ plan' \in Seq(Row) /\ delivered' \in Seq(0..2)
         /\ Len(rows') = Len(rows) + 1 /\ Len(delivered') = Len(rows')
         /\ Id' = 1..(Len(rows) + 1) /\ Id = 1..Len(rows) /\ Len(rows) \in Nat
         /\ \A m \in Id : rows'[m] = rows[m] /\ delivered'[m] = delivered[m]
         /\ delivered'[Len(rows) + 1] = 0
         /\ rows'[Len(rows) + 1] \in Row
<1>1. /\ rows \in Seq(Row) /\ plan \in Seq(Row) /\ plan # <<>>
      /\ delivered \in Seq(0..2) /\ Len(delivered) = Len(rows)
      /\ rows' = Append(rows, Head(plan)) /\ plan' = Tail(plan) /\ delivered' = Append(delivered, 0)
  BY DEF ScheduledTypeOK, Create
<1>2. Head(plan) \in Row /\ Tail(plan) \in Seq(Row)
  BY <1>1, HeadTailProperties
<1>3. /\ rows' \in Seq(Row) /\ Len(rows') = Len(rows) + 1 /\ DOMAIN rows' = 1..(Len(rows) + 1)
      /\ \A i \in 1..Len(rows) : rows'[i] = rows[i]
      /\ rows'[Len(rows) + 1] = Head(plan)
  BY <1>1, <1>2, Appended
<1>4. /\ delivered' \in Seq(0..2) /\ Len(delivered') = Len(rows) + 1
      /\ \A i \in 1..Len(rows) : delivered'[i] = delivered[i]
      /\ delivered'[Len(rows) + 1] = 0
  BY <1>1, Appended
<1> QED BY <1>1, <1>2, <1>3, <1>4, IdFacts DEF Id

LEMMA CreateInv ==
  ASSUME SendInv, Create PROVE SendInv'
<1> DEFINE new == Len(rows) + 1
<1>1. ScheduledTypeOK /\ InOrder /\ OneSend /\ SentOnce
      /\ UNCHANGED <<stage, msg, overlapped, broken, accidents>>
  BY DEF SendInv, Create, sendVars
<1>2. /\ rows' \in Seq(Row) /\ plan' \in Seq(Row) /\ delivered' \in Seq(0..2)
      /\ Len(delivered') = Len(rows')
      /\ Id' = 1..new /\ Id = 1..Len(rows) /\ Len(rows) \in Nat
      /\ \A m \in Id : rows'[m] = rows[m] /\ delivered'[m] = delivered[m]
      /\ delivered'[new] = 0
  BY <1>1, CreateFacts
<1>3. Id' = Id \cup {new} /\ new \notin Id /\ \A m \in Id : m < new /\ ~(new < m)
  BY <1>2
<1>4. \A j \in Job : msg[j] # new
  <2>1. NoMessage # new
    BY <1>2 DEF ScheduledAssumption
  <2> QED BY <1>1, <1>3, <2>1 DEF ScheduledTypeOK
<1>5. ScheduledTypeOK'
  BY <1>1, <1>2, <1>3 DEF ScheduledTypeOK, At
<1>6. InOrder'
  <2> SUFFICES ASSUME NEW m \in Id', delivered'[m] > 0 \/ (\E j \in Job : msg[j] = m)
               PROVE  Before(m)' \cap Waiting' = {}
    BY <1>1 DEF InOrder
  <2>1. m \in Id
    BY <1>2, <1>3, <1>4
  <2>2. Before(m)' = Before(m)
    BY <1>2, <1>3, <2>1 DEF Before
  <2>3. Before(m) \cap Waiting = {}
    BY <1>1, <1>2, <2>1 DEF InOrder
  <2>4. Before(m) \cap Waiting' \subseteq Waiting
    BY <1>2 DEF Before, Waiting
  <2> QED BY <2>2, <2>3, <2>4
<1>7. OneSend'
  BY <1>1, <1>3, <1>4 DEF OneSend
<1>8. SentOnce'
  <2> SUFFICES ASSUME NEW m \in Id' \ (overlapped \cup broken), delivered'[m] > 0
               PROVE  /\ delivered'[m] = 1
                      /\ \A j \in Job : msg[j] = m => stage[j] = "mark"
                      /\ m \in Waiting' => \E j \in Job : msg[j] = m
    BY <1>1 DEF SentOnce
  <2>1. m \in Id
    BY <1>2, <1>3
  <2>2. m \in Waiting' => m \in Waiting
    BY <1>2, <2>1 DEF Waiting
  <2> QED BY <1>1, <1>2, <2>1, <2>2 DEF SentOnce
<1> QED BY <1>5, <1>6, <1>7, <1>8 DEF SendInv

LEMMA NextInv ==
  ASSUME SendInv, [Next]_vars PROVE SendInv'
<1>1. CASE UNCHANGED vars
  <2>1. UNCHANGED <<rows, plan, stage, msg, delivered, overlapped, broken, accidents>>
    BY <1>1 DEF vars, sendVars, ghostVars
  <2>2. ScheduledTypeOK' /\ RowsKept
    BY <2>1, SameRows DEF SendInv, ScheduledTypeOK, Id, At
  <2> QED BY <2>1, <2>2, StillStep
<1>2. CASE (\E a \in Automations : Automate(a)) \/ CreateFails
  BY <1>2, PlanInv
<1>3. CASE (\E q \in Queue : OnMailboxDeleted(q)) \/ (\E S \in SUBSET Id : Delete(S))
  <2>1. \E S \in SUBSET Id : Delete(S)
    BY <1>3 DEF OnMailboxDeleted, Waiting
  <2> QED BY <2>1, DeleteInv
<1>4. CASE Create
  BY <1>4, CreateInv
<1>5. CASE Cron
  BY <1>5, CronInv
<1>6. CASE Restart
  BY <1>6, RestartInv
<1>7. CASE \E j \in Job : Send(j)
  <2>1. PICK j \in Job : Send(j)
    BY <1>7
  <2>2. \/ ProcessMessage(j) \/ FindOne(j) \/ ProcessMessageFails(j) \/ Deliver(j)
        \/ DeliversNothing(j) \/ DeliverFails(j) \/ Mark(j) \/ MarkFails(j)
    BY <2>1 DEF Send
  <2> QED BY <2>2, ProcessMessageInv, ProcessMessageFailsInv, DeliverInv, DeliversNothingInv,
             DeliverFailsInv, MarkInv, MarkFailsInv
<1> QED BY <1>1, <1>2, <1>3, <1>4, <1>5, <1>6, <1>7 DEF Next

LEMMA SendInvariant == Spec => []SendInv
<1>1. Init => SendInv
  BY InitInv
<1>2. SendInv /\ [Next]_vars => SendInv'
  BY NextInv
<1> QED BY <1>1, <1>2, PTL DEF Spec

------------------------------------------------------------------------------
(* The theorems *)

(* Rows, plan and sends are well formed in every state of the two services,  *)
(* and a send that is not under way holds no message.                        *)
THEOREM ScheduledTypeCorrect == Spec => []ScheduledTypeOK
<1>1. SendInv => ScheduledTypeOK
  BY DEF SendInv
<1> QED BY <1>1, SendInvariant, PTL

(* sendMessage: whatever else happens, a message goes out twice only when    *)
(* two sends of it overlapped or one was cut short before its mark.          *)
THEOREM DeliveredOnceCorrect == Spec => []DeliveredOnce
<1>1. SendInv => DeliveredOnce
  <2> SUFFICES ASSUME SendInv, NEW m \in Id \ (overlapped \cup broken) PROVE delivered[m] < 2
    BY DEF DeliveredOnce
  <2>1. delivered[m] \in 0..2 /\ (delivered[m] > 0 => delivered[m] = 1)
    BY IdFacts DEF SendInv, SentOnce
  <2> QED BY <2>1
<1> QED BY <1>1, SendInvariant, PTL

(* processMessages: no message passes an older one of its queue, for any     *)
(* number of overlapping sends, deletions and failures.                      *)
THEOREM InOrderCorrect == Spec => []InOrder
<1>1. SendInv => InOrder
  BY DEF SendInv
<1> QED BY <1>1, SendInvariant, PTL

------------------------------------------------------------------------------
(* The two services implement Outbox. *)

Home == [m \in Id |-> rows[m].queue]
Claimed == {m \in Id : \E j \in Job : msg[j] = m}
Handed == {m \in Id : delivered[m] > 0}

LEMMA InitMaps == Init => Abstract!Init
BY DEF Init, Abstract!Init, Id, Waiting

(* A step that gives up the messages of some sends, or none.                 *)
LEMMA GivesUp ==
  ASSUME ScheduledTypeOK, RowsKept, Waiting' = Waiting, delivered' = delivered,
         \A j \in Job : msg'[j] \in {msg[j], NoMessage}
  PROVE  Abstract!Next
<1>1. Home' = Home /\ Handed' = Handed
  BY DEF Home, Handed, RowsKept
<1>2. PICK S \in SUBSET Id : Claimed' = Claimed \ S
  <2>1. Claimed' \subseteq Claimed
    BY IdFacts DEF Claimed, RowsKept
  <2>2. Claimed \in SUBSET Id
    BY DEF Claimed
  <2>3. \A C \in SUBSET Id : \A X \in SUBSET C : X = C \ (C \ X) /\ C \ X \in SUBSET Id
    OBVIOUS
  <2>4. Claimed' = Claimed \ (Claimed \ Claimed') /\ Claimed \ Claimed' \in SUBSET Id
    BY <2>1, <2>2, <2>3
  <2> QED BY <2>4
<1>3. Abstract!GiveUp(S) /\ S \in SUBSET Abstract!Message
  BY <1>1, <1>2 DEF Abstract!GiveUp, Abstract!Message, Home, Claimed, Handed
<1> QED BY <1>3 DEF Abstract!Next

(* A step in which a send ends or goes on.                                   *)
LEMMA OneGivesUp ==
  ASSUME ScheduledTypeOK, NEW j \in Job, ~At(j, "idle"), Ends(j) \/ msg' = msg,
         Id' = Id
  PROVE  Claimed' \in {Claimed, Claimed \ {msg[j]}}
<1>1. msg[j] \in Id /\ NoMessage \notin Id
  BY Held, IdFacts
<1>2. CASE msg' = msg
  BY <1>2 DEF Claimed
<1>3. CASE Ends(j)
  <2>1. msg'[j] = NoMessage /\ \A i \in Job \ {j} : msg'[i] = msg[i]
    BY <1>3, EndsFacts
  <2>2. \A m \in Id \ {msg[j]} : m \in Claimed' <=> m \in Claimed
    BY <1>1, <2>1 DEF Claimed
  <2>3. Claimed' \subseteq Id /\ Claimed \subseteq Id /\ msg[j] \in Claimed
    BY <1>1 DEF Claimed
  <2> QED BY <2>2, <2>3
<1> QED BY <1>2, <1>3

LEMMA CreateMaps ==
  ASSUME ScheduledTypeOK, Create, NEW q \in Queue, rows'[Len(rows) + 1].queue = q,
         rows'[Len(rows) + 1].status = "waiting"
  PROVE  Abstract!Put(q)
<1> DEFINE new == Len(rows) + 1
<1>1. /\ Id' = 1..new /\ Id = 1..Len(rows) /\ Len(rows) \in Nat
      /\ \A m \in Id : rows'[m] = rows[m] /\ delivered'[m] = delivered[m]
      /\ delivered'[new] = 0 /\ msg' = msg
  BY CreateFacts DEF Create, sendVars
<1>2. Home \in Seq(Queue) /\ Len(Home) = Len(rows)
  <2>1. Home \in [1..Len(rows) -> Queue]
    BY <1>1, IdFacts, RowFacts DEF Home
  <2>2. Home \in Seq(Queue)
    BY <1>1, <2>1, SeqDef
  <2>3. DOMAIN Home = 1..Len(Home) /\ Len(Home) \in Nat
    BY <2>2, LenProperties
  <2> QED BY <1>1, <2>1, <2>2, <2>3
<1>3. Home' = Append(Home, q)
  <2>1. /\ DOMAIN Append(Home, q) = 1..new
        /\ \A i \in 1..Len(rows) : Append(Home, q)[i] = Home[i]
        /\ Append(Home, q)[new] = q /\ Append(Home, q) \in Seq(Queue)
    BY <1>2, Appended
  <2>2. Append(Home, q) = [m \in 1..new |-> Append(Home, q)[m]]
    BY <2>1, SeqIsFunction
  <2>3. \A m \in 1..new : rows'[m].queue = Append(Home, q)[m]
    <3> SUFFICES ASSUME NEW m \in 1..new PROVE rows'[m].queue = Append(Home, q)[m]
      OBVIOUS
    <3>1. CASE m \in Id
      BY <1>1, <2>1, <3>1 DEF Home
    <3>2. CASE m = new
      BY <2>1, <3>2
    <3>3. m \in Id \/ m = new
      BY <1>1
    <3> QED BY <3>1, <3>2, <3>3
  <2> QED BY <1>1, <2>2, <2>3 DEF Home
<1>4. Waiting' = Waiting \cup {Len(Home) + 1}
  BY <1>1, <1>2 DEF Waiting
<1>5. Claimed' = Claimed /\ Handed' = Handed
  <2>1. \A j \in Job : msg[j] # new
    BY <1>1 DEF ScheduledTypeOK, ScheduledAssumption
  <2>2. Claimed' = Claimed
    BY <1>1, <2>1 DEF Claimed
  <2> QED BY <1>1, <2>2 DEF Handed
<1> QED BY <1>3, <1>4, <1>5 DEF Abstract!Put, Home, Claimed, Handed

(* The rows that wait to be created have not been sent or deleted.           *)
PlanWaits == \A i \in DOMAIN plan : plan[i].status = "waiting"

LEMMA PlanWaitsInv ==
  ASSUME ScheduledTypeOK, PlanWaits, [Next]_vars PROVE PlanWaits'
<1>1. CASE \E a \in Automations : Automate(a)
  BY <1>1 DEF Automate, PlanWaits, NewRow
<1>2. plan' \in {plan, <<>>} => PlanWaits'
  BY DEF PlanWaits
<1>3. ASSUME plan # <<>>, plan' = Tail(plan) PROVE PlanWaits'
  <2>1. \A i \in 1..Len(Tail(plan)) : Tail(plan)[i] = plan[i + 1] /\ i + 1 \in 1..Len(plan)
    BY <1>3, HeadTailProperties, LenProperties DEF ScheduledTypeOK
  <2>2. DOMAIN plan = 1..Len(plan) /\ DOMAIN Tail(plan) = 1..Len(Tail(plan))
    BY <1>3, HeadTailProperties, LenProperties DEF ScheduledTypeOK
  <2> QED BY <1>3, <2>1, <2>2 DEF PlanWaits
<1>4. plan' = plan \/ plan' = <<>> \/ (plan # <<>> /\ plan' = Tail(plan)) \/ \E a \in Automations : Automate(a)
  BY DEF Next, vars, CreateFails, Create, OnMailboxDeleted, Delete, Cron, Restart, Send,
         ProcessMessage, ProcessMessageFails, FindOne, Deliver, DeliversNothing, DeliverFails,
         Mark, MarkFails
<1> QED BY <1>1, <1>2, <1>3, <1>4

LEMMA CreateStep == ASSUME SendInv, PlanWaits, Create PROVE Abstract!Next
<1>1. /\ plan \in Seq(Row) /\ plan # <<>> /\ rows \in Seq(Row) /\ rows' = Append(rows, Head(plan))
      /\ ScheduledTypeOK
  BY DEF SendInv, ScheduledTypeOK, Create
<1>2. Head(plan) \in Row /\ Head(plan).status = "waiting"
  BY <1>1, HeadTailProperties, LenProperties DEF PlanWaits
<1>3. rows'[Len(rows) + 1] = Head(plan)
  BY <1>1, <1>2, Appended
<1>4. PICK q \in Queue : rows'[Len(rows) + 1].queue = q /\ rows'[Len(rows) + 1].status = "waiting"
  BY <1>2, <1>3, RowFacts
<1>5. Abstract!Put(q)
  BY <1>1, <1>4, CreateMaps
<1> QED BY <1>5 DEF Abstract!Next

LEMMA DeleteStep == ASSUME SendInv, NEW S \in SUBSET Id, Delete(S) PROVE Abstract!Next
<1>1. /\ UNCHANGED <<msg, delivered>>
      /\ rows' = [m \in Id |-> IF m \in S THEN [rows[m] EXCEPT !.status = "deleted"] ELSE rows[m]]
      /\ \A m \in Id : rows[m] \in Row
  BY IdFacts DEF Delete, sendVars, ghostVars, SendInv
<1>2. /\ Id' = Id
      /\ \A m \in Id : rows'[m].queue = rows[m].queue
      /\ \A m \in Id : rows'[m].status = IF m \in S THEN "deleted" ELSE rows[m].status
  BY <1>1 DEF Row, Id
<1>3. Home' = Home /\ Claimed' = Claimed /\ Handed' = Handed /\ Waiting' = Waiting \ S
  BY <1>1, <1>2 DEF Home, Claimed, Handed, Waiting
<1>4. Abstract!Withdraw(S) /\ S \in SUBSET Abstract!Message
  BY <1>3 DEF Abstract!Withdraw, Abstract!Message, Home, Claimed, Handed
<1> QED BY <1>4 DEF Abstract!Next

LEMMA CronStep == ASSUME SendInv, Cron PROVE Abstract!Next
<1>1. ScheduledTypeOK /\ NoMessage \notin Id /\ Heads \subseteq Id
      /\ \A m \in Id : rows[m] \in Row /\ m \in Nat
  BY IdFacts DEF SendInv, Heads, Waiting
<1>2. PICK take \in [Idle -> Heads \cup {NoMessage}] :
        /\ \A m \in Heads : \E j \in Idle : take[j] = m
        /\ msg' = [j \in Job |-> IF j \in Idle THEN take[j] ELSE msg[j]]
  BY DEF Cron
<1>3. /\ delivered' = delivered
      /\ rows' = [m \in Id |-> IF m \in Sent(rows[m].queue) /\ rows[m].ago < Interval
                               THEN [rows[m] EXCEPT !.ago = @ + 1] ELSE rows[m]]
  BY DEF Cron
<1>4. Id' = Id /\ \A m \in Id : rows'[m].queue = rows[m].queue /\ rows'[m].status = rows[m].status
  BY <1>1, <1>3 DEF Row, Id
<1>5. Home' = Home /\ Handed' = Handed /\ Waiting' = Waiting
  BY <1>3, <1>4 DEF Home, Handed, Waiting
<1>6. Claimed' = Claimed \cup Heads
  <2>1. \A j \in Idle : j \in Job /\ msg[j] = NoMessage /\ take[j] \in Heads \cup {NoMessage}
    BY <1>1 DEF Idle, ScheduledTypeOK
  <2>2. \A m \in Id, j \in Job : msg[j] = m => msg'[j] = m
    BY <1>1, <1>2, <2>1
  <2>3. \A m \in Heads : \E j \in Job : msg'[j] = m
    BY <1>2, <2>1
  <2>4. \A m \in Id, j \in Job : msg'[j] = m => msg[j] = m \/ m \in Heads
    BY <1>1, <1>2, <2>1
  <2> QED BY <1>1, <1>4, <2>2, <2>3, <2>4 DEF Claimed
<1>7. \A m \in Heads : Abstract!Oldest(m)
  BY <1>1 DEF Abstract!Oldest, Abstract!Earlier, Abstract!Message, Heads, Before
<1>8. PICK S \in SUBSET Id : S = Heads
  BY <1>1
<1>9. Abstract!Claim(S) /\ S \in SUBSET Abstract!Message
  BY <1>5, <1>6, <1>7, <1>8 DEF Abstract!Claim, Abstract!Message, Home, Claimed, Handed
<1> QED BY <1>9 DEF Abstract!Next

LEMMA StillMaps == ASSUME UNCHANGED <<rows, msg, delivered>> PROVE UNCHANGED Abstract!outboxVars
BY DEF Abstract!outboxVars, Id, Waiting

(* What a message handed over, or not, means to Outbox.                      *)
LEMMA HandStep ==
  ASSUME SendInv, NEW j \in Job, ~At(j, "idle"), Ends(j) \/ msg' = msg, rows' = rows,
         Out(msg[j])
  PROVE  Abstract!Next
<1>1. PICK m \in Id : m = msg[j]
  BY Held DEF SendInv
<1>2. ScheduledTypeOK /\ Home' = Home /\ Waiting' = Waiting /\ Id' = Id
  BY DEF SendInv, Home, Waiting, Id
<1>3. Claimed' \in {Claimed, Claimed \ {m}} /\ m \in Claimed
  BY <1>1, <1>2, OneGivesUp DEF Claimed
<1>4. Handed' = Handed \cup {m}
  <2>1. /\ delivered'[m] = (IF delivered[m] < 2 THEN delivered[m] + 1 ELSE delivered[m])
        /\ \A k \in Id \ {m} : delivered'[k] = delivered[k]
        /\ delivered[m] \in 0..2
    BY <1>1, <1>2, OutFacts, IdFacts
  <2>2. delivered'[m] > 0
    BY <2>1
  <2> QED BY <1>2, <2>1, <2>2 DEF Handed
<1>5. Abstract!Hand(m) /\ m \in Abstract!Message
  BY <1>2, <1>3, <1>4 DEF Abstract!Hand, Abstract!Message, Home, Claimed, Handed
<1> QED BY <1>5 DEF Abstract!Next

LEMMA MarkStep == ASSUME SendInv, NEW j \in Job, Mark(j) PROVE Abstract!Next
<1>1. ScheduledTypeOK /\ ~At(j, "idle") /\ Ends(j) /\ delivered' = delivered
      /\ rows' = [m \in Id |-> IF m \in Marks(j) THEN [rows[m] EXCEPT !.status = "sent", !.ago = 0] ELSE rows[m]]
      /\ \A m \in Id : rows[m] \in Row
  BY IdFacts DEF SendInv, Mark, At, ghostVars
<1>2. PICK m \in Id : m = msg[j]
  BY <1>1, Held
<1>3. /\ Id' = Id
      /\ \A k \in Id : rows'[k].queue = rows[k].queue
      /\ \A k \in Id : rows'[k].status = IF k \in Marks(j) THEN "sent" ELSE rows[k].status
  BY <1>1 DEF Row, Id
<1>4. Home' = Home /\ Handed' = Handed /\ Waiting' = Waiting \ {m}
  <2>1. \A k \in Id : k \in Waiting' <=> k \in Waiting \ {m}
    BY <1>2, <1>3 DEF Waiting, Marks
  <2> QED BY <1>1, <1>3, <2>1 DEF Home, Handed, Waiting
<1>5. Claimed' \in {Claimed, Claimed \ {m}} /\ m \in Claimed
  BY <1>1, <1>2, <1>3, OneGivesUp DEF Claimed
<1>6. Abstract!Finish(m) /\ m \in Abstract!Message
  BY <1>4, <1>5 DEF Abstract!Finish, Abstract!Message, Home, Claimed, Handed
<1> QED BY <1>6 DEF Abstract!Next

(* Sends that end, go on or fall out without a delivery.                     *)
LEMMA QuietMaps ==
  ASSUME SendInv, rows' = rows, delivered' = delivered,
         \A i \in Job : msg'[i] \in {msg[i], NoMessage}
  PROVE  Abstract!Next
<1>1. ScheduledTypeOK /\ RowsKept /\ Waiting' = Waiting
  BY SameRows DEF SendInv, Waiting, Id
<1> QED BY <1>1, GivesUp

LEMMA SendStep == ASSUME SendInv, NEW j \in Job, Send(j) PROVE Abstract!Next
<1>1. ScheduledTypeOK /\ \A i \in Job : Ends(i) \/ msg' = msg => \A k \in Job : msg'[k] \in {msg[k], NoMessage}
  BY DEF SendInv, Ends, ScheduledTypeOK
<1>2. CASE ProcessMessage(j) \/ FindOne(j) \/ DeliversNothing(j) \/ MarkFails(j)
  <2>1. rows' = rows /\ delivered' = delivered /\ (Ends(j) \/ msg' = msg)
    BY <1>2 DEF ProcessMessage, FindOne, DeliversNothing, MarkFails, Goes, ghostVars
  <2> QED BY <1>1, <2>1, QuietMaps
<1>3. CASE ProcessMessageFails(j)
  <2>1. rows' = rows /\ delivered' = delivered /\ \A i \in Job : msg'[i] \in {msg[i], NoMessage}
    BY <1>3 DEF ProcessMessageFails, ghostVars
  <2> QED BY <2>1, QuietMaps
<1>4. CASE Deliver(j)
  <2>1. ~At(j, "idle") /\ msg' = msg /\ rows' = rows /\ Out(msg[j])
    BY <1>4 DEF Deliver, At, Goes
  <2> QED BY <2>1, HandStep
<1>5. CASE DeliverFails(j)
  <2>1. ~At(j, "idle") /\ Ends(j) /\ rows' = rows /\ (Out(msg[j]) \/ delivered' = delivered)
    BY <1>5 DEF DeliverFails, At, ghostVars
  <2>2. CASE Out(msg[j])
    BY <2>1, <2>2, HandStep
  <2>3. CASE delivered' = delivered
    BY <1>1, <2>1, <2>3, QuietMaps
  <2> QED BY <2>1, <2>2, <2>3
<1>6. CASE Mark(j)
  BY <1>6, MarkStep
<1> QED BY <1>2, <1>3, <1>4, <1>5, <1>6 DEF Send

LEMMA NextMaps ==
  ASSUME SendInv, PlanWaits, [Next]_vars PROVE Abstract!Next \/ UNCHANGED Abstract!outboxVars
<1>1. CASE UNCHANGED vars \/ (\E a \in Automations : Automate(a)) \/ CreateFails
  <2>1. UNCHANGED <<rows, msg, delivered>>
    BY <1>1 DEF vars, Automate, CreateFails, sendVars, ghostVars
  <2> QED BY <2>1, StillMaps
<1>2. CASE (\E q \in Queue : OnMailboxDeleted(q)) \/ (\E S \in SUBSET Id : Delete(S))
  <2>1. \E S \in SUBSET Id : Delete(S)
    BY <1>2 DEF OnMailboxDeleted, Waiting
  <2> QED BY <2>1, DeleteStep
<1>3. CASE Restart
  <2>1. rows' = rows /\ delivered' = delivered /\ \A i \in Job : msg'[i] = NoMessage
    BY <1>3 DEF Restart
  <2> QED BY <2>1, QuietMaps
<1> QED BY <1>1, <1>2, <1>3, CreateStep, CronStep, SendStep DEF Next

(* The queues of the chat providers and mailboxes, with automations, users,  *)
(* cron jobs, overlapping sends, failures and restarts, are those of Outbox: *)
(* every claim is of the oldest waiting message of its queue, and every      *)
(* delivery and mark is of a claimed one.                                    *)
THEOREM ImplementsOutbox == Spec => OutboxSpec
<1>1. Init => Abstract!Init /\ PlanWaits
  BY InitMaps DEF Init, PlanWaits
<1>2. SendInv /\ PlanWaits /\ [Next]_vars => PlanWaits'
  BY PlanWaitsInv DEF SendInv
<1>3. SendInv /\ PlanWaits /\ [Next]_vars => [Abstract!Next]_(Abstract!outboxVars)
  BY NextMaps
<1> QED BY <1>1, <1>2, <1>3, SendInvariant, PTL DEF Spec, OutboxSpec, Abstract!Spec
===============================================================================
