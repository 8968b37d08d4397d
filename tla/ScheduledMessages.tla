--------------------------- MODULE ScheduledMessages ---------------------------
(***************************************************************************)
(* ChatMessageScheduledService and MailMessageScheduledService: messages   *)
(* that automations schedule, one queue for each chat provider and each    *)
(* mailbox, and the cron jobs that send the oldest message of every queue  *)
(* once a minute.  A send is not awaited: those of two minutes can overlap.*)
(***************************************************************************)
EXTENDS Naturals, Sequences, FiniteSets

CONSTANTS
  Chats, Mailboxes,  \* the queues of the two services
  Job,               \* sends under way at the same time
  NoMessage,
  Interval,          \* minutes between two messages of a queue, by its daily limit
  Automations,       \* the messages of one automation: a queue and their contents
  MaxMessages,       \* bound: messages ever scheduled
  MaxAccidents       \* bound: failures of the database or the network, restarts

Queue == Chats \cup Mailboxes

ASSUME ScheduledAssumption ==
  /\ Chats \cap Mailboxes = {} /\ NoMessage \notin Nat
  /\ {Interval, MaxMessages, MaxAccidents} \subseteq Nat

(* A chat message goes to the chats of an entity or to a phone number.     *)
(* "refused" is one whose send throws every time before its mark: an       *)
(* entity whose phone field is empty or whose chat cannot be created, a    *)
(* mailbox that is no more.                                                *)
Content(q) == IF q \in Chats THEN {"entity", "phone", "refused"} ELSE {"mail", "refused"}
(* ago: the minutes since it was sent, Interval and more are one           *)
Row == {r \in [queue : Queue, content : {"entity", "phone", "refused", "mail"},
               status : {"waiting", "sent", "deleted"}, ago : 0..Interval] :
          r.content \in Content(r.queue)}
ASSUME AutomationsAssumption ==
  \A a \in Automations : a.queue \in Queue /\ a.contents \in Seq(Content(a.queue))
NewRow(q, c) == [queue |-> q, content |-> c, status |-> "waiting", ago |-> 0]
Stage == {"idle", "check", "load", "deliver", "mark"}

VARIABLES
  rows,       \* the scheduled messages by id, deleted ones included
  plan,       \* messages an automation has still to create
  stage, msg, \* the sends: where they are, and their message
  delivered,  \* ghost: how often a message has gone out, twice and more are one
  overlapped, \* ghost: messages two sends have worked on at the same time
  broken,     \* ghost: messages whose send was cut short
  accidents

sendVars == <<stage, msg>>
ghostVars == <<delivered, overlapped, broken>>
vars == <<rows, plan, sendVars, ghostVars, accidents>>

Id == DOMAIN rows
Waiting == {m \in Id : rows[m].status = "waiting"}
Sent(q) == {m \in Id : rows[m].status = "sent" /\ rows[m].queue = q}
Before(m) == {k \in Id : k < m /\ rows[k].queue = rows[m].queue}
At(j, s) == stage[j] = s
Idle == {j \in Job : At(j, "idle")}
Accident == accidents < MaxAccidents /\ accidents' = accidents + 1

(* A send ends, or goes on. *)
Ends_Keeps(j) == stage' = [stage EXCEPT ![j] = "idle"] /\ UNCHANGED msg
Ends(j) == stage' = [stage EXCEPT ![j] = "idle"] /\ msg' = [msg EXCEPT ![j] = NoMessage]
Goes(j, s) == stage' = [stage EXCEPT ![j] = s] /\ UNCHANGED msg

Init ==
  /\ rows = <<>> /\ plan = <<>>
  /\ stage = [j \in Job |-> "idle"] /\ msg = [j \in Job |-> NoMessage]
  /\ delivered = <<>> /\ overlapped = {} /\ broken = {} /\ accidents = 0

------------------------------------------------------------------------------
(* The automations that schedule messages *)

(* processAutomation: a message for each recipient it finds.               *)
Automate(a) ==
  /\ plan = <<>> /\ Len(rows) + Len(a.contents) <= MaxMessages
  /\ plan' = [i \in DOMAIN a.contents |-> NewRow(a.queue, a.contents[i])]
  /\ UNCHANGED <<rows, sendVars, ghostVars, accidents>>

(* An insert is one step, and gives the next id.  An error leaves out the  *)
(* messages after it, or, of those created side by side, only its own.     *)
Create ==
  /\ plan # <<>>
  /\ rows' = Append(rows, Head(plan)) /\ plan' = Tail(plan)
  /\ delivered' = Append(delivered, 0)
  /\ UNCHANGED <<sendVars, overlapped, broken, accidents>>
CreateFails ==
  /\ plan # <<>> /\ Accident /\ plan' \in {<<>>, Tail(plan)}
  /\ UNCHANGED <<rows, sendVars, ghostVars>>

(* delete, by a user with any filter, or of what waits for a mailbox that  *)
(* has been deleted                                                        *)
Delete(S) ==
  /\ S # {} /\ \A m \in S : rows[m].status # "deleted"
  /\ rows' = [m \in Id |-> IF m \in S THEN [rows[m] EXCEPT !.status = "deleted"] ELSE rows[m]]
  /\ UNCHANGED <<plan, sendVars, ghostVars, accidents>>
OnMailboxDeleted(q) == q \in Mailboxes /\ Delete({m \in Waiting : rows[m].queue = q})

------------------------------------------------------------------------------
(* processMessages *)

(* Changed forms: the bugs the properties must see. *)
Heads_Newest == {m \in Waiting : \A k \in Waiting : m \notin Before(k)}
Heads_OneQueue == {m \in Waiting : \A k \in Waiting : m <= k}

(* min(id) of the messages without sent_at, for each queue *)
Heads == {m \in Waiting : Before(m) \cap Waiting = {}}

(* Every minute, whether the sends of the last one are over or not. *)
Cron ==
  /\ \E take \in [Idle -> Heads \cup {NoMessage}] :
       /\ \A m \in Heads : \E j \in Idle : take[j] = m
       /\ \A i, j \in Idle : take[i] = take[j] => i = j \/ take[i] = NoMessage
       /\ msg' = [j \in Job |-> IF j \in Idle THEN take[j] ELSE msg[j]]
       /\ stage' = [j \in Job |-> IF j \in Idle /\ take[j] \in Heads THEN "check" ELSE stage[j]]
  /\ overlapped' = overlapped \cup {m \in Heads : \E j \in Job : msg[j] = m}
  /\ rows' = [m \in Id |-> IF m \in Sent(rows[m].queue) /\ rows[m].ago < Interval
                           THEN [rows[m] EXCEPT !.ago = @ + 1] ELSE rows[m]]
  /\ UNCHANGED <<plan, delivered, broken, accidents>>

(* processMessage asks for the time of the last message under the name     *)
(* max and looks for sentAt in the answer.                                 *)
MaxSentAt(q) == [max |-> {rows[m].ago : m \in Sent(q)}]
CanSend(q) ==
  "sentAt" \in DOMAIN MaxSentAt(q) => \A ago \in MaxSentAt(q).sentAt : ago >= Interval
ProcessMessage(j) ==
  /\ At(j, "check")
  /\ IF CanSend(rows[msg[j]].queue) THEN Goes(j, "load") ELSE Ends(j)
  /\ UNCHANGED <<rows, plan, ghostVars, accidents>>

(* An error in it ends the loop over the mailboxes.                        *)
ProcessMessageFails(j) ==
  /\ At(j, "check") /\ Accident
  /\ LET Later == {i \in Job : /\ i # j /\ At(i, "check")
                               /\ {rows[msg[i]].queue, rows[msg[j]].queue} \subseteq Mailboxes}
     IN \E lost \in SUBSET Later :
          /\ stage' = [i \in Job |-> IF i \in lost \cup {j} THEN "idle" ELSE stage[i]]
          /\ msg' = [i \in Job |-> IF i \in lost \cup {j} THEN NoMessage ELSE msg[i]]
  /\ UNCHANGED <<rows, plan, ghostVars>>

------------------------------------------------------------------------------
(* sendMessage *)

(* A message that has been deleted ends the send with a TypeError.         *)
FindOne(j) ==
  /\ At(j, "load")
  /\ IF rows[msg[j]].status # "deleted" THEN Goes(j, "deliver") ELSE Ends(j)
  /\ UNCHANGED <<rows, plan, ghostVars, accidents>>

Out(m) == delivered' = [delivered EXCEPT ![m] = IF @ < 2 THEN @ + 1 ELSE @]

(* It goes out.                                                            *)
Deliver(j) ==
  /\ At(j, "deliver") /\ rows[msg[j]].content # "refused"
  /\ Out(msg[j]) /\ Goes(j, "mark")
  /\ UNCHANGED <<rows, plan, overlapped, broken, accidents>>

(* Or not: an entity without a chat, an error of a chat, a number or a     *)
(* mail the provider does not take, all of which go by unseen.             *)
DeliversNothing(j) ==
  /\ At(j, "deliver") /\ rows[msg[j]].content # "refused"
  /\ Goes(j, "mark")
  /\ UNCHANGED <<rows, plan, ghostVars, accidents>>

(* An error that is not caught: of a message that never goes out, or of    *)
(* the database, also when the rows of a mail that has gone out cannot be  *)
(* stored.                                                                 *)
DeliverFails(j) ==
  /\ At(j, "deliver") /\ Ends(j)
  /\ \/ rows[msg[j]].content = "refused" /\ UNCHANGED <<ghostVars, accidents>>
     \/ /\ Accident /\ rows[msg[j]].content # "refused"
        /\ broken' = broken \cup {msg[j]}
        /\ Out(msg[j]) \/ UNCHANGED delivered
        /\ UNCHANGED overlapped
  /\ UNCHANGED <<rows, plan>>

(* update of sent_at, which finds no row when it has been deleted and      *)
(* writes anew one that was sent before                                    *)
Marks_Head(j) == {m \in Heads : rows[m].queue = rows[msg[j]].queue}
Marks_Nothing(j) == {}
Marks(j) == {m \in {msg[j]} : rows[m].status # "deleted"}
Mark(j) ==
  /\ At(j, "mark") /\ Ends(j)
  /\ rows' = [m \in Id |-> IF m \in Marks(j) THEN [rows[m] EXCEPT !.status = "sent", !.ago = 0]
                           ELSE rows[m]]
  /\ UNCHANGED <<plan, ghostVars, accidents>>
MarkFails(j) ==
  /\ At(j, "mark") /\ Accident /\ Ends(j)
  /\ broken' = broken \cup {msg[j]}
  /\ UNCHANGED <<rows, plan, delivered, overlapped>>

(* The backend restarts. *)
Restart ==
  /\ Accident
  /\ broken' = broken \cup {msg[j] : j \in {i \in Job : At(i, "mark")}}
  /\ stage' = [j \in Job |-> "idle"] /\ msg' = [j \in Job |-> NoMessage] /\ plan' = <<>>
  /\ UNCHANGED <<rows, delivered, overlapped>>

------------------------------------------------------------------------------
Send(j) ==
  \/ ProcessMessage(j) \/ ProcessMessageFails(j) \/ FindOne(j)
  \/ Deliver(j) \/ DeliversNothing(j) \/ DeliverFails(j) \/ Mark(j) \/ MarkFails(j)

Next ==
  \/ \E a \in Automations : Automate(a)
  \/ \E q \in Queue : OnMailboxDeleted(q)
  \/ Create \/ CreateFails
  \/ \E S \in SUBSET Id : Delete(S)
  \/ Cron \/ Restart
  \/ \E j \in Job : Send(j)

(* Automations and users need not come; the cron jobs and the sends do.    *)
Fairness == WF_vars(Create) /\ WF_vars(Cron) /\ \A j \in Job : WF_vars(Send(j))

Spec == Init /\ [][Next]_vars /\ Fairness

------------------------------------------------------------------------------
(* Properties *)

(* Rows, plan and sends are well formed, and a send that is not under way  *)
(* holds no message.                                                       *)
ScheduledTypeOK ==
  /\ rows \in Seq(Row) /\ plan \in Seq(Row)
  /\ stage \in [Job -> Stage] /\ msg \in [Job -> Id \cup {NoMessage}]
  /\ \A j \in Job : At(j, "idle") <=> msg[j] = NoMessage
  /\ delivered \in Seq(0..2) /\ Len(delivered) = Len(rows)
  /\ overlapped \subseteq Id /\ broken \subseteq Id
  /\ accidents \in 0..MaxAccidents

(* processMessages, sendMessage: a message goes out twice only when two    *)
(* sends of it overlap, because no send is awaited, or when one is cut     *)
(* short between delivery and mark.                                        *)
DeliveredOnce == \A m \in Id \ (overlapped \cup broken) : delivered[m] < 2

(* Each queue keeps the order of its ids: while a message is being sent or *)
(* has gone out, none before it waits.  No overlap, deletion or failure    *)
(* changes that.                                                           *)
InOrder ==
  \A m \in Id : delivered[m] > 0 \/ (\E j \in Job : msg[j] = m) =>
     Before(m) \cap Waiting = {}

(* A message is not left waiting, but for one that never goes out and      *)
(* those behind it in its own queue.                                       *)
Stuck(m) == \E k \in Before(m) \cup {m} : k \in Waiting /\ rows[k].content = "refused"
Drains ==
  \A m \in 1..MaxMessages : (m \in Id /\ m \in Waiting) ~> (m \notin Waiting \/ Stuck(m))

(* The queues with two services, overlapping sends and failures are those  *)
(* of Outbox.                                                              *)
Abstract == INSTANCE Outbox WITH
  home <- [m \in Id |-> rows[m].queue],
  waiting <- Waiting,
  claimed <- {m \in Id : \E j \in Job : msg[j] = m},
  handed <- {m \in Id : delivered[m] > 0}
OutboxSpec == Abstract!Spec

(* "Messages per day for automated sending", "Emails per day": a queue     *)
(* sends only when its last message was sent long enough ago.              *)
DailyLimit ==
  [][\A m \in Id : delivered'[m] > delivered[m] =>
        \A k \in Sent(rows[m].queue) : rows[k].ago >= Interval]_vars
===============================================================================
