------------------------------ MODULE MailProofs ------------------------------
(***************************************************************************)
(* What a mailbox keeps, for every number of handlers, messages, folders,  *)
(* uids and failures: a message is stored once and in one folder, a user's *)
(* call touches its own message, the sync info skips nothing, a deleted    *)
(* mailbox stays so, and at rest the counters are those of the rows.       *)
(*                                                                         *)
(* The invariants come in layers, each proved with the ones before it:     *)
(* types, who may run beside whom, what a uid identifies, then the         *)
(* properties with what a running call may rely on.                        *)
(***************************************************************************)
EXTENDS MailSync, FiniteSetTheorems, TLAPS

(* Layer 1: types.  A call is a record of these fields. *)
ServerCopy == [mail : Mails, folder : Folders, uid : Nat \ {0}, seen : BOOLEAN]
AnyCopy == [mail : Mails, folder : Folders, uid : Nat, seen : BOOLEAN]

Shaped(c) ==
  c = [op |-> c.op, pc |-> c.pc, full |-> c.full, since |-> c.since, ok |-> c.ok,
       todo |-> c.todo, next |-> c.next, missed |-> c.missed, got |-> c.got, one |-> c.one,
       row |-> c.row, aim |-> c.aim, to |-> c.to, seen |-> c.seen, kept |-> c.kept,
       counts |-> c.counts, rounds |-> c.rounds]

CallTyped(c, n) ==
  /\ Shaped(c)
  /\ c.todo \in Seq(Folders) /\ c.next \in [Folders -> Nat]
  /\ c.missed \subseteq AnyCopy /\ c.got \subseteq AnyCopy
  /\ c.one = Nothing \/ c.one \in AnyCopy
  /\ c.row \in Nat /\ c.row < n
  /\ c.aim \subseteq Folders /\ c.to \in Folders \cup {None} /\ c.seen \in BOOLEAN
  /\ c.pc = "fetch" => c.todo # <<>>
  /\ c.pc \in {"write", "link"} => c.one \in c.got
  /\ c.pc \in {"serve", "unlink", "relink", "set"} => c.op \in {"move", "mark"}
  /\ c.pc \in {"find", "write", "link"} => c.op \in {"sync", "send"}

RowsTyped ==
  /\ server \subseteq ServerCopy /\ IsFiniteSet(server)
  /\ uidNext \in [Folders -> Nat \ {0}] /\ cursor \in [Folders -> Nat]
  /\ nextId \in Nat \ {0}
  /\ \A r \in Ids : r \in 1..(nextId - 1) /\ rows[r] \in AnyCopy
Functional == call = [c \in Calls |-> call[c]]
Typed == RowsTyped /\ Functional /\ \A c \in Calls : CallTyped(call[c], nextId)

(* Layer 2: the lock, and which calls run at the same time. *)
Apart ==
  /\ \A c \in Calls : call[c].op = "sync" => lock = c
  /\ ~overlapped => \A c, d \in Calls : Storing(c) /\ Storing(d) => c = d

(* Layer 3: a uid of a folder is given once. *)
Agree(x, y) == x.uid # Unknown /\ x.uid = y.uid /\ x.folder = y.folder => x.mail = y.mail
Copies ==
  server \cup {rows[r] : r \in Ids}
    \cup UNION {call[c].got \cup call[c].missed \cup {call[c].one} : c \in Calls}
UidOnce ==
  /\ \A x, y \in Copies : Agree(x, y)
  /\ \A x \in Copies : x.uid # Unknown => x.uid < uidNext[x.folder]

(* Layer 4: a row whose links are being replaced has none. *)
OneLink ==
  ~overlapped =>
    /\ \A r \in Nat, f, g \in Folders : <<r, f>> \in links /\ <<r, g>> \in links => f = g
    /\ \A c \in Calls, f \in Folders : call[c].pc \in {"link", "relink"} => <<call[c].row, f>> \notin links

(* Layer 5: a call that is about to write the row of a message knows it.   *)
(* Two calls that store the same message overlap, and one of them sends.   *)
Raced(m) == overlapped /\ m \in outgoing
Writes(c) ==
  call[c].pc = "write" =>
    /\ call[c].row \in Ids => rows[call[c].row].mail = call[c].one.mail
    /\ call[c].row = NoRow /\ Stored(call[c].one.mail) => Raced(call[c].one.mail)
Once ==
  /\ StoredOnce
  /\ \A c \in Calls : call[c].op = "send" => MailsOf(call[c].got) \subseteq outgoing
  /\ \A c \in Calls : Writes(c)

(* Layer 6: what the sync info of a folder has left behind is in good      *)
(* hands, and what it is going to leave behind as well.                    *)
Past == {"folders", "find", "write", "link"}
Kept(m) ==
  \/ Stored(m) \/ m \in skipped
  \/ \E c \in Calls : call[c].op = "sync" /\ call[c].pc \in Past /\ m \in MailsOf(call[c].got)
Fetched(c) ==
  call[c].op = "sync" =>
    /\ \A f \in Folders : call[c].pc \in {"fetch", "cursor"} => call[c].next[f] <= uidNext[f]
    /\ call[c].pc = "cursor" => call[c].todo = <<>>
    /\ call[c].pc \in {"fetch", "cursor"} \cup Past => settings # "awaited"
    /\ call[c].pc \in {"fetch", "cursor"} /\ HasSettings =>
         \A x \in server :
           (\A i \in DOMAIN call[c].todo : call[c].todo[i] # x.folder) /\ x.uid < call[c].next[x.folder] =>
             x.uid < cursor[x.folder] \/ x.mail \in MailsOf(call[c].got \cup call[c].missed)
    /\ call[c].pc = "write" /\ HasSettings /\ call[c].row # NoRow => call[c].row \in Ids
    /\ call[c].pc = "link" /\ HasSettings => Stored(call[c].one.mail)
Behind ==
  /\ ~HasSettings => cursor = Zero
  /\ \A f \in Folders : cursor[f] <= uidNext[f]
  /\ \A x \in server : x.uid < cursor[x.folder] => Kept(x.mail)
  /\ \A c \in Calls : Fetched(c)
------------------------------------------------------------------------------
(* Layer 1: types *)

(* Of the calls only c changes. *)
Only(c) == Functional' /\ \A d \in Calls \ {c} : call'[d] = call[d]

LEMMA BecomesIs ==
  ASSUME Functional, NEW c \in Calls, NEW new, Becomes(c, new)
  PROVE  Only(c) /\ call'[c] = new
BY DEF Functional, Becomes, Only

LEMMA BeginIs ==
  ASSUME Functional, NEW c \in Calls, NEW new, Begin(c, new)
  PROVE  /\ Only(c) /\ call'[c] = new /\ call[c] = NoCall
         /\ overlapped' = (overlapped \/ \E d \in Calls \ {c} : Storing(d))
BY DEF Functional, Begin, Only

LEMMA ReleasedIs ==
  ASSUME Functional, NEW c \in Calls, call' = Released(c, call)
  PROVE  /\ Functional' /\ call'[c] = NoCall
         /\ \A d \in Calls \ {c} :
              \/ call'[d] = call[d]
              \/ call[d].pc = "wait" /\ call'[d] = [call[d] EXCEPT !.pc = "drop"]
BY DEF Functional, Released

LEMMA NoCallTyped ==
  ASSUME NEW n \in Nat \ {0}
  PROVE  CallTyped(NoCall, n)
BY MailSyncAssumption DEF CallTyped, Shaped, NoCall, Zero, NoRow

LEMMA RequestIs ==
  ASSUME NEW full, NEW since, NEW c, c = NoCall, NEW e,
         e = [c EXCEPT !.op = "sync", !.pc = "connect", !.full = full, !.since = since]
  PROVE  e = [op |-> "sync", pc |-> "connect", full |-> full, since |-> since, ok |-> TRUE,
              todo |-> <<>>, next |-> Zero, missed |-> {}, got |-> {}, one |-> Nothing,
              row |-> NoRow, aim |-> {}, to |-> None, seen |-> TRUE, kept |-> "none",
              counts |-> Zero, rounds |-> 0]
BY DEF NoCall

LEMMA RequestTyped ==
  ASSUME NEW n \in Nat \ {0}, NEW full, NEW since
  PROVE  /\ CallTyped(Request(full, since), n) /\ Shaped(Request(full, since))
         /\ Request(full, since).op = "sync" /\ Request(full, since).pc = "connect"
<1>1. Request(full, since) =
        [op |-> "sync", pc |-> "connect", full |-> full, since |-> since, ok |-> TRUE,
         todo |-> <<>>, next |-> Zero, missed |-> {}, got |-> {}, one |-> Nothing,
         row |-> NoRow, aim |-> {}, to |-> None, seen |-> TRUE, kept |-> "none",
         counts |-> Zero, rounds |-> 0]
  BY RequestIs DEF Request
<1> QED
  BY <1>1, MailSyncAssumption DEF CallTyped, Shaped, Zero, NoRow

LEMMA TypedStep ==
  ASSUME Typed, NEW c \in Calls, Only(c), CallTyped(call'[c], nextId'), RowsTyped',
         nextId <= nextId'
  PROVE  Typed'
<1>1. ASSUME NEW d \in Calls, d # c PROVE CallTyped(call'[d], nextId')
  <2>1. call'[d] = call[d] /\ CallTyped(call[d], nextId) /\ nextId \in Nat /\ nextId' \in Nat
    BY <1>1 DEF Only, Typed, RowsTyped
  <2> QED
    BY <2>1 DEF CallTyped
<1> QED
  BY <1>1 DEF Typed, Only

(* A step of call c that changes no row and nothing of the server. *)
LEMMA CallStep ==
  ASSUME Typed, NEW c \in Calls, NEW new, Becomes(c, new),
         UNCHANGED <<server, uidNext, cursor, rows, nextId>>, CallTyped(new, nextId)
  PROVE  Typed'
<1>1. Only(c) /\ call'[c] = new
  BY BecomesIs DEF Typed
<1>2. RowsTyped' /\ nextId <= nextId'
  BY DEF Typed, RowsTyped, Ids
<1> QED
  BY <1>1, <1>2, TypedStep

LEMMA BeginStep ==
  ASSUME Typed, NEW c \in Calls, NEW new, Begin(c, new),
         UNCHANGED <<server, uidNext, cursor, rows, nextId>>, CallTyped(new, nextId)
  PROVE  Typed'
<1>1. Becomes(c, new)
  BY DEF Begin, Becomes
<1> QED
  BY <1>1, CallStep

LEMMA UidToIs ==
  ASSUME Typed, NEW c \in Calls, NEW f \in Folders
  PROVE  From(c, f) \in Nat /\ UidTo(c, f) \in Nat /\ UidTo(c, f) <= call[c].next[f]
<1>1. call[c].next[f] \in Nat /\ cursor[f] \in Nat
  BY DEF Typed, RowsTyped, CallTyped
<1> QED
  BY <1>1, MailSyncAssumption DEF From, UidTo

LEMMA AnswerIs ==
  ASSUME NEW c \in Calls, NEW f \in Folders, NEW answer \in Answers(c, f)
  PROVE  answer \subseteq InBox(f)
BY DEF Answers, InBox

LEMMA SyncTyped ==
  ASSUME Typed, NEW c \in Calls, SyncStep(c)
  PROVE  Typed'
<1> DEFINE old == call[c]
<1>0. CallTyped(old, nextId) /\ nextId \in Nat \ {0} /\ server \subseteq AnyCopy
  BY DEF Typed, RowsTyped, ServerCopy, AnyCopy
<1>1. CASE Connect(c)
  <2>1. Listing # <<>>
    BY MailSyncAssumption DEF Folders
  <2>2. ASSUME NEW e, e = [old EXCEPT !.pc = "fetch", !.todo = Listing, !.next = uidNext] PROVE CallTyped(e, nextId)
    BY <2>2, <1>0, <1>1, <2>1, MailSyncAssumption DEF CallTyped, Shaped, Connect, Step, Typed, RowsTyped
  <2> QED
    BY <1>1, <2>2, CallStep DEF Connect, serverVars, mailboxVars, rowVars
<1>2. CASE SyncFails(c)
  <2>1. ASSUME NEW e, e = [old EXCEPT !.pc = "state", !.ok = FALSE] PROVE CallTyped(e, nextId)
    BY <2>1, <1>0 DEF CallTyped, Shaped
  <2> QED
    BY <1>2, <2>1, CallStep DEF SyncFails, serverVars, mailboxVars, rowVars
<1>3. ASSUME NEW f \in Folders, NEW answer, answer \subseteq InBox(f), Search(c, f, answer)
      PROVE  Typed'
  <2> DEFINE unseen == {x \in InBox(f) : From(c, f) <= x.uid /\ x.uid < UidTo(c, f)} \ answer
             left == Tail(old.todo)
             new == [old EXCEPT !.todo = left, !.pc = IF left = <<>> THEN "cursor" ELSE "fetch",
                                !.next[f] = UidTo(c, f), !.got = @ \cup answer,
                                !.missed = @ \cup unseen]
  <2>1. left \in Seq(Folders)
    BY <1>0, <1>3 DEF CallTyped, Search, Step
  <2>2. answer \subseteq AnyCopy /\ unseen \subseteq AnyCopy
    BY <1>0, <1>3 DEF InBox
  <2>3. UidTo(c, f) \in Nat
    BY UidToIs
  <2> HIDE DEF unseen, left
  <2>4. ASSUME NEW e, e = new PROVE CallTyped(e, nextId)
    BY <2>4, <1>0, <1>3, <2>1, <2>2, <2>3 DEF CallTyped, Shaped, Search, Step
  <2> USE DEF unseen, left
  <2> QED
    BY <1>3, <2>4, CallStep DEF Search, serverVars, mailboxVars, rowVars
<1>4. ASSUME NEW f \in Folders, ProcessFolder(c, f) \/ SearchTimesOut(c, f) PROVE Typed'
  BY <1>3, <1>4, AnswerIs DEF ProcessFolder, SearchTimesOut
<1>5. CASE UpdateSyncInfo(c)
  <2> DEFINE new == [Request(FALSE, "today") EXCEPT !.pc = "folders", !.got = old.got]
  <2>0. ASSUME NEW q, CallTyped(q, nextId), NEW e, e = [q EXCEPT !.pc = "folders", !.got = old.got]
        PROVE  CallTyped(e, nextId)
    BY <2>0, <1>0 DEF CallTyped, Shaped
  <2>1. CallTyped(new, nextId)
    BY <2>0, <1>0, RequestTyped
  <2>2. Only(c) /\ call'[c] = new
    BY <1>5, BecomesIs DEF UpdateSyncInfo, Typed
  <2>3. RowsTyped' /\ nextId' = nextId
    BY <1>0, <1>5 DEF UpdateSyncInfo, Typed, RowsTyped, CallTyped, Ids, serverVars, rowVars
  <2> QED
    BY <1>0, <2>1, <2>2, <2>3, TypedStep
<1>6. CASE ProcessExternal(c)
  <2>1. ASSUME NEW e, e = [old EXCEPT !.pc = IF old.got = {} THEN "state" ELSE "find", !.rounds = 1] PROVE CallTyped(e, nextId)
    BY <2>1, <1>0, <1>6 DEF CallTyped, Shaped, ProcessExternal, Step
  <2> QED
    BY <1>6, <2>1, CallStep DEF ProcessExternal, serverVars, mailboxVars, rowVars
<1>7. CASE UpdateState(c)
  <2>0. ASSUME NEW q, CallTyped(q, nextId), NEW e, e = [q EXCEPT !.pc = "drop"]
        PROVE  CallTyped(e, nextId)
    BY <2>0 DEF CallTyped, Shaped
  <2>1. Functional' /\ \A d \in Calls : CallTyped(call'[d], nextId)
    BY <2>0, <1>0, <1>7, ReleasedIs, NoCallTyped DEF UpdateState, Typed
  <2>2. RowsTyped'
    BY <1>7 DEF UpdateState, Typed, RowsTyped, Ids, serverVars, rowVars
  <2> QED
    BY <1>7, <2>1, <2>2 DEF UpdateState, Typed, rowVars
<1> QED
  BY <1>1, <1>2, <1>4, <1>5, <1>6, <1>7 DEF SyncStep

LEMMA StoreTyped ==
  ASSUME Typed, NEW c \in Calls, StoreStep(c)
  PROVE  Typed'
<1> DEFINE old == call[c]
<1>0. CallTyped(old, nextId) /\ nextId \in Nat \ {0} /\ Ids \subseteq 1..(nextId - 1)
  BY DEF Typed, RowsTyped
<1>1. CASE FindMessage(c)
  <2>1. PICK x \in old.got, r \in Ids \cup {NoRow} :
          Becomes(c, [old EXCEPT !.pc = "write", !.one = x, !.row = r])
    BY <1>1 DEF FindMessage, Known
  <2>2. r \in Nat /\ r < nextId
    BY <1>0, <2>1 DEF NoRow
  <2>3. ASSUME NEW e, e = [old EXCEPT !.pc = "write", !.one = x, !.row = r] PROVE CallTyped(e, nextId)
    BY <2>2, <2>3, <1>0, <1>1 DEF CallTyped, Shaped, FindMessage, Step
  <2> QED
    BY <1>1, <2>1, <2>3, CallStep DEF FindMessage, serverVars, mailboxVars, rowVars
<1>2. CASE WriteMessage(c)
  <2> DEFINE r == IF old.row = NoRow THEN nextId ELSE old.row
  <2>1. nextId' \in Nat \ {0} /\ nextId <= nextId' /\ r \in 1..(nextId' - 1)
    BY <1>0, <1>2 DEF WriteMessage, CallTyped, NoRow
  <2>2. ASSUME NEW q, CallTyped(q, nextId), q.op \in {"sync", "send"}, q.pc = "write",
               NEW i \in Nat, i < nextId', NEW e, e = [q EXCEPT !.pc = "link", !.row = i]
        PROVE  CallTyped(e, nextId')
    BY <2>2 DEF CallTyped, Shaped
  <2>7. old.op \in {"sync", "send"} /\ old.pc = "write" /\ r \in Nat /\ r < nextId'
    BY <2>1, <1>0, <1>2 DEF WriteMessage, Step
  <2>3. Only(c) /\ CallTyped(call'[c], nextId')
    BY <2>2, <2>7, <1>0, <1>2, BecomesIs DEF WriteMessage, Typed
  <2>4. old.one \in AnyCopy
    BY <1>0, <1>2 DEF CallTyped, WriteMessage, Step
  <2>5. ASSUME NEW i \in Ids' PROVE i \in 1..(nextId' - 1) /\ rows'[i] \in AnyCopy
    BY <2>1, <2>4, <2>5, <1>0, <1>2 DEF WriteMessage, Ids, Typed, RowsTyped
  <2>6. RowsTyped'
    BY <2>1, <2>5, <1>2 DEF WriteMessage, Typed, RowsTyped, serverVars, mailboxVars
  <2> QED
    BY <2>1, <2>3, <2>6, TypedStep
<1>3. CASE LinkMessage(c)
  <2> DEFINE left == old.got \ {old.one}
  <2>1. ASSUME NEW q, CallTyped(q, nextId), q.op \in {"sync", "send"}, NEW xs, xs \subseteq q.got,
               NEW pc \in {"sum", "find"}, NEW e,
               e = [q EXCEPT !.got = xs, !.one = Nothing, !.row = NoRow, !.pc = pc]
        PROVE  CallTyped(e, nextId)
    <3>1. /\ Shaped(e) /\ e.pc = pc /\ e.got = xs /\ e.one = Nothing /\ e.row = NoRow
          /\ e.op = q.op /\ e.todo = q.todo /\ e.next = q.next /\ e.missed = q.missed
          /\ e.aim = q.aim /\ e.to = q.to /\ e.seen = q.seen
      BY <2>1 DEF CallTyped, Shaped
    <3> QED
      BY <2>1, <3>1, <1>0 DEF CallTyped, NoRow
  <2>2. old.op \in {"sync", "send"}
    BY <1>3 DEF LinkMessage, Step
  <2> QED
    BY <1>0, <1>3, <2>1, <2>2, CallStep DEF LinkMessage, serverVars, mailboxVars, rowVars
<1>4. CASE StoreFails(c)
  <2>1. ASSUME NEW q, CallTyped(q, nextId), NEW e,
               e = [q EXCEPT !.pc = "state", !.ok = FALSE, !.got = {}, !.one = Nothing, !.row = NoRow]
        PROVE  CallTyped(e, nextId)
    <3>1. /\ Shaped(e) /\ e.pc = "state" /\ e.got = {} /\ e.one = Nothing /\ e.row = NoRow
          /\ e.op = q.op /\ e.todo = q.todo /\ e.next = q.next /\ e.missed = q.missed
          /\ e.aim = q.aim /\ e.to = q.to /\ e.seen = q.seen
      BY <2>1 DEF CallTyped, Shaped
    <3> QED
      BY <2>1, <3>1, <1>0 DEF CallTyped, NoRow
  <2> QED
    BY <1>0, <1>4, <2>1, CallStep, NoCallTyped DEF StoreFails, serverVars, mailboxVars, rowVars
<1>5. CASE SumCounters(c)
  <2>1. ASSUME NEW e, NEW sums, e = [old EXCEPT !.pc = "put", !.counts = sums]
        PROVE  CallTyped(e, nextId)
    BY <2>1, <1>0 DEF CallTyped, Shaped
  <2> QED
    BY <1>5, <2>1, CallStep DEF SumCounters, serverVars, mailboxVars, rowVars
<1>6. CASE ActualizeCounters(c)
  <2>1. ASSUME NEW e, e = [old EXCEPT !.pc = "sum", !.rounds = @ - 1] PROVE CallTyped(e, nextId)
    BY <2>1, <1>0 DEF CallTyped, Shaped
  <2>2. ASSUME NEW e, e = [old EXCEPT !.pc = "state"] PROVE CallTyped(e, nextId)
    BY <2>2, <1>0 DEF CallTyped, Shaped
  <2> QED
    BY <1>0, <1>6, <2>1, <2>2, CallStep, NoCallTyped DEF ActualizeCounters, serverVars, mailboxVars, rowVars
<1> QED
  BY <1>1, <1>2, <1>3, <1>4, <1>5, <1>6 DEF StoreStep

(* A copy x that call c has the server move to the given uid. *)
Moved(x, c, uid) == [x EXCEPT !.folder = call[c].to, !.uid = uid[x]]

LEMMA UserTyped ==
  ASSUME Typed, NEW c \in Calls, UserStep(c)
  PROVE  Typed'
<1> DEFINE old == call[c]
<1>0. CallTyped(old, nextId) /\ nextId \in Nat \ {0}
  BY DEF Typed, RowsTyped
<1>1. ASSUME NEW m \in Mails, NEW told \in BOOLEAN, Send(c, m, told) PROVE Typed'
  <2> DEFINE x == [mail |-> m, folder |-> SentFolder, uid |-> uidNext[SentFolder], seen |-> TRUE]
             y == IF told THEN x ELSE [x EXCEPT !.uid = Unknown]
  <2>1. SentFolder \in Folders /\ uidNext[SentFolder] \in Nat \ {0}
    BY <1>1, MailSyncAssumption DEF Send, CanSend, Live, Typed, RowsTyped
  <2>2. x \in ServerCopy /\ y \in AnyCopy
    BY <2>1 DEF ServerCopy, AnyCopy, Unknown
  <2> HIDE DEF y
  <2>3. ASSUME NEW e, e = [old EXCEPT !.pc = "find", !.rounds = 2, !.got = {y}] PROVE CallTyped(e, nextId)
    BY <2>2, <2>3, <1>0, <1>1 DEF CallTyped, Shaped, Send, Step
  <2> USE DEF y
  <2>4. Only(c) /\ CallTyped(call'[c], nextId)
    BY <2>3, <1>1, BecomesIs DEF Send, Typed
  <2> HIDE DEF x
  <2>5. server' = server \cup {x} /\ uidNext' = [uidNext EXCEPT ![SentFolder] = @ + 1]
    BY <1>1 DEF Send, x
  <2>7. IsFiniteSet(server')
    BY <2>5, FS_AddElement DEF Typed, RowsTyped
  <2>6. RowsTyped' /\ nextId' = nextId
    BY <2>1, <2>2, <2>5, <2>7, <1>1 DEF Send, Typed, RowsTyped, Ids, mailboxVars, rowVars
  <2> QED
    BY <1>0, <2>4, <2>6, TypedStep
<1>2. CASE SendKeepsNothing(c)
  BY <1>0, <1>2, NoCallTyped, CallStep DEF SendKeepsNothing, serverVars, mailboxVars, rowVars
<1>3. CASE MoveMessages(c)
  <2>1. ASSUME NEW e, NEW pc \in {"sum", "unlink"}, e = [old EXCEPT !.pc = pc, !.rounds = 1]
        PROVE  CallTyped(e, nextId)
    BY <2>1, <1>0, <1>3 DEF CallTyped, Shaped, MoveMessages, Step
  <2>2. Only(c) /\ CallTyped(call'[c], nextId)
    BY <2>1, <1>3, BecomesIs DEF MoveMessages, Typed
  <2>3. UNCHANGED <<rows, nextId, cursor>>
    BY <1>3 DEF MoveMessages, mailboxVars, rowVars
  <2>4. server' \subseteq ServerCopy /\ IsFiniteSet(server') /\ uidNext' \in [Folders -> Nat \ {0}]
    <3>1. CASE UNCHANGED <<server, uidNext>>
      BY <3>1 DEF Typed, RowsTyped
    <3>2. ASSUME Moves(c), NEW uid \in [Aimed(c) -> Uid],
                 server' = (server \ Aimed(c)) \cup {Moved(x, c, uid) : x \in Aimed(c)},
                 uidNext' = [uidNext EXCEPT ![call[c].to] = @ + Cardinality(Aimed(c))]
          PROVE  /\ server' \subseteq ServerCopy /\ IsFiniteSet(server')
                 /\ uidNext' \in [Folders -> Nat \ {0}]
      <4>1. old.to \in Folders
        BY <1>0, <3>2, MailSyncAssumption DEF Moves, CallTyped
      <4>2. ASSUME NEW x \in Aimed(c) PROVE Moved(x, c, uid) \in ServerCopy
        <5>1. x \in ServerCopy /\ uid[x] \in Nat \ {0}
          BY <3>2, MailSyncAssumption DEF Aimed, Typed, RowsTyped, Uid
        <5> QED
          BY <4>1, <5>1 DEF ServerCopy, Moved
      <4>3. IsFiniteSet(Aimed(c)) /\ Cardinality(Aimed(c)) \in Nat
        <5>1. IsFiniteSet(server) /\ Aimed(c) \in SUBSET server
          BY DEF Typed, RowsTyped, Aimed
        <5> QED
          BY <5>1, FS_Subset, FS_CardinalityType
      <4>4. IsFiniteSet({Moved(x, c, uid) : x \in Aimed(c)})
        <5> DEFINE T == {Moved(x, c, uid) : x \in Aimed(c)}
                   g == [x \in Aimed(c) |-> Moved(x, c, uid)]
        <5>1. g \in Surjection(Aimed(c), T)
          BY DEF Surjection
        <5> QED
          BY <4>3, <5>1, FS_Surjection
      <4>5. IsFiniteSet(server')
        BY <3>2, <4>4, FS_Union, FS_Difference DEF Typed, RowsTyped
      <4>6. server' \subseteq ServerCopy
        BY <3>2, <4>2 DEF Typed, RowsTyped
      <4>7. uidNext' \in [Folders -> Nat \ {0}]
        BY <3>2, <4>1, <4>3 DEF Typed, RowsTyped
      <4> QED
        BY <4>5, <4>6, <4>7
    <3> QED
      BY <1>3, <3>1, <3>2 DEF MoveMessages, Moved
  <2>5. RowsTyped'
    BY <2>3, <2>4 DEF Typed, RowsTyped, Ids
  <2> QED
    BY <1>0, <2>2, <2>3, <2>5, TypedStep
<1>4. CASE ChangeFlags(c)
  <2>1. ASSUME NEW e, e = [old EXCEPT !.pc = "set", !.rounds = 1] PROVE CallTyped(e, nextId)
    BY <2>1, <1>0, <1>4 DEF CallTyped, Shaped, ChangeFlags, Step
  <2>2. Only(c) /\ CallTyped(call'[c], nextId)
    BY <2>1, <1>4, BecomesIs DEF ChangeFlags, Typed
  <2>3. ASSUME NEW x \in Aimed(c) PROVE [x EXCEPT !.seen = call[c].seen] \in ServerCopy
    BY <1>0 DEF Aimed, Typed, RowsTyped, ServerCopy, CallTyped
  <2>5. IsFiniteSet({[x EXCEPT !.seen = call[c].seen] : x \in Aimed(c)})
    <3> DEFINE T == {[x EXCEPT !.seen = call[c].seen] : x \in Aimed(c)}
               g == [x \in Aimed(c) |-> [x EXCEPT !.seen = call[c].seen]]
    <3>1. g \in Surjection(Aimed(c), T)
      BY DEF Surjection
    <3>2. IsFiniteSet(Aimed(c))
      BY FS_Subset DEF Aimed, Typed, RowsTyped
    <3> QED
      BY <3>1, <3>2, FS_Surjection
  <2>6. IsFiniteSet(server')
    <3> DEFINE T == {[x EXCEPT !.seen = call[c].seen] : x \in Aimed(c)}
    <3>1. IsFiniteSet(server) /\ IsFiniteSet(server \ Aimed(c))
      BY FS_Difference DEF Typed, RowsTyped
    <3>2. IsFiniteSet((server \ Aimed(c)) \cup T)
      BY <2>5, <3>1, FS_Union
    <3> QED
      BY <3>1, <3>2, <1>4 DEF ChangeFlags
  <2>4. RowsTyped' /\ nextId' = nextId
    BY <2>3, <2>6, <1>4 DEF ChangeFlags, Typed, RowsTyped, Ids, mailboxVars, rowVars
  <2> QED
    BY <1>0, <2>2, <2>4, TypedStep
<1>5. CASE ServerRefuses(c)
  BY <1>0, <1>5, NoCallTyped, CallStep DEF ServerRefuses, serverVars, mailboxVars, rowVars
<1>6. CASE DeleteLinks(c)
  <2>1. ASSUME NEW e, e = [old EXCEPT !.pc = "relink"] PROVE CallTyped(e, nextId)
    BY <2>1, <1>0, <1>6 DEF CallTyped, Shaped, DeleteLinks, Unlink, Step
  <2> QED
    BY <1>6, <2>1, CallStep DEF DeleteLinks, Unlink, serverVars, mailboxVars
<1>7. CASE InsertLinks(c)
  <2>1. ASSUME NEW e, e = [old EXCEPT !.pc = "sum"] PROVE CallTyped(e, nextId)
    BY <2>1, <1>0 DEF CallTyped, Shaped
  <2> QED
    BY <1>0, <1>7, <2>1, CallStep, NoCallTyped DEF InsertLinks, serverVars, mailboxVars
<1>8. CASE MarkSeen(c)
  <2>1. ASSUME NEW e, e = [old EXCEPT !.pc = "sum"] PROVE CallTyped(e, nextId)
    BY <2>1, <1>0 DEF CallTyped, Shaped
  <2>2. Only(c) /\ CallTyped(call'[c], nextId)
    BY <2>1, <1>8, BecomesIs DEF MarkSeen, Mark, Typed
  <2>3. ASSUME NEW r \in Ids PROVE r \in Ids' /\ rows'[r] \in AnyCopy
    BY <2>3, <1>8 DEF MarkSeen, Mark, Typed, RowsTyped, AnyCopy, Ids
  <2>4. RowsTyped' /\ nextId' = nextId
    BY <2>3, <1>8 DEF MarkSeen, Mark, Typed, RowsTyped, Ids, serverVars, mailboxVars
  <2> QED
    BY <1>0, <2>2, <2>4, TypedStep
<1>9. ASSUME NEW since, Update(c, since) PROVE Typed'
  BY <1>0, <1>9, NoCallTyped, RequestTyped, CallStep DEF Update, serverVars, mailboxVars, rowVars
<1>11. CASE SaveUpdate(c)
  <2>1. ASSUME NEW q, CallTyped(q, nextId), NEW e, e = [q EXCEPT !.pc = "start"]
        PROVE  CallTyped(e, nextId)
    BY <2>1 DEF CallTyped, Shaped
  <2>2. CallTyped([call[c] EXCEPT !.pc = "start"], nextId)
    BY <2>1 DEF Typed
  <2> QED
    BY <1>11, <2>2, CallStep DEF SaveUpdate, serverVars, rowVars
<1>12. CASE UpdateFails(c)
  BY <1>0, <1>12, NoCallTyped, CallStep DEF UpdateFails, serverVars, mailboxVars, rowVars
<1>10. CASE Delete(c)
  <2>1. Only(c) /\ CallTyped(call'[c], nextId)
    BY <1>0, <1>10, BecomesIs, NoCallTyped DEF Delete, Typed
  <2>2. RowsTyped' /\ nextId' = nextId
    BY <1>10 DEF Delete, Typed, RowsTyped, Ids, serverVars, Zero
  <2> QED
    BY <1>0, <2>1, <2>2, TypedStep
<1> QED
  BY <1>1, <1>2, <1>3, <1>4, <1>5, <1>6, <1>7, <1>8, <1>9, <1>10, <1>11, <1>12 DEF UserStep

LEMMA AskTyped ==
  ASSUME Typed, NEW c \in Calls, AskStep(c)
  PROVE  Typed'
<1>0. nextId \in Nat \ {0} /\ \A r \in Ids : r \in 1..(nextId - 1) /\ rows[r] \in AnyCopy
  BY DEF Typed, RowsTyped
<1>1. CASE AskSend(c)
  <2>1. ASSUME NEW q, CallTyped(q, nextId), q.got = {}, NEW e, e = [q EXCEPT !.op = "send", !.pc = "send"]
        PROVE  CallTyped(e, nextId)
    BY <2>1 DEF CallTyped, Shaped
  <2>2. CallTyped([NoCall EXCEPT !.op = "send", !.pc = "send"], nextId)
    BY <1>0, <2>1, NoCallTyped DEF NoCall
  <2> QED
    BY <1>1, <2>2, BeginStep DEF AskSend, serverVars, mailboxVars, rowVars
<1>2. CASE ReadForUpdate(c)
  <2>1. ASSUME NEW q, CallTyped(q, nextId), NEW k, NEW e,
               e = [q EXCEPT !.op = "update", !.pc = "save", !.kept = k]
        PROVE  CallTyped(e, nextId)
    BY <2>1 DEF CallTyped, Shaped
  <2> QED
    BY <1>0, <1>2, <2>1, NoCallTyped, CallStep DEF ReadForUpdate, serverVars, mailboxVars, rowVars
<1>3. CASE AskDelete(c)
  <2>1. ASSUME NEW q, CallTyped(q, nextId), NEW pc \in {"drop", "wait"}, NEW e,
               e = [q EXCEPT !.op = "drop", !.pc = pc]
        PROVE  CallTyped(e, nextId)
    BY <2>1 DEF CallTyped, Shaped
  <2> QED
    BY <1>0, <1>3, <2>1, NoCallTyped, CallStep DEF AskDelete, serverVars, mailboxVars, rowVars
<1>4. ASSUME NEW r \in Ids, NEW op \in {"move", "mark"}, NEW to \in Folders \cup {None},
             NEW seen \in BOOLEAN, AskThread(c, op, r, to, seen)
      PROVE  Typed'
  <2>1. ASSUME NEW q, CallTyped(q, nextId), NEW x \in AnyCopy, NEW fs, fs \subseteq Folders,
               NEW g \in Folders \cup {None}, NEW e,
               e = [q EXCEPT !.op = op, !.pc = "serve", !.row = r, !.one = x, !.aim = fs, !.to = g,
                             !.seen = seen]
        PROVE  CallTyped(e, nextId)
    <3>1. /\ Shaped(e) /\ e.op = op /\ e.pc = "serve" /\ e.row = r /\ e.one = x /\ e.aim = fs
          /\ e.to = g /\ e.seen = seen
          /\ e.got = q.got /\ e.todo = q.todo /\ e.next = q.next /\ e.missed = q.missed
      BY <2>1 DEF CallTyped, Shaped
    <3> QED
      BY <2>1, <3>1, <1>0, <1>4 DEF CallTyped
  <2>2. rows[r] \in AnyCopy /\ FoldersOf(r) \subseteq Folders /\ Live(to) \in Folders \cup {None}
    BY <1>0 DEF FoldersOf, Live
  <2>3. CallTyped([NoCall EXCEPT !.op = op, !.pc = "serve", !.row = r, !.one = rows[r],
                                 !.aim = FoldersOf(r), !.to = Live(to), !.seen = seen], nextId)
    BY <1>0, <2>1, <2>2, NoCallTyped
  <2> QED
    BY <1>4, <2>3, BeginStep DEF AskThread, serverVars, mailboxVars, rowVars
<1> QED
  BY <1>1, <1>2, <1>3, <1>4, MailSyncAssumption DEF AskStep

LEMMA TypedInit == Init => Typed
BY MailSyncAssumption, NoCallTyped, FS_EmptySet DEF Init, Typed, RowsTyped, Functional, Ids, Zero

LEMMA TypedNext ==
  ASSUME Typed, [Next]_vars
  PROVE  Typed'
<1>1. CASE UNCHANGED vars
  BY <1>1 DEF vars, serverVars, mailboxVars, rowVars, Typed, RowsTyped, Functional, Ids
<1>2. ASSUME NEW m \in Mails, Arrive(m) PROVE Typed'
  <2> DEFINE x == [mail |-> m, folder |-> Inbox, uid |-> uidNext[Inbox], seen |-> FALSE]
  <2>1. x \in ServerCopy
    BY MailSyncAssumption DEF Typed, RowsTyped, ServerCopy
  <2> HIDE DEF x
  <2>2. server' = server \cup {x} /\ uidNext' = [uidNext EXCEPT ![Inbox] = @ + 1]
    BY <1>2 DEF Arrive, x
  <2>3. IsFiniteSet(server')
    BY <2>2, FS_AddElement DEF Typed, RowsTyped
  <2>4. RowsTyped'
    BY <2>1, <2>2, <2>3, <1>2, MailSyncAssumption
       DEF Arrive, Typed, RowsTyped, mailboxVars, rowVars, Ids
  <2> QED
    BY <2>4, <1>2 DEF Arrive, Typed, Functional, rowVars
<1>3. CASE Create \/ SaveSettings \/ SoftDelete
  BY <1>3 DEF Create, SaveSettings, SoftDelete, serverVars, rowVars, Typed, RowsTyped, Functional, Ids
<1>4. CASE Restart
  BY <1>4, NoCallTyped DEF Restart, serverVars, mailboxVars, rowVars, Typed, RowsTyped, Functional, Ids
<1>5. ASSUME NEW c \in Calls, Synchronize(c) PROVE Typed'
  BY <1>5, RequestTyped, BeginStep
     DEF Synchronize, Cron, serverVars, mailboxVars, rowVars, Typed, RowsTyped
<1> QED
  BY <1>1, <1>2, <1>3, <1>4, <1>5, SyncTyped, StoreTyped, UserTyped, AskTyped DEF Next, Continue

------------------------------------------------------------------------------
(* Layer 2: who runs beside whom *)

(* A step of call c that neither takes nor releases the lock. *)
Goes(c) ==
  /\ Only(c) /\ UNCHANGED <<lock, overlapped>>
  /\ call'[c].op = call[c].op \/ call'[c].op = "none"

LEMMA StoreGoes ==
  ASSUME Typed, NEW c \in Calls, StoreStep(c)
  PROVE  Goes(c)
<1>0. Functional /\ Shaped(call[c])
  BY DEF Typed, CallTyped
<1>1. CASE FindMessage(c)
  BY <1>0, <1>1 DEF FindMessage, Becomes, Goes, Only, Functional, Shaped, ghostVars
<1>2. CASE WriteMessage(c)
  BY <1>0, <1>2 DEF WriteMessage, Becomes, Goes, Only, Functional, Shaped, ghostVars
<1>3. CASE LinkMessage(c)
  BY <1>0, <1>3 DEF LinkMessage, Becomes, Goes, Only, Functional, Shaped, ghostVars
<1>4. CASE StoreFails(c)
  BY <1>0, <1>4 DEF StoreFails, Becomes, Goes, Only, Functional, Shaped, NoCall
<1>5. CASE SumCounters(c)
  BY <1>0, <1>5 DEF SumCounters, Becomes, Goes, Only, Functional, Shaped, ghostVars
<1>6. CASE ActualizeCounters(c)
  <2>1. UNCHANGED <<lock, overlapped>>
    BY <1>6 DEF ActualizeCounters, ghostVars
  <2>2. CASE Becomes(c, [call[c] EXCEPT !.pc = "sum", !.rounds = @ - 1])
    BY <1>0, <2>1, <2>2 DEF Becomes, Goes, Only, Functional, Shaped
  <2>3. CASE Becomes(c, [call[c] EXCEPT !.pc = "state"])
    BY <1>0, <2>1, <2>3 DEF Becomes, Goes, Only, Functional, Shaped
  <2>4. CASE Becomes(c, NoCall)
    BY <1>0, <2>1, <2>4 DEF Becomes, Goes, Only, Functional, NoCall
  <2> QED
    BY <1>6, <2>2, <2>3, <2>4 DEF ActualizeCounters
<1> QED
  BY <1>1, <1>2, <1>3, <1>4, <1>5, <1>6 DEF StoreStep

LEMMA SyncGoes ==
  ASSUME Typed, NEW c \in Calls, SyncStep(c), ~UpdateState(c)
  PROVE  Goes(c)
<1>0. Functional /\ Shaped(call[c])
  BY DEF Typed, CallTyped
<1>1. CASE Connect(c)
  BY <1>0, <1>1 DEF Connect, Becomes, Goes, Only, Functional, Shaped, ghostVars
<1>2. CASE SyncFails(c)
  BY <1>0, <1>2 DEF SyncFails, Becomes, Goes, Only, Functional, Shaped, ghostVars
<1>3. ASSUME NEW f, NEW answer, Search(c, f, answer) PROVE Goes(c)
  BY <1>0, <1>3 DEF Search, Becomes, Goes, Only, Functional, Shaped, ghostVars
<1>4. CASE UpdateSyncInfo(c)
  <2>1. ASSUME NEW q, Shaped(q), q.op = "sync" PROVE [q EXCEPT !.pc = "folders", !.got = call[c].got].op = "sync"
    BY <2>1 DEF Shaped
  <2>2. call[c].op = "sync" /\ UNCHANGED <<lock, overlapped>>
    BY <1>4 DEF UpdateSyncInfo, Step
  <2> QED
    <3>1. [Request(FALSE, "today") EXCEPT !.pc = "folders", !.got = call[c].got].op = "sync"
      <4>1. Shaped(Request(FALSE, "today")) /\ Request(FALSE, "today").op = "sync"
        BY RequestTyped DEF Typed, RowsTyped
      <4> HIDE DEF Request
      <4> QED
        BY <2>1, <4>1
    <3> QED
      BY <1>0, <1>4, <2>2, <3>1, BecomesIs DEF UpdateSyncInfo, Goes
<1>5. CASE ProcessExternal(c)
  BY <1>0, <1>5 DEF ProcessExternal, Becomes, Goes, Only, Functional, Shaped, ghostVars
<1> QED
  BY <1>1, <1>2, <1>3, <1>4, <1>5 DEF SyncStep, ProcessFolder, SearchTimesOut

LEMMA UserGoes ==
  ASSUME Typed, NEW c \in Calls, UserStep(c), \A since : ~Update(c, since)
  PROVE  Goes(c)
<1>0. Functional /\ Shaped(call[c]) /\ NoCall.op = "none"
  BY DEF Typed, CallTyped, NoCall
<1> HIDE DEF NoCall
<1>1. ASSUME NEW m, NEW told, Send(c, m, told) PROVE Goes(c)
  <2>1. ASSUME NEW y PROVE [call[c] EXCEPT !.pc = "find", !.rounds = 2, !.got = {y}].op = call[c].op
    BY <1>0 DEF Shaped
  <2> QED
    BY <1>0, <1>1, <2>1 DEF Send, Becomes, Goes, Only, Functional
<1>2. CASE SendKeepsNothing(c)
  BY <1>0, <1>2 DEF SendKeepsNothing, Becomes, Goes, Only, Functional, ghostVars
<1>3. CASE MoveMessages(c)
  <2>1. ASSUME NEW pc PROVE [call[c] EXCEPT !.pc = pc, !.rounds = 1].op = call[c].op
    BY <1>0 DEF Shaped
  <2> QED
    BY <1>0, <1>3, <2>1 DEF MoveMessages, Becomes, Goes, Only, Functional, ghostVars
<1>4. CASE ChangeFlags(c)
  BY <1>0, <1>4 DEF ChangeFlags, Becomes, Goes, Only, Functional, Shaped, ghostVars
<1>5. CASE ServerRefuses(c)
  BY <1>0, <1>5 DEF ServerRefuses, Becomes, Goes, Only, Functional, ghostVars
<1>6. CASE DeleteLinks(c)
  BY <1>0, <1>6 DEF DeleteLinks, Unlink, Becomes, Goes, Only, Functional, Shaped, ghostVars
<1>7. CASE InsertLinks(c)
  BY <1>0, <1>7 DEF InsertLinks, Becomes, Goes, Only, Functional, Shaped, ghostVars
<1>8. CASE MarkSeen(c)
  BY <1>0, <1>8 DEF MarkSeen, Mark, Becomes, Goes, Only, Functional, Shaped, ghostVars
<1>9. CASE Delete(c)
  BY <1>0, <1>9 DEF Delete, Becomes, Goes, Only, Functional, ghostVars
<1>10. CASE SaveUpdate(c)
  BY <1>0, <1>10 DEF SaveUpdate, Becomes, Goes, Only, Functional, Shaped, ghostVars
<1>11. CASE UpdateFails(c)
  BY <1>0, <1>11 DEF UpdateFails, Becomes, Goes, Only, Functional
<1> QED
  BY <1>1, <1>2, <1>3, <1>4, <1>5, <1>6, <1>7, <1>8, <1>9, <1>10, <1>11 DEF UserStep

(* A call that begins, with the given operation. *)
Begins(c, op) ==
  /\ Only(c) /\ UNCHANGED lock /\ call[c] = NoCall /\ call'[c].op = op
  /\ IF op \in {"send", "move", "mark"}
     THEN overlapped' = (overlapped \/ \E d \in Calls \ {c} : Storing(d))
     ELSE UNCHANGED overlapped

LEMMA AskBegins ==
  ASSUME Typed, NEW c \in Calls, AskStep(c)
  PROVE  \E op \in Asked \ {"hide"} : Begins(c, op) /\ (op = "update" => ReadForUpdate(c))
<1>0. Functional /\ Shaped(NoCall)
  BY NoCallTyped DEF Typed, RowsTyped, CallTyped
<1>1. ASSUME AskSend(c) PROVE Begins(c, "send")
  <2>1. [NoCall EXCEPT !.op = "send", !.pc = "send"].op = "send"
    BY <1>0 DEF Shaped
  <2> QED
    BY <1>0, <1>1, <2>1, BeginIs DEF AskSend, Begins
<1>2. ASSUME ReadForUpdate(c) PROVE Begins(c, "update")
  <2>1. ASSUME NEW k PROVE [NoCall EXCEPT !.op = "update", !.pc = "save", !.kept = k].op = "update"
    BY <1>0 DEF Shaped
  <2>2. PICK k : Becomes(c, [NoCall EXCEPT !.op = "update", !.pc = "save", !.kept = k])
    BY <1>2 DEF ReadForUpdate
  <2>3. Only(c) /\ call'[c].op = "update"
    BY <1>0, <2>1, <2>2, BecomesIs
  <2> QED
    BY <1>2, <2>3 DEF ReadForUpdate, Begins
<1>3. ASSUME AskDelete(c) PROVE Begins(c, "drop")
  <2>1. ASSUME NEW pc PROVE [NoCall EXCEPT !.op = "drop", !.pc = pc].op = "drop"
    BY <1>0 DEF Shaped
  <2> QED
    BY <1>0, <1>3, <2>1, BecomesIs DEF AskDelete, Begins, ghostVars
<1>4. ASSUME NEW r, NEW op \in {"move", "mark"}, NEW to, NEW seen, AskThread(c, op, r, to, seen)
      PROVE  Begins(c, op)
  <2>1. ASSUME NEW x, NEW fs, NEW g
        PROVE  [NoCall EXCEPT !.op = op, !.pc = "serve", !.row = r, !.one = x, !.aim = fs, !.to = g,
                              !.seen = seen].op = op
    BY <1>0 DEF Shaped
  <2> QED
    <3> DEFINE new == [NoCall EXCEPT !.op = op, !.pc = "serve", !.row = r, !.one = rows[r],
                                     !.aim = FoldersOf(r), !.to = Live(to), !.seen = seen]
    <3>1. Begin(c, new) /\ UNCHANGED lock
      BY <1>4 DEF AskThread
    <3>2. new.op = op
      BY <2>1
    <3> HIDE DEF new
    <3> QED
      BY <1>0, <3>1, <3>2, BeginIs DEF Begins
<1>5. {"send", "update", "drop", "move", "mark"} \subseteq Asked \ {"hide"}
  BY DEF Asked
<1> QED
  BY <1>1, <1>2, <1>3, <1>4, <1>5 DEF AskStep

(* A call that begins to synchronise, or an update that goes on to. *)
Syncs(c) ==
  /\ Only(c) /\ lock = None /\ lock' = c /\ call[c].op \in {"none", "update"}
  /\ call'[c].op = "sync" /\ call'[c].pc = "connect"
  /\ overlapped' = (overlapped \/ \E d \in Calls \ {c} : Storing(d))

LEMMA ApartNext ==
  ASSUME Typed, Apart, [Next]_vars
  PROVE  Apart'
<1>1. ASSUME NEW c \in Calls, Goes(c) PROVE Apart'
  BY <1>1 DEF Goes, Only, Apart, Storing
<1>2. ASSUME NEW c \in Calls, Syncs(c) PROVE Apart'
  BY <1>2, MailSyncAssumption DEF Syncs, Only, Apart, Storing
<1>3. ASSUME NEW c \in Calls, NEW op \in Asked, Begins(c, op) PROVE Apart'
  BY <1>3 DEF Begins, Only, Apart, Storing, Asked, NoCall
<1>4. ASSUME NEW c \in Calls, UpdateState(c) PROVE Apart'
  <2>0. ASSUME NEW q, Shaped(q) PROVE [q EXCEPT !.pc = "drop"].op = q.op
    BY <2>0 DEF Shaped
  <2>1. \A d \in Calls \ {c} : call'[d].op = call[d].op
    BY <1>4, <2>0, ReleasedIs DEF UpdateState, Typed, CallTyped
  <2>2. call'[c].op = "none" /\ call[c].op = "sync" /\ lock' = None /\ UNCHANGED overlapped
    BY <1>4, ReleasedIs DEF UpdateState, Typed, NoCall, Step, ghostVars
  <2> QED
    BY <2>1, <2>2 DEF Apart, Storing
<1>5. ASSUME NEW c \in Calls, NEW since, Update(c, since) PROVE Apart'
  <2>1. CASE lock = None
    <3>1. Syncs(c)
      BY <1>5, <2>1, BecomesIs, RequestTyped DEF Update, Syncs, Step, Typed, RowsTyped
    <3> QED
      BY <1>2, <3>1
  <2>2. CASE lock # None
    <3>1. Goes(c)
      BY <1>5, <2>2, BecomesIs DEF Update, Goes, Typed, NoCall
    <3> QED
      BY <1>1, <3>1
  <2> QED
    BY <2>1, <2>2
<1>6. ASSUME NEW c \in Calls, Synchronize(c) PROVE Apart'
  <2>1. Syncs(c)
    <3>1. /\ lock = None /\ lock' = c /\ Begin(c, Request(FALSE, "today"))
      BY <1>6 DEF Synchronize, Cron
    <3>2. NoCall.op = "none"
      BY DEF NoCall
    <3>3. Request(FALSE, "today").op = "sync" /\ Request(FALSE, "today").pc = "connect"
      BY RequestTyped DEF Typed, RowsTyped
    <3> QED
      BY <3>1, <3>2, <3>3, BeginIs DEF Syncs, Typed
  <2> QED
    BY <1>2, <2>1
<1>7. CASE Restart
  BY <1>7 DEF Restart, Apart, Storing, NoCall
<1>8. ASSUME NEW m, Arrive(m) PROVE Apart'
  BY <1>8 DEF Arrive, Apart, Storing, ghostVars
<1>9. CASE Create \/ SaveSettings \/ SoftDelete
  BY <1>9 DEF Create, SaveSettings, SoftDelete, Apart, Storing, ghostVars
<1>10. CASE UNCHANGED vars
  BY <1>10 DEF vars, Apart, Storing, ghostVars
<1> QED
  BY <1>1, <1>3, <1>4, <1>5, <1>6, <1>7, <1>8, <1>9, <1>10, SyncGoes, StoreGoes, UserGoes, AskBegins
     DEF Next, Continue, SyncStep

------------------------------------------------------------------------------
(* What each step makes of the fields of its call *)

Has(e, op, pc, todo, next, missed, got, one, row) ==
  /\ e.op = op /\ e.pc = pc /\ e.todo = todo /\ e.next = next
  /\ e.missed = missed /\ e.got = got /\ e.one = one /\ e.row = row

Ended(c) == Only(c) /\ Has(call'[c], "none", "idle", <<>>, Zero, {}, {}, Nothing, NoRow)

LEMMA BecomesNoCall ==
  ASSUME Functional, NEW c \in Calls, Becomes(c, NoCall)
  PROVE  Ended(c)
BY BecomesIs DEF Ended, Has, NoCall

LEMMA ConnectIs ==
  ASSUME Typed, NEW c \in Calls, Connect(c)
  PROVE  /\ Only(c)
         /\ Has(call'[c], call[c].op, "fetch", Listing, uidNext, call[c].missed, call[c].got, call[c].one, call[c].row)
<1>1. ASSUME NEW q, Shaped(q), NEW n, NEW e, e = [q EXCEPT !.pc = "fetch", !.todo = Listing, !.next = n]
      PROVE  Has(e, q.op, "fetch", Listing, n, q.missed, q.got, q.one, q.row)
  BY <1>1 DEF Shaped, Has
<1>2. Functional /\ Shaped(call[c])
  BY DEF Typed, CallTyped
<1> QED
  BY <1>1, <1>2, BecomesIs DEF Connect

LEMMA SyncFailsIs ==
  ASSUME Typed, NEW c \in Calls, SyncFails(c)
  PROVE  /\ Only(c)
         /\ Has(call'[c], call[c].op, "state", call[c].todo, call[c].next, call[c].missed, call[c].got, call[c].one, call[c].row)
<1>1. ASSUME NEW q, Shaped(q), NEW e, e = [q EXCEPT !.pc = "state", !.ok = FALSE]
      PROVE  Has(e, q.op, "state", q.todo, q.next, q.missed, q.got, q.one, q.row)
  BY <1>1 DEF Shaped, Has
<1>2. Functional /\ Shaped(call[c])
  BY DEF Typed, CallTyped
<1> QED
  BY <1>1, <1>2, BecomesIs DEF SyncFails

LEMMA ProcessExternalIs ==
  ASSUME Typed, NEW c \in Calls, ProcessExternal(c)
  PROVE  /\ Only(c)
         /\ Has(call'[c], call[c].op, IF call[c].got = {} THEN "state" ELSE "find", call[c].todo, call[c].next, call[c].missed, call[c].got, call[c].one, call[c].row)
<1>1. ASSUME NEW q, Shaped(q), NEW p, NEW e, e = [q EXCEPT !.pc = p, !.rounds = 1]
      PROVE  Has(e, q.op, p, q.todo, q.next, q.missed, q.got, q.one, q.row)
  BY <1>1 DEF Shaped, Has
<1>2. Functional /\ Shaped(call[c])
  BY DEF Typed, CallTyped
<1> QED
  BY <1>1, <1>2, BecomesIs DEF ProcessExternal

LEMMA WriteMessageIs ==
  ASSUME Typed, NEW c \in Calls, WriteMessage(c)
  PROVE  /\ Only(c)
         /\ Has(call'[c], call[c].op, "link", call[c].todo, call[c].next, call[c].missed, call[c].got, call[c].one, IF call[c].row = NoRow THEN nextId ELSE call[c].row)
<1>1. ASSUME NEW q, Shaped(q), NEW r, NEW e, e = [q EXCEPT !.pc = "link", !.row = r]
      PROVE  Has(e, q.op, "link", q.todo, q.next, q.missed, q.got, q.one, r)
  BY <1>1 DEF Shaped, Has
<1>2. Functional /\ Shaped(call[c])
  BY DEF Typed, CallTyped
<1> QED
  BY <1>1, <1>2, BecomesIs DEF WriteMessage

LEMMA LinkMessageIs ==
  ASSUME Typed, NEW c \in Calls, LinkMessage(c)
  PROVE  /\ Only(c)
         /\ Has(call'[c], call[c].op, IF call[c].got \ {call[c].one} = {} THEN "sum" ELSE "find", call[c].todo, call[c].next, call[c].missed, call[c].got \ {call[c].one}, Nothing, NoRow)
<1>1. ASSUME NEW q, Shaped(q), NEW g, NEW p, NEW e, e = [q EXCEPT !.got = g, !.one = Nothing, !.row = NoRow, !.pc = p]
      PROVE  Has(e, q.op, p, q.todo, q.next, q.missed, g, Nothing, NoRow)
  BY <1>1 DEF Shaped, Has
<1>2. Functional /\ Shaped(call[c])
  BY DEF Typed, CallTyped
<1> QED
  BY <1>1, <1>2, BecomesIs DEF LinkMessage

LEMMA SumCountersIs ==
  ASSUME Typed, NEW c \in Calls, SumCounters(c)
  PROVE  /\ Only(c)
         /\ Has(call'[c], call[c].op, "put", call[c].todo, call[c].next, call[c].missed, call[c].got, call[c].one, call[c].row)
<1>1. ASSUME NEW q, Shaped(q), NEW k, NEW e, e = [q EXCEPT !.pc = "put", !.counts = k]
      PROVE  Has(e, q.op, "put", q.todo, q.next, q.missed, q.got, q.one, q.row)
  BY <1>1 DEF Shaped, Has
<1>2. Functional /\ Shaped(call[c])
  BY DEF Typed, CallTyped
<1> QED
  BY <1>1, <1>2, BecomesIs DEF SumCounters

LEMMA ChangeFlagsIs ==
  ASSUME Typed, NEW c \in Calls, ChangeFlags(c)
  PROVE  /\ Only(c)
         /\ Has(call'[c], call[c].op, "set", call[c].todo, call[c].next, call[c].missed, call[c].got, call[c].one, call[c].row)
<1>1. ASSUME NEW q, Shaped(q), NEW e, e = [q EXCEPT !.pc = "set", !.rounds = 1]
      PROVE  Has(e, q.op, "set", q.todo, q.next, q.missed, q.got, q.one, q.row)
  BY <1>1 DEF Shaped, Has
<1>2. Functional /\ Shaped(call[c])
  BY DEF Typed, CallTyped
<1> QED
  BY <1>1, <1>2, BecomesIs DEF ChangeFlags

LEMMA MoveMessagesIs ==
  ASSUME Typed, NEW c \in Calls, MoveMessages(c)
  PROVE  /\ Only(c)
         /\ Has(call'[c], call[c].op, IF call[c].to = None THEN "sum" ELSE "unlink", call[c].todo, call[c].next, call[c].missed, call[c].got, call[c].one, call[c].row)
<1>1. ASSUME NEW q, Shaped(q), NEW p, NEW e, e = [q EXCEPT !.pc = p, !.rounds = 1]
      PROVE  Has(e, q.op, p, q.todo, q.next, q.missed, q.got, q.one, q.row)
  BY <1>1 DEF Shaped, Has
<1>2. Functional /\ Shaped(call[c])
  BY DEF Typed, CallTyped
<1> QED
  BY <1>1, <1>2, BecomesIs DEF MoveMessages

LEMMA DeleteLinksIs ==
  ASSUME Typed, NEW c \in Calls, DeleteLinks(c)
  PROVE  /\ Only(c)
         /\ Has(call'[c], call[c].op, "relink", call[c].todo, call[c].next, call[c].missed, call[c].got, call[c].one, call[c].row)
<1>1. ASSUME NEW q, Shaped(q), NEW e, e = [q EXCEPT !.pc = "relink"]
      PROVE  Has(e, q.op, "relink", q.todo, q.next, q.missed, q.got, q.one, q.row)
  BY <1>1 DEF Shaped, Has
<1>2. Functional /\ Shaped(call[c])
  BY DEF Typed, CallTyped
<1> QED
  BY <1>1, <1>2, BecomesIs DEF DeleteLinks, Unlink

LEMMA MarkSeenIs ==
  ASSUME Typed, NEW c \in Calls, MarkSeen(c)
  PROVE  /\ Only(c)
         /\ Has(call'[c], call[c].op, "sum", call[c].todo, call[c].next, call[c].missed, call[c].got, call[c].one, call[c].row)
<1>1. ASSUME NEW q, Shaped(q), NEW e, e = [q EXCEPT !.pc = "sum"]
      PROVE  Has(e, q.op, "sum", q.todo, q.next, q.missed, q.got, q.one, q.row)
  BY <1>1 DEF Shaped, Has
<1>2. Functional /\ Shaped(call[c])
  BY DEF Typed, CallTyped
<1> QED
  BY <1>1, <1>2, BecomesIs DEF MarkSeen, Mark

LEMMA SaveUpdateIs ==
  ASSUME Typed, NEW c \in Calls, SaveUpdate(c)
  PROVE  /\ Only(c) /\ call[c].op = "update" /\ call[c].pc = "save"
         /\ Has(call'[c], call[c].op, "start", call[c].todo, call[c].next, call[c].missed, call[c].got, call[c].one, call[c].row)
<1>1. ASSUME NEW q, Shaped(q), NEW e, e = [q EXCEPT !.pc = "start"]
      PROVE  Has(e, q.op, "start", q.todo, q.next, q.missed, q.got, q.one, q.row)
  BY <1>1 DEF Shaped, Has
<1>2. Functional /\ Shaped(call[c])
  BY DEF Typed, CallTyped
<1> QED
  BY <1>1, <1>2, BecomesIs DEF SaveUpdate, Step

(* What a search of folder f does not return although the sync info is     *)
(* going to leave it behind.                                               *)
Unseen(c, f, answer) ==
  {x \in InBox(f) : From(c, f) <= x.uid /\ x.uid < UidTo(c, f)} \ answer

LEMMA SearchIs ==
  ASSUME Typed, NEW c \in Calls, NEW f \in Folders, NEW answer, Search(c, f, answer)
  PROVE  /\ Only(c) /\ call[c].pc = "fetch" /\ call[c].op = "sync" /\ f = Head(call[c].todo)
         /\ Has(call'[c], "sync", IF Tail(call[c].todo) = <<>> THEN "cursor" ELSE "fetch",
                Tail(call[c].todo), [call[c].next EXCEPT ![f] = UidTo(c, f)],
                call[c].missed \cup Unseen(c, f, answer),
                call[c].got \cup answer, call[c].one, call[c].row)
<1>1. ASSUME NEW q, Shaped(q), NEW t, NEW p, NEW u, NEW xs, NEW ys, NEW e,
             e = [q EXCEPT !.todo = t, !.pc = p, !.next[f] = u, !.got = @ \cup xs,
                           !.missed = @ \cup ys], q.op = "sync"
      PROVE  Has(e, "sync", p, t, [q.next EXCEPT ![f] = u], q.missed \cup ys, q.got \cup xs, q.one, q.row)
  BY <1>1 DEF Shaped, Has
<1>2. Functional /\ Shaped(call[c])
  BY DEF Typed, CallTyped
<1>3. call[c].pc = "fetch" /\ call[c].op = "sync" /\ f = Head(call[c].todo)
  BY DEF Search, Step
<1> DEFINE left == Tail(call[c].todo)
<1>4. /\ Only(c)
      /\ call'[c] = [call[c] EXCEPT !.todo = left, !.pc = IF left = <<>> THEN "cursor" ELSE "fetch",
                                    !.next[f] = UidTo(c, f), !.got = @ \cup answer,
                                    !.missed = @ \cup Unseen(c, f, answer)]
  BY <1>2, BecomesIs DEF Search, Unseen
<1> HIDE DEF left
<1>5. Has(call'[c], "sync", IF left = <<>> THEN "cursor" ELSE "fetch", left,
          [call[c].next EXCEPT ![f] = UidTo(c, f)], call[c].missed \cup Unseen(c, f, answer),
          call[c].got \cup answer, call[c].one, call[c].row)
  BY <1>1, <1>2, <1>3, <1>4
<1> QED
  BY <1>3, <1>4, <1>5 DEF left

LEMMA UpdateSyncInfoIs ==
  ASSUME Typed, NEW c \in Calls, UpdateSyncInfo(c)
  PROVE  /\ Only(c) /\ call[c].pc = "cursor" /\ call[c].op = "sync"
         /\ Has(call'[c], "sync", "folders", <<>>, Zero, {}, call[c].got, Nothing, NoRow)
<1>1. ASSUME NEW q, NEW g, NEW e,
             q = [op |-> "sync", pc |-> "connect", full |-> FALSE, since |-> "today", ok |-> TRUE,
                  todo |-> <<>>, next |-> Zero, missed |-> {}, got |-> {}, one |-> Nothing,
                  row |-> NoRow, aim |-> {}, to |-> None, seen |-> TRUE, kept |-> "none",
                  counts |-> Zero, rounds |-> 0],
             e = [q EXCEPT !.pc = "folders", !.got = g]
      PROVE  Has(e, "sync", "folders", <<>>, Zero, {}, g, Nothing, NoRow)
  BY <1>1 DEF Has
<1>2. Functional
  BY DEF Typed
<1> QED
  BY <1>1, <1>2, RequestIs, BecomesIs DEF UpdateSyncInfo, Step, Request

LEMMA RequestHas ==
  ASSUME NEW full, NEW since
  PROVE  Has(Request(full, since), "sync", "connect", <<>>, Zero, {}, {}, Nothing, NoRow)
<1>1. Request(full, since) =
        [op |-> "sync", pc |-> "connect", full |-> full, since |-> since, ok |-> TRUE,
         todo |-> <<>>, next |-> Zero, missed |-> {}, got |-> {}, one |-> Nothing,
         row |-> NoRow, aim |-> {}, to |-> None, seen |-> TRUE, kept |-> "none",
         counts |-> Zero, rounds |-> 0]
  BY RequestIs DEF Request
<1> QED
  BY <1>1 DEF Has

LEMMA UpdateStateIs ==
  ASSUME Typed, NEW c \in Calls, UpdateState(c)
  PROVE  /\ call[c].op = "sync" /\ call[c].pc = "state"
         /\ Has(call'[c], "none", "idle", <<>>, Zero, {}, {}, Nothing, NoRow)
         /\ \A d \in Calls \ {c} :
              \E p : /\ p = call[d].pc \/ p = "drop"
                    /\ Has(call'[d], call[d].op, p, call[d].todo, call[d].next, call[d].missed,
                           call[d].got, call[d].one, call[d].row)
<1>1. ASSUME NEW q, Shaped(q), NEW e, e = [q EXCEPT !.pc = "drop"]
      PROVE  Has(e, q.op, "drop", q.todo, q.next, q.missed, q.got, q.one, q.row)
  BY <1>1 DEF Shaped, Has
<1>2. Has(NoCall, "none", "idle", <<>>, Zero, {}, {}, Nothing, NoRow)
  BY DEF Has, NoCall
<1>3. \A d \in Calls :
        Has(call[d], call[d].op, call[d].pc, call[d].todo, call[d].next, call[d].missed,
            call[d].got, call[d].one, call[d].row)
  BY DEF Has
<1>4. call[c].op = "sync" /\ call[c].pc = "state"
  BY DEF UpdateState, Step
<1>5. Functional /\ \A d \in Calls : Shaped(call[d])
  BY DEF Typed, CallTyped
<1>6. /\ call'[c] = NoCall
      /\ \A d \in Calls \ {c} :
           call'[d] = call[d] \/ call'[d] = [call[d] EXCEPT !.pc = "drop"]
  BY <1>5, ReleasedIs DEF UpdateState
<1>7. ASSUME NEW d \in Calls \ {c}
      PROVE  \E p : /\ p = call[d].pc \/ p = "drop"
                   /\ Has(call'[d], call[d].op, p, call[d].todo, call[d].next, call[d].missed,
                          call[d].got, call[d].one, call[d].row)
  BY <1>1, <1>3, <1>5, <1>6
<1> QED
  BY <1>2, <1>4, <1>6, <1>7

LEMMA FindMessageIs ==
  ASSUME Typed, NEW c \in Calls, FindMessage(c)
  PROVE  /\ Only(c) /\ call[c].op \in {"sync", "send"} /\ call[c].pc = "find"
         /\ \E x \in call[c].got :
              \E r \in IF Known(x) = {} THEN {NoRow} ELSE Known(x) :
                Has(call'[c], call[c].op, "write", call[c].todo, call[c].next, call[c].missed,
                    call[c].got, x, r)
<1>1. ASSUME NEW q, Shaped(q), NEW x, NEW r, NEW e, e = [q EXCEPT !.pc = "write", !.one = x, !.row = r]
      PROVE  Has(e, q.op, "write", q.todo, q.next, q.missed, q.got, x, r)
  BY <1>1 DEF Shaped, Has
<1>2. Functional /\ Shaped(call[c])
  BY DEF Typed, CallTyped
<1>3. PICK x \in call[c].got : \E r \in IF Known(x) = {} THEN {NoRow} ELSE Known(x) :
        Becomes(c, [call[c] EXCEPT !.pc = "write", !.one = x, !.row = r])
  BY DEF FindMessage
<1>4. PICK r \in IF Known(x) = {} THEN {NoRow} ELSE Known(x) :
        Becomes(c, [call[c] EXCEPT !.pc = "write", !.one = x, !.row = r])
  BY <1>3
<1>5. Only(c) /\ call'[c] = [call[c] EXCEPT !.pc = "write", !.one = x, !.row = r]
  BY <1>2, <1>4, BecomesIs
<1>6. Has(call'[c], call[c].op, "write", call[c].todo, call[c].next, call[c].missed,
          call[c].got, x, r)
  BY <1>1, <1>2, <1>5
<1> QED
  BY <1>4, <1>5, <1>6 DEF FindMessage, Step

LEMMA StoreFailsIs ==
  ASSUME Typed, NEW c \in Calls, StoreFails(c)
  PROVE  \/ Ended(c) /\ call[c].op = "send"
         \/ /\ Only(c) /\ call[c].op = "sync"
            /\ Has(call'[c], "sync", "state", call[c].todo, call[c].next, call[c].missed, {},
                   Nothing, NoRow)
<1>1. ASSUME NEW q, Shaped(q), NEW e,
             e = [q EXCEPT !.pc = "state", !.ok = FALSE, !.got = {}, !.one = Nothing, !.row = NoRow]
      PROVE  Has(e, q.op, "state", q.todo, q.next, q.missed, {}, Nothing, NoRow)
  BY <1>1 DEF Shaped, Has
<1>2. Functional /\ Shaped(call[c])
  BY DEF Typed, CallTyped
<1>3. CASE call[c].op = "send"
  BY <1>2, <1>3, BecomesNoCall DEF StoreFails
<1>4. CASE call[c].op # "send"
  <2>1. call[c].op = "sync"
    BY <1>4 DEF StoreFails, Step
  <2> QED
    BY <1>1, <1>2, <1>4, <2>1, BecomesIs DEF StoreFails
<1> QED
  BY <1>3, <1>4

LEMMA ActualizeCountersIs ==
  ASSUME Typed, NEW c \in Calls, ActualizeCounters(c)
  PROVE  \/ Ended(c)
         \/ /\ Only(c)
            /\ \E p \in {"sum", "state"} :
                 Has(call'[c], call[c].op, p, call[c].todo, call[c].next, call[c].missed,
                     call[c].got, call[c].one, call[c].row)
<1>1. ASSUME NEW q, Shaped(q), NEW k, NEW e, e = [q EXCEPT !.pc = "sum", !.rounds = k]
      PROVE  Has(e, q.op, "sum", q.todo, q.next, q.missed, q.got, q.one, q.row)
  BY <1>1 DEF Shaped, Has
<1>2. ASSUME NEW q, Shaped(q), NEW e, e = [q EXCEPT !.pc = "state"]
      PROVE  Has(e, q.op, "state", q.todo, q.next, q.missed, q.got, q.one, q.row)
  BY <1>2 DEF Shaped, Has
<1>3. Functional /\ Shaped(call[c])
  BY DEF Typed, CallTyped
<1>4. CASE Becomes(c, [call[c] EXCEPT !.pc = "sum", !.rounds = @ - 1])
  BY <1>1, <1>3, <1>4, BecomesIs
<1>5. CASE Becomes(c, [call[c] EXCEPT !.pc = "state"])
  BY <1>2, <1>3, <1>5, BecomesIs
<1>6. CASE Becomes(c, NoCall)
  BY <1>3, <1>6, BecomesNoCall
<1> QED
  BY <1>4, <1>5, <1>6 DEF ActualizeCounters

(* The copy a sent message leaves, with or without its uid. *)
SentCopy(m, told) ==
  LET x == [mail |-> m, folder |-> SentFolder, uid |-> uidNext[SentFolder], seen |-> TRUE]
  IN IF told THEN x ELSE [x EXCEPT !.uid = Unknown]

LEMMA SendIs ==
  ASSUME Typed, NEW c \in Calls, NEW m, NEW told, Send(c, m, told)
  PROVE  /\ Only(c) /\ call[c].op = "send" /\ call[c].pc = "send"
         /\ Has(call'[c], "send", "find", call[c].todo, call[c].next, call[c].missed,
                {SentCopy(m, told)}, call[c].one, call[c].row)
<1>1. ASSUME NEW q, Shaped(q), NEW y, NEW e,
             e = [q EXCEPT !.pc = "find", !.rounds = 2, !.got = {y}], q.op = "send"
      PROVE  Has(e, "send", "find", q.todo, q.next, q.missed, {y}, q.one, q.row)
  BY <1>1 DEF Shaped, Has
<1>2. Functional /\ Shaped(call[c])
  BY DEF Typed, CallTyped
<1>3. call[c].op = "send" /\ call[c].pc = "send"
  BY DEF Send, Step
<1>4. Becomes(c, [call[c] EXCEPT !.pc = "find", !.rounds = 2, !.got = {SentCopy(m, told)}])
  BY DEF Send, SentCopy
<1>5. /\ Only(c)
      /\ call'[c] = [call[c] EXCEPT !.pc = "find", !.rounds = 2, !.got = {SentCopy(m, told)}]
  BY <1>2, <1>4, BecomesIs
<1> QED
  BY <1>1, <1>2, <1>3, <1>5

LEMMA InsertLinksIs ==
  ASSUME Typed, NEW c \in Calls, InsertLinks(c)
  PROVE  \/ Ended(c)
         \/ /\ Only(c)
            /\ Has(call'[c], call[c].op, "sum", call[c].todo, call[c].next, call[c].missed,
                   call[c].got, call[c].one, call[c].row)
<1>1. ASSUME NEW q, Shaped(q), NEW e, e = [q EXCEPT !.pc = "sum"]
      PROVE  Has(e, q.op, "sum", q.todo, q.next, q.missed, q.got, q.one, q.row)
  BY <1>1 DEF Shaped, Has
<1>2. Functional /\ Shaped(call[c])
  BY DEF Typed, CallTyped
<1> QED
  BY <1>1, <1>2, BecomesIs, BecomesNoCall DEF InsertLinks

(* What a call is that has just been asked for. *)
Fresh(c) ==
  /\ Only(c)
  /\ \/ \E op \in {"send", "update", "drop"}, p \in {"send", "save", "drop", "wait"} :
          Has(call'[c], op, p, <<>>, Zero, {}, {}, Nothing, NoRow)
     \/ \E op \in {"move", "mark"}, r \in Ids :
          Has(call'[c], op, "serve", <<>>, Zero, {}, {}, rows[r], r)

LEMMA AskIs ==
  ASSUME Typed, NEW c \in Calls, AskStep(c)
  PROVE  Fresh(c)
<1>0. Functional /\ Has(NoCall, "none", "idle", <<>>, Zero, {}, {}, Nothing, NoRow) /\ Shaped(NoCall)
  BY NoCallTyped DEF Typed, RowsTyped, CallTyped, Has, NoCall
<1>1. CASE AskSend(c)
  <2>1. ASSUME NEW q, Shaped(q), Has(q, "none", "idle", <<>>, Zero, {}, {}, Nothing, NoRow),
               NEW e, e = [q EXCEPT !.op = "send", !.pc = "send"]
        PROVE  Has(e, "send", "send", <<>>, Zero, {}, {}, Nothing, NoRow)
    BY <2>1 DEF Shaped, Has
  <2>2. Only(c) /\ call'[c] = [NoCall EXCEPT !.op = "send", !.pc = "send"]
    BY <1>0, <1>1, BeginIs DEF AskSend
  <2>3. Has(call'[c], "send", "send", <<>>, Zero, {}, {}, Nothing, NoRow)
    BY <1>0, <2>1, <2>2
  <2> QED
    BY <2>2, <2>3 DEF Fresh
<1>2. CASE ReadForUpdate(c)
  <2>1. ASSUME NEW q, Shaped(q), Has(q, "none", "idle", <<>>, Zero, {}, {}, Nothing, NoRow), NEW k,
               NEW e, e = [q EXCEPT !.op = "update", !.pc = "save", !.kept = k]
        PROVE  Has(e, "update", "save", <<>>, Zero, {}, {}, Nothing, NoRow)
    BY <2>1 DEF Shaped, Has
  <2>2. Only(c) /\ \E k : call'[c] = [NoCall EXCEPT !.op = "update", !.pc = "save", !.kept = k]
    BY <1>0, <1>2, BecomesIs DEF ReadForUpdate
  <2>3. Has(call'[c], "update", "save", <<>>, Zero, {}, {}, Nothing, NoRow)
    BY <1>0, <2>1, <2>2
  <2> QED
    BY <2>2, <2>3 DEF Fresh
<1>3. CASE AskDelete(c)
  <2>1. ASSUME NEW q, Shaped(q), Has(q, "none", "idle", <<>>, Zero, {}, {}, Nothing, NoRow), NEW p,
               NEW e, e = [q EXCEPT !.op = "drop", !.pc = p]
        PROVE  Has(e, "drop", p, <<>>, Zero, {}, {}, Nothing, NoRow)
    BY <2>1 DEF Shaped, Has
  <2>2. Only(c) /\ \E p \in {"drop", "wait"} : call'[c] = [NoCall EXCEPT !.op = "drop", !.pc = p]
    BY <1>0, <1>3, BecomesIs DEF AskDelete
  <2>3. \E p \in {"drop", "wait"} : Has(call'[c], "drop", p, <<>>, Zero, {}, {}, Nothing, NoRow)
    BY <1>0, <2>1, <2>2
  <2> QED
    BY <2>2, <2>3 DEF Fresh
<1>4. ASSUME NEW r \in Ids, NEW op \in {"move", "mark"}, NEW to, NEW seen, AskThread(c, op, r, to, seen)
      PROVE  Fresh(c)
  <2>1. ASSUME NEW q, Shaped(q), Has(q, "none", "idle", <<>>, Zero, {}, {}, Nothing, NoRow),
               NEW x, NEW fs, NEW g, NEW e,
               e = [q EXCEPT !.op = op, !.pc = "serve", !.row = r, !.one = x, !.aim = fs, !.to = g,
                             !.seen = seen]
        PROVE  Has(e, op, "serve", <<>>, Zero, {}, {}, x, r)
    BY <2>1 DEF Shaped, Has
  <2> DEFINE new == [NoCall EXCEPT !.op = op, !.pc = "serve", !.row = r, !.one = rows[r],
                                   !.aim = FoldersOf(r), !.to = Live(to), !.seen = seen]
  <2>2. Has(new, op, "serve", <<>>, Zero, {}, {}, rows[r], r)
    BY <1>0, <2>1
  <2>3. Only(c) /\ call'[c] = new
    BY <1>0, <1>4, BeginIs DEF AskThread
  <2> QED
    BY <2>2, <2>3 DEF Fresh
<1> QED
  BY <1>1, <1>2, <1>3, <1>4 DEF AskStep

------------------------------------------------------------------------------
(* Layer 3: what a uid identifies *)

Same(x, y) == x.mail = y.mail /\ x.folder = y.folder /\ x.uid = y.uid
Filed(x) == x.folder \in Folders /\ uidNext[x.folder] <= x.uid /\ x.uid < uidNext'[x.folder]

LEMMA CopiesTyped ==
  ASSUME Typed
  PROVE  /\ \A x \in Copies : x \in AnyCopy \/ x = Nothing
         /\ server \subseteq Copies /\ \A r \in Ids : rows[r] \in Copies
         /\ \A c \in Calls : /\ call[c].got \subseteq Copies /\ call[c].missed \subseteq Copies
                             /\ call[c].one \in Copies
BY DEF Typed, RowsTyped, CallTyped, Copies, ServerCopy, AnyCopy

(* A step adds copies the server has just filed, copies of copies, and     *)
(* copies without a uid.                                                   *)
LEMMA CopiesStep ==
  ASSUME Typed, Typed', UidOnce,
         \A f \in Folders : uidNext[f] <= uidNext'[f],
         \A x \in Copies' : x.uid = Unknown \/ Filed(x) \/ \E y \in Copies : Same(x, y),
         \A x, y \in Copies' : Filed(x) /\ Filed(y) => Agree(x, y)
  PROVE  UidOnce'
<1>1. \A f \in Folders : uidNext[f] \in Nat /\ uidNext'[f] \in Nat
  BY DEF Typed, RowsTyped
<1>2. ASSUME NEW y \in Copies, y.uid # Unknown
      PROVE  y.folder \in Folders /\ y.uid \in Nat /\ y.uid < uidNext[y.folder]
  BY <1>2, CopiesTyped DEF AnyCopy, Nothing, UidOnce
<1>3. ASSUME NEW x \in Copies', x.uid # Unknown PROVE x.uid < uidNext'[x.folder]
  BY <1>1, <1>2, <1>3 DEF Same, Filed
<1>4. ASSUME NEW x \in Copies', NEW y \in Copies', x.uid # Unknown, x.uid = y.uid,
             x.folder = y.folder
      PROVE  x.mail = y.mail
  <2>1. CASE Filed(x)
    <3>1. Filed(y)
      BY <1>1, <1>2, <1>4, <2>1 DEF Same, Filed
    <3> QED
      BY <1>4, <2>1, <3>1 DEF Agree
  <2>2. CASE \E z \in Copies : Same(x, z)
    <3>1. PICK z \in Copies : Same(x, z)
      BY <2>2
    <3>2. z.uid # Unknown /\ z.folder \in Folders /\ z.uid < uidNext[z.folder] /\ z.uid \in Nat
      BY <1>2, <1>4, <3>1 DEF Same
    <3>3. ~Filed(y)
      BY <1>1, <1>4, <3>1, <3>2 DEF Filed, Same
    <3>4. PICK w \in Copies : Same(y, w)
      BY <1>4, <3>3
    <3> QED
      BY <1>4, <3>1, <3>2, <3>4 DEF UidOnce, Agree, Same
  <2> QED
    BY <1>4, <2>1, <2>2
<1> QED
  BY <1>3, <1>4 DEF UidOnce, Agree

(* A step of call c that only takes copies that are there. *)
Takes(c) ==
  /\ Only(c) /\ UNCHANGED <<server, uidNext>>
  /\ \A r \in Ids' : \E y \in Copies : Same(rows'[r], y)
  /\ \A x \in call'[c].got \cup call'[c].missed \cup {call'[c].one} :
       x = Nothing \/ \E y \in Copies : Same(x, y)

LEMMA TakesStep ==
  ASSUME Typed, Typed', UidOnce, NEW c \in Calls, Takes(c)
  PROVE  UidOnce'
<1>1. \A f \in Folders : uidNext[f] <= uidNext'[f]
  BY DEF Takes, Typed, RowsTyped
<1>2. \A x \in Copies : Same(x, x)
  BY DEF Same
<1>3. ASSUME NEW x \in Copies' PROVE x = Nothing \/ \E y \in Copies : Same(x, y)
  <2>1. CASE x \in server'
    BY <1>2, <2>1, CopiesTyped DEF Takes
  <2>2. ASSUME NEW r \in Ids', x = rows'[r] PROVE \E y \in Copies : Same(x, y)
    BY <2>2 DEF Takes
  <2>3. ASSUME NEW d \in Calls, x \in call'[d].got \cup call'[d].missed \cup {call'[d].one}
        PROVE  x = Nothing \/ \E y \in Copies : Same(x, y)
    <3>1. CASE d = c
      BY <2>3, <3>1 DEF Takes
    <3>2. CASE d # c
      BY <1>2, <2>3, <3>2, CopiesTyped DEF Takes, Only
    <3> QED
      BY <3>1, <3>2
  <2> QED
    BY <2>1, <2>2, <2>3 DEF Copies
<1>4. ASSUME NEW x \in Copies', Filed(x) PROVE FALSE
  <2>1. uidNext[x.folder] \in Nat /\ uidNext' = uidNext /\ x.folder \in Folders
    BY <1>4 DEF Filed, Takes, Typed, RowsTyped
  <2>2. x = Nothing \/ x \in AnyCopy
    BY CopiesTyped, <1>3, <1>4 DEF Same, Copies, Typed, RowsTyped, CallTyped, ServerCopy, AnyCopy
  <2> QED
    BY <1>4, <2>1, <2>2 DEF Filed, AnyCopy, Nothing, Unknown
<1> QED
  BY <1>1, <1>3, <1>4, CopiesStep DEF Nothing

LEMMA TakesHas ==
  ASSUME Typed, NEW c \in Calls, Only(c), UNCHANGED <<server, uidNext, rows>>,
         call'[c].got \subseteq Copies, call'[c].missed \subseteq Copies,
         call'[c].one \in Copies \cup {Nothing}
  PROVE  Takes(c)
BY CopiesTyped DEF Takes, Same, Ids

LEMMA EndedTakes ==
  ASSUME Typed, NEW c \in Calls, Ended(c), UNCHANGED <<server, uidNext, rows>>
  PROVE  Takes(c)
BY TakesHas DEF Ended, Has

LEMMA SyncTakes ==
  ASSUME Typed, NEW c \in Calls, SyncStep(c), ~UpdateState(c)
  PROVE  Takes(c)
<1>0. call[c].got \subseteq Copies /\ call[c].missed \subseteq Copies /\ call[c].one \in Copies
  BY CopiesTyped
<1>1. CASE Connect(c)
  BY <1>0, <1>1, ConnectIs, TakesHas DEF Connect, Has, serverVars, rowVars
<1>2. CASE SyncFails(c)
  BY <1>0, <1>2, SyncFailsIs, TakesHas DEF SyncFails, Has, serverVars, rowVars
<1>3. ASSUME NEW f \in Folders, NEW answer, answer \subseteq InBox(f), Search(c, f, answer)
      PROVE  Takes(c)
  <2>1. InBox(f) \subseteq Copies
    BY CopiesTyped DEF InBox
  <2>2. UNCHANGED <<server, uidNext, rows>>
    BY <1>3 DEF Search, serverVars, rowVars
  <2>3. /\ Only(c) /\ call'[c].got \subseteq Copies /\ call'[c].missed \subseteq Copies
        /\ call'[c].one \in Copies
    <3>1. /\ Only(c) /\ call'[c].got = call[c].got \cup answer /\ call'[c].one = call[c].one
          /\ call'[c].missed = call[c].missed \cup Unseen(c, f, answer)
      <4>1. /\ Only(c)
            /\ Has(call'[c], "sync", IF Tail(call[c].todo) = <<>> THEN "cursor" ELSE "fetch",
                   Tail(call[c].todo), [call[c].next EXCEPT ![f] = UidTo(c, f)],
                   call[c].missed \cup Unseen(c, f, answer), call[c].got \cup answer,
                   call[c].one, call[c].row)
        BY <1>3, SearchIs
      <4> QED
        BY <4>1 DEF Has
    <3>2. Unseen(c, f, answer) \subseteq InBox(f)
      BY DEF Unseen
    <3> QED
      BY <1>0, <1>3, <2>1, <3>1, <3>2
  <2> QED
    BY <2>2, <2>3, TakesHas
<1>4. CASE UpdateSyncInfo(c)
  BY <1>0, <1>4, UpdateSyncInfoIs, TakesHas DEF UpdateSyncInfo, Has, serverVars, rowVars
<1>5. CASE ProcessExternal(c)
  BY <1>0, <1>5, ProcessExternalIs, TakesHas DEF ProcessExternal, Has, serverVars, rowVars
<1> QED
  BY <1>1, <1>2, <1>3, <1>4, <1>5, AnswerIs DEF SyncStep, ProcessFolder, SearchTimesOut

LEMMA StoreTakes ==
  ASSUME Typed, NEW c \in Calls, StoreStep(c)
  PROVE  Takes(c)
<1>0. call[c].got \subseteq Copies /\ call[c].missed \subseteq Copies /\ call[c].one \in Copies
  BY CopiesTyped
<1>1. CASE FindMessage(c)
  BY <1>0, <1>1, FindMessageIs, TakesHas DEF FindMessage, Has, serverVars, rowVars
<1>2. CASE WriteMessage(c)
  <2>1. UNCHANGED <<server, uidNext>>
    BY <1>2 DEF WriteMessage, serverVars
  <2>2. ASSUME NEW r \in Ids' PROVE rows'[r] \in Copies
    BY <1>0, <1>2, <2>2, CopiesTyped DEF WriteMessage, Ids
  <2> QED
    BY <1>0, <1>2, <2>1, <2>2, WriteMessageIs DEF Takes, Has, Same
<1>3. CASE LinkMessage(c)
  BY <1>0, <1>3, LinkMessageIs, TakesHas DEF LinkMessage, Has, serverVars, rowVars
<1>4. CASE StoreFails(c)
  BY <1>0, <1>4, StoreFailsIs, TakesHas DEF StoreFails, Has, Ended, serverVars, rowVars
<1>5. CASE SumCounters(c)
  BY <1>0, <1>5, SumCountersIs, TakesHas DEF SumCounters, Has, serverVars, rowVars
<1>6. CASE ActualizeCounters(c)
  BY <1>0, <1>6, ActualizeCountersIs, TakesHas DEF ActualizeCounters, Has, Ended, serverVars, rowVars
<1> QED
  BY <1>1, <1>2, <1>3, <1>4, <1>5, <1>6 DEF StoreStep

LEMMA UserTakes ==
  ASSUME Typed, NEW c \in Calls,
         \/ SendKeepsNothing(c) \/ ServerRefuses(c) \/ DeleteLinks(c) \/ InsertLinks(c)
         \/ MarkSeen(c) \/ Delete(c) \/ SaveUpdate(c) \/ UpdateFails(c)
         \/ \E since : Update(c, since)
  PROVE  Takes(c)
<1>0. /\ call[c].got \subseteq Copies /\ call[c].missed \subseteq Copies /\ call[c].one \in Copies
      /\ Functional
  BY CopiesTyped DEF Typed
<1>1. CASE SendKeepsNothing(c)
  BY <1>0, <1>1, BecomesNoCall, EndedTakes DEF SendKeepsNothing, serverVars, rowVars
<1>2. CASE ServerRefuses(c)
  BY <1>0, <1>2, BecomesNoCall, EndedTakes DEF ServerRefuses, serverVars, rowVars
<1>3. CASE DeleteLinks(c)
  BY <1>0, <1>3, DeleteLinksIs, TakesHas DEF DeleteLinks, Unlink, Has, serverVars
<1>4. CASE InsertLinks(c)
  BY <1>0, <1>4, InsertLinksIs, TakesHas DEF InsertLinks, Has, Ended, serverVars
<1>5. CASE MarkSeen(c)
  <2>1. UNCHANGED <<server, uidNext>>
    BY <1>5 DEF MarkSeen, Mark, serverVars
  <2>2. ASSUME NEW r \in Ids' PROVE r \in Ids /\ Same(rows'[r], rows[r])
    BY <1>5, <2>2 DEF MarkSeen, Mark, Ids, Same, Typed, RowsTyped, AnyCopy
  <2> QED
    BY <1>0, <1>5, <2>1, <2>2, MarkSeenIs, CopiesTyped DEF Takes, Has, Same
<1>6. CASE Delete(c)
  <2>1. UNCHANGED <<server, uidNext>> /\ Ids' = {}
    BY <1>6 DEF Delete, serverVars, Ids
  <2> QED
    BY <1>0, <1>6, <2>1, BecomesNoCall DEF Delete, Takes, Ended, Has
<1>7. ASSUME NEW since, Update(c, since) PROVE Takes(c)
  <2>1. UNCHANGED <<server, uidNext, rows>>
    BY <1>7 DEF Update, serverVars, rowVars
  <2>2. CASE Becomes(c, NoCall)
    BY <1>0, <2>1, <2>2, BecomesNoCall, EndedTakes
  <2>3. ASSUME NEW full, Becomes(c, Request(full, since)) PROVE Takes(c)
    BY <1>0, <2>1, <2>3, BecomesIs, RequestHas, TakesHas DEF Has
  <2> QED
    BY <1>7, <2>2, <2>3 DEF Update
<1>8. CASE SaveUpdate(c)
  BY <1>0, <1>8, SaveUpdateIs, TakesHas DEF SaveUpdate, Has, serverVars, rowVars
<1>9. CASE UpdateFails(c)
  BY <1>0, <1>9, BecomesNoCall, EndedTakes DEF UpdateFails, serverVars, rowVars
<1> QED
  BY <1>1, <1>2, <1>3, <1>4, <1>5, <1>6, <1>7, <1>8, <1>9

(* The copies of the calls are there, and the row copies: what is left is  *)
(* the server.                                                             *)
LEMMA FiledStep ==
  ASSUME Typed, Typed', UidOnce, NEW c \in Calls, NEW New,
         rows' = rows, \A f \in Folders : uidNext[f] <= uidNext'[f],
         \A d \in Calls \ {c} : call'[d] = call[d],
         \A x \in server' \cup call'[c].got \cup call'[c].missed \cup {call'[c].one} :
           x.uid = Unknown \/ x \in New \/ \E y \in Copies : Same(x, y),
         \A x \in New : Filed(x), \A x, y \in New : Agree(x, y)
  PROVE  UidOnce'
<1>1. \A x \in Copies : Same(x, x)
  BY DEF Same
<1>2. ASSUME NEW x \in Copies'
      PROVE  x.uid = Unknown \/ x \in New \/ \E y \in Copies : Same(x, y)
  <2>1. CASE x \in server'
    BY <2>1
  <2>2. ASSUME NEW r \in Ids', x = rows'[r] PROVE \E y \in Copies : Same(x, y)
    BY <1>1, <2>2, CopiesTyped DEF Ids
  <2>3. ASSUME NEW d \in Calls, x \in call'[d].got \cup call'[d].missed \cup {call'[d].one}
        PROVE  x.uid = Unknown \/ x \in New \/ \E y \in Copies : Same(x, y)
    <3>1. CASE d = c
      BY <2>3, <3>1
    <3>2. CASE d # c
      BY <1>1, <2>3, <3>2, CopiesTyped
    <3> QED
      BY <3>1, <3>2
  <2> QED
    BY <2>1, <2>2, <2>3 DEF Copies
<1>3. ASSUME NEW x \in Copies', Filed(x) PROVE x \in New
  <2>1. uidNext[x.folder] \in Nat \ {0} /\ x.folder \in Folders
    BY <1>3 DEF Filed, Typed, RowsTyped
  <2>2. x = Nothing \/ x \in AnyCopy
    BY CopiesTyped, <1>3 DEF Copies, Typed, RowsTyped, CallTyped, ServerCopy, AnyCopy
  <2>3. x.uid # Unknown
    BY <1>3, <2>1, <2>2 DEF Filed, Unknown
  <2>4. ASSUME NEW y \in Copies, Same(x, y) PROVE FALSE
    <3>1. y.uid < uidNext[y.folder]
      BY <2>3, <2>4 DEF UidOnce, Same
    <3> QED
      BY <1>3, <2>1, <2>2, <2>4, <3>1 DEF Same, Filed, AnyCopy, Nothing, Unknown
  <2> QED
    BY <1>2, <2>3, <2>4
<1>4. \A x \in Copies' : x.uid = Unknown \/ Filed(x) \/ \E y \in Copies : Same(x, y)
  BY <1>2
<1>5. \A x, y \in Copies' : Filed(x) /\ Filed(y) => Agree(x, y)
  BY <1>3
<1> QED
  BY <1>4, <1>5, CopiesStep

LEMMA ArriveUid ==
  ASSUME Typed, Typed', UidOnce, NEW m \in Mails, Arrive(m)
  PROVE  UidOnce'
<1> DEFINE x == [mail |-> m, folder |-> Inbox, uid |-> uidNext[Inbox], seen |-> FALSE]
<1>1. /\ uidNext[Inbox] \in Nat \ {0} /\ uidNext' = [uidNext EXCEPT ![Inbox] = @ + 1]
      /\ Inbox \in Folders /\ uidNext \in [Folders -> Nat \ {0}]
  BY MailSyncAssumption DEF Arrive, Typed, RowsTyped
<1>2. Filed(x) /\ Agree(x, x)
  BY <1>1 DEF Filed, Agree
<1> HIDE DEF x
<1>3. server' = server \cup {x} /\ rows' = rows /\ call' = call
  BY DEF Arrive, x, rowVars
<1>4. \A f \in Folders : uidNext[f] <= uidNext'[f]
  BY <1>1
<1>5. ASSUME NEW y \in Copies' PROVE y \in Copies \cup {x}
  BY <1>3 DEF Copies, Ids
<1>6. \A y \in Copies' : y = x \/ \E z \in Copies : Same(y, z)
  BY <1>5 DEF Same
<1>7. ASSUME NEW y \in Copies, Filed(y) PROVE FALSE
  <2>1. y = Nothing \/ y \in AnyCopy
    BY CopiesTyped
  <2>2. uidNext[y.folder] \in Nat \ {0}
    BY <1>1, <1>7 DEF Filed
  <2> QED
    BY <1>7, <2>1, <2>2 DEF Filed, UidOnce, AnyCopy, Nothing, Unknown
<1>8. \A y, z \in Copies' : Filed(y) /\ Filed(z) => Agree(y, z)
  BY <1>2, <1>5, <1>7
<1> QED
  BY <1>2, <1>4, <1>6, <1>8, CopiesStep

LEMMA SendUid ==
  ASSUME Typed, Typed', UidOnce, NEW c \in Calls, NEW m \in Mails, NEW told \in BOOLEAN, Send(c, m, told)
  PROVE  UidOnce'
<1> DEFINE x == SentCopy(m, TRUE)
           y == SentCopy(m, told)
<1>1. /\ uidNext[SentFolder] \in Nat \ {0} /\ uidNext' = [uidNext EXCEPT ![SentFolder] = @ + 1]
      /\ SentFolder \in Folders /\ uidNext \in [Folders -> Nat \ {0}]
  BY MailSyncAssumption DEF Send, CanSend, Live, Typed, RowsTyped
<1>2. Filed(x) /\ Agree(x, x) /\ (y = x \/ y.uid = Unknown)
  BY <1>1 DEF Filed, Agree, SentCopy
<1>3. server' = server \cup {x} /\ rows' = rows
  BY DEF Send, SentCopy, rowVars
<1>4. \A f \in Folders : uidNext[f] <= uidNext'[f]
  BY <1>1
<1>5. /\ Only(c) /\ call'[c].got = {y} /\ call'[c].missed = call[c].missed
      /\ call'[c].one = call[c].one
  BY SendIs DEF Has
<1> HIDE DEF x, y
<1>6. ASSUME NEW z \in server' \cup call'[c].got \cup call'[c].missed \cup {call'[c].one}
      PROVE  z.uid = Unknown \/ z \in {x} \/ \E w \in Copies : Same(z, w)
  BY <1>2, <1>3, <1>5, CopiesTyped DEF Same
<1> QED
  BY <1>2, <1>3, <1>4, <1>5, <1>6, FiledStep DEF Only

LEMMA FlagsUid ==
  ASSUME Typed, Typed', UidOnce, NEW c \in Calls, ChangeFlags(c)
  PROVE  UidOnce'
<1>1. /\ Only(c) /\ call'[c].got = call[c].got /\ call'[c].missed = call[c].missed
      /\ call'[c].one = call[c].one
  BY ChangeFlagsIs DEF Has
<1>2. rows' = rows /\ uidNext' = uidNext
  BY DEF ChangeFlags, rowVars
<1>3. ASSUME NEW x \in server PROVE Same([x EXCEPT !.seen = call[c].seen], x)
  BY DEF Same, Typed, RowsTyped, ServerCopy
<1>4. ASSUME NEW z \in server' PROVE \E w \in Copies : Same(z, w)
  <2>1. CASE z \in server
    BY <2>1, CopiesTyped DEF Same
  <2>2. ASSUME NEW x \in Aimed(c), z = [x EXCEPT !.seen = call[c].seen]
        PROVE  \E w \in Copies : Same(z, w)
    BY <1>3, <2>2, CopiesTyped DEF Aimed
  <2> QED
    BY <1>4, <2>1, <2>2 DEF ChangeFlags
<1>5. ASSUME NEW z \in server' \cup call'[c].got \cup call'[c].missed \cup {call'[c].one}
      PROVE  \E w \in Copies : Same(z, w)
  BY <1>1, <1>4, CopiesTyped DEF Same
<1>6. \A f \in Folders : uidNext[f] <= uidNext'[f]
  BY <1>2 DEF Typed, RowsTyped
<1> DEFINE New == {}
<1>7. \A z \in server' \cup call'[c].got \cup call'[c].missed \cup {call'[c].one} :
        z.uid = Unknown \/ z \in New \/ \E w \in Copies : Same(z, w)
  BY <1>5
<1>8. /\ \A x \in New : Filed(x)
      /\ \A x, y \in New : Agree(x, y)
      /\ \A d \in Calls \ {c} : call'[d] = call[d]
  BY <1>1 DEF Only
<1> HIDE DEF New
<1> QED
  BY <1>2, <1>6, <1>7, <1>8, FiledStep

LEMMA MoveUid ==
  ASSUME Typed, Typed', UidOnce, NEW c \in Calls, MoveMessages(c)
  PROVE  UidOnce'
<1>1. /\ Only(c) /\ call'[c].got = call[c].got /\ call'[c].missed = call[c].missed
      /\ call'[c].one = call[c].one
  BY MoveMessagesIs DEF Has
<1>2. rows' = rows
  BY DEF MoveMessages, rowVars
<1>3. CASE UNCHANGED <<server, uidNext>>
  BY <1>1, <1>2, <1>3, CopiesTyped, TakesHas, TakesStep
<1>4. ASSUME Moves(c), NEW uid \in [Aimed(c) -> Uid],
             {uid[x] : x \in Aimed(c)} =
               uidNext[call[c].to]..(uidNext[call[c].to] + Cardinality(Aimed(c)) - 1),
             server' = (server \ Aimed(c)) \cup {Moved(x, c, uid) : x \in Aimed(c)},
             uidNext' = [uidNext EXCEPT ![call[c].to] = @ + Cardinality(Aimed(c))]
      PROVE  UidOnce'
  <2> DEFINE New == {Moved(x, c, uid) : x \in Aimed(c)}
             u == uidNext[call[c].to]
             n == Cardinality(Aimed(c))
             T == u..(u + n - 1)
  <2>1. call[c].to \in Folders /\ u \in Nat \ {0} /\ uidNext \in [Folders -> Nat \ {0}]
    BY <1>4, MailSyncAssumption DEF Moves, Typed, RowsTyped, CallTyped
  <2>2. IsFiniteSet(Aimed(c)) /\ n \in Nat
    <3>1. IsFiniteSet(server) /\ Aimed(c) \in SUBSET server
      BY DEF Typed, RowsTyped, Aimed
    <3> QED
      BY <3>1, FS_Subset, FS_CardinalityType
  <2>3. Cardinality(T) = n
    <3> HIDE DEF n, u
    <3>1. u \in Int /\ u + n - 1 \in Int
      BY <2>1, <2>2
    <3>2. Cardinality(T) = IF u > u + n - 1 THEN 0 ELSE (u + n - 1) - u + 1
      BY <3>1, FS_Interval
    <3> QED
      BY <2>1, <2>2, <3>2
  <2>4. uid \in Surjection(Aimed(c), T)
    <3> HIDE DEF T
    <3>1. {uid[x] : x \in Aimed(c)} = T /\ DOMAIN uid = Aimed(c)
      BY <1>4 DEF T
    <3>2. uid \in [Aimed(c) -> T] /\ \A t \in T : \E x \in Aimed(c) : uid[x] = t
      BY <1>4, <3>1
    <3> QED
      BY <3>2 DEF Surjection
  <2>5. \A x, y \in Aimed(c) : uid[x] = uid[y] => x = y
    <3>1. uid \in Injection(Aimed(c), T)
      BY <2>2, <2>3, <2>4, FS_Surjection
    <3> QED
      BY <3>1 DEF Injection, IsInjective
  <2>6. ASSUME NEW x \in Aimed(c)
        PROVE  /\ Moved(x, c, uid).folder = call[c].to /\ Moved(x, c, uid).uid = uid[x]
               /\ u <= uid[x] /\ uid[x] < u + n
    <3>1. x \in ServerCopy /\ uid[x] \in T
      BY <1>4 DEF Aimed, Typed, RowsTyped
    <3> QED
      BY <2>1, <2>2, <3>1 DEF ServerCopy, Moved
  <2>7. /\ uidNext'[call[c].to] = u + n
        /\ \A f \in Folders : uidNext[f] <= uidNext'[f]
    BY <1>4, <2>1, <2>2
  <2>8. ASSUME NEW z \in New PROVE Filed(z)
    BY <2>1, <2>6, <2>7 DEF Filed
  <2>9. ASSUME NEW y \in New, NEW z \in New PROVE Agree(y, z)
    BY <2>5, <2>6 DEF Agree
  <2>10. server' \subseteq server \cup New
    BY <1>4
  <2> HIDE DEF New
  <2>11. \A z \in server' \cup call'[c].got \cup call'[c].missed \cup {call'[c].one} :
           z.uid = Unknown \/ z \in New \/ \E w \in Copies : Same(z, w)
    BY <1>1, <2>10, CopiesTyped DEF Same
  <2> QED
    BY <1>1, <1>2, <2>7, <2>8, <2>9, <2>11, FiledStep DEF Only
<1> QED
  BY <1>3, <1>4 DEF MoveMessages, Moved

LEMMA UidNext ==
  ASSUME Typed, Typed', UidOnce, [Next]_vars
  PROVE  UidOnce'
<1>1. ASSUME NEW c \in Calls, Takes(c) PROVE UidOnce'
  BY <1>1, TakesStep
<1>2. ASSUME NEW c \in Calls, SyncStep(c) \/ StoreStep(c), ~UpdateState(c) PROVE UidOnce'
  BY <1>1, <1>2, SyncTakes, StoreTakes
<1>3. ASSUME UNCHANGED <<server, uidNext>>, Copies' \subseteq Copies \cup {Nothing} PROVE UidOnce'
  <2>1. \A x \in Copies' : x \in Copies \/ x.uid = Unknown
    BY <1>3 DEF Nothing
  <2>2. Nothing.uid = Unknown
    BY DEF Nothing
  <2> QED
    BY <1>3, <2>1, <2>2 DEF UidOnce, Agree
<1>4. ASSUME NEW c \in Calls, UpdateState(c) PROVE UidOnce'
  <2>1. UNCHANGED <<server, uidNext, rows>>
    BY <1>4 DEF UpdateState, serverVars, rowVars
  <2>2. ASSUME NEW d \in Calls
        PROVE  call'[d].got \cup call'[d].missed \cup {call'[d].one} \subseteq Copies \cup {Nothing}
    BY <1>4, UpdateStateIs, CopiesTyped DEF Has
  <2> QED
    BY <1>3, <2>1, <2>2 DEF Copies, Ids
<1>5. CASE Restart
  <2>1. UNCHANGED <<server, uidNext, rows>>
    BY <1>5 DEF Restart, serverVars, rowVars
  <2>2. ASSUME NEW d \in Calls
        PROVE  call'[d].got \cup call'[d].missed \cup {call'[d].one} \subseteq Copies \cup {Nothing}
    BY <1>5 DEF Restart, NoCall
  <2> QED
    BY <1>3, <2>1, <2>2 DEF Copies, Ids
<1>6. ASSUME NEW c \in Calls, UserStep(c) PROVE UidOnce'
  BY <1>1, <1>6, UserTakes, SendUid, MoveUid, FlagsUid DEF UserStep
<1>7. ASSUME NEW c \in Calls, AskStep(c) PROVE UidOnce'
  <2>1. UNCHANGED <<server, uidNext, rows>>
    BY <1>7 DEF AskStep, AskSend, ReadForUpdate, AskDelete, AskThread, serverVars, rowVars
  <2>2. Takes(c)
    BY <1>7, <2>1, AskIs, TakesHas, CopiesTyped DEF Fresh, Has
  <2> QED
    BY <1>1, <2>2
<1>8. ASSUME NEW c \in Calls, Synchronize(c) PROVE UidOnce'
  <2>1. UNCHANGED <<server, uidNext, rows>> /\ Functional
    BY <1>8 DEF Synchronize, Cron, serverVars, rowVars, Typed
  <2>2. Only(c) /\ call'[c] = Request(FALSE, "today")
    BY <1>8, <2>1, BeginIs DEF Synchronize, Cron
  <2>3. Takes(c)
    BY <2>1, <2>2, RequestHas, TakesHas DEF Has
  <2> QED
    BY <1>1, <2>3
<1>9. CASE Create \/ SaveSettings \/ SoftDelete \/ UNCHANGED vars
  <2>1. UNCHANGED <<server, uidNext, rows, call>>
    BY <1>9 DEF Create, SaveSettings, SoftDelete, vars, serverVars, rowVars
  <2> QED
    BY <1>3, <2>1 DEF Copies, Ids
<1> QED
  BY <1>2, <1>4, <1>5, <1>6, <1>7, <1>8, <1>9, ArriveUid DEF Next, Continue, SyncStep

(* Only a call that moves or flags messages takes a copy from the server. *)
LEMMA ServerNext ==
  ASSUME [Next]_vars
  PROVE  server \subseteq server' \/ \E c \in Calls : MoveMessages(c) \/ ChangeFlags(c)
<1>1. ASSUME NEW c \in Calls, SyncStep(c) \/ StoreStep(c) PROVE server' = server
  BY <1>1 DEF SyncStep, StoreStep, Connect, SyncFails, ProcessFolder, SearchTimesOut, Search,
              UpdateSyncInfo, ProcessExternal, UpdateState, FindMessage, WriteMessage,
              LinkMessage, StoreFails, SumCounters, ActualizeCounters, serverVars
<1>2. ASSUME NEW c \in Calls, UserStep(c), ~MoveMessages(c), ~ChangeFlags(c)
      PROVE  server \subseteq server'
  BY <1>2 DEF UserStep, Send, SendKeepsNothing, ServerRefuses, DeleteLinks, Unlink, InsertLinks,
              MarkSeen, Mark, SaveUpdate, UpdateFails,
              Update, Delete, serverVars
<1>3. ASSUME NEW c \in Calls, AskStep(c) \/ Synchronize(c) PROVE server' = server
  BY <1>3 DEF AskStep, AskSend, ReadForUpdate, AskDelete, AskThread, Synchronize, Cron, serverVars
<1>4. ASSUME NEW m, Arrive(m) PROVE server \subseteq server'
  BY <1>4 DEF Arrive
<1>5. CASE Create \/ SaveSettings \/ SoftDelete \/ Restart \/ UNCHANGED vars
  BY <1>5 DEF Create, SaveSettings, SoftDelete, Restart, vars, serverVars
<1> QED
  BY <1>1, <1>2, <1>3, <1>4, <1>5 DEF Next, Continue

LEMMA TouchesStep ==
  ASSUME Typed, UidOnce, [Next]_vars, NEW c \in Calls, call[c].pc = "serve", call'[c] # call[c],
         NEW x \in server \ server'
  PROVE  x.mail = call[c].one.mail \/ x.folder \in call[c].aim \ {call[c].one.folder}
<1>1. PICK d \in Calls : MoveMessages(d) \/ ChangeFlags(d)
  BY ServerNext
<1>2. d = c
  BY <1>1, MoveMessagesIs, ChangeFlagsIs DEF Only
<1>3. Addressed(c) /\ x \in Aimed(c)
  BY <1>1, <1>2 DEF MoveMessages, ChangeFlags
<1>4. x \in Copies /\ call[c].one \in Copies
  BY CopiesTyped
<1> QED
  BY <1>3, <1>4 DEF Addressed, Aimed, UidOnce, Agree

------------------------------------------------------------------------------
(* Layer 4: the links of a row *)

(* Nothing is forgotten that has happened. *)
Grows == (overlapped => overlapped') /\ outgoing \subseteq outgoing' /\ skipped \subseteq skipped'

LEMMA GrowsNext ==
  ASSUME [Next]_vars
  PROVE  Grows
<1>0. UNCHANGED <<overlapped, outgoing, skipped>> => Grows
  BY DEF Grows
<1>1. ASSUME NEW c \in Calls, SyncStep(c), ~UpdateSyncInfo(c) PROVE Grows
  BY <1>0, <1>1 DEF SyncStep, Connect, SyncFails, ProcessFolder, SearchTimesOut, Search,
                    ProcessExternal, UpdateState, ghostVars
<1>2. ASSUME NEW c \in Calls, UpdateSyncInfo(c) \/ StoreFails(c) PROVE Grows
  BY <1>2 DEF UpdateSyncInfo, StoreFails, Grows
<1>3. ASSUME NEW c \in Calls, StoreStep(c), ~StoreFails(c) PROVE Grows
  BY <1>0, <1>3 DEF StoreStep, FindMessage, WriteMessage, LinkMessage, SumCounters,
                    ActualizeCounters, ghostVars
<1>4. ASSUME NEW c \in Calls, UserStep(c), \A m, told : ~Send(c, m, told), \A since : ~Update(c, since)
      PROVE  Grows
  BY <1>0, <1>4 DEF UserStep, SendKeepsNothing, MoveMessages, ChangeFlags, ServerRefuses,
                    DeleteLinks, Unlink, InsertLinks, MarkSeen, Mark, SaveUpdate, UpdateFails,
                    Delete, ghostVars
<1>5. ASSUME NEW c \in Calls, NEW m, NEW told, Send(c, m, told) PROVE Grows
  BY <1>5 DEF Send, Grows
<1>6. ASSUME NEW c \in Calls, NEW since, Update(c, since) PROVE Grows
  BY <1>6 DEF Update, Grows
<1>7. ASSUME NEW c \in Calls, NEW new, Begin(c, new), UNCHANGED <<outgoing, skipped>> PROVE Grows
  BY <1>7 DEF Begin, Grows
<1>8. ASSUME NEW c \in Calls, AskStep(c) \/ Synchronize(c) PROVE Grows
  <2>1. CASE AskSend(c) \/ Synchronize(c)
    BY <1>7, <2>1 DEF AskSend, Synchronize, Cron
  <2>2. CASE ReadForUpdate(c) \/ AskDelete(c)
    BY <1>0, <2>2 DEF ReadForUpdate, AskDelete, ghostVars
  <2>3. ASSUME NEW op, NEW r, NEW to, NEW seen, AskThread(c, op, r, to, seen) PROVE Grows
    BY <1>7, <2>3 DEF AskThread
  <2> QED
    BY <1>8, <2>1, <2>2, <2>3 DEF AskStep
<1>9. ASSUME NEW m, Arrive(m) PROVE Grows
  BY <1>0, <1>9 DEF Arrive, ghostVars
<1>10. CASE Create \/ SaveSettings \/ SoftDelete \/ Restart \/ UNCHANGED vars
  BY <1>10 DEF Create, SaveSettings, SoftDelete, Restart, vars, Grows, ghostVars
<1> QED
  BY <1>1, <1>2, <1>3, <1>4, <1>5, <1>6, <1>8, <1>9, <1>10 DEF Next, Continue

(* A step of call c after which it neither writes nor links, and stores no *)
(* message it has not stored before.                                       *)
Calm(c) ==
  /\ Only(c) /\ call'[c].pc \notin {"write", "link", "relink"}
  /\ call'[c].op = "send" =>
       \/ call[c].op = "send" /\ call'[c].got \subseteq call[c].got
       \/ call'[c].got = {}

LEMMA EndedCalm ==
  ASSUME NEW c \in Calls, Ended(c)
  PROVE  Calm(c)
BY DEF Ended, Has, Calm

LEMMA SyncCalm ==
  ASSUME Typed, NEW c \in Calls, SyncStep(c), ~UpdateState(c)
  PROVE  Calm(c)
<1>1. CASE Connect(c)
  BY <1>1, ConnectIs DEF Has, Calm
<1>2. CASE SyncFails(c)
  BY <1>2, SyncFailsIs DEF Has, Calm
<1>3. ASSUME NEW f \in Folders, NEW answer, Search(c, f, answer) PROVE Calm(c)
  <2>1. Only(c) /\ call'[c].pc \in {"cursor", "fetch"} /\ call'[c].op = "sync"
    BY <1>3, SearchIs DEF Has
  <2> QED
    BY <2>1 DEF Calm
<1>4. CASE UpdateSyncInfo(c)
  BY <1>4, UpdateSyncInfoIs DEF Has, Calm
<1>5. CASE ProcessExternal(c)
  BY <1>5, ProcessExternalIs DEF Has, Calm
<1> QED
  BY <1>1, <1>2, <1>3, <1>4, <1>5 DEF SyncStep, ProcessFolder, SearchTimesOut

LEMMA StoreCalm ==
  ASSUME Typed, NEW c \in Calls, StoreStep(c), ~FindMessage(c), ~WriteMessage(c)
  PROVE  Calm(c)
<1>1. CASE LinkMessage(c)
  BY <1>1, LinkMessageIs DEF Has, Calm
<1>2. CASE StoreFails(c)
  BY <1>2, StoreFailsIs, EndedCalm DEF Has, Calm
<1>3. CASE SumCounters(c)
  BY <1>3, SumCountersIs DEF Has, Calm
<1>4. CASE ActualizeCounters(c)
  BY <1>4, ActualizeCountersIs, EndedCalm DEF Has, Calm
<1> QED
  BY <1>1, <1>2, <1>3, <1>4 DEF StoreStep

LEMMA UserCalm ==
  ASSUME Typed, NEW c \in Calls, UserStep(c), ~DeleteLinks(c),
         \A m \in Mails, told \in BOOLEAN : ~Send(c, m, told)
  PROVE  Calm(c)
<1>0. Functional
  BY DEF Typed
<1>1. CASE SendKeepsNothing(c)
  BY <1>0, <1>1, BecomesNoCall, EndedCalm DEF SendKeepsNothing
<1>2. CASE MoveMessages(c)
  BY <1>2, MoveMessagesIs DEF Has, Calm
<1>3. CASE ChangeFlags(c)
  BY <1>3, ChangeFlagsIs DEF Has, Calm
<1>4. CASE ServerRefuses(c)
  BY <1>0, <1>4, BecomesNoCall, EndedCalm DEF ServerRefuses
<1>5. CASE InsertLinks(c)
  BY <1>5, InsertLinksIs, EndedCalm DEF Has, Calm
<1>6. CASE MarkSeen(c)
  BY <1>6, MarkSeenIs DEF Has, Calm
<1>7. ASSUME NEW since, Update(c, since) PROVE Calm(c)
  <2>1. CASE Becomes(c, NoCall)
    BY <1>0, <2>1, BecomesNoCall, EndedCalm
  <2>2. ASSUME NEW full, Becomes(c, Request(full, since)) PROVE Calm(c)
    BY <1>0, <2>2, BecomesIs, RequestHas DEF Has, Calm
  <2> QED
    BY <1>7, <2>1, <2>2 DEF Update
<1>8. CASE Delete(c)
  BY <1>0, <1>8, BecomesNoCall, EndedCalm DEF Delete
<1>9. CASE SaveUpdate(c)
  BY <1>9, SaveUpdateIs DEF Has, Calm
<1>10. CASE UpdateFails(c)
  BY <1>0, <1>10, BecomesNoCall, EndedCalm DEF UpdateFails
<1> QED
  BY <1>1, <1>2, <1>3, <1>4, <1>5, <1>6, <1>7, <1>8, <1>9, <1>10 DEF UserStep

LEMMA AskCalm ==
  ASSUME Typed, NEW c \in Calls, AskStep(c) \/ Synchronize(c)
  PROVE  Calm(c)
<1>1. CASE AskStep(c)
  BY <1>1, AskIs DEF Fresh, Has, Calm
<1>2. CASE Synchronize(c)
  <2>1. Only(c) /\ call'[c] = Request(FALSE, "today")
    BY <1>2, BeginIs DEF Synchronize, Cron, Typed
  <2> QED
    BY <2>1, RequestHas DEF Has, Calm
<1> QED
  BY <1>1, <1>2

(* The steps of a handler that change the links of a row. *)
LinkStep(c) == WriteMessage(c) \/ LinkMessage(c) \/ DeleteLinks(c) \/ InsertLinks(c) \/ Delete(c)

LEMMA LinksNext ==
  ASSUME [Next]_vars, \A c \in Calls : ~LinkStep(c)
  PROVE  links' = links
<1>1. ASSUME NEW c \in Calls, SyncStep(c) PROVE links' = links
  BY <1>1 DEF SyncStep, Connect, SyncFails, ProcessFolder, SearchTimesOut, Search,
              UpdateSyncInfo, ProcessExternal, UpdateState, rowVars
<1>2. ASSUME NEW c \in Calls, StoreStep(c), ~LinkStep(c) PROVE links' = links
  BY <1>2 DEF StoreStep, LinkStep, FindMessage, StoreFails, SumCounters, ActualizeCounters, rowVars
<1>3. ASSUME NEW c \in Calls, UserStep(c), ~LinkStep(c) PROVE links' = links
  BY <1>3 DEF UserStep, LinkStep, Send, SendKeepsNothing, MoveMessages, ChangeFlags,
              ServerRefuses, MarkSeen, Mark, SaveUpdate, UpdateFails,
              Update, rowVars
<1>4. ASSUME NEW c \in Calls, AskStep(c) \/ Synchronize(c) PROVE links' = links
  BY <1>4 DEF AskStep, AskSend, ReadForUpdate, AskDelete, AskThread, Synchronize, Cron, rowVars
<1>5. ASSUME NEW m, Arrive(m) PROVE links' = links
  BY <1>5 DEF Arrive, rowVars
<1>6. CASE Create \/ SaveSettings \/ SoftDelete \/ Restart \/ UNCHANGED vars
  BY <1>6 DEF Create, SaveSettings, SoftDelete, Restart, vars, rowVars
<1> QED
  BY <1>1, <1>2, <1>3, <1>4, <1>5, <1>6 DEF Next, Continue

LEMMA OneLinkNext ==
  ASSUME Typed, Apart, OneLink, [Next]_vars
  PROVE  OneLink'
<1>0. /\ overlapped => overlapped'
      /\ \A c \in Calls : call[c].pc \in {"link", "relink"} => Storing(c)
  BY GrowsNext DEF Grows, Typed, CallTyped, Storing
<1>1. ASSUME NEW c \in Calls, Only(c), links' \subseteq links,
             \A f \in Folders : call'[c].pc \in {"link", "relink"} => <<call'[c].row, f>> \notin links'
      PROVE  OneLink'
  BY <1>0, <1>1 DEF Only, OneLink
<1>2. ASSUME NEW c \in Calls, Calm(c), links' \subseteq links PROVE OneLink'
  BY <1>1, <1>2 DEF Calm
<1>3. ASSUME NEW c \in Calls, Calm(c), call[c].pc \in {"link", "relink"}, NEW g,
             links' = links \cup {<<call[c].row, g>>}
      PROVE  OneLink'
  <2>1. ASSUME ~overlapped', NEW d \in Calls PROVE call'[d].pc \notin {"link", "relink"}
    BY <1>0, <1>3, <2>1 DEF Calm, Only, Apart
  <2>2. ASSUME ~overlapped', NEW r \in Nat, NEW e \in Folders, NEW f \in Folders,
               <<r, e>> \in links', <<r, f>> \in links'
        PROVE  e = f
    BY <1>0, <1>3, <2>2 DEF OneLink
  <2> QED
    BY <2>1, <2>2 DEF OneLink
<1>4. ASSUME NEW c \in Calls, LinkStep(c) PROVE OneLink'
  <2>1. CASE WriteMessage(c)
    <3>1. links' \subseteq links /\ \A f : <<call'[c].row, f>> \notin links'
      <4>1. call'[c].row = IF call[c].row = NoRow THEN nextId ELSE call[c].row
        BY <2>1, WriteMessageIs DEF Has
      <4> QED
        BY <2>1, <4>1 DEF WriteMessage
    <3> QED
      BY <1>1, <2>1, <3>1, WriteMessageIs
  <2>2. CASE LinkMessage(c)
    <3>1. /\ call[c].pc = "link" /\ Calm(c)
          /\ links' = links \/ links' = links \cup {<<call[c].row, call[c].one.folder>>}
      BY <2>2, StoreCalm DEF LinkMessage, Link, Step, StoreStep, FindMessage, WriteMessage
    <3> QED
      BY <1>2, <1>3, <3>1
  <2>3. CASE DeleteLinks(c)
    <3>1. call'[c].row = call[c].row /\ links' = {l \in links : l[1] # call[c].row}
      BY <2>3, DeleteLinksIs DEF DeleteLinks, Unlink, Has
    <3> QED
      BY <1>1, <2>3, <3>1, DeleteLinksIs
  <2>4. CASE InsertLinks(c)
    <3>1. /\ call[c].pc = "relink" /\ Calm(c)
          /\ links' = links \/ links' = links \cup {<<call[c].row, call[c].to>>}
      BY <2>4, UserCalm DEF InsertLinks, Step, UserStep, DeleteLinks, Unlink, Send
    <3> QED
      BY <1>2, <1>3, <3>1
  <2>5. CASE Delete(c)
    <3>1. Calm(c) /\ links' = {}
      BY <2>5, BecomesNoCall, EndedCalm DEF Delete, Typed
    <3> QED
      BY <1>2, <3>1
  <2> QED
    BY <1>4, <2>1, <2>2, <2>3, <2>4, <2>5 DEF LinkStep
<1>5. ASSUME \A c \in Calls : ~LinkStep(c) PROVE OneLink'
  <2>0. links' = links
    BY <1>5, LinksNext
  <2>1. ASSUME NEW c \in Calls, SyncStep(c), ~UpdateState(c) PROVE OneLink'
    BY <1>2, <2>0, <2>1, SyncCalm
  <2>2. ASSUME NEW c \in Calls, UpdateState(c) PROVE OneLink'
    BY <1>0, <2>0, <2>2, UpdateStateIs DEF OneLink, Has
  <2>3. ASSUME NEW c \in Calls, FindMessage(c) PROVE OneLink'
    BY <1>1, <2>0, <2>3, FindMessageIs DEF Has
  <2>4. ASSUME NEW c \in Calls, NEW m, NEW told, Send(c, m, told) PROVE OneLink'
    BY <1>1, <2>0, <2>4, SendIs DEF Has
  <2>5. ASSUME NEW c \in Calls, Continue(c) PROVE OneLink'
    BY <1>2, <1>5, <2>0, <2>1, <2>2, <2>3, <2>4, <2>5, StoreCalm, UserCalm DEF Continue, LinkStep
  <2>6. ASSUME NEW c \in Calls, AskStep(c) \/ Synchronize(c) PROVE OneLink'
    BY <1>2, <2>0, <2>6, AskCalm
  <2>7. CASE Restart
    BY <2>0, <2>7, <1>0 DEF Restart, OneLink, NoCall
  <2>8. ASSUME call' = call PROVE OneLink'
    BY <1>0, <2>0, <2>8 DEF OneLink
  <2> QED
    BY <2>5, <2>6, <2>7, <2>8
       DEF Next, Arrive, Create, SaveSettings, SoftDelete, vars
<1> QED
  BY <1>4, <1>5

LEMMA InOneFolderIs ==
  ASSUME Typed, OneLink
  PROVE  InOneFolder
<1> SUFFICES ASSUME ~overlapped, NEW r \in Ids PROVE Cardinality(FoldersOf(r)) <= 1
  BY DEF InOneFolder
<1>1. CASE FoldersOf(r) = {}
  BY <1>1, FS_EmptySet
<1>2. CASE FoldersOf(r) # {}
  <2>1. PICK f \in Folders : <<r, f>> \in links
    BY <1>2 DEF FoldersOf
  <2>2. FoldersOf(r) = {f}
    BY <2>1 DEF FoldersOf, OneLink, Typed, RowsTyped
  <2> QED
    BY <2>2, FS_Singleton
<1> QED
  BY <1>1, <1>2

------------------------------------------------------------------------------
(* Layer 5: the row of a message *)

(* The steps of a handler that change the rows. *)
RowStep(c) == WriteMessage(c) \/ MarkSeen(c) \/ Delete(c)

LEMMA RowsNext ==
  ASSUME [Next]_vars, \A c \in Calls : ~RowStep(c)
  PROVE  rows' = rows /\ nextId' = nextId
<1>1. ASSUME NEW c \in Calls, SyncStep(c) PROVE UNCHANGED <<rows, nextId>>
  BY <1>1 DEF SyncStep, Connect, SyncFails, ProcessFolder, SearchTimesOut, Search,
              UpdateSyncInfo, ProcessExternal, UpdateState, rowVars
<1>2. ASSUME NEW c \in Calls, StoreStep(c), ~RowStep(c) PROVE UNCHANGED <<rows, nextId>>
  BY <1>2 DEF StoreStep, RowStep, FindMessage, LinkMessage, StoreFails, SumCounters,
              ActualizeCounters, rowVars
<1>3. ASSUME NEW c \in Calls, UserStep(c), ~RowStep(c) PROVE UNCHANGED <<rows, nextId>>
  BY <1>3 DEF UserStep, RowStep, Send, SendKeepsNothing, MoveMessages, ChangeFlags,
              ServerRefuses, DeleteLinks, Unlink, InsertLinks, SaveUpdate, UpdateFails,
              Update, rowVars
<1>4. ASSUME NEW c \in Calls, AskStep(c) \/ Synchronize(c) PROVE UNCHANGED <<rows, nextId>>
  BY <1>4 DEF AskStep, AskSend, ReadForUpdate, AskDelete, AskThread, Synchronize, Cron, rowVars
<1>5. ASSUME NEW m, Arrive(m) PROVE UNCHANGED <<rows, nextId>>
  BY <1>5 DEF Arrive, rowVars
<1>6. CASE Create \/ SaveSettings \/ SoftDelete \/ Restart \/ UNCHANGED vars
  BY <1>6 DEF Create, SaveSettings, SoftDelete, Restart, vars, rowVars
<1> QED
  BY <1>1, <1>2, <1>3, <1>4, <1>5, <1>6 DEF Next, Continue

(* The rows that are left keep their messages. *)
SameMails == Ids' \subseteq Ids /\ \A r \in Ids' : rows'[r].mail = rows[r].mail

LEMMA OnceStep ==
  ASSUME Once, Grows, SameMails, NEW c \in Calls, Only(c),
         call'[c].op = "send" => MailsOf(call'[c].got) \subseteq outgoing', Writes(c)'
  PROVE  Once'
<1>1. \A m : Stored(m)' => Stored(m)
  BY DEF SameMails, Stored
<1>2. StoredOnce'
  BY DEF Once, StoredOnce, SameMails, Grows
<1>3. ASSUME NEW d \in Calls
      PROVE  call'[d].op = "send" => MailsOf(call'[d].got) \subseteq outgoing'
  BY DEF Only, Once, Grows
<1>4. ASSUME NEW d \in Calls, d # c PROVE Writes(d)'
  <2>1. call'[d] = call[d] /\ Writes(d)
    BY <1>4 DEF Only, Once
  <2> QED
    BY <1>1, <2>1 DEF Writes, SameMails, Grows, Raced
<1> QED
  BY <1>2, <1>3, <1>4 DEF Once

LEMMA OnceCalm ==
  ASSUME Once, Grows, SameMails, NEW c \in Calls, Calm(c)
  PROVE  Once'
<1>1. call'[c].op = "send" => MailsOf(call'[c].got) \subseteq outgoing'
  BY DEF Calm, Once, Grows, MailsOf
<1> QED
  BY <1>1, OnceStep DEF Calm, Writes

LEMMA FindOnce ==
  ASSUME Typed, UidOnce, Once, Grows, SameMails, rows' = rows, NEW c \in Calls, FindMessage(c)
  PROVE  Once'
<1>1. PICK x \in call[c].got : \E r \in IF Known(x) = {} THEN {NoRow} ELSE Known(x) :
        Has(call'[c], call[c].op, "write", call[c].todo, call[c].next, call[c].missed,
            call[c].got, x, r)
  BY FindMessageIs
<1>2. PICK r \in IF Known(x) = {} THEN {NoRow} ELSE Known(x) :
        Has(call'[c], call[c].op, "write", call[c].todo, call[c].next, call[c].missed,
            call[c].got, x, r)
  BY <1>1
<1>3. r \in Ids => rows[r].mail = x.mail
  <2>1. ASSUME r \in Known(x) PROVE rows[r].mail = x.mail
    <3>1. x \in Copies /\ rows[r] \in Copies
      BY <2>1, CopiesTyped DEF Known
    <3> QED
      BY <2>1, <3>1 DEF Known, UidOnce, Agree
  <2> QED
    BY <1>2, <2>1 DEF Typed, RowsTyped, NoRow
<1>4. r = NoRow => ~Stored(x.mail)
  BY <1>2 DEF Known, Stored, Typed, RowsTyped, NoRow
<1>5. Writes(c)'
  BY <1>2, <1>3, <1>4 DEF Has, Writes, Stored, Ids
<1>6. Only(c) /\ (call'[c].op = "send" => MailsOf(call'[c].got) \subseteq outgoing')
  BY <1>2, FindMessageIs DEF Has, Once, Grows
<1> QED
  BY <1>5, <1>6, OnceStep

(* A message is written: into the row found for it, or into a new one.     *)
LEMMA WriteOnce ==
  ASSUME Typed, Apart, Once, Grows, NEW c \in Calls, WriteMessage(c)
  PROVE  Once'
<1> DEFINE m == call[c].one.mail
           row == IF call[c].row = NoRow THEN nextId ELSE call[c].row
           StoredThen(n) == \E r \in Ids' : rows'[r].mail = n
           RacedThen(n) == overlapped' /\ n \in outgoing'
<1>0. /\ call[c].pc = "write" /\ call[c].op \in {"sync", "send"}
      /\ Writes(c) /\ call[c].one \in call[c].got
  BY DEF WriteMessage, Step, Once, Typed, CallTyped
<1>1. /\ Ids' = IF call[c].row = NoRow THEN Ids \cup {nextId} ELSE Ids
      /\ nextId \notin Ids /\ NoRow \notin Ids
      /\ \A i \in Ids' : rows'[i] = IF i = row THEN call[c].one ELSE rows[i]
  BY DEF WriteMessage, Ids, Typed, RowsTyped, NoRow
<1>2. /\ \A i \in Ids : rows'[i].mail = rows[i].mail
      /\ \A i \in Ids' \ Ids : i = nextId /\ call[c].row = NoRow /\ rows'[i].mail = m
  BY <1>0, <1>1 DEF Writes
<1> HIDE DEF m, row
<1>3. ASSUME NEW n, StoredThen(n) PROVE Stored(n) \/ (call[c].row = NoRow /\ n = m)
  <2>1. PICK r \in Ids' : rows'[r].mail = n
    BY <1>3
  <2> QED
    BY <1>2, <2>1 DEF Stored
<1>4. ASSUME NEW n, Raced(n) PROVE RacedThen(n)
  BY <1>4 DEF Raced, Grows
<1>5. call[c].row = NoRow /\ Stored(m) => Raced(m)
  BY <1>0 DEF Writes, m
<1>6. StoredOnce'
  <2> SUFFICES ASSUME NEW r \in Ids', NEW s \in Ids', rows'[r].mail = rows'[s].mail, r # s
               PROVE  RacedThen(rows'[r].mail)
    BY DEF StoredOnce
  <2>1. CASE r \in Ids /\ s \in Ids
    BY <1>2, <1>4, <2>1 DEF Once, StoredOnce, Raced
  <2>2. CASE r \notin Ids \/ s \notin Ids
    <3>1. call[c].row = NoRow /\ rows'[r].mail = m /\ Stored(m)
      BY <1>2, <2>2 DEF Stored
    <3> QED
      BY <1>4, <1>5, <3>1
  <2> QED
    BY <2>1, <2>2
<1>7. /\ Only(c) /\ call'[c].pc = "link" /\ call'[c].got = call[c].got /\ call'[c].op = call[c].op
  BY WriteMessageIs DEF Has
<1>8. ASSUME NEW d \in Calls
      PROVE  call'[d].op = "send" => MailsOf(call'[d].got) \subseteq outgoing'
  BY <1>7 DEF Only, Once, Grows
<1>9. ASSUME NEW d \in Calls PROVE Writes(d)'
  <2>1. CASE d = c
    BY <1>7, <2>1 DEF Writes
  <2>2. CASE d # c
    <3> SUFFICES ASSUME call[d].pc = "write"
                 PROVE  /\ call[d].row \in Ids' => rows'[call[d].row].mail = call[d].one.mail
                        /\ call[d].row = NoRow /\ StoredThen(call[d].one.mail) => RacedThen(call[d].one.mail)
      <4>1. call'[d] = call[d]
        BY <1>7, <2>2 DEF Only
      <4> QED
        BY <4>1 DEF Writes, Stored, Raced
    <3>1. /\ call[d].op \in {"sync", "send"} /\ call[d].one \in call[d].got
          /\ call[d].row < nextId /\ call[d].row \in Nat /\ nextId \in Nat /\ Writes(d)
      BY DEF Typed, CallTyped, RowsTyped, Once
    <3>2. call[d].row \in Ids' => rows'[call[d].row].mail = call[d].one.mail
      BY <1>2, <3>1 DEF Writes
    <3>3. ASSUME call[d].row = NoRow, StoredThen(call[d].one.mail) PROVE RacedThen(call[d].one.mail)
      <4>1. CASE Stored(call[d].one.mail)
        BY <1>4, <3>1, <3>3, <4>1 DEF Writes
      <4>2. CASE call[d].one.mail = m
        <5>1. overlapped
          BY <1>0, <2>2, <3>1 DEF Apart, Storing
        <5>2. call[c].op = "send" \/ call[d].op = "send"
          BY <1>0, <2>2, <3>1 DEF Apart
        <5>3. m \in outgoing
          BY <1>0, <3>1, <4>2, <5>2 DEF Once, MailsOf, m
        <5> QED
          BY <1>4, <4>2, <5>1, <5>3 DEF Raced
      <4> QED
        BY <1>3, <3>3, <4>1, <4>2
    <3> QED
      BY <3>2, <3>3
  <2> QED
    BY <2>1, <2>2
<1> QED
  BY <1>6, <1>8, <1>9 DEF Once

LEMMA OnceNext ==
  ASSUME Typed, Apart, UidOnce, Once, [Next]_vars
  PROVE  Once'
<1>0. Grows
  BY GrowsNext
<1>1. ASSUME NEW c \in Calls, MarkSeen(c) \/ Delete(c) PROVE Once'
  <2>1. SameMails
    <3>1. CASE MarkSeen(c)
      <4>1. ASSUME NEW r \in Ids' PROVE r \in Ids /\ rows'[r].mail = rows[r].mail
        BY <3>1, <4>1 DEF MarkSeen, Mark, Ids, Typed, RowsTyped, AnyCopy
      <4> QED
        BY <4>1 DEF SameMails
    <3>2. CASE Delete(c)
      BY <3>2 DEF Delete, SameMails, Ids
    <3> QED
      BY <1>1, <3>1, <3>2
  <2>2. Calm(c)
    <3>1. CASE MarkSeen(c)
      BY <3>1, MarkSeenIs DEF Has, Calm
    <3>2. CASE Delete(c)
      BY <3>2, BecomesNoCall, EndedCalm DEF Delete, Typed
    <3> QED
      BY <1>1, <3>1, <3>2
  <2> QED
    BY <1>0, <2>1, <2>2, OnceCalm
<1>2. ASSUME \A c \in Calls : ~RowStep(c) PROVE Once'
  <2>0. rows' = rows /\ SameMails
    BY <1>2, RowsNext DEF SameMails, Ids
  <2>1. ASSUME NEW c \in Calls, SyncStep(c), ~UpdateState(c) PROVE Once'
    BY <1>0, <2>0, <2>1, SyncCalm, OnceCalm
  <2>2. ASSUME call' = call PROVE Once'
    BY <1>0, <2>0, <2>2 DEF Once, StoredOnce, Writes, Stored, Raced, Grows, Ids
  <2>3. ASSUME NEW c \in Calls, UpdateState(c) PROVE Once'
    <3>1. StoredOnce'
      BY <1>0, <2>0 DEF Once, StoredOnce, Grows, Ids
    <3>2. ASSUME NEW d \in Calls PROVE call'[d].op = "send" => MailsOf(call'[d].got) \subseteq outgoing'
      BY <1>0, <2>3, UpdateStateIs DEF Once, Grows, Has
    <3>3. ASSUME NEW d \in Calls PROVE Writes(d)'
      <4>1. \/ call'[d].pc # "write"
            \/ call[d].pc = "write" /\ call'[d].row = call[d].row /\ call'[d].one = call[d].one
        BY <2>3, UpdateStateIs DEF Has
      <4> QED
        BY <1>0, <2>0, <4>1 DEF Once, Writes, Stored, Raced, Grows, Ids
    <3> QED
      BY <3>1, <3>2, <3>3 DEF Once
  <2>4. ASSUME NEW c \in Calls, DeleteLinks(c) PROVE Once'
    <3>1. Only(c) /\ call'[c].op = call[c].op /\ call'[c].got = call[c].got /\ call'[c].pc = "relink"
      BY <2>4, DeleteLinksIs DEF Has
    <3>2. call'[c].op = "send" => MailsOf(call'[c].got) \subseteq outgoing'
      BY <1>0, <3>1 DEF Once, Grows
    <3> QED
      BY <1>0, <2>0, <3>1, <3>2, OnceStep DEF Writes
  <2>5. ASSUME NEW c \in Calls, NEW m \in Mails, NEW told \in BOOLEAN, Send(c, m, told) PROVE Once'
    <3>1. Only(c) /\ call'[c].got = {SentCopy(m, told)} /\ call'[c].pc = "find"
      BY <2>5, SendIs DEF Has
    <3>2. SentCopy(m, told).mail = m /\ m \in outgoing'
      BY <2>5 DEF SentCopy, Send
    <3>3. MailsOf(call'[c].got) \subseteq outgoing'
      BY <3>1, <3>2 DEF MailsOf
    <3> QED
      BY <1>0, <2>0, <3>1, <3>3, OnceStep DEF Writes
  <2>6. ASSUME NEW c \in Calls, UserStep(c) PROVE Once'
    BY <1>0, <2>0, <2>4, <2>5, <2>6, UserCalm, OnceCalm
  <2>7. ASSUME NEW c \in Calls, StoreStep(c) PROVE Once'
    BY <1>0, <1>2, <2>0, <2>7, StoreCalm, OnceCalm, FindOnce DEF RowStep
  <2>8. ASSUME NEW c \in Calls, AskStep(c) \/ Synchronize(c) PROVE Once'
    BY <1>0, <2>0, <2>8, AskCalm, OnceCalm
  <2>9. CASE Restart
    <3>1. StoredOnce'
      BY <1>0, <2>0 DEF Once, StoredOnce, Grows, Ids
    <3>2. \A c \in Calls : call'[c].op = "none" /\ call'[c].pc = "idle"
      BY <2>9 DEF Restart, NoCall
    <3> QED
      BY <3>1, <3>2 DEF Once, Writes
  <2> QED
    BY <2>1, <2>2, <2>3, <2>6, <2>7, <2>8, <2>9
       DEF Next, Continue, SyncStep, Arrive, Create, SaveSettings, SoftDelete, vars
<1> QED
  BY <1>0, <1>1, <1>2, WriteOnce DEF RowStep

------------------------------------------------------------------------------
(* Layer 6: what the sync info leaves behind *)

(* What the server files gets a uid that no sync info has reached. *)
LEMMA ServerFiled ==
  ASSUME Typed, Typed', [Next]_vars
  PROVE  /\ \A f \in Folders : uidNext[f] <= uidNext'[f]
         /\ \A x \in server' : /\ x.folder \in Folders
                               /\ uidNext[x.folder] <= x.uid \/ \E y \in server : Same(x, y)
<1>0. /\ \A x \in server' : x.folder \in Folders
      /\ \A f \in Folders : uidNext[f] \in Nat \ {0}
      /\ uidNext \in [Folders -> Nat \ {0}]
  BY DEF Typed, RowsTyped, ServerCopy
<1>1. CASE UNCHANGED <<server, uidNext>>
  BY <1>0, <1>1 DEF Same
<1>2. ASSUME NEW x, x.folder \in Folders, uidNext[x.folder] <= x.uid, server' = server \cup {x},
             uidNext' = [uidNext EXCEPT ![x.folder] = @ + 1]
      PROVE  /\ \A f \in Folders : uidNext[f] <= uidNext'[f]
             /\ \A z \in server' : uidNext[z.folder] <= z.uid \/ \E y \in server : Same(z, y)
  BY <1>0, <1>2 DEF Same
<1>3. ASSUME NEW m, Arrive(m)
      PROVE  /\ \A f \in Folders : uidNext[f] <= uidNext'[f]
             /\ \A z \in server' : uidNext[z.folder] <= z.uid \/ \E y \in server : Same(z, y)
  <2>1. Inbox \in Folders
    BY MailSyncAssumption
  <2> DEFINE x == [mail |-> m, folder |-> Inbox, uid |-> uidNext[Inbox], seen |-> FALSE]
  <2>2. /\ server' = server \cup {x} /\ uidNext' = [uidNext EXCEPT ![x.folder] = @ + 1]
        /\ x.folder \in Folders /\ uidNext[x.folder] <= x.uid
    BY <1>0, <1>3, <2>1 DEF Arrive
  <2> HIDE DEF x
  <2> QED
    BY <1>2, <2>2
<1>4. ASSUME NEW c \in Calls, NEW m, NEW told, Send(c, m, told)
      PROVE  /\ \A f \in Folders : uidNext[f] <= uidNext'[f]
             /\ \A z \in server' : uidNext[z.folder] <= z.uid \/ \E y \in server : Same(z, y)
  <2>1. SentFolder \in Folders
    BY <1>4, MailSyncAssumption DEF Send, CanSend, Live
  <2> DEFINE x == [mail |-> m, folder |-> SentFolder, uid |-> uidNext[SentFolder], seen |-> TRUE]
  <2>2. /\ server' = server \cup {x} /\ uidNext' = [uidNext EXCEPT ![x.folder] = @ + 1]
        /\ x.folder \in Folders /\ uidNext[x.folder] <= x.uid
    BY <1>0, <1>4, <2>1 DEF Send
  <2> HIDE DEF x
  <2> QED
    BY <1>2, <2>2
<1>5. ASSUME NEW c \in Calls, ChangeFlags(c)
      PROVE  uidNext' = uidNext /\ \A z \in server' : \E y \in server : Same(z, y)
  <2>1. ASSUME NEW x \in server PROVE Same([x EXCEPT !.seen = call[c].seen], x) /\ Same(x, x)
    BY DEF Same, Typed, RowsTyped, ServerCopy
  <2> QED
    BY <1>5, <2>1 DEF ChangeFlags, Aimed
<1>6. ASSUME NEW c \in Calls, MoveMessages(c)
      PROVE  /\ \A f \in Folders : uidNext[f] <= uidNext'[f]
             /\ \A z \in server' : uidNext[z.folder] <= z.uid \/ \E y \in server : Same(z, y)
  <2>1. CASE UNCHANGED <<server, uidNext>>
    BY <1>1, <2>1
  <2>2. ASSUME Moves(c), NEW uid \in [Aimed(c) -> Uid],
               {uid[x] : x \in Aimed(c)} =
                 uidNext[call[c].to]..(uidNext[call[c].to] + Cardinality(Aimed(c)) - 1),
               server' = (server \ Aimed(c)) \cup {Moved(x, c, uid) : x \in Aimed(c)},
               uidNext' = [uidNext EXCEPT ![call[c].to] = @ + Cardinality(Aimed(c))]
        PROVE  /\ \A f \in Folders : uidNext[f] <= uidNext'[f]
               /\ \A z \in server' : uidNext[z.folder] <= z.uid \/ \E y \in server : Same(z, y)
    <3>1. call[c].to \in Folders /\ Cardinality(Aimed(c)) \in Nat
      <4>1. IsFiniteSet(server) /\ Aimed(c) \in SUBSET server
        BY DEF Typed, RowsTyped, Aimed
      <4> QED
        BY <2>2, <4>1, FS_Subset, FS_CardinalityType DEF Moves, Typed, CallTyped
    <3>2. \A f \in Folders : uidNext[f] <= uidNext'[f]
      BY <1>0, <2>2, <3>1
    <3>3. ASSUME NEW x \in Aimed(c)
          PROVE  uidNext[Moved(x, c, uid).folder] <= Moved(x, c, uid).uid
      <4>1. x \in ServerCopy /\ uidNext[call[c].to] <= uid[x]
        <5>1. uid[x] \in uidNext[call[c].to]..(uidNext[call[c].to] + Cardinality(Aimed(c)) - 1)
          BY <2>2
        <5> QED
          BY <5>1, <1>0, <3>1 DEF Aimed, Typed, RowsTyped
      <4> QED
        BY <4>1 DEF ServerCopy, Moved
    <3> QED
      BY <2>2, <3>2, <3>3 DEF Same
  <2> QED
    BY <1>6, <2>1, <2>2 DEF MoveMessages, Moved
<1>7. ASSUME NEW c \in Calls, SyncStep(c) \/ StoreStep(c) PROVE UNCHANGED <<server, uidNext>>
  BY <1>7 DEF SyncStep, StoreStep, Connect, SyncFails, ProcessFolder, SearchTimesOut, Search,
              UpdateSyncInfo, ProcessExternal, UpdateState, FindMessage, WriteMessage,
              LinkMessage, StoreFails, SumCounters, ActualizeCounters, serverVars
<1>8. ASSUME NEW c \in Calls, UserStep(c), \A m, told : ~Send(c, m, told), ~MoveMessages(c),
             ~ChangeFlags(c)
      PROVE  UNCHANGED <<server, uidNext>>
  BY <1>8 DEF UserStep, SendKeepsNothing, ServerRefuses, DeleteLinks, Unlink, InsertLinks,
              MarkSeen, Mark, SaveUpdate, UpdateFails,
              Update, Delete, serverVars
<1>9. ASSUME NEW c \in Calls, AskStep(c) \/ Synchronize(c) PROVE UNCHANGED <<server, uidNext>>
  BY <1>9 DEF AskStep, AskSend, ReadForUpdate, AskDelete, AskThread, Synchronize, Cron, serverVars
<1>10. CASE Create \/ SaveSettings \/ SoftDelete \/ Restart \/ UNCHANGED vars
  BY <1>1, <1>10 DEF Create, SaveSettings, SoftDelete, Restart, vars, serverVars
<1>11. \A f \in Folders : uidNext[f] <= uidNext[f]
  BY <1>0
<1> QED
  BY <1>0, <1>1, <1>3, <1>4, <1>5, <1>6, <1>7, <1>8, <1>9, <1>10, <1>11 DEF Next, Continue

LEMMA SettingsNext ==
  ASSUME [Next]_vars, ~SaveSettings, \A c \in Calls : ~Delete(c)
  PROVE  settings' = settings /\ (cursor' = cursor \/ \E c \in Calls : UpdateSyncInfo(c))
<1>1. ASSUME NEW c \in Calls, SyncStep(c), ~UpdateSyncInfo(c) PROVE UNCHANGED <<settings, cursor>>
  BY <1>1 DEF SyncStep, Connect, SyncFails, ProcessFolder, SearchTimesOut, Search,
              ProcessExternal, UpdateState, mailboxVars
<1>2. ASSUME NEW c \in Calls, StoreStep(c) PROVE UNCHANGED <<settings, cursor>>
  BY <1>2 DEF StoreStep, FindMessage, WriteMessage, LinkMessage, StoreFails, SumCounters,
              ActualizeCounters, mailboxVars
<1>3. ASSUME NEW c \in Calls, UserStep(c) PROVE UNCHANGED <<settings, cursor>>
  BY <1>3 DEF UserStep, Send, SendKeepsNothing, MoveMessages, ChangeFlags, ServerRefuses,
              DeleteLinks, Unlink, InsertLinks, MarkSeen, Mark, SaveUpdate, UpdateFails,
              Update, mailboxVars
<1>4. ASSUME NEW c \in Calls, AskStep(c) \/ Synchronize(c) PROVE UNCHANGED <<settings, cursor>>
  BY <1>4 DEF AskStep, AskSend, ReadForUpdate, AskDelete, AskThread, Synchronize, Cron, mailboxVars
<1>5. ASSUME NEW m, Arrive(m) PROVE UNCHANGED <<settings, cursor>>
  BY <1>5 DEF Arrive, mailboxVars
<1>6. CASE Create \/ SoftDelete \/ Restart \/ UNCHANGED vars
  BY <1>6 DEF Create, SoftDelete, Restart, vars, mailboxVars
<1>7. ASSUME NEW c \in Calls, UpdateSyncInfo(c) PROVE settings' = settings
  BY <1>7 DEF UpdateSyncInfo
<1> QED
  BY <1>1, <1>2, <1>3, <1>4, <1>5, <1>6, <1>7 DEF Next, Continue

(* Only a deleted mailbox loses a row, and a row keeps its message. *)
LEMMA RowsKept ==
  ASSUME Typed, Once, [Next]_vars, \A c \in Calls : ~Delete(c)
  PROVE  Ids \subseteq Ids' /\ \A r \in Ids : rows'[r].mail = rows[r].mail
<1>1. ASSUME NEW c \in Calls, WriteMessage(c)
      PROVE  Ids \subseteq Ids' /\ \A r \in Ids : rows'[r].mail = rows[r].mail
  <2>1. Writes(c) /\ call[c].pc = "write"
    BY <1>1 DEF WriteMessage, Step, Once
  <2>2. nextId \notin Ids
    BY DEF Typed, RowsTyped
  <2> QED
    BY <1>1, <2>1, <2>2 DEF WriteMessage, Writes, Ids
<1>2. ASSUME NEW c \in Calls, MarkSeen(c), NEW r \in Ids PROVE r \in Ids' /\ rows'[r].mail = rows[r].mail
  BY <1>2 DEF MarkSeen, Mark, Ids, Typed, RowsTyped, AnyCopy
<1>3. rows' = rows => Ids \subseteq Ids' /\ \A r \in Ids : rows'[r].mail = rows[r].mail
  BY DEF Ids
<1> QED
  BY <1>1, <1>2, <1>3, RowsNext DEF RowStep

(* What every step leaves as it is, but for Delete and SaveSettings. *)
Onward ==
  /\ settings' = settings /\ Grows
  /\ Ids \subseteq Ids' /\ \A r \in Ids : rows'[r].mail = rows[r].mail
  /\ \A f \in Folders : uidNext[f] <= uidNext'[f]
  /\ \A x \in server' : /\ x.folder \in Folders
                        /\ uidNext[x.folder] <= x.uid \/ \E y \in server : Same(x, y)

LEMMA OnwardNext ==
  ASSUME Typed, Typed', Once, [Next]_vars, ~SaveSettings, \A c \in Calls : ~Delete(c)
  PROVE  Onward
BY GrowsNext, SettingsNext, RowsKept, ServerFiled DEF Onward

LEMMA StoredKept ==
  ASSUME Onward, NEW m, Stored(m)
  PROVE  Stored(m)'
BY DEF Onward, Stored

LEMMA OthersFetched ==
  ASSUME Typed, Typed', Behind, Onward, NEW d \in Calls, call'[d] = call[d],
         cursor' = cursor \/ call[d].op # "sync"
  PROVE  Fetched(d)'
<1> SUFFICES ASSUME call[d].op = "sync" PROVE Fetched(d)'
  BY DEF Fetched
<1>0. Fetched(d) /\ cursor' = cursor /\ call[d].next \in [Folders -> Nat]
  BY DEF Behind, Typed, CallTyped
<1>1. ASSUME NEW f \in Folders, call[d].pc \in {"fetch", "cursor"} PROVE call[d].next[f] <= uidNext'[f]
  <2>1. uidNext[f] \in Nat /\ uidNext'[f] \in Nat /\ uidNext[f] <= uidNext'[f]
    BY DEF Typed, RowsTyped, Onward
  <2> QED
    BY <1>0, <1>1, <2>1 DEF Fetched
<1>2. ASSUME call[d].pc \in {"fetch", "cursor"}, HasSettings, NEW x \in server',
             \A i \in DOMAIN call[d].todo : call[d].todo[i] # x.folder, x.uid < call[d].next[x.folder]
      PROVE  x.uid < cursor[x.folder] \/ x.mail \in MailsOf(call[d].got \cup call[d].missed)
  <2>1. x.folder \in Folders /\ x.uid \in Nat /\ uidNext[x.folder] \in Nat
    BY DEF Typed, RowsTyped, ServerCopy
  <2>2. call[d].next[x.folder] <= uidNext[x.folder]
    BY <1>0, <1>2, <2>1 DEF Fetched
  <2>3. PICK y \in server : Same(x, y)
    BY <1>0, <1>2, <2>1, <2>2 DEF Onward
  <2> QED
    BY <1>0, <1>2, <2>3 DEF Fetched, Same
<1>3. HasSettings' <=> HasSettings
  BY DEF Onward, HasSettings
<1>4. HasSettings /\ call[d].pc = "link" => Stored(call[d].one.mail)
  BY <1>0 DEF Fetched
<1>5. ASSUME NEW m, Stored(m) PROVE \E r \in Ids' : rows'[r].mail = m
  BY <1>5, StoredKept DEF Stored
<1> QED
  BY <1>0, <1>1, <1>2, <1>3, <1>4, <1>5 DEF Fetched, Onward, Stored

(* What call c was going to store stays in good hands. *)
Hands(c) ==
  call[c].op = "sync" /\ call[c].pc \in Past /\ HasSettings => \A m \in MailsOf(call[c].got) : Kept(m)'

(* Of the server's copies those below the sync info stay kept. *)
LEMMA ServerKept ==
  ASSUME Typed, Typed', Behind, Onward, cursor' = cursor,
         \A d \in Calls : Hands(d) \/ call'[d] = call[d]
  PROVE  /\ ~HasSettings' => cursor' = Zero
         /\ \A f \in Folders : cursor'[f] <= uidNext'[f]
         /\ \A x \in server' : x.uid < cursor'[x.folder] => Kept(x.mail)'
<1>1. ~HasSettings' => cursor' = Zero
  BY DEF Behind, Onward, HasSettings
<1>2. ASSUME NEW f \in Folders PROVE cursor'[f] <= uidNext'[f]
  <2>1. cursor[f] \in Nat /\ uidNext[f] \in Nat /\ uidNext'[f] \in Nat
    BY DEF Typed, RowsTyped
  <2> QED
    BY <2>1 DEF Behind, Onward
<1>3. ASSUME NEW x \in server', x.uid < cursor[x.folder] PROVE Kept(x.mail)'
  <2>1. /\ x.folder \in Folders /\ x.uid \in Nat \ {0} /\ cursor[x.folder] \in Nat
        /\ uidNext[x.folder] \in Nat
    BY DEF Typed, RowsTyped, ServerCopy
  <2>2. HasSettings
    BY <1>3, <2>1 DEF Behind, Zero
  <2>3. PICK y \in server : Same(x, y)
    BY <1>3, <2>1 DEF Behind, Onward
  <2>4. Kept(x.mail)
    BY <1>3, <2>3 DEF Behind, Same
  <2>5. CASE Stored(x.mail)
    BY <2>5, StoredKept DEF Kept
  <2>6. CASE x.mail \in skipped
    BY <2>6 DEF Kept, Onward, Grows
  <2>7. ASSUME NEW d \in Calls, call[d].op = "sync", call[d].pc \in Past,
               x.mail \in MailsOf(call[d].got)
        PROVE  Kept(x.mail)'
    <3>1. CASE Hands(d)
      BY <2>2, <2>7, <3>1 DEF Hands
    <3>2. CASE call'[d] = call[d]
      BY <2>7, <3>2 DEF Kept
    <3> QED
      BY <3>1, <3>2
  <2> QED
    BY <2>4, <2>5, <2>6, <2>7 DEF Kept
<1> QED
  BY <1>1, <1>2, <1>3

LEMMA BehindStep ==
  ASSUME Typed, Typed', Behind, Onward, NEW c \in Calls, Only(c), cursor' = cursor, Hands(c),
         Fetched(c)'
  PROVE  Behind'
<1>1. \A d \in Calls : d = c \/ call'[d] = call[d]
  BY DEF Only
<1>2. \A d \in Calls : Fetched(d)'
  BY <1>1, OthersFetched
<1>3. \A d \in Calls : Hands(d) \/ call'[d] = call[d]
  BY <1>1
<1> QED
  BY <1>2, <1>3, ServerKept DEF Behind

(* A step of a call that synchronises nothing, or has just begun to. *)
LEMMA BehindOther ==
  ASSUME Typed, Typed', Behind, Onward, NEW c \in Calls, Only(c), cursor' = cursor,
         call[c].op # "sync", call'[c].op # "sync" \/ call'[c].pc = "connect"
  PROVE  Behind'
BY BehindStep DEF Hands, Fetched, Past

LEMMA ConnectBehind ==
  ASSUME Typed, Typed', Behind, Onward, NEW c \in Calls, Connect(c)
  PROVE  Behind'
<1>1. /\ Only(c) /\ call[c].pc = "connect" /\ call'[c].pc = "fetch"
      /\ call'[c].todo = Listing /\ call'[c].next = uidNext /\ HasSettings /\ cursor' = cursor
  BY ConnectIs DEF Connect, Step, Has, mailboxVars
<1>2. \A x \in server' : \E i \in DOMAIN Listing : Listing[i] = x.folder
  BY DEF Onward, Folders
<1>3. Fetched(c)'
  BY <1>1, <1>2 DEF Fetched, Onward, HasSettings
<1>4. Hands(c)
  BY <1>1 DEF Hands, Past
<1> QED
  BY <1>1, <1>3, <1>4, BehindStep

LEMMA SearchBehind ==
  ASSUME Typed, Typed', Behind, Onward, NEW c \in Calls, NEW f \in Folders, NEW answer,
         Search(c, f, answer)
  PROVE  Behind'
<1> DEFINE old == call[c]
           left == Tail(old.todo)
           got == old.got \cup answer
           missed == old.missed \cup Unseen(c, f, answer)
<1>1. /\ Only(c) /\ old.pc = "fetch" /\ old.op = "sync" /\ f = Head(old.todo)
      /\ call'[c].pc = IF left = <<>> THEN "cursor" ELSE "fetch"
      /\ call'[c].todo = left /\ call'[c].next = [old.next EXCEPT ![f] = UidTo(c, f)]
      /\ call'[c].got = got /\ call'[c].missed = missed
  <2>1. /\ Only(c) /\ call[c].pc = "fetch" /\ call[c].op = "sync" /\ f = Head(call[c].todo)
        /\ Has(call'[c], "sync", IF Tail(call[c].todo) = <<>> THEN "cursor" ELSE "fetch",
               Tail(call[c].todo), [call[c].next EXCEPT ![f] = UidTo(c, f)],
               call[c].missed \cup Unseen(c, f, answer), call[c].got \cup answer,
               call[c].one, call[c].row)
    BY SearchIs
  <2> QED
    BY <2>1 DEF Has
<1>2. cursor' = cursor /\ server' = server /\ uidNext' = uidNext
  BY DEF Search, mailboxVars, serverVars
<1>3. /\ Fetched(c) /\ old.next \in [Folders -> Nat] /\ old.todo \in Seq(Folders) /\ old.todo # <<>>
  BY <1>1 DEF Behind, Typed, CallTyped
<1>4. /\ UidTo(c, f) \in Nat /\ UidTo(c, f) <= old.next[f]
      /\ From(c, f) = 0 \/ From(c, f) = cursor[f]
  BY UidToIs DEF From
<1> HIDE DEF got, missed, left
<1>5. ASSUME NEW g \in Folders PROVE call'[c].next[g] <= uidNext'[g]
  <2>1. old.next[g] <= uidNext[g] /\ uidNext[g] \in Nat /\ old.next[g] \in Nat
    BY <1>1, <1>3 DEF Fetched, Typed, RowsTyped
  <2> QED
    BY <1>1, <1>2, <1>3, <1>4, <2>1
<1>6. ASSUME HasSettings, NEW x \in server, \A i \in DOMAIN left : left[i] # x.folder,
             x.uid < call'[c].next[x.folder]
      PROVE  x.uid < cursor[x.folder] \/ x.mail \in MailsOf(got \cup missed)
  <2>1. x.folder \in Folders /\ x.uid \in Nat \ {0}
    BY DEF Typed, RowsTyped, ServerCopy
  <2>2. CASE x.folder = f
    <3>1. x.uid < UidTo(c, f)
      BY <1>1, <1>3, <1>6, <2>2
    <3>2. CASE x.uid < From(c, f)
      BY <1>4, <2>1, <2>2, <3>2
    <3>3. CASE ~(x.uid < From(c, f))
      <4>1. x \in answer \/ x \in Unseen(c, f, answer)
        <5>1. From(c, f) \in Nat
          BY UidToIs
        <5>2. From(c, f) <= x.uid
          BY <2>1, <3>3, <5>1
        <5> QED
          BY <2>2, <3>1, <5>2 DEF Unseen, InBox
      <4> QED
        BY <4>1 DEF MailsOf, got, missed
    <3> QED
      BY <3>2, <3>3
  <2>3. CASE x.folder # f
    <3>1. ASSUME NEW i \in DOMAIN old.todo PROVE old.todo[i] # x.folder
      <4>1. i = 1 \/ (i > 1 /\ i - 1 \in DOMAIN left /\ left[i - 1] = old.todo[i])
        BY <1>3 DEF left
      <4> QED
        BY <1>1, <1>3, <1>6, <2>3, <4>1
    <3>2. x.uid < old.next[x.folder]
      BY <1>1, <1>3, <1>6, <2>1, <2>3
    <3>3. x.uid < cursor[x.folder] \/ x.mail \in MailsOf(old.got \cup old.missed)
      BY <1>1, <1>3, <1>6, <3>1, <3>2 DEF Fetched
    <3> QED
      BY <3>3 DEF MailsOf, got, missed
  <2> QED
    BY <2>2, <2>3
<1>7. settings' # "awaited" /\ (HasSettings' => HasSettings)
  BY <1>1, <1>3 DEF Fetched, Onward, HasSettings
<1>8. Fetched(c)'
  BY <1>1, <1>2, <1>5, <1>6, <1>7 DEF Fetched, Past
<1>9. Hands(c)
  BY <1>1 DEF Hands, Past
<1> QED
  BY <1>1, <1>2, <1>8, <1>9, BehindStep

(* The sync info is saved: what the searches have not returned is given    *)
(* up, what they have is in hand.                                          *)
LEMMA SyncInfoBehind ==
  ASSUME Typed, Typed', Apart, Behind, Onward, NEW c \in Calls, UpdateSyncInfo(c)
  PROVE  Behind'
<1>1. /\ Only(c) /\ call[c].pc = "cursor" /\ call[c].op = "sync"
      /\ call'[c].op = "sync" /\ call'[c].pc = "folders" /\ call'[c].got = call[c].got
  BY UpdateSyncInfoIs DEF Has
<1>2. /\ cursor' = (IF HasSettings THEN call[c].next ELSE cursor) /\ server' = server
      /\ UNCHANGED <<rows, uidNext>> /\ skipped' = skipped \cup MailsOf(call[c].missed)
      /\ settings' = settings
  BY DEF UpdateSyncInfo, serverVars, rowVars
<1>3. Fetched(c)
  BY DEF Behind
<1>4. Fetched(c)'
  BY <1>1, <1>2, <1>3 DEF Fetched
<1>5. ASSUME NEW d \in Calls PROVE Fetched(d)'
  <2>1. CASE d = c
    BY <1>4, <2>1
  <2>2. CASE d # c
    <3>1. call[d].op # "sync" /\ call'[d] = call[d]
      BY <1>1, <2>2 DEF Apart, Only
    <3> QED
      BY <3>1, OthersFetched
  <2> QED
    BY <2>1, <2>2
<1>6. ~HasSettings' => cursor' = Zero
  BY <1>2 DEF Behind, HasSettings
<1>7. ASSUME NEW f \in Folders PROVE cursor'[f] <= uidNext'[f]
  BY <1>1, <1>2, <1>3 DEF Behind, Fetched
<1>8. ASSUME NEW x \in server', x.uid < cursor'[x.folder] PROVE Kept(x.mail)'
  <2>0. x \in server /\ x.folder \in Folders /\ x.uid \in Nat \ {0}
    BY <1>2 DEF Typed, RowsTyped, ServerCopy
  <2>1. HasSettings
    BY <1>2, <1>8, <2>0 DEF Behind, Zero
  <2>2. DOMAIN call[c].todo = {}
    BY <1>1, <1>3 DEF Fetched
  <2>3. x.uid < cursor[x.folder] \/ x.mail \in MailsOf(call[c].got) \/ x.mail \in skipped'
    BY <1>1, <1>2, <1>3, <1>8, <2>0, <2>1, <2>2 DEF Fetched, MailsOf
  <2>4. CASE x.mail \in MailsOf(call[c].got)
    BY <1>1, <2>4 DEF Kept, Past
  <2>5. CASE x.mail \in skipped'
    BY <2>5 DEF Kept
  <2>6. CASE x.uid < cursor[x.folder]
    <3>1. Kept(x.mail)
      BY <2>0, <2>6 DEF Behind
    <3>2. CASE Stored(x.mail)
      BY <3>2, StoredKept DEF Kept
    <3>3. CASE x.mail \in skipped
      BY <3>3 DEF Kept, Onward, Grows
    <3>4. ASSUME NEW d \in Calls, call[d].op = "sync", call[d].pc \in Past,
                 x.mail \in MailsOf(call[d].got)
          PROVE  Kept(x.mail)'
      <4>1. d = c
        BY <1>1, <3>4 DEF Apart
      <4> QED
        BY <1>1, <3>4, <4>1 DEF Past
    <3> QED
      BY <3>1, <3>2, <3>3, <3>4 DEF Kept
  <2> QED
    BY <2>3, <2>4, <2>5, <2>6
<1> QED
  BY <1>5, <1>6, <1>7, <1>8 DEF Behind

LEMMA EndedBehind ==
  ASSUME Typed, Typed', Behind, Onward, NEW c \in Calls, Ended(c), cursor' = cursor,
         call[c].op # "sync" \/ call[c].pc \notin Past
  PROVE  Behind'
BY BehindStep DEF Ended, Has, Hands, Fetched

(* A synchronisation that has something to store is beyond its sync info. *)
LEMMA PastFetched ==
  ASSUME Behind, Onward, NEW c \in Calls, call[c].op = "sync" => call[c].pc \in Past,
         call'[c].op = call[c].op,
         \/ call'[c].pc \in {"folders", "find", "sum", "put", "state"}
         \/ call'[c].pc = "write" /\ (call'[c].row = NoRow \/ call'[c].row \in Ids')
         \/ call'[c].pc = "link" /\ (HasSettings => \E i \in Ids' : rows'[i].mail = call'[c].one.mail)
  PROVE  Fetched(c)'
BY DEF Behind, Fetched, Onward, HasSettings, Past, Stored

(* It still has what it had, or hands it over. *)
LEMMA StillHands ==
  ASSUME NEW c \in Calls, call'[c].op = call[c].op,
         call'[c].got = call[c].got, call'[c].pc \in Past
  PROVE  Hands(c)
BY DEF Hands, Kept

LEMMA SyncBehind ==
  ASSUME Typed, Typed', Apart, Behind, Onward, NEW c \in Calls, SyncStep(c), ~UpdateState(c)
  PROVE  Behind'
<1>1. CASE SyncFails(c)
  <2>1. /\ Only(c) /\ call'[c].pc = "state" /\ call[c].pc \in {"connect", "fetch", "state"}
        /\ cursor' = cursor
    BY <1>1, SyncFailsIs DEF SyncFails, Step, Has, mailboxVars
  <2>2. Hands(c) /\ Fetched(c)'
    BY <2>1 DEF Hands, Fetched, Past
  <2> QED
    BY <2>1, <2>2, BehindStep
<1>2. CASE ProcessExternal(c)
  <2>1. /\ Only(c) /\ call[c].pc = "folders" /\ call[c].op = "sync" /\ call'[c].op = "sync"
        /\ call'[c].got = call[c].got /\ cursor' = cursor
        /\ call'[c].pc = IF call[c].got = {} THEN "state" ELSE "find"
    BY <1>2, ProcessExternalIs DEF ProcessExternal, Step, Has
  <2>2. Fetched(c)'
    BY <2>1, PastFetched DEF Past
  <2>3. Hands(c)
    <3>1. CASE call[c].got = {}
      BY <3>1 DEF Hands, MailsOf
    <3>2. CASE call[c].got # {}
      BY <2>1, <3>2, StillHands DEF Past
    <3> QED
      BY <3>1, <3>2
  <2> QED
    BY <2>1, <2>2, <2>3, BehindStep
<1> QED
  BY <1>1, <1>2, ConnectBehind, SearchBehind, SyncInfoBehind
     DEF SyncStep, ProcessFolder, SearchTimesOut

LEMMA StoreBehind ==
  ASSUME Typed, Typed', Once, Behind, Onward, NEW c \in Calls, StoreStep(c)
  PROVE  Behind'
<1>0. cursor' = cursor /\ Fetched(c)
  BY DEF StoreStep, FindMessage, WriteMessage, LinkMessage, StoreFails, SumCounters,
         ActualizeCounters, mailboxVars, Behind
<1>1. CASE FindMessage(c)
  <2>1. /\ Only(c) /\ call[c].pc = "find" /\ call'[c].op = call[c].op /\ call'[c].pc = "write"
        /\ call'[c].got = call[c].got /\ call'[c].row \in Ids \cup {NoRow}
    BY <1>1, FindMessageIs DEF Has, Known
  <2>2. Hands(c) /\ Fetched(c)'
    BY <2>1, StillHands, PastFetched DEF Past, Onward
  <2> QED
    BY <1>0, <2>1, <2>2, BehindStep
<1>2. CASE WriteMessage(c)
  <2>1. /\ Only(c) /\ call[c].pc = "write" /\ call'[c].op = call[c].op /\ call'[c].pc = "link"
        /\ call'[c].got = call[c].got /\ call'[c].one = call[c].one
    BY <1>2, WriteMessageIs DEF WriteMessage, Step, Has
  <2>2. ASSUME call[c].op = "sync", HasSettings PROVE \E i \in Ids' : rows'[i].mail = call'[c].one.mail
    <3>1. call[c].row # NoRow => call[c].row \in Ids
      BY <1>0, <2>1, <2>2 DEF Fetched
    <3> DEFINE r == IF call[c].row = NoRow THEN nextId ELSE call[c].row
    <3>2. r \in Ids' /\ rows'[r] = call[c].one
      BY <1>2, <3>1 DEF WriteMessage, Ids
    <3> HIDE DEF r
    <3> QED
      BY <2>1, <3>2
  <2>3. Hands(c) /\ Fetched(c)'
    <3>1. Hands(c)
      BY <2>1, StillHands DEF Past
    <3>2. CASE call[c].op = "sync"
      BY <2>1, <2>2, <3>1, <3>2, PastFetched DEF Past
    <3>3. CASE call[c].op # "sync"
      BY <2>1, <3>1, <3>3 DEF Fetched
    <3> QED
      BY <3>2, <3>3
  <2> QED
    BY <1>0, <2>1, <2>3, BehindStep
<1>3. CASE LinkMessage(c)
  <2>1. /\ Only(c) /\ call[c].pc = "link" /\ call'[c].op = call[c].op
        /\ call'[c].got = call[c].got \ {call[c].one}
        /\ call'[c].pc = IF call[c].got \ {call[c].one} = {} THEN "sum" ELSE "find"
    BY <1>3, LinkMessageIs DEF LinkMessage, Step, Has
  <2>2. Fetched(c)'
    BY <2>1, PastFetched DEF Past
  <2>3. ASSUME call[c].op = "sync", HasSettings, NEW m \in MailsOf(call[c].got) PROVE Kept(m)'
    <3>1. CASE m = call[c].one.mail
      BY <1>0, <2>1, <2>3, <3>1, StoredKept DEF Fetched, Kept
    <3>2. CASE m # call[c].one.mail
      BY <2>1, <2>3, <3>2 DEF Kept, Past, MailsOf
    <3> QED
      BY <3>1, <3>2
  <2> QED
    BY <1>0, <2>1, <2>2, <2>3, BehindStep DEF Hands
<1>4. CASE StoreFails(c)
  <2>1. ASSUME call[c].op = "sync", NEW m \in MailsOf(call[c].got) PROVE Kept(m)'
    <3>1. m \in skipped' \/ Stored(m)
      BY <1>4, <2>1 DEF StoreFails
    <3> QED
      BY <3>1, StoredKept DEF Kept
  <2>2. Only(c) /\ (call'[c].op # "sync" \/ call'[c].pc = "state")
    BY <1>4, StoreFailsIs DEF Ended, Has
  <2>3. Hands(c) /\ Fetched(c)'
    BY <2>1, <2>2 DEF Hands, Fetched, Past
  <2> QED
    BY <1>0, <2>2, <2>3, BehindStep
<1>5. CASE SumCounters(c)
  <2>1. Only(c) /\ call[c].pc = "sum" /\ call'[c].pc = "put"
    BY <1>5, SumCountersIs DEF SumCounters, Step, Has
  <2> QED
    BY <1>0, <2>1, BehindStep DEF Hands, Fetched, Past
<1>6. CASE ActualizeCounters(c)
  <2>1. call[c].pc = "put" /\ Only(c) /\ (Ended(c) \/ call'[c].pc \in {"sum", "state"})
    BY <1>6, ActualizeCountersIs DEF ActualizeCounters, Step, Has, Ended
  <2>2. Hands(c)
    BY <2>1 DEF Hands, Past
  <2>3. Fetched(c)'
    BY <2>1 DEF Fetched, Past, Ended, Has
  <2> QED
    BY <1>0, <2>1, <2>2, <2>3, BehindStep
<1> QED
  BY <1>1, <1>2, <1>3, <1>4, <1>5, <1>6 DEF StoreStep

LEMMA UserBehind ==
  ASSUME Typed, Typed', Behind, Onward, NEW c \in Calls, UserStep(c), ~Delete(c)
  PROVE  Behind'
<1>1. cursor' = cursor /\ call[c].op # "sync"
  BY DEF UserStep, Send, SendKeepsNothing, MoveMessages, ChangeFlags, ServerRefuses,
         DeleteLinks, Unlink, InsertLinks, MarkSeen, Mark, SaveUpdate, UpdateFails,
              Update, Step, mailboxVars
<1>2. CASE Goes(c)
  BY <1>1, <1>2, BehindOther DEF Goes
<1>3. ASSUME NEW since, Update(c, since) PROVE Behind'
  <2>1. CASE Becomes(c, NoCall)
    BY <1>1, <2>1, BecomesNoCall, EndedBehind DEF Typed
  <2>2. ASSUME NEW full, Becomes(c, Request(full, since)) PROVE Behind'
    <3>1. Only(c) /\ call'[c] = Request(full, since)
      BY <2>2, BecomesIs DEF Typed
    <3> QED
      BY <1>1, <3>1, RequestHas, BehindOther DEF Has
  <2> QED
    BY <1>3, <2>1, <2>2 DEF Update
<1> QED
  BY <1>2, <1>3, UserGoes

LEMMA AskBehind ==
  ASSUME Typed, Typed', Behind, Onward, NEW c \in Calls, AskStep(c) \/ Synchronize(c)
  PROVE  Behind'
<1>0. NoCall.op = "none" /\ Functional
  BY DEF NoCall, Typed
<1>1. CASE AskStep(c)
  <2>1. cursor' = cursor
    BY <1>1 DEF AskStep, AskSend, ReadForUpdate, AskDelete, AskThread, mailboxVars
  <2> QED
    BY <1>0, <1>1, <2>1, AskBegins, BehindOther DEF Begins, Asked
<1>2. CASE Synchronize(c)
  <2>1. /\ Only(c) /\ call'[c] = Request(FALSE, "today") /\ call[c] = NoCall /\ cursor' = cursor
    BY <1>0, <1>2, BeginIs DEF Synchronize, Cron, mailboxVars
  <2> QED
    BY <1>0, <2>1, RequestHas, BehindOther DEF Has
<1> QED
  BY <1>1, <1>2

LEMMA UpdateStateBehind ==
  ASSUME Typed, Typed', Behind, Onward, NEW c \in Calls, UpdateState(c)
  PROVE  Behind'
<1>1. cursor' = cursor
  BY DEF UpdateState
<1>2. call[c].pc = "state" /\ call'[c].op = "none"
  BY UpdateStateIs DEF Has
<1>3. ASSUME NEW d \in Calls \ {c}
      PROVE  call'[d] = call[d] \/ (call'[d].pc = "drop" /\ call[d].pc = "wait")
  <2>1. ASSUME NEW q, Shaped(q) PROVE [q EXCEPT !.pc = "drop"].pc = "drop"
    BY <2>1 DEF Shaped
  <2>2. Shaped(call[d]) /\ Functional /\ call' = Released(c, call)
    BY DEF UpdateState, Typed, CallTyped
  <2>3. \/ call'[d] = call[d]
        \/ call[d].pc = "wait" /\ call'[d] = [call[d] EXCEPT !.pc = "drop"]
    BY <2>2, ReleasedIs
  <2> QED
    BY <2>1, <2>2, <2>3
<1>4. \A d \in Calls : Fetched(d)'
  BY <1>1, <1>2, <1>3, OthersFetched DEF Fetched, Past
<1>5. \A d \in Calls : Hands(d) \/ call'[d] = call[d]
  BY <1>2, <1>3 DEF Hands, Past
<1> QED
  BY <1>1, <1>4, <1>5, ServerKept DEF Behind

LEMMA RestartBehind ==
  ASSUME Typed, Typed', Behind, Onward, Restart
  PROVE  Behind'
<1>1. cursor' = cursor /\ \A d \in Calls : call'[d].op = "none"
  BY DEF Restart, mailboxVars, NoCall
<1>2. ASSUME NEW d \in Calls PROVE Hands(d)
  <2> SUFFICES ASSUME call[d].op = "sync", call[d].pc \in Past, NEW m \in MailsOf(call[d].got)
               PROVE  Kept(m)'
    BY DEF Hands
  <2>1. m \in Mails
    BY DEF MailsOf, Typed, CallTyped, AnyCopy
  <2>2. m \in skipped' \/ Stored(m)
    BY <2>1 DEF Restart, Past
  <2> QED
    BY <2>2, StoredKept DEF Kept
<1> QED
  BY <1>1, <1>2, ServerKept DEF Behind, Fetched

(* Without its settings a mailbox has no sync info. *)
LEMMA SettingsBehind ==
  ASSUME Typed, Typed', Behind, SaveSettings \/ \E c \in Calls : Delete(c)
  PROVE  Behind'
<1>0. \A x \in server : x.folder \in Folders /\ x.uid \in Nat \ {0}
  BY DEF Typed, RowsTyped, ServerCopy
<1>1. CASE SaveSettings
  <2>1. /\ settings = "awaited" /\ cursor = Zero /\ HasSettings' /\ call' = call
        /\ UNCHANGED <<server, uidNext, cursor>>
    BY <1>1 DEF SaveSettings, Behind, HasSettings, serverVars
  <2>2. ASSUME NEW c \in Calls PROVE Fetched(c)'
    <3>1. Fetched(c)
      BY DEF Behind
    <3>2. call[c].op = "sync" => call[c].pc \notin {"fetch", "cursor"} \cup Past
      BY <2>1, <3>1 DEF Fetched
    <3> QED
      BY <2>1, <3>2 DEF Fetched, Past
  <2>3. \A x \in server' : x.folder \in Folders /\ ~(x.uid < cursor'[x.folder])
    BY <1>0, <2>1 DEF Zero
  <2> QED
    BY <2>1, <2>2, <2>3 DEF Behind
<1>2. ASSUME NEW c \in Calls, Delete(c) PROVE Behind'
  <2>1. /\ Only(c) /\ call'[c].op = "none" /\ cursor' = Zero /\ settings' = "lost"
        /\ UNCHANGED <<server, uidNext>>
    BY <1>2, BecomesNoCall DEF Delete, Ended, Has, serverVars, Typed
  <2>2. ASSUME NEW d \in Calls PROVE Fetched(d)'
    BY <2>1 DEF Only, Behind, Fetched, HasSettings
  <2>3. \A f \in Folders : cursor'[f] <= uidNext'[f]
    BY <2>1 DEF Zero, Typed, RowsTyped
  <2>4. \A x \in server' : ~(x.uid < cursor'[x.folder])
    BY <1>0, <2>1 DEF Zero
  <2> QED
    BY <2>1, <2>2, <2>3, <2>4 DEF Behind
<1> QED
  BY <1>1, <1>2

LEMMA BehindNext ==
  ASSUME Typed, Typed', Apart, Once, Behind, [Next]_vars
  PROVE  Behind'
<1>1. CASE SaveSettings \/ \E c \in Calls : Delete(c)
  BY <1>1, SettingsBehind
<1>2. CASE ~SaveSettings /\ \A c \in Calls : ~Delete(c)
  <2>1. Onward
    BY <1>2, OnwardNext
  <2>2. ASSUME call' = call, cursor' = cursor PROVE Behind'
    BY <2>1, <2>2, OthersFetched, ServerKept DEF Behind
  <2>3. CASE \E m \in Mails : Arrive(m)
    BY <2>2, <2>3 DEF Arrive, mailboxVars
  <2>4. CASE Create \/ SoftDelete \/ UNCHANGED vars
    BY <2>2, <2>4 DEF Create, SoftDelete, vars, mailboxVars
  <2> QED
    BY <1>2, <2>1, <2>3, <2>4, SyncBehind, UpdateStateBehind, StoreBehind, UserBehind, AskBehind,
       RestartBehind DEF Next, Continue, SyncStep
<1> QED
  BY <1>1, <1>2

------------------------------------------------------------------------------
(* The invariant and the properties *)

MailInv == Typed /\ Apart /\ UidOnce /\ OneLink /\ Once /\ Behind

LEMMA MailInit == Init => MailInv
<1> SUFFICES ASSUME Init PROVE MailInv
  OBVIOUS
<1>1. Typed
  BY TypedInit
<1>2. /\ Ids = {} /\ server = {} /\ links = {} /\ cursor = Zero /\ settings = "awaited"
      /\ overlapped = FALSE /\ \A f \in Folders : uidNext[f] = 1
  BY DEF Init, Ids
<1>3. ASSUME NEW c \in Calls
      PROVE  /\ call[c].op = "none" /\ call[c].pc = "idle" /\ call[c].got = {}
             /\ call[c].missed = {} /\ call[c].one = Nothing
  BY DEF Init, NoCall
<1>4. Copies \subseteq {Nothing}
  BY <1>2, <1>3 DEF Copies
<1>5. UidOnce
  BY <1>4 DEF UidOnce, Agree, Nothing
<1>6. Apart /\ OneLink
  BY <1>2, <1>3 DEF Apart, Storing, OneLink
<1>7. Once
  BY <1>2, <1>3 DEF Once, StoredOnce, Writes
<1>8. Behind
  BY <1>2, <1>3 DEF Behind, Fetched, Zero, HasSettings
<1> QED
  BY <1>1, <1>5, <1>6, <1>7, <1>8 DEF MailInv

LEMMA MailNext ==
  ASSUME MailInv, [Next]_vars
  PROVE  MailInv'
<1>1. Typed'
  BY TypedNext DEF MailInv
<1> QED
  BY <1>1, ApartNext, UidNext, OneLinkNext, OnceNext, BehindNext DEF MailInv

(* The invariant: types, one synchronisation at a time under the lock, a   *)
(* uid of a folder for one message only, at most one link for a row, what  *)
(* a call knows of the row it is about to write, and the sync info.        *)
THEOREM MailInvariant == Spec => []MailInv
<1> QED
  BY MailInit, MailNext, PTL DEF Spec

(* MailMessageService.processExternalMessages with upsertMessage: a        *)
(* message is stored twice only when it was sent from here and two calls   *)
(* that store have overlapped.                                             *)
THEOREM StoredOnceCorrect == Spec => []StoredOnce
<1>1. MailInv => StoredOnce
  BY DEF MailInv, Once
<1> QED
  BY <1>1, MailInvariant, PTL

(* addMessage, updateMessage and moveMessagesToSpecialFolder: as long as   *)
(* calls that store do not overlap, a message is in one folder at most.    *)
THEOREM InOneFolderCorrect == Spec => []InOneFolder
<1>1. MailInv => InOneFolder
  BY InOneFolderIs DEF MailInv
<1> QED
  BY <1>1, MailInvariant, PTL

(* ImapFlowService: the sync info that is saved before the messages are    *)
(* stored leaves no message behind but those a failure, a restart or a     *)
(* search that does not return them has given up.                          *)
THEOREM NothingSkippedCorrect == Spec => []NothingSkipped
<1>1. MailInv => NothingSkipped
  <2> SUFFICES ASSUME MailInv, NEW x \in server, x.uid < cursor[x.folder]
               PROVE  \/ Stored(x.mail) \/ x.mail \in skipped
                      \/ \E c \in Calls : call[c].op = "sync" /\ x.mail \in MailsOf(call[c].got)
    BY DEF NothingSkipped
  <2> QED
    BY DEF MailInv, Behind, Kept
<1> QED
  BY <1>1, MailInvariant, PTL

(* moveMessages and setFlag of the imapflow provider: a call of a user     *)
(* touches another message on the server only in a folder the thread has   *)
(* been moved to since its row was written.                                *)
THEOREM TouchesItsOwnCorrect == Spec => TouchesItsOwn
<1> DEFINE Own ==
      \A c \in Calls :
        call[c].pc = "serve" /\ call'[c] # call[c] =>
          \A x \in server \ server' :
            x.mail = call[c].one.mail \/ x.folder \in call[c].aim \ {call[c].one.folder}
<1>1. MailInv /\ [Next]_vars => Own
  BY TouchesStep DEF MailInv
<1> HIDE DEF Own
<1>2. Spec => [][Own]_vars
  BY <1>1, MailInvariant, PTL DEF Spec
<1> QED
  BY <1>2 DEF TouchesItsOwn, Own


------------------------------------------------------------------------------
(* The mailbox as a whole: once deleted it stays so until somebody touches   *)
(* it again, and at rest its counters are those of its rows.                 *)

(* A deleted mailbox that no running call can bring back. *)
Down ==
  \/ revived
  \/ /\ state = "deleted" \/ (state = "gone" /\ settings # "saved")
     /\ \A c \in Calls : call[c].op \notin {"sync", "update"}

(* The steps that change the state of the mailbox. *)
StateStep(c) == UpdateState(c) \/ Delete(c) \/ SaveUpdate(c)

LEMMA StateNext ==
  ASSUME [Next]_vars, ~Create, ~SoftDelete, \A c \in Calls : ~StateStep(c)
  PROVE  state' = state
<1>1. ASSUME NEW c \in Calls, SyncStep(c), ~StateStep(c) PROVE state' = state
  BY <1>1 DEF SyncStep, StateStep, Connect, SyncFails, ProcessFolder, SearchTimesOut, Search,
              UpdateSyncInfo, ProcessExternal, mailboxVars
<1>2. ASSUME NEW c \in Calls, StoreStep(c) PROVE state' = state
  BY <1>2 DEF StoreStep, FindMessage, WriteMessage, LinkMessage, StoreFails, SumCounters,
              ActualizeCounters, mailboxVars
<1>3. ASSUME NEW c \in Calls, UserStep(c), ~StateStep(c) PROVE state' = state
  BY <1>3 DEF UserStep, StateStep, Send, SendKeepsNothing, MoveMessages, ChangeFlags, ServerRefuses,
              DeleteLinks, Unlink, InsertLinks, MarkSeen, Mark, UpdateFails, Update, mailboxVars
<1>4. ASSUME NEW c \in Calls, AskStep(c) \/ Synchronize(c) PROVE state' = state
  BY <1>4 DEF AskStep, AskSend, ReadForUpdate, AskDelete, AskThread, Synchronize, Cron, mailboxVars
<1>5. ASSUME NEW m, Arrive(m) PROVE state' = state
  BY <1>5 DEF Arrive, mailboxVars
<1>6. CASE SaveSettings \/ Restart \/ UNCHANGED vars
  BY <1>6 DEF SaveSettings, Restart, vars, mailboxVars
<1> QED
  BY <1>1, <1>2, <1>3, <1>4, <1>5, <1>6 DEF Next, Continue

(* Nobody takes back that a deleted mailbox has been updated. *)
LEMMA RevivedNext ==
  ASSUME [Next]_vars, revived
  PROVE  revived'
<1>1. ASSUME NEW c \in Calls, SyncStep(c) PROVE revived'
  BY <1>1 DEF SyncStep, Connect, SyncFails, ProcessFolder, SearchTimesOut, Search,
              UpdateSyncInfo, ProcessExternal, UpdateState, ghostVars
<1>2. ASSUME NEW c \in Calls, StoreStep(c) PROVE revived'
  BY <1>2 DEF StoreStep, FindMessage, WriteMessage, LinkMessage, StoreFails, SumCounters,
              ActualizeCounters, ghostVars
<1>3. ASSUME NEW c \in Calls, UserStep(c) PROVE revived'
  BY <1>3 DEF UserStep, Send, SendKeepsNothing, MoveMessages, ChangeFlags, ServerRefuses,
              DeleteLinks, Unlink, InsertLinks, MarkSeen, Mark, SaveUpdate, UpdateFails,
              Update, Delete, ghostVars
<1>4. ASSUME NEW c \in Calls, AskStep(c) \/ Synchronize(c) PROVE revived'
  BY <1>4 DEF AskStep, AskSend, ReadForUpdate, AskDelete, AskThread, Synchronize, Cron, ghostVars
<1>5. ASSUME NEW m, Arrive(m) PROVE revived'
  BY <1>5 DEF Arrive, ghostVars
<1>6. CASE Create \/ SaveSettings \/ SoftDelete \/ Restart \/ UNCHANGED vars
  BY <1>6 DEF Create, SaveSettings, SoftDelete, Restart, vars, ghostVars
<1> QED
  BY <1>1, <1>2, <1>3, <1>4, <1>5, <1>6 DEF Next, Continue

LEMMA DownNext ==
  ASSUME Typed, Down, [Next]_vars
  PROVE  Down'
<1> SUFFICES ASSUME ~revived, ~revived' PROVE Down'
  BY RevivedNext DEF Down
<1>1. /\ state = "deleted" \/ (state = "gone" /\ settings # "saved")
      /\ \A c \in Calls : call[c].op \notin {"sync", "update"}
  BY DEF Down
<1>2. ASSUME NEW c \in Calls
      PROVE  ~SyncStep(c) /\ ~Synchronize(c) /\ ~SaveUpdate(c) /\ \A since : ~Update(c, since)
  BY <1>1 DEF SyncStep, Connect, SyncFails, ProcessFolder, SearchTimesOut, Search, UpdateSyncInfo,
              ProcessExternal, UpdateState, Synchronize, Cron, SaveUpdate, Update, Step
<1>3. ASSUME NEW c \in Calls PROVE ~UpdateState(c)
  BY <1>2 DEF SyncStep
<1>4. state' = "deleted" \/ (state' = "gone" /\ settings' # "saved")
  <2>1. ASSUME NEW c \in Calls, Delete(c) PROVE state' = "gone" /\ settings' = "lost"
    BY <2>1 DEF Delete
  <2>2. ~Create /\ (SoftDelete => state' = "deleted")
    BY <1>1 DEF Create, SoftDelete
  <2>3. CASE SaveSettings
    BY <1>1, <2>3 DEF SaveSettings, Exists
  <2> QED
    BY <1>1, <1>2, <1>3, <2>1, <2>2, <2>3, StateNext, SettingsNext DEF StateStep
<1>5. ASSUME NEW d \in Calls PROVE call'[d].op \notin {"sync", "update"}
  <2>1. ASSUME NEW c \in Calls, Goes(c) PROVE call'[d].op \notin {"sync", "update"}
    BY <1>1, <2>1 DEF Goes, Only
  <2>2. ASSUME NEW c \in Calls, AskStep(c) PROVE call'[d].op \notin {"sync", "update"}
    <3>1. ~ReadForUpdate(c)
      BY <1>1 DEF ReadForUpdate, Exists
    <3>2. PICK op \in Asked \ {"hide"} : Begins(c, op) /\ op # "update"
      BY <2>2, <3>1, AskBegins
    <3> QED
      BY <1>1, <3>2 DEF Begins, Only, Asked
  <2>3. CASE Restart
    BY <2>3 DEF Restart, NoCall
  <2>4. ASSUME call' = call PROVE call'[d].op \notin {"sync", "update"}
    BY <1>1, <2>4
  <2> QED
    BY <1>2, <2>1, <2>2, <2>3, <2>4, StoreGoes, UserGoes
       DEF Next, Continue, Arrive, Create, SaveSettings, SoftDelete, vars
<1> QED
  BY <1>4, <1>5 DEF Down

(* MailboxService.delete with softDelete: once no synchronisation and no   *)
(* update runs, a deleted mailbox stays deleted until somebody updates or  *)
(* deletes it.                                                             *)
THEOREM DeletedForGoodCorrect == Spec => DeletedForGood
<1>1. state = "deleted" /\ Quiet => Down
  BY DEF Quiet, Down
<1>2. Down => state \in {"deleted", "gone"} \/ revived
  BY DEF Down
<1>3. Typed /\ Down /\ [Next]_vars => Down'
  BY DownNext
<1>4. MailInv => Typed
  BY DEF MailInv
<1> QED
  BY <1>1, <1>2, <1>3, <1>4, MailInvariant, PTL DEF Spec, DeletedForGood

------------------------------------------------------------------------------
(* The counters *)

(* Rows and links go with the mailbox, and nobody saves its absence. *)
Alive ==
  /\ accidents \in Nat
  /\ HasSettings \/ known => Exists
  /\ \A c \in Calls : call[c].pc = "save" => call[c].kept \notin {"none", "gone"}
  /\ ~known => links = {} /\ unread = Zero

(* The counters say what the rows say, or a call that is on its way to     *)
(* write them finds its row and, with its sums, the rows as it left them.  *)
Settled == \A f \in Folders : unread[f] = Unread(f)
Counting(c) ==
  call[c].pc \in {"find", "write", "link", "unlink", "relink", "set", "sum", "put"}
Rowed(c) ==
  \/ call[c].pc \in {"serve", "link", "unlink", "relink"}
  \/ call[c].pc = "write" /\ call[c].row # NoRow
  => call[c].row \in Ids
Summed(c) == call[c].pc = "put" => call[c].counts = [f \in Folders |-> Unread(f)]
Counted ==
  /\ \A c \in Calls : call[c].pc \in {"sum", "put"} => Storing(c)
  /\ \A c \in Calls : call[c].pc \in {"unlink", "relink"} => call[c].to \in Folders
  /\ ~overlapped /\ known => \A c \in Calls : Rowed(c) /\ Summed(c)
  /\ ~overlapped /\ accidents = 0 => Settled \/ \E c \in Calls : Counting(c)

(* Where a step leads a call. *)
LEMMA SyncLeads ==
  ASSUME Typed, NEW c \in Calls, SyncStep(c), ~UpdateState(c)
  PROVE  /\ Only(c) /\ call'[c].pc \in {"fetch", "cursor", "folders", "find", "state"}
         /\ call'[c].pc = "find" => ProcessExternal(c)
<1>1. CASE Connect(c)
  BY <1>1, ConnectIs DEF Has
<1>2. CASE SyncFails(c)
  BY <1>2, SyncFailsIs DEF Has
<1>3. ASSUME NEW f \in Folders, NEW answer, Search(c, f, answer)
      PROVE  Only(c) /\ call'[c].pc \in {"fetch", "cursor"}
  BY <1>3, SearchIs DEF Has
<1>4. CASE UpdateSyncInfo(c)
  BY <1>4, UpdateSyncInfoIs DEF Has
<1>5. CASE ProcessExternal(c)
  BY <1>5, ProcessExternalIs DEF Has
<1> QED
  BY <1>1, <1>2, <1>3, <1>4, <1>5 DEF SyncStep, ProcessFolder, SearchTimesOut

LEMMA StoreLeads ==
  ASSUME Typed, NEW c \in Calls, StoreStep(c)
  PROVE  /\ Only(c) /\ call[c].op \in {"sync", "send", "move", "mark"}
         /\ call'[c].pc \in {"find", "write", "link", "sum", "put", "state", "idle"}
<1>0. call[c].op \in {"sync", "send", "move", "mark"}
  BY DEF StoreStep, FindMessage, WriteMessage, LinkMessage, StoreFails, SumCounters,
         ActualizeCounters, Step
<1>1. CASE FindMessage(c)
  BY <1>0, <1>1, FindMessageIs DEF Has
<1>2. CASE WriteMessage(c)
  BY <1>0, <1>2, WriteMessageIs DEF Has
<1>3. CASE LinkMessage(c)
  BY <1>0, <1>3, LinkMessageIs DEF Has
<1>4. CASE StoreFails(c)
  BY <1>0, <1>4, StoreFailsIs DEF Has, Ended
<1>5. CASE SumCounters(c)
  BY <1>0, <1>5, SumCountersIs DEF Has
<1>6. CASE ActualizeCounters(c)
  BY <1>0, <1>6, ActualizeCountersIs DEF Has, Ended
<1> QED
  BY <1>1, <1>2, <1>3, <1>4, <1>5, <1>6 DEF StoreStep

LEMMA UserLeads ==
  ASSUME Typed, NEW c \in Calls, UserStep(c)
  PROVE  /\ Only(c)
         /\ call'[c].pc \in {"find", "sum", "unlink", "relink", "set", "idle", "connect", "start"}
<1>0. Functional
  BY DEF Typed
<1>1. ASSUME NEW m, NEW told, Send(c, m, told) PROVE Only(c) /\ call'[c].pc = "find"
  BY <1>1, SendIs DEF Has
<1>2. CASE SendKeepsNothing(c) \/ ServerRefuses(c) \/ Delete(c)
  BY <1>0, <1>2, BecomesNoCall DEF SendKeepsNothing, ServerRefuses, Delete, Ended, Has
<1>3. CASE MoveMessages(c)
  BY <1>3, MoveMessagesIs DEF Has
<1>4. CASE ChangeFlags(c)
  BY <1>4, ChangeFlagsIs DEF Has
<1>5. CASE DeleteLinks(c)
  BY <1>5, DeleteLinksIs DEF Has
<1>6. CASE InsertLinks(c)
  BY <1>6, InsertLinksIs DEF Has, Ended
<1>7. CASE MarkSeen(c)
  BY <1>7, MarkSeenIs DEF Has
<1>8. ASSUME NEW since, Update(c, since) PROVE Only(c) /\ call'[c].pc \in {"idle", "connect"}
  <2>1. CASE Becomes(c, NoCall)
    BY <1>0, <2>1, BecomesNoCall DEF Ended, Has
  <2>2. ASSUME NEW full, Becomes(c, Request(full, since)) PROVE Only(c) /\ call'[c].pc = "connect"
    BY <1>0, <2>2, BecomesIs, RequestHas DEF Has
  <2> QED
    BY <1>8, <2>1, <2>2 DEF Update
<1>9. CASE SaveUpdate(c)
  BY <1>9, SaveUpdateIs DEF Has
<1>10. CASE UpdateFails(c)
  BY <1>0, <1>10, BecomesNoCall DEF UpdateFails, Ended, Has
<1> QED
  BY <1>1, <1>2, <1>3, <1>4, <1>5, <1>6, <1>7, <1>8, <1>9, <1>10 DEF UserStep

LEMMA SynchronizeLeads ==
  ASSUME Typed, NEW c \in Calls, Synchronize(c)
  PROVE  Only(c) /\ call[c].pc = "idle" /\ call'[c].pc = "connect"
<1>1. Only(c) /\ call[c] = NoCall /\ call'[c] = Request(FALSE, "today")
  BY BeginIs DEF Synchronize, Cron, Typed
<1>2. NoCall.pc = "idle"
  BY DEF NoCall
<1> QED
  BY <1>1, <1>2, RequestHas DEF Has

LEMMA NotSaving ==
  ASSUME Typed, NEW c \in Calls, AskStep(c), ~ReadForUpdate(c)
  PROVE  call'[c].pc # "save"
<1>0. Functional /\ Shaped(NoCall)
  BY NoCallTyped DEF Typed, RowsTyped, CallTyped
<1>1. CASE AskSend(c)
  <2>1. [NoCall EXCEPT !.op = "send", !.pc = "send"].pc = "send"
    BY <1>0 DEF Shaped
  <2> QED
    BY <1>0, <1>1, <2>1, BeginIs DEF AskSend
<1>2. CASE AskDelete(c)
  <2>1. ASSUME NEW pc PROVE [NoCall EXCEPT !.op = "drop", !.pc = pc].pc = pc
    BY <1>0 DEF Shaped
  <2>2. PICK pc \in {"drop", "wait"} : Becomes(c, [NoCall EXCEPT !.op = "drop", !.pc = pc])
    BY <1>2 DEF AskDelete
  <2> QED
    BY <1>0, <2>1, <2>2, BecomesIs
<1>3. ASSUME NEW r, NEW op, NEW to, NEW seen, AskThread(c, op, r, to, seen)
      PROVE  call'[c].pc = "serve"
  <2> DEFINE new == [NoCall EXCEPT !.op = op, !.pc = "serve", !.row = r, !.one = rows[r],
                                   !.aim = FoldersOf(r), !.to = Live(to), !.seen = seen]
  <2>1. new.pc = "serve"
    BY <1>0 DEF Shaped
  <2>2. Begin(c, new)
    BY <1>3 DEF AskThread
  <2> HIDE DEF new
  <2> QED
    BY <1>0, <2>1, <2>2, BeginIs
<1> QED
  BY <1>1, <1>2, <1>3 DEF AskStep

(* What changes the counters and the folders, and how failures count. *)
LEMMA UnreadNext ==
  ASSUME [Next]_vars, \A c \in Calls : ~Delete(c)
  PROVE  /\ unread' = unread \/ \E c \in Calls : ActualizeCounters(c)
         /\ known' = known \/ \E c \in Calls : ProcessExternal(c)
<1>1. ASSUME NEW c \in Calls, SyncStep(c), ~ProcessExternal(c) PROVE UNCHANGED <<unread, known>>
  BY <1>1 DEF SyncStep, Connect, SyncFails, ProcessFolder, SearchTimesOut, Search,
              UpdateSyncInfo, UpdateState, mailboxVars
<1>2. ASSUME NEW c \in Calls, StoreStep(c), ~ActualizeCounters(c) PROVE UNCHANGED <<unread, known>>
  BY <1>2 DEF StoreStep, FindMessage, WriteMessage, LinkMessage, StoreFails, SumCounters, mailboxVars
<1>3. ASSUME NEW c \in Calls, UserStep(c) PROVE UNCHANGED <<unread, known>>
  BY <1>3 DEF UserStep, Send, SendKeepsNothing, MoveMessages, ChangeFlags, ServerRefuses,
              DeleteLinks, Unlink, InsertLinks, MarkSeen, Mark, SaveUpdate, UpdateFails,
              Update, mailboxVars
<1>4. ASSUME NEW c \in Calls, AskStep(c) \/ Synchronize(c) PROVE UNCHANGED <<unread, known>>
  BY <1>4 DEF AskStep, AskSend, ReadForUpdate, AskDelete, AskThread, Synchronize, Cron, mailboxVars
<1>5. ASSUME NEW m, Arrive(m) PROVE UNCHANGED <<unread, known>>
  BY <1>5 DEF Arrive, mailboxVars
<1>6. CASE Create \/ SaveSettings \/ SoftDelete \/ Restart \/ UNCHANGED vars
  BY <1>6 DEF Create, SaveSettings, SoftDelete, Restart, vars, mailboxVars
<1>7. ASSUME NEW c \in Calls, ProcessExternal(c) PROVE unread' = unread
  BY <1>7 DEF ProcessExternal
<1>8. ASSUME NEW c \in Calls, ActualizeCounters(c) PROVE known' = known
  BY <1>8 DEF ActualizeCounters
<1> QED
  BY <1>1, <1>2, <1>3, <1>4, <1>5, <1>6, <1>7, <1>8 DEF Next, Continue

LEMMA AccidentsNext ==
  ASSUME [Next]_vars
  PROVE  UNCHANGED accidents \/ accidents' = accidents + 1
<1>0. Accident => accidents' = accidents + 1
  BY DEF Accident
<1>1. ASSUME NEW c \in Calls, SyncStep(c) PROVE UNCHANGED accidents \/ accidents' = accidents + 1
  BY <1>0, <1>1 DEF SyncStep, Connect, SyncFails, ProcessFolder, SearchTimesOut,
                    UpdateSyncInfo, ProcessExternal, UpdateState, countVars
<1>2. ASSUME NEW c \in Calls, StoreStep(c) PROVE UNCHANGED accidents \/ accidents' = accidents + 1
  BY <1>0, <1>2 DEF StoreStep, FindMessage, WriteMessage, LinkMessage, StoreFails, SumCounters,
                    ActualizeCounters, countVars
<1>3. ASSUME NEW c \in Calls, UserStep(c) PROVE UNCHANGED accidents \/ accidents' = accidents + 1
  BY <1>0, <1>3 DEF UserStep, Send, SendKeepsNothing, MoveMessages, ChangeFlags, ServerRefuses,
                    DeleteLinks, Unlink, InsertLinks, MarkSeen, Mark, SaveUpdate, UpdateFails,
              Update, Delete, countVars
<1>4. ASSUME NEW c \in Calls, AskStep(c) \/ Synchronize(c) PROVE UNCHANGED accidents
  BY <1>4 DEF AskStep, AskSend, ReadForUpdate, AskDelete, AskThread, Synchronize, Cron, countVars
<1>5. ASSUME NEW m, Arrive(m) PROVE UNCHANGED accidents
  BY <1>5 DEF Arrive, countVars
<1>6. CASE Create \/ SaveSettings \/ SoftDelete \/ Restart \/ UNCHANGED vars
  BY <1>0, <1>6 DEF Create, SaveSettings, SoftDelete, Restart, vars, countVars
<1> QED
  BY <1>1, <1>2, <1>3, <1>4, <1>5, <1>6 DEF Next, Continue

LEMMA SavedNext ==
  ASSUME Typed, Alive, [Next]_vars, NEW d \in Calls, call'[d].pc = "save"
  PROVE  call'[d].kept \notin {"none", "gone"}
<1>1. ASSUME NEW c \in Calls, Only(c), call'[c].pc # "save"
      PROVE  call'[d].kept \notin {"none", "gone"}
  BY <1>1 DEF Only, Alive
<1>2. ASSUME NEW c \in Calls, AskStep(c) PROVE call'[d].kept \notin {"none", "gone"}
  <2>1. CASE ReadForUpdate(c)
    <3>1. ASSUME NEW k, NEW q, Shaped(q)
          PROVE  [q EXCEPT !.op = "update", !.pc = "save", !.kept = k].kept = k
      BY <3>1 DEF Shaped
    <3>2. Shaped(NoCall) /\ Functional
      BY NoCallTyped DEF Typed, RowsTyped, CallTyped
    <3>3. PICK k \in {"init", state} \ {"none", "gone"} :
            Becomes(c, [NoCall EXCEPT !.op = "update", !.pc = "save", !.kept = k])
      BY <2>1 DEF ReadForUpdate, Alive, Exists
    <3>4. Only(c) /\ call'[c].kept = k
      BY <3>1, <3>2, <3>3, BecomesIs
    <3> QED
      BY <3>4 DEF Only, Alive
  <2>2. CASE ~ReadForUpdate(c)
    <3>1. PICK op \in {"send", "move", "mark", "drop"} : Begins(c, op)
      BY <1>2, <2>2, AskBegins DEF Asked
    <3>2. Only(c) /\ call'[c].op # "update"
      BY <3>1 DEF Begins
    <3>3. call'[c].pc # "save"
      BY <1>2, <2>2, NotSaving
    <3> QED
      BY <1>1, <3>2, <3>3
  <2> QED
    BY <2>1, <2>2
<1>3. CASE Restart
  BY <1>3 DEF Restart, NoCall
<1>4. ASSUME NEW c \in Calls, UpdateState(c) PROVE call'[d].kept \notin {"none", "gone"}
  <2>1. call'[c] = NoCall /\ (d # c => call'[d] = call[d] \/ call'[d].pc = "drop")
    <3>1. ASSUME NEW q, Shaped(q) PROVE [q EXCEPT !.pc = "drop"].pc = "drop"
      BY <3>1 DEF Shaped
    <3> QED
      BY <1>4, <3>1, ReleasedIs DEF UpdateState, Typed, CallTyped
  <2> QED
    BY <2>1 DEF Alive, NoCall
<1>5. ASSUME call' = call PROVE call'[d].kept \notin {"none", "gone"}
  BY <1>5 DEF Alive
<1> QED
  BY <1>1, <1>2, <1>3, <1>4, <1>5, SyncLeads, StoreLeads, UserLeads, SynchronizeLeads
     DEF Next, Continue, SyncStep, Arrive, Create, SaveSettings, SoftDelete, vars

LEMMA AliveNext ==
  ASSUME Typed, Alive, [Next]_vars
  PROVE  Alive'
<1>1. accidents' \in Nat
  BY AccidentsNext DEF Alive
<1>2. Exists => Exists' \/ \E c \in Calls : Delete(c)
  <2>1. ASSUME NEW c \in Calls, UpdateState(c) PROVE Exists => Exists'
    BY <2>1 DEF UpdateState, Exists
  <2>2. ASSUME NEW c \in Calls, SaveUpdate(c) PROVE Exists'
    BY <2>2 DEF SaveUpdate, Step, Alive, Exists
  <2>3. CASE Create \/ SoftDelete
    BY <2>3 DEF Create, SoftDelete, Exists
  <2> QED
    BY <2>1, <2>2, <2>3, StateNext DEF StateStep, Exists
<1>3. ASSUME NEW c \in Calls, Delete(c)
      PROVE  ~HasSettings' /\ ~known' /\ links' = {} /\ unread' = Zero
  BY <1>3 DEF Delete, HasSettings
<1>4. HasSettings' \/ known' => Exists'
  <2>1. CASE SaveSettings
    BY <2>1 DEF SaveSettings, Exists
  <2>2. ASSUME NEW c \in Calls, ProcessExternal(c) PROVE Exists
    BY <2>2 DEF ProcessExternal
  <2> QED
    BY <1>2, <1>3, <2>1, <2>2, SettingsNext, UnreadNext DEF Alive, HasSettings
<1>5. ~known' => links' = {} /\ unread' = Zero
  <2> SUFFICES ASSUME ~known', \A c \in Calls : ~Delete(c) PROVE links' = {} /\ unread' = Zero
    BY <1>3
  <2>1. ~known /\ links = {} /\ unread = Zero
    <3>1. ASSUME NEW c \in Calls, ProcessExternal(c) PROVE known'
      BY <3>1 DEF ProcessExternal
    <3> QED
      BY <3>1, UnreadNext DEF Alive
  <2>2. unread' = Zero
    BY <2>1, UnreadNext DEF ActualizeCounters
  <2>3. ASSUME NEW c \in Calls, LinkStep(c) PROVE links' = {}
    BY <2>1, <2>3 DEF LinkStep, WriteMessage, LinkMessage, Link, DeleteLinks, Unlink, InsertLinks
  <2> QED
    BY <2>1, <2>2, <2>3, LinksNext
<1> QED
  BY <1>1, <1>4, <1>5, SavedNext DEF Alive

(* With no folder there is nothing to count. *)
LEMMA UnknownSettled ==
  ASSUME Alive, ~known
  PROVE  Settled
<1>1. ASSUME NEW f \in Folders PROVE unread[f] = Unread(f)
  <2>1. {r \in Ids : <<r, f>> \in links /\ ~rows[r].seen} = {} /\ unread[f] = 0
    BY DEF Alive, Zero
  <2> QED
    BY <2>1, FS_EmptySet DEF Unread
<1> QED
  BY <1>1 DEF Settled

(* A step of call c that keeps what the counters rest on. *)
Leaves(c) ==
  /\ Only(c)
  /\ Storing(c) \/ UNCHANGED <<rows, links>>
  /\ known' => known \/ Storing(c)
  /\ ~overlapped /\ known' => Ids \subseteq Ids' /\ Rowed(c)' /\ Summed(c)'
  /\ call'[c].pc \in {"sum", "put"} => Storing(c)'
  /\ call'[c].pc \in {"unlink", "relink"} => call'[c].to \in Folders
  /\ ~overlapped /\ accidents = 0 =>
       \/ Counting(c)' \/ accidents' # 0 \/ Settled'
       \/ ~Counting(c) /\ UNCHANGED <<rows, links, unread>>

LEMMA UnreadSame ==
  ASSUME rows' = rows, links' = links, NEW f
  PROVE  Unread(f)' = Unread(f)
BY DEF Unread, Ids

LEMMA LeavesCounted ==
  ASSUME Typed, Apart, Alive, Counted, [Next]_vars, NEW c \in Calls, Leaves(c)
  PROVE  Counted'
<1>0. /\ overlapped => overlapped'
      /\ accidents' = 0 => accidents = 0
  BY GrowsNext, AccidentsNext DEF Grows, Alive
<1>1. ASSUME NEW d \in Calls PROVE call'[d].pc \in {"sum", "put"} => Storing(d)'
  BY DEF Leaves, Only, Counted, Storing
<1>2. ASSUME NEW d \in Calls, call'[d].pc \in {"unlink", "relink"} PROVE call'[d].to \in Folders
  BY <1>2 DEF Leaves, Only, Counted
<1>3. ASSUME ~overlapped', known', NEW d \in Calls PROVE Rowed(d)' /\ Summed(d)'
  <2>1. CASE d = c
    BY <1>0, <1>3, <2>1 DEF Leaves
  <2>2. CASE d # c
    <3>1. call'[d] = call[d] /\ ~overlapped /\ Ids \subseteq Ids'
      BY <1>0, <1>3, <2>2 DEF Leaves, Only
    <3>2. CASE Storing(c)
      <4>1. ~Storing(d)
        BY <2>2, <3>1, <3>2 DEF Apart
      <4>2. call[d].pc \notin {"serve", "write", "link", "unlink", "relink", "sum", "put"}
        BY <4>1 DEF Storing, Typed, CallTyped, Counted
      <4> QED
        BY <3>1, <4>2 DEF Rowed, Summed
    <3>3. CASE ~Storing(c)
      <4>1. known /\ rows' = rows /\ links' = links
        BY <1>3, <3>3 DEF Leaves
      <4>2. [f \in Folders |-> Unread(f)]' = [f \in Folders |-> Unread(f)]
        BY <4>1, UnreadSame
      <4>3. Rowed(d) /\ Summed(d)
        BY <3>1, <4>1 DEF Counted
      <4> QED
        BY <3>1, <4>2, <4>3 DEF Rowed, Summed
    <3> QED
      BY <3>2, <3>3
  <2> QED
    BY <2>1, <2>2
<1>4. ASSUME ~overlapped', accidents' = 0 PROVE Settled' \/ \E d \in Calls : Counting(d)'
  <2>1. ~overlapped /\ accidents = 0
    BY <1>0, <1>4
  <2>2. CASE ~Counting(c) /\ UNCHANGED <<rows, links, unread>>
    <3>1. Settled => Settled'
      BY <2>2, UnreadSame DEF Settled
    <3>2. \A d \in Calls : Counting(d) => Counting(d)'
      BY <2>2 DEF Leaves, Only, Counting
    <3> QED
      BY <2>1, <3>1, <3>2 DEF Counted
  <2> QED
    BY <1>4, <2>1, <2>2 DEF Leaves
<1> QED
  BY <1>1, <1>2, <1>3, <1>4 DEF Counted

(* A call that neither counts nor is about to. *)
Away(c) ==
  /\ Only(c) /\ UNCHANGED <<rows, links, unread, known>>
  /\ ~Counting(c) /\ ~Counting(c)' /\ Rowed(c)'

LEMMA AwayLeaves ==
  ASSUME NEW c \in Calls, Away(c)
  PROVE  Leaves(c)
<1>1. call'[c].pc \notin {"sum", "put", "unlink", "relink"}
  BY DEF Away, Counting
<1> QED
  BY <1>1 DEF Away, Leaves, Summed, Ids

LEMMA SyncCounted ==
  ASSUME Typed, NEW c \in Calls, SyncStep(c), ~UpdateState(c)
  PROVE  Leaves(c)
<1>1. CASE ProcessExternal(c)
  <2>1. Only(c) /\ call'[c].pc \in {"find", "state"}
    BY <1>1, ProcessExternalIs DEF Has
  <2>2. Storing(c) /\ ~Counting(c) /\ UNCHANGED <<rows, links, unread>>
    BY <1>1 DEF ProcessExternal, Step, Storing, Counting, rowVars
  <2> QED
    BY <2>1, <2>2 DEF Leaves, Rowed, Summed, Ids
<1>2. CASE ~ProcessExternal(c)
  <2>1. Only(c) /\ call'[c].pc \in {"fetch", "cursor", "folders", "state"}
    BY <1>2, SyncLeads
  <2>2. /\ call[c].pc \in {"connect", "fetch", "cursor", "state"}
        /\ UNCHANGED <<rows, links, unread, known>>
    BY <1>2 DEF SyncStep, Connect, SyncFails, ProcessFolder, SearchTimesOut, Search,
                UpdateSyncInfo, Step, rowVars, mailboxVars
  <2> QED
    BY <2>1, <2>2, AwayLeaves DEF Away, Counting, Rowed
<1> QED
  BY <1>1, <1>2

LEMMA FindCounted ==
  ASSUME Typed, NEW c \in Calls, FindMessage(c)
  PROVE  Leaves(c)
<1>1. Only(c) /\ Storing(c) /\ call'[c].pc = "write"
  BY FindMessageIs DEF Has, Storing
<1>2. call'[c].row = NoRow \/ call'[c].row \in Ids
  BY FindMessageIs DEF Has, Known
<1>3. UNCHANGED <<rows, links, unread, known>>
  BY DEF FindMessage, rowVars, mailboxVars
<1> QED
  BY <1>1, <1>2, <1>3 DEF Leaves, Rowed, Summed, Counting, Ids

LEMMA WriteCounted ==
  ASSUME Typed, Counted, NEW c \in Calls, WriteMessage(c)
  PROVE  Leaves(c)
<1>1. /\ Only(c) /\ call'[c].pc = "link"
      /\ call'[c].row = IF call[c].row = NoRow THEN nextId ELSE call[c].row
  BY WriteMessageIs DEF Has
<1>2. /\ call[c].pc = "write" /\ Storing(c) /\ known' = known
      /\ Ids' = Ids \cup (IF call[c].row = NoRow THEN {nextId} ELSE {})
  BY DEF WriteMessage, Step, Storing, mailboxVars, Ids
<1>3. ~overlapped /\ known' => Rowed(c)'
  BY <1>1, <1>2 DEF Counted, Rowed
<1> QED
  BY <1>1, <1>2, <1>3 DEF Leaves, Summed, Counting

LEMMA LinkCounted ==
  ASSUME Typed, NEW c \in Calls, LinkMessage(c)
  PROVE  Leaves(c)
<1>1. Only(c) /\ call'[c].pc \in {"sum", "find"} /\ call'[c].op = call[c].op
  BY LinkMessageIs DEF Has
<1>2. Storing(c) /\ rows' = rows /\ known' = known
  BY DEF LinkMessage, Step, Storing, mailboxVars
<1> QED
  BY <1>1, <1>2 DEF Leaves, Rowed, Summed, Counting, Ids, Storing

(* A call that finds its row, and its row without a link, stores it or     *)
(* fails by accident.                                                      *)
LEMMA FailsCounted ==
  ASSUME Typed, OneLink, Alive, Counted, [Next]_vars, NEW c \in Calls, StoreFails(c)
  PROVE  Leaves(c)
<1>1. Only(c) /\ call'[c].pc \in {"idle", "state"}
  BY StoreFailsIs DEF Has, Ended
<1>2. Storing(c) /\ UNCHANGED <<rows, links, unread, known>>
  BY DEF StoreFails, Step, Storing, rowVars, mailboxVars
<1>3. ASSUME ~overlapped, accidents = 0 PROVE accidents' # 0 \/ Settled
  <2>1. CASE ~Refused(c)
    BY <1>3, <2>1 DEF StoreFails, Accident
  <2>2. CASE ~known
    BY <2>2, UnknownSettled
  <2>3. CASE Refused(c) /\ known
    <3>1. call[c].pc = "link" /\ (call[c].row \notin Ids \/ Link(c) \subseteq links)
      BY <2>3 DEF Refused, Alive
    <3>2. call[c].row \in Ids
      BY <1>3, <2>3, <3>1 DEF Counted, Rowed
    <3>3. <<call[c].row, call[c].one.folder>> \in links
      BY <2>3, <3>1, <3>2 DEF Link
    <3>4. call[c].one.folder \in Folders
      BY <3>1 DEF Typed, CallTyped, AnyCopy
    <3> QED
      BY <1>3, <3>1, <3>3, <3>4 DEF OneLink
  <2> QED
    BY <2>1, <2>2, <2>3
<1>4. Settled => Settled'
  BY <1>2, UnreadSame DEF Settled
<1> QED
  BY <1>1, <1>2, <1>3, <1>4 DEF Leaves, Rowed, Summed, Ids

LEMMA SumCounted ==
  ASSUME Typed, NEW c \in Calls, SumCounters(c)
  PROVE  Leaves(c)
<1>1. Only(c) /\ call'[c].pc = "put" /\ call'[c].op = call[c].op
  BY SumCountersIs DEF Has
<1>2. Storing(c) /\ UNCHANGED <<rows, links, known>>
  BY DEF SumCounters, Step, Storing, rowVars, mailboxVars
<1>3. call'[c].counts = [f \in Folders |-> Unread(f)]
  <2>1. ASSUME NEW k, NEW q, Shaped(q) PROVE [q EXCEPT !.pc = "put", !.counts = k].counts = k
    BY <2>1 DEF Shaped
  <2>2. Functional /\ Shaped(call[c])
    BY DEF Typed, CallTyped
  <2> DEFINE sums == [f \in Folders |-> Unread(f)]
  <2>3. Becomes(c, [call[c] EXCEPT !.pc = "put", !.counts = sums])
    BY DEF SumCounters
  <2> HIDE DEF sums
  <2>4. call'[c].counts = sums
    BY <2>1, <2>2, <2>3, BecomesIs
  <2> QED
    BY <2>4 DEF sums
<1>4. [f \in Folders |-> Unread(f)]' = [f \in Folders |-> Unread(f)]
  BY <1>2, UnreadSame
<1> QED
  BY <1>1, <1>2, <1>3, <1>4 DEF Leaves, Rowed, Summed, Counting, Ids, Storing

LEMMA PutCounted ==
  ASSUME Typed, Alive, Counted, NEW c \in Calls, ActualizeCounters(c)
  PROVE  Leaves(c)
<1>1. /\ Only(c) /\ call'[c].pc \in {"idle", "sum", "state"}
      /\ call'[c].pc = "sum" => call'[c].op = call[c].op
  BY ActualizeCountersIs DEF Has, Ended
<1>2. /\ Storing(c) /\ call[c].pc = "put" /\ UNCHANGED <<rows, links, known>>
      /\ unread' = IF known THEN call[c].counts ELSE unread
  BY DEF ActualizeCounters, Step, Storing, rowVars
<1>3. ASSUME ~overlapped PROVE Settled'
  <2>1. CASE known
    <3>1. unread' = [f \in Folders |-> Unread(f)]
      BY <1>2, <1>3, <2>1 DEF Counted, Summed
    <3> QED
      BY <1>2, <3>1, UnreadSame DEF Settled
  <2>2. CASE ~known
    BY <1>2, <2>2, UnknownSettled, UnreadSame DEF Settled
  <2> QED
    BY <2>1, <2>2
<1> QED
  BY <1>1, <1>2, <1>3 DEF Leaves, Rowed, Summed, Ids, Storing

LEMMA ThreadCounted ==
  ASSUME Typed, OneLink, Alive, Counted, [Next]_vars, NEW c \in Calls,
         MoveMessages(c) \/ DeleteLinks(c) \/ InsertLinks(c)
  PROVE  Leaves(c)
<1>0. Functional /\ Shaped(call[c]) /\ call[c].to \in Folders \cup {None}
  BY DEF Typed, CallTyped
<1>1. CASE MoveMessages(c)
  <2>1. /\ Only(c) /\ call'[c].row = call[c].row /\ call'[c].op = call[c].op
        /\ call'[c].pc = IF call[c].to = None THEN "sum" ELSE "unlink"
    BY <1>1, MoveMessagesIs DEF Has
  <2>2. /\ Storing(c) /\ call[c].pc = "serve" /\ UNCHANGED <<rows, links, known>>
    BY <1>1 DEF MoveMessages, Step, Storing, rowVars, mailboxVars
  <2>3. call'[c].to = call[c].to
    <3>1. ASSUME NEW p, NEW q, Shaped(q) PROVE [q EXCEPT !.pc = p, !.rounds = 1].to = q.to
      BY <3>1 DEF Shaped
    <3>2. PICK p : Becomes(c, [call[c] EXCEPT !.pc = p, !.rounds = 1])
      BY <1>1 DEF MoveMessages
    <3>3. call'[c] = [call[c] EXCEPT !.pc = p, !.rounds = 1]
      BY <1>0, <3>2, BecomesIs
    <3> QED
      BY <1>0, <3>1, <3>3
  <2>4. ~overlapped /\ known' => Rowed(c)'
    BY <2>1, <2>2 DEF Counted, Rowed, Ids
  <2> QED
    BY <1>0, <2>1, <2>2, <2>3, <2>4 DEF Leaves, Summed, Counting, Ids, Storing
<1>2. CASE DeleteLinks(c)
  <2>1. Only(c) /\ call'[c].row = call[c].row /\ call'[c].pc = "relink"
    BY <1>2, DeleteLinksIs DEF Has
  <2>2. Storing(c) /\ call[c].pc = "unlink" /\ UNCHANGED <<rows, known>>
    BY <1>2 DEF DeleteLinks, Unlink, Step, Storing, mailboxVars
  <2>3. call'[c].to = call[c].to
    <3>1. ASSUME NEW q, Shaped(q) PROVE [q EXCEPT !.pc = "relink"].to = q.to
      BY <3>1 DEF Shaped
    <3> QED
      BY <1>0, <1>2, <3>1, BecomesIs DEF DeleteLinks, Unlink
  <2>4. ~overlapped /\ known' => Rowed(c)'
    BY <2>1, <2>2 DEF Counted, Rowed, Ids
  <2> QED
    BY <2>1, <2>2, <2>3, <2>4 DEF Leaves, Summed, Counting, Counted, Ids
<1>3. CASE InsertLinks(c)
  <2>1. /\ Only(c) /\ call'[c].pc \in {"idle", "sum"}
        /\ call'[c].pc = "sum" => call'[c].op = call[c].op
    BY <1>3, InsertLinksIs DEF Has, Ended
  <2>2. Storing(c) /\ call[c].pc = "relink" /\ UNCHANGED <<rows, unread, known>>
    BY <1>3 DEF InsertLinks, Step, Storing, mailboxVars
  <2>3. ASSUME ~overlapped PROVE Counting(c)' \/ Settled'
    <3>1. CASE ~known
      <4>1. links' = links
        BY <1>3, <3>1 DEF InsertLinks
      <4> QED
        BY <2>2, <3>1, <4>1, UnknownSettled, UnreadSame DEF Settled
    <3>2. CASE known
      <4>1. call[c].row \in Ids /\ <<call[c].row, call[c].to>> \notin links
        BY <2>2, <2>3, <3>2 DEF Counted, Rowed, OneLink
      <4>2. [call[c] EXCEPT !.pc = "sum"].pc = "sum"
        BY <1>0 DEF Shaped
      <4> QED
        BY <1>0, <1>3, <3>2, <4>1, <4>2, BecomesIs DEF InsertLinks, Counting
    <3> QED
      BY <3>1, <3>2
  <2> QED
    BY <2>1, <2>2, <2>3 DEF Leaves, Rowed, Summed, Ids, Storing
<1> QED
  BY <1>1, <1>2, <1>3

LEMMA UserCounted ==
  ASSUME Typed, OneLink, Alive, Counted, [Next]_vars, NEW c \in Calls, UserStep(c), ~Delete(c)
  PROVE  Leaves(c)
<1>0. Functional
  BY DEF Typed
<1>1. ASSUME NEW m, NEW told, Send(c, m, told) PROVE Leaves(c)
  <2>1. Only(c) /\ call'[c].pc = "find" /\ Storing(c)
    BY <1>1, SendIs DEF Has, Storing
  <2>2. UNCHANGED <<rows, links, known>>
    BY <1>1 DEF Send, rowVars, mailboxVars
  <2> QED
    BY <2>1, <2>2 DEF Leaves, Rowed, Summed, Counting, Ids
<1>2. CASE SendKeepsNothing(c) \/ ServerRefuses(c)
  <2>1. Only(c) /\ call'[c].pc = "idle"
    BY <1>0, <1>2, BecomesNoCall DEF SendKeepsNothing, ServerRefuses, Ended, Has
  <2>2. call[c].pc \in {"send", "serve"} /\ UNCHANGED <<rows, links, unread, known>>
    BY <1>2 DEF SendKeepsNothing, ServerRefuses, Step, rowVars, mailboxVars
  <2> QED
    BY <2>1, <2>2, AwayLeaves DEF Away, Counting, Rowed
<1>3. CASE ChangeFlags(c)
  <2>1. Only(c) /\ call'[c].pc = "set"
    BY <1>3, ChangeFlagsIs DEF Has
  <2>2. Storing(c) /\ UNCHANGED <<rows, links, known>>
    BY <1>3 DEF ChangeFlags, Step, Storing, rowVars, mailboxVars
  <2> QED
    BY <2>1, <2>2 DEF Leaves, Rowed, Summed, Counting, Ids
<1>4. CASE MarkSeen(c)
  <2>1. Only(c) /\ call'[c].pc = "sum" /\ call'[c].op = call[c].op
    BY <1>4, MarkSeenIs DEF Has
  <2>2. Storing(c) /\ known' = known /\ Ids' = Ids
    BY <1>4 DEF MarkSeen, Mark, Step, Storing, mailboxVars, Ids
  <2> QED
    BY <2>1, <2>2 DEF Leaves, Rowed, Summed, Counting, Storing
<1>5. ASSUME NEW since, Update(c, since) PROVE Leaves(c)
  <2>1. Only(c) /\ call'[c].pc \in {"idle", "connect"}
    <3>1. CASE Becomes(c, NoCall)
      BY <1>0, <3>1, BecomesNoCall DEF Ended, Has
    <3>2. ASSUME NEW full, Becomes(c, Request(full, since)) PROVE Only(c) /\ call'[c].pc = "connect"
      BY <1>0, <3>2, BecomesIs, RequestHas DEF Has
    <3> QED
      BY <1>5, <3>1, <3>2 DEF Update
  <2>2. call[c].pc = "start" /\ UNCHANGED <<rows, links, unread, known>>
    BY <1>5 DEF Update, Step, rowVars, mailboxVars
  <2> QED
    BY <2>1, <2>2, AwayLeaves DEF Away, Counting, Rowed
<1>6. CASE SaveUpdate(c) \/ UpdateFails(c)
  <2>1. Only(c) /\ call'[c].pc \in {"start", "idle"}
    BY <1>0, <1>6, SaveUpdateIs, BecomesNoCall DEF UpdateFails, Ended, Has
  <2>2. call[c].pc \in {"save", "start"} /\ UNCHANGED <<rows, links, unread, known>>
    BY <1>6 DEF SaveUpdate, UpdateFails, Step, rowVars, mailboxVars
  <2> QED
    BY <2>1, <2>2, AwayLeaves DEF Away, Counting, Rowed
<1> QED
  BY <1>1, <1>2, <1>3, <1>4, <1>5, <1>6, ThreadCounted DEF UserStep

LEMMA BeginCounted ==
  ASSUME Typed, NEW c \in Calls, AskStep(c) \/ Synchronize(c)
  PROVE  Leaves(c)
<1>1. UNCHANGED <<rows, links, unread, known>>
  BY DEF AskStep, AskSend, ReadForUpdate, AskDelete, AskThread, Synchronize, Cron, rowVars,
         mailboxVars
<1>2. CASE Synchronize(c)
  BY <1>1, <1>2, SynchronizeLeads, AwayLeaves DEF Away, Counting, Rowed
<1>3. CASE AskStep(c)
  <2>1. call[c].pc = "idle"
    BY <1>3, AskBegins DEF Begins, NoCall
  <2>2. /\ Only(c) /\ call'[c].pc \in {"send", "save", "drop", "wait", "serve"}
        /\ call'[c].pc = "serve" => call'[c].row \in Ids
    BY <1>3, AskIs DEF Fresh, Has
  <2> QED
    BY <1>1, <2>1, <2>2, AwayLeaves DEF Away, Counting, Rowed, Ids
<1> QED
  BY <1>2, <1>3

LEMMA UnknownSettledNext ==
  ASSUME Alive', ~known'
  PROVE  Settled'
<1>1. ASSUME NEW f \in Folders PROVE unread'[f] = Unread(f)'
  <2>1. {r \in Ids : <<r, f>> \in links /\ ~rows[r].seen}' = {} /\ unread'[f] = 0
    BY DEF Alive, Zero
  <2> QED
    BY <2>1, FS_EmptySet DEF Unread
<1> QED
  BY <1>1 DEF Settled

(* A step that only wakes up calls that wait, or ends one.                 *)
LEMMA StillCounted ==
  ASSUME Counted, UNCHANGED <<rows, links, unread, known, overlapped>>,
         accidents' = 0 => accidents = 0,
         \A d \in Calls :
           \/ call'[d] = call[d]
           \/ ~Counting(d) /\ call'[d].pc \in {"idle", "drop"}
  PROVE  Counted'
<1>1. [f \in Folders |-> Unread(f)]' = [f \in Folders |-> Unread(f)] /\ (Settled => Settled')
  BY UnreadSame DEF Settled
<1>2. \A d \in Calls : Counting(d) => Counting(d)'
  BY DEF Counting
<1>3. \A d \in Calls : (Rowed(d) => Rowed(d)') /\ (Summed(d) => Summed(d)')
  BY <1>1 DEF Rowed, Summed, Ids
<1>4. \A d \in Calls : call'[d].pc \in {"sum", "put", "unlink", "relink"} => call'[d] = call[d]
  OBVIOUS
<1> QED
  BY <1>1, <1>2, <1>3, <1>4 DEF Counted, Storing

LEMMA CountedNext ==
  ASSUME Typed, Apart, OneLink, Alive, Counted, [Next]_vars
  PROVE  Counted'
<1>1. ASSUME NEW c \in Calls, Leaves(c) PROVE Counted'
  BY <1>1, LeavesCounted
<1>2. ASSUME NEW c \in Calls, StoreStep(c) PROVE Counted'
  BY <1>1, <1>2, FindCounted, WriteCounted, LinkCounted, FailsCounted, SumCounted, PutCounted
     DEF StoreStep
<1>3. ASSUME NEW c \in Calls, Delete(c) PROVE Counted'
  <2>1. Only(c) /\ call'[c].pc = "idle" /\ ~known'
    BY <1>3, BecomesNoCall DEF Delete, Ended, Has, Typed
  <2>2. Settled'
    <3>1. Alive'
      BY AliveNext
    <3> QED
      BY <2>1, <3>1, UnknownSettledNext
  <2> QED
    BY <2>1, <2>2 DEF Counted, Only, Storing
<1>4. ASSUME NEW c \in Calls, UpdateState(c) PROVE Counted'
  <2>0. accidents' = 0 => accidents = 0
    BY AccidentsNext DEF Alive
  <2>1. UNCHANGED <<rows, links, unread, known, overlapped>>
    BY <1>4 DEF UpdateState, rowVars
  <2>2. call[c].pc = "state" /\ call'[c] = NoCall
    BY <1>4, ReleasedIs DEF UpdateState, Step, Typed
  <2>3. \A d \in Calls \ {c} : call'[d] = call[d] \/ (call[d].pc = "wait" /\ call'[d].pc = "drop")
    <3>1. ASSUME NEW q, Shaped(q) PROVE [q EXCEPT !.pc = "drop"].pc = "drop"
      BY <3>1 DEF Shaped
    <3>2. Functional /\ \A d \in Calls : Shaped(call[d])
      BY DEF Typed, CallTyped
    <3>3. \A d \in Calls \ {c} :
            \/ call'[d] = call[d]
            \/ call[d].pc = "wait" /\ call'[d] = [call[d] EXCEPT !.pc = "drop"]
      BY <1>4, <3>2, ReleasedIs DEF UpdateState
    <3> QED
      BY <3>1, <3>2, <3>3
  <2>4. ASSUME NEW d \in Calls
        PROVE  \/ call'[d] = call[d]
               \/ ~Counting(d) /\ call'[d].pc \in {"idle", "drop"}
    BY <2>2, <2>3 DEF Counting, NoCall
  <2> QED
    BY <2>0, <2>1, <2>4, StillCounted
<1>5. CASE Restart
  <2>1. accidents' # 0 /\ \A c \in Calls : call'[c] = NoCall
    BY <1>5 DEF Restart, Accident, Alive
  <2> QED
    BY <2>1 DEF Counted, Rowed, Summed, NoCall
<1>6. ASSUME UNCHANGED <<call, rows, links, unread, known, accidents, overlapped>> PROVE Counted'
  BY <1>6, StillCounted
<1>7. CASE Create \/ SaveSettings \/ SoftDelete \/ UNCHANGED vars \/ \E m \in Mails : Arrive(m)
  BY <1>6, <1>7 DEF Create, SaveSettings, SoftDelete, Arrive, vars, rowVars, mailboxVars, countVars,
                    ghostVars
<1> QED
  BY <1>1, <1>2, <1>3, <1>4, <1>5, <1>7, SyncCounted, UserCounted, BeginCounted
     DEF Next, Continue, SyncStep

LEMMA CountedInit == Init => Alive /\ Counted
<1> SUFFICES ASSUME Init PROVE Alive /\ Counted
  OBVIOUS
<1>1. \A c \in Calls : call[c].pc = "idle"
  BY DEF Init, NoCall
<1>2. Alive
  BY <1>1 DEF Init, Alive, HasSettings
<1>3. ~known
  BY DEF Init
<1>4. Settled
  BY <1>2, <1>3, UnknownSettled
<1> QED
  BY <1>1, <1>2, <1>3, <1>4 DEF Counted

(* MailboxFolderService.actualizeCounters: when nothing runs, nothing has  *)
(* failed and no two calls that store have overlapped, the counters of the *)
(* folders are those of the rows.                                          *)
THEOREM CountersAgreeCorrect == Spec => []CountersAgree
<1>1. Init => MailInv /\ Alive /\ Counted
  BY MailInit, CountedInit
<1>2. MailInv /\ Alive /\ Counted /\ [Next]_vars => (MailInv /\ Alive /\ Counted)'
  BY MailNext, AliveNext, CountedNext DEF MailInv
<1>3. Counted => CountersAgree
  BY DEF Counted, CountersAgree, Settled, Counting, NoCall
<1> QED
  BY <1>1, <1>2, <1>3, PTL DEF Spec
===============================================================================
