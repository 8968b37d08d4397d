------------------------------- MODULE MailSync -------------------------------
(***************************************************************************)
(* One mailbox of the mailing module: MailboxService and its in-memory     *)
(* lock, the cron job that synchronises the mailbox through the imapflow   *)
(* provider, and the calls of users (send, move, mark, update, delete)     *)
(* that take no lock.  Every action is what runs between two awaits on the *)
(* database or on the mail server.                                         *)
(*                                                                         *)
(* The server is external: it gives a message it files a new uid, never    *)
(* used again in that folder (one UIDVALIDITY).  A thread is one message,  *)
(* the tree of folders does not change.                                    *)
(***************************************************************************)
EXTENDS Naturals, FiniteSets, Sequences

CONSTANTS
  Mails,        \* messages, by their Message-ID
  Listing,      \* the folders of the server, in the order it lists them
  None,         \* no folder, no call
  Inbox,        \* the folders with a special use ...
  SentFolder,   \* ... (None when the server has no such folder)
  TrashFolder,
  Calls,        \* handlers that run at the same time
  Batch,        \* searchBatchSize
  MaxUid,       \* bound: uids of a folder
  MaxAsks,      \* bound: calls of users, for each kind of them
  MaxAccidents  \* bound: failures of the network, the server, the database or the backend

Asked == {"send", "move", "mark", "update", "hide", "drop"}
Folders == {Listing[i] : i \in DOMAIN Listing}

ASSUME MailSyncAssumption ==
  /\ Listing \in Seq(Folders) /\ None \notin Folders \cup Calls /\ Inbox \in Folders
  /\ {SentFolder, TrashFolder} \subseteq Folders \cup {None}
  /\ Batch \in Nat \ {0} /\ {MaxUid, MaxAccidents} \subseteq Nat /\ MaxAsks \in [Asked -> Nat]

Uid == 1..MaxUid
Unknown == 0  \* the server did not tell the uid of the appended message
Copy == [mail : Mails, folder : Folders, uid : Uid \cup {Unknown}, seen : BOOLEAN]
NoRow == 0

VARIABLES
  server,    \* the copies of messages in the folders of the server
  uidNext,   \* the uid the server gives next in a folder
  state,     \* mailbox.state; "none" before and "gone" after the row exists
  settings,  \* the row with the account on the server: awaited, saved or lost
  cursor,    \* settings.syncInfo: uidnext of a folder, 0 when it has no entry
  known,     \* the folders have been stored
  rows,      \* mail_message rows: id -> copy
  nextId,    \* the id the table gives next
  links,     \* mail_message_folder: <<id, folder>>
  unread,    \* mailbox_folder.unread
  lock,      \* MailboxLockService: the call that holds the lock
  call,      \* the handlers
  asks, accidents, \* how often it has happened
  skipped,   \* ghost: messages a synchronisation gave up
  outgoing,  \* ghost: messages sent from here
  overlapped, \* ghost: two calls that store have run at the same time
  revived,   \* ghost: a deleted mailbox has been updated
  restarted, \* ghost: the backend has been restarted
  stranded   \* ghost: a mailbox was left in the state init, with no synchronisation to come

serverVars == <<server, uidNext>>
mailboxVars == <<state, settings, cursor, known, unread>>
rowVars == <<rows, links, nextId>>
countVars == <<asks, accidents>>
ghostVars == <<skipped, outgoing, overlapped, revived, restarted, stranded>>
vars == <<serverVars, mailboxVars, rowVars, lock, call, countVars, ghostVars>>

Zero == [f \in Folders |-> 0]
Nothing == [mail |-> None, folder |-> None, uid |-> Unknown, seen |-> TRUE]

(* op, pc; full, since: what the synchronisation was asked for; ok: its    *)
(* result; todo: the folders to search; next: the sync info to save; missed,   *)
(* got: what the searches did not and did return; one: the message being   *)
(* stored and row its row; aim: the folders of the row; to: the folder to  *)
(* move to; seen: the flag to set; kept: the state update has read;        *)
(* counts: sums to write; rounds: how often actualizeCounters still runs.  *)
NoCall ==
  [op |-> "none", pc |-> "idle", full |-> FALSE, since |-> "today", ok |-> TRUE, todo |-> <<>>,
   next |-> Zero, missed |-> {}, got |-> {}, one |-> Nothing, row |-> NoRow, aim |-> {},
   to |-> None, seen |-> TRUE, kept |-> "none", counts |-> Zero, rounds |-> 0]

Init ==
  /\ server = {} /\ uidNext = [f \in Folders |-> 1]
  /\ state = "none" /\ settings = "awaited" /\ cursor = Zero /\ known = FALSE
  /\ rows = <<>> /\ links = {} /\ nextId = 1 /\ unread = Zero
  /\ lock = None /\ call = [c \in Calls |-> NoCall]
  /\ asks = [a \in Asked |-> 0] /\ accidents = 0
  /\ skipped = {} /\ outgoing = {} /\ overlapped = FALSE /\ revived = FALSE /\ restarted = FALSE
  /\ stranded = FALSE

------------------------------------------------------------------------------
(* What a state says *)

Exists == state \notin {"none", "gone"}
HasSettings == settings = "saved"
Storing(c) == call[c].op \in {"sync", "send", "move", "mark"}
Ids == DOMAIN rows
Stored(m) == \E r \in Ids : rows[r].mail = m
InBox(f) == {x \in server : x.folder = f}
Unread(f) == Cardinality({r \in Ids : <<r, f>> \in links /\ ~rows[r].seen})
MailsOf(copies) == {x.mail : x \in copies}

(* Every call that stores marks whether another one is running. *)
Begin(c, new) ==
  /\ call[c] = NoCall
  /\ call' = [call EXCEPT ![c] = new]
  /\ overlapped' = (overlapped \/ \E d \in Calls \ {c} : Storing(d))

Step(c, op, pc) == call[c].op \in op /\ call[c].pc = pc
Becomes(c, new) == call' = [call EXCEPT ![c] = new]
Accident == accidents < MaxAccidents /\ accidents' = accidents + 1
Ask(a) == asks[a] < MaxAsks[a] /\ asks' = [asks EXCEPT ![a] = @ + 1]

(* unlock: whoever waits for the lock goes on. *)
Released_Silent(c, who) == [who EXCEPT ![c] = NoCall]
Released(c, who) ==
  [d \in Calls |-> IF d = c THEN NoCall
                   ELSE IF who[d].pc = "wait" THEN [who[d] EXCEPT !.pc = "drop"] ELSE who[d]]

------------------------------------------------------------------------------
(* The mail server, external *)

Arrive(m) ==
  /\ m \notin MailsOf(server) /\ ~Stored(m) /\ uidNext[Inbox] <= MaxUid
  /\ server' = server \cup {[mail |-> m, folder |-> Inbox, uid |-> uidNext[Inbox], seen |-> FALSE]}
  /\ uidNext' = [uidNext EXCEPT ![Inbox] = @ + 1]
  /\ UNCHANGED <<mailboxVars, rowVars, lock, call, countVars, ghostVars>>

------------------------------------------------------------------------------
(* synchronize and syncMailboxWithLock *)

Request(full, since) == [NoCall EXCEPT !.op = "sync", !.pc = "connect", !.full = full, !.since = since]

(* The cron jobs take the active and the inactive mailboxes. *)
Cron(c, states) ==
  /\ state \in states /\ lock = None
  /\ lock' = c
  /\ Begin(c, Request(FALSE, "today"))
  /\ UNCHANGED <<serverVars, mailboxVars, rowVars, countVars, skipped, outgoing, revived, restarted, stranded>>
Synchronize_Active(c) == Cron(c, {"active"})
Synchronize_Deleted(c) == Cron(c, {"active", "inactive", "deleted"})
Synchronize(c) == Cron(c, {"active", "inactive"})

(* withConnection: the settings are read, then listTree and status give    *)
(* the folders with their uidNext.                                         *)
Connect(c) ==
  /\ Step(c, {"sync"}, "connect") /\ HasSettings
  /\ Becomes(c, [call[c] EXCEPT !.pc = "fetch", !.todo = Listing, !.next = uidNext])
  /\ UNCHANGED <<serverVars, mailboxVars, rowVars, lock, countVars, ghostVars>>

(* The connection or the search of a folder fails: result is false.  The   *)
(* mailbox can be gone: then reading it throws.  A first write of the      *)
(* state that fails is caught, and the state becomes inactive.             *)
SyncFails_Leaves(c) ==
  /\ Step(c, {"sync"}, "connect") /\ HasSettings /\ Accident
  /\ lock' = None
  /\ call' = Released(c, call)
  /\ UNCHANGED <<serverVars, mailboxVars, rowVars, asks, ghostVars>>
SyncFails(c) ==
  /\ \/ Step(c, {"sync"}, "connect") \/ Step(c, {"sync"}, "fetch")
     \/ Step(c, {"sync"}, "state") /\ call[c].ok
  /\ IF HasSettings \/ call[c].pc # "connect" THEN Accident ELSE UNCHANGED accidents
  /\ Becomes(c, [call[c] EXCEPT !.pc = "state", !.ok = FALSE])
  /\ UNCHANGED <<serverVars, mailboxVars, rowVars, lock, asks, ghostVars>>

(* processMessagesInFolder: a range of uids to search or, when the folder  *)
(* has no sync info, the messages since a day, today when none is given:   *)
(* any of the messages can be of an earlier day.                           *)
From_Next(c, f) == IF call[c].full \/ cursor[f] = 0 THEN 0 ELSE cursor[f] + 1
From(c, f) == IF call[c].full THEN 0 ELSE cursor[f]
UidTo(c, f) ==
  IF From(c, f) = 0 \/ From(c, f) >= call[c].next[f] \/ From(c, f) + Batch >= call[c].next[f]
  THEN call[c].next[f]
  ELSE From(c, f) + Batch
Answers(c, f) ==
  IF From(c, f) = 0
  THEN IF call[c].since = "all" THEN {InBox(f)} ELSE SUBSET InBox(f)
  ELSE IF From(c, f) >= call[c].next[f]
  THEN {{}}
  ELSE {{x \in InBox(f) : From(c, f) <= x.uid /\ x.uid <= UidTo(c, f)}}

(* withTimeout(..., []): a search that takes too long has found nothing.   *)
Search(c, f, answer) ==
  /\ Step(c, {"sync"}, "fetch") /\ f = Head(call[c].todo)
  /\ LET unseen == {x \in InBox(f) : From(c, f) <= x.uid /\ x.uid < UidTo(c, f)} \ answer
         left   == Tail(call[c].todo)
     IN Becomes(c, [call[c] EXCEPT !.todo = left, !.pc = IF left = <<>> THEN "cursor" ELSE "fetch",
                                   !.next[f] = UidTo(c, f), !.got = @ \cup answer,
                                   !.missed = @ \cup unseen])
  /\ UNCHANGED <<serverVars, mailboxVars, rowVars, lock, asks, ghostVars>>
ProcessFolder(c, f) == UNCHANGED accidents /\ \E answer \in Answers(c, f) : Search(c, f, answer)
SearchTimesOut(c, f) == {} \notin Answers(c, f) /\ Accident /\ Search(c, f, {})

(* updateSyncInfo: before the messages are stored. *)
UpdateSyncInfo(c) ==
  /\ Step(c, {"sync"}, "cursor")
  /\ cursor' = IF HasSettings THEN call[c].next ELSE cursor
  /\ skipped' = skipped \cup MailsOf(call[c].missed)
  /\ Becomes(c, [Request(FALSE, "today") EXCEPT !.pc = "folders", !.got = call[c].got])
  /\ UNCHANGED <<serverVars, state, settings, known, unread, rowVars, lock, countVars, outgoing, overlapped, revived, restarted, stranded>>

(* MailboxFolderService.processExternal *)
ProcessExternal(c) ==
  /\ Step(c, {"sync"}, "folders") /\ Exists
  /\ known' = TRUE
  /\ Becomes(c, [call[c] EXCEPT !.pc = IF call[c].got = {} THEN "state" ELSE "find", !.rounds = 1])
  /\ UNCHANGED <<serverVars, state, settings, cursor, unread, rowVars, lock, countVars, ghostVars>>

(* updateState, whatever the state has become meanwhile, and unlock.  When *)
(* the database takes neither this write nor that of the catch, the state  *)
(* stays what it was and the lock is released all the same.                *)
UpdateState(c) ==
  /\ Step(c, {"sync"}, "state")
  /\ \/ /\ state' = IF ~Exists THEN state ELSE IF call[c].ok THEN "active" ELSE "inactive"
        /\ UNCHANGED <<accidents, stranded>>
     \/ Accident /\ UNCHANGED state /\ stranded' = (stranded \/ state = "init")
  /\ lock' = None
  /\ call' = Released(c, call)
  /\ UNCHANGED <<serverVars, settings, cursor, known, unread, rowVars, asks,
                 skipped, outgoing, overlapped, revived, restarted>>

------------------------------------------------------------------------------
(* processExternalMessages, for a synchronisation and for a sent message *)

(* upsertMessage looks for the external id or for the Message-ID, among    *)
(* rows that others may be inserting.                                      *)
Known_ById(x) ==
  {r \in Ids : x.uid # Unknown /\ rows[r].uid = x.uid /\ rows[r].folder = x.folder}
Known(x) ==
  {r \in Ids : \/ rows[r].mail = x.mail
               \/ x.uid # Unknown /\ rows[r].uid = x.uid /\ rows[r].folder = x.folder}
FindMessage(c) ==
  /\ Step(c, {"sync", "send"}, "find") /\ Exists
  /\ \E x \in call[c].got :
       \E r \in IF Known(x) = {} THEN {NoRow} ELSE Known(x) :
         Becomes(c, [call[c] EXCEPT !.pc = "write", !.one = x, !.row = r])
  /\ UNCHANGED <<serverVars, mailboxVars, rowVars, lock, countVars, ghostVars>>

(* addMessage saves a new row; updateMessage the columns of the row it has *)
(* found, if it is still there, and deletes its links: taken as one step.  *)
WriteMessage(c) ==
  /\ Step(c, {"sync", "send"}, "write") /\ Exists
  /\ LET new == call[c].row = NoRow
         r   == IF new THEN nextId ELSE call[c].row
     IN /\ rows' = [i \in Ids \cup (IF new THEN {r} ELSE {}) |-> IF i = r THEN call[c].one ELSE rows[i]]
        /\ nextId' = IF new THEN r + 1 ELSE nextId
        /\ links' = {l \in links : l[1] # r}
        /\ Becomes(c, [call[c] EXCEPT !.pc = "link", !.row = r])
  /\ UNCHANGED <<serverVars, mailboxVars, lock, countVars, ghostVars>>

(* The link to the folder, if the folder is known: a second one to the     *)
(* same folder is refused, and one of a row that is gone.                  *)
Link(c) == {l \in {<<call[c].row, call[c].one.folder>>} : known}
LinkMessage(c) ==
  /\ Step(c, {"sync", "send"}, "link") /\ Exists
  /\ known => call[c].row \in Ids /\ Link(c) \cap links = {}
  /\ links' = links \cup Link(c)
  /\ LET left == call[c].got \ {call[c].one}
     IN Becomes(c, [call[c] EXCEPT !.got = left, !.one = Nothing, !.row = NoRow,
                                   !.pc = IF left = {} THEN "sum" ELSE "find"])
  /\ UNCHANGED <<serverVars, mailboxVars, rows, nextId, lock, countVars, ghostVars>>

(* An error in there ends the whole batch: the mailbox becomes inactive    *)
(* and what is left of the batch is not asked for again.                   *)
Refused(c) ==
  \/ ~Exists
  \/ call[c].pc = "link" /\ known /\ (call[c].row \notin Ids \/ Link(c) \subseteq links)
StoreFails(c) ==
  /\ Step(c, {"sync"}, "folders") \/ \E pc \in {"find", "write", "link"} : Step(c, {"sync", "send"}, pc)
  /\ IF Refused(c) THEN UNCHANGED accidents ELSE Accident
  /\ skipped' = skipped \cup {m \in MailsOf(call[c].got) : call[c].op = "sync" /\ ~Stored(m)}
  /\ Becomes(c, IF call[c].op = "send" THEN NoCall
                ELSE [call[c] EXCEPT !.pc = "state", !.ok = FALSE, !.got = {}, !.one = Nothing,
                                     !.row = NoRow])
  /\ UNCHANGED <<serverVars, mailboxVars, rowVars, lock, asks, outgoing, overlapped, revived, restarted, stranded>>

(* actualizeCounters: one query, then one update for each folder. *)
SumCounters(c) ==
  /\ Step(c, {"sync", "send", "move", "mark"}, "sum")
  /\ Becomes(c, [call[c] EXCEPT !.pc = "put", !.counts = [f \in Folders |-> Unread(f)]])
  /\ UNCHANGED <<serverVars, mailboxVars, rowVars, lock, countVars, ghostVars>>

ActualizeCounters(c) ==
  /\ Step(c, {"sync", "send", "move", "mark"}, "put")
  /\ unread' = IF known THEN call[c].counts ELSE unread
  /\ Becomes(c, CASE call[c].rounds > 1 -> [call[c] EXCEPT !.pc = "sum", !.rounds = @ - 1]
                  [] call[c].op = "sync" -> [call[c] EXCEPT !.pc = "state"]
                  [] OTHER -> NoCall)
  /\ UNCHANGED <<serverVars, state, settings, cursor, known, rowVars, lock, countVars, ghostVars>>

------------------------------------------------------------------------------
(* Calls of users: none of them takes the lock. *)

Live(f) == IF known THEN f ELSE None

(* sendMessageForMailbox: the message goes out, then a copy is appended to *)
(* the folder of sent messages, if the mailbox has one and its server      *)
(* takes it.  Without a copy nothing is stored.                            *)
AskSend(c) ==
  /\ Exists /\ Ask("send")
  /\ Begin(c, [NoCall EXCEPT !.op = "send", !.pc = "send"])
  /\ UNCHANGED <<serverVars, mailboxVars, rowVars, lock, accidents, skipped, outgoing, revived, restarted, stranded>>
CanSend(m) ==
  HasSettings /\ Live(SentFolder) # None /\ uidNext[SentFolder] <= MaxUid /\ m \notin MailsOf(server) /\ ~Stored(m)
Send(c, m, told) ==
  /\ Step(c, {"send"}, "send") /\ CanSend(m)
  /\ LET x == [mail |-> m, folder |-> SentFolder, uid |-> uidNext[SentFolder], seen |-> TRUE]
     IN /\ server' = server \cup {x}
        /\ uidNext' = [uidNext EXCEPT ![SentFolder] = @ + 1]
        /\ Becomes(c, [call[c] EXCEPT !.pc = "find", !.rounds = 2,
                                      !.got = {IF told THEN x ELSE [x EXCEPT !.uid = Unknown]}])
        /\ outgoing' = outgoing \cup {m}
  /\ UNCHANGED <<mailboxVars, rowVars, lock, countVars, skipped, overlapped, revived, restarted, stranded>>
SendKeepsNothing(c) ==
  /\ Step(c, {"send"}, "send")
  /\ IF \E m \in Mails : CanSend(m) THEN Accident ELSE UNCHANGED accidents
  /\ Becomes(c, NoCall)
  /\ UNCHANGED <<serverVars, mailboxVars, rowVars, lock, asks, ghostVars>>

(* trashThread, untrashThread, spamThread, unspamThread, markSeenThread    *)
(* and markUnseenThread: first the thread's messages by folder ...         *)
FoldersOf(r) == {f \in Folders : <<r, f>> \in links}
AskThread(c, op, r, to, seen) ==
  /\ Exists /\ r \in Ids /\ Ask(op)
  /\ Begin(c, [NoCall EXCEPT !.op = op, !.pc = "serve", !.row = r, !.one = rows[r],
                             !.aim = FoldersOf(r), !.to = Live(to), !.seen = seen])
  /\ UNCHANGED <<serverVars, mailboxVars, rowVars, lock, accidents, skipped, outgoing, revived, restarted, stranded>>

(* ... then the server, which is asked for the uid of the external id in   *)
(* the folder the message is linked to, whatever folder that uid is of.    *)
Aimed_Anywhere(c) == {x \in server : x.uid = call[c].one.uid}
Aimed(c) == {x \in server : x.folder \in call[c].aim /\ x.uid = call[c].one.uid}
Addressed(c) == HasSettings /\ call[c].aim # {} /\ call[c].one.uid # Unknown
Moves(c) == call[c].to # None /\ Aimed(c) # {}
Fits(c) == Moves(c) => uidNext[call[c].to] + Cardinality(Aimed(c)) <= MaxUid + 1
MoveMessages(c) ==
  /\ Step(c, {"move"}, "serve") /\ Addressed(c) /\ Fits(c)
  /\ \/ /\ Moves(c)
        /\ \E uid \in [Aimed(c) -> Uid] :
             /\ {uid[x] : x \in Aimed(c)} =
                  uidNext[call[c].to]..(uidNext[call[c].to] + Cardinality(Aimed(c)) - 1)
             /\ server' = (server \ Aimed(c))
                  \cup {[x EXCEPT !.folder = call[c].to, !.uid = uid[x]] : x \in Aimed(c)}
        /\ uidNext' = [uidNext EXCEPT ![call[c].to] = @ + Cardinality(Aimed(c))]
        /\ UNCHANGED accidents
     \/ ~Moves(c) /\ UNCHANGED <<server, uidNext, accidents>>
     \/ Accident /\ UNCHANGED <<server, uidNext>>  \* withMailbox hides the error of a folder
  /\ Becomes(c, [call[c] EXCEPT !.pc = IF call[c].to = None THEN "sum" ELSE "unlink", !.rounds = 1])
  /\ UNCHANGED <<mailboxVars, rowVars, lock, asks, ghostVars>>
ChangeFlags(c) ==
  /\ Step(c, {"mark"}, "serve") /\ Addressed(c)
  /\ \/ /\ server' = (server \ Aimed(c)) \cup {[x EXCEPT !.seen = call[c].seen] : x \in Aimed(c)}
        /\ UNCHANGED accidents
     \/ Accident /\ UNCHANGED server
  /\ Becomes(c, [call[c] EXCEPT !.pc = "set", !.rounds = 1])
  /\ UNCHANGED <<uidNext, mailboxVars, rowVars, lock, asks, ghostVars>>
(* No connection, no folder or no uid to ask for: false, and nothing more. *)
ServerRefuses(c) ==
  /\ Step(c, {"move", "mark"}, "serve")
  /\ IF Addressed(c) /\ Fits(c) THEN Accident ELSE UNCHANGED accidents
  /\ Becomes(c, NoCall)
  /\ UNCHANGED <<serverVars, mailboxVars, rowVars, lock, asks, ghostVars>>

(* moveMessagesToSpecialFolder: the links are deleted, then inserted, which *)
(* fails for a link that is there and for a row or a folder that is gone.  *)
Unlink(c, row) ==
  /\ Step(c, {"move"}, "unlink")
  /\ links' = {l \in links : l[1] # row}
  /\ Becomes(c, [call[c] EXCEPT !.pc = "relink"])
  /\ UNCHANGED <<serverVars, mailboxVars, rows, nextId, lock, countVars, ghostVars>>
DeleteLinks_None(c) == Unlink(c, NoRow)
DeleteLinks(c) == Unlink(c, call[c].row)
InsertLinks(c) ==
  /\ Step(c, {"move"}, "relink")
  /\ IF known /\ call[c].row \in Ids /\ <<call[c].row, call[c].to>> \notin links
     THEN /\ links' = links \cup {<<call[c].row, call[c].to>>}
          /\ Becomes(c, [call[c] EXCEPT !.pc = "sum"])
     ELSE UNCHANGED links /\ Becomes(c, NoCall)
  /\ UNCHANGED <<serverVars, mailboxVars, rows, nextId, lock, countVars, ghostVars>>

(* MailMessageService.markSeenThread: both calls pass isSeen = true. *)
Mark(c, after) ==
  /\ Step(c, {"mark"}, "set")
  /\ rows' = [r \in Ids |-> IF r = call[c].row THEN [rows[r] EXCEPT !.seen = TRUE] ELSE rows[r]]
  /\ Becomes(c, after)
  /\ UNCHANGED <<serverVars, mailboxVars, links, nextId, lock, countVars, ghostVars>>
MarkSeen_Uncounted(c) == Mark(c, NoCall)
MarkSeen(c) == Mark(c, [call[c] EXCEPT !.pc = "sum"])

------------------------------------------------------------------------------
(* The mailbox itself *)

Create ==
  /\ state = "none" /\ state' = "draft"
  /\ UNCHANGED <<serverVars, settings, cursor, known, unread, rowVars, lock, call, countVars, ghostVars>>
(* The account is verified; one that is refused leaves a draft for good. *)
SaveSettings ==
  /\ Exists /\ settings = "awaited" /\ settings' = "saved"
  /\ UNCHANGED <<serverVars, state, cursor, known, unread, rowVars, lock, call, countVars, ghostVars>>

(* update reads the row and saves it, its state included, which inserts it *)
(* again when it has been deleted meanwhile; whether the mailbox has an    *)
(* account does not matter.                                                *)
ReadForUpdate(c) ==
  /\ Exists /\ Ask("update") /\ call[c] = NoCall
  /\ Becomes(c, [NoCall EXCEPT !.op = "update", !.pc = "save",
                               !.kept = IF state = "draft" THEN "init" ELSE state])
  /\ revived' = (revived \/ state = "deleted")
  /\ UNCHANGED <<serverVars, mailboxVars, rowVars, lock, accidents, skipped, outgoing, overlapped, restarted, stranded>>
SaveUpdate(c) ==
  /\ Step(c, {"update"}, "save")
  /\ state' = call[c].kept
  /\ Becomes(c, [call[c] EXCEPT !.pc = "start"])
  /\ UNCHANGED <<serverVars, settings, cursor, known, unread, rowVars, lock, countVars, ghostVars>>

(* Once the accessible users and the entity settings are saved too, it     *)
(* asks for a synchronisation, which ends at once when another one has the *)
(* lock: a full one if the mailbox was a draft.                            *)
Update(c, since) ==
  /\ Step(c, {"update"}, "start")
  /\ IF lock = None
     THEN /\ lock' = c
          /\ Becomes(c, Request(call[c].kept = "init", since))
          /\ overlapped' = (overlapped \/ \E d \in Calls \ {c} : Storing(d))
     ELSE UNCHANGED <<lock, overlapped>> /\ Becomes(c, NoCall)
  /\ UNCHANGED <<serverVars, mailboxVars, rowVars, countVars, skipped, outgoing, revived, restarted, stranded>>

(* One of these writes fails: nothing asks for the synchronisation.        *)
UpdateFails(c) ==
  /\ Step(c, {"update"}, "save") \/ Step(c, {"update"}, "start")
  /\ Accident
  /\ Becomes(c, NoCall)
  /\ stranded' = (stranded \/ (call[c].pc = "start" /\ state = "init" /\ lock = None))
  /\ UNCHANGED <<serverVars, mailboxVars, rowVars, lock, asks, skipped, outgoing, overlapped, revived, restarted>>

(* delete with softDelete *)
SoftDelete ==
  /\ Exists /\ state # "deleted" /\ Ask("hide")
  /\ state' = "deleted"
  /\ UNCHANGED <<serverVars, settings, cursor, known, unread, rowVars, lock, call, accidents, ghostVars>>

(* delete without: it waits for the lock to be released, but does not take *)
(* it.  The rows of the mailbox go with it.                                *)
AskDelete(c) ==
  /\ Exists /\ Ask("drop") /\ call[c] = NoCall
  /\ Becomes(c, [NoCall EXCEPT !.op = "drop", !.pc = IF lock = None THEN "drop" ELSE "wait"])
  /\ UNCHANGED <<serverVars, mailboxVars, rowVars, lock, accidents, ghostVars>>
Delete(c) ==
  /\ Step(c, {"drop"}, "drop")
  /\ state' = "gone" /\ cursor' = Zero /\ known' = FALSE /\ unread' = Zero /\ settings' = "lost"
  /\ rows' = <<>> /\ links' = {}
  /\ Becomes(c, NoCall)
  /\ UNCHANGED <<serverVars, nextId, lock, countVars, ghostVars>>

(* The backend restarts: handlers, the lock and those who wait are lost. *)
Restart ==
  /\ Accident /\ restarted' = TRUE
  /\ \E c \in Calls : call[c] # NoCall
  /\ LET late == {c \in Calls : call[c].op = "sync" /\ call[c].pc \notin {"fetch", "cursor"}}
     IN skipped' = skipped \cup {m \in Mails : ~Stored(m) /\ \E c \in late : m \in MailsOf(call[c].got)}
  /\ call' = [c \in Calls |-> NoCall] /\ lock' = None
  /\ UNCHANGED <<serverVars, mailboxVars, rowVars, asks, outgoing, overlapped, revived, stranded>>

------------------------------------------------------------------------------
(* The steps of a handler that has begun *)
SyncStep(c) ==
  \/ Connect(c) \/ SyncFails(c)
  \/ \E f \in Folders : ProcessFolder(c, f) \/ SearchTimesOut(c, f)
  \/ UpdateSyncInfo(c) \/ ProcessExternal(c) \/ UpdateState(c)
StoreStep(c) ==
  \/ FindMessage(c) \/ WriteMessage(c) \/ LinkMessage(c) \/ StoreFails(c)
  \/ SumCounters(c) \/ ActualizeCounters(c)
UserStep(c) ==
  \/ \E m \in Mails, told \in BOOLEAN : Send(c, m, told)
  \/ SendKeepsNothing(c)
  \/ MoveMessages(c) \/ ChangeFlags(c) \/ ServerRefuses(c)
  \/ DeleteLinks(c) \/ InsertLinks(c) \/ MarkSeen(c)
  \/ SaveUpdate(c) \/ UpdateFails(c) \/ \E since \in {"all", "today"} : Update(c, since)
  \/ Delete(c)
Continue(c) == SyncStep(c) \/ StoreStep(c) \/ UserStep(c)

AskStep(c) ==
  \/ AskSend(c) \/ ReadForUpdate(c) \/ AskDelete(c)
  \/ \E r \in Ids, to \in {TrashFolder, Inbox} : AskThread(c, "move", r, to, TRUE)
  \/ \E r \in Ids, seen \in BOOLEAN : AskThread(c, "mark", r, None, seen)

Next ==
  \/ \E m \in Mails : Arrive(m)
  \/ Create \/ SaveSettings \/ SoftDelete \/ Restart
  \/ \E c \in Calls : Synchronize(c) \/ Continue(c) \/ AskStep(c)

(* Handlers go on and the cron jobs keep coming; users, the server and     *)
(* failures need not.                                                      *)
Fairness ==
  /\ \A c \in Calls : WF_vars(Continue(c))
  /\ WF_vars(\E c \in Calls : Synchronize(c))

Spec == Init /\ [][Next]_vars /\ Fairness

------------------------------------------------------------------------------
(* Properties *)

(* syncInfo: a message that the saved uidnext of its folder has left       *)
(* behind is stored, about to be, or was given up by a search that timed   *)
(* out or looked at today only, a failed batch or a restart.               *)
NothingSkipped ==
  Exists => \A x \in server :
    x.uid < cursor[x.folder] =>
      \/ Stored(x.mail) \/ x.mail \in skipped
      \/ \E c \in Calls : call[c].op = "sync" /\ x.mail \in MailsOf(call[c].got)

(* upsertMessage, under the lock: a message is not stored twice, but for   *)
(* one that was sent from here while another call was storing.             *)
StoredOnce ==
  \A r, s \in Ids :
    rows[r].mail = rows[s].mail /\ r # s => overlapped /\ rows[r].mail \in outgoing

(* The imapflow provider asks for a uid in the folder a message is linked  *)
(* to: it moves or flags another message only when the thread had been     *)
(* moved here since its folder was last synchronised.                      *)
TouchesItsOwn ==
  [][\A c \in Calls :
       call[c].pc = "serve" /\ call'[c] # call[c] =>
         \A x \in server \ server' :
           x.mail = call[c].one.mail \/ x.folder \in call[c].aim \ {call[c].one.folder}]_vars

(* A row is linked to one folder at most as long as no two calls that      *)
(* store have overlapped.                                                  *)
InOneFolder == overlapped \/ \A r \in Ids : Cardinality(FoldersOf(r)) <= 1

(* actualizeCounters: when nothing runs, nothing has failed and no two     *)
(* calls have overlapped, the counters are those of the rows.              *)
CountersAgree ==
  (\A c \in Calls : call[c] = NoCall) /\ ~overlapped /\ accidents = 0 =>
    \A f \in Folders : unread[f] = Unread(f)

(* delete with softDelete: once no synchronisation and no update runs, a   *)
(* deleted mailbox stays deleted until somebody updates or deletes it.     *)
Quiet == lock = None /\ \A c \in Calls : call[c].op \notin {"sync", "update"}
DeletedForGood ==
  [](state = "deleted" /\ Quiet => [](state \in {"deleted", "gone"} \/ revived))

(* Every message on the server gets stored, as long as the mailbox is in   *)
(* use and has its settings, unless it is given up.                        *)
InUse == HasSettings /\ state \in {"active", "inactive"}
MessagesArrive ==
  \A m \in Mails : (m \in MailsOf(server)) ~> (Stored(m) \/ m \in skipped \/ ~InUse)

(* waitForUnlock: a delete that waits goes on, unless the backend restarts. *)
DeleteEnds == \A c \in Calls : call[c].op = "drop" ~> state = "gone" \/ restarted

(* A mailbox leaves the state init, though no cron job takes it from       *)
(* there, unless the backend restarts, an update fails after its save or   *)
(* the database does not take the result of the synchronisation.           *)
InitEnds == state = "init" ~> state # "init" \/ restarted \/ stranded
==============================================================================
