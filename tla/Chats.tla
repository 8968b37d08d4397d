-------------------------------- MODULE Chats --------------------------------
(***************************************************************************)
(* Chats with the contacts of a messenger: ChatService, ChatUserService,   *)
(* ChatMessageService, ChatProviderService and WazzupProviderService.  A   *)
(* contact can be written to at an address made of his phone number before *)
(* his own address is known; the provider's answer to the first message    *)
(* tells it.  Then the chat takes this address, or is merged into the chat *)
(* that has it already.                                                    *)
(*                                                                         *)
(* Every awaited repository call is one action, except that a read whose   *)
(* only use is to let the next write fail is part of that write.           *)
(* Variables that start with the word "ghost" in their comment record      *)
(* history for the properties; no action of the code reads them.           *)
(***************************************************************************)
EXTENDS Integers, FiniteSets

CONSTANTS
  User,         \* users of the account
  Responsible,  \* those the provider puts into each new chat
  Contact,      \* what chat_user_external tells contacts apart by
  Profile,      \* the contact as the messenger's webhook describes him
  Typed,        \* the contact as a user describes him
  Address,      \* chat.external_id
  Resolved,     \* [Address -> Address]: the address the provider answers with
  Request,      \* calls; each writes at most one message
  Lists,        \* participants an update may ask for
  NoList,       \* an update without participants
  None,
  MaxActive,    \* bound: calls running at the same time
  MaxAsks,      \* bound: calls of each kind
  MaxAborts,    \* bound: calls lost half-way
  MaxChat,      \* bound: chats ever created
  InitialAddress  \* the address of the chat that is there at first

Kind == {"receive", "create", "send", "update", "delete"}
Chat == 1..MaxChat
Who == User \cup Contact

ASSUME ChatsAssumption ==
  /\ Responsible \subseteq User /\ User \cap Contact = {} /\ {Profile, Typed} \subseteq Contact
  /\ Resolved \in [Address -> Address] /\ InitialAddress \in Address
  /\ \A a \in Address : Resolved[Resolved[a]] = Resolved[a]
  /\ Lists \subseteq SUBSET User /\ NoList \notin Lists /\ None \notin Who \cup Address
  /\ MaxAsks \in [Kind -> Nat]
  /\ MaxActive \in Nat /\ MaxAborts \in Nat /\ MaxChat \in Nat \ {0}

VARIABLES
  chats,      \* chat rows that exist
  addr,       \* their external_id
  owner,      \* their created_by
  members,    \* chat_user rows: id, chat, who
  messages,   \* chat_message rows: id, chat, by (a chat_user), origin
  lastChat, lastMember, lastMessage,  \* identity columns
  call,       \* the calls
  stored,     \* ghost: requests whose message was stored
  disturbed,  \* ghost: requests whose reads another one's write has overtaken, or lost
  raced,      \* ghost: addresses written by a disturbed request
  gone,       \* ghost: messages in a chat or of a member a user has removed, or too late for
              \* a merge, or in a chat merged by a disturbed request
  repeated    \* ghost: messages a merge broke off on, or two merges copied

rowVars == <<chats, addr, owner, lastChat>>
memberVars == <<members, lastMember>>
messageVars == <<messages, lastMessage, stored>>
ghosts == <<disturbed, raced, gone, repeated>>
vars == <<rowVars, memberVars, messageVars, call, ghosts>>

------------------------------------------------------------------------------
(* Queries *)

NoCall ==
  [kind |-> "none", stage |-> "new", chat |-> 0, addr |-> None, who |-> None, list |-> NoList,
   to |-> 0, by |-> 0, left |-> 0, users |-> {}, want |-> {}, rest |-> {}, authors |-> {}]
Ended == {"new", "done", "failed", "unlinked"}
At(r, stage) == call[r].stage = stage
Running(r) == call[r].stage \notin Ended
Goto(r, stage) == call' = [call EXCEPT ![r].stage = stage]

Found(a) == {k \in chats : addr[k] = a}
MembersOf(k) == {m \in members : m.chat = k}
ContactsOf(k) == {m \in MembersOf(k) : m.who \in Contact}
Those(M) == {m.who : m \in M}
Origins(M) == {m.origin : m \in M}

(* Changed forms of the next definitions: the bugs the properties must see. *)
Existing_None(a) == {}
AfterMember_Drop(found) == IF found THEN "write" ELSE "done"
Listed_Page(k) ==
  LET M == {x \in messages : x.chat = k} IN {x \in M : \A y \in M : y.id <= x.id}

(* The chats createExternalChat looks for before it creates one. *)
Existing(a) == Found(a)

(* getChatUserExternal: a chat without a contact gets one. *)
AfterMember(found) == IF found THEN "write" ELSE "contact"

(* The messages mergeChat copies. *)
Listed(k) == {x \in messages : x.chat = k}

(* Call q has looked for a chat with address a and found none. *)
Seeks(q, a) ==
  \/ call[q].stage \in {"again", "insert"} /\ call[q].addr = a
  \/ call[q].stage \in {"readdress", "resave"} /\ Resolved[call[q].addr] = a

(* Call q works on chat k, which it has read. *)
WorksOn(q, k) == Running(q) /\ call[q].chat = k /\ call[q].stage # "notify"

Merging == {"authors", "copy", "drop"}

------------------------------------------------------------------------------
(* Writes *)

Others(r) == Request \ {r}

(* A save of chat k with address a: the row is inserted if it is not there. *)
PutChat(r, k, a) ==
  /\ chats' = chats \cup {k} /\ addr' = [addr EXCEPT ![k] = a]
  /\ disturbed' = IF k \in chats /\ addr[k] = a THEN disturbed
                  ELSE disturbed \cup {q \in Others(r) : Seeks(q, a) \/ WorksOn(q, k)}
  /\ raced' = IF r \in disturbed THEN raced \cup {a} ELSE raced

(* The chat goes with its members and messages, by foreign keys. *)
RemoveChat(r, k) ==
  /\ chats' = chats \ {k}
  /\ members' = {m \in members : m.chat # k}
  /\ messages' = {m \in messages : m.chat # k}
  /\ disturbed' = disturbed \cup {q \in Others(r) : Running(q) /\ call[q].chat = k}

NewMember(k, w) == [id |-> lastMember + 1, chat |-> k, who |-> w]
AddMember(k, w) ==
  /\ members' = members \cup {NewMember(k, w)}
  /\ lastMember' = lastMember + 1

AddMessage(k, by, origin) ==
  /\ messages' = messages \cup {[id |-> lastMessage + 1, chat |-> k, by |-> by, origin |-> origin]}
  /\ lastMessage' = lastMessage + 1

Fail(r) == Goto(r, "failed")

------------------------------------------------------------------------------
(* Incoming messages and createExternalChat *)

Asked(kind) == Cardinality({r \in Request : call[r].kind = kind})

First == [receive |-> "lookup", create |-> "again", send |-> "write", update |-> "load"]

Open(r, kind, k, a, w, list) ==
  /\ At(r, "new") /\ Asked(kind) < MaxAsks[kind]
  /\ Cardinality({q \in Request : Running(q)}) < MaxActive
  /\ call' = [call EXCEPT ![r].kind = kind, ![r].stage = First[kind], ![r].chat = k,
                          ![r].addr = a, ![r].who = w, ![r].list = list]
  /\ UNCHANGED <<rowVars, memberVars, messageVars, ghosts>>

(* Where config.enqueue is set the messages come one after the other, which  *)
(* is one of the orders in which these calls run.                            *)
Receive(r, a) == Open(r, "receive", 0, a, Profile, NoList)

Lookup(r) ==
  /\ At(r, "lookup")
  /\ \/ \E k \in Found(call[r].addr) :
          call' = [call EXCEPT ![r].stage = "member", ![r].chat = k]
     \/ Found(call[r].addr) = {} /\ Goto(r, "again")
  /\ UNCHANGED <<rowVars, memberVars, messageVars, ghosts>>

FindMember(r) ==
  LET C == ContactsOf(call[r].chat) IN
  /\ At(r, "member")
  /\ \/ \E m \in C : call' = [call EXCEPT ![r].stage = AfterMember(TRUE), ![r].by = m.id]
     \/ C = {} /\ Goto(r, AfterMember(FALSE))
  /\ UNCHANGED <<rowVars, memberVars, messageVars, ghosts>>

(* The contact addUsers adds to a chat that is there ("contact"), and the    *)
(* last member createForChat adds to a new one ("last").                     *)
InsertContact(r) ==
  LET c == call[r] IN
  /\ call[r].stage \in {"contact", "last"}
  /\ IF c.chat \in chats
       THEN /\ AddMember(c.chat, IF c.kind = "receive" THEN Profile ELSE Typed)
            /\ call' = [call EXCEPT ![r].by = lastMember',
                          ![r].stage = IF c.stage = "last" THEN "link" ELSE "write"]
       ELSE Fail(r) /\ UNCHANGED memberVars
  /\ UNCHANGED <<rowVars, messageVars, ghosts>>

(* createLinkedEntities, where the provider has entity settings: it throws   *)
(* when they name no type, when the chat has no contact any more, or when    *)
(* the entity cannot be created, and the message is dropped.  The save of    *)
(* the chat it does not wait for is an update without a list, which Begin    *)
(* may open at any time.                                                     *)
Linked(r) == IF call[r].kind = "receive" THEN "write" ELSE "done"
Link(r) ==
  /\ At(r, "link") /\ (Goto(r, Linked(r)) \/ Goto(r, "unlinked"))
  /\ UNCHANGED <<rowVars, memberVars, messageVars, ghosts>>

(* createExternalChat *)
Again(r) ==
  /\ At(r, "again")
  /\ \/ \E k \in Existing(call[r].addr) :
          call' = [call EXCEPT ![r].stage = "full", ![r].chat = k]
     \/ Existing(call[r].addr) = {} /\ Goto(r, "insert")
  /\ UNCHANGED <<rowVars, memberVars, messageVars, ghosts>>

InsertChat(r) ==
  LET c == call[r] IN
  /\ At(r, "insert") /\ lastChat < MaxChat
  /\ lastChat' = lastChat + 1
  /\ PutChat(r, lastChat', c.addr)
  /\ owner' = [owner EXCEPT ![lastChat'] = IF c.kind = "create" THEN c.who ELSE None]
  /\ LET W == Responsible \cup (IF c.kind = "create" THEN {c.who} ELSE {}) IN
     call' = [call EXCEPT ![r].chat = lastChat', ![r].want = W,
                          ![r].stage = IF W = {} THEN "last" ELSE "fill"]
  /\ UNCHANGED <<memberVars, messageVars, gone, repeated>>

(* createForChat: owners, users and supervisors, one by one. *)
Fill(r, u) ==
  LET c == call[r] IN
  /\ At(r, "fill") /\ u \in c.want
  /\ IF c.chat \in chats
       THEN /\ AddMember(c.chat, u)
            /\ call' = [call EXCEPT ![r].want = @ \ {u},
                          ![r].stage = IF c.want = {u} THEN "last" ELSE "fill"]
       ELSE Fail(r) /\ UNCHANGED memberVars
  /\ UNCHANGED <<rowVars, messageVars, ghosts>>

(* getChatFull throws when the chat is gone. *)
Full(r) ==
  /\ At(r, "full")
  /\ Goto(r, IF call[r].chat \in chats THEN "users" ELSE "failed")
  /\ UNCHANGED <<rowVars, memberVars, messageVars, ghosts>>

(* The message's contact is looked for among the members: without him the   *)
(* message is dropped.  A user who creates a chat that exists joins it.     *)
Users(r) ==
  LET c == call[r]
      M == MembersOf(c.chat)
  IN
  /\ At(r, "users")
  /\ \/ \E m \in M : /\ c.kind = "receive" /\ m.who = Profile
                     /\ call' = [call EXCEPT ![r].stage = "write", ![r].by = m.id]
     \/ c.kind = "receive" /\ Profile \notin Those(M) /\ Goto(r, "done")
     \/ c.kind = "create" /\ Goto(r, IF c.who \in Those(M) THEN "done" ELSE "join")
  /\ UNCHANGED <<rowVars, memberVars, messageVars, ghosts>>

Join(r) ==
  LET c == call[r] IN
  /\ At(r, "join")
  /\ IF c.chat \in chats
       THEN AddMember(c.chat, c.who) /\ Goto(r, "done")
       ELSE Fail(r) /\ UNCHANGED memberVars
  /\ UNCHANGED <<rowVars, messageVars, ghosts>>

(* createExternal and create: save.  Too late for a merge that has read the  *)
(* messages of the chat, the message is deleted with it.                     *)
Write(r) ==
  LET c == call[r]
      B == IF c.kind = "receive" THEN {m \in members : m.id = c.by}
                                 ELSE {m \in MembersOf(c.chat) : m.who = c.who}
      late == \E q \in Others(r) : call[q].stage \in Merging /\ call[q].chat = c.chat
  IN
  /\ At(r, "write")
  /\ \/ \E m \in B :
          /\ AddMessage(c.chat, m.id, r)
          /\ stored' = stored \cup {r}
          /\ gone' = IF late THEN gone \cup {r} ELSE gone
          /\ call' = [call EXCEPT ![r].stage = "notify", ![r].by = m.id]
     \/ B = {} /\ Fail(r) /\ UNCHANGED <<messageVars, gone>>
  /\ UNCHANGED <<rowVars, memberVars, disturbed, raced, repeated>>

------------------------------------------------------------------------------
(* A new message goes to the chat's contacts but its author: notifyUsers and *)
(* sendMessage, which nobody waits for                                       *)

Notify(r) ==
  LET k == call[r].chat IN
  /\ At(r, "notify")
  /\ IF k \in chats THEN call' = [call EXCEPT ![r].stage = "contacts", ![r].addr = addr[k]]
                    ELSE Goto(r, "done")
  /\ UNCHANGED <<rowVars, memberVars, messageVars, ghosts>>

ReadContacts(r) ==
  LET C == {m \in ContactsOf(call[r].chat) : m.id # call[r].by} IN
  /\ At(r, "contacts")
  /\ IF C # {} THEN call' = [call EXCEPT ![r].stage = "post", ![r].left = Cardinality(C)]
               ELSE Goto(r, "done")
  /\ UNCHANGED <<rowVars, memberVars, messageVars, ghosts>>

(* The rest of the loop over the contacts; errors of one are only logged. *)
NextPost(r) ==
  call' = [call EXCEPT ![r].stage = IF call[r].left > 1 THEN "post" ELSE "done",
                       ![r].left = @ - 1, ![r].users = {}, ![r].want = {}, ![r].rest = {},
                       ![r].authors = {}]

Post(r) ==
  /\ At(r, "post")
  /\ \/ Resolved[call[r].addr] # call[r].addr /\ Goto(r, "exists")
     \/ NextPost(r)
  /\ UNCHANGED <<rowVars, memberVars, messageVars, ghosts>>

Exists(r) ==
  LET E == Found(Resolved[call[r].addr]) IN
  /\ At(r, "exists")
  /\ \/ \E k \in E : call' = [call EXCEPT ![r].stage = "from", ![r].to = k]
     \/ E = {} /\ Goto(r, "readdress")
  /\ UNCHANGED <<rowVars, memberVars, messageVars, ghosts>>

(* updateExternalId: findOne, then save. *)
Readdress(r) ==
  /\ At(r, "readdress")
  /\ IF call[r].chat \in chats THEN Goto(r, "resave") ELSE NextPost(r)
  /\ UNCHANGED <<rowVars, memberVars, messageVars, ghosts>>

Resave(r) ==
  LET c == call[r] IN
  /\ At(r, "resave")
  /\ chats' = chats \cup {c.chat} /\ addr' = [addr EXCEPT ![c.chat] = Resolved[c.addr]]
  /\ disturbed' = disturbed \cup {r}
       \cup {q \in Others(r) : Seeks(q, Resolved[c.addr]) \/ WorksOn(q, c.chat)}
  /\ raced' = IF r \in disturbed THEN raced \cup {Resolved[c.addr]} ELSE raced
  /\ NextPost(r)
  /\ UNCHANGED <<owner, lastChat, memberVars, messageVars, gone, repeated>>

------------------------------------------------------------------------------
(* mergeChat(from = call.chat, to = call.to) *)

ReadFrom(r) ==
  /\ At(r, "from")
  /\ IF call[r].chat \in chats THEN Goto(r, "from users") ELSE NextPost(r)
  /\ UNCHANGED <<rowVars, memberVars, messageVars, ghosts>>

ReadFromUsers(r) ==
  /\ At(r, "from users")
  /\ call' = [call EXCEPT ![r].stage = "to", ![r].want = Those(MembersOf(call[r].chat))]
  /\ UNCHANGED <<rowVars, memberVars, messageVars, ghosts>>

ReadTo(r) ==
  /\ At(r, "to")
  /\ IF call[r].to \in chats THEN Goto(r, "to users") ELSE NextPost(r)
  /\ UNCHANGED <<rowVars, memberVars, messageVars, ghosts>>

ReadToUsers(r) ==
  LET M == MembersOf(call[r].to)
      W == call[r].want \ Those(M)
  IN
  /\ At(r, "to users")
  /\ call' = [call EXCEPT ![r].users = M, ![r].want = W,
                          ![r].stage = IF W = {} THEN "messages" ELSE "adding"]
  /\ UNCHANGED <<rowVars, memberVars, messageVars, ghosts>>

(* addUsers reads the members again, for its users only. *)
ReadAgain(r) ==
  LET W == call[r].want \ (Those(MembersOf(call[r].to)) \cap User) IN
  /\ At(r, "adding")
  /\ call' = [call EXCEPT ![r].want = W, ![r].stage = IF W = {} THEN "messages" ELSE "adds"]
  /\ UNCHANGED <<rowVars, memberVars, messageVars, ghosts>>

AddOne(r, w) ==
  LET c == call[r] IN
  /\ At(r, "adds") /\ w \in c.want
  /\ w \in Contact => c.want \subseteq Contact
  /\ IF c.to \in chats
       THEN /\ AddMember(c.to, w)
            /\ call' = [call EXCEPT ![r].users = @ \cup {NewMember(c.to, w)},
                          ![r].want = @ \ {w},
                          ![r].stage = IF c.want = {w} THEN "messages" ELSE "adds"]
       ELSE NextPost(r) /\ UNCHANGED memberVars
  /\ UNCHANGED <<rowVars, messageVars, ghosts>>

ReadMessages(r) ==
  LET L == Listed(call[r].chat)
      twice == \/ r \in disturbed
               \/ \E q \in Others(r) : call[q].stage \in Merging /\ call[q].chat = call[r].chat
  IN
  /\ At(r, "messages")
  /\ call' = [call EXCEPT ![r].rest = L, ![r].want = {m.id : m \in L},
                          ![r].stage = IF L = {} THEN "drop" ELSE "authors"]
  /\ repeated' = IF twice THEN repeated \cup Origins(L) ELSE repeated
  /\ UNCHANGED <<rowVars, memberVars, messageVars, disturbed, raced, gone>>

(* expandMany: a chat_user is read for each message, all side by side.      *)
ReadAuthor(r) ==
  LET c == call[r] IN
  /\ At(r, "authors")
  /\ \E m \in c.rest :
     /\ m.id \in c.want
     /\ call' = [call EXCEPT ![r].want = @ \ {m.id},
                   ![r].authors = @ \cup {[id |-> m.id, who |-> x.who] :
                                         x \in {y \in members : y.id = m.by}},
                   ![r].stage = IF c.want = {m.id} THEN "copy" ELSE "authors"]
  /\ UNCHANGED <<rowVars, memberVars, messageVars, ghosts>>

(* The newest message is copied first.  Its author may not have been found,  *)
(* may be missing among the members that were read, or be removed since: the *)
(* merge breaks off.  A copy can be too late for a merge of the chat it goes *)
(* to, too.                                                                  *)
CopyOne(r) ==
  LET c == call[r]
      late == \E q \in Others(r) : call[q].stage \in Merging /\ call[q].chat = c.to
      Author(m) ==
        {x \in members : \E a \in c.authors :
           /\ a.id = m.id /\ a.who = x.who
           /\ IF x.who \in User THEN x.chat = c.to /\ x.who \in Those(c.users)
                               ELSE x \in c.users}
  IN
  /\ At(r, "copy")
  /\ \E m \in c.rest :
     /\ \A x \in c.rest : x.id <= m.id
     /\ \/ \E x \in Author(m) :
             /\ AddMessage(c.to, x.id, m.origin)
             /\ gone' = IF late THEN gone \cup {m.origin} ELSE gone
             /\ call' = [call EXCEPT ![r].rest = @ \ {m},
                                     ![r].stage = IF c.rest = {m} THEN "drop" ELSE "copy"]
             /\ UNCHANGED repeated
        \/ /\ Author(m) = {} /\ NextPost(r)
           /\ repeated' = repeated \cup Origins({x \in messages : x.chat = c.chat})
           /\ UNCHANGED <<messages, lastMessage, gone>>
  /\ UNCHANGED <<rowVars, memberVars, stored, disturbed, raced>>

Drop(r) ==
  LET k == call[r].chat IN
  /\ At(r, "drop")
  /\ RemoveChat(r, k)
  /\ gone' = IF r \in disturbed
               THEN gone \cup Origins({m \in messages : m.chat = k}) ELSE gone
  /\ NextPost(r)
  /\ UNCHANGED <<addr, owner, lastChat, lastMember, lastMessage, stored, raced, repeated>>

------------------------------------------------------------------------------
(* updateGroupChat, and delete *)

(* getChatFull: the chat is found for its members only. *)
Load(r) ==
  LET k == call[r].chat IN
  /\ At(r, "load")
  /\ IF k \in chats /\ call[r].who \in Those(MembersOf(k))
       THEN call' = [call EXCEPT ![r].stage = "load users", ![r].addr = addr[k]]
       ELSE Fail(r)
  /\ UNCHANGED <<rowVars, memberVars, messageVars, ghosts>>

LoadUsers(r) ==
  LET c == call[r]
      M == MembersOf(c.chat)
      W == IF c.list = NoList THEN {} ELSE c.list \ Those(M)
  IN
  /\ At(r, "load users")
  /\ call' = [call EXCEPT ![r].users = M, ![r].want = W,
               ![r].stage = IF c.list = NoList THEN "save"
                            ELSE IF W = {} THEN "expel" ELSE "invite"]
  /\ UNCHANGED <<rowVars, memberVars, messageVars, ghosts>>

Invite(r, u) ==
  LET c == call[r] IN
  /\ At(r, "invite") /\ u \in c.want
  /\ IF c.chat \in chats
       THEN /\ AddMember(c.chat, u)
            /\ call' = [call EXCEPT ![r].want = @ \ {u},
                          ![r].stage = IF c.want = {u} THEN "expel" ELSE "invite"]
       ELSE Fail(r) /\ UNCHANGED memberVars
  /\ UNCHANGED <<rowVars, messageVars, ghosts>>

(* The messages of a removed member go with him, by a foreign key. *)
Expel(r) ==
  LET c == call[r]
      X == {m \in c.users : m.who \in User \ (c.list \cup {owner[c.chat]})}
      L == {m \in messages : \E x \in X : m.by = x.id}
  IN
  /\ At(r, "expel")
  /\ members' = members \ X
  /\ messages' = messages \ L
  /\ gone' = gone \cup Origins(L)
  /\ Goto(r, "save")
  /\ UNCHANGED <<rowVars, lastMember, lastMessage, stored, disturbed, raced, repeated>>

SaveChat(r) ==
  /\ At(r, "save")
  /\ PutChat(r, call[r].chat, call[r].addr)
  /\ Goto(r, "done")
  /\ UNCHANGED <<owner, lastChat, memberVars, messageVars, gone, repeated>>

DeleteChat(r, k) ==
  /\ At(r, "new") /\ Asked("delete") < MaxAsks["delete"] /\ k \in chats
  /\ RemoveChat(r, k)
  /\ gone' = gone \cup Origins({m \in messages : m.chat = k})
  /\ call' = [call EXCEPT ![r].kind = "delete", ![r].stage = "done"]
  /\ UNCHANGED <<addr, owner, lastChat, lastMember, lastMessage, stored, raced, repeated>>

(* A restart or an error of the database between two calls. *)
Abort(r) ==
  /\ Running(r) /\ Cardinality({q \in Request : call[q].kind = "lost"}) < MaxAborts
  /\ call' = [call EXCEPT ![r] = [NoCall EXCEPT !.kind = "lost", !.stage = "failed"]]
  /\ disturbed' = disturbed \cup {r}
  /\ repeated' = IF call[r].stage \in Merging
                   THEN repeated \cup Origins({x \in messages : x.chat = call[r].chat})
                   ELSE repeated
  /\ UNCHANGED <<rowVars, memberVars, messageVars, raced, gone>>

------------------------------------------------------------------------------
(* At first a user has written to a contact's phone number. *)
Init ==
  \E u \in User :
  /\ chats = {1} /\ addr = [k \in Chat |-> InitialAddress] /\ owner = [k \in Chat |-> u]
  /\ members = {[id |-> 1, chat |-> 1, who |-> u], [id |-> 2, chat |-> 1, who |-> Typed]}
  /\ messages = {} /\ lastChat = 1 /\ lastMember = 2 /\ lastMessage = 0
  /\ call = [r \in Request |-> NoCall]
  /\ stored = {} /\ disturbed = {} /\ raced = {} /\ gone = {} /\ repeated = {}

Begin(r) ==
  \/ \E a \in Address : Resolved[a] = a /\ Receive(r, a)
  \/ \E a \in Address, u \in User : Open(r, "create", 0, a, u, NoList)
  \/ \E k \in chats, u \in User : Open(r, "send", k, addr[k], u, NoList)
  \/ \E k \in chats, u \in User, l \in Lists \cup {NoList} : Open(r, "update", k, addr[k], u, l)
  \/ \E k \in chats : DeleteChat(r, k)

Step(r) ==
  \/ Lookup(r) \/ FindMember(r) \/ InsertContact(r) \/ Link(r) \/ Again(r) \/ InsertChat(r)
  \/ \E u \in User : Fill(r, u) \/ Invite(r, u)
  \/ Full(r) \/ Users(r) \/ Join(r) \/ Write(r)
  \/ Notify(r) \/ ReadContacts(r) \/ Post(r) \/ Exists(r) \/ Readdress(r) \/ Resave(r)
  \/ ReadFrom(r) \/ ReadFromUsers(r) \/ ReadTo(r) \/ ReadToUsers(r) \/ ReadAgain(r)
  \/ \E w \in Who : AddOne(r, w)
  \/ ReadMessages(r) \/ ReadAuthor(r) \/ CopyOne(r) \/ Drop(r)
  \/ Load(r) \/ LoadUsers(r) \/ Expel(r) \/ SaveChat(r)

Next == \E r \in Request : Begin(r) \/ Step(r) \/ Abort(r)

Spec == Init /\ [][Next]_vars

------------------------------------------------------------------------------
(* Properties *)

AtRest == \A r \in Request : ~Running(r)

(* A contact's address has one chat, unless a call has written it after      *)
(* another one overtook what it had read (createExternalChat,                *)
(* getChatUserExternal, updateExternalId, mergeChat, updateGroupChat).       *)
OneChatPerAddress ==
  \A j, k \in chats : j # k /\ addr[j] = addr[k] => addr[j] \in raced

(* However chats are merged, every message that was stored is in a chat, and *)
(* once everything has come to rest in no second one.  It is lost only with  *)
(* the chat or the member a user removes, when it comes or is copied while   *)
(* its chat is being merged, or when the chat's address has changed before   *)
(* the merge; it is doubled only by a merge that was broken off or ran       *)
(* beside another (mergeChat, create, createExternal).                       *)
MergedWhole ==
  \A o \in stored :
    LET M == {m \in messages : m.origin = o} IN
    /\ o \notin gone => M # {}
    /\ o \notin repeated /\ AtRest => Cardinality(M) <= 1

(* An incoming message is stored, unless another call created the chat it    *)
(* was for, changed its address or removed it while the message was handled, *)
(* the process was lost, or the message created its chat and the entities    *)
(* linked to it could not be created (getChatUserExternal,                   *)
(* createExternalChat, createExternal).                                      *)
IncomingStored ==
  \A r \in Request :
    call[r].kind = "receive" /\ ~Running(r) =>
      r \in stored \/ r \in disturbed \/ At(r, "unlinked")
==============================================================================
