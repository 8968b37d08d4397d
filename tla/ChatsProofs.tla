----------------------------- MODULE ChatsProofs -----------------------------
(***************************************************************************)
(* A contact's address has one chat, an incoming message is stored, and    *)
(* merges neither lose nor double a message, for every number of calls,    *)
(* users, contacts, addresses and chats.                                   *)
(*                                                                         *)
(* The first two follow from what a call may rely on as long as nothing    *)
(* has overtaken what it read (IInv): the chat it is about to insert or to *)
(* readdress still has no rival, the chat it is about to save is still the *)
(* row it has read, the contact whose message it stores is still there.    *)
(* The third needs to know, of every message, which merges are going to    *)
(* delete it (MergeInv): no message has all its copies behind them, and    *)
(* all its copies but one are before them.                                 *)
(***************************************************************************)
EXTENDS Chats, FiniteSetTheorems, TLAPS

(* Stages in which a call knows no chat. *)
Before == {"new", "done", "failed", "unlinked", "lookup", "again", "insert"}
Updating == {"load users", "invite", "expel", "save"}
(* Stages of an incoming message that is not stored yet. *)
Receiving ==
  {"lookup", "member", "contact", "again", "insert", "fill", "last", "link", "full", "users",
   "write"}

Shaped(c) ==
  c = [kind |-> c.kind, stage |-> c.stage, chat |-> c.chat, addr |-> c.addr, who |-> c.who,
       list |-> c.list, to |-> c.to, by |-> c.by, left |-> c.left, users |-> c.users,
       want |-> c.want, rest |-> c.rest, authors |-> c.authors]

(* What call r has read is still so. *)
NoRival(r) ==
  LET c == call[r] IN
  /\ c.stage = "insert" => Found(c.addr) = {}
  /\ c.stage \in {"readdress", "resave"} => Found(Resolved[c.addr]) = {}
  /\ c.stage \in Updating => c.chat \in chats /\ addr[c.chat] = c.addr

InHand(r) ==
  LET c == call[r] IN
  c.kind = "receive" =>
    /\ c.stage = "again" => Found(c.addr) = {}
    /\ c.stage \in {"member", "contact", "fill", "last", "link", "write"} => c.chat \in chats
    /\ c.stage \notin {"full", "users"}
    /\ c.stage \in {"link", "write"} =>
         \E m \in members : m.id = c.by /\ m.chat = c.chat /\ m.who \in Contact
    /\ c.stage \notin Receiving \cup {"unlinked"} => r \in stored

Good(r) ==
  /\ Shaped(call[r])
  /\ call[r].stage \notin Before => call[r].chat \in 1..lastChat
  /\ call[r].stage = "new" => call[r].kind = "none"
  /\ r \notin disturbed => NoRival(r) /\ InHand(r)

Rows ==
  /\ lastChat \in Nat /\ lastChat <= MaxChat /\ chats \subseteq 1..lastChat
  /\ addr = [k \in Chat |-> addr[k]]

Functional == call = [r \in Request |-> call[r]]

IInv == Rows /\ Functional /\ OneChatPerAddress /\ \A r \in Request : Good(r)

------------------------------------------------------------------------------
(* Steps that leave the chats alone *)

(* Only call r moves, no chat changes, no contact leaves, nothing stored is forgotten. *)
Quiet(r) ==
  /\ UNCHANGED <<chats, addr, lastChat, disturbed, raced>>
  /\ stored \subseteq stored'
  /\ \A m \in members : m.who \in Contact => m \in members'

(* Of the calls only r changes. *)
Only(r) == Functional' /\ \A q \in Request \ {r} : call'[q] = call[q]

LEMMA QuietStep ==
  ASSUME IInv, NEW r \in Request, Quiet(r), Only(r), Good(r)'
  PROVE  IInv'
<1>1. Rows' /\ Functional' /\ OneChatPerAddress'
  BY DEF IInv, Rows, Quiet, Only, OneChatPerAddress, Chat
<1>2. ASSUME NEW q \in Request, q # r PROVE Good(q)'
  <2>1. call'[q] = call[q] /\ Good(q)
    BY <1>2 DEF Only, IInv
  <2>2. NoRival(q) => NoRival(q)'
    BY <2>1 DEF NoRival, Quiet, Found
  <2>3. InHand(q) => InHand(q)'
    BY <2>1 DEF InHand, Quiet, Found
  <2> QED
    BY <2>1, <2>2, <2>3 DEF Good, Quiet, Shaped
<1> QED
  BY <1>1, <1>2 DEF IInv

(* A step of call r to the given stage changes nothing else of it. *)
LEMMA GotoStep ==
  ASSUME Functional, NEW r \in Request, Shaped(call[r]), NEW s, Goto(r, s)
  PROVE  /\ Only(r) /\ Shaped(call'[r]) /\ call'[r].stage = s
         /\ call'[r].kind = call[r].kind /\ call'[r].chat = call[r].chat
         /\ call'[r].addr = call[r].addr /\ call'[r].by = call[r].by
BY DEF Functional, Goto, Only, Shaped

LEMMA NextPostStep ==
  ASSUME Functional, NEW r \in Request, Shaped(call[r]), NextPost(r)
  PROVE  /\ Only(r) /\ Shaped(call'[r]) /\ call'[r].stage \in {"post", "done"}
         /\ call'[r].kind = call[r].kind /\ call'[r].chat = call[r].chat
         /\ call'[r].addr = call[r].addr /\ call'[r].by = call[r].by
BY DEF Functional, NextPost, Only, Shaped

------------------------------------------------------------------------------
(* A message on its way to the contacts, and a merge *)

(* What a step of call r leaves of it. *)
Keeps(r) ==
  /\ Shaped(call'[r])
  /\ call'[r].kind = call[r].kind /\ call'[r].chat = call[r].chat

(* Stages of a message that is being sent, up to the end. *)
Sending ==
  {"notify", "contacts", "post", "exists", "from", "from users", "to", "to users", "adding",
   "adds", "messages", "authors", "copy", "drop", "done"}

LEMMA SendingStep ==
  ASSUME IInv, NEW r \in Request, Quiet(r), Only(r), Keeps(r),
         call[r].stage \notin Before \cup Receiving \cup {"new"}, call'[r].stage \in Sending
  PROVE  IInv'
<1>1. call'[r].chat \in 1..lastChat'
  BY DEF IInv, Good, Keeps, Quiet
<1>2. r \notin disturbed' => NoRival(r)'
  BY DEF NoRival, Sending, Updating
<1>3. r \notin disturbed' => InHand(r)'
  <2> SUFFICES ASSUME r \notin disturbed', call'[r].kind = "receive" PROVE InHand(r)'
    BY DEF InHand
  <2>1. r \in stored
    BY DEF IInv, Good, InHand, Quiet, Keeps, Before
  <2> QED
    BY <2>1 DEF InHand, Sending, Quiet
<1>4. Good(r)'
  BY <1>1, <1>2, <1>3 DEF Good, Keeps, Sending
<1> QED
  BY <1>4, QuietStep

LEMMA NotifyStep ==
  ASSUME IInv, NEW r \in Request, Notify(r)
  PROVE  IInv'
<1>1. Quiet(r)
  BY DEF Notify, Quiet, rowVars, memberVars, messageVars, ghosts
<1>2. Only(r)
  BY DEF Notify, IInv, Only, Functional, Goto
<1>3. Shaped(call[r]) /\ Functional
  BY DEF IInv, Good
<1>4. Keeps(r)
  BY <1>3 DEF Notify, Shaped, Functional, Keeps, Goto
<1>5. call[r].stage \notin Before \cup Receiving \cup {"new"} /\ call'[r].stage \in Sending
  BY <1>3 DEF Notify, Shaped, Functional, Before, Receiving, Sending, At, Goto
<1> QED
  BY <1>1, <1>2, <1>4, <1>5, SendingStep

LEMMA ReadContactsStep ==
  ASSUME IInv, NEW r \in Request, ReadContacts(r)
  PROVE  IInv'
<1>1. Quiet(r)
  BY DEF ReadContacts, Quiet, rowVars, memberVars, messageVars, ghosts
<1>2. Only(r)
  BY DEF ReadContacts, IInv, Only, Functional, Goto
<1>3. Shaped(call[r]) /\ Functional
  BY DEF IInv, Good
<1>4. Keeps(r)
  BY <1>3 DEF ReadContacts, Shaped, Functional, Keeps, Goto
<1>5. call[r].stage \notin Before \cup Receiving \cup {"new"} /\ call'[r].stage \in Sending
  BY <1>3 DEF ReadContacts, Shaped, Functional, Before, Receiving, Sending, At, Goto
<1> QED
  BY <1>1, <1>2, <1>4, <1>5, SendingStep

LEMMA PostStep ==
  ASSUME IInv, NEW r \in Request, Post(r)
  PROVE  IInv'
<1>1. Quiet(r)
  BY DEF Post, Quiet, rowVars, memberVars, messageVars, ghosts, NextPost
<1>2. Only(r)
  BY DEF Post, IInv, Only, Functional, Goto, NextPost
<1>3. Shaped(call[r]) /\ Functional
  BY DEF IInv, Good
<1>4. call[r].stage \notin Before \cup Receiving \cup {"new"}
  BY DEF Post, At, Before, Receiving
<1>5. Keeps(r) /\ call'[r].stage \in Sending
  <2>1. CASE NextPost(r)
    BY <1>3, <2>1, NextPostStep DEF Keeps, Sending
  <2>2. CASE Goto(r, "exists")
    BY <1>3, <2>2, GotoStep DEF Keeps, Sending, Shaped, Functional
  <2> QED
    BY <2>1, <2>2 DEF Post
<1> QED
  BY <1>1, <1>2, <1>4, <1>5, SendingStep

LEMMA ReadFromStep ==
  ASSUME IInv, NEW r \in Request, ReadFrom(r)
  PROVE  IInv'
<1>1. Quiet(r)
  BY DEF ReadFrom, Quiet, rowVars, memberVars, messageVars, ghosts, NextPost
<1>2. Only(r)
  BY DEF ReadFrom, IInv, Only, Functional, Goto, NextPost
<1>3. Shaped(call[r]) /\ Functional
  BY DEF IInv, Good
<1>4. call[r].stage \notin Before \cup Receiving \cup {"new"}
  BY DEF ReadFrom, At, Before, Receiving
<1>5. Keeps(r) /\ call'[r].stage \in Sending
  <2>1. CASE NextPost(r)
    BY <1>3, <2>1, NextPostStep DEF Keeps, Sending
  <2>2. CASE Goto(r, "from users")
    BY <1>3, <2>2, GotoStep DEF Keeps, Sending, Shaped, Functional
  <2> QED
    BY <2>1, <2>2 DEF ReadFrom
<1> QED
  BY <1>1, <1>2, <1>4, <1>5, SendingStep

LEMMA ReadFromUsersStep ==
  ASSUME IInv, NEW r \in Request, ReadFromUsers(r)
  PROVE  IInv'
<1>1. Quiet(r)
  BY DEF ReadFromUsers, Quiet, rowVars, memberVars, messageVars, ghosts
<1>2. Only(r)
  BY DEF ReadFromUsers, IInv, Only, Functional, Goto
<1>3. Shaped(call[r]) /\ Functional
  BY DEF IInv, Good
<1>4. Keeps(r)
  BY <1>3 DEF ReadFromUsers, Shaped, Functional, Keeps, Goto
<1>5. call[r].stage \notin Before \cup Receiving \cup {"new"} /\ call'[r].stage \in Sending
  BY <1>3 DEF ReadFromUsers, Shaped, Functional, Before, Receiving, Sending, At, Goto
<1> QED
  BY <1>1, <1>2, <1>4, <1>5, SendingStep

LEMMA ReadToStep ==
  ASSUME IInv, NEW r \in Request, ReadTo(r)
  PROVE  IInv'
<1>1. Quiet(r)
  BY DEF ReadTo, Quiet, rowVars, memberVars, messageVars, ghosts, NextPost
<1>2. Only(r)
  BY DEF ReadTo, IInv, Only, Functional, Goto, NextPost
<1>3. Shaped(call[r]) /\ Functional
  BY DEF IInv, Good
<1>4. call[r].stage \notin Before \cup Receiving \cup {"new"}
  BY DEF ReadTo, At, Before, Receiving
<1>5. Keeps(r) /\ call'[r].stage \in Sending
  <2>1. CASE NextPost(r)
    BY <1>3, <2>1, NextPostStep DEF Keeps, Sending
  <2>2. CASE Goto(r, "to users")
    BY <1>3, <2>2, GotoStep DEF Keeps, Sending, Shaped, Functional
  <2> QED
    BY <2>1, <2>2 DEF ReadTo
<1> QED
  BY <1>1, <1>2, <1>4, <1>5, SendingStep

LEMMA ReadToUsersStep ==
  ASSUME IInv, NEW r \in Request, ReadToUsers(r)
  PROVE  IInv'
<1>1. Quiet(r)
  BY DEF ReadToUsers, Quiet, rowVars, memberVars, messageVars, ghosts
<1>2. Only(r)
  BY DEF ReadToUsers, IInv, Only, Functional, Goto
<1>3. Shaped(call[r]) /\ Functional
  BY DEF IInv, Good
<1>4. Keeps(r)
  BY <1>3 DEF ReadToUsers, Shaped, Functional, Keeps, Goto
<1>5. call[r].stage \notin Before \cup Receiving \cup {"new"} /\ call'[r].stage \in Sending
  BY <1>3 DEF ReadToUsers, Shaped, Functional, Before, Receiving, Sending, At, Goto
<1> QED
  BY <1>1, <1>2, <1>4, <1>5, SendingStep

LEMMA ReadAgainStep ==
  ASSUME IInv, NEW r \in Request, ReadAgain(r)
  PROVE  IInv'
<1>1. Quiet(r)
  BY DEF ReadAgain, Quiet, rowVars, memberVars, messageVars, ghosts
<1>2. Only(r)
  BY DEF ReadAgain, IInv, Only, Functional, Goto
<1>3. Shaped(call[r]) /\ Functional
  BY DEF IInv, Good
<1>4. Keeps(r)
  BY <1>3 DEF ReadAgain, Shaped, Functional, Keeps, Goto
<1>5. call[r].stage \notin Before \cup Receiving \cup {"new"} /\ call'[r].stage \in Sending
  BY <1>3 DEF ReadAgain, Shaped, Functional, Before, Receiving, Sending, At, Goto
<1> QED
  BY <1>1, <1>2, <1>4, <1>5, SendingStep

LEMMA ReadMessagesStep ==
  ASSUME IInv, NEW r \in Request, ReadMessages(r)
  PROVE  IInv'
<1>1. Quiet(r)
  BY DEF ReadMessages, Quiet, rowVars, memberVars, messageVars, ghosts
<1>2. Only(r)
  BY DEF ReadMessages, IInv, Only, Functional, Goto
<1>3. Shaped(call[r]) /\ Functional
  BY DEF IInv, Good
<1>4. Keeps(r)
  BY <1>3 DEF ReadMessages, Shaped, Functional, Keeps, Goto
<1>5. call[r].stage \notin Before \cup Receiving \cup {"new"} /\ call'[r].stage \in Sending
  BY <1>3 DEF ReadMessages, Shaped, Functional, Before, Receiving, Sending, At, Goto
<1> QED
  BY <1>1, <1>2, <1>4, <1>5, SendingStep

LEMMA ReadAuthorStep ==
  ASSUME IInv, NEW r \in Request, ReadAuthor(r)
  PROVE  IInv'
<1>1. Quiet(r)
  BY DEF ReadAuthor, Quiet, rowVars, memberVars, messageVars, ghosts
<1>2. PICK m \in call[r].rest :
        call' = [call EXCEPT
          ![r].want = @ \ {m.id},
          ![r].authors = @ \cup {[id |-> m.id, who |-> x.who] : x \in {y \in members : y.id = m.by}},
          ![r].stage = IF call[r].want = {m.id} THEN "copy" ELSE "authors"]
  BY DEF ReadAuthor
<1>3. Shaped(call[r]) /\ Functional
  BY DEF IInv, Good
<1>4. Only(r) /\ Keeps(r)
  BY <1>2, <1>3 DEF Only, Shaped, Functional, Keeps
<1>5. call[r].stage \notin Before \cup Receiving \cup {"new"} /\ call'[r].stage \in Sending
  BY <1>2, <1>3 DEF ReadAuthor, Shaped, Functional, Before, Receiving, Sending, At
<1> QED
  BY <1>1, <1>4, <1>5, SendingStep

LEMMA CopyOneStep ==
  ASSUME IInv, NEW r \in Request, CopyOne(r)
  PROVE  IInv'
<1>1. Quiet(r)
  BY DEF CopyOne, Quiet, rowVars, memberVars, messageVars, ghosts, NextPost, AddMessage
<1>2. Only(r)
  BY DEF CopyOne, IInv, Only, Functional, Goto, NextPost, AddMessage
<1>3. Shaped(call[r]) /\ Functional
  BY DEF IInv, Good
<1>4. call[r].stage \notin Before \cup Receiving \cup {"new"}
  BY DEF CopyOne, At, Before, Receiving
<1>5. Keeps(r) /\ call'[r].stage \in Sending
  <2>1. CASE NextPost(r)
    BY <1>3, <2>1, NextPostStep DEF Keeps, Sending
  <2>2. CASE \E R, t : /\ t \in {"drop", "copy"}
                        /\ call' = [call EXCEPT ![r].rest = R, ![r].stage = t]
    BY <1>3, <2>2 DEF Keeps, Sending, Shaped, Functional
  <2> QED
    BY <2>1, <2>2 DEF CopyOne
<1> QED
  BY <1>1, <1>2, <1>4, <1>5, SendingStep

LEMMA AddOneStep ==
  ASSUME IInv, NEW r \in Request, NEW w, AddOne(r, w)
  PROVE  IInv'
<1>1. Quiet(r)
  BY DEF AddOne, Quiet, rowVars, memberVars, messageVars, ghosts, NextPost, AddMember
<1>2. Only(r)
  BY DEF AddOne, IInv, Only, Functional, Goto, NextPost, AddMember
<1>3. Shaped(call[r]) /\ Functional
  BY DEF IInv, Good
<1>4. call[r].stage \notin Before \cup Receiving \cup {"new"}
  BY DEF AddOne, At, Before, Receiving
<1>5. Keeps(r) /\ call'[r].stage \in Sending
  <2>1. CASE NextPost(r)
    BY <1>3, <2>1, NextPostStep DEF Keeps, Sending
  <2>2. CASE \E U, W, t : /\ t \in {"messages", "adds"}
                           /\ call' = [call EXCEPT ![r].users = U, ![r].want = W, ![r].stage = t]
    BY <1>3, <2>2 DEF Keeps, Sending, Shaped, Functional
  <2> QED
    BY <2>1, <2>2 DEF AddOne
<1> QED
  BY <1>1, <1>2, <1>4, <1>5, SendingStep

------------------------------------------------------------------------------
(* Incoming messages, new chats and participants: steps that write no chat *)

LEMMA LookupStep ==
  ASSUME IInv, NEW r \in Request, Lookup(r)
  PROVE  IInv'
<1>1. Quiet(r)
  BY DEF Lookup, Quiet, rowVars, memberVars, messageVars, ghosts
<1>2. Only(r)
  BY DEF Lookup, IInv, Only, Functional, Goto, Fail
<1>3. Good(r) /\ Shaped(call[r]) /\ Functional
  BY DEF IInv, Good
<1>4. Good(r)'
  <2>1. CASE \E k \in Found(call[r].addr) :
               call' = [call EXCEPT ![r].stage = "member", ![r].chat = k]
    <3>1. /\ Shaped(call'[r])
          /\ call[r].stage = "lookup" /\ call'[r].stage = "member"
          /\ call'[r].kind = call[r].kind /\ call'[r].addr = call[r].addr
          /\ call'[r].chat \in Found(call[r].addr)
      BY <1>3, <2>1 DEF Lookup, Shaped, Functional, At, Goto, Fail
    <3> QED
      BY <1>1, <1>3, <2>1, <3>1 DEF Good, NoRival, InHand, Quiet, Before, Updating, Receiving, Found, IInv, Rows
  <2>2. CASE Found(call[r].addr) = {} /\ Goto(r, "again")
    <3>1. /\ Shaped(call'[r])
          /\ call[r].stage = "lookup" /\ call'[r].stage = "again"
          /\ call'[r].kind = call[r].kind /\ call'[r].addr = call[r].addr
      BY <1>3, <2>2 DEF Lookup, Shaped, Functional, At, Goto, Fail
    <3> QED
      BY <1>1, <1>3, <2>2, <3>1 DEF Good, NoRival, InHand, Quiet, Before, Updating, Receiving, Found
  <2> QED
    BY <2>1, <2>2 DEF Lookup, Fail
<1> QED
  BY <1>1, <1>2, <1>4, QuietStep

LEMMA FindMemberStep ==
  ASSUME IInv, NEW r \in Request, FindMember(r)
  PROVE  IInv'
<1>1. Quiet(r)
  BY DEF FindMember, Quiet, rowVars, memberVars, messageVars, ghosts, ContactsOf, MembersOf, AfterMember
<1>2. Only(r)
  BY DEF FindMember, IInv, Only, Functional, Goto, Fail, ContactsOf, MembersOf, AfterMember
<1>3. Good(r) /\ Shaped(call[r]) /\ Functional
  BY DEF IInv, Good
<1>4. Good(r)'
  <2>1. ASSUME NEW m \in ContactsOf(call[r].chat),
               call' = [call EXCEPT ![r].stage = AfterMember(TRUE), ![r].by = m.id]
        PROVE  Good(r)'
    <3>1. /\ Shaped(call'[r])
          /\ call[r].stage = "member" /\ call'[r].stage = "write"
          /\ call'[r].kind = call[r].kind /\ call'[r].addr = call[r].addr
          /\ call'[r].chat = call[r].chat
          /\ m \in members /\ m.id = call'[r].by /\ m.chat = call'[r].chat /\ m.who \in Contact
      BY <1>3, <2>1 DEF FindMember, Shaped, Functional, At, Goto, Fail, ContactsOf, MembersOf, AfterMember
    <3>2. r \notin disturbed' => NoRival(r)'
      BY <1>1, <3>1 DEF NoRival, Quiet, Updating
    <3>3. r \notin disturbed' => InHand(r)'
      <4>1. Quiet(r) /\ (r \notin disturbed' => InHand(r))
        BY <1>1, <1>3 DEF Good, Quiet
      <4> QED
        BY <3>1, <4>1 DEF InHand, Quiet, Receiving
    <3> QED
      BY <1>1, <1>3, <3>1, <3>2, <3>3 DEF Good, Quiet, Before
  <2>2. CASE Goto(r, AfterMember(FALSE))
    <3>1. /\ Shaped(call'[r])
          /\ call[r].stage = "member" /\ call'[r].stage = "contact"
          /\ call'[r].kind = call[r].kind /\ call'[r].addr = call[r].addr
          /\ call'[r].chat = call[r].chat
      BY <1>3, <2>2 DEF FindMember, Shaped, Functional, At, Goto, Fail, ContactsOf, MembersOf, AfterMember
    <3> QED
      BY <1>1, <1>3, <2>2, <3>1 DEF Good, NoRival, InHand, Quiet, Before, Updating, Receiving, Found
  <2> QED
    BY <2>1, <2>2 DEF FindMember, Fail, ContactsOf, MembersOf, AfterMember
<1> QED
  BY <1>1, <1>2, <1>4, QuietStep

LEMMA NewMemberIs ==
  ASSUME NEW k, NEW w
  PROVE  /\ NewMember(k, w).id = lastMember + 1
         /\ NewMember(k, w).chat = k /\ NewMember(k, w).who = w
BY DEF NewMember

LEMMA InsertContactStep ==
  ASSUME IInv, NEW r \in Request, InsertContact(r)
  PROVE  IInv'
<1>1. Quiet(r)
  BY DEF InsertContact, Quiet, rowVars, memberVars, messageVars, ghosts, AddMember, NewMember
<1>2. Only(r)
  BY DEF InsertContact, IInv, Only, Functional, Goto, Fail, AddMember, NewMember
<1>3. Good(r) /\ Shaped(call[r]) /\ Functional
  BY DEF IInv, Good
<1>4. Good(r)'
  <2>1. ASSUME NEW t \in {"link", "write"},
               AddMember(call[r].chat, IF call[r].kind = "receive" THEN Profile ELSE Typed),
               call' = [call EXCEPT ![r].by = lastMember', ![r].stage = t],
               call[r].chat \in chats
        PROVE  Good(r)'
    <3>1. /\ Shaped(call'[r])
          /\ call[r].stage \in {"contact", "last"} /\ call'[r].stage = t
          /\ call'[r].kind = call[r].kind /\ call'[r].addr = call[r].addr
          /\ call'[r].chat = call[r].chat
          /\ call'[r].by = lastMember + 1
          /\ call[r].kind = "receive" => NewMember(call[r].chat, Profile) \in members'
      BY <1>3, <2>1, ChatsAssumption DEF InsertContact, Shaped, Functional, AddMember, NewMember
    <3>2. r \notin disturbed' => NoRival(r)'
      BY <1>1, <3>1, NewMemberIs DEF NoRival, Quiet, Updating
    <3>3. r \notin disturbed' => InHand(r)'
      <4>1. call[r].kind = "receive" =>
              \E m \in members' : m.id = call'[r].by /\ m.chat = call'[r].chat /\ m.who \in Contact
        BY <3>1, NewMemberIs, ChatsAssumption
      <4>2. call'[r].chat \in chats'
        BY <1>1, <2>1, <3>1 DEF Quiet
      <4> QED
        BY <2>1, <3>1, <4>1, <4>2 DEF InHand, Receiving
    <3> QED
      BY <1>1, <1>3, <3>1, <3>2, <3>3 DEF Good, Quiet, Before
  <2>2. CASE call[r].chat \notin chats /\ Goto(r, "failed")
    <3>1. /\ Shaped(call'[r])
          /\ call[r].stage \in {"contact", "last"} /\ call'[r].stage = "failed"
          /\ call'[r].kind = call[r].kind /\ call'[r].addr = call[r].addr
          /\ call'[r].chat = call[r].chat
      BY <1>3, <2>2, ChatsAssumption DEF InsertContact, Shaped, Functional, Goto
    <3> QED
      BY <1>1, <1>3, <2>2, <3>1, ChatsAssumption DEF Good, NoRival, InHand, Quiet, Before, Updating, Receiving, Found
  <2> QED
    BY <2>1, <2>2 DEF InsertContact, Fail
<1> QED
  BY <1>1, <1>2, <1>4, QuietStep

LEMMA LinkStep ==
  ASSUME IInv, NEW r \in Request, Link(r)
  PROVE  IInv'
<1>1. Quiet(r)
  BY DEF Link, Quiet, rowVars, memberVars, messageVars, ghosts
<1>2. Good(r) /\ Shaped(call[r]) /\ Functional
  BY DEF IInv, Good
<1>3. PICK t \in {"write", "done", "unlinked"} :
        Goto(r, t) /\ (call[r].kind = "receive" => t # "done")
  BY DEF Link, Linked
<1>4. /\ Only(r) /\ Shaped(call'[r]) /\ call[r].stage = "link" /\ call'[r].stage = t
      /\ call'[r].kind = call[r].kind /\ call'[r].addr = call[r].addr
      /\ call'[r].chat = call[r].chat /\ call'[r].by = call[r].by
  BY <1>2, <1>3, GotoStep DEF Link, At
<1>5. r \notin disturbed' => NoRival(r)' /\ InHand(r)'
  <2>1. r \notin disturbed' => InHand(r)
    BY <1>1, <1>2 DEF Good, Quiet
  <2> QED
    BY <1>1, <1>3, <1>4, <2>1 DEF NoRival, InHand, Quiet, Updating, Receiving
<1>6. Good(r)'
  BY <1>1, <1>2, <1>4, <1>5 DEF Good, Quiet, Before
<1> QED
  BY <1>1, <1>4, <1>6, QuietStep

LEMMA AgainStep ==
  ASSUME IInv, NEW r \in Request, Again(r)
  PROVE  IInv'
<1>1. Quiet(r)
  BY DEF Again, Quiet, rowVars, memberVars, messageVars, ghosts, Existing
<1>2. Only(r)
  BY DEF Again, IInv, Only, Functional, Goto, Fail, Existing
<1>3. Good(r) /\ Shaped(call[r]) /\ Functional
  BY DEF IInv, Good
<1>4. Good(r)'
  <2>1. CASE \E k \in Found(call[r].addr) :
               call' = [call EXCEPT ![r].stage = "full", ![r].chat = k]
    <3>1. /\ Shaped(call'[r])
          /\ call[r].stage = "again" /\ call'[r].stage = "full"
          /\ call'[r].kind = call[r].kind /\ call'[r].addr = call[r].addr
          /\ call'[r].chat \in Found(call[r].addr)
      BY <1>3, <2>1 DEF Again, Shaped, Functional, At, Goto, Fail, Existing
    <3> QED
      BY <1>1, <1>3, <2>1, <3>1 DEF Good, NoRival, InHand, Quiet, Before, Updating, Receiving, Found, IInv, Rows
  <2>2. CASE Found(call[r].addr) = {} /\ Goto(r, "insert")
    <3>1. /\ Shaped(call'[r])
          /\ call[r].stage = "again" /\ call'[r].stage = "insert"
          /\ call'[r].kind = call[r].kind /\ call'[r].addr = call[r].addr
      BY <1>3, <2>2 DEF Again, Shaped, Functional, At, Goto, Fail, Existing
    <3> QED
      BY <1>1, <1>3, <2>2, <3>1 DEF Good, NoRival, InHand, Quiet, Before, Updating, Receiving, Found
  <2> QED
    BY <2>1, <2>2 DEF Again, Fail, Existing
<1> QED
  BY <1>1, <1>2, <1>4, QuietStep

LEMMA FullStep ==
  ASSUME IInv, NEW r \in Request, Full(r)
  PROVE  IInv'
<1>1. Quiet(r)
  BY DEF Full, Quiet, rowVars, memberVars, messageVars, ghosts
<1>2. Only(r)
  BY DEF Full, IInv, Only, Functional, Goto, Fail
<1>3. Good(r) /\ Shaped(call[r]) /\ Functional
  BY DEF IInv, Good
<1>4. Good(r)'
  <2>1. CASE Goto(r, "users")
    <3>1. /\ Shaped(call'[r])
          /\ call[r].stage = "full" /\ call'[r].stage = "users"
          /\ call'[r].kind = call[r].kind /\ call'[r].addr = call[r].addr
          /\ call'[r].chat = call[r].chat
      BY <1>3, <2>1 DEF Full, Shaped, Functional, At, Goto, Fail
    <3> QED
      BY <1>1, <1>3, <2>1, <3>1 DEF Good, NoRival, InHand, Quiet, Before, Updating, Receiving, Found
  <2>2. CASE Goto(r, "failed")
    <3>1. /\ Shaped(call'[r])
          /\ call[r].stage = "full" /\ call'[r].stage = "failed"
          /\ call'[r].kind = call[r].kind /\ call'[r].addr = call[r].addr
          /\ call'[r].chat = call[r].chat
      BY <1>3, <2>2 DEF Full, Shaped, Functional, At, Goto, Fail
    <3> QED
      BY <1>1, <1>3, <2>2, <3>1 DEF Good, NoRival, InHand, Quiet, Before, Updating, Receiving, Found
  <2> QED
    BY <2>1, <2>2 DEF Full, Fail
<1> QED
  BY <1>1, <1>2, <1>4, QuietStep

LEMMA UsersStep ==
  ASSUME IInv, NEW r \in Request, Users(r)
  PROVE  IInv'
<1>1. Quiet(r)
  BY DEF Users, Quiet, rowVars, memberVars, messageVars, ghosts, MembersOf, Those
<1>2. Only(r)
  BY DEF Users, IInv, Only, Functional, Goto, Fail, MembersOf, Those
<1>3. Good(r) /\ Shaped(call[r]) /\ Functional
  BY DEF IInv, Good
<1>4. Good(r)'
  <2>1. ASSUME NEW m, call[r].kind = "receive",
               call' = [call EXCEPT ![r].stage = "write", ![r].by = m.id]
        PROVE  Good(r)'
    <3>1. /\ Shaped(call'[r])
          /\ call[r].stage = "users" /\ call'[r].stage = "write"
          /\ call'[r].kind = call[r].kind /\ call'[r].addr = call[r].addr
          /\ call'[r].chat = call[r].chat
      BY <1>3, <2>1 DEF Users, Shaped, Functional, At, Goto, Fail, MembersOf, Those
    <3> QED
      BY <1>1, <1>3, <2>1, <3>1 DEF Good, NoRival, InHand, Quiet, Before, Updating, Receiving, Found
  <2>2. CASE Goto(r, "done")
    <3>1. /\ Shaped(call'[r])
          /\ call[r].stage = "users" /\ call'[r].stage = "done"
          /\ call'[r].kind = call[r].kind /\ call'[r].addr = call[r].addr
          /\ call'[r].chat = call[r].chat
      BY <1>3, <2>2 DEF Users, Shaped, Functional, At, Goto, Fail, MembersOf, Those
    <3> QED
      BY <1>1, <1>3, <2>2, <3>1 DEF Good, NoRival, InHand, Quiet, Before, Updating, Receiving, Found
  <2>3. CASE call[r].kind = "create" /\ Goto(r, "join")
    <3>1. /\ Shaped(call'[r])
          /\ call[r].stage = "users" /\ call'[r].stage = "join"
          /\ call'[r].kind = call[r].kind /\ call'[r].addr = call[r].addr
          /\ call'[r].chat = call[r].chat
      BY <1>3, <2>3 DEF Users, Shaped, Functional, At, Goto, Fail, MembersOf, Those
    <3> QED
      BY <1>1, <1>3, <2>3, <3>1 DEF Good, NoRival, InHand, Quiet, Before, Updating, Receiving, Found
  <2> QED
    BY <2>1, <2>2, <2>3 DEF Users, Fail, MembersOf, Those
<1> QED
  BY <1>1, <1>2, <1>4, QuietStep

LEMMA JoinStep ==
  ASSUME IInv, NEW r \in Request, Join(r)
  PROVE  IInv'
<1>1. Quiet(r)
  BY DEF Join, Quiet, rowVars, memberVars, messageVars, ghosts, AddMember
<1>2. Only(r)
  BY DEF Join, IInv, Only, Functional, Goto, Fail, AddMember
<1>3. Good(r) /\ Shaped(call[r]) /\ Functional
  BY DEF IInv, Good
<1>4. Good(r)'
  <2>1. CASE Goto(r, "done")
    <3>1. /\ Shaped(call'[r])
          /\ call[r].stage = "join" /\ call'[r].stage = "done"
          /\ call'[r].kind = call[r].kind /\ call'[r].addr = call[r].addr
          /\ call'[r].chat = call[r].chat
      BY <1>3, <2>1 DEF Join, Shaped, Functional, At, Goto, Fail, AddMember
    <3> QED
      BY <1>1, <1>3, <2>1, <3>1 DEF Good, NoRival, InHand, Quiet, Before, Updating, Receiving, Found
  <2>2. CASE Goto(r, "failed")
    <3>1. /\ Shaped(call'[r])
          /\ call[r].stage = "join" /\ call'[r].stage = "failed"
          /\ call'[r].kind = call[r].kind /\ call'[r].addr = call[r].addr
          /\ call'[r].chat = call[r].chat
      BY <1>3, <2>2 DEF Join, Shaped, Functional, At, Goto, Fail, AddMember
    <3> QED
      BY <1>1, <1>3, <2>2, <3>1 DEF Good, NoRival, InHand, Quiet, Before, Updating, Receiving, Found
  <2> QED
    BY <2>1, <2>2 DEF Join, Fail, AddMember
<1> QED
  BY <1>1, <1>2, <1>4, QuietStep

LEMMA WriteStep ==
  ASSUME IInv, NEW r \in Request, Write(r)
  PROVE  IInv'
<1>1. Quiet(r)
  BY DEF Write, Quiet, rowVars, memberVars, messageVars, ghosts, AddMessage
<1>2. Only(r)
  BY DEF Write, IInv, Only, Functional, Goto, Fail, AddMessage
<1>3. Good(r) /\ Shaped(call[r]) /\ Functional
  BY DEF IInv, Good
<1>4. Good(r)'
  <2>1. ASSUME NEW m, stored' = stored \cup {r},
               call' = [call EXCEPT ![r].stage = "notify", ![r].by = m.id]
        PROVE  Good(r)'
    <3>1. /\ Shaped(call'[r])
          /\ call[r].stage = "write" /\ call'[r].stage = "notify"
          /\ call'[r].kind = call[r].kind /\ call'[r].addr = call[r].addr
          /\ call'[r].chat = call[r].chat
          /\ r \in stored'
      BY <1>3, <2>1 DEF Write, Shaped, Functional, At, Goto, Fail, AddMessage
    <3> QED
      BY <1>1, <1>3, <2>1, <3>1 DEF Good, NoRival, InHand, Quiet, Before, Updating, Receiving, Found
  <2>2. CASE /\ ~ (call[r].kind = "receive" /\ \E m \in members : m.id = call[r].by)
               /\ Goto(r, "failed")
    <3>1. /\ Shaped(call'[r])
          /\ call[r].stage = "write" /\ call'[r].stage = "failed"
          /\ call'[r].kind = call[r].kind /\ call'[r].addr = call[r].addr
          /\ call'[r].chat = call[r].chat
      BY <1>3, <2>2 DEF Write, Shaped, Functional, At, Goto, Fail, AddMessage
    <3> QED
      BY <1>1, <1>3, <2>2, <3>1 DEF Good, NoRival, InHand, Quiet, Before, Updating, Receiving, Found
  <2> QED
    BY <2>1, <2>2 DEF Write, Fail, AddMessage
<1> QED
  BY <1>1, <1>2, <1>4, QuietStep

LEMMA FillStep ==
  ASSUME IInv, NEW r \in Request, NEW u, Fill(r, u)
  PROVE  IInv'
<1>1. Quiet(r)
  BY DEF Fill, Quiet, rowVars, memberVars, messageVars, ghosts, AddMember
<1>2. Only(r)
  BY DEF Fill, IInv, Only, Functional, Goto, Fail, AddMember
<1>3. Good(r) /\ Shaped(call[r]) /\ Functional
  BY DEF IInv, Good
<1>4. Good(r)'
  <2>1. CASE /\ call[r].chat \in chats
               /\ \E W, t : /\ t \in {"last", "fill"}
                           /\ call' = [call EXCEPT ![r].want = W, ![r].stage = t]
    <3>1. /\ Shaped(call'[r])
          /\ call[r].stage = "fill" /\ call'[r].stage \in {"last", "fill"}
          /\ call'[r].kind = call[r].kind
          /\ call'[r].chat = call[r].chat
      BY <1>3, <2>1 DEF Fill, Shaped, Functional, At, Goto, Fail, AddMember
    <3> QED
      BY <1>1, <1>3, <2>1, <3>1 DEF Good, NoRival, InHand, Quiet, Before, Updating, Receiving, Found
  <2>2. CASE call[r].chat \notin chats /\ Goto(r, "failed")
    <3>1. /\ Shaped(call'[r])
          /\ call[r].stage = "fill" /\ call'[r].stage = "failed"
          /\ call'[r].kind = call[r].kind /\ call'[r].addr = call[r].addr
          /\ call'[r].chat = call[r].chat
      BY <1>3, <2>2 DEF Fill, Shaped, Functional, At, Goto, Fail, AddMember
    <3> QED
      BY <1>1, <1>3, <2>2, <3>1 DEF Good, NoRival, InHand, Quiet, Before, Updating, Receiving, Found
  <2> QED
    BY <2>1, <2>2 DEF Fill, Fail, AddMember
<1> QED
  BY <1>1, <1>2, <1>4, QuietStep

LEMMA ExistsStep ==
  ASSUME IInv, NEW r \in Request, Exists(r)
  PROVE  IInv'
<1>1. Quiet(r)
  BY DEF Exists, Quiet, rowVars, memberVars, messageVars, ghosts
<1>2. Only(r)
  BY DEF Exists, IInv, Only, Functional, Goto, Fail
<1>3. Good(r) /\ Shaped(call[r]) /\ Functional
  BY DEF IInv, Good
<1>4. Good(r)'
  <2>1. CASE \E k : call' = [call EXCEPT ![r].stage = "from", ![r].to = k]
    <3>1. /\ Shaped(call'[r])
          /\ call[r].stage = "exists" /\ call'[r].stage = "from"
          /\ call'[r].kind = call[r].kind /\ call'[r].addr = call[r].addr
          /\ call'[r].chat = call[r].chat
      BY <1>3, <2>1 DEF Exists, Shaped, Functional, At, Goto, Fail
    <3> QED
      BY <1>1, <1>3, <2>1, <3>1 DEF Good, NoRival, InHand, Quiet, Before, Updating, Receiving, Found
  <2>2. CASE Found(Resolved[call[r].addr]) = {} /\ Goto(r, "readdress")
    <3>1. /\ Shaped(call'[r])
          /\ call[r].stage = "exists" /\ call'[r].stage = "readdress"
          /\ call'[r].kind = call[r].kind /\ call'[r].addr = call[r].addr
          /\ call'[r].chat = call[r].chat
      BY <1>3, <2>2 DEF Exists, Shaped, Functional, At, Goto, Fail
    <3> QED
      BY <1>1, <1>3, <2>2, <3>1 DEF Good, NoRival, InHand, Quiet, Before, Updating, Receiving, Found
  <2> QED
    BY <2>1, <2>2 DEF Exists, Fail
<1> QED
  BY <1>1, <1>2, <1>4, QuietStep

LEMMA ReaddressStep ==
  ASSUME IInv, NEW r \in Request, Readdress(r)
  PROVE  IInv'
<1>1. Quiet(r)
  BY DEF Readdress, Quiet, rowVars, memberVars, messageVars, ghosts, NextPost
<1>2. Only(r)
  BY DEF Readdress, IInv, Only, Functional, Goto, Fail, NextPost
<1>3. Good(r) /\ Shaped(call[r]) /\ Functional
  BY DEF IInv, Good
<1>4. Good(r)'
  <2>1. CASE Goto(r, "resave")
    <3>1. /\ Shaped(call'[r])
          /\ call[r].stage = "readdress" /\ call'[r].stage = "resave"
          /\ call'[r].kind = call[r].kind /\ call'[r].addr = call[r].addr
          /\ call'[r].chat = call[r].chat
      BY <1>3, <2>1 DEF Readdress, Shaped, Functional, At, Goto, Fail, NextPost
    <3> QED
      BY <1>1, <1>3, <2>1, <3>1 DEF Good, NoRival, InHand, Quiet, Before, Updating, Receiving, Found
  <2>2. CASE NextPost(r)
    <3>1. /\ Shaped(call'[r])
          /\ call[r].stage = "readdress" /\ call'[r].stage \in {"post", "done"}
          /\ call'[r].kind = call[r].kind
          /\ call'[r].chat = call[r].chat
      BY <1>3, <2>2 DEF Readdress, Shaped, Functional, At, Goto, Fail, NextPost
    <3> QED
      BY <1>1, <1>3, <2>2, <3>1 DEF Good, NoRival, InHand, Quiet, Before, Updating, Receiving, Found
  <2> QED
    BY <2>1, <2>2 DEF Readdress, Fail, NextPost
<1> QED
  BY <1>1, <1>2, <1>4, QuietStep

LEMMA LoadStep ==
  ASSUME IInv, NEW r \in Request, Load(r)
  PROVE  IInv'
<1>1. Quiet(r)
  BY DEF Load, Quiet, rowVars, memberVars, messageVars, ghosts
<1>2. Only(r)
  BY DEF Load, IInv, Only, Functional, Goto, Fail
<1>3. Good(r) /\ Shaped(call[r]) /\ Functional
  BY DEF IInv, Good
<1>4. Good(r)'
  <2>1. CASE /\ call[r].chat \in chats
               /\ call' = [call EXCEPT ![r].stage = "load users", ![r].addr = addr[call[r].chat]]
    <3>1. /\ Shaped(call'[r])
          /\ call[r].stage = "load" /\ call[r].chat \in chats /\ call'[r].stage = "load users"
          /\ call'[r].kind = call[r].kind /\ call'[r].addr = addr[call[r].chat]
          /\ call'[r].chat = call[r].chat
      BY <1>3, <2>1 DEF Load, Shaped, Functional, At, Goto, Fail
    <3>2. r \notin disturbed' => NoRival(r)'
      BY <1>1, <3>1 DEF NoRival, Quiet, Updating
    <3>3. r \notin disturbed' => InHand(r)'
      <4>1. Quiet(r) /\ (r \notin disturbed' => InHand(r))
        BY <1>1, <1>3 DEF Good, Quiet
      <4> QED
        BY <3>1, <4>1 DEF InHand, Quiet, Receiving
    <3> QED
      BY <1>1, <1>3, <3>1, <3>2, <3>3 DEF Good, Quiet, Before
  <2>2. CASE Goto(r, "failed")
    <3>1. /\ Shaped(call'[r])
          /\ call[r].stage = "load" /\ call'[r].stage = "failed"
          /\ call'[r].kind = call[r].kind /\ call'[r].addr = call[r].addr
          /\ call'[r].chat = call[r].chat
      BY <1>3, <2>2 DEF Load, Shaped, Functional, At, Goto, Fail
    <3> QED
      BY <1>1, <1>3, <2>2, <3>1 DEF Good, NoRival, InHand, Quiet, Before, Updating, Receiving, Found
  <2> QED
    BY <2>1, <2>2 DEF Load, Fail
<1> QED
  BY <1>1, <1>2, <1>4, QuietStep

LEMMA LoadUsersStep ==
  ASSUME IInv, NEW r \in Request, LoadUsers(r)
  PROVE  IInv'
<1>1. Quiet(r)
  BY DEF LoadUsers, Quiet, rowVars, memberVars, messageVars, ghosts
<1>2. Only(r)
  BY DEF LoadUsers, IInv, Only, Functional, Goto, Fail
<1>3. Good(r) /\ Shaped(call[r]) /\ Functional
  BY DEF IInv, Good
<1>4. Good(r)'
  <2>1. CASE \E M, W, t : /\ t \in {"save", "expel", "invite"}
                           /\ call' = [call EXCEPT ![r].users = M, ![r].want = W, ![r].stage = t]
    <3>1. /\ Shaped(call'[r])
          /\ call[r].stage = "load users" /\ call'[r].stage \in {"save", "expel", "invite"}
          /\ call'[r].kind = call[r].kind /\ call'[r].addr = call[r].addr
          /\ call'[r].chat = call[r].chat
      BY <1>3, <2>1 DEF LoadUsers, Shaped, Functional, At, Goto, Fail
    <3> QED
      BY <1>1, <1>3, <2>1, <3>1 DEF Good, NoRival, InHand, Quiet, Before, Updating, Receiving, Found
  <2> QED
    BY <2>1 DEF LoadUsers, Fail
<1> QED
  BY <1>1, <1>2, <1>4, QuietStep

LEMMA InviteStep ==
  ASSUME IInv, NEW r \in Request, NEW u, Invite(r, u)
  PROVE  IInv'
<1>1. Quiet(r)
  BY DEF Invite, Quiet, rowVars, memberVars, messageVars, ghosts, AddMember
<1>2. Only(r)
  BY DEF Invite, IInv, Only, Functional, Goto, Fail, AddMember
<1>3. Good(r) /\ Shaped(call[r]) /\ Functional
  BY DEF IInv, Good
<1>4. Good(r)'
  <2>1. CASE \E W, t : /\ t \in {"expel", "invite"}
                           /\ call' = [call EXCEPT ![r].want = W, ![r].stage = t]
    <3>1. /\ Shaped(call'[r])
          /\ call[r].stage = "invite" /\ call'[r].stage \in {"expel", "invite"}
          /\ call'[r].kind = call[r].kind /\ call'[r].addr = call[r].addr
          /\ call'[r].chat = call[r].chat
      BY <1>3, <2>1 DEF Invite, Shaped, Functional, At, Goto, Fail, AddMember
    <3> QED
      BY <1>1, <1>3, <2>1, <3>1 DEF Good, NoRival, InHand, Quiet, Before, Updating, Receiving, Found
  <2>2. CASE Goto(r, "failed")
    <3>1. /\ Shaped(call'[r])
          /\ call[r].stage = "invite" /\ call'[r].stage = "failed"
          /\ call'[r].kind = call[r].kind /\ call'[r].addr = call[r].addr
          /\ call'[r].chat = call[r].chat
      BY <1>3, <2>2 DEF Invite, Shaped, Functional, At, Goto, Fail, AddMember
    <3> QED
      BY <1>1, <1>3, <2>2, <3>1 DEF Good, NoRival, InHand, Quiet, Before, Updating, Receiving, Found
  <2> QED
    BY <2>1, <2>2 DEF Invite, Fail, AddMember
<1> QED
  BY <1>1, <1>2, <1>4, QuietStep

LEMMA ExpelStep ==
  ASSUME IInv, NEW r \in Request, Expel(r)
  PROVE  IInv'
<1>1. Quiet(r)
  BY ChatsAssumption DEF Expel, Quiet, rowVars, memberVars, messageVars, ghosts
<1>2. Only(r)
  BY DEF Expel, IInv, Only, Functional, Goto, Fail
<1>3. Good(r) /\ Shaped(call[r]) /\ Functional
  BY DEF IInv, Good
<1>4. Good(r)'
  <2>1. CASE Goto(r, "save")
    <3>1. /\ Shaped(call'[r])
          /\ call[r].stage = "expel" /\ call'[r].stage = "save"
          /\ call'[r].kind = call[r].kind /\ call'[r].addr = call[r].addr
          /\ call'[r].chat = call[r].chat
      BY <1>3, <2>1, ChatsAssumption DEF Expel, Shaped, Functional, At, Goto, Fail
    <3> QED
      BY <1>1, <1>3, <2>1, <3>1, ChatsAssumption DEF Good, NoRival, InHand, Quiet, Before, Updating, Receiving, Found
  <2> QED
    BY <2>1 DEF Expel, Fail
<1> QED
  BY <1>1, <1>2, <1>4, QuietStep

------------------------------------------------------------------------------
(* New calls *)

LEMMA ReceiveStep ==
  ASSUME IInv, NEW r \in Request, NEW a, Receive(r, a)
  PROVE  IInv'
<1>1. Quiet(r)
  BY DEF Receive, Open, Quiet, rowVars, memberVars, messageVars, ghosts
<1>2. Only(r)
  BY DEF Receive, Open, Only, IInv, Functional
<1>3. Shaped(call[r]) /\ Functional
  BY DEF IInv, Good
<1>4. Shaped(call'[r]) /\ call'[r].stage = "lookup" /\ call'[r].kind = "receive"
  BY <1>3 DEF Receive, Open, First, Shaped, Functional
<1>5. Good(r)'
  BY <1>4 DEF Good, NoRival, InHand, Before, Updating, Receiving
<1> QED
  BY <1>1, <1>2, <1>5, QuietStep

LEMMA OpenStep ==
  ASSUME IInv, NEW r \in Request, NEW kind \in {"create", "send", "update"}, NEW k, NEW a, NEW w,
         NEW l, Open(r, kind, k, a, w, l), k \in 1..lastChat \/ kind = "create"
  PROVE  IInv'
<1>1. Quiet(r)
  BY DEF Open, Quiet, rowVars, memberVars, messageVars, ghosts
<1>2. Only(r)
  BY DEF Open, Only, IInv, Functional
<1>3. Shaped(call[r]) /\ Functional
  BY DEF IInv, Good
<1>4. /\ Shaped(call'[r]) /\ call'[r].kind = kind /\ call'[r].chat = k
      /\ \/ kind # "create" /\ call'[r].stage \in {"write", "load"}
         \/ kind = "create" /\ call'[r].stage = "again"
  <2>1. Shaped(call'[r]) /\ call'[r].kind = kind /\ call'[r].chat = k /\ call'[r].stage = First[kind]
    BY <1>3 DEF Open, Shaped, Functional
  <2>2. First["create"] = "again" /\ First["send"] = "write" /\ First["update"] = "load"
    BY DEF First
  <2> QED
    BY <2>1, <2>2
<1>5. k \in 1..lastChat' \/ kind = "create"
  BY <1>1 DEF Quiet
<1>6. NoRival(r)' /\ InHand(r)'
  BY <1>4 DEF NoRival, InHand, Updating
<1>7. Good(r)'
  <2>1. call'[r].stage \notin Before => call'[r].chat \in 1..lastChat'
    BY <1>4, <1>5 DEF Before
  <2>2. call'[r].stage # "new"
    BY <1>4
  <2> QED
    BY <1>4, <1>6, <2>1, <2>2 DEF Good
<1> QED
  BY <1>1, <1>2, <1>7, QuietStep

------------------------------------------------------------------------------
(* Steps that write a chat *)

(* Chat k gets address a; a call whose reads this overtakes is disturbed. *)
Puts(r, k, a) ==
  /\ k \in Chat /\ chats' = chats \cup {k} /\ addr' = [addr EXCEPT ![k] = a]
  /\ disturbed \subseteq disturbed' /\ raced \subseteq raced'
  /\ \/ chats' = chats /\ addr' = addr
     \/ \A q \in Others(r) : Seeks(q, a) \/ WorksOn(q, k) => q \in disturbed'
  /\ UNCHANGED <<members, stored>>
  /\ lastChat' \in Nat /\ lastChat <= lastChat' /\ lastChat' <= MaxChat /\ k <= lastChat'

LEMMA FoundAfter ==
  ASSUME Rows, NEW r, NEW k, NEW a, Puts(r, k, a), NEW b, b # a
  PROVE  Found(b)' \subseteq Found(b)
BY DEF Rows, Puts, Found, Chat

LEMMA PutOthers ==
  ASSUME IInv, NEW r \in Request, NEW k, NEW a, Puts(r, k, a), Only(r),
         NEW q \in Request, q # r
  PROVE  Good(q)'
<1>1. call'[q] = call[q] /\ Good(q) /\ lastChat \in Nat
  BY DEF Only, IInv, Rows
<1>2. CASE chats' = chats /\ addr' = addr
  <2>1. NoRival(q) => NoRival(q)'
    BY <1>1, <1>2 DEF NoRival, Found
  <2>2. InHand(q) => InHand(q)'
    BY <1>1, <1>2 DEF InHand, Puts, Found
  <2> QED
    BY <1>1, <2>1, <2>2 DEF Good, Puts, Shaped
<1>3. CASE q \in disturbed'
  BY <1>1, <1>3 DEF Good, Puts, Shaped
<1>4. CASE q \notin disturbed' /\ ~ (chats' = chats /\ addr' = addr)
  <2>1. ~ Seeks(q, a) /\ ~ WorksOn(q, k) /\ NoRival(q) /\ InHand(q)
    BY <1>1, <1>4 DEF Puts, Others, Good
  <2>2. \A b : b # a => Found(b)' \subseteq Found(b)
    BY FoundAfter DEF IInv
  <2>3. NoRival(q)'
    <3>1. CASE call[q].stage \in Updating
      <4>1. call[q].chat # k
        BY <2>1, <3>1 DEF WorksOn, Running, Ended, Updating
      <4>2. call[q].chat \in chats' /\ addr'[call[q].chat] = addr[call[q].chat]
        BY <2>1, <3>1, <4>1 DEF Puts, NoRival, IInv, Rows
      <4> QED
        BY <1>1, <2>1, <3>1, <4>2 DEF NoRival, Updating
    <3>2. CASE call[q].stage \notin Updating
      <4>1. call[q].stage = "insert" => Found(call[q].addr)' \subseteq Found(call[q].addr)
        BY <1>1, <2>1, <2>2 DEF Seeks
      <4>2. call[q].stage \in {"readdress", "resave"} =>
              Found(Resolved[call[q].addr])' \subseteq Found(Resolved[call[q].addr])
        BY <1>1, <2>1, <2>2 DEF Seeks
      <4> QED
        BY <1>1, <2>1, <3>2, <4>1, <4>2 DEF NoRival, Found
    <3> QED
      BY <3>1, <3>2
  <2>4. call[q].stage = "again" => Found(call[q].addr)' \subseteq Found(call[q].addr)
    BY <1>1, <2>1, <2>2 DEF Seeks
  <2>5. InHand(q)'
    BY <1>1, <2>1, <2>4 DEF InHand, Puts, Found
  <2> QED
    BY <1>1, <2>3, <2>5 DEF Good, Puts, Shaped
<1> QED
  BY <1>2, <1>3, <1>4

LEMMA PutStep ==
  ASSUME IInv, NEW r \in Request, NEW k, NEW a, Puts(r, k, a), Only(r), Good(r)',
         a \in raced' \/ Found(a) \subseteq {k} \/ (chats' = chats /\ addr' = addr)
  PROVE  IInv'
<1>1. Rows'
  <2>1. chats' \subseteq 1..lastChat'
    BY ChatsAssumption DEF Puts, IInv, Rows, Chat
  <2>2. addr' = [x \in Chat |-> addr'[x]]
    BY DEF Puts, IInv, Rows
  <2> QED
    BY <2>1, <2>2 DEF Puts, Rows
<1>2. OneChatPerAddress'
  <2>1. CASE chats' = chats /\ addr' = addr
    BY <2>1 DEF Puts, IInv, OneChatPerAddress
  <2>2. CASE a \in raced' \/ Found(a) \subseteq {k}
    <3> SUFFICES ASSUME NEW i \in chats', NEW j \in chats', i # j, addr'[i] = addr'[j],
                        addr'[i] \notin raced'
                 PROVE  FALSE
      BY DEF OneChatPerAddress
    <3>1. addr'[k] = a /\ \A x \in chats : x # k => addr'[x] = addr[x]
      BY DEF Puts, IInv, Rows, Chat
    <3>2. CASE i # k /\ j # k
      BY <3>1, <3>2 DEF Puts, IInv, OneChatPerAddress
    <3>3. CASE i = k \/ j = k
      BY <2>2, <3>1, <3>3 DEF Puts, Found
    <3> QED
      BY <3>2, <3>3
  <2> QED
    BY <2>1, <2>2
<1> QED
  BY <1>1, <1>2, PutOthers DEF IInv, Only

LEMMA InsertChatStep ==
  ASSUME IInv, NEW r \in Request, InsertChat(r)
  PROVE  IInv'
<1> DEFINE a == call[r].addr
<1>1. Shaped(call[r]) /\ Functional /\ Good(r) /\ Rows
  BY DEF IInv, Good
<1>2. lastChat + 1 \notin chats
  BY <1>1 DEF Rows
<1>3. Puts(r, lastChat', a)
  BY <1>1, <1>2, ChatsAssumption DEF InsertChat, PutChat, Puts, Rows, Chat, memberVars, messageVars
<1>4. /\ Only(r) /\ Shaped(call'[r]) /\ call'[r].kind = call[r].kind
      /\ call'[r].stage \in {"last", "fill"} /\ call'[r].chat = lastChat'
  BY <1>1 DEF InsertChat, Only, Functional, Shaped
<1>5. Good(r)'
  <2>1. lastChat' \in 1..lastChat' /\ lastChat' \in chats'
    BY <1>3 DEF Puts, Chat
  <2>2. NoRival(r)'
    BY <1>4 DEF NoRival, Updating
  <2>3. r \notin disturbed' => InHand(r)'
    BY <1>4, <2>1 DEF InHand, Receiving
  <2> QED
    BY <1>4, <2>1, <2>2, <2>3 DEF Good
<1>6. a \in raced' \/ Found(a) \subseteq {lastChat'}
  BY <1>1 DEF InsertChat, PutChat, Good, NoRival, At
<1> QED
  BY <1>3, <1>4, <1>5, <1>6, PutStep

LEMMA SaveChatStep ==
  ASSUME IInv, NEW r \in Request, SaveChat(r)
  PROVE  IInv'
<1> DEFINE k == call[r].chat
           a == call[r].addr
<1>1. Shaped(call[r]) /\ Functional /\ Good(r) /\ Rows
  BY DEF IInv, Good
<1>2. k \in 1..lastChat /\ call[r].stage = "save"
  BY <1>1 DEF SaveChat, Good, At, Before
<1>3. Puts(r, k, a)
  <2>1. CASE k \in chats /\ addr[k] = a
    <3>1. chats' = chats /\ addr' = addr
      BY <1>1, <2>1 DEF SaveChat, PutChat, Rows
    <3> QED
      <4>1. k \in Chat /\ lastChat' = lastChat /\ k <= lastChat /\ lastChat \in Nat /\ lastChat <= MaxChat
        BY <1>1, <1>2, ChatsAssumption DEF SaveChat, Rows, Chat
      <4>2. disturbed' = disturbed /\ raced \subseteq raced'
        BY <2>1 DEF SaveChat, PutChat
      <4> QED
        BY <3>1, <4>1, <4>2 DEF SaveChat, PutChat, Puts, memberVars, messageVars
  <2>2. CASE ~ (k \in chats /\ addr[k] = a)
    BY <1>1, <1>2, <2>2, ChatsAssumption DEF SaveChat, PutChat, Puts, Rows, Chat, memberVars, messageVars
  <2> QED
    BY <2>1, <2>2
<1>4. Only(r) /\ Keeps(r) /\ call'[r].stage = "done"
  BY <1>1, GotoStep DEF SaveChat, Keeps
<1>5. Good(r)'
  BY <1>1, <1>2, <1>3, <1>4 DEF Good, Keeps, NoRival, InHand, Puts, Before, Updating, Receiving
<1>6. a \in raced' \/ (chats' = chats /\ addr' = addr)
  BY <1>1, <1>2 DEF SaveChat, PutChat, Good, NoRival, Updating, Rows
<1> QED
  BY <1>3, <1>4, <1>5, <1>6, PutStep

LEMMA ResaveStep ==
  ASSUME IInv, NEW r \in Request, Resave(r)
  PROVE  IInv'
<1> DEFINE k == call[r].chat
           a == Resolved[call[r].addr]
<1>1. Shaped(call[r]) /\ Functional /\ Good(r) /\ Rows
  BY DEF IInv, Good
<1>2. k \in 1..lastChat /\ call[r].stage = "resave"
  BY <1>1 DEF Resave, Good, At, Before
<1>3. Puts(r, k, a)
  <2>1. k \in Chat /\ lastChat' = lastChat /\ k <= lastChat /\ lastChat \in Nat /\ lastChat <= MaxChat
    BY <1>1, <1>2, ChatsAssumption DEF Resave, Rows, Chat
  <2>2. \A q \in Others(r) : Seeks(q, a) \/ WorksOn(q, k) => q \in disturbed'
    BY DEF Resave
  <2> QED
    BY <2>1, <2>2 DEF Resave, Puts, memberVars, messageVars
<1>4. Only(r) /\ Keeps(r) /\ call'[r].stage \in {"post", "done"}
  BY <1>1, NextPostStep DEF Resave, Keeps
<1>5. Good(r)'
  BY <1>2, <1>4 DEF Resave, Good, Keeps
<1>6. a \in raced' \/ Found(a) \subseteq {k}
  BY <1>1, <1>2 DEF Resave, Good, NoRival
<1> QED
  BY <1>3, <1>4, <1>5, <1>6, PutStep

------------------------------------------------------------------------------
(* Steps that remove a chat, and a lost call *)

LEMMA RemoveStep ==
  ASSUME IInv, NEW r \in Request, NEW k, RemoveChat(r, k), Only(r), Good(r)',
         UNCHANGED <<addr, lastChat, stored, raced>>
  PROVE  IInv'
<1>1. Rows' /\ OneChatPerAddress'
  BY DEF IInv, Rows, RemoveChat, OneChatPerAddress
<1>2. ASSUME NEW q \in Request, q # r PROVE Good(q)'
  <2>1. call'[q] = call[q] /\ Good(q)
    BY <1>2 DEF Only, IInv
  <2>2. CASE q \in disturbed'
    BY <2>1, <2>2 DEF Good, Shaped
  <2>3. CASE q \notin disturbed'
    <3>1. NoRival(q) /\ InHand(q) /\ (Running(q) => call[q].chat # k)
      BY <1>2, <2>1, <2>3 DEF RemoveChat, Others, Good
    <3>2. \A b : Found(b)' \subseteq Found(b)
      BY DEF Found, RemoveChat
    <3>3. NoRival(q)'
      BY <2>1, <3>1, <3>2 DEF NoRival, Updating, Running, Ended, RemoveChat
    <3>4. InHand(q)'
      BY <2>1, <3>1, <3>2 DEF InHand, Running, Ended, RemoveChat
    <3> QED
      BY <2>1, <3>3, <3>4 DEF Good, Shaped
  <2> QED
    BY <2>2, <2>3
<1> QED
  BY <1>1, <1>2 DEF IInv, Only

LEMMA DropStep ==
  ASSUME IInv, NEW r \in Request, Drop(r)
  PROVE  IInv'
<1>1. Shaped(call[r]) /\ Functional /\ Good(r)
  BY DEF IInv, Good
<1>2. RemoveChat(r, call[r].chat) /\ UNCHANGED <<addr, lastChat, stored, raced>>
  BY DEF Drop
<1>3. Only(r) /\ Keeps(r) /\ call'[r].stage \in {"post", "done"} /\ call[r].stage = "drop"
  BY <1>1, NextPostStep DEF Drop, Keeps, At
<1>4. Good(r)'
  BY <1>1, <1>2, <1>3 DEF Good, Keeps, NoRival, InHand, RemoveChat, Before, Updating, Receiving
<1> QED
  BY <1>2, <1>3, <1>4, RemoveStep

LEMMA DeleteChatStep ==
  ASSUME IInv, NEW r \in Request, NEW k, DeleteChat(r, k)
  PROVE  IInv'
<1>1. Shaped(call[r]) /\ Functional
  BY DEF IInv, Good
<1>2. RemoveChat(r, k) /\ UNCHANGED <<addr, lastChat, stored, raced>>
  BY DEF DeleteChat
<1>3. Only(r) /\ Shaped(call'[r]) /\ call'[r].stage = "done" /\ call'[r].kind = "delete"
  BY <1>1 DEF DeleteChat, Only, Functional, Shaped
<1>4. Good(r)'
  BY <1>3 DEF Good, NoRival, InHand, Before, Updating
<1> QED
  BY <1>2, <1>3, <1>4, RemoveStep

LEMMA AbortStep ==
  ASSUME IInv, NEW r \in Request, Abort(r)
  PROVE  IInv'
<1>1. /\ UNCHANGED <<chats, addr, lastChat, members, stored, raced>>
      /\ disturbed' = disturbed \cup {r}
  BY DEF Abort, rowVars, memberVars, messageVars
<1>2. /\ Only(r) /\ Shaped(call'[r]) /\ call'[r].stage = "failed"
  BY DEF Abort, IInv, Only, Functional, Shaped, NoCall
<1>3. Good(r)'
  BY <1>1, <1>2 DEF Good, Before
<1>4. ASSUME NEW q \in Request, q # r PROVE Good(q)'
  <2>1. call'[q] = call[q] /\ Good(q)
    BY <1>2, <1>4 DEF Only, IInv
  <2>2. NoRival(q) => NoRival(q)'
    BY <1>1, <2>1 DEF NoRival, Found
  <2>3. InHand(q) => InHand(q)'
    BY <1>1, <2>1 DEF InHand, Found
  <2> QED
    BY <1>1, <2>1, <2>2, <2>3 DEF Good, Shaped
<1>5. Rows' /\ OneChatPerAddress'
  BY <1>1 DEF IInv, Rows, OneChatPerAddress
<1> QED
  BY <1>2, <1>3, <1>4, <1>5 DEF IInv, Only

------------------------------------------------------------------------------
(* Theorems *)

LEMMA InitInv ==
  ASSUME Init
  PROVE  IInv
<1>1. Rows
  BY ChatsAssumption DEF Init, Rows, Chat
<1>2. Functional /\ \A r \in Request : call[r] = NoCall
  BY DEF Init, Functional
<1>3. \A r \in Request : Good(r)
  <2> SUFFICES ASSUME NEW r \in Request PROVE Good(r)
    OBVIOUS
  <2>1. Shaped(call[r]) /\ call[r].stage = "new" /\ call[r].kind = "none"
    BY <1>2 DEF NoCall, Shaped
  <2> QED
    BY <2>1 DEF Good, NoRival, InHand, Before, Updating
<1>4. OneChatPerAddress
  BY DEF Init, OneChatPerAddress
<1> QED
  BY <1>1, <1>2, <1>3, <1>4 DEF IInv

LEMMA NextInv ==
  ASSUME IInv, [Next]_vars
  PROVE  IInv'
<1>1. CASE UNCHANGED vars
  BY <1>1 DEF vars, rowVars, memberVars, messageVars, ghosts, IInv, Rows, Functional,
     OneChatPerAddress, Good, Shaped, NoRival, InHand, Found
<1>2. ASSUME NEW r \in Request, Begin(r) PROVE IInv'
  <2>1. chats \subseteq 1..lastChat
    BY DEF IInv, Rows
  <2>2. CASE \E a \in Address : Resolved[a] = a /\ Receive(r, a)
    BY <2>2, ReceiveStep
  <2>3. CASE \E a \in Address, u \in User : Open(r, "create", 0, a, u, NoList)
    BY <2>3, OpenStep
  <2>4. CASE \E k \in chats, u \in User : Open(r, "send", k, addr[k], u, NoList)
    BY <2>1, <2>4, OpenStep
  <2>5. CASE \E k \in chats, u \in User, l \in Lists \cup {NoList} :
                Open(r, "update", k, addr[k], u, l)
    BY <2>1, <2>5, OpenStep
  <2>6. CASE \E k \in chats : DeleteChat(r, k)
    BY <2>6, DeleteChatStep
  <2> QED
    BY <1>2, <2>2, <2>3, <2>4, <2>5, <2>6 DEF Begin
<1>3. ASSUME NEW r \in Request, Step(r) PROVE IInv'
  BY <1>3, LookupStep, FindMemberStep, InsertContactStep, LinkStep, AgainStep, InsertChatStep, FillStep,
     InviteStep, FullStep, UsersStep, JoinStep, WriteStep, NotifyStep, ReadContactsStep, PostStep,
     ExistsStep, ReaddressStep, ResaveStep, ReadFromStep, ReadFromUsersStep, ReadToStep,
     ReadToUsersStep, ReadAgainStep, AddOneStep, ReadMessagesStep, ReadAuthorStep, CopyOneStep, DropStep,
     LoadStep, LoadUsersStep, ExpelStep, SaveChatStep DEF Step
<1> QED
  BY <1>1, <1>2, <1>3, AbortStep DEF Next

LEMMA Invariance == Spec => []IInv
<1>1. Init => IInv
  BY InitInv
<1>2. IInv /\ [Next]_vars => IInv'
  BY NextInv
<1> QED
  BY <1>1, <1>2, PTL DEF Spec

(* A contact's address has one chat but where a call wrote it after another  *)
(* one had overtaken what it had read (createExternalChat, updateExternalId, *)
(* updateGroupChat, mergeChat).                                              *)
THEOREM OneChatPerAddressCorrect == Spec => []OneChatPerAddress
<1>1. IInv => OneChatPerAddress
  BY DEF IInv
<1> QED
  BY <1>1, Invariance, PTL

(* An incoming message is stored but where another call created, readdressed *)
(* or removed its chat meanwhile, or the process was lost                    *)
(* (getChatUserExternal, createExternalChat, createExternal).                *)
THEOREM IncomingStoredCorrect == Spec => []IncomingStored
<1>1. IInv => IncomingStored
  <2> SUFFICES ASSUME IInv, NEW r \in Request, call[r].kind = "receive", ~ Running(r)
               PROVE  r \in stored \/ r \in disturbed \/ At(r, "unlinked")
    BY DEF IncomingStored
  <2>1. call[r].stage \notin Receiving
    BY DEF Running, Ended, Receiving, IInv, Good
  <2> QED
    BY <2>1 DEF IInv, Good, InHand, At
<1> QED
  BY <1>1, Invariance, PTL
------------------------------------------------------------------------------
(* Messages: every one stored is kept, and none is kept twice *)

(* Stages at which a message is on its way to the contacts of its chat. *)
Merger ==
  {"from", "from users", "to", "to users", "adding", "adds", "messages", "authors", "copy", "drop"}
Posting == {"contacts", "post", "exists", "readdress", "resave"} \cup Merger

(* What a call knows of the messages and of the chats it merges. *)
Knows(r) ==
  LET c == call[r] IN
  /\ c.stage \notin {"authors", "copy"} => c.rest = {}
  /\ \A x \in c.rest : x.origin \in stored
  /\ c.stage \in Receiving \cup {"new"} => r \notin stored
  /\ c.stage = "exists" => Resolved[c.addr] # c.addr
  /\ r \notin disturbed =>
       /\ c.stage \in Posting => addr[c.chat] = c.addr
       /\ c.stage \in Merger => c.to # c.chat

(* A merge is going to delete message m with its chat. *)
Doomed(m) == \E r \in Request : call[r].stage \in Merging /\ call[r].chat = m.chat
(* A merge that nothing disturbs is going to, and has no copy of m to make. *)
Passed(m) == \E r \in Request \ disturbed :
  /\ call[r].stage \in Merging /\ call[r].chat = m.chat
  /\ m.origin \notin Origins(call[r].rest)

(* No merge has passed all copies of a message. *)
Whole == \A o \in stored \ gone : \E m \in messages : m.origin = o /\ ~Passed(m)

(* All copies of a message but one are going to be deleted, and all while a *)
(* merge is about to make another; only one merge is.                       *)
Undoubled ==
  /\ \A m, n \in messages :
       m # n /\ m.origin = n.origin /\ m.origin \notin repeated => Doomed(m) \/ Doomed(n)
  /\ \A r \in Request : \A x \in call[r].rest : x.origin \notin repeated =>
       /\ \A m \in messages : m.origin = x.origin => Doomed(m)
       /\ \A q \in Request : \A y \in call[q].rest : y.origin = x.origin => q = r /\ y = x

MergeInv ==
  /\ \A m \in messages : m.origin \in stored
  /\ Whole /\ Undoubled
  /\ \A r \in Request : Knows(r)

(* A step of call r that changes only it, and does not touch what other calls know. *)
Apart(r) ==
  /\ Only(r) /\ disturbed \subseteq disturbed'
  /\ \A q \in Request \ {r} :
       call[q].stage \in Posting /\ q \notin disturbed' =>
         addr'[call[q].chat] = addr[call[q].chat]

(* A step that merges nothing: a message it deletes is passed or is gone. *)
Shrink(r) ==
  /\ messages' \subseteq messages /\ stored' = stored
  /\ gone \subseteq gone' /\ repeated \subseteq repeated'
  /\ call'[r].stage \notin Merging /\ call'[r].rest = {}
  /\ \A m \in messages : m \notin messages' => m.origin \in gone' \/ Passed(m)
  /\ \A m \in messages' : call[r].stage \in Merging /\ m.chat = call[r].chat
                            => m.origin \in repeated'

LEMMA KnowsOthers ==
  ASSUME MergeInv, NEW r \in Request, Apart(r), stored \subseteq stored',
         stored' \subseteq stored \cup {r}, NEW q \in Request, q # r
  PROVE  Knows(q)'
<1>1. call'[q] = call[q] /\ Knows(q)
  BY DEF Apart, Only, MergeInv
<1> QED
  BY <1>1 DEF Knows, Apart

LEMMA ShrinkStep ==
  ASSUME MergeInv, NEW r \in Request, Apart(r), Shrink(r), Knows(r)'
  PROVE  MergeInv'
<1>1. \A m \in messages' : m.origin \in stored'
  BY DEF MergeInv, Shrink
<1>2. \A q \in Request : Knows(q)'
  BY KnowsOthers DEF Shrink
<1>3. \A q \in Request : q # r => call'[q] = call[q]
  BY DEF Apart, Only
<1>4. Whole'
  <2> SUFFICES ASSUME NEW o \in stored' \ gone'
               PROVE  \E m \in messages' : m.origin = o /\ ~Passed(m)'
    BY DEF Whole
  <2>1. PICK m \in messages : m.origin = o /\ ~Passed(m)
    BY DEF MergeInv, Whole, Shrink
  <2>2. m \in messages'
    BY <2>1 DEF Shrink
  <2>3. ~Passed(m)'
    BY <1>3, <2>1 DEF Passed, Shrink, Apart
  <2> QED
    BY <2>1, <2>2, <2>3
<1>5. \A m \in messages' : Doomed(m) => Doomed(m)' \/ m.origin \in repeated'
  BY <1>3 DEF Doomed, Shrink
<1>6. Undoubled'
  <2>1. \A m, n \in messages' :
          m # n /\ m.origin = n.origin /\ m.origin \notin repeated' => Doomed(m)' \/ Doomed(n)'
    BY <1>5 DEF MergeInv, Undoubled, Shrink
  <2>2. ASSUME NEW q \in Request, NEW x \in call'[q].rest, x.origin \notin repeated'
        PROVE  /\ \A m \in messages' : m.origin = x.origin => Doomed(m)'
               /\ \A p \in Request : \A y \in call'[p].rest :
                    y.origin = x.origin => p = q /\ y = x
    <3>1. q # r /\ x \in call[q].rest /\ x.origin \notin repeated
      BY <1>3, <2>2 DEF Shrink
    <3>2. \A m \in messages' : m.origin = x.origin => Doomed(m)'
      BY <1>5, <2>2, <3>1 DEF MergeInv, Undoubled, Shrink
    <3>3. \A p \in Request : \A y \in call'[p].rest : p # r /\ y \in call[p].rest
      BY <1>3 DEF Shrink
    <3> QED
      BY <3>1, <3>2, <3>3 DEF MergeInv, Undoubled
  <2> QED
    BY <2>1, <2>2 DEF Undoubled
<1> QED
  BY <1>1, <1>2, <1>4, <1>6 DEF MergeInv
(* A step that deletes nothing and is not part of the copying. *)
Still(r) ==
  /\ Only(r) /\ Shaped(call'[r])
  /\ UNCHANGED <<messages, stored, gone, repeated>> /\ disturbed \subseteq disturbed'
  /\ call[r].stage \notin Merging /\ call'[r].stage \notin Merging /\ call'[r].rest = {}

LEMMA StillStep ==
  ASSUME MergeInv, NEW r \in Request, Still(r), Knows(r)',
         addr' = addr \/ \A q \in Request \ {r} :
           call[q].stage \in Posting /\ q \notin disturbed' =>
             addr'[call[q].chat] = addr[call[q].chat]
  PROVE  MergeInv'
<1>1. Apart(r) /\ Shrink(r)
  BY DEF Still, Apart, Shrink
<1> QED
  BY <1>1, ShrinkStep

LEMMA KnowsOwn ==
  ASSUME IInv, MergeInv, NEW r \in Request
  PROVE  /\ Shaped(call[r]) /\ Functional /\ Knows(r)
         /\ call[r].stage \notin Merging => call[r].rest = {}
BY DEF IInv, Good, MergeInv, Knows, Merging

(* Calls that post nothing. *)
Plain(r) ==
  /\ Still(r) /\ call'[r].stage \notin Posting \cup {"new"}
  /\ call'[r].stage \in Receiving => call[r].stage \in Receiving \cup {"new"}

LEMMA PlainKnows ==
  ASSUME MergeInv, NEW r \in Request, Plain(r)
  PROVE  Knows(r)'
<1>1. Knows(r)
  BY DEF MergeInv
<1> QED
  BY <1>1 DEF Plain, Still, Knows, Posting, Merger, Merging

LEMMA PlainStep ==
  ASSUME MergeInv, NEW r \in Request, Plain(r), addr' = addr
  PROVE  MergeInv'
BY PlainKnows, StillStep DEF Plain

(* Calls that post, and what they know of the address they post to. *)
Posts(r) ==
  /\ Still(r) /\ addr' = addr /\ call[r].stage \in Posting
  /\ call'[r].chat = call[r].chat /\ call'[r].addr = call[r].addr
  /\ call'[r].stage \in (Posting \ {"exists"}) \cup {"done"}
  /\ call'[r].stage \in Merger => call[r].stage \in Merger /\ call'[r].to = call[r].to

LEMMA PostsStep ==
  ASSUME MergeInv, NEW r \in Request, Posts(r)
  PROVE  MergeInv'
<1>1. Knows(r)
  BY DEF MergeInv
<1>2. Knows(r)'
  BY <1>1 DEF Posts, Still, Knows, Posting, Merger, Merging, Receiving
<1> QED
  BY <1>2, StillStep DEF Posts
LEMMA ReceivePlain ==
  ASSUME IInv, MergeInv, NEW r \in Request, NEW a, Receive(r, a)
  PROVE  Plain(r) /\ addr' = addr
<1>1. Shaped(call[r]) /\ Functional
  BY KnowsOwn
<1>2. /\ Only(r) /\ Shaped(call'[r]) /\ call[r].stage = "new"
      /\ call'[r].stage \in {"lookup"}
      /\ call'[r].rest = call[r].rest \/ call'[r].rest = {}
  BY <1>1 DEF Receive, At, Goto, Shaped, Functional, Only, Open, First
<1>3. UNCHANGED <<addr, messages, stored, gone, repeated, disturbed>>
  BY DEF Receive, rowVars, memberVars, messageVars, ghosts, Open, First
<1>4. call[r].rest = {}
  BY <1>2, KnowsOwn DEF Merging
<1> QED
  BY <1>2, <1>3, <1>4 DEF Plain, Still, Merging, Posting, Merger, Receiving

LEMMA LookupPlain ==
  ASSUME IInv, MergeInv, NEW r \in Request, Lookup(r)
  PROVE  Plain(r) /\ addr' = addr
<1>1. Shaped(call[r]) /\ Functional
  BY KnowsOwn
<1>2. /\ Only(r) /\ Shaped(call'[r]) /\ call[r].stage = "lookup"
      /\ call'[r].stage \in {"member", "again"}
      /\ call'[r].rest = call[r].rest \/ call'[r].rest = {}
  BY <1>1 DEF Lookup, At, Goto, Shaped, Functional, Only
<1>3. UNCHANGED <<addr, messages, stored, gone, repeated, disturbed>>
  BY DEF Lookup, rowVars, memberVars, messageVars, ghosts
<1>4. call[r].rest = {}
  BY <1>2, KnowsOwn DEF Merging
<1> QED
  BY <1>2, <1>3, <1>4 DEF Plain, Still, Merging, Posting, Merger, Receiving

LEMMA FindMemberPlain ==
  ASSUME IInv, MergeInv, NEW r \in Request, FindMember(r)
  PROVE  Plain(r) /\ addr' = addr
<1>1. Shaped(call[r]) /\ Functional
  BY KnowsOwn
<1>2. /\ Only(r) /\ Shaped(call'[r]) /\ call[r].stage = "member"
      /\ call'[r].stage \in {"write", "contact"}
      /\ call'[r].rest = call[r].rest \/ call'[r].rest = {}
  BY <1>1 DEF FindMember, At, Goto, Shaped, Functional, Only, AfterMember
<1>3. UNCHANGED <<addr, messages, stored, gone, repeated, disturbed>>
  BY DEF FindMember, rowVars, memberVars, messageVars, ghosts, AfterMember
<1>4. call[r].rest = {}
  BY <1>2, KnowsOwn DEF Merging
<1> QED
  BY <1>2, <1>3, <1>4 DEF Plain, Still, Merging, Posting, Merger, Receiving

LEMMA InsertContactPlain ==
  ASSUME IInv, MergeInv, NEW r \in Request, InsertContact(r)
  PROVE  Plain(r) /\ addr' = addr
<1>1. Shaped(call[r]) /\ Functional
  BY KnowsOwn
<1>2. /\ Only(r) /\ Shaped(call'[r]) /\ call[r].stage \in {"contact", "last"}
      /\ call'[r].stage \in {"write", "link", "failed"}
      /\ call'[r].rest = call[r].rest
  <2>1. CASE \E b, t : /\ t \in {"write", "link"}
                      /\ call' = [call EXCEPT ![r].by = b, ![r].stage = t]
    BY <1>1, <2>1 DEF InsertContact, Shaped, Functional, Only
  <2>2. CASE Fail(r)
    BY <1>1, <2>2 DEF InsertContact, Goto, Shaped, Functional, Only, Fail
  <2> QED
    BY <2>1, <2>2 DEF InsertContact
<1>3. UNCHANGED <<addr, messages, stored, gone, repeated, disturbed>>
  BY DEF InsertContact, rowVars, memberVars, messageVars, ghosts, AddMember, Fail
<1>4. call[r].rest = {}
  BY <1>2, KnowsOwn DEF Merging
<1> QED
  BY <1>2, <1>3, <1>4 DEF Plain, Still, Merging, Posting, Merger, Receiving

LEMMA LinkPlain ==
  ASSUME IInv, MergeInv, NEW r \in Request, Link(r)
  PROVE  Plain(r) /\ addr' = addr
<1>1. Shaped(call[r]) /\ Functional
  BY KnowsOwn
<1>2. /\ Only(r) /\ Shaped(call'[r]) /\ call[r].stage = "link"
      /\ call'[r].stage \in {"write", "done", "unlinked"} /\ call'[r].rest = call[r].rest
  BY <1>1 DEF Link, Linked, At, Goto, Shaped, Functional, Only
<1>3. UNCHANGED <<addr, messages, stored, gone, repeated, disturbed>>
  BY DEF Link, rowVars, memberVars, messageVars, ghosts
<1>4. call[r].rest = {}
  BY <1>2, KnowsOwn DEF Merging
<1> QED
  BY <1>2, <1>3, <1>4 DEF Plain, Still, Merging, Posting, Merger, Receiving

LEMMA AgainPlain ==
  ASSUME IInv, MergeInv, NEW r \in Request, Again(r)
  PROVE  Plain(r) /\ addr' = addr
<1>1. Shaped(call[r]) /\ Functional
  BY KnowsOwn
<1>2. /\ Only(r) /\ Shaped(call'[r]) /\ call[r].stage = "again"
      /\ call'[r].stage \in {"full", "insert"}
      /\ call'[r].rest = call[r].rest \/ call'[r].rest = {}
  BY <1>1 DEF Again, At, Goto, Shaped, Functional, Only
<1>3. UNCHANGED <<addr, messages, stored, gone, repeated, disturbed>>
  BY DEF Again, rowVars, memberVars, messageVars, ghosts
<1>4. call[r].rest = {}
  BY <1>2, KnowsOwn DEF Merging
<1> QED
  BY <1>2, <1>3, <1>4 DEF Plain, Still, Merging, Posting, Merger, Receiving

LEMMA FillPlain ==
  ASSUME IInv, MergeInv, NEW r \in Request, NEW u, Fill(r, u)
  PROVE  Plain(r) /\ addr' = addr
<1>1. Shaped(call[r]) /\ Functional
  BY KnowsOwn
<1>2. /\ Only(r) /\ Shaped(call'[r]) /\ call[r].stage = "fill"
      /\ call'[r].stage \in {"fill", "last", "failed"}
      /\ call'[r].rest = call[r].rest \/ call'[r].rest = {}
  BY <1>1 DEF Fill, At, Goto, Shaped, Functional, Only, AddMember, Fail
<1>3. UNCHANGED <<addr, messages, stored, gone, repeated, disturbed>>
  BY DEF Fill, rowVars, memberVars, messageVars, ghosts, AddMember, Fail
<1>4. call[r].rest = {}
  BY <1>2, KnowsOwn DEF Merging
<1> QED
  BY <1>2, <1>3, <1>4 DEF Plain, Still, Merging, Posting, Merger, Receiving

LEMMA FullPlain ==
  ASSUME IInv, MergeInv, NEW r \in Request, Full(r)
  PROVE  Plain(r) /\ addr' = addr
<1>1. Shaped(call[r]) /\ Functional
  BY KnowsOwn
<1>2. /\ Only(r) /\ Shaped(call'[r]) /\ call[r].stage = "full"
      /\ call'[r].stage \in {"users", "failed"}
      /\ call'[r].rest = call[r].rest \/ call'[r].rest = {}
  BY <1>1 DEF Full, At, Goto, Shaped, Functional, Only, Fail
<1>3. UNCHANGED <<addr, messages, stored, gone, repeated, disturbed>>
  BY DEF Full, rowVars, memberVars, messageVars, ghosts, Fail
<1>4. call[r].rest = {}
  BY <1>2, KnowsOwn DEF Merging
<1> QED
  BY <1>2, <1>3, <1>4 DEF Plain, Still, Merging, Posting, Merger, Receiving

LEMMA UsersPlain ==
  ASSUME IInv, MergeInv, NEW r \in Request, Users(r)
  PROVE  Plain(r) /\ addr' = addr
<1>1. Shaped(call[r]) /\ Functional
  BY KnowsOwn
<1>2. /\ Only(r) /\ Shaped(call'[r]) /\ call[r].stage = "users"
      /\ call'[r].stage \in {"write", "done", "join"}
      /\ call'[r].rest = call[r].rest \/ call'[r].rest = {}
  BY <1>1 DEF Users, At, Goto, Shaped, Functional, Only
<1>3. UNCHANGED <<addr, messages, stored, gone, repeated, disturbed>>
  BY DEF Users, rowVars, memberVars, messageVars, ghosts
<1>4. call[r].rest = {}
  BY <1>2, KnowsOwn DEF Merging
<1> QED
  BY <1>2, <1>3, <1>4 DEF Plain, Still, Merging, Posting, Merger, Receiving

LEMMA JoinPlain ==
  ASSUME IInv, MergeInv, NEW r \in Request, Join(r)
  PROVE  Plain(r) /\ addr' = addr
<1>1. Shaped(call[r]) /\ Functional
  BY KnowsOwn
<1>2. /\ Only(r) /\ Shaped(call'[r]) /\ call[r].stage = "join"
      /\ call'[r].stage \in {"done", "failed"}
      /\ call'[r].rest = call[r].rest \/ call'[r].rest = {}
  BY <1>1 DEF Join, At, Goto, Shaped, Functional, Only, AddMember, Fail
<1>3. UNCHANGED <<addr, messages, stored, gone, repeated, disturbed>>
  BY DEF Join, rowVars, memberVars, messageVars, ghosts, AddMember, Fail
<1>4. call[r].rest = {}
  BY <1>2, KnowsOwn DEF Merging
<1> QED
  BY <1>2, <1>3, <1>4 DEF Plain, Still, Merging, Posting, Merger, Receiving

LEMMA LoadPlain ==
  ASSUME IInv, MergeInv, NEW r \in Request, Load(r)
  PROVE  Plain(r) /\ addr' = addr
<1>1. Shaped(call[r]) /\ Functional
  BY KnowsOwn
<1>2. /\ Only(r) /\ Shaped(call'[r]) /\ call[r].stage = "load"
      /\ call'[r].stage \in {"load users", "failed"}
      /\ call'[r].rest = call[r].rest \/ call'[r].rest = {}
  <2>1. CASE call' = [call EXCEPT ![r].stage = "load users", ![r].addr = addr[call[r].chat]]
    BY <1>1, <2>1 DEF Load, At, Goto, Shaped, Functional, Only
  <2>2. CASE Fail(r)
    BY <1>1, <2>2 DEF Load, At, Goto, Shaped, Functional, Only, Fail
  <2> QED
    BY <2>1, <2>2 DEF Load
<1>3. UNCHANGED <<addr, messages, stored, gone, repeated, disturbed>>
  BY DEF Load, rowVars, memberVars, messageVars, ghosts, Fail
<1>4. call[r].rest = {}
  BY <1>2, KnowsOwn DEF Merging
<1> QED
  BY <1>2, <1>3, <1>4 DEF Plain, Still, Merging, Posting, Merger, Receiving

LEMMA LoadUsersPlain ==
  ASSUME IInv, MergeInv, NEW r \in Request, LoadUsers(r)
  PROVE  Plain(r) /\ addr' = addr
<1>1. Shaped(call[r]) /\ Functional
  BY KnowsOwn
<1>2. /\ Only(r) /\ Shaped(call'[r]) /\ call[r].stage = "load users"
      /\ call'[r].stage \in {"save", "expel", "invite"}
      /\ call'[r].rest = call[r].rest \/ call'[r].rest = {}
  BY <1>1 DEF LoadUsers, At, Goto, Shaped, Functional, Only
<1>3. UNCHANGED <<addr, messages, stored, gone, repeated, disturbed>>
  BY DEF LoadUsers, rowVars, memberVars, messageVars, ghosts
<1>4. call[r].rest = {}
  BY <1>2, KnowsOwn DEF Merging
<1> QED
  BY <1>2, <1>3, <1>4 DEF Plain, Still, Merging, Posting, Merger, Receiving

LEMMA InvitePlain ==
  ASSUME IInv, MergeInv, NEW r \in Request, NEW u, Invite(r, u)
  PROVE  Plain(r) /\ addr' = addr
<1>1. Shaped(call[r]) /\ Functional
  BY KnowsOwn
<1>2. /\ Only(r) /\ Shaped(call'[r]) /\ call[r].stage = "invite"
      /\ call'[r].stage \in {"invite", "expel", "failed"}
      /\ call'[r].rest = call[r].rest \/ call'[r].rest = {}
  BY <1>1 DEF Invite, At, Goto, Shaped, Functional, Only, AddMember, Fail
<1>3. UNCHANGED <<addr, messages, stored, gone, repeated, disturbed>>
  BY DEF Invite, rowVars, memberVars, messageVars, ghosts, AddMember, Fail
<1>4. call[r].rest = {}
  BY <1>2, KnowsOwn DEF Merging
<1> QED
  BY <1>2, <1>3, <1>4 DEF Plain, Still, Merging, Posting, Merger, Receiving

LEMMA ReadContactsPosts ==
  ASSUME IInv, MergeInv, NEW r \in Request, ReadContacts(r)
  PROVE  Posts(r) /\ addr' = addr
<1>1. Shaped(call[r]) /\ Functional
  BY KnowsOwn
<1>2. /\ Only(r) /\ Shaped(call'[r]) /\ call[r].stage = "contacts"
      /\ call'[r].stage \in {"post", "done"}
      /\ call'[r].rest = call[r].rest \/ call'[r].rest = {}
      /\ call'[r].chat = call[r].chat /\ call'[r].addr = call[r].addr /\ call'[r].to = call[r].to
  BY <1>1 DEF ReadContacts, At, Goto, Shaped, Functional, Only
<1>3. UNCHANGED <<addr, messages, stored, gone, repeated, disturbed>>
  BY DEF ReadContacts, rowVars, memberVars, messageVars, ghosts
<1>4. call[r].rest = {}
  BY <1>2, KnowsOwn DEF Merging
<1> QED
  BY <1>2, <1>3, <1>4 DEF Posts, Still, Merging, Posting, Merger

LEMMA ReaddressPosts ==
  ASSUME IInv, MergeInv, NEW r \in Request, Readdress(r)
  PROVE  Posts(r) /\ addr' = addr
<1>1. Shaped(call[r]) /\ Functional
  BY KnowsOwn
<1>2. /\ Only(r) /\ Shaped(call'[r]) /\ call[r].stage = "readdress"
      /\ call'[r].stage \in {"resave", "post", "done"}
      /\ call'[r].rest = call[r].rest \/ call'[r].rest = {}
      /\ call'[r].chat = call[r].chat /\ call'[r].addr = call[r].addr /\ call'[r].to = call[r].to
  BY <1>1 DEF Readdress, At, Goto, Shaped, Functional, Only, NextPost
<1>3. UNCHANGED <<addr, messages, stored, gone, repeated, disturbed>>
  BY DEF Readdress, rowVars, memberVars, messageVars, ghosts, NextPost
<1>4. call[r].rest = {}
  BY <1>2, KnowsOwn DEF Merging
<1> QED
  BY <1>2, <1>3, <1>4 DEF Posts, Still, Merging, Posting, Merger

LEMMA ReadFromPosts ==
  ASSUME IInv, MergeInv, NEW r \in Request, ReadFrom(r)
  PROVE  Posts(r) /\ addr' = addr
<1>1. Shaped(call[r]) /\ Functional
  BY KnowsOwn
<1>2. /\ Only(r) /\ Shaped(call'[r]) /\ call[r].stage = "from"
      /\ call'[r].stage \in {"from users", "post", "done"}
      /\ call'[r].rest = call[r].rest \/ call'[r].rest = {}
      /\ call'[r].chat = call[r].chat /\ call'[r].addr = call[r].addr /\ call'[r].to = call[r].to
  <2>1. CASE Goto(r, "from users")
    BY <1>1, <2>1 DEF ReadFrom, At, Goto, Shaped, Functional, Only
  <2>2. CASE NextPost(r)
    BY <1>1, <2>2 DEF ReadFrom, At, Goto, Shaped, Functional, Only, NextPost
  <2> QED
    BY <2>1, <2>2 DEF ReadFrom
<1>3. UNCHANGED <<addr, messages, stored, gone, repeated, disturbed>>
  BY DEF ReadFrom, rowVars, memberVars, messageVars, ghosts, NextPost
<1>4. call[r].rest = {}
  BY <1>2, KnowsOwn DEF Merging
<1> QED
  BY <1>2, <1>3, <1>4 DEF Posts, Still, Merging, Posting, Merger

LEMMA ReadFromUsersPosts ==
  ASSUME IInv, MergeInv, NEW r \in Request, ReadFromUsers(r)
  PROVE  Posts(r) /\ addr' = addr
<1>1. Shaped(call[r]) /\ Functional
  BY KnowsOwn
<1>2. /\ Only(r) /\ Shaped(call'[r]) /\ call[r].stage = "from users"
      /\ call'[r].stage \in {"to"}
      /\ call'[r].rest = call[r].rest \/ call'[r].rest = {}
      /\ call'[r].chat = call[r].chat /\ call'[r].addr = call[r].addr /\ call'[r].to = call[r].to
  BY <1>1 DEF ReadFromUsers, At, Goto, Shaped, Functional, Only
<1>3. UNCHANGED <<addr, messages, stored, gone, repeated, disturbed>>
  BY DEF ReadFromUsers, rowVars, memberVars, messageVars, ghosts
<1>4. call[r].rest = {}
  BY <1>2, KnowsOwn DEF Merging
<1> QED
  BY <1>2, <1>3, <1>4 DEF Posts, Still, Merging, Posting, Merger

LEMMA ReadToPosts ==
  ASSUME IInv, MergeInv, NEW r \in Request, ReadTo(r)
  PROVE  Posts(r) /\ addr' = addr
<1>1. Shaped(call[r]) /\ Functional
  BY KnowsOwn
<1>2. /\ Only(r) /\ Shaped(call'[r]) /\ call[r].stage = "to"
      /\ call'[r].stage \in {"to users", "post", "done"}
      /\ call'[r].rest = call[r].rest \/ call'[r].rest = {}
      /\ call'[r].chat = call[r].chat /\ call'[r].addr = call[r].addr /\ call'[r].to = call[r].to
  <2>1. CASE Goto(r, "to users")
    BY <1>1, <2>1 DEF ReadTo, At, Goto, Shaped, Functional, Only
  <2>2. CASE NextPost(r)
    BY <1>1, <2>2 DEF ReadTo, At, Goto, Shaped, Functional, Only, NextPost
  <2> QED
    BY <2>1, <2>2 DEF ReadTo
<1>3. UNCHANGED <<addr, messages, stored, gone, repeated, disturbed>>
  BY DEF ReadTo, rowVars, memberVars, messageVars, ghosts, NextPost
<1>4. call[r].rest = {}
  BY <1>2, KnowsOwn DEF Merging
<1> QED
  BY <1>2, <1>3, <1>4 DEF Posts, Still, Merging, Posting, Merger

LEMMA ReadToUsersPosts ==
  ASSUME IInv, MergeInv, NEW r \in Request, ReadToUsers(r)
  PROVE  Posts(r) /\ addr' = addr
<1>1. Shaped(call[r]) /\ Functional
  BY KnowsOwn
<1>2. /\ Only(r) /\ Shaped(call'[r]) /\ call[r].stage = "to users"
      /\ call'[r].stage \in {"messages", "adding"}
      /\ call'[r].rest = call[r].rest \/ call'[r].rest = {}
      /\ call'[r].chat = call[r].chat /\ call'[r].addr = call[r].addr /\ call'[r].to = call[r].to
  BY <1>1 DEF ReadToUsers, At, Goto, Shaped, Functional, Only
<1>3. UNCHANGED <<addr, messages, stored, gone, repeated, disturbed>>
  BY DEF ReadToUsers, rowVars, memberVars, messageVars, ghosts
<1>4. call[r].rest = {}
  BY <1>2, KnowsOwn DEF Merging
<1> QED
  BY <1>2, <1>3, <1>4 DEF Posts, Still, Merging, Posting, Merger

LEMMA ReadAgainPosts ==
  ASSUME IInv, MergeInv, NEW r \in Request, ReadAgain(r)
  PROVE  Posts(r) /\ addr' = addr
<1>1. Shaped(call[r]) /\ Functional
  BY KnowsOwn
<1>2. /\ Only(r) /\ Shaped(call'[r]) /\ call[r].stage = "adding"
      /\ call'[r].stage \in {"messages", "adds"}
      /\ call'[r].rest = call[r].rest \/ call'[r].rest = {}
      /\ call'[r].chat = call[r].chat /\ call'[r].addr = call[r].addr /\ call'[r].to = call[r].to
  BY <1>1 DEF ReadAgain, At, Goto, Shaped, Functional, Only
<1>3. UNCHANGED <<addr, messages, stored, gone, repeated, disturbed>>
  BY DEF ReadAgain, rowVars, memberVars, messageVars, ghosts
<1>4. call[r].rest = {}
  BY <1>2, KnowsOwn DEF Merging
<1> QED
  BY <1>2, <1>3, <1>4 DEF Posts, Still, Merging, Posting, Merger

LEMMA AddOnePosts ==
  ASSUME IInv, MergeInv, NEW r \in Request, NEW w, AddOne(r, w)
  PROVE  Posts(r) /\ addr' = addr
<1>1. Shaped(call[r]) /\ Functional
  BY KnowsOwn
<1>2. /\ Only(r) /\ Shaped(call'[r]) /\ call[r].stage = "adds"
      /\ call'[r].stage \in {"messages", "adds", "post", "done"}
      /\ call'[r].rest = call[r].rest \/ call'[r].rest = {}
      /\ call'[r].chat = call[r].chat /\ call'[r].addr = call[r].addr /\ call'[r].to = call[r].to
  BY <1>1 DEF AddOne, At, Goto, Shaped, Functional, Only, NextPost, AddMember
<1>3. UNCHANGED <<addr, messages, stored, gone, repeated, disturbed>>
  BY DEF AddOne, rowVars, memberVars, messageVars, ghosts, NextPost, AddMember
<1>4. call[r].rest = {}
  BY <1>2, KnowsOwn DEF Merging
<1> QED
  BY <1>2, <1>3, <1>4 DEF Posts, Still, Merging, Posting, Merger
LEMMA OpenPlain ==
  ASSUME IInv, MergeInv, NEW r \in Request, NEW kind \in {"create", "send", "update"}, NEW k,
         NEW a, NEW w, NEW l, Open(r, kind, k, a, w, l)
  PROVE  Plain(r) /\ addr' = addr
<1>1. Shaped(call[r]) /\ Functional
  BY KnowsOwn
<1>2. /\ Only(r) /\ Shaped(call'[r]) /\ call[r].stage = "new"
      /\ call'[r].stage = First[kind] /\ call'[r].rest = call[r].rest
  BY <1>1 DEF Open, At, Shaped, Functional, Only
<1>3. First[kind] \in {"again", "write", "load"}
  BY DEF First
<1>4. UNCHANGED <<addr, messages, stored, gone, repeated, disturbed>>
  BY DEF Open, rowVars, memberVars, messageVars, ghosts
<1>5. call[r].rest = {}
  BY <1>2, KnowsOwn DEF Merging
<1> QED
  BY <1>2, <1>3, <1>4, <1>5 DEF Plain, Still, Merging, Posting, Merger, Receiving

(* A message is on its way to the address its chat had.  *)
LEMMA NotifyMerge ==
  ASSUME IInv, MergeInv, NEW r \in Request, Notify(r)
  PROVE  MergeInv'
<1>1. Shaped(call[r]) /\ Functional /\ call[r].stage = "notify"
  BY KnowsOwn DEF Notify, At
<1>2. /\ Only(r) /\ Shaped(call'[r]) /\ call'[r].rest = call[r].rest
      /\ \/ call'[r].stage = "contacts" /\ addr[call'[r].chat] = call'[r].addr
         \/ call'[r].stage = "done"
  <2>1. CASE call' = [call EXCEPT ![r].stage = "contacts", ![r].addr = addr[call[r].chat]]
    BY <1>1, <2>1 DEF Shaped, Functional, Only
  <2>2. CASE Goto(r, "done")
    BY <1>1, <2>2 DEF Goto, Shaped, Functional, Only
  <2> QED
    BY <2>1, <2>2 DEF Notify
<1>3. UNCHANGED <<addr, messages, stored, gone, repeated, disturbed>>
  BY DEF Notify, rowVars, memberVars, messageVars, ghosts
<1>4. call[r].rest = {} /\ Knows(r)
  BY <1>1, KnowsOwn DEF Merging
<1>5. Still(r)
  BY <1>1, <1>2, <1>3, <1>4 DEF Still, Merging
<1>6. Knows(r)'
  BY <1>2, <1>3, <1>4 DEF Knows, Receiving, Merger, Posting
<1> QED
  BY <1>3, <1>5, <1>6, StillStep

LEMMA PostMerge ==
  ASSUME IInv, MergeInv, NEW r \in Request, Post(r)
  PROVE  MergeInv'
<1>1. Shaped(call[r]) /\ Functional /\ Knows(r) /\ call[r].stage = "post"
  BY KnowsOwn DEF Post, At
<1>2. call[r].rest = {}
  BY <1>1 DEF Knows
<1>3. UNCHANGED <<addr, messages, stored, gone, repeated, disturbed>>
  BY DEF Post, rowVars, memberVars, messageVars, ghosts
<1>4. CASE NextPost(r)
  <2>1. /\ Only(r) /\ Shaped(call'[r]) /\ call'[r].stage \in {"post", "done"}
        /\ call'[r].chat = call[r].chat /\ call'[r].addr = call[r].addr /\ call'[r].rest = {}
    BY <1>1, <1>4 DEF NextPost, Shaped, Functional, Only
  <2> QED
    BY <1>1, <1>3, <2>1, PostsStep DEF Posts, Still, Posting, Merger, Merging
<1>5. CASE Resolved[call[r].addr] # call[r].addr /\ Goto(r, "exists")
  <2>1. /\ Only(r) /\ Shaped(call'[r]) /\ call'[r].stage = "exists"
        /\ call'[r].chat = call[r].chat /\ call'[r].addr = call[r].addr /\ call'[r].rest = {}
    BY <1>1, <1>2, <1>5 DEF Goto, Shaped, Functional, Only
  <2>2. Still(r)
    BY <1>1, <1>3, <2>1 DEF Still, Merging
  <2>3. Knows(r)'
    BY <1>1, <1>3, <1>5, <2>1 DEF Knows, Posting, Merger, Receiving
  <2> QED
    BY <1>3, <2>2, <2>3, StillStep
<1> QED
  BY <1>4, <1>5 DEF Post

(* The chat found at the resolved address is another one. *)
LEMMA ExistsMerge ==
  ASSUME IInv, MergeInv, NEW r \in Request, Exists(r)
  PROVE  MergeInv'
<1>1. Shaped(call[r]) /\ Functional /\ Knows(r) /\ call[r].stage = "exists"
  BY KnowsOwn DEF Exists, At
<1>2. call[r].rest = {}
  BY <1>1 DEF Knows
<1>3. UNCHANGED <<addr, messages, stored, gone, repeated, disturbed>>
  BY DEF Exists, rowVars, memberVars, messageVars, ghosts
<1>4. ASSUME NEW k \in Found(Resolved[call[r].addr]),
             call' = [call EXCEPT ![r].stage = "from", ![r].to = k]
      PROVE  MergeInv'
  <2>1. /\ Only(r) /\ Shaped(call'[r]) /\ call'[r].stage = "from" /\ call'[r].to = k
        /\ call'[r].chat = call[r].chat /\ call'[r].addr = call[r].addr /\ call'[r].rest = {}
    BY <1>1, <1>2, <1>4 DEF Shaped, Functional, Only
  <2>2. Still(r)
    BY <1>1, <1>3, <2>1 DEF Still, Merging
  <2>3. r \notin disturbed => k # call[r].chat
    BY <1>1, <1>4 DEF Knows, Found, Posting
  <2>4. Knows(r)'
    BY <1>1, <1>3, <2>1, <2>3 DEF Knows, Posting, Receiving
  <2> QED
    BY <1>3, <2>2, <2>4, StillStep
<1>5. CASE Goto(r, "readdress")
  <2>1. /\ Only(r) /\ Shaped(call'[r]) /\ call'[r].stage = "readdress"
        /\ call'[r].chat = call[r].chat /\ call'[r].addr = call[r].addr /\ call'[r].rest = {}
    BY <1>1, <1>2, <1>5 DEF Goto, Shaped, Functional, Only
  <2> QED
    BY <1>1, <1>3, <2>1, PostsStep DEF Posts, Still, Posting, Merger, Merging
<1> QED
  BY <1>4, <1>5 DEF Exists
(* Who posts to a chat that gets another address is disturbed. *)
LEMMA PutApart ==
  ASSUME IInv, NEW r \in Request, NEW k, NEW a, Puts(r, k, a),
         NEW q \in Request, q # r, call[q].stage \in Posting, q \notin disturbed'
  PROVE  addr'[call[q].chat] = addr[call[q].chat]
<1>1. CASE addr' = addr
  BY <1>1
<1>2. CASE ~ WorksOn(q, k)
  <2>1. call[q].chat # k
    BY <1>2 DEF WorksOn, Running, Ended, Posting, Merger
  <2>2. call[q].chat \in Chat
    <3>1. call[q].chat \in 1..lastChat
      BY DEF IInv, Good, Before, Posting, Merger
    <3> QED
      BY <3>1, ChatsAssumption DEF IInv, Rows, Chat
  <2> QED
    BY <2>1, <2>2 DEF Puts, IInv, Rows
<1> QED
  BY <1>1, <1>2 DEF Puts, Others

LEMMA InsertChatMerge ==
  ASSUME IInv, MergeInv, NEW r \in Request, InsertChat(r)
  PROVE  MergeInv'
<1>1. Shaped(call[r]) /\ Functional /\ Knows(r) /\ call[r].stage = "insert"
  BY KnowsOwn DEF InsertChat, At
<1>2. Puts(r, lastChat', call[r].addr)
  <2>1. lastChat + 1 \notin chats /\ Rows
    BY DEF IInv, Rows
  <2> QED
    BY <2>1, ChatsAssumption
    DEF InsertChat, PutChat, Puts, Rows, Chat, memberVars, messageVars
<1>3. /\ Only(r) /\ Shaped(call'[r]) /\ call'[r].stage \in {"last", "fill"}
      /\ call'[r].rest = call[r].rest
  BY <1>1 DEF InsertChat, Only, Functional, Shaped
<1>4. UNCHANGED <<messages, stored, gone, repeated>> /\ disturbed \subseteq disturbed'
  BY <1>2 DEF InsertChat, messageVars, Puts
<1>5. Plain(r)
  BY <1>1, <1>3, <1>4 DEF Plain, Still, Knows, Merging, Posting, Merger, Receiving
<1> QED
  BY <1>2, <1>5, PutApart, PlainKnows, StillStep DEF Plain

LEMMA SaveChatMerge ==
  ASSUME IInv, MergeInv, NEW r \in Request, SaveChat(r)
  PROVE  MergeInv'
<1> DEFINE k == call[r].chat
           a == call[r].addr
<1>1. Shaped(call[r]) /\ Functional /\ Knows(r) /\ call[r].stage = "save"
  BY KnowsOwn DEF SaveChat, At
<1>2. k \in Chat /\ Rows
  BY <1>1, ChatsAssumption DEF IInv, Good, Rows, Chat, Before
<1>3. /\ Only(r) /\ Shaped(call'[r]) /\ call'[r].stage = "done"
      /\ call'[r].rest = call[r].rest
  BY <1>1 DEF SaveChat, Goto, Only, Functional, Shaped
<1>4. UNCHANGED <<messages, stored, gone, repeated>> /\ disturbed \subseteq disturbed'
  BY DEF SaveChat, PutChat, messageVars
<1>5. Plain(r)
  BY <1>1, <1>3, <1>4 DEF Plain, Still, Knows, Merging, Posting, Merger, Receiving
<1>6. CASE addr[k] = a
  <2>1. addr' = addr
    BY <1>2, <1>6 DEF SaveChat, PutChat, Rows
  <2> QED
    BY <1>5, <2>1, PlainStep
<1>7. CASE addr[k] # a
  <2>1. Puts(r, k, a)
    <3>1. k <= lastChat /\ lastChat' = lastChat /\ lastChat \in Nat /\ lastChat <= MaxChat
      BY <1>1, <1>2, ChatsAssumption DEF IInv, Good, Rows, Before, Chat, SaveChat
    <3> QED
      BY <1>2, <1>7, <3>1 DEF SaveChat, PutChat, Puts, memberVars, messageVars
  <2> QED
    BY <1>5, <2>1, PutApart, PlainKnows, StillStep DEF Plain
<1> QED
  BY <1>6, <1>7

LEMMA ResaveMerge ==
  ASSUME IInv, MergeInv, NEW r \in Request, Resave(r)
  PROVE  MergeInv'
<1> DEFINE k == call[r].chat
           a == Resolved[call[r].addr]
<1>1. Shaped(call[r]) /\ Functional /\ Knows(r) /\ call[r].stage = "resave"
  BY KnowsOwn DEF Resave, At
<1>2. Puts(r, k, a)
  <2>1. /\ k \in Chat /\ lastChat' = lastChat /\ k <= lastChat
        /\ lastChat \in Nat /\ lastChat <= MaxChat
    <3>1. k \in 1..lastChat /\ lastChat' = lastChat
      BY <1>1 DEF IInv, Good, Before, Resave
    <3> QED
      BY <3>1, ChatsAssumption DEF IInv, Rows, Chat
  <2>2. \A q \in Others(r) : Seeks(q, a) \/ WorksOn(q, k) => q \in disturbed'
    BY DEF Resave
  <2> QED
    BY <2>1, <2>2 DEF Resave, Puts, memberVars, messageVars
<1>3. /\ Only(r) /\ Shaped(call'[r]) /\ call'[r].stage \in {"post", "done"}
      /\ call'[r].rest = {}
  BY <1>1 DEF Resave, NextPost, Only, Functional, Shaped
<1>4. UNCHANGED <<messages, stored, gone, repeated>> /\ disturbed \subseteq disturbed'
  BY DEF Resave, messageVars
<1>5. Still(r)
  BY <1>1, <1>3, <1>4 DEF Still, Merging
<1>6. r \in disturbed'
  BY DEF Resave
<1>7. Knows(r)'
  BY <1>3, <1>6 DEF Knows, Receiving
<1> QED
  BY <1>2, <1>5, <1>7, PutApart, StillStep

(* What is left of a broken merge is repeated. *)
LEMMA AbortMerge ==
  ASSUME IInv, MergeInv, NEW r \in Request, Abort(r)
  PROVE  MergeInv'
<1>1. Functional
  BY KnowsOwn
<1>2. Only(r) /\ call'[r].stage = "failed" /\ call'[r].rest = {}
  BY <1>1 DEF Abort, Only, Functional, NoCall
<1>3. /\ UNCHANGED <<addr, messages, stored, gone>> /\ disturbed' = disturbed \cup {r}
      /\ repeated \subseteq repeated'
      /\ call[r].stage \in Merging =>
           Origins({x \in messages : x.chat = call[r].chat}) \subseteq repeated'
  BY DEF Abort, rowVars, memberVars, messageVars
<1>4. Apart(r) /\ Shrink(r)
  BY <1>2, <1>3 DEF Apart, Shrink, Merging, Origins
<1>5. Knows(r)'
  BY <1>2, <1>3 DEF Knows, Receiving
<1> QED
  BY <1>4, <1>5, ShrinkStep

------------------------------------------------------------------------------
(* Messages that are deleted *)

LEMMA ExpelMerge ==
  ASSUME IInv, MergeInv, NEW r \in Request, Expel(r)
  PROVE  MergeInv'
<1>1. Shaped(call[r]) /\ Functional /\ Knows(r) /\ call[r].stage = "expel"
  BY KnowsOwn DEF Expel, At
<1>2. Only(r) /\ call'[r].stage = "save" /\ call'[r].rest = call[r].rest
  BY <1>1 DEF Expel, Goto, Only, Functional, Shaped
<1>3. UNCHANGED <<addr, stored, disturbed, repeated>>
  BY DEF Expel, rowVars
<1>4. /\ messages' \subseteq messages /\ gone \subseteq gone'
      /\ \A m \in messages : m \notin messages' => m.origin \in gone'
  BY DEF Expel, Origins
<1>5. Apart(r) /\ Shrink(r)
  BY <1>1, <1>2, <1>3, <1>4 DEF Apart, Shrink, Merging, Knows
<1>6. Knows(r)'
  BY <1>1, <1>2, <1>3 DEF Knows, Receiving, Posting, Merger
<1> QED
  BY <1>5, <1>6, ShrinkStep

LEMMA DeleteChatMerge ==
  ASSUME IInv, MergeInv, NEW r \in Request, NEW k, DeleteChat(r, k)
  PROVE  MergeInv'
<1>1. Shaped(call[r]) /\ Functional /\ Knows(r) /\ call[r].stage = "new"
  BY KnowsOwn DEF DeleteChat, At
<1>2. Only(r) /\ call'[r].stage = "done" /\ call'[r].rest = call[r].rest
  BY <1>1 DEF DeleteChat, Only, Functional, Shaped
<1>3. UNCHANGED <<addr, stored, repeated>> /\ disturbed \subseteq disturbed'
  BY DEF DeleteChat, RemoveChat
<1>4. /\ messages' \subseteq messages /\ gone \subseteq gone'
      /\ \A m \in messages : m \notin messages' => m.origin \in gone'
  BY DEF DeleteChat, RemoveChat, Origins
<1>5. Apart(r) /\ Shrink(r)
  BY <1>1, <1>2, <1>3, <1>4 DEF Apart, Shrink, Merging, Knows
<1>6. Knows(r)'
  BY <1>1, <1>2, <1>3 DEF Knows, Receiving, Posting, Merger
<1> QED
  BY <1>5, <1>6, ShrinkStep

(* A merge drops its chat when it has copied what it has read: what it drops  *)
(* undisturbed is passed.                                                     *)
LEMMA DropMerge ==
  ASSUME IInv, MergeInv, NEW r \in Request, Drop(r)
  PROVE  MergeInv'
<1>1. Shaped(call[r]) /\ Functional /\ Knows(r) /\ call[r].stage = "drop"
  BY KnowsOwn DEF Drop, At
<1>2. /\ Only(r) /\ Shaped(call'[r]) /\ call'[r].stage \in {"post", "done"}
      /\ call'[r].chat = call[r].chat /\ call'[r].addr = call[r].addr /\ call'[r].rest = {}
  BY <1>1 DEF Drop, NextPost, Only, Functional, Shaped
<1>3. /\ UNCHANGED <<addr, stored, repeated>> /\ disturbed \subseteq disturbed'
      /\ messages' = {m \in messages : m.chat # call[r].chat} /\ gone \subseteq gone'
  BY DEF Drop, RemoveChat
<1>4. \A m \in messages : m \notin messages' => m.origin \in gone' \/ Passed(m)
  <2>1. CASE r \in disturbed
    BY <1>3, <2>1 DEF Drop, Origins
  <2>2. CASE r \notin disturbed
    BY <1>1, <1>3, <2>2 DEF Passed, Merging, Knows, Origins
  <2> QED
    BY <2>1, <2>2
<1>5. Apart(r) /\ Shrink(r)
  BY <1>2, <1>3, <1>4 DEF Apart, Shrink, Merging
<1>6. Knows(r)'
  BY <1>1, <1>2, <1>3 DEF Knows, Receiving, Posting, Merger
<1> QED
  BY <1>5, <1>6, ShrinkStep
------------------------------------------------------------------------------
(* Messages that are stored, listed and copied *)

(* The message of a call is stored once: no other has its origin. *)
LEMMA WriteMerge ==
  ASSUME IInv, MergeInv, NEW r \in Request, Write(r)
  PROVE  MergeInv'
<1>1. Shaped(call[r]) /\ Functional /\ Knows(r) /\ call[r].stage = "write" /\ r \notin stored
  BY KnowsOwn DEF Write, At, Knows, Receiving
<1>2. UNCHANGED <<addr, disturbed, repeated>>
  BY DEF Write, rowVars
<1>3. CASE Fail(r) /\ UNCHANGED <<messageVars, gone>>
  <2>1. Only(r) /\ Shaped(call'[r]) /\ call'[r].stage = "failed" /\ call'[r].rest = call[r].rest
    BY <1>1, <1>3 DEF Fail, Goto, Only, Functional, Shaped
  <2>2. Plain(r)
    BY <1>1, <1>2, <1>3, <2>1
    DEF Plain, Still, Knows, Merging, Posting, Merger, Receiving, messageVars
  <2> QED
    BY <1>2, <2>2, PlainStep
<1>4. ASSUME NEW b, AddMessage(call[r].chat, b, r), stored' = stored \cup {r},
             gone \subseteq gone', 
             (\E q \in Others(r) : call[q].stage \in Merging /\ call[q].chat = call[r].chat)
               => r \in gone',
             call' = [call EXCEPT ![r].stage = "notify", ![r].by = b]
      PROVE  MergeInv'
  <2>1. PICK n : n.origin = r /\ n.chat = call[r].chat /\ messages' = messages \cup {n}
    BY <1>4 DEF AddMessage
  <2>2. Only(r) /\ call'[r].stage = "notify" /\ call'[r].rest = {}
    BY <1>1, <1>4 DEF Only, Functional, Shaped, Knows
  <2>3. \A q \in Request : q # r => call'[q] = call[q]
    BY <2>2 DEF Only
  <2>4. \A q \in Request : Knows(q)'
    <3>1. Knows(r)'
      BY <2>2 DEF Knows, Receiving, Posting, Merger
    <3>2. Apart(r)
      BY <1>2, <2>2 DEF Apart
    <3> QED
      BY <1>4, <3>1, <3>2, KnowsOthers
  <2>5. \A m \in messages' : m.origin \in stored'
    BY <1>4, <2>1 DEF MergeInv
  <2>6. Whole'
    <3> SUFFICES ASSUME NEW o \in stored' \ gone'
                 PROVE  \E m \in messages' : m.origin = o /\ ~Passed(m)'
      BY DEF Whole
    <3>1. \A m : Passed(m)' => Passed(m)
      BY <1>2, <2>2, <2>3 DEF Passed, Merging
    <3>2. CASE o = r
      <4>1. ~Passed(n)'
        BY <1>4, <2>1, <2>2, <2>3, <3>2 DEF Passed, Merging, Others
      <4> QED
        BY <2>1, <3>2, <4>1
    <3>3. CASE o # r
      <4>1. PICK m \in messages : m.origin = o /\ ~Passed(m)
        BY <1>4, <3>3 DEF MergeInv, Whole
      <4> QED
        BY <2>1, <3>1, <4>1
    <3> QED
      BY <3>2, <3>3
  <2>7. Undoubled'
    <3>1. \A m : Doomed(m) => Doomed(m)'
      BY <1>1, <2>3 DEF Doomed, Merging
    <3>2. \A m \in messages : m.origin # r
      BY <1>1 DEF MergeInv
    <3>3. \A q \in Request : \A x \in call[q].rest : x.origin # r
      BY <1>1 DEF MergeInv, Knows
    <3>4. \A q \in Request : call'[q].rest \subseteq call[q].rest
      BY <2>2, <2>3
    <3>5. \A m, k \in messages' :
            m # k /\ m.origin = k.origin /\ m.origin \notin repeated => Doomed(m)' \/ Doomed(k)'
      BY <2>1, <3>1, <3>2 DEF MergeInv, Undoubled
    <3>6. ASSUME NEW q \in Request, NEW x \in call'[q].rest, x.origin \notin repeated
          PROVE  /\ \A m \in messages' : m.origin = x.origin => Doomed(m)'
                 /\ \A p \in Request : \A y \in call'[p].rest :
                      y.origin = x.origin => p = q /\ y = x
      <4>1. x \in call[q].rest
        BY <3>4, <3>6
      <4>2. \A m \in messages' : m.origin = x.origin => Doomed(m)'
        BY <2>1, <3>1, <3>3, <3>6, <4>1 DEF MergeInv, Undoubled
      <4> QED
        BY <3>4, <3>6, <4>1, <4>2 DEF MergeInv, Undoubled
    <3> QED
      BY <1>2, <3>5, <3>6 DEF Undoubled
  <2> QED
    BY <2>4, <2>5, <2>6, <2>7 DEF MergeInv
<1> QED
  <2>1. CASE \E m : /\ AddMessage(call[r].chat, m.id, r) /\ stored' = stored \cup {r}
                    /\ gone' = IF \E q \in Others(r) :
                                    call[q].stage \in Merging /\ call[q].chat = call[r].chat
                                 THEN gone \cup {r} ELSE gone
                    /\ call' = [call EXCEPT ![r].stage = "notify", ![r].by = m.id]
    <3>1. PICK m : /\ AddMessage(call[r].chat, m.id, r) /\ stored' = stored \cup {r}
                   /\ gone' = IF \E q \in Others(r) :
                                   call[q].stage \in Merging /\ call[q].chat = call[r].chat
                                THEN gone \cup {r} ELSE gone
                   /\ call' = [call EXCEPT ![r].stage = "notify", ![r].by = m.id]
      BY <2>1
    <3>2. /\ gone \subseteq gone'
          /\ (\E q \in Others(r) : call[q].stage \in Merging /\ call[q].chat = call[r].chat)
               => r \in gone'
      BY <3>1
    <3> QED
      BY <1>4, <3>1, <3>2
  <2> QED
    BY <1>3, <2>1 DEF Write

(* If no other merge works on the chat, each message listed is the only copy *)
(* that nothing else dooms.                                                  *)
LEMMA ReadMessagesMerge ==
  ASSUME IInv, MergeInv, NEW r \in Request, ReadMessages(r)
  PROVE  MergeInv'
<1> DEFINE k == call[r].chat
           L == Listed(k)
<1>0. L = {m \in messages : m.chat = k}
  BY DEF Listed
<1>1. Shaped(call[r]) /\ Functional /\ Knows(r) /\ call[r].stage = "messages"
  BY KnowsOwn DEF ReadMessages, At
<1>2. /\ UNCHANGED <<addr, messages, stored, disturbed, gone>>
      /\ repeated \subseteq repeated'
      /\ (\E q \in Others(r) : call[q].stage \in Merging /\ call[q].chat = k)
           => Origins(L) \subseteq repeated'
  BY DEF ReadMessages, rowVars, messageVars
<1>3. /\ Only(r) /\ call'[r].stage = (IF L = {} THEN "drop" ELSE "authors") /\ call'[r].rest = L
      /\ call'[r].chat = k /\ call'[r].addr = call[r].addr /\ call'[r].to = call[r].to
  BY <1>1 DEF ReadMessages, Only, Functional, Shaped
<1>4. \A q \in Request : q # r => call'[q] = call[q]
  BY <1>3 DEF Only
<1>5. call'[r].stage \in Merging /\ (call'[r].stage # "authors" => L = {})
  BY <1>3 DEF Merging
<1>6. \A q \in Request : Knows(q)'
  <2>1. \A x \in L : x.origin \in stored
    BY <1>0 DEF MergeInv
  <2>2. Knows(r)'
    BY <1>1, <1>2, <1>3, <1>5, <2>1 DEF Knows, Receiving, Posting, Merger, Merging
  <2>3. Apart(r)
    BY <1>2, <1>3 DEF Apart
  <2> QED
    BY <1>2, <2>2, <2>3, KnowsOthers
<1>7. Whole'
  <2>1. \A m \in messages : Passed(m)' => Passed(m)
    BY <1>0, <1>2, <1>3, <1>4 DEF Passed, Origins
  <2> QED
    BY <1>2, <2>1 DEF MergeInv, Whole
<1>8. \A m : Doomed(m) => Doomed(m)'
  BY <1>1, <1>4 DEF Doomed, Merging
<1>9. ASSUME NEW x \in L, x.origin \notin repeated'
      PROVE  ~ \E m \in messages : m.chat = k /\ Doomed(m)
  <2>1. x.origin \in Origins(L)
    BY DEF Origins
  <2> QED
    BY <1>1, <1>2, <1>9, <2>1 DEF Doomed, Others, Merging
<1>10. ASSUME NEW x \in L, x.origin \notin repeated', NEW q \in Request, NEW y \in call[q].rest
       PROVE  y.origin # x.origin
  <2>1. PICK m \in messages : m.chat = k /\ x.origin = m.origin
    BY <1>0
  <2>2. y.origin = x.origin => Doomed(m)
    BY <1>2, <1>10, <2>1 DEF MergeInv, Undoubled
  <2> QED
    BY <1>9, <1>10, <2>1, <2>2
<1>11. ASSUME NEW x \in L, x.origin \notin repeated'
       PROVE  /\ \A m \in messages : m.origin = x.origin => Doomed(m)'
              /\ \A y \in L : y.origin = x.origin => y = x
  <2>1. PICK m \in messages : m.chat = k /\ x = m
    BY <1>0
  <2>2. ~Doomed(m) /\ m.origin \notin repeated
    BY <1>2, <1>9, <1>11, <2>1
  <2>3. \A n \in messages : n.origin = x.origin /\ n # m => Doomed(n)
    BY <2>1, <2>2 DEF MergeInv, Undoubled
  <2>4. Doomed(m)'
    BY <1>3, <1>5, <2>1 DEF Doomed
  <2>5. \A n \in messages : n.origin = x.origin => Doomed(n)'
    BY <1>8, <2>3, <2>4
  <2>6. ASSUME NEW y \in L, y.origin = x.origin PROVE y = x
    <3>1. y \in messages /\ y.chat = k
      BY <1>0
    <3> QED
      BY <1>9, <1>11, <2>3, <2>1, <2>6, <3>1
  <2> QED
    BY <2>5, <2>6
<1>12. Undoubled'
  <2>1. \A m, n \in messages' :
          m # n /\ m.origin = n.origin /\ m.origin \notin repeated' => Doomed(m)' \/ Doomed(n)'
    BY <1>2, <1>8 DEF MergeInv, Undoubled
  <2>2. ASSUME NEW q \in Request, NEW x \in call'[q].rest, x.origin \notin repeated'
        PROVE  /\ \A m \in messages' : m.origin = x.origin => Doomed(m)'
               /\ \A p \in Request : \A y \in call'[p].rest :
                    y.origin = x.origin => p = q /\ y = x
    <3>1. CASE q = r
      BY <1>2, <1>3, <1>4, <1>10, <1>11, <2>2, <3>1
    <3>2. CASE q # r
      <4>1. x \in call[q].rest /\ x.origin \notin repeated
        BY <1>2, <1>4, <2>2, <3>2
      <4>2. \A m \in messages : m.origin = x.origin => Doomed(m)'
        BY <1>8, <4>1 DEF MergeInv, Undoubled
      <4>3. \A y \in L : y.origin # x.origin
        BY <1>10, <2>2, <4>1
      <4>4. \A p \in Request : \A y \in call[p].rest : y.origin = x.origin => p = q /\ y = x
        BY <4>1 DEF MergeInv, Undoubled
      <4> QED
        BY <1>2, <1>3, <1>4, <4>2, <4>3, <4>4
    <3> QED
      BY <3>1, <3>2
  <2> QED
    BY <2>1, <2>2 DEF Undoubled
<1> QED
  BY <1>2, <1>6, <1>7, <1>12 DEF MergeInv

(* Which authors are read makes no difference to what is copied.             *)
LEMMA ReadAuthorMerge ==
  ASSUME IInv, MergeInv, NEW r \in Request, ReadAuthor(r)
  PROVE  MergeInv'
<1>1. Shaped(call[r]) /\ Functional /\ Knows(r) /\ call[r].stage = "authors"
  BY KnowsOwn DEF ReadAuthor, At
<1>2. UNCHANGED <<addr, messages, stored, gone, repeated, disturbed>>
  BY DEF ReadAuthor, rowVars, messageVars, ghosts
<1>3. PICK m \in call[r].rest :
        call' = [call EXCEPT
          ![r].want = @ \ {m.id},
          ![r].authors = @ \cup {[id |-> m.id, who |-> x.who] : x \in {y \in members : y.id = m.by}},
          ![r].stage = IF call[r].want = {m.id} THEN "copy" ELSE "authors"]
  BY DEF ReadAuthor
<1>4. /\ Only(r) /\ call'[r].stage \in {"authors", "copy"} /\ call'[r].rest = call[r].rest
      /\ call'[r].chat = call[r].chat /\ call'[r].addr = call[r].addr
      /\ call'[r].to = call[r].to
  BY <1>1, <1>3 DEF Only, Functional, Shaped
<1>5. \A q \in Request : /\ call'[q].rest = call[q].rest /\ call'[q].chat = call[q].chat
                         /\ call'[q].stage \in Merging <=> call[q].stage \in Merging
  BY <1>1, <1>4 DEF Only, Merging
<1>6. \A q \in Request : Knows(q)'
  <2>1. Knows(r)'
    BY <1>1, <1>2, <1>4 DEF Knows, Receiving, Posting, Merger
  <2>2. Apart(r)
    BY <1>2, <1>4 DEF Apart
  <2> QED
    BY <1>2, <2>1, <2>2, KnowsOthers
<1>7. \A n : (Doomed(n)' <=> Doomed(n)) /\ (Passed(n)' <=> Passed(n))
  BY <1>2, <1>5 DEF Doomed, Passed
<1>8. Whole'
  BY <1>2, <1>7 DEF MergeInv, Whole
<1>9. Undoubled'
  BY <1>2, <1>5, <1>7 DEF MergeInv, Undoubled
<1> QED
  BY <1>2, <1>6, <1>8, <1>9 DEF MergeInv

(* A copy is made while every other one is doomed, in a chat that no other   *)
(* merge has listed.                                                         *)
LEMMA CopyOneMerge ==
  ASSUME IInv, MergeInv, NEW r \in Request, CopyOne(r)
  PROVE  MergeInv'
<1>1. Shaped(call[r]) /\ Functional /\ Knows(r) /\ call[r].stage = "copy"
  BY KnowsOwn DEF CopyOne, At
<1>2. UNCHANGED <<addr, stored, disturbed>>
  BY DEF CopyOne, rowVars
<1>3. CASE /\ NextPost(r)
           /\ repeated' = repeated \cup Origins({x \in messages : x.chat = call[r].chat})
           /\ UNCHANGED <<messages, lastMessage, gone>>
  <2>1. /\ Only(r) /\ Shaped(call'[r]) /\ call'[r].stage \in {"post", "done"}
        /\ call'[r].chat = call[r].chat /\ call'[r].addr = call[r].addr /\ call'[r].rest = {}
    BY <1>1, <1>3 DEF NextPost, Only, Functional, Shaped
  <2>2. Apart(r) /\ Shrink(r)
    BY <1>2, <1>3, <2>1 DEF Apart, Shrink, Merging, Origins
  <2>3. Knows(r)'
    BY <1>1, <1>2, <2>1 DEF Knows, Receiving, Posting, Merger
  <2> QED
    BY <2>2, <2>3, ShrinkStep
<1>4. ASSUME NEW m \in call[r].rest, NEW b, AddMessage(call[r].to, b, m.origin),
             gone \subseteq gone',
             (\E q \in Others(r) : call[q].stage \in Merging /\ call[q].chat = call[r].to)
               => m.origin \in gone',
             call' = [call EXCEPT ![r].rest = @ \ {m},
                                  ![r].stage = IF call[r].rest = {m} THEN "drop" ELSE "copy"],
             repeated' = repeated
      PROVE  MergeInv'
  <2>1. PICK n : n.origin = m.origin /\ n.chat = call[r].to /\ messages' = messages \cup {n}
    BY <1>4 DEF AddMessage
  <2>2. /\ Only(r) /\ call'[r].rest = call[r].rest \ {m}
        /\ call'[r].stage = (IF call[r].rest = {m} THEN "drop" ELSE "copy")
        /\ call'[r].chat = call[r].chat /\ call'[r].addr = call[r].addr
        /\ call'[r].to = call[r].to
    BY <1>1, <1>4 DEF Only, Functional, Shaped
  <2>3. \A q \in Request : q # r => call'[q] = call[q]
    BY <2>2 DEF Only
  <2>4. call[r].stage \in Merging /\ call'[r].stage \in Merging
    BY <1>1, <2>2 DEF Merging
  <2>5. \A q \in Request : Knows(q)'
    <3>1. Knows(r)'
      BY <1>1, <1>2, <2>2, <2>4 DEF Knows, Receiving, Posting, Merger, Merging
    <3>2. Apart(r)
      BY <1>2, <2>2 DEF Apart
    <3> QED
      BY <1>2, <3>1, <3>2, KnowsOthers
  <2>6. \A x \in messages' : x.origin \in stored'
    BY <1>1, <1>2, <1>4, <2>1 DEF MergeInv, Knows
  <2>7. Whole'
    <3> SUFFICES ASSUME NEW o \in stored' \ gone'
                 PROVE  \E x \in messages' : x.origin = o /\ ~Passed(x)'
      BY DEF Whole
    <3>1. PICK w \in messages : w.origin = o /\ ~Passed(w)
      BY <1>2, <1>4 DEF MergeInv, Whole
    <3>2. CASE ~Passed(w)'
      BY <2>1, <3>1, <3>2
    <3>3. CASE Passed(w)'
      <4>1. r \notin disturbed /\ o \notin Origins(call'[r].rest) /\ o \in Origins(call[r].rest)
        BY <1>2, <2>2, <2>3, <2>4, <3>1, <3>3 DEF Passed
      <4>2. o = m.origin
        BY <2>2, <4>1 DEF Origins
      <4>3. call[r].to # call[r].chat
        BY <1>1, <4>1 DEF Knows, Merger
      <4>4. ~Passed(n)'
        BY <1>4, <2>1, <2>2, <2>3, <4>2, <4>3 DEF Passed, Others
      <4> QED
        BY <2>1, <4>2, <4>4
    <3> QED
      BY <3>2, <3>3
  <2>8. Undoubled'
    <3>1. \A x : Doomed(x) => Doomed(x)'
      BY <2>2, <2>3, <2>4 DEF Doomed
    <3>2. m.origin \notin repeated =>
            /\ \A x \in messages : x.origin = m.origin => Doomed(x)'
            /\ \A q \in Request : \A y \in call[q].rest : y.origin = m.origin => q = r /\ y = m
      BY <1>4, <3>1 DEF MergeInv, Undoubled
    <3>3. \A q \in Request : call'[q].rest \subseteq call[q].rest
      BY <2>2, <2>3
    <3>4. \A x, y \in messages' :
            x # y /\ x.origin = y.origin /\ x.origin \notin repeated => Doomed(x)' \/ Doomed(y)'
      BY <2>1, <3>1, <3>2 DEF MergeInv, Undoubled
    <3>5. ASSUME NEW q \in Request, NEW x \in call'[q].rest, x.origin \notin repeated
          PROVE  /\ \A y \in messages' : y.origin = x.origin => Doomed(y)'
                 /\ \A p \in Request : \A y \in call'[p].rest :
                      y.origin = x.origin => p = q /\ y = x
      <4>1. x \in call[q].rest
        BY <3>3, <3>5
      <4>2. x.origin # m.origin
        BY <2>2, <3>2, <3>5, <4>1
      <4>3. \A y \in messages' : y.origin = x.origin => Doomed(y)'
        BY <2>1, <3>1, <3>5, <4>1, <4>2 DEF MergeInv, Undoubled
      <4> QED
        BY <3>3, <3>5, <4>1, <4>3 DEF MergeInv, Undoubled
    <3> QED
      BY <1>4, <3>4, <3>5 DEF Undoubled
  <2> QED
    BY <2>5, <2>6, <2>7, <2>8 DEF MergeInv
<1>5. PICK m \in call[r].rest :
        \/ \E x : /\ AddMessage(call[r].to, x.id, m.origin)
                  /\ gone' = IF \E q \in Others(r) :
                                  call[q].stage \in Merging /\ call[q].chat = call[r].to
                               THEN gone \cup {m.origin} ELSE gone
                  /\ call' = [call EXCEPT ![r].rest = @ \ {m},
                                ![r].stage = IF call[r].rest = {m} THEN "drop" ELSE "copy"]
                  /\ repeated' = repeated
        \/ /\ NextPost(r)
           /\ repeated' = repeated \cup Origins({x \in messages : x.chat = call[r].chat})
           /\ UNCHANGED <<messages, lastMessage, gone>>
  BY DEF CopyOne
<1>6. CASE \E x : /\ AddMessage(call[r].to, x.id, m.origin)
                  /\ gone' = IF \E q \in Others(r) :
                                  call[q].stage \in Merging /\ call[q].chat = call[r].to
                               THEN gone \cup {m.origin} ELSE gone
                  /\ call' = [call EXCEPT ![r].rest = @ \ {m},
                                ![r].stage = IF call[r].rest = {m} THEN "drop" ELSE "copy"]
                  /\ repeated' = repeated
  <2>1. PICK b : AddMessage(call[r].to, b, m.origin)
    BY <1>6
  <2>2. /\ gone \subseteq gone'
        /\ (\E q \in Others(r) : call[q].stage \in Merging /\ call[q].chat = call[r].to)
             => m.origin \in gone'
    BY <1>6
  <2> QED
    BY <1>4, <1>6, <2>1, <2>2
<1> QED
  BY <1>3, <1>5, <1>6

------------------------------------------------------------------------------
LEMMA MergeInit ==
  ASSUME Init
  PROVE  MergeInv
<1>1. \A r \in Request : call[r].stage = "new" /\ call[r].rest = {}
  BY DEF Init, NoCall
<1>2. stored = {} /\ messages = {}
  BY DEF Init
<1> QED
  BY <1>1, <1>2 DEF MergeInv, Whole, Undoubled, Knows, Receiving, Posting, Merger

LEMMA MergeNext ==
  ASSUME IInv, MergeInv, [Next]_vars
  PROVE  MergeInv'
<1>1. CASE UNCHANGED vars
  BY <1>1 DEF vars, rowVars, memberVars, messageVars, ghosts, MergeInv, Whole, Undoubled, Knows,
     Passed, Doomed
<1>2. ASSUME NEW r \in Request, Begin(r) PROVE MergeInv'
  BY <1>2, ReceivePlain, OpenPlain, PlainStep, DeleteChatMerge DEF Begin
<1>3. ASSUME NEW r \in Request, Step(r) PROVE MergeInv'
  <2>1. CASE \/ Lookup(r) \/ FindMember(r) \/ InsertContact(r) \/ Link(r) \/ Again(r)
             \/ \E u \in User : Fill(r, u) \/ Invite(r, u)
             \/ Full(r) \/ Users(r) \/ Join(r) \/ Load(r) \/ LoadUsers(r)
    BY <2>1, PlainStep, LookupPlain, FindMemberPlain, InsertContactPlain, LinkPlain, AgainPlain, FillPlain,
       InvitePlain, FullPlain, UsersPlain, JoinPlain, LoadPlain, LoadUsersPlain
  <2>2. CASE \/ ReadContacts(r) \/ Readdress(r) \/ ReadFrom(r) \/ ReadFromUsers(r) \/ ReadTo(r)
             \/ ReadToUsers(r) \/ ReadAgain(r) \/ \E w \in Who : AddOne(r, w)
    BY <2>2, PostsStep, ReadContactsPosts, ReaddressPosts, ReadFromPosts, ReadFromUsersPosts,
       ReadToPosts, ReadToUsersPosts, ReadAgainPosts, AddOnePosts
  <2> QED
    BY <1>3, <2>1, <2>2, InsertChatMerge, WriteMerge, NotifyMerge, PostMerge, ExistsMerge,
       ResaveMerge, ReadMessagesMerge, ReadAuthorMerge, CopyOneMerge, DropMerge, ExpelMerge, SaveChatMerge DEF Step
<1> QED
  BY <1>1, <1>2, <1>3, AbortMerge DEF Next

LEMMA MergeHolds == Spec => []MergeInv
<1>1. Init => MergeInv
  BY MergeInit
<1>2. IInv /\ MergeInv /\ [Next]_vars => MergeInv'
  BY MergeNext
<1> QED
  BY <1>1, <1>2, Invariance, PTL DEF Spec

(* However chats are merged, readdressed and removed, a stored message stays  *)
(* in a chat unless a user removed it or it came too late for a merge, and    *)
(* it is in one chat only once nothing runs, but after a broken merge or two  *)
(* at once (mergeChat, create, createExternal).                               *)
THEOREM MergedWholeCorrect == Spec => []MergedWhole
<1>1. ASSUME MergeInv, NEW o \in stored
      PROVE  LET M == {m \in messages : m.origin = o} IN
             /\ o \notin gone => M # {}
             /\ o \notin repeated /\ AtRest => Cardinality(M) <= 1
  <2> DEFINE M == {m \in messages : m.origin = o}
  <2>1. o \notin gone => M # {}
    BY <1>1 DEF MergeInv, Whole
  <2>2. ASSUME o \notin repeated, AtRest PROVE Cardinality(M) <= 1
    <3>1. \A m : ~Doomed(m)
      BY <2>2 DEF Doomed, AtRest, Running, Ended, Merging
    <3>2. \A m, n \in M : m = n
      BY <1>1, <2>2, <3>1 DEF MergeInv, Undoubled
    <3>3. CASE M = {}
      BY <3>3, FS_EmptySet
    <3>4. CASE M # {}
      <4>1. PICK m \in M : TRUE
        BY <3>4
      <4>2. M = {m}
        BY <3>2, <4>1
      <4> QED
        <5>1. Cardinality({m}) = 1
          BY FS_Singleton
        <5> QED
          BY <4>2, <5>1
    <3> QED
      BY <3>3, <3>4
  <2> QED
    BY <2>1, <2>2
<1>2. MergeInv => MergedWhole
  BY <1>1 DEF MergedWhole
<1> QED
  BY <1>2, MergeHolds, PTL
==============================================================================
