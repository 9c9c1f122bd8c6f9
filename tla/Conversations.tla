--------------------------- MODULE Conversations ---------------------------
(***************************************************************************)
(* Conversations between the buyer and the seller of an order item: opened *)
(* or reused, talked in, closed by the seller, and closed after too long a *)
(* silence, either by whoever looks at them (the lazy close) or by the     *)
(* batch command close_inactive.  A request is one transaction; the        *)
(* handlers of communication/routes.py lock the row they decide about, but *)
(* list_conversations has read it before.  Priorities are in Priority.tla. *)
(*                                                                         *)
(* Only participants of the item reach these handlers: anyone else is      *)
(* answered 403 or 404 before the first step here.                         *)
(***************************************************************************)
EXTENDS Integers, Sequences, FiniteSets

CONSTANTS
  Item,             \* order items
  Conversation,     \* rows of the table, the ones not inserted yet included
  Thread,           \* threads of the HTTP server
  Batch,            \* runs of close_inactive
  Served,           \* the endpoints in use, a subset of Endpoint
  InactivityHours,  \* Settings.conversation_inactivity_hours
  MaxTime,          \* bound of the clock
  MaxMessages,      \* bound of the messages of one conversation
  None

Endpoint == {"create", "list", "get", "message", "close"}

\* What a thread serves, what its session has loaded of a conversation, and
\* what its transaction writes.
Request == [op : Endpoint \union {"batch"}, item : Item,
            conversation : Conversation \union {None}]
LoadedRow == [status : {"open", "closed"}, last : 0 .. MaxTime]
Write == [kind : {"open", "message", "manual", "inactivity"}, at : 0 .. MaxTime]

ASSUME ConversationsAssumption ==
  /\ Served \subseteq Endpoint
  /\ InactivityHours \in Nat /\ MaxTime \in Nat /\ MaxMessages \in Nat
  /\ Thread \intersect Batch = {}
  /\ None \notin Thread \union Batch \union Item \union Conversation
  /\ None \notin Request /\ None \notin LoadedRow /\ None \notin Write

Tx == Thread \union Batch

VARIABLES
  clock,      \* the time utcnow() returns
  itemOf,     \* conversations.order_item_id, None before the insert
  status,     \* conversations.status, "absent" before the insert
  last,       \* conversations.last_interaction_at
  messages,   \* the messages of a conversation, oldest first
  closures,   \* history: the committed closures, by whom
  lock,       \* row locks of order items and conversations
  pc,
  req,        \* the request a thread serves
  view,       \* the attributes of the conversation its session has loaded
  write,      \* what its transaction writes at the commit
  ids,        \* ids[b]: what the batch has still to look at
  pending,    \* events recorded in the session
  published   \* events handed to the publisher last

table    == <<itemOf, status, last, messages, closures>>
sessions == <<req, view, write>>
vars     == <<clock, table, lock, pc, sessions, ids, pending, published>>

ItemRow(i)         == <<"item", i>>
ConversationRow(c) == <<"conversation", c>>
Row == ({"item"} \X Item) \union ({"conversation"} \X Conversation)

\* _open_for_item: at most one row, by the partial unique index.
OpenForItem(i) == { c \in Conversation : itemOf[c] = i /\ status[c] = "open" }

\* is_inactive, for a conversation as a session has loaded it.
IsInactive(loaded) ==
  loaded.status = "open" /\ loaded.last <= clock - InactivityHours

Loaded(c) == [status |-> status[c], last |-> last[c]]

Message(author, at) == [author |-> author, at |-> at]

Event ==
  [type : {"ConversationCreated", "MessageCreated"}, conversation : Conversation]
    \union [type : {"ConversationClosed"}, conversation : Conversation,
            closed_by : {"manual", "inactivity"}]

Init ==
  /\ clock = 0
  /\ itemOf = [c \in Conversation |-> None]
  /\ status = [c \in Conversation |-> "absent"]
  /\ last = [c \in Conversation |-> 0]
  /\ messages = [c \in Conversation |-> <<>>]
  /\ closures = [c \in Conversation |-> <<>>]
  /\ lock = [row \in Row |-> None]
  /\ pc = [t \in Tx |-> "idle"]
  /\ req = [t \in Tx |-> None]
  /\ view = [t \in Tx |-> None]
  /\ write = [t \in Tx |-> None]
  /\ ids = [b \in Batch |-> {}]
  /\ pending = [t \in Tx |-> {}]
  /\ published = {}

Tick ==
  /\ clock < MaxTime
  /\ clock' = clock + 1
  /\ UNCHANGED <<table, lock, pc, sessions, ids, pending, published>>

-----------------------------------------------------------------------------
(***************************************************************************)
(* Row locks and the end of a transaction                                  *)
(***************************************************************************)

Lock(t, row) ==
  /\ lock[row] = None
  /\ lock' = [lock EXCEPT ![row] = t]

\* Mutant of ReleaseLocks: the session is never closed.
KeepLocks(t) == lock' = lock

ReleaseLocks(t) ==
  lock' = [row \in Row |-> IF lock[row] = t THEN None ELSE lock[row]]

CloseSession(t) ==
  /\ ReleaseLocks(t)
  /\ req' = [req EXCEPT ![t] = None]
  /\ view' = [view EXCEPT ![t] = None]
  /\ write' = [write EXCEPT ![t] = None]

\* The batch goes on with its next id, in a session of its own.
Resume(t) == IF t \in Batch /\ ids[t] # {} THEN "next" ELSE "idle"

\* Mutant of Unpublished: what a failed transaction recorded is kept.
StillRecorded(t) == pending[t]

Unpublished(t) == {}

Record(t, events) == pending' = [pending EXCEPT ![t] = @ \union events]

\* A transaction that writes nothing, or whose writes are rolled back.
End(t) ==
  /\ CloseSession(t)
  /\ pc' = [pc EXCEPT ![t] = Resume(t)]
  /\ pending' = [pending EXCEPT ![t] = Unpublished(t)]
  /\ UNCHANGED <<clock, table, ids, published>>

-----------------------------------------------------------------------------
(***************************************************************************)
(* Requests.  A new conversation takes an identifier nobody has drawn.     *)
(***************************************************************************)
Drawn(c) == \E t \in Tx : req[t] # None /\ req[t].conversation = c

\* Mutant of FirstStep: create_conversation does not lock the order item.
FindFirst(op) ==
  CASE op = "create" -> "find" [] op = "list" -> "read" [] OTHER -> "lock"

FirstStep(op) ==
  CASE op = "create" -> "lockItem" [] op = "list" -> "read" [] OTHER -> "lock"

Begin(t, op, i, c) ==
  /\ op \in Served
  /\ req' = [req EXCEPT ![t] = [op |-> op, item |-> i, conversation |-> c]]
  /\ pc' = [pc EXCEPT ![t] = FirstStep(op)]
  /\ UNCHANGED <<clock, table, lock, view, write, ids, pending, published>>

ReceiveCreate(t) ==
  /\ pc[t] = "idle"
  /\ \E i \in Item, c \in Conversation :
       status[c] = "absent" /\ ~Drawn(c) /\ Begin(t, "create", i, c)

ReceiveList(t) ==
  /\ pc[t] = "idle"
  /\ \E i \in Item : Begin(t, "list", i, None)

\* get_conversation and list_messages are both "get".
ReceiveForConversation(t) ==
  /\ pc[t] = "idle"
  /\ \E op \in {"get", "message", "close"}, c \in Conversation :
       /\ status[c] # "absent"
       /\ op = "message" => Len(messages[c]) < MaxMessages
       /\ Begin(t, op, itemOf[c], c)

-----------------------------------------------------------------------------
(***************************************************************************)
(* POST /order-items/{id}/conversation                                     *)
(***************************************************************************)
LockItem(t) ==
  /\ pc[t] = "lockItem"
  /\ Lock(t, ItemRow(req[t].item))
  /\ pc' = [pc EXCEPT ![t] = "find"]
  /\ UNCHANGED <<clock, table, sessions, ids, pending, published>>

\* The open conversation of the item is answered as it is.
ReuseOpen(t) ==
  /\ pc[t] = "find"
  /\ OpenForItem(req[t].item) # {}
  /\ End(t)

FindNone(t) ==
  /\ pc[t] = "find"
  /\ OpenForItem(req[t].item) = {}
  /\ pc' = [pc EXCEPT ![t] = "insert"]
  /\ UNCHANGED <<clock, table, lock, sessions, ids, pending, published>>

\* Another transaction has inserted an open conversation for the item and has
\* not committed: the INSERT waits for it at the unique index.
InsertWaits(t) ==
  \E u \in Tx \ {t} :
    write[u] # None /\ write[u].kind = "open" /\ req[u].item = req[t].item

\* The INSERT in its savepoint.  On an IntegrityError the savepoint is rolled
\* back and the conversation that is in the way is answered.
Insert(t) ==
  /\ pc[t] = "insert"
  /\ ~InsertWaits(t)
  /\ IF OpenForItem(req[t].item) # {}
       THEN End(t)
       ELSE /\ write' = [write EXCEPT ![t] = [kind |-> "open", at |-> clock]]
            /\ Record(t, {[type |-> "ConversationCreated", conversation |-> req[t].conversation]})
            /\ pc' = [pc EXCEPT ![t] = "commit"]
            /\ UNCHANGED <<clock, table, lock, req, view, ids, published>>

-----------------------------------------------------------------------------
(***************************************************************************)
(* Requests about an existing conversation                                 *)
(***************************************************************************)

\* list_conversations loads the conversations of the item without a lock; the
\* one that is open, if any, is then selected FOR UPDATE.
ReadList(t) ==
  LET open == OpenForItem(req[t].item)
  IN /\ pc[t] = "read"
     /\ IF open = {}
          THEN End(t)
          ELSE /\ \E c \in open :
                    /\ req' = [req EXCEPT ![t].conversation = c]
                    /\ view' = [view EXCEPT ![t] = Loaded(c)]
               /\ pc' = [pc EXCEPT ![t] = "lock"]
               /\ UNCHANGED <<clock, table, lock, write, ids, pending, published>>

\* Mutant of LockConversation: for_update is forgotten.
LoadConversation(t) ==
  /\ pc[t] = "lock"
  /\ view' = [view EXCEPT ![t] = IF @ = None THEN Loaded(req[t].conversation) ELSE @]
  /\ pc' = [pc EXCEPT ![t] = "handle"]
  /\ UNCHANGED <<clock, table, lock, req, write, ids, pending, published>>

\* SELECT ... FOR UPDATE.  A row the session has loaded before keeps, in its
\* identity map, the attributes it was loaded with.
LockConversation(t) ==
  LET c == req[t].conversation
  IN /\ pc[t] = "lock"
     /\ Lock(t, ConversationRow(c))
     /\ view' = [view EXCEPT ![t] = IF @ = None THEN Loaded(c) ELSE @]
     /\ pc' = [pc EXCEPT ![t] = "handle"]
     /\ UNCHANGED <<clock, table, req, write, ids, pending, published>>

\* maybe_close_inactive and close_for_inactivity, the first thing every
\* handler of a conversation does.  The clock is read once for both.
CloseForInactivity(t) ==
  LET c == req[t].conversation
  IN /\ pc[t] = "handle"
     /\ IsInactive(view[t])
     /\ view' = [view EXCEPT ![t].status = "closed"]
     /\ write' = [write EXCEPT ![t] = [kind |-> "inactivity", at |-> clock]]
     /\ Record(t, {[type |-> "MessageCreated", conversation |-> c],
                   [type |-> "ConversationClosed", conversation |-> c, closed_by |-> "inactivity"]})
     /\ pc' = [pc EXCEPT ![t] =
          IF req[t].op \in {"message", "close"} THEN "handle" ELSE "commit"]
     /\ UNCHANGED <<clock, table, lock, req, ids, published>>

\* A read, or a batch, of a conversation that is not inactive.
JustLook(t) ==
  /\ pc[t] = "handle"
  /\ req[t].op \notin {"message", "close"}
  /\ ~IsInactive(view[t])
  /\ End(t)

AddMessage(t) ==
  /\ pc[t] = "handle"
  /\ req[t].op = "message"
  /\ view[t].status = "open" /\ ~IsInactive(view[t])
  /\ write' = [write EXCEPT ![t] = [kind |-> "message", at |-> clock]]
  /\ Record(t, {[type |-> "MessageCreated", conversation |-> req[t].conversation]})
  /\ pc' = [pc EXCEPT ![t] = "commit"]
  /\ UNCHANGED <<clock, table, lock, req, view, ids, published>>

CloseBySeller(t) ==
  /\ pc[t] = "handle"
  /\ req[t].op = "close"
  /\ view[t].status = "open" /\ ~IsInactive(view[t])
  /\ write' = [write EXCEPT ![t] = [kind |-> "manual", at |-> clock]]
  /\ Record(t, {[type |-> "ConversationClosed", conversation |-> req[t].conversation,
                closed_by |-> "manual"]})
  /\ pc' = [pc EXCEPT ![t] = "commit"]
  /\ UNCHANGED <<clock, table, lock, req, view, ids, published>>

\* InvalidTransitionError: 409, and the rollback takes back what
\* CloseForInactivity wrote, if it did.
RefuseClosed(t) ==
  /\ pc[t] = "handle"
  /\ req[t].op \in {"message", "close"}
  /\ view[t].status # "open"
  /\ End(t)

-----------------------------------------------------------------------------
(***************************************************************************)
(* close_inactive: one scan, then one transaction for each id found        *)
(***************************************************************************)
EligibleIds == { c \in Conversation : IsInactive(Loaded(c)) }

Scan(b) ==
  /\ pc[b] = "idle"
  /\ EligibleIds # {}
  /\ ids' = [ids EXCEPT ![b] = EligibleIds]
  /\ pc' = [pc EXCEPT ![b] = "next"]
  /\ UNCHANGED <<clock, table, lock, sessions, pending, published>>

TakeNext(b, c) ==
  /\ pc[b] = "next"
  /\ c \in ids[b]
  /\ ids' = [ids EXCEPT ![b] = @ \ {c}]

\* FOR UPDATE SKIP LOCKED returns the row, or nothing if it is locked.
LockNext(b) ==
  \E c \in Conversation :
    /\ TakeNext(b, c)
    /\ Lock(b, ConversationRow(c))
    /\ req' = [req EXCEPT ![b] = [op |-> "batch", item |-> itemOf[c], conversation |-> c]]
    /\ view' = [view EXCEPT ![b] = Loaded(c)]
    /\ pc' = [pc EXCEPT ![b] = "handle"]
    /\ UNCHANGED <<clock, table, write, pending, published>>

SkipLocked(b) ==
  \E c \in Conversation :
    /\ TakeNext(b, c)
    /\ lock[ConversationRow(c)] # None
    /\ pc' = [pc EXCEPT ![b] = IF ids[b] = {c} THEN "idle" ELSE "next"]
    /\ UNCHANGED <<clock, table, lock, sessions, pending, published>>

-----------------------------------------------------------------------------
(***************************************************************************)
(* Commit, and the events after it                                         *)
(***************************************************************************)
Committed(t) ==
  /\ CloseSession(t)
  /\ pc' = [pc EXCEPT ![t] = "publish"]
  /\ UNCHANGED <<clock, ids, pending, published>>

CommitOpen(t) ==
  LET c == req[t].conversation
  IN /\ pc[t] = "commit" /\ write[t].kind = "open"
     /\ itemOf' = [itemOf EXCEPT ![c] = req[t].item]
     /\ status' = [status EXCEPT ![c] = "open"]
     /\ last' = [last EXCEPT ![c] = write[t].at]
     /\ UNCHANGED <<messages, closures>>
     /\ Committed(t)

CommitMessage(t) ==
  LET c == req[t].conversation
  IN /\ pc[t] = "commit" /\ write[t].kind = "message"
     /\ messages' = [messages EXCEPT ![c] =
                       Append(@, Message("participant", write[t].at))]
     /\ last' = [last EXCEPT ![c] = write[t].at]
     /\ UNCHANGED <<itemOf, status, closures>>
     /\ Committed(t)

CommitClosure(t) ==
  LET c == req[t].conversation
      by == write[t].kind
  IN /\ pc[t] = "commit" /\ by \in {"manual", "inactivity"}
     /\ status' = [status EXCEPT ![c] = "closed"]
     /\ closures' = [closures EXCEPT ![c] = Append(@, by)]
     /\ IF by = "inactivity"
          THEN /\ messages' = [messages EXCEPT ![c] =
                                 Append(@, Message("system", write[t].at))]
               /\ last' = [last EXCEPT ![c] = write[t].at]
          ELSE UNCHANGED <<messages, last>>
     /\ UNCHANGED itemOf
     /\ Committed(t)

Publish(t) ==
  /\ pc[t] = "publish"
  /\ published' = pending[t]
  /\ pending' = [pending EXCEPT ![t] = {}]
  /\ pc' = [pc EXCEPT ![t] = Resume(t)]
  /\ UNCHANGED <<clock, table, lock, sessions, ids>>

\* The request fails, or the process stops before the commit; a failed batch
\* does not look at the ids it has left.
Abort(t) ==
  /\ pc[t] \notin {"idle", "publish"}
  /\ CloseSession(t)
  /\ pc' = [pc EXCEPT ![t] = "idle"]
  /\ pending' = [pending EXCEPT ![t] = Unpublished(t)]
  /\ ids' = IF t \in Batch THEN [ids EXCEPT ![t] = {}] ELSE ids
  /\ UNCHANGED <<clock, table, published>>

\* The process stops after the commit and before the publication.
LoseEvents(t) ==
  /\ pc[t] = "publish"
  /\ pending' = [pending EXCEPT ![t] = {}]
  /\ pc' = [pc EXCEPT ![t] = "idle"]
  /\ ids' = IF t \in Batch THEN [ids EXCEPT ![t] = {}] ELSE ids
  /\ UNCHANGED <<clock, table, lock, sessions, published>>

HandleStep(t) ==
  \/ CloseForInactivity(t) \/ JustLook(t) \/ AddMessage(t) \/ CloseBySeller(t)
  \/ RefuseClosed(t)
  \/ CommitOpen(t) \/ CommitMessage(t) \/ CommitClosure(t) \/ Publish(t)

ThreadStep(t) ==
  \/ LockItem(t) \/ ReuseOpen(t) \/ FindNone(t) \/ Insert(t)
  \/ ReadList(t) \/ LockConversation(t) \/ HandleStep(t)

BatchStep(b) == LockNext(b) \/ SkipLocked(b) \/ HandleStep(b)

Next ==
  \/ Tick
  \/ \E t \in Thread :
       ReceiveCreate(t) \/ ReceiveList(t) \/ ReceiveForConversation(t) \/ ThreadStep(t)
  \/ \E b \in Batch : Scan(b) \/ BatchStep(b)
  \/ \E t \in Tx : Abort(t) \/ LoseEvents(t)

Spec == Init /\ [][Next]_vars

(***************************************************************************)
(* Whoever has begun goes on; a lock that is free again and again is       *)
(* granted.  Neither requests nor runs of the batch are assumed to come.   *)
(***************************************************************************)
Fairness ==
  /\ \A t \in Thread : SF_vars(ThreadStep(t))
  /\ \A b \in Batch : SF_vars(BatchStep(b))

FairSpec == Spec /\ Fairness

-----------------------------------------------------------------------------
(***************************************************************************)
(* Properties                                                              *)
(***************************************************************************)

\* Types of the tables, locks and sessions.  Besides, a lock belongs to a
\* transaction that has not ended, and an item has at most one open conversation
\* (the partial unique index of communication/models.py).
TypeOK ==
  /\ clock \in 0 .. MaxTime
  /\ itemOf \in [Conversation -> Item \union {None}]
  /\ status \in [Conversation -> {"absent", "open", "closed"}]
  /\ last \in [Conversation -> 0 .. MaxTime]
  /\ \A c \in Conversation :
       messages[c] \in Seq([author : {"participant", "system"}, at : 0 .. MaxTime])
  /\ \A c \in Conversation : closures[c] \in Seq({"manual", "inactivity"})
  /\ lock \in [Row -> Tx \union {None}]
  /\ \A row \in Row : lock[row] # None => pc[lock[row]] \notin {"idle", "publish"}
  /\ \A i \in Item : Cardinality(OpenForItem(i)) <= 1
  /\ pc \in [Tx -> {"idle", "lockItem", "find", "insert", "read", "lock", "next",
                    "handle", "commit", "publish"}]
  /\ \A t \in Tx :
       /\ req[t] # None => /\ req[t].op \in Endpoint \union {"batch"}
                           /\ req[t].item \in Item
                           /\ req[t].conversation \in Conversation \union {None}
       /\ view[t] # None => view[t].status \in {"open", "closed"}
       /\ write[t] # None =>
            write[t].kind \in {"open", "message", "manual", "inactivity"}
  /\ ids \in [Batch -> SUBSET Conversation]
  /\ pending \in [Tx -> SUBSET Event]
  /\ published \in SUBSET Event

\* Creating a conversation is serialised by the lock of its item: the unique
\* index never has to refuse an insert, so the recovery path after an
\* IntegrityError (communication/lifecycle.py:89-93) is never needed.
IndexNeverHit ==
  \A t \in Tx :
    pc[t] = "insert" => ~InsertWaits(t) /\ OpenForItem(req[t].item) = {}

\* Where the participants spoke, in a history that only grows.
Said(c) == { n \in 1 .. Len(messages[c]) : messages[c][n].author = "participant" }

\* Nothing is said in a conversation that somebody has closed, although the
\* message and the closure may be sent at the same time.
SaidWhileOpen ==
  [][\A c \in Conversation : Said(c)' # Said(c) => status[c] = "open"]_vars

\* Every endpoint but the list, and the batch, closes only a conversation that is
\* open, and for inactivity only after InactivityHours of silence: a message or
\* a closure that came in between is noticed under the lock.
ClosesWhatItSees ==
  [][\A t \in Tx :
       CommitClosure(t) /\ req[t].op # "list" =>
         LET c == req[t].conversation
         IN /\ status[c] = "open"
            /\ write[t].kind = "inactivity" => last[c] <= clock - InactivityHours]_vars

\* docs/P4_Communication.md, line 453: a conversation is closed once, by the
\* seller or for inactivity, and gets at most one system message, whoever looks
\* at it and whatever the batch does.
ClosedOnce ==
  \A c \in Conversation :
    /\ Len(closures[c]) <= 1
    /\ status[c] = "closed" <=> closures[c] # <<>>

\* Subscribers hear of a conversation that exists, and of a closure only if it
\* was committed, for the reason it was.
EventsAreTrue ==
  \A e \in published :
    /\ status[e.conversation] # "absent"
    /\ e.type = "ConversationClosed" =>
         \E n \in 1 .. Len(closures[e.conversation]) :
           closures[e.conversation][n] = e.closed_by

\* Every request, and every run of the batch, ends.
EveryRequestEnds == \A t \in Tx : (pc[t] # "idle") ~> (pc[t] = "idle")

=============================================================================
