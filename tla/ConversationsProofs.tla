------------------------ MODULE ConversationsProofs ------------------------
(***************************************************************************)
(* Proofs about Conversations, for any items, threads, runs of the batch,  *)
(* conversations and hours of inactivity: what a session knows while it    *)
(* holds its row locks, and what follows for the unique index, for what is *)
(* said and closed, and for the events.                                    *)
(***************************************************************************)
EXTENDS Conversations, FiniteSetTheorems, TLAPS

-----------------------------------------------------------------------------
(***************************************************************************)
(* The inductive invariant                                                 *)
(***************************************************************************)
Types ==
  /\ clock \in 0 .. MaxTime
  /\ itemOf \in [Conversation -> Item \union {None}]
  /\ status \in [Conversation -> {"absent", "open", "closed"}]
  /\ last \in [Conversation -> 0 .. MaxTime]
  /\ messages \in
       [Conversation -> Seq([author : {"participant", "system"}, at : 0 .. MaxTime])]
  /\ closures \in [Conversation -> Seq({"manual", "inactivity"})]
  /\ lock \in [Row -> Tx \union {None}]
  /\ pc \in [Tx -> {"idle", "lockItem", "find", "insert", "read", "lock", "next",
                    "handle", "commit", "publish"}]
  /\ req \in [Tx -> Request \union {None}]
  /\ view \in [Tx -> LoadedRow \union {None}]
  /\ write \in [Tx -> Write \union {None}]
  /\ ids \in [Batch -> SUBSET Conversation]
  /\ pending \in [Tx -> SUBSET Event]
  /\ published \in SUBSET Event

Asks(t) == req[t] # None
Creates(t) == Asks(t) /\ req[t].op = "create"

\* What a transaction has at each of its steps.
ShapeOK(t) ==
  /\ Asks(t) <=> pc[t] \notin {"idle", "next", "publish"}
  /\ pc[t] \notin {"lock", "handle", "commit"} => view[t] = None
  /\ pc[t] \notin {"handle", "commit"} => write[t] = None
  /\ Creates(t) => req[t].conversation \in Conversation
  /\ pc[t] \in {"lockItem", "find", "insert"} => Creates(t)
  /\ pc[t] \in {"read", "lock", "handle"} => ~Creates(t)
  /\ pc[t] = "read" => req[t].op = "list" /\ req[t].conversation = None
  /\ pc[t] \in {"lock", "handle", "commit"} => req[t].conversation \in Conversation
  /\ pc[t] = "lock" /\ view[t] # None => req[t].op = "list"
  /\ pc[t] = "handle" =>
       /\ view[t] # None
       /\ write[t] # None => view[t].status = "closed" /\ write[t].kind = "inactivity"
  /\ pc[t] = "commit" =>
       /\ write[t] # None
       /\ write[t].kind = "open" <=> Creates(t)
       /\ write[t].kind = "message" => req[t].op = "message"

\* From its SELECT ... FOR UPDATE to its end a transaction holds the row.
LocksOK(t) ==
  /\ pc[t] \in {"find", "insert"} \/ (pc[t] = "commit" /\ Creates(t)) =>
       lock[ItemRow(req[t].item)] = t
  /\ pc[t] = "handle" \/ (pc[t] = "commit" /\ ~Creates(t)) =>
       lock[ConversationRow(req[t].conversation)] = t

\* What it has read under that lock is still in the tables, except in the list,
\* whose attributes are older than its lock.
TableOK(t) ==
  /\ Creates(t) => status[req[t].conversation] = "absent"
  /\ Asks(t) /\ ~Creates(t) /\ req[t].conversation # None =>
       status[req[t].conversation] # "absent"
  /\ pc[t] = "insert" \/ (pc[t] = "commit" /\ Creates(t)) => OpenForItem(req[t].item) = {}
  /\ pc[t] = "handle" /\ req[t].op # "list" /\ view[t].status = "open" =>
       /\ status[req[t].conversation] = "open"
       /\ last[req[t].conversation] = view[t].last
  /\ pc[t] = "commit" /\ ~Creates(t) /\ req[t].op # "list" =>
       /\ status[req[t].conversation] = "open"
       /\ write[t].kind = "inactivity" =>
            last[req[t].conversation] <= clock - InactivityHours

\* An event that has come true.
True(e) ==
  /\ status[e.conversation] # "absent"
  /\ e.type = "ConversationClosed" =>
       \E n \in 1 .. Len(closures[e.conversation]) :
         closures[e.conversation][n] = e.closed_by

\* What a transaction has recorded comes true with its commit.
EventsOK(t) ==
  /\ pc[t] \notin {"handle", "commit", "publish"} => pending[t] = {}
  /\ pc[t] = "handle" /\ write[t] = None => pending[t] = {}
  /\ pc[t] = "commit" =>
       \A e \in pending[t] :
         /\ e.conversation = req[t].conversation
         /\ e.type = "ConversationClosed" =>
              write[t].kind \in {"manual", "inactivity"} /\ e.closed_by = write[t].kind
  /\ pc[t] = "publish" => \A e \in pending[t] : True(e)

SessionOK(t) == ShapeOK(t) /\ LocksOK(t) /\ TableOK(t) /\ EventsOK(t)

\* A lock belongs to a transaction that still needs it.
LockHolders ==
  \A row \in Row : lock[row] # None =>
    pc[lock[row]] \in {"find", "insert", "handle", "commit"}

\* Two requests never draw the same new identifier.
Distinct ==
  \A t, u \in Tx :
    Creates(t) /\ Creates(u) /\ req[t].conversation = req[u].conversation => t = u

RowsOK ==
  /\ \A c \in Conversation : status[c] # "absent" => itemOf[c] \in Item
  /\ \A i \in Item : \A c, d \in OpenForItem(i) : c = d
  /\ \A b \in Batch : \A c \in ids[b] : status[c] # "absent"

IInv ==
  /\ Types
  /\ \A t \in Tx : SessionOK(t)
  /\ LockHolders
  /\ Distinct
  /\ RowsOK
  /\ EventsAreTrue

-----------------------------------------------------------------------------
(***************************************************************************)
(* Rows, requests, and sessions that do not move                           *)
(***************************************************************************)
Session(t) == <<pc[t], req[t], view[t], write[t], pending[t]>>

\* The rows of items and of conversations are different rows.
LEMMA Rows ==
  /\ \A i \in Item : ItemRow(i) \in Row
  /\ \A c \in Conversation : ConversationRow(c) \in Row
  /\ \A i, j \in Item : ItemRow(i) = ItemRow(j) => i = j
  /\ \A c, d \in Conversation : ConversationRow(c) = ConversationRow(d) => c = d
  /\ \A i \in Item, c \in Conversation : ItemRow(i) # ConversationRow(c)
  BY DEF Row, ItemRow, ConversationRow

\* A transaction that asks for something asks for it about an item.
LEMMA Asked ==
  ASSUME Types, NEW t \in Tx
  PROVE  /\ Asks(t) => req[t] \in Request /\ req[t].item \in Item
         /\ view[t] # None => view[t] \in LoadedRow
         /\ write[t] # None => write[t] \in Write
  BY DEF Types, Asks, Request

\* A session that is left alone keeps what it knows while the tables stay as
\* they are, and time only passes.
LEMMA SessionFrame ==
  ASSUME Types, Types', NEW t \in Tx, SessionOK(t), UNCHANGED Session(t),
         UNCHANGED <<itemOf, status, last, closures>>, clock <= clock',
         \A row \in Row : lock[row] = t => lock'[row] = t
  PROVE  SessionOK(t)'
  <1>1. ShapeOK(t)'
    BY DEF SessionOK, ShapeOK, Session, Asks, Creates
  <1>2. LocksOK(t)'
    <2>1. pc[t] \in {"find", "insert"} \/ (pc[t] = "commit" /\ Creates(t)) =>
            ItemRow(req[t].item) \in Row
      BY Rows, Asked DEF SessionOK, ShapeOK, Creates
    <2>2. pc[t] = "handle" \/ (pc[t] = "commit" /\ ~Creates(t)) =>
            ConversationRow(req[t].conversation) \in Row
      BY Rows DEF SessionOK, ShapeOK
    <2> QED
      BY <2>1, <2>2 DEF SessionOK, LocksOK, Session, Asks, Creates, ItemRow,
         ConversationRow
  <1>3. TableOK(t)'
    <2>1. /\ (Creates(t) => status[req[t].conversation] = "absent")'
          /\ (Asks(t) /\ ~Creates(t) /\ req[t].conversation # None =>
                status[req[t].conversation] # "absent")'
          /\ (pc[t] = "handle" /\ req[t].op # "list" /\ view[t].status = "open" =>
                /\ status[req[t].conversation] = "open"
                /\ last[req[t].conversation] = view[t].last)'
      BY DEF SessionOK, TableOK, Session, Asks, Creates
    <2>2. (pc[t] = "insert" \/ (pc[t] = "commit" /\ Creates(t)) =>
              OpenForItem(req[t].item) = {})'
      BY DEF SessionOK, TableOK, Session, Asks, Creates, OpenForItem
    <2>3. (pc[t] = "commit" /\ ~Creates(t) /\ req[t].op # "list" =>
            /\ status[req[t].conversation] = "open"
            /\ write[t].kind = "inactivity" =>
                 last[req[t].conversation] <= clock - InactivityHours)'
      <3>1. SUFFICES ASSUME pc[t] = "commit", ~Creates(t), req[t].op # "list"
                     PROVE  /\ status[req[t].conversation] = "open"
                            /\ write[t].kind = "inactivity" =>
                                 last[req[t].conversation] <= clock' - InactivityHours
        BY DEF Session, Asks, Creates
      <3>2. /\ status[req[t].conversation] = "open"
            /\ write[t].kind = "inactivity" =>
                 last[req[t].conversation] <= clock - InactivityHours
        BY <3>1 DEF SessionOK, TableOK
      <3>3. req[t].conversation \in Conversation
        BY <3>1 DEF SessionOK, ShapeOK
      <3>4. last[req[t].conversation] \in Int /\ clock \in Int /\ clock' \in Int
            /\ InactivityHours \in Int
        BY <3>3, ConversationsAssumption DEF Types
      <3> QED
        BY <3>2, <3>4
    <2> QED
      BY <2>1, <2>2, <2>3 DEF TableOK
  <1>4. EventsOK(t)'
    BY DEF SessionOK, EventsOK, Session, True
  <1> QED
    BY <1>1, <1>2, <1>3, <1>4 DEF SessionOK

\* A step of one transaction that writes no table.
LEMMA QuietKeeps ==
  ASSUME IInv, NEW t \in Tx, Types', SessionOK(t)', UNCHANGED <<clock, table>>,
         \A u \in Tx \ {t} : UNCHANGED Session(u),
         \A row \in Row : \A u \in Tx \ {t} : lock'[row] = u <=> lock[row] = u,
         \A row \in Row : lock'[row] = t => pc'[t] \in {"find", "insert", "handle", "commit"},
         Creates(t)' => /\ Creates(t) /\ req'[t].conversation = req[t].conversation
                        \/ \A u \in Tx \ {t} :
                             ~(Creates(u) /\ req[u].conversation = req'[t].conversation),
         \A b \in Batch : \A c \in ids'[b] : status[c] # "absent",
         EventsAreTrue'
  PROVE  IInv'
  <1>1. \A u \in Tx : SessionOK(u)'
    <2>1. ASSUME NEW u \in Tx \ {t}
          PROVE  SessionOK(u)'
      <3>1. clock <= clock'
        BY ConversationsAssumption DEF IInv, Types
      <3> QED
        BY <2>1, <3>1, SessionFrame DEF IInv, table
    <2> QED
      BY <2>1
  <1>2. LockHolders'
    <2> SUFFICES ASSUME NEW row \in Row, lock'[row] # None
                 PROVE  pc'[lock'[row]] \in {"find", "insert", "handle", "commit"}
      BY DEF LockHolders
    <2>1. lock'[row] \in Tx
      BY DEF Types
    <2>2. CASE lock'[row] = t
      BY <2>2
    <2>3. CASE lock'[row] # t
      BY <2>1, <2>3 DEF IInv, LockHolders, Session
    <2> QED
      BY <2>2, <2>3
  <1>3. \A u \in Tx \ {t} : (Creates(u)' <=> Creates(u)) /\ req'[u] = req[u]
    BY DEF Session, Creates, Asks
  <1>4. Distinct'
    <2> SUFFICES ASSUME NEW u \in Tx, NEW v \in Tx, Creates(u)', Creates(v)',
                        req'[u].conversation = req'[v].conversation
                 PROVE  u = v
      BY DEF Distinct
    <2>1. CASE u # t /\ v # t
      BY <1>3, <2>1 DEF IInv, Distinct
    <2>2. CASE u = t /\ v # t
      BY <1>3, <2>2 DEF IInv, Distinct
    <2>3. CASE u # t /\ v = t
      BY <1>3, <2>3 DEF IInv, Distinct
    <2> QED
      BY <2>1, <2>2, <2>3
  <1>5. RowsOK'
    BY DEF IInv, RowsOK, OpenForItem, table
  <1> QED
    BY <1>1, <1>2, <1>4, <1>5 DEF IInv

\* A session that is closed gives back its locks and forgets its request.
LEMMA Closed ==
  ASSUME Types, NEW t \in Tx, CloseSession(t)
  PROVE  /\ lock' \in [Row -> Tx \union {None}]
         /\ req' \in [Tx -> Request \union {None}]
         /\ view' \in [Tx -> LoadedRow \union {None}]
         /\ write' \in [Tx -> Write \union {None}]
         /\ req'[t] = None /\ view'[t] = None /\ write'[t] = None
         /\ \A u \in Tx \ {t} : UNCHANGED <<req[u], view[u], write[u]>>
         /\ \A row \in Row : lock'[row] # t
         /\ \A row \in Row : \A u \in Tx \ {t} : lock'[row] = u <=> lock[row] = u
  <1>1. lock' = [row \in Row |-> IF lock[row] = t THEN None ELSE lock[row]]
    BY DEF CloseSession, ReleaseLocks
  <1>2. None \notin Tx
    BY ConversationsAssumption DEF Tx
  <1>3. /\ lock' \in [Row -> Tx \union {None}]
        /\ \A row \in Row : lock'[row] # t
        /\ \A row \in Row : \A u \in Tx \ {t} : lock'[row] = u <=> lock[row] = u
    BY <1>1, <1>2 DEF Types
  <1> QED
    BY <1>3 DEF CloseSession, Types

\* A transaction that ends without a commit, or a published one that goes.
LEMMA LeaveKeeps ==
  ASSUME IInv, NEW t \in Tx, NEW to \in {"idle", "next"},
         CloseSession(t), pc' = [pc EXCEPT ![t] = to],
         pending' = [pending EXCEPT ![t] = {}],
         ids' \in [Batch -> SUBSET Conversation],
         \A b \in Batch : ids'[b] \subseteq ids[b],
         UNCHANGED <<clock, table, published>>
  PROVE  IInv'
  <1>1. Types'
    BY Closed DEF IInv, Types, table
  <1>2. SessionOK(t)'
    <2>1. /\ req'[t] = None /\ view'[t] = None /\ write'[t] = None
          /\ pc'[t] = to /\ pending'[t] = {}
      BY Closed DEF IInv, Types
    <2> QED
      BY <2>1 DEF SessionOK, ShapeOK, LocksOK, TableOK, EventsOK, Asks, Creates
  <1>3. \A u \in Tx \ {t} : UNCHANGED Session(u)
    BY ZenonT(60), Closed DEF IInv, Types, Session
  <1>4. ~Creates(t)'
    BY Closed DEF IInv, Creates, Asks
  <1>5. \A b \in Batch : \A c \in ids'[b] : status[c] # "absent"
    BY DEF IInv, RowsOK
  <1>6. EventsAreTrue'
    BY DEF IInv, EventsAreTrue, table
  <1>7. /\ \A row \in Row : lock'[row] # t
        /\ \A row \in Row : \A u \in Tx \ {t} : lock'[row] = u <=> lock[row] = u
    BY Closed DEF IInv
  <1>8. UNCHANGED <<clock, table>>
    OBVIOUS
  <1> QED
    BY <1>1, <1>2, <1>3, <1>4, <1>5, <1>6, <1>7, <1>8, QuietKeeps

\* A transaction that ends without a commit goes on with the next id, if any.
LEMMA EndKeeps ==
  ASSUME IInv, NEW t \in Tx, End(t)
  PROVE  IInv'
  <1>1. Resume(t) \in {"idle", "next"}
    BY DEF Resume
  <1>2. /\ CloseSession(t) /\ pc' = [pc EXCEPT ![t] = Resume(t)]
        /\ pending' = [pending EXCEPT ![t] = {}]
        /\ UNCHANGED <<clock, table, ids, published>>
    BY DEF End, Unpublished
  <1>3. /\ ids' \in [Batch -> SUBSET Conversation]
        /\ \A b \in Batch : ids'[b] \subseteq ids[b]
    BY <1>2 DEF IInv, Types
  <1> QED
    BY <1>1, <1>2, <1>3, LeaveKeeps

\* So does one that fails, which may be a whole run of the batch.
LEMMA AbortKeeps ==
  ASSUME IInv, NEW t \in Tx, Abort(t)
  PROVE  IInv'
  <1>1. /\ CloseSession(t) /\ pc' = [pc EXCEPT ![t] = "idle"]
        /\ pending' = [pending EXCEPT ![t] = {}]
        /\ UNCHANGED <<clock, table, published>>
    BY DEF Abort, Unpublished
  <1>2. ids' = IF t \in Batch THEN [ids EXCEPT ![t] = {}] ELSE ids
    BY DEF Abort
  <1>3. /\ ids' \in [Batch -> SUBSET Conversation]
        /\ \A b \in Batch : ids'[b] \subseteq ids[b]
    BY <1>2 DEF IInv, Types
  <1> QED
    BY <1>1, <1>3, LeaveKeeps

\* A committed transaction publishes its events, or loses them in a crash.
LEMMA AfterCommitKeeps ==
  ASSUME IInv, NEW t \in Tx, Publish(t) \/ LoseEvents(t)
  PROVE  IInv'
  <1>1. PICK to \in {"idle", "next"} :
          /\ pc[t] = "publish" /\ pc' = [pc EXCEPT ![t] = to]
          /\ pending' = [pending EXCEPT ![t] = {}]
          /\ published' \in {published, pending[t]}
          /\ UNCHANGED <<clock, table, lock, sessions>>
    BY DEF Publish, LoseEvents, Resume
  <1>2. ids' = ids \/ ids' = IF t \in Batch THEN [ids EXCEPT ![t] = {}] ELSE ids
    BY DEF Publish, LoseEvents
  <1>3. /\ ids' \in [Batch -> SUBSET Conversation]
        /\ \A b \in Batch : ids'[b] \subseteq ids[b]
    BY <1>2 DEF IInv, Types
  <1>4. Types'
    BY <1>1, <1>3 DEF IInv, Types, table, sessions
  <1>5. /\ req[t] = None /\ view[t] = None /\ write[t] = None
    BY <1>1 DEF IInv, SessionOK, ShapeOK, Asks
  <1>6. SessionOK(t)'
    <2>1. pc'[t] = to /\ pending'[t] = {} /\ UNCHANGED <<req, view, write>>
      BY <1>1 DEF IInv, Types, sessions
    <2> QED
      BY <1>5, <2>1 DEF SessionOK, ShapeOK, LocksOK, TableOK, EventsOK, Asks, Creates
  <1>7. \A u \in Tx \ {t} : UNCHANGED Session(u)
    BY <1>1 DEF IInv, Types, Session, sessions
  <1>8. ~Creates(t)'
    BY <1>1, <1>5 DEF Creates, Asks, sessions
  <1>9. \A b \in Batch : \A c \in ids'[b] : status[c] # "absent"
    BY <1>3 DEF IInv, RowsOK
  <1>10. EventsAreTrue'
    <2>1. \A e \in pending[t] : True(e)
      BY <1>1 DEF IInv, SessionOK, EventsOK
    <2> QED
      BY <1>1, <2>1 DEF IInv, EventsAreTrue, True, table
  <1>11. \A row \in Row : lock'[row] # t
    <2>1. t # None /\ \A row \in Row : lock[row] # t
      BY <1>1, ConversationsAssumption DEF IInv, LockHolders, Tx
    <2> QED
      BY <1>1, <2>1
  <1>12. /\ UNCHANGED <<clock, table>>
         /\ \A row \in Row : \A u \in Tx \ {t} : lock'[row] = u <=> lock[row] = u
    BY <1>1
  <1> QED
    BY <1>4, <1>6, <1>7, <1>8, <1>9, <1>10, <1>11, <1>12, QuietKeeps

-----------------------------------------------------------------------------
(***************************************************************************)
(* Steps that only change the transaction's own session                    *)
(***************************************************************************)

\* A step that writes no table, takes no lock and publishes nothing.
LEMMA SessionKeeps ==
  ASSUME IInv, NEW t \in Tx, Types', SessionOK(t)',
         UNCHANGED <<clock, table, lock, published>>,
         pc[t] \notin {"find", "insert", "handle", "commit"}
           \/ pc'[t] \in {"find", "insert", "handle", "commit"},
         \A u \in Tx \ {t} : UNCHANGED Session(u),
         Creates(t)' => /\ Creates(t) /\ req'[t].conversation = req[t].conversation
                        \/ \A u \in Tx \ {t} :
                             ~(Creates(u) /\ req[u].conversation = req'[t].conversation),
         \A b \in Batch : \A c \in ids'[b] : status[c] # "absent"
  PROVE  IInv'
  <1>1. \A row \in Row : lock'[row] = t => pc'[t] \in {"find", "insert", "handle", "commit"}
    <2>1. t # None
      BY ConversationsAssumption DEF Tx
    <2> QED
      BY <2>1 DEF IInv, LockHolders
  <1>2. EventsAreTrue'
    BY DEF IInv, EventsAreTrue, table
  <1>3. /\ UNCHANGED <<clock, table>>
        /\ \A row \in Row : \A u \in Tx \ {t} : lock'[row] = u <=> lock[row] = u
    OBVIOUS
  <1> QED
    BY <1>1, <1>2, <1>3, QuietKeeps

\* A request begins: one that creates draws an identifier nobody has drawn.
LEMMA BeginKeeps ==
  ASSUME IInv, NEW t \in Tx, NEW op, NEW i \in Item, NEW c \in Conversation \union {None},
         pc[t] = "idle", op \in Endpoint, Begin(t, op, i, c),
         op = "create" => c # None /\ status[c] = "absent" /\ ~Drawn(c),
         op = "list" <=> c = None,
         op \notin {"create", "list"} => status[c] # "absent"
  PROVE  IInv'
  <1>1. /\ req' = [req EXCEPT ![t] = [op |-> op, item |-> i, conversation |-> c]]
        /\ pc' = [pc EXCEPT ![t] = FirstStep(op)]
        /\ UNCHANGED <<clock, table, lock, view, write, ids, pending, published>>
    BY DEF Begin
  <1>2. /\ op = "create" => FirstStep(op) = "lockItem"
        /\ op = "list" => FirstStep(op) = "read"
        /\ op \notin {"create", "list"} => FirstStep(op) = "lock"
    BY DEF FirstStep
  <1>3. [op |-> op, item |-> i, conversation |-> c] \in Request
    BY DEF Request
  <1>4. Types'
    BY <1>1, <1>2, <1>3 DEF IInv, Types, table
  <1>5. req'[t] = [op |-> op, item |-> i, conversation |-> c] /\ pc'[t] = FirstStep(op)
    BY <1>1 DEF IInv, Types
  <1>6. view'[t] = None /\ write'[t] = None /\ pending'[t] = {}
    BY <1>1 DEF IInv, SessionOK, ShapeOK, EventsOK
  <1>7. SessionOK(t)'
    <2>1. req'[t] # None
      BY <1>3, <1>5, ConversationsAssumption
    <2>2. c # None => c \in Conversation
      OBVIOUS
    <2>3. ShapeOK(t)'
      BY <1>2, <1>5, <1>6, <2>1, <2>2 DEF ShapeOK, Asks, Creates
    <2>4. LocksOK(t)' /\ EventsOK(t)'
      BY <1>2, <1>5, <1>6 DEF LocksOK, EventsOK
    <2>5. TableOK(t)'
      BY <1>1, <1>2, <1>5 DEF TableOK, Asks, Creates, table
    <2> QED
      BY <2>3, <2>4, <2>5 DEF SessionOK
  <1>8. \A u \in Tx \ {t} : UNCHANGED Session(u)
    BY <1>1 DEF IInv, Types, Session
  <1>9. Creates(t)' => \A u \in Tx \ {t} :
          ~(Creates(u) /\ req[u].conversation = req'[t].conversation)
    BY <1>5 DEF Creates, Asks, Drawn
  <1>10. \A b \in Batch : \A d \in ids'[b] : status[d] # "absent"
    BY <1>1 DEF IInv, RowsOK
  <1> QED
    BY <1>1, <1>4, <1>7, <1>8, <1>9, <1>10, SessionKeeps

\* The three ways to receive a request.
LEMMA ReceiveKeeps ==
  ASSUME IInv, NEW t \in Tx, ReceiveCreate(t) \/ ReceiveList(t) \/ ReceiveForConversation(t)
  PROVE  IInv'
  <1>1. CASE ReceiveCreate(t)
    <2>1. PICK i \in Item, c \in Conversation :
            status[c] = "absent" /\ ~Drawn(c) /\ Begin(t, "create", i, c)
      BY <1>1 DEF ReceiveCreate
    <2>2. pc[t] = "idle" /\ "create" \in Endpoint /\ c # None
      BY <1>1, ConversationsAssumption DEF ReceiveCreate, Endpoint
    <2> QED
      BY <2>1, <2>2, BeginKeeps
  <1>2. CASE ReceiveList(t)
    <2>1. PICK i \in Item : Begin(t, "list", i, None)
      BY <1>2 DEF ReceiveList
    <2>2. pc[t] = "idle" /\ "list" \in Endpoint
      BY <1>2 DEF ReceiveList, Endpoint
    <2> QED
      BY <2>1, <2>2, BeginKeeps
  <1>3. CASE ReceiveForConversation(t)
    <2>1. PICK op \in {"get", "message", "close"}, c \in Conversation :
            status[c] # "absent" /\ Begin(t, op, itemOf[c], c)
      BY <1>3 DEF ReceiveForConversation
    <2>2. pc[t] = "idle" /\ op \in Endpoint /\ c # None /\ itemOf[c] \in Item
      BY <1>3, <2>1, ConversationsAssumption DEF ReceiveForConversation, Endpoint, IInv,
         RowsOK
    <2> QED
      BY <2>1, <2>2, BeginKeeps
  <1> QED
    BY <1>1, <1>2, <1>3

\* A creator that has found nothing goes on to insert.
LEMMA FindNoneKeeps ==
  ASSUME IInv, NEW t \in Tx, FindNone(t)
  PROVE  IInv'
  <1>1. /\ pc[t] = "find" /\ OpenForItem(req[t].item) = {}
        /\ pc' = [pc EXCEPT ![t] = "insert"]
        /\ UNCHANGED <<clock, table, lock, req, view, write, ids, pending, published>>
    BY DEF FindNone, sessions
  <1>2. Types'
    BY <1>1 DEF IInv, Types, table
  <1>3. pc'[t] = "insert" /\ OpenForItem(req[t].item)' = {}
    BY <1>1 DEF IInv, Types, OpenForItem, table
  <1>4. SessionOK(t)'
    BY <1>1, <1>3
    DEF IInv, SessionOK, ShapeOK, LocksOK, TableOK, EventsOK, Asks, Creates, table
  <1>5. \A u \in Tx \ {t} : UNCHANGED Session(u)
    BY <1>1 DEF IInv, Types, Session
  <1> QED
    BY <1>1, <1>2, <1>3, <1>4, <1>5, SessionKeeps DEF IInv, RowsOK, Creates, Asks

\* An INSERT is recorded with its event.
LEMMA InsertKeeps ==
  ASSUME IInv, NEW t \in Tx, Insert(t)
  PROVE  IInv'
  <1>1. CASE OpenForItem(req[t].item) # {}
    BY <1>1, EndKeeps DEF Insert
  <1>2. CASE OpenForItem(req[t].item) = {}
    <2> DEFINE e == [type |-> "ConversationCreated", conversation |-> req[t].conversation]
    <2>1. /\ pc[t] = "insert"
          /\ write' = [write EXCEPT ![t] = [kind |-> "open", at |-> clock]]
          /\ pending' = [pending EXCEPT ![t] = @ \union {e}]
          /\ pc' = [pc EXCEPT ![t] = "commit"]
          /\ UNCHANGED <<clock, table, lock, req, view, ids, published>>
      BY <1>2 DEF Insert, Record
    <2>2. /\ [kind |-> "open", at |-> clock] \in Write
          /\ Creates(t) /\ req[t].conversation \in Conversation /\ pending[t] = {}
      BY <2>1 DEF IInv, Types, Write, SessionOK, ShapeOK, EventsOK
    <2>3. e \in Event
      BY <2>2 DEF Event
    <2>4. Types'
      BY <2>1, <2>2, <2>3 DEF IInv, Types, table
    <2>5. /\ pc'[t] = "commit" /\ write'[t] = [kind |-> "open", at |-> clock]
          /\ pending'[t] = {e} /\ OpenForItem(req[t].item)' = {} /\ write'[t] # None
      BY <1>2, <2>1, <2>2, ConversationsAssumption DEF IInv, Types, OpenForItem, table
    <2>6. SessionOK(t)'
      BY <2>1, <2>2, <2>5
      DEF IInv, SessionOK, ShapeOK, LocksOK, TableOK, EventsOK, Asks, Creates, table
    <2>7. \A u \in Tx \ {t} : UNCHANGED Session(u)
      BY <2>1 DEF IInv, Types, Session
    <2> QED
      BY <2>1, <2>4, <2>5, <2>6, <2>7, SessionKeeps DEF IInv, RowsOK, Creates, Asks
  <1> QED
    BY <1>1, <1>2

-----------------------------------------------------------------------------
(***************************************************************************)
(* Steps that lock a row, and what is decided under the lock               *)
(***************************************************************************)

\* Taking a free row leaves the rows of the others alone.
LEMMA Locked ==
  ASSUME Types, NEW t \in Tx, NEW row \in Row, Lock(t, row)
  PROVE  /\ lock' \in [Row -> Tx \union {None}]
         /\ lock'[row] = t
         /\ \A r \in Row : \A u \in Tx \ {t} : lock'[r] = u <=> lock[r] = u
  <1>1. lock[row] = None /\ lock' = [lock EXCEPT ![row] = t]
    BY DEF Lock
  <1>2. None \notin Tx
    BY ConversationsAssumption DEF Tx
  <1> QED
    BY <1>1, <1>2 DEF Types

\* The creator of a conversation locks the order item.
LEMMA LockItemKeeps ==
  ASSUME IInv, NEW t \in Tx, LockItem(t)
  PROVE  IInv'
  <1>1. /\ pc[t] = "lockItem" /\ Lock(t, ItemRow(req[t].item))
        /\ pc' = [pc EXCEPT ![t] = "find"]
        /\ UNCHANGED <<clock, table, req, view, write, ids, pending, published>>
    BY DEF LockItem, sessions
  <1>2. Creates(t) /\ ItemRow(req[t].item) \in Row
    BY <1>1, Asked, Rows DEF IInv, SessionOK, ShapeOK, Creates
  <1>3. /\ lock' \in [Row -> Tx \union {None}] /\ lock'[ItemRow(req[t].item)] = t
        /\ \A r \in Row : \A u \in Tx \ {t} : lock'[r] = u <=> lock[r] = u
    BY <1>1, <1>2, Locked DEF IInv
  <1>4. Types'
    BY <1>1, <1>3 DEF IInv, Types, table
  <1>5. pc'[t] = "find"
    BY <1>1 DEF IInv, Types
  <1>6. SessionOK(t)'
    BY <1>1, <1>2, <1>3, <1>5
    DEF IInv, SessionOK, ShapeOK, LocksOK, TableOK, EventsOK, Asks, Creates, table, ItemRow
  <1>7. \A u \in Tx \ {t} : UNCHANGED Session(u)
    BY <1>1 DEF IInv, Types, Session
  <1>8. EventsAreTrue' /\ \A b \in Batch : \A c \in ids'[b] : status[c] # "absent"
    BY <1>1 DEF IInv, RowsOK, EventsAreTrue, table
  <1>9. UNCHANGED <<clock, table>> /\ Creates(t)' => Creates(t)
    BY <1>1 DEF Creates, Asks
  <1> QED
    BY <1>1, <1>2, <1>3, <1>4, <1>5, <1>6, <1>7, <1>8, <1>9, QuietKeeps

\* A conversation that is not absent is loaded with the types of the table.
LEMMA LoadedType ==
  ASSUME Types, NEW c \in Conversation, status[c] # "absent"
  PROVE  /\ Loaded(c) \in LoadedRow
         /\ Loaded(c) # None
         /\ Loaded(c).status = status[c] /\ Loaded(c).last = last[c]
  <1>1. Loaded(c) \in LoadedRow
    BY DEF Types, Loaded, LoadedRow
  <1> QED
    BY <1>1, ConversationsAssumption DEF Loaded

\* The list has two outcomes.
LEMMA ReadListCases ==
  ASSUME NEW t, ReadList(t)
  PROVE  \/ End(t)
         \/ \E c \in OpenForItem(req[t].item) :
              /\ pc[t] = "read"
              /\ req' = [req EXCEPT ![t].conversation = c]
              /\ view' = [view EXCEPT ![t] = Loaded(c)]
              /\ pc' = [pc EXCEPT ![t] = "lock"]
              /\ UNCHANGED <<clock, table, lock, write, ids, pending, published>>
  BY DEF ReadList

\* The list remembers the row of the open conversation it has read.
LEMMA ReadListKeeps ==
  ASSUME IInv, NEW t \in Tx, ReadList(t)
  PROVE  IInv'
  <1>1. CASE End(t)
    BY <1>1, EndKeeps
  <1>2. ASSUME NEW c \in OpenForItem(req[t].item),
               pc[t] = "read",
               req' = [req EXCEPT ![t].conversation = c],
               view' = [view EXCEPT ![t] = Loaded(c)],
               pc' = [pc EXCEPT ![t] = "lock"],
               UNCHANGED <<clock, table, lock, write, ids, pending, published>>
        PROVE  IInv'
    <2>1. /\ Asks(t) /\ req[t] \in Request /\ req[t].op = "list"
          /\ write[t] = None /\ pending[t] = {}
      BY <1>2, Asked DEF IInv, SessionOK, ShapeOK, EventsOK
    <2>2. c \in Conversation /\ status[c] = "open"
      BY DEF OpenForItem
    <2>3. Loaded(c) \in LoadedRow /\ Loaded(c) # None
      BY <2>2, LoadedType DEF IInv
    <2>4. req'[t] = [req[t] EXCEPT !.conversation = c]
      BY <1>2 DEF IInv, Types
    <2>5. /\ [req[t] EXCEPT !.conversation = c] \in Request
          /\ req'[t].op = "list" /\ req'[t].conversation = c
      BY <2>1, <2>2, <2>4 DEF Request
    <2>6. req'[t] # None
      BY <2>4, <2>5, ConversationsAssumption
    <2>7. Types'
      BY <1>2, <2>3, <2>5 DEF IInv, Types, table
    <2>8. pc'[t] = "lock" /\ view'[t] = Loaded(c)
      BY <1>2 DEF IInv, Types
    <2>9. SessionOK(t)'
      <3>1. ShapeOK(t)'
        BY <1>2, <2>1, <2>2, <2>5, <2>6, <2>8 DEF ShapeOK, Asks, Creates
      <3>2. LocksOK(t)' /\ EventsOK(t)'
        BY <1>2, <2>1, <2>8 DEF LocksOK, EventsOK
      <3>3. TableOK(t)'
        BY <1>2, <2>2, <2>5, <2>8 DEF TableOK, Asks, Creates, table
      <3> QED
        BY <3>1, <3>2, <3>3 DEF SessionOK
    <2>10. \A u \in Tx \ {t} : UNCHANGED Session(u)
      BY <1>2 DEF IInv, Types, Session
    <2>11. ~Creates(t)'
      BY <2>5 DEF Creates
    <2>12. \A b \in Batch : \A d \in ids'[b] : status[d] # "absent"
      BY <1>2 DEF IInv, RowsOK
    <2> QED
      BY <1>2, <2>7, <2>9, <2>10, <2>11, <2>12, SessionKeeps
  <1> QED
    BY <1>1, <1>2, ReadListCases

\* A handler locks its conversation; the list keeps what it has read before.
LEMMA LockConversationKeeps ==
  ASSUME IInv, NEW t \in Tx, LockConversation(t)
  PROVE  IInv'
  <1> DEFINE c == req[t].conversation
             loaded == IF view[t] = None THEN Loaded(c) ELSE view[t]
  <1>1. /\ pc[t] = "lock" /\ Lock(t, ConversationRow(c))
        /\ view' = [view EXCEPT ![t] = loaded]
        /\ pc' = [pc EXCEPT ![t] = "handle"]
        /\ UNCHANGED <<clock, table, req, write, ids, pending, published>>
    BY DEF LockConversation
  <1>2. /\ Asks(t) /\ ~Creates(t) /\ c \in Conversation
        /\ write[t] = None /\ pending[t] = {}
        /\ view[t] # None => req[t].op = "list"
    BY <1>1 DEF IInv, SessionOK, ShapeOK, EventsOK
  <1>3. status[c] # "absent"
    BY <1>2, ConversationsAssumption DEF IInv, SessionOK, TableOK
  <1>4. loaded \in LoadedRow /\ loaded # None
    BY <1>2, <1>3, LoadedType, Asked DEF IInv
  <1>5. ConversationRow(c) \in Row
    BY <1>2, Rows
  <1>6. /\ lock' \in [Row -> Tx \union {None}] /\ lock'[ConversationRow(c)] = t
        /\ \A r \in Row : \A u \in Tx \ {t} : lock'[r] = u <=> lock[r] = u
    BY <1>1, <1>5, Locked DEF IInv
  <1>7. Types'
    BY <1>1, <1>4, <1>6 DEF IInv, Types, table
  <1>8. pc'[t] = "handle" /\ view'[t] = loaded
    BY <1>1 DEF IInv, Types
  <1>9. SessionOK(t)'
    <2>1. ShapeOK(t)'
      BY <1>1, <1>2, <1>4, <1>8 DEF ShapeOK, Asks, Creates
    <2>2. LocksOK(t)' /\ EventsOK(t)'
      BY <1>1, <1>2, <1>6, <1>8 DEF LocksOK, EventsOK, Creates, Asks, ConversationRow
    <2>3. req[t].op # "list" => loaded.status = status[c] /\ loaded.last = last[c]
      BY <1>2, <1>3, LoadedType DEF IInv
    <2>4. TableOK(t)'
      BY <1>1, <1>2, <1>3, <1>8, <2>3 DEF TableOK, Asks, Creates, table
    <2> QED
      BY <2>1, <2>2, <2>4 DEF SessionOK
  <1>10. \A u \in Tx \ {t} : UNCHANGED Session(u)
    BY <1>1 DEF IInv, Types, Session
  <1>11. EventsAreTrue' /\ \A b \in Batch : \A d \in ids'[b] : status[d] # "absent"
    BY <1>1 DEF IInv, RowsOK, EventsAreTrue, table
  <1>12. UNCHANGED <<clock, table>> /\ ~Creates(t)'
    BY <1>1, <1>2 DEF Creates, Asks
  <1> QED
    BY <1>6, <1>7, <1>8, <1>9, <1>10, <1>11, <1>12, QuietKeeps

\* A handler that writes: what it is about to commit, what it has recorded, the
\* row its session has afterwards, and where it goes on.
Writes(t, kind, events, loaded, to) ==
  /\ pc[t] = "handle" /\ view[t].status = "open"
  /\ kind = "inactivity" => IsInactive(view[t])
  /\ kind = "message" => req[t].op = "message"
  /\ \A e \in events :
       /\ e.conversation = req[t].conversation
       /\ e.type = "ConversationClosed" =>
            kind \in {"manual", "inactivity"} /\ e.closed_by = kind
  /\ to = "handle" => loaded.status = "closed" /\ kind = "inactivity"
  /\ view' = [view EXCEPT ![t] = loaded]
  /\ write' = [write EXCEPT ![t] = [kind |-> kind, at |-> clock]]
  /\ pending' = [pending EXCEPT ![t] = @ \union events]
  /\ pc' = [pc EXCEPT ![t] = to]
  /\ UNCHANGED <<clock, table, lock, req, ids, published>>

\* What a handler writes, with its events, is right for the commit.  What is
\* inactive in the session is inactive in the table, except for the list.
LEMMA WriteKeeps ==
  ASSUME IInv, NEW t \in Tx, NEW kind \in {"message", "manual", "inactivity"},
         NEW events \in SUBSET Event, NEW loaded \in LoadedRow,
         NEW to \in {"handle", "commit"}, Writes(t, kind, events, loaded, to)
  PROVE  IInv'
  <1> USE DEF Writes
  <1> DEFINE c == req[t].conversation
  <1>1. /\ Asks(t) /\ ~Creates(t) /\ c \in Conversation /\ write[t] = None /\ pending[t] = {}
        /\ view[t] # None
    BY DEF IInv, SessionOK, ShapeOK, EventsOK
  <1>2. [kind |-> kind, at |-> clock] \in Write
    BY DEF IInv, Types, Write
  <1>3. Types'
    BY <1>2 DEF IInv, Types, table
  <1>4. /\ pc'[t] = to /\ view'[t] = loaded /\ pending'[t] = events
        /\ write'[t] = [kind |-> kind, at |-> clock]
    BY <1>1 DEF IInv, Types
  <1>5. loaded # None /\ write'[t] # None
    BY <1>2, <1>4, ConversationsAssumption
  <1>6. SessionOK(t)'
    <2>1. ShapeOK(t)'
      BY <1>1, <1>4, <1>5 DEF ShapeOK, Asks, Creates
    <2>2. LocksOK(t)'
      BY <1>1, <1>4 DEF IInv, SessionOK, LocksOK, Asks, Creates, ConversationRow
    <2>3. EventsOK(t)'
      BY <1>4, <1>5 DEF EventsOK
    <2>4. status[c] # "absent"
      BY <1>1, ConversationsAssumption DEF IInv, SessionOK, TableOK
    <2>5. req[t].op # "list" => status[c] = "open" /\ last[c] = view[t].last
      BY DEF IInv, SessionOK, TableOK
    <2>6. req[t].op # "list" /\ kind = "inactivity" => last[c] <= clock - InactivityHours
      BY <2>5 DEF IsInactive
    <2>7. TableOK(t)'
      BY <1>1, <1>4, <2>4, <2>5, <2>6 DEF TableOK, Asks, Creates, table
    <2> QED
      BY <2>1, <2>2, <2>3, <2>7 DEF SessionOK
  <1>7. \A u \in Tx \ {t} : UNCHANGED Session(u)
    BY DEF IInv, Types, Session
  <1>8. ~Creates(t)'
    BY <1>1 DEF Creates, Asks
  <1>9. \A b \in Batch : \A d \in ids'[b] : status[d] # "absent"
    BY DEF IInv, RowsOK
  <1> QED
    BY <1>3, <1>4, <1>6, <1>7, <1>8, <1>9, SessionKeeps

\* The lazy closure, a message, and a closure by the seller.
LEMMA HandleKeeps ==
  ASSUME IInv, NEW t \in Tx, CloseForInactivity(t) \/ AddMessage(t) \/ CloseBySeller(t)
  PROVE  IInv'
  <1> DEFINE c == req[t].conversation
  <1>1. pc[t] = "handle" /\ view[t] \in LoadedRow /\ c \in Conversation
    BY Asked DEF CloseForInactivity, AddMessage, CloseBySeller, IInv, SessionOK, ShapeOK
  <1>2. CASE CloseForInactivity(t)
    <2> DEFINE events == {[type |-> "MessageCreated", conversation |-> c],
                          [type |-> "ConversationClosed", conversation |-> c,
                           closed_by |-> "inactivity"]}
               to == IF req[t].op \in {"message", "close"} THEN "handle" ELSE "commit"
               loaded == [view[t] EXCEPT !.status = "closed"]
    <2>1. /\ IsInactive(view[t])
          /\ view' = [view EXCEPT ![t].status = "closed"]
          /\ write' = [write EXCEPT ![t] = [kind |-> "inactivity", at |-> clock]]
          /\ pending' = [pending EXCEPT ![t] = @ \union events]
          /\ pc' = [pc EXCEPT ![t] = to]
          /\ UNCHANGED <<clock, table, lock, req, ids, published>>
      BY <1>2 DEF CloseForInactivity, Record
    <2>2. events \in SUBSET Event
      BY <1>1 DEF Event
    <2>3. loaded \in LoadedRow /\ loaded.status = "closed" /\ to \in {"handle", "commit"}
      BY <1>1 DEF LoadedRow
    <2>4. view' = [view EXCEPT ![t] = loaded]
      BY <2>1
    <2>5. view[t].status = "open"
      BY <2>1 DEF IsInactive
    <2>6. \A e \in events :
            /\ e.conversation = c
            /\ e.type = "ConversationClosed" => e.closed_by = "inactivity"
      OBVIOUS
    <2> HIDE DEF events, to, loaded
    <2>7. Writes(t, "inactivity", events, loaded, to)
      BY <1>1, <2>1, <2>3, <2>4, <2>5, <2>6 DEF Writes
    <2> QED
      BY <2>2, <2>3, <2>7, WriteKeeps
  <1>3. CASE AddMessage(t)
    <2> DEFINE events == {[type |-> "MessageCreated", conversation |-> c]}
    <2>1. /\ req[t].op = "message" /\ view[t].status = "open"
          /\ write' = [write EXCEPT ![t] = [kind |-> "message", at |-> clock]]
          /\ pending' = [pending EXCEPT ![t] = @ \union events]
          /\ pc' = [pc EXCEPT ![t] = "commit"]
          /\ UNCHANGED <<clock, table, lock, req, view, ids, published>>
      BY <1>3 DEF AddMessage, Record
    <2>2. events \in SUBSET Event
      BY <1>1 DEF Event
    <2>3. view' = [view EXCEPT ![t] = view[t]]
      BY <2>1 DEF IInv, Types
    <2>4. \A e \in events : e.conversation = c /\ e.type # "ConversationClosed"
      OBVIOUS
    <2> HIDE DEF events
    <2>5. Writes(t, "message", events, view[t], "commit")
      BY <1>1, <2>1, <2>3, <2>4 DEF Writes
    <2> QED
      BY <1>1, <2>2, <2>5, WriteKeeps
  <1>4. CASE CloseBySeller(t)
    <2> DEFINE events == {[type |-> "ConversationClosed", conversation |-> c,
                           closed_by |-> "manual"]}
    <2>1. /\ view[t].status = "open"
          /\ write' = [write EXCEPT ![t] = [kind |-> "manual", at |-> clock]]
          /\ pending' = [pending EXCEPT ![t] = @ \union events]
          /\ pc' = [pc EXCEPT ![t] = "commit"]
          /\ UNCHANGED <<clock, table, lock, req, view, ids, published>>
      BY <1>4 DEF CloseBySeller, Record
    <2>2. events \in SUBSET Event
      BY <1>1 DEF Event
    <2>3. view' = [view EXCEPT ![t] = view[t]]
      BY <2>1 DEF IInv, Types
    <2>4. \A e \in events : e.conversation = c /\ e.closed_by = "manual"
      OBVIOUS
    <2> HIDE DEF events
    <2>5. Writes(t, "manual", events, view[t], "commit")
      BY <1>1, <2>1, <2>3, <2>4 DEF Writes
    <2> QED
      BY <1>1, <2>2, <2>5, WriteKeeps
  <1> QED
    BY <1>2, <1>3, <1>4

-----------------------------------------------------------------------------
(***************************************************************************)
(* The batch                                                               *)
(***************************************************************************)

\* A scan finds conversations that exist.
LEMMA ScanKeeps ==
  ASSUME IInv, NEW b \in Batch, Scan(b)
  PROVE  IInv'
  <1>0. b \in Tx
    BY DEF Tx
  <1>1. /\ pc[b] = "idle" /\ ids' = [ids EXCEPT ![b] = EligibleIds]
        /\ pc' = [pc EXCEPT ![b] = "next"]
        /\ UNCHANGED <<clock, table, lock, req, view, write, pending, published>>
    BY DEF Scan, sessions
  <1>2. EligibleIds \subseteq Conversation /\ \A c \in EligibleIds : status[c] # "absent"
    BY DEF EligibleIds, IsInactive, Loaded
  <1>3. Types'
    BY <1>1, <1>2 DEF IInv, Types, table
  <1>4. pc'[b] = "next"
    BY <1>0, <1>1 DEF IInv, Types
  <1>5. SessionOK(b)'
    BY <1>0, <1>1, <1>4
    DEF IInv, SessionOK, ShapeOK, LocksOK, TableOK, EventsOK, Asks, Creates
  <1>6. \A u \in Tx \ {b} : UNCHANGED Session(u)
    BY <1>1 DEF IInv, Types, Session
  <1>7. \A a \in Batch : \A c \in ids'[a] : status[c] # "absent"
    BY <1>1, <1>2 DEF IInv, Types, RowsOK
  <1>8. ~Creates(b)'
    BY <1>0, <1>1 DEF IInv, SessionOK, ShapeOK, Creates, Asks
  <1> QED
    BY <1>0, <1>1, <1>3, <1>5, <1>6, <1>7, <1>8, SessionKeeps

\* A row that is locked is left out.
LEMMA SkipLockedKeeps ==
  ASSUME IInv, NEW b \in Batch, SkipLocked(b)
  PROVE  IInv'
  <1>0. b \in Tx
    BY DEF Tx
  <1>1. PICK c \in Conversation, to \in {"idle", "next"} :
          /\ pc[b] = "next" /\ ids' = [ids EXCEPT ![b] = @ \ {c}]
          /\ pc' = [pc EXCEPT ![b] = to]
          /\ UNCHANGED <<clock, table, lock, req, view, write, pending, published>>
    BY DEF SkipLocked, TakeNext, sessions
  <1>2. Types'
    BY <1>1 DEF IInv, Types, table
  <1>3. pc'[b] = to
    BY <1>0, <1>1 DEF IInv, Types
  <1>4. SessionOK(b)'
    BY <1>0, <1>1, <1>3
    DEF IInv, SessionOK, ShapeOK, LocksOK, TableOK, EventsOK, Asks, Creates
  <1>5. \A u \in Tx \ {b} : UNCHANGED Session(u)
    BY <1>1 DEF IInv, Types, Session
  <1>6. \A a \in Batch : \A d \in ids'[a] : status[d] # "absent"
    BY <1>1 DEF IInv, Types, RowsOK
  <1>7. ~Creates(b)'
    BY <1>0, <1>1 DEF IInv, SessionOK, ShapeOK, Creates, Asks
  <1> QED
    BY <1>0, <1>1, <1>2, <1>4, <1>5, <1>6, <1>7, SessionKeeps

\* A row that is free is locked and loaded in one statement.
LEMMA LockNextKeeps ==
  ASSUME IInv, NEW b \in Batch, LockNext(b)
  PROVE  IInv'
  <1>0. b \in Tx
    BY DEF Tx
  <1>1. PICK c \in Conversation :
          /\ pc[b] = "next" /\ c \in ids[b] /\ ids' = [ids EXCEPT ![b] = @ \ {c}]
          /\ Lock(b, ConversationRow(c))
          /\ req' = [req EXCEPT ![b] = [op |-> "batch", item |-> itemOf[c], conversation |-> c]]
          /\ view' = [view EXCEPT ![b] = Loaded(c)]
          /\ pc' = [pc EXCEPT ![b] = "handle"]
          /\ UNCHANGED <<clock, table, write, pending, published>>
    BY DEF LockNext, TakeNext
  <1>2. status[c] # "absent" /\ itemOf[c] \in Item
    BY <1>1 DEF IInv, RowsOK
  <1>3. [op |-> "batch", item |-> itemOf[c], conversation |-> c] \in Request
    BY <1>2 DEF Request
  <1>4. /\ Loaded(c) \in LoadedRow /\ Loaded(c) # None
        /\ Loaded(c).status = status[c] /\ Loaded(c).last = last[c]
    BY <1>2, LoadedType DEF IInv
  <1>5. /\ lock' \in [Row -> Tx \union {None}] /\ lock'[ConversationRow(c)] = b
        /\ \A r \in Row : \A u \in Tx \ {b} : lock'[r] = u <=> lock[r] = u
    BY <1>0, <1>1, Rows, Locked DEF IInv
  <1>6. Types'
    BY <1>1, <1>3, <1>4, <1>5 DEF IInv, Types, table
  <1>7. /\ pc'[b] = "handle" /\ view'[b] = Loaded(c) /\ req'[b] # None
        /\ req'[b] = [op |-> "batch", item |-> itemOf[c], conversation |-> c]
    BY <1>0, <1>1, <1>3, ConversationsAssumption DEF IInv, Types
  <1>8. write[b] = None /\ pending[b] = {}
    BY <1>0, <1>1 DEF IInv, SessionOK, ShapeOK, EventsOK
  <1>9. SessionOK(b)'
    <2>1. ShapeOK(b)'
      BY <1>1, <1>4, <1>7, <1>8 DEF ShapeOK, Asks, Creates
    <2>2. LocksOK(b)' /\ EventsOK(b)'
      BY <1>1, <1>5, <1>7, <1>8 DEF LocksOK, EventsOK, Creates, Asks, ConversationRow
    <2>3. TableOK(b)'
      BY <1>1, <1>2, <1>4, <1>7 DEF TableOK, Asks, Creates, table
    <2> QED
      BY <2>1, <2>2, <2>3 DEF SessionOK
  <1>10. \A u \in Tx \ {b} : UNCHANGED Session(u)
    BY <1>1 DEF IInv, Types, Session
  <1>11. EventsAreTrue' /\ \A a \in Batch : \A d \in ids'[a] : status[d] # "absent"
    <2>1. EventsAreTrue'
      BY <1>1 DEF IInv, EventsAreTrue, table
    <2>2. \A a \in Batch : ids'[a] \subseteq ids[a]
      BY <1>1 DEF IInv, Types
    <2> QED
      BY <2>1, <2>2 DEF IInv, RowsOK
  <1>12. UNCHANGED <<clock, table>> /\ ~Creates(b)'
    BY <1>1, <1>7 DEF Creates
  <1> QED
    BY <1>0, <1>5, <1>6, <1>7, <1>9, <1>10, <1>11, <1>12, QuietKeeps

-----------------------------------------------------------------------------
(***************************************************************************)
(* Commits                                                                 *)
(***************************************************************************)

\* A sequence stays one of its kind when an element of the kind is appended.
LEMMA AppendType ==
  ASSUME NEW S, NEW s \in Seq(S), NEW e \in S
  PROVE  Append(s, e) \in Seq(S)
  OBVIOUS

\* Nothing is deleted: conversations stay, and closures are only added.
Grows ==
  /\ \A d \in Conversation : status[d] # "absent" => status'[d] # "absent"
  /\ \A d \in Conversation : \A n \in 1 .. Len(closures[d]) :
       n \in 1 .. Len(closures'[d]) /\ closures'[d][n] = closures[d][n]

\* So what has come true of an event stays true.
LEMMA TrueStays ==
  ASSUME Grows, NEW e \in Event, True(e)
  PROVE  True(e)'
  <1>1. e.conversation \in Conversation
    BY DEF Event
  <1> QED
    BY <1>1 DEF True, Grows

\* The conversation a transaction commits is nobody else's: its creator is the
\* only one that drew it, and everybody else holds its row.
LEMMA CommitsAlone ==
  ASSUME IInv, NEW t \in Tx, NEW u \in Tx \ {t}, pc[t] = "commit"
  PROVE  /\ Creates(u) => req[u].conversation # req[t].conversation
         /\ pc[u] \in {"handle", "commit"} /\ ~Creates(u) =>
              req[u].conversation # req[t].conversation
  <1> DEFINE c == req[t].conversation
  <1>1. Asks(t) /\ c \in Conversation /\ c # None
    BY ConversationsAssumption DEF IInv, SessionOK, ShapeOK
  <1>2. CASE Creates(t)
    <2>1. status[c] = "absent"
      BY <1>2 DEF IInv, SessionOK, TableOK
    <2>2. Creates(u) => req[u].conversation # c
      BY <1>2 DEF IInv, Distinct
    <2>3. pc[u] \in {"handle", "commit"} /\ ~Creates(u) => req[u].conversation # c
      BY <1>1, <2>1 DEF IInv, SessionOK, ShapeOK, TableOK
    <2> QED
      BY <2>2, <2>3
  <1>3. CASE ~Creates(t)
    <2>1. status[c] # "absent" /\ lock[ConversationRow(c)] = t
      BY <1>1, <1>3 DEF IInv, SessionOK, TableOK, LocksOK
    <2>2. Creates(u) => req[u].conversation # c
      BY <2>1 DEF IInv, SessionOK, TableOK
    <2>3. pc[u] \in {"handle", "commit"} /\ ~Creates(u) => req[u].conversation # c
      BY <2>1 DEF IInv, SessionOK, LocksOK
    <2> QED
      BY <2>2, <2>3
  <1> QED
    BY <1>2, <1>3

\* A session that is left alone keeps what it knows when another one commits
\* a conversation that is not its own.
LEMMA CommitFrame ==
  ASSUME IInv, Types', NEW t \in Tx, NEW u \in Tx \ {t}, pc[t] = "commit",
         UNCHANGED Session(u), UNCHANGED clock, Grows,
         \A row \in Row : lock[row] = u => lock'[row] = u,
         \A d \in Conversation \ {req[t].conversation} :
           UNCHANGED <<itemOf[d], status[d], last[d], closures[d]>>,
         pc[u] = "insert" \/ (pc[u] = "commit" /\ Creates(u)) =>
           OpenForItem(req[u].item)' = {}
  PROVE  SessionOK(u)'
  <1> DEFINE c == req[t].conversation
             d == req[u].conversation
  <1>1. /\ Creates(u) => d # c
        /\ pc[u] \in {"handle", "commit"} /\ ~Creates(u) => d # c
    BY CommitsAlone
  <1>2. ShapeOK(u)'
    BY DEF IInv, SessionOK, ShapeOK, Session, Asks, Creates
  <1>3. LocksOK(u)'
    <2>1. pc[u] \in {"find", "insert"} \/ (pc[u] = "commit" /\ Creates(u)) =>
            ItemRow(req[u].item) \in Row
      BY Rows, Asked DEF IInv, SessionOK, ShapeOK, Creates
    <2>2. pc[u] = "handle" \/ (pc[u] = "commit" /\ ~Creates(u)) => ConversationRow(d) \in Row
      BY Rows DEF IInv, SessionOK, ShapeOK
    <2> QED
      BY <2>1, <2>2
      DEF IInv, SessionOK, LocksOK, Session, Asks, Creates, ItemRow, ConversationRow
  <1>4. TableOK(u)'
    <2>1. Creates(u) => d \in Conversation /\ status'[d] = "absent"
      BY <1>1 DEF IInv, SessionOK, ShapeOK, TableOK
    <2>2. Asks(u) /\ ~Creates(u) /\ d # None => status'[d] # "absent"
      <3>1. Asks(u) /\ d # None => d \in Conversation
        BY Asked DEF IInv, Request
      <3> QED
        BY <3>1 DEF IInv, SessionOK, TableOK, Grows
    <2>3. pc[u] = "handle" /\ req[u].op # "list" /\ view[u].status = "open" =>
            status'[d] = "open" /\ last'[d] = view[u].last
      BY <1>1 DEF IInv, SessionOK, ShapeOK, TableOK
    <2>4. pc[u] = "commit" /\ ~Creates(u) /\ req[u].op # "list" =>
            /\ status'[d] = "open"
            /\ write[u].kind = "inactivity" => last'[d] <= clock - InactivityHours
      BY <1>1 DEF IInv, SessionOK, ShapeOK, TableOK
    <2> QED
      BY <2>1, <2>2, <2>3, <2>4 DEF TableOK, Session, Asks, Creates
  <1>5. EventsOK(u)'
    <2>1. pc[u] = "publish" => \A e \in pending[u] : True(e)'
      BY TrueStays DEF IInv, Types, SessionOK, EventsOK
    <2> QED
      BY <2>1 DEF IInv, SessionOK, EventsOK, Session
  <1> QED
    BY <1>2, <1>3, <1>4, <1>5 DEF SessionOK

\* What remains for each of the three commits: what it writes has the types of
\* the table, its events come true, and it opens no second conversation.
LEMMA CommitKeeps ==
  ASSUME IInv, NEW t \in Tx, pc[t] = "commit", Committed(t), Grows,
         itemOf' \in [Conversation -> Item \union {None}],
         status' \in [Conversation -> {"absent", "open", "closed"}],
         last' \in [Conversation -> 0 .. MaxTime],
         messages' \in
           [Conversation -> Seq([author : {"participant", "system"}, at : 0 .. MaxTime])],
         closures' \in [Conversation -> Seq({"manual", "inactivity"})],
         \A d \in Conversation \ {req[t].conversation} :
           UNCHANGED <<itemOf[d], status[d], last[d], closures[d]>>,
         \A u \in Tx \ {t} : pc[u] = "insert" \/ (pc[u] = "commit" /\ Creates(u)) =>
           OpenForItem(req[u].item)' = {},
         \A e \in pending[t] : True(e)',
         itemOf'[req[t].conversation] \in Item,
         \A i \in Item : \A c, d \in OpenForItem(i)' : c = d
  PROVE  IInv'
  <1>1. /\ CloseSession(t) /\ pc' = [pc EXCEPT ![t] = "publish"]
        /\ UNCHANGED <<clock, ids, pending, published>>
    BY DEF Committed
  <1>2. Types'
    BY <1>1, Closed DEF IInv, Types
  <1>3. /\ req'[t] = None /\ view'[t] = None /\ write'[t] = None
        /\ pc'[t] = "publish" /\ pending'[t] = pending[t]
    BY <1>1, Closed DEF IInv, Types
  <1>4. SessionOK(t)'
    BY <1>3 DEF SessionOK, ShapeOK, LocksOK, TableOK, EventsOK, Asks, Creates
  <1>5. \A u \in Tx \ {t} : UNCHANGED Session(u)
    BY ZenonT(60), <1>1, Closed DEF IInv, Types, Session
  <1>6. /\ \A row \in Row : lock'[row] # t
        /\ \A row \in Row : \A u \in Tx \ {t} : lock'[row] = u <=> lock[row] = u
    BY <1>1, Closed DEF IInv
  <1>7. \A u \in Tx \ {t} : SessionOK(u)'
    BY <1>1, <1>2, <1>5, <1>6, CommitFrame
  <1>8. LockHolders'
    <2> SUFFICES ASSUME NEW row \in Row, lock'[row] # None
                 PROVE  pc'[lock'[row]] \in {"find", "insert", "handle", "commit"}
      BY DEF LockHolders
    <2>1. lock'[row] \in Tx \ {t}
      BY <1>2, <1>6 DEF Types
    <2> QED
      BY ZenonT(60), <1>5, <1>6, <2>1 DEF IInv, LockHolders, Session
  <1>9. Distinct'
    <2>1. ~Creates(t)'
      BY <1>3 DEF Creates, Asks
    <2>2. \A u \in Tx \ {t} : (Creates(u)' <=> Creates(u)) /\ req'[u] = req[u]
      BY <1>5 DEF Session, Creates, Asks
    <2> QED
      BY <2>1, <2>2 DEF IInv, Distinct
  <1>10. RowsOK'
    <2>1. \A c \in Conversation : status'[c] # "absent" => itemOf'[c] \in Item
      BY DEF IInv, RowsOK
    <2>2. \A b \in Batch : \A c \in ids'[b] : status'[c] # "absent"
      BY <1>1 DEF IInv, RowsOK, Types, Grows
    <2> QED
      BY <2>1, <2>2 DEF RowsOK
  <1>11. EventsAreTrue'
    <2>1. \A e \in published : True(e)'
      BY TrueStays DEF IInv, Types, EventsAreTrue, True
    <2> QED
      BY <1>1, <2>1 DEF EventsAreTrue, True
  <1> QED
    BY <1>2, <1>4, <1>7, <1>8, <1>9, <1>10, <1>11 DEF IInv

\* A conversation is opened: its item is locked, so no one else is opening one.
LEMMA CommitOpenKeeps ==
  ASSUME IInv, NEW t \in Tx, CommitOpen(t)
  PROVE  IInv'
  <1> DEFINE c == req[t].conversation
             i == req[t].item
  <1>1. /\ pc[t] = "commit" /\ write[t].kind = "open"
        /\ itemOf' = [itemOf EXCEPT ![c] = i]
        /\ status' = [status EXCEPT ![c] = "open"]
        /\ last' = [last EXCEPT ![c] = write[t].at]
        /\ UNCHANGED <<messages, closures>>
        /\ Committed(t)
    BY DEF CommitOpen
  <1>2. Creates(t) /\ c \in Conversation /\ write[t] \in Write /\ i \in Item
    BY <1>1, Asked DEF IInv, SessionOK, ShapeOK
  <1>3. OpenForItem(i) = {} /\ lock[ItemRow(i)] = t
    BY <1>1, <1>2 DEF IInv, SessionOK, TableOK, LocksOK
  <1>4. /\ itemOf' \in [Conversation -> Item \union {None}]
        /\ status' \in [Conversation -> {"absent", "open", "closed"}]
        /\ last' \in [Conversation -> 0 .. MaxTime]
        /\ messages' \in
             [Conversation -> Seq([author : {"participant", "system"}, at : 0 .. MaxTime])]
        /\ closures' \in [Conversation -> Seq({"manual", "inactivity"})]
    BY <1>1, <1>2 DEF IInv, Types, Write
  <1>5. \A d \in Conversation \ {c} :
          UNCHANGED <<itemOf[d], status[d], last[d], closures[d]>>
    BY <1>1 DEF IInv, Types
  <1>6. itemOf'[c] = i /\ status'[c] = "open"
    BY <1>1, <1>2 DEF IInv, Types
  <1>7. Grows
    BY <1>1, <1>5, <1>6 DEF Grows
  <1>8. \A j \in Item : \A d \in OpenForItem(j)' :
          IF j = i THEN d = c ELSE d \in OpenForItem(j)
    BY <1>2, <1>3, <1>5, <1>6 DEF OpenForItem
  <1>9. ASSUME NEW u \in Tx \ {t}, pc[u] = "insert" \/ (pc[u] = "commit" /\ Creates(u))
        PROVE  OpenForItem(req[u].item)' = {}
    <2>1. req[u].item \in Item /\ OpenForItem(req[u].item) = {}
      BY <1>9, Asked DEF IInv, SessionOK, ShapeOK, TableOK, Creates
    <2>2. lock[ItemRow(req[u].item)] = u
      BY <1>9 DEF IInv, SessionOK, LocksOK
    <2>3. (req[u].item)' = req[u].item
      BY <1>1, <1>9, Closed DEF IInv, Committed
    <2>4. OpenForItem(req[u].item)' = {e \in Conversation : itemOf'[e] = req[u].item /\ status'[e] = "open"}
      BY <2>3 DEF OpenForItem
    <2> QED
      BY <1>3, <1>5, <1>6, <2>1, <2>2, <2>4 DEF OpenForItem
  <1>10. \A e \in pending[t] : True(e)'
    BY <1>1, <1>6 DEF IInv, SessionOK, EventsOK, True
  <1>11. \A j \in Item : \A a, d \in OpenForItem(j)' : a = d
    BY <1>8 DEF IInv, RowsOK
  <1> QED
    BY <1>1, <1>2, <1>4, <1>5, <1>6, <1>7, <1>9, <1>10, <1>11, CommitKeeps

\* Whoever else commits has the row of a conversation that exists.
LEMMA OfExisting ==
  ASSUME IInv, NEW t \in Tx, pc[t] = "commit", write[t].kind # "open"
  PROVE  /\ req[t].conversation \in Conversation /\ write[t] \in Write /\ ~Creates(t)
         /\ status[req[t].conversation] # "absent"
         /\ itemOf[req[t].conversation] \in Item
  <1>1. /\ req[t].conversation \in Conversation /\ write[t] \in Write
        /\ Asks(t) /\ ~Creates(t)
    BY Asked DEF IInv, SessionOK, ShapeOK
  <1>2. status[req[t].conversation] # "absent"
    BY <1>1, ConversationsAssumption DEF IInv, SessionOK, TableOK
  <1> QED
    BY <1>1, <1>2 DEF IInv, RowsOK

\* A message of a participant is added.
LEMMA CommitMessageKeeps ==
  ASSUME IInv, NEW t \in Tx, CommitMessage(t)
  PROVE  IInv'
  <1> DEFINE c == req[t].conversation
             m == Message("participant", write[t].at)
  <1>1. /\ pc[t] = "commit" /\ write[t].kind = "message"
        /\ messages' = [messages EXCEPT ![c] = Append(@, m)]
        /\ last' = [last EXCEPT ![c] = write[t].at]
        /\ UNCHANGED <<itemOf, status, closures>>
        /\ Committed(t)
    BY DEF CommitMessage
  <1>2. c \in Conversation /\ write[t] \in Write /\ status[c] # "absent" /\ itemOf[c] \in Item
    BY <1>1, OfExisting
  <1>3. m \in [author : {"participant", "system"}, at : 0 .. MaxTime]
    BY <1>2 DEF Message, Write
  <1>4. Append(messages[c], m) \in Seq([author : {"participant", "system"}, at : 0 .. MaxTime])
    <2>1. messages[c] \in Seq([author : {"participant", "system"}, at : 0 .. MaxTime])
      BY <1>2 DEF IInv, Types
    <2> QED
      BY <1>3, <2>1, AppendType
  <1>5. /\ itemOf' \in [Conversation -> Item \union {None}]
        /\ status' \in [Conversation -> {"absent", "open", "closed"}]
        /\ last' \in [Conversation -> 0 .. MaxTime]
        /\ messages' \in
             [Conversation -> Seq([author : {"participant", "system"}, at : 0 .. MaxTime])]
        /\ closures' \in [Conversation -> Seq({"manual", "inactivity"})]
    BY <1>1, <1>2, <1>4 DEF IInv, Types, Write
  <1>6. \A d \in Conversation \ {c} :
          UNCHANGED <<itemOf[d], status[d], last[d], closures[d]>>
    BY <1>1 DEF IInv, Types
  <1>7. Grows
    BY <1>1 DEF Grows
  <1>8. /\ \A u \in Tx \ {t} : pc[u] = "insert" \/ (pc[u] = "commit" /\ Creates(u)) =>
             OpenForItem(req[u].item)' = {}
        /\ \A i \in Item : \A a, d \in OpenForItem(i)' : a = d
    <2>1. \A u \in Tx \ {t} : req'[u] = req[u]
      BY <1>1, Closed DEF IInv, Committed
    <2> QED
      BY <1>1, <2>1 DEF IInv, SessionOK, TableOK, RowsOK, OpenForItem
  <1>9. \A e \in pending[t] : True(e)'
    <2>1. \A e \in pending[t] : e.conversation = c /\ e.type # "ConversationClosed"
      BY <1>1 DEF IInv, SessionOK, EventsOK
    <2> QED
      BY <1>1, <1>2, <2>1 DEF True
  <1> QED
    BY <1>1, <1>2, <1>5, <1>6, <1>7, <1>8, <1>9, CommitKeeps

\* A closure writes a message of the system only if it is for inactivity.
LEMMA CommitClosureCases ==
  ASSUME NEW t, CommitClosure(t)
  PROVE  /\ pc[t] = "commit" /\ write[t].kind \in {"manual", "inactivity"}
         /\ status' = [status EXCEPT ![req[t].conversation] = "closed"]
         /\ closures' = [closures EXCEPT ![req[t].conversation] = Append(@, write[t].kind)]
         /\ \/ UNCHANGED <<messages, last>>
            \/ /\ messages' = [messages EXCEPT ![req[t].conversation] =
                                 Append(@, Message("system", write[t].at))]
               /\ last' = [last EXCEPT ![req[t].conversation] = write[t].at]
         /\ UNCHANGED itemOf
         /\ Committed(t)
  BY DEF CommitClosure

\* A closure is added.
LEMMA CommitClosureKeeps ==
  ASSUME IInv, NEW t \in Tx, CommitClosure(t)
  PROVE  IInv'
  <1> DEFINE c == req[t].conversation
             by == write[t].kind
             m == Message("system", write[t].at)
  <1>1. /\ pc[t] = "commit" /\ by \in {"manual", "inactivity"}
        /\ status' = [status EXCEPT ![c] = "closed"]
        /\ closures' = [closures EXCEPT ![c] = Append(@, by)]
        /\ \/ UNCHANGED <<messages, last>>
           \/ /\ messages' = [messages EXCEPT ![c] = Append(@, m)]
              /\ last' = [last EXCEPT ![c] = write[t].at]
        /\ UNCHANGED itemOf
        /\ Committed(t)
    BY CommitClosureCases
  <1>2. c \in Conversation /\ write[t] \in Write /\ status[c] # "absent" /\ itemOf[c] \in Item
    BY <1>1, OfExisting
  <1>3. m \in [author : {"participant", "system"}, at : 0 .. MaxTime]
    BY <1>2 DEF Message, Write
  <1>4. /\ Append(messages[c], m) \in Seq([author : {"participant", "system"}, at : 0 .. MaxTime])
        /\ Append(closures[c], by) \in Seq({"manual", "inactivity"})
    <2>1. /\ messages[c] \in Seq([author : {"participant", "system"}, at : 0 .. MaxTime])
          /\ closures[c] \in Seq({"manual", "inactivity"})
      BY <1>2 DEF IInv, Types
    <2> QED
      BY <1>1, <1>3, <2>1, AppendType
  <1>5. /\ itemOf' \in [Conversation -> Item \union {None}]
        /\ status' \in [Conversation -> {"absent", "open", "closed"}]
        /\ last' \in [Conversation -> 0 .. MaxTime]
        /\ messages' \in
             [Conversation -> Seq([author : {"participant", "system"}, at : 0 .. MaxTime])]
        /\ closures' \in [Conversation -> Seq({"manual", "inactivity"})]
    <2>1. /\ itemOf' \in [Conversation -> Item \union {None}]
          /\ status' \in [Conversation -> {"absent", "open", "closed"}]
      BY <1>1 DEF IInv, Types
    <2>2. last' \in [Conversation -> 0 .. MaxTime]
      BY <1>1, <1>2 DEF IInv, Types, Write
    <2>3. messages' \in
            [Conversation -> Seq([author : {"participant", "system"}, at : 0 .. MaxTime])]
      BY <1>1, <1>4 DEF IInv, Types
    <2>4. closures' \in [Conversation -> Seq({"manual", "inactivity"})]
      BY <1>1, <1>4 DEF IInv, Types
    <2> QED
      BY <2>1, <2>2, <2>3, <2>4
  <1>6. \A d \in Conversation \ {c} :
          UNCHANGED <<itemOf[d], status[d], last[d], closures[d]>>
    BY <1>1 DEF IInv, Types
  <1>7. /\ closures'[c] = Append(closures[c], by) /\ status'[c] = "closed"
        /\ closures[c] \in Seq({"manual", "inactivity"})
    BY <1>1, <1>2 DEF IInv, Types
  <1>8. /\ Len(closures'[c]) = Len(closures[c]) + 1 /\ Len(closures[c]) \in Nat
        /\ closures'[c][Len(closures[c]) + 1] = by
        /\ \A n \in 1 .. Len(closures[c]) : closures'[c][n] = closures[c][n]
    BY <1>7
  <1>9. Grows
    <2>1. \A d \in Conversation : \A n \in 1 .. Len(closures[d]) :
            n \in 1 .. Len(closures'[d]) /\ closures'[d][n] = closures[d][n]
      <3>1. ASSUME NEW d \in Conversation, NEW n \in 1 .. Len(closures[d])
            PROVE  n \in 1 .. Len(closures'[d]) /\ closures'[d][n] = closures[d][n]
        <4>1. CASE d = c
          BY <1>8, <4>1
        <4>2. CASE d # c
          BY <1>6, <4>2
        <4> QED
          BY <4>1, <4>2
      <3> QED
        BY <3>1
    <2>2. \A d \in Conversation : status[d] # "absent" => status'[d] # "absent"
      BY <1>6, <1>7
    <2> QED
      BY <2>1, <2>2 DEF Grows
  <1>10. \A i \in Item : OpenForItem(i)' \subseteq OpenForItem(i)
    BY <1>6, <1>7 DEF OpenForItem
  <1>11. ASSUME NEW u \in Tx \ {t}, pc[u] = "insert" \/ (pc[u] = "commit" /\ Creates(u))
         PROVE  OpenForItem(req[u].item)' = {}
    <2>1. req[u].item \in Item /\ OpenForItem(req[u].item) = {}
      BY <1>11, Asked DEF IInv, SessionOK, ShapeOK, TableOK, Creates
    <2>2. req'[u] = req[u]
      BY <1>1, <1>11, Closed DEF IInv, Committed
    <2> QED
      BY <1>6, <1>7, <2>1, <2>2 DEF OpenForItem
  <1>12. \A i \in Item : \A a, d \in OpenForItem(i)' : a = d
    BY <1>10 DEF IInv, RowsOK
  <1>13. \A e \in pending[t] : True(e)'
    <2>1. \A e \in pending[t] :
            e.conversation = c /\ (e.type = "ConversationClosed" => e.closed_by = by)
      BY <1>1 DEF IInv, SessionOK, EventsOK
    <2>2. Len(closures[c]) + 1 \in 1 .. Len(closures'[c])
      BY <1>8
    <2> QED
      BY <1>7, <1>8, <2>1, <2>2 DEF True
  <1> QED
    BY <1>1, <1>2, <1>5, <1>6, <1>9, <1>11, <1>12, <1>13, CommitKeeps

-----------------------------------------------------------------------------
(***************************************************************************)
(* Every step                                                              *)
(***************************************************************************)

\* Nobody asks for anything, and there is no conversation.
LEMMA InitIInv == Init => IInv
  <1> SUFFICES ASSUME Init
               PROVE  IInv
    OBVIOUS
  <1>1. Types
    BY ConversationsAssumption DEF Init, Types
  <1>2. \A t \in Tx : SessionOK(t)
    BY DEF Init, SessionOK, ShapeOK, LocksOK, TableOK, EventsOK, Asks, Creates
  <1>3. LockHolders /\ Distinct
    BY DEF Init, LockHolders, Distinct, Creates, Asks
  <1>4. RowsOK /\ EventsAreTrue
    BY DEF Init, RowsOK, OpenForItem, EventsAreTrue
  <1> QED
    BY <1>1, <1>2, <1>3, <1>4 DEF IInv

\* Time passes.
LEMMA TickKeeps ==
  ASSUME IInv, Tick \/ UNCHANGED vars
  PROVE  IInv'
  <1>1. /\ UNCHANGED <<itemOf, status, last, messages, closures, lock, pc, req, view, write,
                       ids, pending, published>>
        /\ clock' \in 0 .. MaxTime /\ clock <= clock'
    BY ConversationsAssumption DEF IInv, Types, Tick, vars, table, sessions
  <1>2. Types'
    BY <1>1 DEF IInv, Types
  <1>3. \A t \in Tx : SessionOK(t)'
    BY <1>1, <1>2, SessionFrame DEF IInv, Session
  <1>4. LockHolders' /\ Distinct'
    BY <1>1 DEF IInv, LockHolders, Distinct, Creates, Asks
  <1>5. RowsOK' /\ EventsAreTrue'
    BY <1>1 DEF IInv, RowsOK, OpenForItem, EventsAreTrue
  <1> QED
    BY <1>2, <1>3, <1>4, <1>5 DEF IInv

\* The step of a handler that has its conversation.
LEMMA HandleStepKeeps ==
  ASSUME IInv, NEW t \in Tx, HandleStep(t)
  PROVE  IInv'
  <1>1. CASE CloseForInactivity(t) \/ AddMessage(t) \/ CloseBySeller(t)
    BY <1>1, HandleKeeps
  <1>2. CASE JustLook(t) \/ RefuseClosed(t)
    BY <1>2, EndKeeps DEF JustLook, RefuseClosed
  <1>3. CASE CommitOpen(t)
    BY <1>3, CommitOpenKeeps
  <1>4. CASE CommitMessage(t)
    BY <1>4, CommitMessageKeeps
  <1>5. CASE CommitClosure(t)
    BY <1>5, CommitClosureKeeps
  <1>6. CASE Publish(t)
    BY <1>6, AfterCommitKeeps
  <1> QED
    BY <1>1, <1>2, <1>3, <1>4, <1>5, <1>6 DEF HandleStep

\* Every action keeps the invariant.
LEMMA NextIInv == IInv /\ [Next]_vars => IInv'
  <1> SUFFICES ASSUME IInv, [Next]_vars
               PROVE  IInv'
    OBVIOUS
  <1>0. Thread \subseteq Tx /\ Batch \subseteq Tx
    BY DEF Tx
  <1>1. CASE Tick \/ UNCHANGED vars
    BY <1>1, TickKeeps
  <1>2. ASSUME NEW t \in Thread,
               ReceiveCreate(t) \/ ReceiveList(t) \/ ReceiveForConversation(t)
        PROVE  IInv'
    BY <1>0, <1>2, ReceiveKeeps
  <1>3. ASSUME NEW t \in Thread, ThreadStep(t)
        PROVE  IInv'
    <2>1. t \in Tx
      BY <1>0
    <2>2. CASE LockItem(t) \/ FindNone(t) \/ Insert(t)
      BY <2>1, <2>2, LockItemKeeps, FindNoneKeeps, InsertKeeps
    <2>3. CASE ReuseOpen(t)
      BY <2>1, <2>3, EndKeeps DEF ReuseOpen
    <2>4. CASE ReadList(t) \/ LockConversation(t)
      BY <2>1, <2>4, ReadListKeeps, LockConversationKeeps
    <2>5. CASE HandleStep(t)
      BY <2>1, <2>5, HandleStepKeeps
    <2> QED
      BY <1>3, <2>2, <2>3, <2>4, <2>5 DEF ThreadStep
  <1>4. ASSUME NEW b \in Batch, Scan(b) \/ BatchStep(b)
        PROVE  IInv'
    BY <1>0, <1>4, ScanKeeps, LockNextKeeps, SkipLockedKeeps, HandleStepKeeps DEF
       BatchStep
  <1>5. ASSUME NEW t \in Tx, Abort(t) \/ LoseEvents(t)
        PROVE  IInv'
    BY <1>5, AbortKeeps, AfterCommitKeeps
  <1> QED
    BY <1>1, <1>2, <1>3, <1>4, <1>5 DEF Next

\* The inductive invariant holds in every state.
LEMMA Invariant == Spec => []IInv
  BY InitIInv, NextIInv, PTL DEF Spec

-----------------------------------------------------------------------------
(***************************************************************************)
(* What holds in every state and of every step                             *)
(***************************************************************************)

\* Rows, locks, sessions and events keep their types; a lock belongs to a
\* transaction in progress, and an item has one open conversation at most, the
\* promise of the partial unique index (communication/models.py).
THEOREM TypeCorrect == Spec => []TypeOK
  <1>1. IInv => TypeOK
    <2> SUFFICES ASSUME IInv
                 PROVE  TypeOK
      OBVIOUS
    <2>1. \A row \in Row : lock[row] # None => pc[lock[row]] \notin {"idle", "publish"}
      BY DEF IInv, LockHolders
    <2>2. ASSUME NEW i \in Item
          PROVE  Cardinality(OpenForItem(i)) <= 1
      <3>1. CASE OpenForItem(i) = {}
        BY <3>1, FS_EmptySet
      <3>2. ASSUME NEW c \in OpenForItem(i)
            PROVE  Cardinality(OpenForItem(i)) <= 1
        <4>1. OpenForItem(i) = {c}
          BY DEF IInv, RowsOK
        <4> QED
          BY <4>1, FS_Singleton
      <3> QED
        BY <3>1, <3>2
    <2>3. \A t \in Tx :
            /\ req[t] # None => /\ req[t].op \in Endpoint \union {"batch"}
                                /\ req[t].item \in Item
                                /\ req[t].conversation \in Conversation \union {None}
            /\ view[t] # None => view[t].status \in {"open", "closed"}
            /\ write[t] # None =>
                 write[t].kind \in {"open", "message", "manual", "inactivity"}
      BY DEF IInv, Types, Request, LoadedRow, Write
    <2>4. /\ \A c \in Conversation :
               messages[c] \in Seq([author : {"participant", "system"}, at : 0 .. MaxTime])
          /\ \A c \in Conversation : closures[c] \in Seq({"manual", "inactivity"})
      BY DEF IInv, Types
    <2> QED
      BY <2>1, <2>2, <2>3, <2>4 DEF IInv, Types, TypeOK
  <1> QED
    BY <1>1, Invariant, PTL

\* The lock of the order item is enough: whoever is about to insert finds no
\* open conversation and nobody inserting, so create_conversation never needs
\* the recovery after an IntegrityError (communication/lifecycle.py:89-93).
THEOREM IndexIsNeverHit == Spec => []IndexNeverHit
  <1>1. IInv => IndexNeverHit
    <2> SUFFICES ASSUME IInv, NEW t \in Tx, pc[t] = "insert"
                 PROVE  ~InsertWaits(t) /\ OpenForItem(req[t].item) = {}
      BY DEF IndexNeverHit
    <2>1. lock[ItemRow(req[t].item)] = t /\ OpenForItem(req[t].item) = {}
      BY DEF IInv, SessionOK, LocksOK, TableOK
    <2>2. ASSUME NEW u \in Tx \ {t}, write[u] # None, write[u].kind = "open",
                 req[u].item = req[t].item
          PROVE  FALSE
      <3>1. pc[u] \in {"handle", "commit"}
        BY <2>2 DEF IInv, SessionOK, ShapeOK
      <3>2. pc[u] = "commit" /\ Creates(u)
        BY <2>2, <3>1 DEF IInv, SessionOK, ShapeOK
      <3>3. lock[ItemRow(req[u].item)] = u
        BY <3>2 DEF IInv, SessionOK, LocksOK
      <3> QED
        BY <2>1, <2>2, <3>3
    <2> QED
      BY <2>1, <2>2 DEF InsertWaits
  <1> QED
    BY <1>1, Invariant, PTL

\* Subscribers hear of what was committed, however a commit and the publication
\* after it are interleaved with the requests of others (core/events.py).
THEOREM EventsHoldTrue == Spec => []EventsAreTrue
  <1>1. IInv => EventsAreTrue
    BY DEF IInv
  <1> QED
    BY <1>1, Invariant, PTL

\* Who writes messages: the commit of a message, and a closure for inactivity.
LEMMA MessagesWritten ==
  ASSUME IInv, [Next]_vars
  PROVE  \/ UNCHANGED messages
         \/ \E t \in Tx : CommitMessage(t) \/ CommitClosure(t)
  <1>0. Thread \subseteq Tx /\ Batch \subseteq Tx
    BY DEF Tx
  <1>1. ASSUME NEW t \in Tx, End(t)
        PROVE  UNCHANGED messages
    BY <1>1 DEF End, table
  <1>2. ASSUME NEW t \in Tx, HandleStep(t)
        PROVE  UNCHANGED messages \/ CommitMessage(t) \/ CommitClosure(t)
    BY <1>1, <1>2 DEF HandleStep, CloseForInactivity, JustLook, AddMessage,
       CloseBySeller,
                      RefuseClosed, CommitOpen, Publish, table
  <1>3. ASSUME NEW t \in Thread, ThreadStep(t)
        PROVE  UNCHANGED messages \/ CommitMessage(t) \/ CommitClosure(t)
    <2>1. CASE LockItem(t) \/ FindNone(t) \/ LockConversation(t)
      BY <2>1 DEF LockItem, FindNone, LockConversation, table
    <2>2. CASE ReuseOpen(t)
      BY <1>0, <1>1, <2>2 DEF ReuseOpen
    <2>3. CASE Insert(t)
      BY <1>0, <1>1, <2>3 DEF Insert, table
    <2>4. CASE ReadList(t)
      BY <1>0, <1>1, <2>4, ReadListCases DEF table
    <2> QED
      BY <1>0, <1>2, <1>3, <2>1, <2>2, <2>3, <2>4 DEF ThreadStep
  <1>4. ASSUME NEW t \in Thread,
               ReceiveCreate(t) \/ ReceiveList(t) \/ ReceiveForConversation(t)
        PROVE  UNCHANGED messages
    BY <1>4 DEF ReceiveCreate, ReceiveList, ReceiveForConversation, Begin, table
  <1>5. ASSUME NEW b \in Batch, Scan(b) \/ BatchStep(b)
        PROVE  UNCHANGED messages \/ CommitMessage(b) \/ CommitClosure(b)
    BY <1>0, <1>2, <1>5 DEF Scan, BatchStep, LockNext, SkipLocked, table
  <1>6. ASSUME NEW t \in Tx, Abort(t) \/ LoseEvents(t)
        PROVE  UNCHANGED messages
    BY <1>6 DEF Abort, LoseEvents, table
  <1>7. CASE Tick \/ UNCHANGED vars
    BY <1>7 DEF Tick, vars, table
  <1> QED
    BY <1>0, <1>3, <1>4, <1>5, <1>6, <1>7 DEF Next

\* A message of the system is not something a participant says.
LEMMA SystemSaysNothing ==
  ASSUME IInv, NEW t \in Tx, CommitClosure(t), NEW c \in Conversation
  PROVE  Said(c)' = Said(c)
  <1>1. CASE messages'[c] = messages[c]
    BY <1>1 DEF Said
  <1>2. CASE messages'[c] # messages[c]
    <2> DEFINE m == Message("system", write[t].at)
    <2>1. messages' = [messages EXCEPT ![req[t].conversation] = Append(@, m)]
      BY <1>2, CommitClosureCases
    <2>2. messages[c] \in Seq([author : {"participant", "system"}, at : 0 .. MaxTime])
      BY DEF IInv, Types
    <2>3. messages'[c] = Append(messages[c], m)
      BY <1>2, <2>1 DEF IInv, Types
    <2>4. m.author # "participant"
      BY DEF Message
    <2> HIDE DEF m
    <2>5. /\ Len(messages'[c]) = Len(messages[c]) + 1 /\ Len(messages[c]) \in Nat
          /\ messages'[c][Len(messages[c]) + 1] = m
          /\ \A n \in 1 .. Len(messages[c]) : messages'[c][n] = messages[c][n]
      BY <2>2, <2>3
    <2>6. \A n \in 1 .. Len(messages'[c]) :
            n \in 1 .. Len(messages[c]) \/ n = Len(messages[c]) + 1
      BY <2>5
    <2>7. \A n \in 1 .. Len(messages[c]) : n \in 1 .. Len(messages'[c])
      BY <2>5
    <2> QED
      BY <2>4, <2>5, <2>6, <2>7 DEF Said
  <1> QED
    BY <1>1, <1>2

\* Nothing is said in a closed conversation: create_message decides under the
\* lock of the row, and close_for_inactivity adds a message of the system only.
THEOREM SaidOnlyWhileOpen == Spec => SaidWhileOpen
  <1>1. IInv /\ [Next]_vars =>
          [\A c \in Conversation : Said(c)' # Said(c) => status[c] = "open"]_vars
    <2> SUFFICES ASSUME IInv, [Next]_vars, NEW c \in Conversation, Said(c)' # Said(c)
                 PROVE  status[c] = "open"
      OBVIOUS
    <2>1. messages'[c] # messages[c]
      BY DEF Said
    <2>2. PICK t \in Tx : CommitMessage(t)
      BY <2>1, MessagesWritten, SystemSaysNothing
    <2>3. /\ pc[t] = "commit" /\ write[t].kind = "message"
          /\ messages' = [messages EXCEPT ![req[t].conversation] =
                            Append(@, Message("participant", write[t].at))]
      BY <2>2 DEF CommitMessage
    <2>4. req[t].conversation = c
      BY <2>1, <2>3 DEF IInv, Types
    <2>5. ~Creates(t) /\ req[t].op # "list"
      BY <2>3 DEF IInv, SessionOK, ShapeOK
    <2> QED
      BY <2>3, <2>4, <2>5 DEF IInv, SessionOK, TableOK
  <1> QED
    BY <1>1, Invariant, PTL DEF Spec, SaidWhileOpen

\* What closes a conversation has seen it open, and silent for long enough if
\* it closes it for that, up to its commit; only the list may be mistaken.
THEOREM ClosesOnlyWhatItSees == Spec => ClosesWhatItSees
  <1>1. IInv =>
          \A t \in Tx :
            CommitClosure(t) /\ req[t].op # "list" =>
              LET c == req[t].conversation
              IN /\ status[c] = "open"
                 /\ write[t].kind = "inactivity" => last[c] <= clock - InactivityHours
    <2> SUFFICES ASSUME IInv, NEW t \in Tx, CommitClosure(t), req[t].op # "list"
                 PROVE  LET c == req[t].conversation
                        IN /\ status[c] = "open"
                           /\ write[t].kind = "inactivity" => last[c] <= clock - InactivityHours
      OBVIOUS
    <2>1. pc[t] = "commit" /\ write[t].kind \in {"manual", "inactivity"}
      BY CommitClosureCases
    <2>2. ~Creates(t)
      BY <2>1, OfExisting
    <2> QED
      BY <2>1, <2>2 DEF IInv, SessionOK, TableOK
  <1> QED
    BY <1>1, Invariant, PTL DEF Spec, ClosesWhatItSees

-----------------------------------------------------------------------------
(***************************************************************************)
(* Closed once, without the list                                           *)
(***************************************************************************)

\* Only the commits of an opening and of a closure write status or closures.
LEMMA ClosuresWritten ==
  ASSUME IInv, [Next]_vars
  PROVE  \/ UNCHANGED <<status, closures>>
         \/ \E t \in Tx : CommitOpen(t) \/ CommitClosure(t)
  <1>0. Thread \subseteq Tx /\ Batch \subseteq Tx
    BY DEF Tx
  <1>1. ASSUME NEW t \in Tx, End(t)
        PROVE  UNCHANGED <<status, closures>>
    BY <1>1 DEF End, table
  <1>2. ASSUME NEW t \in Tx, HandleStep(t)
        PROVE  UNCHANGED <<status, closures>> \/ CommitOpen(t) \/ CommitClosure(t)
    BY <1>1, <1>2 DEF HandleStep, CloseForInactivity, JustLook, AddMessage,
       CloseBySeller,
                      RefuseClosed, CommitMessage, Publish, table
  <1>3. ASSUME NEW t \in Thread, ThreadStep(t)
        PROVE  UNCHANGED <<status, closures>> \/ CommitOpen(t) \/ CommitClosure(t)
    <2>1. CASE LockItem(t) \/ FindNone(t) \/ LockConversation(t)
      BY <2>1 DEF LockItem, FindNone, LockConversation, table
    <2>2. CASE ReuseOpen(t)
      BY <1>0, <1>1, <2>2 DEF ReuseOpen
    <2>3. CASE Insert(t)
      BY <1>0, <1>1, <2>3 DEF Insert, table
    <2>4. CASE ReadList(t)
      BY <1>0, <1>1, <2>4, ReadListCases DEF table
    <2> QED
      BY <1>0, <1>2, <1>3, <2>1, <2>2, <2>3, <2>4 DEF ThreadStep
  <1>4. ASSUME NEW t \in Thread,
               ReceiveCreate(t) \/ ReceiveList(t) \/ ReceiveForConversation(t)
        PROVE  UNCHANGED <<status, closures>>
    BY <1>4 DEF ReceiveCreate, ReceiveList, ReceiveForConversation, Begin, table
  <1>5. ASSUME NEW b \in Batch, Scan(b) \/ BatchStep(b)
        PROVE  UNCHANGED <<status, closures>> \/ CommitOpen(b) \/ CommitClosure(b)
    BY <1>0, <1>2, <1>5 DEF Scan, BatchStep, LockNext, SkipLocked, table
  <1>6. ASSUME NEW t \in Tx, Abort(t) \/ LoseEvents(t)
        PROVE  UNCHANGED <<status, closures>>
    BY <1>6 DEF Abort, LoseEvents, table
  <1>7. CASE Tick \/ UNCHANGED vars
    BY <1>7 DEF Tick, vars, table
  <1> QED
    BY <1>0, <1>3, <1>4, <1>5, <1>6, <1>7 DEF Next

\* Requests change their operation only when they begin.
LEMMA OpsServed ==
  ASSUME IInv, [Next]_vars, "list" \notin Served,
         \A t \in Tx : Asks(t) => req[t].op # "list"
  PROVE  \A t \in Tx : Asks(t)' => req'[t].op # "list"
  <1>0. Thread \subseteq Tx /\ Batch \subseteq Tx
    BY DEF Tx
  <1> DEFINE Kept == \A u \in Tx : req'[u] \in {req[u], None}
  <1>1. ASSUME NEW t \in Tx, CloseSession(t)
        PROVE  Kept
    BY <1>1 DEF CloseSession, IInv, Types
  <1>2. ASSUME NEW t \in Tx, HandleStep(t)
        PROVE  Kept
    <2>1. CASE CloseForInactivity(t) \/ AddMessage(t) \/ CloseBySeller(t) \/ Publish(t)
      BY <2>1 DEF CloseForInactivity, AddMessage, CloseBySeller, Publish, sessions
    <2>2. CASE JustLook(t) \/ RefuseClosed(t) \/ CommitOpen(t) \/ CommitMessage(t)
      BY <1>1, <2>2 DEF JustLook, RefuseClosed, End, CommitOpen, CommitMessage,
         Committed
    <2>3. CASE CommitClosure(t)
      BY <1>1, <2>3, CommitClosureCases DEF Committed
    <2> QED
      BY <1>2, <2>1, <2>2, <2>3 DEF HandleStep
  <1>3. ASSUME NEW t \in Thread, ThreadStep(t)
        PROVE  Kept
    <2>1. CASE LockItem(t) \/ FindNone(t) \/ LockConversation(t)
      BY <2>1 DEF LockItem, FindNone, LockConversation, sessions
    <2>2. CASE ReuseOpen(t)
      BY <1>0, <1>1, <2>2 DEF ReuseOpen, End
    <2>3. CASE Insert(t)
      BY <1>0, <1>1, <2>3 DEF Insert, End
    <2>4. CASE ReadList(t)
      BY <1>0, <2>4 DEF ReadList, IInv, SessionOK, ShapeOK
    <2> QED
      BY <1>0, <1>2, <1>3, <2>1, <2>2, <2>3, <2>4 DEF ThreadStep
  <1>4. ASSUME NEW t \in Thread,
               ReceiveCreate(t) \/ ReceiveList(t) \/ ReceiveForConversation(t)
        PROVE  \A u \in Tx : req'[u] = req[u] \/ req'[u].op # "list"
    BY <1>4 DEF ReceiveCreate, ReceiveList, ReceiveForConversation, Begin, IInv, Types
  <1>5. ASSUME NEW b \in Batch, Scan(b) \/ SkipLocked(b)
        PROVE  Kept
    BY <1>5 DEF Scan, SkipLocked, sessions
  <1>6. ASSUME NEW b \in Batch, LockNext(b)
        PROVE  \A u \in Tx : req'[u] = req[u] \/ req'[u].op # "list"
    BY <1>6 DEF LockNext, IInv, Types
  <1>7. ASSUME NEW t \in Tx, Abort(t) \/ LoseEvents(t)
        PROVE  Kept
    BY <1>1, <1>7 DEF Abort, LoseEvents, sessions
  <1>8. ASSUME Tick \/ UNCHANGED vars
        PROVE  Kept
    BY <1>8 DEF Tick, vars, sessions
  <1> QED
    BY <1>0, <1>2, <1>3, <1>4, <1>5, <1>6, <1>7, <1>8 DEF Next, BatchStep, Asks

\* Without list_conversations a conversation is closed once.  What the run
\* conversations_twice finds therefore has no other cause than the read of the
\* list, older than its lock (communication/routes.py:109-142).
THEOREM ClosedOnceWithoutList == "list" \notin Served => (Spec => []ClosedOnce)
  <1> SUFFICES ASSUME "list" \notin Served
               PROVE  Spec => []ClosedOnce
    OBVIOUS
  <1> DEFINE NoList == \A t \in Tx : Asks(t) => req[t].op # "list"
             Once == \A c \in Conversation :
                       /\ Len(closures[c]) <= 1
                       /\ status[c] = "closed" <=> closures[c] # <<>>
  <1>1. Init => NoList /\ Once
    BY DEF Init, Asks
  <1>2. IInv /\ NoList /\ Once /\ [Next]_vars => NoList' /\ Once'
    <2> SUFFICES ASSUME IInv, NoList, Once, [Next]_vars
                 PROVE  NoList' /\ Once'
      OBVIOUS
    <2>1. NoList'
      BY OpsServed
    <2>2. CASE UNCHANGED <<status, closures>>
      BY <2>1, <2>2
    <2>3. ASSUME NEW t \in Tx, CommitOpen(t)
          PROVE  Once'
      <3>1. /\ pc[t] = "commit" /\ write[t].kind = "open"
            /\ status' = [status EXCEPT ![req[t].conversation] = "open"]
            /\ UNCHANGED closures
        BY <2>3 DEF CommitOpen
      <3>2. status[req[t].conversation] = "absent"
        BY <3>1 DEF IInv, SessionOK, ShapeOK, TableOK
      <3> QED
        BY <3>1, <3>2 DEF IInv, Types
    <2>4. ASSUME NEW t \in Tx, CommitClosure(t)
          PROVE  Once'
      <3> DEFINE c == req[t].conversation
      <3>1. /\ pc[t] = "commit" /\ write[t].kind \in {"manual", "inactivity"}
            /\ status' = [status EXCEPT ![c] = "closed"]
            /\ closures' = [closures EXCEPT ![c] = Append(@, write[t].kind)]
        BY <2>4, CommitClosureCases
      <3>2. c \in Conversation /\ ~Creates(t) /\ req[t].op # "list"
        BY <3>1, OfExisting DEF IInv, SessionOK, ShapeOK
      <3>3. status[c] = "open"
        BY <3>1, <3>2 DEF IInv, SessionOK, TableOK
      <3>4. closures[c] = <<>>
        BY <3>2, <3>3
      <3>5. closures'[c] = <<write[t].kind>> /\ status'[c] = "closed"
        BY <3>1, <3>2, <3>4 DEF IInv, Types
      <3>6. \A d \in Conversation \ {c} : UNCHANGED <<status[d], closures[d]>>
        BY <3>1 DEF IInv, Types
      <3>7. Len(<<write[t].kind>>) <= 1 /\ <<write[t].kind>> # <<>>
        OBVIOUS
      <3> QED
        BY <3>5, <3>6, <3>7
    <2> QED
      BY <2>1, <2>2, <2>3, <2>4, ClosuresWritten
  <1>3. Once => ClosedOnce
    BY DEF ClosedOnce
  <1> HIDE DEF NoList, Once
  <1> QED
    BY <1>1, <1>2, <1>3, Invariant, PTL DEF Spec

=============================================================================
