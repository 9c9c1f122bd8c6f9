----------------------------- MODULE JobsProofs -----------------------------
(***************************************************************************)
(* Proofs about Jobs, for any changes, recipients, workers, room of the    *)
(* queue, deliveries, failures and lost responses: an accepted change is   *)
(* kept until it is told, an alert in an inbox was mailed to the addresses *)
(* there are for it and to no other, and Jobs keeps the promise of Inbox.  *)
(***************************************************************************)
EXTENDS Jobs, FiniteSetTheorems, TLAPS

-----------------------------------------------------------------------------
(***************************************************************************)
(* The inductive invariant                                                 *)
(***************************************************************************)
Types ==
  /\ accepted \subseteq Change /\ refused \subseteq Change
  /\ accepted \intersect refused = {}
  /\ queue \in [Slot -> Queueable \union {None}]
  /\ dead \subseteq Body
  /\ pc \in [Worker -> {"receive", "handle", "commit", "delete", "tick"}]
  /\ receipt \in [Worker -> Received \union {None}]
  /\ pendingReconcile \in [Worker -> BOOLEAN] /\ due \in [Worker -> BOOLEAN]
  /\ inbox \in [Change -> [User -> Nat]]
  /\ read \in [Change -> [User -> BOOLEAN]]
  /\ mailed \in [Change -> SUBSET Address]
  /\ \A c \in Change : mailed[c] \subseteq IF c \in Alert THEN Addresses(c) ELSE {}

\* A change is told when its recipients have it in their inboxes.
Told(c) == \A u \in Recipients(c) : inbox[c][u] > 0

\* A worker's message is of an accepted change; an alert was mailed before the rows
\* are committed, and told before the message is deleted; and while the worker
\* has it, its slot holds no other message.
WorkerOK(w) ==
  /\ pc[w] \in {"handle", "commit", "delete"} => receipt[w] # None
  /\ pc[w] \in {"receive", "tick"} => receipt[w] = None
  /\ pc[w] = "commit" => receipt[w].body \in Change
  /\ receipt[w] # None => receipt[w].body \in accepted \union {Reconcile, Unknown}
  /\ pc[w] = "commit" /\ receipt[w].body \in Alert =>
       mailed[receipt[w].body] = Addresses(receipt[w].body)
  /\ pc[w] = "delete" /\ receipt[w].body \in Change => Told(receipt[w].body)
  /\ receipt[w] # None /\ queue[receipt[w].slot] # None =>
       queue[receipt[w].slot].body = receipt[w].body

\* Only accepted changes are in the queue.
QueueOK ==
  \A s \in Slot : queue[s] # None =>
    queue[s].body \in accepted \union {Reconcile, Unknown}

\* All recipients of a change are told, or none.
InboxOK == \A c \in Change : inbox[c] \in {Promise!Told(c), Promise!Untold}

IInv ==
  /\ Types
  /\ \A w \in Worker : WorkerOK(w)
  /\ QueueOK
  /\ InboxOK
  /\ AcceptedIsKept
  /\ AlertsAreMailed

-----------------------------------------------------------------------------
(***************************************************************************)
(* The queue                                                               *)
(***************************************************************************)

\* A choice from a set that is not empty is one of its elements.
LEMMA ChoiceIn ==
  ASSUME NEW S, S # {}
  PROVE  (CHOOSE s \in S : TRUE) \in S
  OBVIOUS

\* A set with more than one element has another one.
LEMMA AnotherOne ==
  ASSUME NEW S, NEW s \in S, Cardinality(S) > 1
  PROVE  S \ {s} # {}
  <1> SUFFICES ASSUME S \ {s} = {}
               PROVE  FALSE
    OBVIOUS
  <1>1. S = {s}
    OBVIOUS
  <1>2. Cardinality(S) = 1
    BY <1>1, FS_Singleton
  <1> QED
    BY <1>2

\* Sending fills one or two free slots.
Fills(body, places) ==
  /\ places \subseteq FreeSlots /\ places # {}
  /\ queue' = [s \in Slot |-> IF s \in places THEN Message(body) ELSE queue[s]]

LEMMA Sends ==
  ASSUME Types, NEW body, Send(body) \/ SendTwice(body)
  PROVE  \E places \in SUBSET Slot : Fills(body, places)
  <1>1. queue = [s \in Slot |-> queue[s]]
    BY DEF Types
  <1>2. FreeSlots \subseteq Slot
    BY DEF FreeSlots
  <1>3. CASE Send(body)
    <2> DEFINE s == CHOOSE r \in FreeSlots : TRUE
    <2>1. s \in FreeSlots
      BY <1>3, ChoiceIn DEF Send
    <2>2. queue' = [queue EXCEPT ![s] = Message(body)]
      BY <1>3 DEF Send
    <2> HIDE DEF s
    <2>3. Fills(body, {s})
      BY <1>1, <1>2, <2>1, <2>2 DEF Fills
    <2> QED
      BY <1>2, <2>1, <2>3
  <1>4. CASE SendTwice(body)
    <2> DEFINE s == CHOOSE r \in FreeSlots : TRUE
               t == CHOOSE r \in FreeSlots \ {s} : TRUE
    <2>1. /\ Cardinality(FreeSlots) > 1
          /\ queue' = [queue EXCEPT ![s] = Message(body), ![t] = Message(body)]
      BY <1>4 DEF SendTwice
    <2>2. s \in FreeSlots
      <3>1. FreeSlots # {}
        BY <2>1, FS_EmptySet
      <3> QED
        BY <3>1, ChoiceIn
    <2>3. t \in FreeSlots \ {s}
      <3>1. FreeSlots \ {s} # {}
        BY <2>1, <2>2, AnotherOne
      <3> QED
        BY <3>1, ChoiceIn
    <2> HIDE DEF s, t
    <2>4. Fills(body, {s, t})
      BY <1>1, <1>2, <2>1, <2>2, <2>3 DEF Fills
    <2> QED
      BY <1>2, <2>2, <2>3, <2>4
  <1> QED
    BY <1>3, <1>4

-----------------------------------------------------------------------------
(***************************************************************************)
(* What a step may do to the rest                                          *)
(***************************************************************************)

\* No message leaves the queue or changes its body.
SameBodies ==
  \A s \in Slot :
    /\ queue'[s] = None <=> queue[s] = None
    /\ queue[s] # None => queue'[s].body = queue[s].body

\* A message is put only where no worker can still delete another one.
FilledIfFree ==
  \A s \in Slot : queue'[s] # None =>
    \/ queue[s] # None /\ queue'[s].body = queue[s].body
    \/ \A w \in Worker : receipt[w] # None => receipt[w].slot # s

\* What was mailed stays mailed.
MailStays == \A c \in Change : mailed[c] = Addresses(c) => mailed'[c] = Addresses(c)

\* A worker that does not move keeps what it knows while nothing is unsaid.
LEMMA WorkerFrame ==
  ASSUME Types, NEW w \in Worker, WorkerOK(w), UNCHANGED <<pc[w], receipt[w]>>,
         accepted \subseteq accepted', MailStays,
         \A c \in Change : Told(c) => Told(c)', FilledIfFree
  PROVE  WorkerOK(w)'
  <1>1. receipt[w] # None => receipt[w].slot \in Slot
    BY DEF Types, Received
  <1>2. receipt'[w] # None /\ queue'[receipt'[w].slot] # None =>
          queue'[receipt'[w].slot].body = receipt'[w].body
    BY <1>1 DEF WorkerOK, FilledIfFree
  <1>3. pc'[w] = "commit" /\ receipt'[w].body \in Alert =>
          mailed'[receipt'[w].body] = Addresses(receipt'[w].body)
    BY DEF WorkerOK, MailStays
  <1> QED
    BY <1>2, <1>3 DEF WorkerOK

\* What is accepted stays kept while messages leave the queue only for the dead
\* letters or when they are told.
LEMMA KeptFrame ==
  ASSUME Types, AcceptedIsKept, UNCHANGED accepted, dead \subseteq dead',
         \A c \in Change : Told(c) => Told(c)',
         \A s \in Slot : queue[s] # None =>
           \/ queue'[s] # None /\ queue'[s].body = queue[s].body
           \/ queue[s].body \in dead'
           \/ \A c \in accepted : c = queue[s].body => Told(c)'
  PROVE  AcceptedIsKept'
  <1> SUFFICES ASSUME NEW c \in accepted
               PROVE  Queued(c)' \/ c \in dead' \/ Told(c)'
    BY DEF AcceptedIsKept, Told
  <1>1. Queued(c) \/ c \in dead \/ Told(c)
    BY DEF AcceptedIsKept, Told
  <1>2. c \in Change
    BY DEF Types
  <1>3. CASE Queued(c)
    <2>1. PICK s \in Slot : queue[s] # None /\ queue[s].body = c
      BY <1>3 DEF Queued
    <2>2. CASE queue'[s] # None /\ queue'[s].body = queue[s].body
      <3>1. queue'[s] # None /\ queue'[s].body = c
        BY <2>1, <2>2
      <3> QED
        BY <3>1 DEF Queued
    <2>3. CASE queue[s].body \in dead'
      BY <2>1, <2>3
    <2>4. CASE \A d \in accepted : d = queue[s].body => Told(d)'
      BY <2>1, <2>4
    <2> QED
      BY <2>1, <2>2, <2>3, <2>4
  <1>4. CASE c \in dead
    BY <1>4
  <1>5. CASE Told(c)
    BY <1>2, <1>5
  <1> QED
    BY <1>1, <1>3, <1>4, <1>5

\* A step of one worker that neither takes messages away nor writes an inbox.
LEMMA WorkerMoves ==
  ASSUME IInv, NEW w \in Worker, Types', WorkerOK(w)', SameBodies,
         \A v \in Worker \ {w} : UNCHANGED <<pc[v], receipt[v]>>,
         UNCHANGED <<accepted, dead, inbox>>, MailStays
  PROVE  IInv'
  <1>1. \A c \in Change : Told(c) => Told(c)'
    BY DEF Told
  <1>2. FilledIfFree
    BY DEF SameBodies, FilledIfFree
  <1>3. \A v \in Worker : WorkerOK(v)'
    BY <1>1, <1>2, WorkerFrame DEF IInv
  <1>4. QueueOK'
    BY DEF IInv, QueueOK, SameBodies
  <1>5. InboxOK'
    BY DEF IInv, InboxOK, Promise!Told, Promise!Untold
  <1>6. AcceptedIsKept'
    BY <1>1, KeptFrame DEF IInv, SameBodies
  <1>7. AlertsAreMailed'
    BY DEF IInv, Types, AlertsAreMailed, MailStays
  <1> QED
    BY <1>3, <1>4, <1>5, <1>6, <1>7 DEF IInv

\* Sending keeps what is in the queue, and adds an accepted change or a job.
LEMMA FillKeeps ==
  ASSUME IInv, NEW body \in Body, NEW places \in SUBSET Slot, Fills(body, places),
         accepted' \in {accepted, accepted \union {body}},
         body \in accepted' \union {Reconcile, Unknown},
         accepted' \subseteq Change, UNCHANGED <<dead, inbox, mailed>>
  PROVE  /\ queue' \in [Slot -> Queueable \union {None}]
         /\ \A w \in Worker : UNCHANGED <<pc[w], receipt[w]>> => WorkerOK(w)'
         /\ QueueOK' /\ InboxOK' /\ AcceptedIsKept' /\ AlertsAreMailed'
  <1>1. Message(body) \in Queueable /\ Message(body) # None /\ Message(body).body = body
    <2>1. Message(body) \in Queueable
      BY JobsAssumption DEF Message, Queueable
    <2> QED
      BY <2>1, JobsAssumption DEF Message
  <1>2. \A s \in Slot : queue'[s] = IF s \in places THEN Message(body) ELSE queue[s]
    BY DEF Fills
  <1>3. queue' \in [Slot -> Queueable \union {None}]
    BY <1>1 DEF Fills, IInv, Types
  <1>4. \A s \in places : queue[s] = None /\ \A w \in Worker : receipt[w] # None => receipt[w].slot # s
    BY DEF Fills, FreeSlots, Free
  <1>5. FilledIfFree /\ MailStays
    BY <1>2, <1>4 DEF FilledIfFree, MailStays
  <1>6. \A c \in Change : Told(c) => Told(c)'
    BY DEF Told
  <1>7. \A w \in Worker : UNCHANGED <<pc[w], receipt[w]>> => WorkerOK(w)'
    BY <1>5, <1>6, WorkerFrame DEF IInv
  <1>8. QueueOK'
    BY <1>1, <1>2 DEF IInv, QueueOK
  <1>9. AcceptedIsKept'
    <2> SUFFICES ASSUME NEW c \in accepted'
                 PROVE  Queued(c)' \/ c \in dead' \/ Told(c)'
      BY DEF AcceptedIsKept, Told
    <2>1. CASE c = body
      <3>1. PICK s \in Slot : s \in places
        BY DEF Fills
      <3>2. queue'[s] # None /\ queue'[s].body = c
        BY <1>1, <1>2, <2>1, <3>1
      <3> QED
        BY <3>2 DEF Queued
    <2>2. CASE c # body
      <3>1. c \in accepted
        BY <2>2
      <3>2. Queued(c) \/ c \in dead \/ Told(c)
        BY <3>1 DEF IInv, AcceptedIsKept, Told
      <3>3. Queued(c) => Queued(c)'
        BY <1>2, <1>4 DEF Queued
      <3> QED
        BY <3>2, <3>3 DEF Told
    <2> QED
      BY <2>1, <2>2
  <1>10. InboxOK' /\ AlertsAreMailed'
    BY DEF IInv, InboxOK, AlertsAreMailed, Promise!Told, Promise!Untold
  <1> QED
    BY <1>3, <1>7, <1>8, <1>9, <1>10

-----------------------------------------------------------------------------
(***************************************************************************)
(* Initial states, SQS, and the requests that enqueue                      *)
(***************************************************************************)

\* Nothing is accepted, queued or told.
LEMMA InitIInv == Init => IInv
  <1> SUFFICES ASSUME Init
               PROVE  IInv
    OBVIOUS
  <1>1. Types
    BY DEF Init, Types
  <1>2. \A w \in Worker : WorkerOK(w)
    BY DEF Init, WorkerOK
  <1>3. QueueOK /\ InboxOK
    BY DEF Init, QueueOK, InboxOK, Promise!Untold
  <1>4. AcceptedIsKept
    BY DEF Init, AcceptedIsKept
  <1>5. AlertsAreMailed
    <2>1. \A c \in Change : mailed[c] = {} /\ \A u \in User : inbox[c][u] = 0
      BY DEF Init
    <2> QED
      BY <2>1 DEF AlertsAreMailed
  <1> QED
    BY <1>1, <1>2, <1>3, <1>4, <1>5 DEF IInv

\* Steps that change neither messages nor workers nor what is told.
LEMMA AsideKeeps ==
  ASSUME IInv, Types', SameBodies, UNCHANGED <<accepted, dead, pc, receipt, inbox, mailed>>
  PROVE  IInv'
  <1>1. \A c \in Change : Told(c) => Told(c)'
    BY DEF Told
  <1>2. FilledIfFree /\ MailStays
    BY DEF SameBodies, FilledIfFree, MailStays
  <1>3. \A w \in Worker : WorkerOK(w)'
    BY <1>1, <1>2, WorkerFrame DEF IInv
  <1>4. QueueOK' /\ AcceptedIsKept'
    BY <1>1, KeptFrame DEF IInv, QueueOK, SameBodies
  <1>5. InboxOK' /\ AlertsAreMailed'
    BY DEF IInv, InboxOK, AlertsAreMailed, Promise!Told, Promise!Untold
  <1> QED
    BY <1>3, <1>4, <1>5 DEF IInv

\* A message that is offered again keeps its body.
LEMMA VisibilityExpiresKeeps ==
  ASSUME IInv, NEW s \in Slot, VisibilityExpires(s)
  PROVE  IInv'
  <1>1. /\ queue[s] # None
        /\ queue' = [queue EXCEPT ![s].visible = TRUE]
        /\ UNCHANGED <<accepted, refused, dead, worker, rows, mailed>>
    BY DEF VisibilityExpires
  <1>2. queue[s] \in Queueable
    BY <1>1 DEF IInv, Types
  <1> DEFINE m == [queue[s] EXCEPT !.visible = TRUE]
  <1>3. m \in Queueable /\ m.body = queue[s].body
    BY <1>2 DEF Queueable
  <1>4. m # None /\ queue' = [queue EXCEPT ![s] = m]
    BY <1>1, <1>3, JobsAssumption
  <1> HIDE DEF m
  <1>5. queue' \in [Slot -> Queueable \union {None}] /\ SameBodies
    BY <1>1, <1>3, <1>4 DEF IInv, Types, SameBodies
  <1>6. Types'
    BY <1>1, <1>5 DEF IInv, Types, worker, rows
  <1> QED
    BY <1>1, <1>5, <1>6, AsideKeeps DEF worker, rows

\* What is delivered too often is kept among the dead letters.
LEMMA DeadLetterKeeps ==
  ASSUME IInv, NEW s \in Slot, DeadLetter(s)
  PROVE  IInv'
  <1>1. /\ queue[s] # None
        /\ dead' = dead \union {queue[s].body}
        /\ queue' = [queue EXCEPT ![s] = None]
        /\ UNCHANGED <<accepted, refused, worker, rows, mailed>>
    BY DEF DeadLetter
  <1>2. queue[s].body \in Body
    BY <1>1 DEF IInv, Types, Queueable
  <1>3. Types'
    BY <1>1, <1>2 DEF IInv, Types, worker, rows
  <1>4. \A c \in Change : Told(c) => Told(c)'
    BY <1>1 DEF Told, rows
  <1>5. \A r \in Slot : queue'[r] = IF r = s THEN None ELSE queue[r]
    BY <1>1 DEF IInv, Types
  <1>6. FilledIfFree /\ MailStays
    BY <1>1, <1>5 DEF FilledIfFree, MailStays
  <1>7. \A w \in Worker : WorkerOK(w)'
    BY <1>1, <1>4, <1>6, WorkerFrame DEF IInv, worker
  <1>8. QueueOK'
    BY <1>1, <1>5 DEF IInv, QueueOK
  <1>9. AcceptedIsKept'
    BY <1>1, <1>4, <1>5, KeptFrame DEF IInv
  <1>10. InboxOK' /\ AlertsAreMailed'
    BY <1>1 DEF IInv, InboxOK, AlertsAreMailed, Promise!Told, Promise!Untold, rows
  <1> QED
    BY <1>3, <1>7, <1>8, <1>9, <1>10 DEF IInv

\* A change is accepted with a message in the queue, or refused without one.
LEMMA EnqueueKeeps ==
  ASSUME IInv, NEW c \in Change, Enqueue(c) \/ EnqueueFails(c)
  PROVE  IInv'
  <1>1. CASE Enqueue(c)
    <2>1. /\ c \notin accepted \union refused
          /\ Send(c) \/ SendTwice(c)
          /\ accepted' = accepted \union {c}
          /\ UNCHANGED <<refused, dead, worker, rows, mailed>>
      BY <1>1 DEF Enqueue
    <2>2. PICK places \in SUBSET Slot : Fills(c, places)
      BY <2>1, Sends DEF IInv
    <2>3. accepted' \subseteq Change /\ c \in Body
      BY <2>1 DEF IInv, Types, Body
    <2>4. UNCHANGED <<dead, inbox, mailed, pc, receipt>>
      BY <2>1 DEF worker, rows
    <2>5. /\ queue' \in [Slot -> Queueable \union {None}]
          /\ \A w \in Worker : WorkerOK(w)'
          /\ QueueOK' /\ InboxOK' /\ AcceptedIsKept' /\ AlertsAreMailed'
      BY <2>1, <2>2, <2>3, <2>4, FillKeeps
    <2>6. Types'
      BY <2>1, <2>3, <2>5 DEF IInv, Types, worker, rows
    <2> QED
      BY <2>5, <2>6 DEF IInv
  <1>2. CASE EnqueueFails(c)
    <2>1. /\ c \notin accepted \union refused
          /\ refused' = refused \union {c}
          /\ UNCHANGED <<accepted, queue, dead, worker, rows, mailed>>
      BY <1>2 DEF EnqueueFails
    <2>2. Types'
      BY <2>1 DEF IInv, Types, worker, rows
    <2> QED
      BY <2>1, <2>2, AsideKeeps DEF worker, rows, SameBodies
  <1> QED
    BY <1>1, <1>2

\* A job nobody knows may come from elsewhere.
LEMMA SendUnknownKeeps ==
  ASSUME IInv, SendUnknown
  PROVE  IInv'
  <1>1. /\ Send(Unknown)
        /\ UNCHANGED <<accepted, refused, dead, worker, rows, mailed>>
    BY DEF SendUnknown
  <1>2. PICK places \in SUBSET Slot : Fills(Unknown, places)
    BY <1>1, Sends DEF IInv
  <1>3. /\ Unknown \in Body /\ accepted' \subseteq Change
        /\ UNCHANGED <<dead, inbox, mailed, pc, receipt>>
    BY <1>1 DEF Body, IInv, Types, worker, rows
  <1>4. /\ queue' \in [Slot -> Queueable \union {None}]
        /\ \A w \in Worker : WorkerOK(w)'
        /\ QueueOK' /\ InboxOK' /\ AcceptedIsKept' /\ AlertsAreMailed'
    BY <1>1, <1>2, <1>3, FillKeeps
  <1>5. Types'
    BY <1>1, <1>4 DEF IInv, Types, worker, rows
  <1> QED
    BY <1>4, <1>5 DEF IInv

-----------------------------------------------------------------------------
(***************************************************************************)
(* Workers                                                                 *)
(***************************************************************************)

\* A worker that holds nothing knows nothing.
LEMMA EmptyHanded ==
  ASSUME NEW w \in Worker, pc'[w] \in {"receive", "tick"}, receipt'[w] = None
  PROVE  WorkerOK(w)'
  BY DEF WorkerOK

\* Hiding a message that SQS delivers keeps its body.
LEMMA Hidden ==
  ASSUME IInv, NEW s \in Slot, Deliverable(s), Hide(s)
  PROVE  /\ queue[s] \in Queueable /\ queue[s].receives + 1 \in 1 .. MaxReceive
         /\ queue' \in [Slot -> Queueable \union {None}]
         /\ SameBodies
  <1>1. /\ queue[s] # None /\ queue[s].receives < MaxReceive
        /\ queue' = [queue EXCEPT ![s] =
                       [[queue[s] EXCEPT !.receives = @ + 1] EXCEPT !.visible = FALSE]]
    BY DEF Deliverable, Hide
  <1>2. queue[s] \in Queueable
    BY <1>1 DEF IInv, Types
  <1>3. queue[s].receives \in 0 .. MaxReceive
    BY <1>2 DEF Queueable
  <1>4. queue[s].receives + 1 \in 0 .. MaxReceive /\ queue[s].receives + 1 \in 1 .. MaxReceive
    BY <1>1, <1>3, JobsAssumption
  <1> DEFINE m == [[queue[s] EXCEPT !.receives = @ + 1] EXCEPT !.visible = FALSE]
  <1>5. m \in Queueable /\ m.body = queue[s].body
    BY <1>2, <1>4 DEF Queueable
  <1>6. m # None
    BY <1>5, JobsAssumption
  <1> HIDE DEF m
  <1>7. queue' = [queue EXCEPT ![s] = m]
    BY <1>1 DEF m
  <1> QED
    BY <1>1, <1>2, <1>4, <1>5, <1>6, <1>7 DEF IInv, Types, SameBodies

\* A worker receives a message of the queue.
LEMMA ReceiveKeeps ==
  ASSUME IInv, NEW w \in Worker, Receive(w)
  PROVE  IInv'
  <1>1. PICK s \in Slot :
          /\ Deliverable(s) /\ Hide(s)
          /\ receipt' = [receipt EXCEPT ![w] =
               [slot |-> s, body |-> queue[s].body, nth |-> queue[s].receives + 1]]
          /\ pendingReconcile' = [pendingReconcile EXCEPT ![w] = @ /\ queue[s].body # Reconcile]
    BY DEF Receive, OnJob
  <1>2. /\ pc' = [pc EXCEPT ![w] = "handle"]
        /\ UNCHANGED <<accepted, refused, dead, due, rows, mailed>>
    BY DEF Receive, Go
  <1> DEFINE r == [slot |-> s, body |-> queue[s].body, nth |-> queue[s].receives + 1]
  <1>3. /\ queue[s] \in Queueable /\ queue[s].receives + 1 \in 1 .. MaxReceive
        /\ queue' \in [Slot -> Queueable \union {None}]
        /\ SameBodies
    BY <1>1, Hidden
  <1>4. r \in Received /\ r.slot = s /\ r.body = queue[s].body
    BY <1>3 DEF Queueable, Received
  <1> HIDE DEF r
  <1>5. receipt' \in [Worker -> Received \union {None}] /\ receipt'[w] = r /\ r # None
    BY <1>1, <1>4, JobsAssumption DEF IInv, Types, r
  <1>6. pendingReconcile' \in [Worker -> BOOLEAN]
    BY <1>1, Zenon DEF IInv, Types
  <1>7. Types'
    BY <1>2, <1>3, <1>5, <1>6 DEF IInv, Types, rows
  <1>8. pc'[w] = "handle"
    BY <1>2 DEF IInv, Types
  <1>9. r.body \in accepted \union {Reconcile, Unknown}
    BY <1>1, <1>4 DEF IInv, QueueOK, Deliverable
  <1>10. WorkerOK(w)'
    BY <1>1, <1>2, <1>3, <1>4, <1>5, <1>8, <1>9 DEF WorkerOK, SameBodies, Deliverable
  <1>11. \A v \in Worker \ {w} : UNCHANGED <<pc[v], receipt[v]>>
    BY <1>1, <1>2 DEF IInv, Types
  <1> QED
    BY <1>2, <1>3, <1>7, <1>10, <1>11, WorkerMoves DEF rows, MailStays

\* A message that SQS delivered and the worker did not get stays in the queue.
LEMMA LoseResponseKeeps ==
  ASSUME IInv, NEW w \in Worker, LoseResponse(w)
  PROVE  IInv'
  <1>1. /\ pc[w] = "receive" /\ pc' = [pc EXCEPT ![w] = "tick"]
        /\ UNCHANGED <<accepted, refused, dead, receipt, pendingReconcile, due, rows, mailed>>
    BY DEF LoseResponse, Go
  <1>2. PICK s \in Slot : Deliverable(s) /\ Hide(s)
    BY DEF LoseResponse
  <1>3. queue' \in [Slot -> Queueable \union {None}] /\ SameBodies
    BY <1>2, Hidden
  <1>4. Types'
    BY <1>1, <1>3 DEF IInv, Types, rows
  <1>5. pc'[w] = "tick" /\ receipt'[w] = None
    BY <1>1 DEF IInv, Types, WorkerOK
  <1>6. \A v \in Worker \ {w} : UNCHANGED <<pc[v], receipt[v]>>
    BY <1>1 DEF IInv, Types
  <1> QED
    BY <1>1, <1>3, <1>4, <1>5, <1>6, EmptyHanded, WorkerMoves DEF rows, MailStays

\* A worker that finds nothing, fails, drops its message, or skips its ticker.
LEMMA DropKeeps ==
  ASSUME IInv, NEW w \in Worker, NEW to \in {"receive", "tick"},
         pc' = [pc EXCEPT ![w] = to],
         receipt' \in {receipt, [receipt EXCEPT ![w] = None]},
         pc[w] \in {"receive", "tick"} \/ receipt' = [receipt EXCEPT ![w] = None],
         pendingReconcile' \in [Worker -> BOOLEAN], due' \in [Worker -> BOOLEAN],
         UNCHANGED <<accepted, refused, queue, dead, rows, mailed>>
  PROVE  IInv'
  <1>1. pc'[w] = to /\ receipt'[w] = None
    BY DEF IInv, Types, WorkerOK
  <1>2. Types'
    BY DEF IInv, Types, rows
  <1>3. \A v \in Worker \ {w} : UNCHANGED <<pc[v], receipt[v]>>
    BY DEF IInv, Types
  <1>4. SameBodies
    BY DEF SameBodies
  <1> QED
    BY <1>1, <1>2, <1>3, <1>4, EmptyHanded, WorkerMoves DEF rows, MailStays

\* An alert is mailed to its addresses, or to nobody if there are none, which is
\* the same; what is not an alert is not mailed.
LEMMA DeliverMails ==
  ASSUME Types, NEW w \in Worker, receipt[w].body \in Change, Deliver(w)
  PROVE  /\ mailed' \in [Change -> SUBSET Address]
         /\ \A c \in Change : mailed'[c] \subseteq IF c \in Alert THEN Addresses(c) ELSE {}
         /\ receipt[w].body \in Alert => mailed'[receipt[w].body] = Addresses(receipt[w].body)
         /\ MailStays
  <1> DEFINE c == receipt[w].body
  <1>1. Addresses(c) \subseteq Address
    BY DEF Address
  <1>2. /\ mailed \in [Change -> SUBSET Address]
        /\ \A d \in Change : mailed[d] \subseteq IF d \in Alert THEN Addresses(d) ELSE {}
    BY DEF Types
  <1>3. CASE /\ c \notin Alert \/ Addresses(c) = {}
             /\ UNCHANGED mailed
    <2>1. c \in Alert => mailed[c] = Addresses(c)
      BY <1>2, <1>3
    <2> QED
      BY <1>2, <1>3, <2>1 DEF MailStays
  <1>4. CASE /\ c \in Alert
             /\ mailed' = [mailed EXCEPT ![c] = @ \union Addresses(c)]
    <2>1. mailed[c] \union Addresses(c) = Addresses(c)
      BY <1>2, <1>4
    <2>2. /\ mailed' \in [Change -> SUBSET Address]
          /\ \A d \in Change : mailed'[d] = IF d = c THEN Addresses(c) ELSE mailed[d]
      BY <1>1, <1>2, <1>4, <2>1
    <2> QED
      BY <1>2, <1>4, <2>2 DEF MailStays
  <1> QED
    BY <1>3, <1>4 DEF Deliver

\* The handlers: another job needs nothing, a notification is mailed.
LEMMA HandleKeeps ==
  ASSUME IInv, NEW w \in Worker, HandleReconcile(w) \/ HandleNotify(w)
  PROVE  IInv'
  <1>1. /\ pc[w] = "handle"
        /\ UNCHANGED <<accepted, refused, queue, dead, receipt, pendingReconcile, due, rows>>
    BY DEF HandleReconcile, HandleNotify
  <1>2. receipt[w] \in Received
    BY <1>1 DEF IInv, Types, WorkerOK
  <1>3. SameBodies
    BY <1>1 DEF SameBodies
  <1>4. CASE HandleReconcile(w)
    <2>1. pc' = [pc EXCEPT ![w] = "delete"] /\ receipt[w].body = Reconcile /\ mailed' = mailed
      BY <1>4 DEF HandleReconcile, Go
    <2>2. Types'
      BY <1>1, <2>1 DEF IInv, Types, rows
    <2>3. pc'[w] = "delete"
      BY <2>1 DEF IInv, Types
    <2>4. WorkerOK(w)'
      BY <1>1, <1>2, <2>1, <2>3, JobsAssumption DEF IInv, WorkerOK
    <2>5. \A v \in Worker \ {w} : UNCHANGED <<pc[v], receipt[v]>>
      BY <1>1, <2>1 DEF IInv, Types
    <2> QED
      BY <1>1, <1>3, <2>1, <2>2, <2>4, <2>5, WorkerMoves DEF rows, MailStays
  <1>5. CASE HandleNotify(w)
    <2>1. /\ pc' = [pc EXCEPT ![w] = "commit"] /\ receipt[w].body \in Change
          /\ Deliver(w)
      BY <1>5 DEF HandleNotify, Go
    <2>2. /\ mailed' \in [Change -> SUBSET Address]
          /\ \A c \in Change : mailed'[c] \subseteq IF c \in Alert THEN Addresses(c) ELSE {}
          /\ receipt[w].body \in Alert => mailed'[receipt[w].body] = Addresses(receipt[w].body)
          /\ MailStays
      BY <2>1, DeliverMails DEF IInv
    <2>3. Types'
      BY <1>1, <2>1, <2>2 DEF IInv, Types, rows
    <2>4. pc'[w] = "commit"
      BY <2>1 DEF IInv, Types
    <2>5. WorkerOK(w)'
      BY <1>1, <1>2, <2>1, <2>2, <2>4 DEF IInv, WorkerOK
    <2>6. \A v \in Worker \ {w} : UNCHANGED <<pc[v], receipt[v]>>
      BY <1>1, <2>1 DEF IInv, Types
    <2> QED
      BY <1>1, <1>3, <2>2, <2>3, <2>5, <2>6, WorkerMoves DEF rows
  <1> QED
    BY <1>4, <1>5

\* The inbox of a change after a commit: its recipients have it, once.
LEMMA Commits ==
  ASSUME IInv, NEW w \in Worker, CommitNotify(w)
  PROVE  /\ receipt[w] \in Received /\ receipt[w].body \in Change
         /\ receipt[w].body \in accepted
         /\ inbox' = [inbox EXCEPT ![receipt[w].body] = Promise!Told(receipt[w].body)]
  <1> DEFINE c == receipt[w].body
  <1>1. pc[w] = "commit"
    BY DEF CommitNotify
  <1>2. receipt[w] \in Received /\ c \in Change
    BY <1>1 DEF IInv, Types, WorkerOK
  <1>3. c \in accepted
    BY <1>2, JobsAssumption DEF IInv, Types, WorkerOK
  <1>4. inbox' = [inbox EXCEPT ![c] = [u \in User |-> Inserted(inbox[c][u], u \in Recipients(c))]]
    BY DEF CommitNotify
  <1>5. inbox[c] \in {Promise!Told(c), Promise!Untold}
    BY <1>2 DEF IInv, InboxOK
  <1>6. \A u \in User : inbox[c][u] = 0 \/ (inbox[c][u] = 1 /\ u \in Recipients(c))
    BY <1>5 DEF Promise!Told, Promise!Untold
  <1>7. \A u \in User : u \notin Recipients(c) => inbox[c][u] = 0
    BY <1>6
  <1>8. \A u \in User : Inserted(inbox[c][u], u \in Recipients(c)) =
                          IF u \in Recipients(c) THEN 1 ELSE 0
    BY <1>6, <1>7 DEF Inserted
  <1>9. [u \in User |-> Inserted(inbox[c][u], u \in Recipients(c))] = Promise!Told(c)
    BY <1>8 DEF Promise!Told
  <1> QED
    BY <1>2, <1>3, <1>4, <1>9

\* The rows of a notification are committed: its change is told.
LEMMA CommitNotifyKeeps ==
  ASSUME IInv, NEW w \in Worker, CommitNotify(w)
  PROVE  IInv'
  <1> DEFINE c == receipt[w].body
  <1>1. /\ pc[w] = "commit" /\ pc' = [pc EXCEPT ![w] = "delete"]
        /\ UNCHANGED <<accepted, refused, queue, dead, receipt, pendingReconcile, due, read,
                       mailed>>
    BY DEF CommitNotify, Go
  <1>2. /\ receipt[w] \in Received /\ c \in Change
        /\ inbox' = [inbox EXCEPT ![c] = Promise!Told(c)]
    BY Commits
  <1>3. Recipients(c) \subseteq User
    BY <1>2, JobsAssumption
  <1>4. Promise!Told(c) \in [User -> Nat] /\ \A u \in Recipients(c) : Promise!Told(c)[u] > 0
    BY <1>3 DEF Promise!Told
  <1>5. inbox'[c] = Promise!Told(c) /\ \A d \in Change \ {c} : inbox'[d] = inbox[d]
    BY <1>2 DEF IInv, Types
  <1>6. Types'
    BY <1>1, <1>2, <1>4 DEF IInv, Types
  <1>7. Told(c)'
    BY <1>1, <1>4, <1>5 DEF Told
  <1>8. \A d \in Change : Told(d) => Told(d)'
    BY <1>4, <1>5 DEF Told
  <1>9. pc'[w] = "delete"
    BY <1>1 DEF IInv, Types
  <1>10. WorkerOK(w)'
    BY <1>1, <1>2, <1>7, <1>9 DEF IInv, WorkerOK, Told
  <1>11. \A v \in Worker \ {w} : UNCHANGED <<pc[v], receipt[v]>>
    BY <1>1 DEF IInv, Types
  <1>12. \A v \in Worker : WorkerOK(v)'
    <2>1. FilledIfFree /\ MailStays
      BY <1>1 DEF FilledIfFree, MailStays
    <2> QED
      BY <1>1, <1>8, <1>10, <1>11, <2>1, WorkerFrame DEF IInv
  <1>13. QueueOK' /\ AcceptedIsKept'
    BY <1>1, <1>8, KeptFrame DEF IInv, QueueOK
  <1>14. InboxOK'
    <2>1. \A d \in Change : (inbox[d] \in {Promise!Told(d), Promise!Untold})'
      BY <1>5 DEF IInv, InboxOK, Promise!Told, Promise!Untold
    <2> QED
      BY <2>1 DEF InboxOK
  <1>15. AlertsAreMailed'
    <2> SUFFICES ASSUME NEW d \in Change, d \in Alert, NEW u \in User, inbox'[d][u] > 0
                 PROVE  mailed[d] = Addresses(d)
      BY <1>1, <1>6 DEF AlertsAreMailed, Types
    <2>1. CASE d = c
      BY <1>1, <2>1 DEF IInv, WorkerOK
    <2>2. CASE d # c
      BY <1>5, <2>2 DEF IInv, AlertsAreMailed
    <2> QED
      BY <2>1, <2>2
  <1> QED
    BY <1>6, <1>12, <1>13, <1>14, <1>15 DEF IInv

\* A message is deleted by the worker that has told it, or not at all.
LEMMA DeleteKeeps ==
  ASSUME IInv, NEW w \in Worker, Delete(w)
  PROVE  IInv'
  <1> DEFINE s == receipt[w].slot
  <1>1. /\ pc[w] = "delete" /\ pc' = [pc EXCEPT ![w] = "tick"]
        /\ receipt' = [receipt EXCEPT ![w] = None]
        /\ queue' \in {queue, [queue EXCEPT ![s] = None]}
        /\ UNCHANGED <<accepted, refused, dead, pendingReconcile, due, rows, mailed>>
    BY DEF Delete, Drop, Go
  <1>2. receipt[w] \in Received /\ s \in Slot
    BY <1>1 DEF IInv, Types, WorkerOK, Received
  <1>3. Types'
    BY <1>1 DEF IInv, Types, rows
  <1>4. \A c \in Change : Told(c) => Told(c)'
    BY <1>1 DEF Told, rows
  <1>5. \A r \in Slot : queue'[r] = queue[r] \/ (r = s /\ queue'[r] = None)
    BY <1>1 DEF IInv, Types
  <1>6. FilledIfFree /\ MailStays
    BY <1>1, <1>5 DEF FilledIfFree, MailStays
  <1>7. pc'[w] = "tick" /\ receipt'[w] = None
    BY <1>1 DEF IInv, Types
  <1>8. \A v \in Worker \ {w} : UNCHANGED <<pc[v], receipt[v]>>
    BY <1>1 DEF IInv, Types
  <1>9. \A v \in Worker : WorkerOK(v)'
    BY <1>1, <1>4, <1>6, <1>7, <1>8, EmptyHanded, WorkerFrame DEF IInv
  <1>10. QueueOK'
    BY <1>1, <1>5 DEF IInv, QueueOK
  <1>11. queue[s] # None => queue[s].body = receipt[w].body
    BY <1>1, <1>2 DEF IInv, WorkerOK
  <1>12. \A c \in Change : c = receipt[w].body => Told(c)
    BY <1>1 DEF IInv, WorkerOK
  <1>13. \A r \in Slot : queue[r] # None =>
           \/ queue'[r] # None /\ queue'[r].body = queue[r].body
           \/ \A c \in accepted : c = queue[r].body => Told(c)'
    <2> SUFFICES ASSUME NEW r \in Slot, queue[r] # None, queue'[r] # queue[r],
                        NEW c \in accepted, c = queue[r].body
                 PROVE  Told(c)'
      OBVIOUS
    <2>1. c = receipt[w].body
      BY <1>5, <1>11
    <2>2. c \in Change
      BY DEF IInv, Types
    <2> QED
      BY <1>4, <1>12, <2>1, <2>2
  <1>14. AcceptedIsKept'
    BY <1>1, <1>4, <1>13, KeptFrame DEF IInv
  <1>15. InboxOK' /\ AlertsAreMailed'
    BY <1>1 DEF IInv, InboxOK, AlertsAreMailed, Promise!Told, Promise!Untold, rows
  <1> QED
    BY <1>3, <1>9, <1>10, <1>14, <1>15 DEF IInv

\* The ticker sends its job, and may believe that it failed.
LEMMA TickerKeeps ==
  ASSUME IInv, NEW w \in Worker, EnqueueReconcile(w) \/ EnqueueReconcileFails(w)
  PROVE  IInv'
  <1>1. /\ pc[w] = "tick" /\ pc' = [pc EXCEPT ![w] = "receive"]
        /\ UNCHANGED queue \/ Send(Reconcile)
        /\ UNCHANGED <<accepted, refused, dead, receipt, rows, mailed>>
    BY DEF EnqueueReconcile, EnqueueReconcileFails, Go
  <1>2. pendingReconcile' \in [Worker -> BOOLEAN] /\ due' \in [Worker -> BOOLEAN]
    BY DEF EnqueueReconcile, EnqueueReconcileFails, IInv, Types
  <1>3. CASE UNCHANGED queue
    BY <1>1, <1>2, <1>3, DropKeeps
  <1>4. CASE Send(Reconcile)
    <2>1. PICK places \in SUBSET Slot : Fills(Reconcile, places)
      BY <1>4, Sends DEF IInv
    <2>2. /\ Reconcile \in Body /\ accepted' \subseteq Change
          /\ UNCHANGED <<dead, inbox, mailed, receipt>>
      BY <1>1 DEF Body, IInv, Types, rows
    <2>3. /\ queue' \in [Slot -> Queueable \union {None}]
          /\ \A v \in Worker : UNCHANGED <<pc[v], receipt[v]>> => WorkerOK(v)'
          /\ QueueOK' /\ InboxOK' /\ AcceptedIsKept' /\ AlertsAreMailed'
      BY <1>1, <2>1, <2>2, FillKeeps
    <2>4. Types'
      BY <1>1, <1>2, <2>3 DEF IInv, Types, rows
    <2>5. WorkerOK(w)'
      BY <1>1, EmptyHanded DEF IInv, Types, WorkerOK
    <2>6. \A v \in Worker \ {w} : UNCHANGED <<pc[v], receipt[v]>>
      BY <1>1 DEF IInv, Types
    <2> QED
      BY <2>3, <2>4, <2>5, <2>6 DEF IInv
  <1> QED
    BY <1>1, <1>3, <1>4

-----------------------------------------------------------------------------
(***************************************************************************)
(* The invariant and the properties                                        *)
(***************************************************************************)

\* A worker's step that sends nothing: it gives its message up, or goes on.
LEMMA GivesUpKeeps ==
  ASSUME IInv, NEW w \in Worker,
         \/ ReceiveNothing(w) \/ HandleUnknown(w) \/ JobFails(w) \/ DeleteFails(w)
         \/ SkipTick(w) \/ Crash(w)
  PROVE  IInv'
  <1>1. CASE ReceiveNothing(w)
    BY <1>1, DropKeeps DEF ReceiveNothing, Go, IInv, Types
  <1>2. CASE HandleUnknown(w)
    BY <1>2, DropKeeps DEF HandleUnknown, Go, Drop, IInv, Types
  <1>3. CASE JobFails(w)
    BY <1>3, DropKeeps DEF JobFails, AfterFailure, Go, Drop, IInv, Types
  <1>4. CASE DeleteFails(w)
    BY <1>4, DropKeeps DEF DeleteFails, Go, Drop, IInv, Types
  <1>5. CASE SkipTick(w)
    BY <1>5, DropKeeps DEF SkipTick, Go, IInv, Types
  <1>6. CASE Crash(w)
    BY <1>6, DropKeeps DEF Crash, Go, Drop, IInv, Types
  <1> QED
    BY <1>1, <1>2, <1>3, <1>4, <1>5, <1>6

\* Time that passes for the ticker, and a user who reads, change no message.
LEMMA BesideKeeps ==
  ASSUME IInv, \/ \E w \in Worker : IntervalPasses(w)
               \/ \E u \in User : MarkRead(u) \/ MarkAllRead(u)
  PROVE  IInv'
  <1>1. UNCHANGED <<accepted, refused, queue, dead, pc, receipt, pendingReconcile, inbox, mailed>>
    BY DEF IntervalPasses, MarkRead, MarkAllRead, rows, worker
  <1>2. due' \in [Worker -> BOOLEAN]
    BY DEF IntervalPasses, MarkRead, MarkAllRead, worker, IInv, Types
  <1>3. read' \in [Change -> [User -> BOOLEAN]]
    <2>1. CASE \E w \in Worker : IntervalPasses(w)
      BY <2>1 DEF IntervalPasses, rows, IInv, Types
    <2>2. CASE \E u \in User : MarkRead(u)
      <3>1. PICK c \in Change, u \in User : read' = [read EXCEPT ![c][u] = TRUE]
        BY <2>2 DEF MarkRead
      <3> QED
        BY <3>1 DEF IInv, Types
    <2>3. CASE \E u \in User : MarkAllRead(u)
      <3>1. PICK u \in User : read' = [c \in Change |-> [v \in User |->
                                         read[c][v] \/ (v = u /\ inbox[c][u] > 0)]]
        BY <2>3 DEF MarkAllRead
      <3>2. \A c \in Change, v \in User : (read[c][v] \/ (v = u /\ inbox[c][u] > 0)) \in BOOLEAN
        OBVIOUS
      <3> QED
        BY <3>1, <3>2
    <2> QED
      BY <2>1, <2>2, <2>3
  <1>4. Types'
    BY <1>1, <1>2, <1>3 DEF IInv, Types
  <1>5. SameBodies
    BY <1>1 DEF SameBodies
  <1> QED
    BY <1>1, <1>4, <1>5, AsideKeeps

\* Every step keeps the invariant.
LEMMA NextIInv == IInv /\ [Next]_vars => IInv'
  <1> SUFFICES ASSUME IInv, [Next]_vars
               PROVE  IInv'
    OBVIOUS
  <1>1. CASE \E c \in Change : Enqueue(c) \/ EnqueueFails(c)
    BY <1>1, EnqueueKeeps
  <1>2. CASE SendUnknown
    BY <1>2, SendUnknownKeeps
  <1>3. CASE \E s \in Slot : VisibilityExpires(s) \/ DeadLetter(s)
    BY <1>3, VisibilityExpiresKeeps, DeadLetterKeeps
  <1>4. ASSUME NEW w \in Worker,
               \/ WorkerStep(w) \/ LoseResponse(w) \/ JobFails(w) \/ DeleteFails(w)
               \/ EnqueueReconcileFails(w) \/ IntervalPasses(w) \/ Crash(w)
        PROVE  IInv'
    <2>1. CASE Receive(w)
      BY <2>1, ReceiveKeeps
    <2>2. CASE HandleReconcile(w) \/ HandleNotify(w)
      BY <2>2, HandleKeeps
    <2>3. CASE CommitNotify(w)
      BY <2>3, CommitNotifyKeeps
    <2>4. CASE Delete(w)
      BY <2>4, DeleteKeeps
    <2>5. CASE EnqueueReconcile(w) \/ EnqueueReconcileFails(w)
      BY <2>5, TickerKeeps
    <2>6. CASE LoseResponse(w)
      BY <2>6, LoseResponseKeeps
    <2>7. CASE \/ ReceiveNothing(w) \/ HandleUnknown(w) \/ JobFails(w) \/ DeleteFails(w)
               \/ SkipTick(w) \/ Crash(w)
      BY <2>7, GivesUpKeeps
    <2>8. CASE IntervalPasses(w)
      BY <2>8, BesideKeeps
    <2> QED
      BY <1>4, <2>1, <2>2, <2>3, <2>4, <2>5, <2>6, <2>7, <2>8 DEF WorkerStep
  <1>5. CASE \E u \in User : MarkRead(u) \/ MarkAllRead(u)
    BY <1>5, BesideKeeps
  <1>6. CASE UNCHANGED vars
    <2>1. UNCHANGED <<accepted, refused, queue, dead, pc, receipt, pendingReconcile, due, inbox,
                      read, mailed>>
      BY <1>6 DEF vars, worker, rows
    <2>2. Types' /\ SameBodies
      BY <2>1 DEF IInv, Types, SameBodies
    <2> QED
      BY <2>1, <2>2, AsideKeeps
  <1> QED
    BY <1>1, <1>2, <1>3, <1>4, <1>5, <1>6 DEF Next

LEMMA Invariant == Spec => []IInv
  BY InitIInv, NextIInv, PTL DEF Spec

\* Every variable keeps its type, and a worker holds a message exactly while it
\* works on one.
THEOREM TypeCorrect == Spec => []TypeOK
  <1>1. IInv => TypeOK
    <2> SUFFICES ASSUME IInv
                 PROVE  TypeOK
      OBVIOUS
    <2>1. \A w \in Worker : receipt[w] # None => receipt[w].slot \in Slot /\ receipt[w].body \in Body
      BY DEF IInv, Types, Received
    <2>2. \A w \in Worker : /\ pc[w] \in {"handle", "commit", "delete"} <=> receipt[w] # None
                            /\ pc[w] = "commit" => receipt[w].body \in Change
      BY DEF IInv, Types, WorkerOK
    <2> QED
      BY <2>1, <2>2 DEF IInv, Types, TypeOK
  <1> QED
    BY <1>1, Invariant, PTL

\* Whatever is lost, repeated, delivered late or crashes, an accepted change is in
\* the queue until it is told, or among the dead letters.
THEOREM AcceptedStaysKept == Spec => []AcceptedIsKept
  <1>1. IInv => AcceptedIsKept
    BY DEF IInv
  <1> QED
    BY <1>1, Invariant, PTL

\* Whatever is delivered again, fails or crashes, an alert in an inbox was mailed
\* to its seller and to the extra address, as far as there are any, and an e-mail
\* goes to nobody else and about nothing else.
THEOREM AlertsWereMailed == Spec => []AlertsAreMailed
  <1>1. IInv => AlertsAreMailed
    BY DEF IInv
  <1> QED
    BY <1>1, Invariant, PTL

-----------------------------------------------------------------------------
(***************************************************************************)
(* Jobs implements Inbox                                                   *)
(***************************************************************************)
inboxVars == <<accepted, inbox, read>>

\* A commit tells the change for the first time, or changes nothing.
LEMMA CommitTells ==
  ASSUME IInv, NEW w \in Worker, CommitNotify(w)
  PROVE  [Promise!Next]_inboxVars
  <1> DEFINE c == receipt[w].body
  <1>1. /\ c \in Change /\ c \in accepted
        /\ inbox' = [inbox EXCEPT ![c] = Promise!Told(c)]
    BY Commits
  <1>2. UNCHANGED <<accepted, read>>
    BY DEF CommitNotify
  <1> HIDE DEF c
  <1>3. CASE inbox[c] = Promise!Untold
    <2>1. Promise!Tell(c)
      BY <1>1, <1>2, <1>3 DEF Promise!Tell
    <2> QED
      BY <1>1, <2>1 DEF Promise!Next
  <1>4. CASE inbox[c] = Promise!Told(c)
    <2>1. inbox' = inbox
      BY <1>1, <1>4 DEF IInv, Types
    <2> QED
      BY <1>2, <2>1 DEF inboxVars
  <1> QED
    BY <1>1, <1>3, <1>4 DEF IInv, InboxOK

\* A user marks one of the notifications, or all of them, as read.
LEMMA ReadingMarks ==
  ASSUME IInv, NEW u \in User, MarkRead(u) \/ MarkAllRead(u)
  PROVE  Promise!Mark(u)
  <1>1. UNCHANGED <<accepted, inbox>>
    BY DEF MarkRead, MarkAllRead
  <1>2. read \in [Change -> [User -> BOOLEAN]] /\ inbox \in [Change -> [User -> Nat]]
    BY DEF IInv, Types
  <1>3. CASE MarkRead(u)
    <2>1. PICK d \in Change : /\ inbox[d][u] > 0
                              /\ read' = [read EXCEPT ![d][u] = TRUE]
      BY <1>3 DEF MarkRead
    <2>2. read' \in [Change -> [User -> BOOLEAN]]
      BY <1>2, <2>1
    <2>3. \A c \in Change, v \in User :
            read'[c][v] = IF c = d /\ v = u THEN TRUE ELSE read[c][v]
      BY <1>2, <2>1
    <2>4. ASSUME NEW c \in Change
          PROVE  /\ read[c][u] => read'[c][u]
                 /\ read'[c][u] => read[c][u] \/ inbox[c][u] > 0
                 /\ \A v \in User \ {u} : read'[c][v] = read[c][v]
      <3>1. CASE c = d
        BY <2>1, <2>3, <3>1
      <3>2. CASE c # d
        BY <2>3, <3>2
      <3> QED
        BY <3>1, <3>2
    <2> QED
      BY <1>1, <2>2, <2>4 DEF Promise!Mark
  <1>4. CASE MarkAllRead(u)
    <2>1. read' = [c \in Change |-> [v \in User |-> read[c][v] \/ (v = u /\ inbox[c][u] > 0)]]
      BY <1>4 DEF MarkAllRead
    <2>2. \A c \in Change, v \in User : (read[c][v] \/ (v = u /\ inbox[c][u] > 0)) \in BOOLEAN
      OBVIOUS
    <2>3. read' \in [Change -> [User -> BOOLEAN]]
      BY <2>1, <2>2
    <2>4. \A c \in Change, v \in User :
            read'[c][v] = (read[c][v] \/ (v = u /\ inbox[c][u] > 0))
      BY <2>1
    <2>5. ASSUME NEW c \in Change
          PROVE  /\ read[c][u] => read'[c][u]
                 /\ read'[c][u] => read[c][u] \/ inbox[c][u] > 0
                 /\ \A v \in User \ {u} : read'[c][v] = read[c][v]
      <3>1. read[c] \in [User -> BOOLEAN]
        BY <1>2
      <3>2. /\ read[c][u] => read'[c][u]
            /\ read'[c][u] => read[c][u] \/ inbox[c][u] > 0
        BY <2>4
      <3>3. \A v \in User \ {u} : read'[c][v] = read[c][v]
        BY <2>4, <3>1, Zenon
      <3> QED
        BY <3>2, <3>3
    <2> QED
      BY <1>1, <2>3, <2>5 DEF Promise!Mark
  <1> QED
    BY <1>3, <1>4

\* Each step is a step of Inbox, or changes nothing that Inbox tells of.
LEMMA StepsOfInbox == IInv /\ [Next]_vars => [Promise!Next]_inboxVars
  <1> SUFFICES ASSUME IInv, [Next]_vars
               PROVE  [Promise!Next]_inboxVars
    OBVIOUS
  <1>1. CASE \E c \in Change : Enqueue(c)
    <2>1. PICK c \in Change : Enqueue(c)
      BY <1>1
    <2>2. Promise!Accept(c)
      BY <2>1 DEF Enqueue, Promise!Accept, rows
    <2> QED
      BY <2>2 DEF Promise!Next
  <1>2. CASE \E w \in Worker : CommitNotify(w)
    BY <1>2, CommitTells
  <1>3. CASE \E u \in User : MarkRead(u) \/ MarkAllRead(u)
    <2>1. PICK u \in User : Promise!Mark(u)
      BY <1>3, ReadingMarks
    <2> QED
      BY <2>1 DEF Promise!Next
  <1>4. CASE \/ \E c \in Change : EnqueueFails(c)
             \/ SendUnknown
             \/ \E s \in Slot : VisibilityExpires(s) \/ DeadLetter(s)
             \/ UNCHANGED vars
    BY <1>4 DEF EnqueueFails, SendUnknown, VisibilityExpires, DeadLetter, vars, rows, inboxVars
  <1>5. ASSUME NEW w \in Worker,
               \/ WorkerStep(w) \/ LoseResponse(w) \/ JobFails(w) \/ DeleteFails(w)
               \/ EnqueueReconcileFails(w) \/ IntervalPasses(w) \/ Crash(w)
        PROVE  CommitNotify(w) \/ UNCHANGED inboxVars
    BY <1>5 DEF WorkerStep, Receive, ReceiveNothing, HandleUnknown, HandleReconcile, HandleNotify,
                Delete, EnqueueReconcile, SkipTick, LoseResponse, JobFails, DeleteFails,
                EnqueueReconcileFails, IntervalPasses, Crash, rows, inboxVars
  <1> QED
    BY <1>1, <1>2, <1>3, <1>4, <1>5 DEF Next

\* The queue and its workers keep the promise of Inbox: all recipients of a change
\* are told at once, and once, and what they have read stays read.
THEOREM ImplementsInbox == Spec => KeepsPromise
  <1>1. Init => Promise!Init
    BY DEF Init, Promise!Init, Promise!Untold
  <1> QED
    BY <1>1, StepsOfInbox, Invariant, PTL DEF Spec, KeepsPromise, Promise!Spec, inboxVars

=============================================================================
