-------------------------------- MODULE Jobs --------------------------------
(***************************************************************************)
(* The job queue and its workers, with the notifications they write.  A    *)
(* notifiable change is sent to the queue after its commit; SQS delivers   *)
(* each message at least once, in any order, hides it for a time, and      *)
(* moves it to the dead letters after MaxReceive deliveries; a worker      *)
(* deletes it after its handler has succeeded.  The worker also publishes  *)
(* RECONCILE_PRIORITIES, whose handler is in Priority.tla.                 *)
(***************************************************************************)
EXTENDS Integers, FiniteSets

CONSTANTS
  Change,         \* notifiable changes, each with a key of its own
  Alert,          \* those of them that should_email
  User,
  Recipients(_),  \* resolve_recipients
  SellerEmail(_), \* seller_email_for_item: None if the seller has no user
  Extra,          \* Settings.notification_email_extra_to: None if it is empty
  Slot,           \* room of the queue, a bound
  Worker,
  MaxReceive,     \* JOBS_MAX_RECEIVE_COUNT
  MaxFailures,    \* bound of the failures and crashes
  MaxLost,        \* bound of the responses that a worker does not get
  Reconcile,      \* the body of the other job
  Unknown,        \* a body without a handler, or that does not parse
  None

\* resolve_email_recipients, which merges the two: never Ops, and maybe nobody.
Addresses(c) == {SellerEmail(c), Extra} \ {None}

Address == UNION {Addresses(c) : c \in Change}

Body == Change \union {Reconcile, Unknown}

\* A message of the queue, and one that a worker has received for the nth time.
Queueable == [body : Body, receives : 0 .. MaxReceive, visible : BOOLEAN]
Received == [slot : Slot, body : Body, nth : 1 .. MaxReceive]

ASSUME JobsAssumption ==
  /\ Alert \subseteq Change
  /\ \A c \in Change : Recipients(c) \subseteq User
  /\ MaxReceive \in Nat \ {0} /\ MaxFailures \in Nat /\ MaxLost \in Nat
  /\ Reconcile # Unknown /\ {Reconcile, Unknown} \intersect Change = {}
  /\ None \notin Slot \union Worker \union Change \union {Reconcile, Unknown}
  /\ None \notin Queueable /\ None \notin Received

VARIABLES
  accepted,  \* changes sent to the queue
  refused,   \* changes whose enqueue failed: logged, and forgotten
  queue,     \* queue[s]: a message, or None
  dead,      \* bodies in the dead letter queue
  pc,
  receipt,   \* receipt[w]: the message the worker holds, or None
  pendingReconcile,
  due,       \* clock() - last_enqueued_at >= interval
  inbox,     \* rows of notifications, by change and recipient
  read,      \* notifications.read_at is not NULL
  mailed,    \* mailed[c]: the addresses an e-mail about c was sent to
  failures,
  lost

worker == <<pc, receipt, pendingReconcile, due>>
rows   == <<inbox, read>>
vars   == <<accepted, refused, queue, dead, worker, rows, mailed, failures, lost>>

Init ==
  /\ accepted = {} /\ refused = {}
  /\ queue = [s \in Slot |-> None]
  /\ dead = {}
  /\ pc = [w \in Worker |-> "receive"]
  /\ receipt = [w \in Worker |-> None]
  /\ pendingReconcile = [w \in Worker |-> FALSE]
  /\ due = [w \in Worker |-> TRUE]
  /\ inbox = [c \in Change |-> [u \in User |-> 0]]
  /\ read = [c \in Change |-> [u \in User |-> FALSE]]
  /\ mailed = [c \in Change |-> {}]
  /\ failures = 0 /\ lost = 0

Fail ==
  /\ failures < MaxFailures
  /\ failures' = failures + 1

-----------------------------------------------------------------------------
(***************************************************************************)
(* SQS.  A slot is used again when nobody holds its former message.        *)
(***************************************************************************)
Free(s) == queue[s] = None /\ \A w \in Worker : receipt[w] # None => receipt[w].slot # s

Message(body) == [body |-> body, receives |-> 0, visible |-> TRUE]

FreeSlots == {s \in Slot : Free(s)}

\* Which of the free slots it is makes no difference.
Send(body) ==
  /\ FreeSlots # {}
  /\ queue' = [queue EXCEPT ![CHOOSE s \in FreeSlots : TRUE] = Message(body)]

\* A send that the client repeats after a timeout may leave two messages.
SendTwice(body) ==
  /\ Cardinality(FreeSlots) > 1
  /\ LET s == CHOOSE r \in FreeSlots : TRUE
         t == CHOOSE r \in FreeSlots \ {s} : TRUE
     IN queue' = [queue EXCEPT ![s] = Message(body), ![t] = Message(body)]

\* Mutant of Deliverable: the queue has no redrive policy.
WithoutRedrive(s) == queue[s] # None /\ queue[s].visible

Deliverable(s) ==
  queue[s] # None /\ queue[s].visible /\ queue[s].receives < MaxReceive

Hide(s) == queue' = [queue EXCEPT ![s].receives = @ + 1, ![s].visible = FALSE]

VisibilityExpires(s) ==
  /\ queue[s] # None /\ ~queue[s].visible
  /\ queue' = [queue EXCEPT ![s].visible = TRUE]
  /\ UNCHANGED <<accepted, refused, dead, worker, rows, mailed, failures, lost>>

DeadLetter(s) ==
  /\ queue[s] # None /\ queue[s].visible
  /\ queue[s].receives = MaxReceive
  /\ dead' = dead \union {queue[s].body}
  /\ queue' = [queue EXCEPT ![s] = None]
  /\ UNCHANGED <<accepted, refused, worker, rows, mailed, failures, lost>>

-----------------------------------------------------------------------------
(***************************************************************************)
(* enqueue_notifiable, after the commit of the change.  A send that raises *)
(* although SQS has the message is an Enqueue too.                         *)
(***************************************************************************)
Enqueue(c) ==
  /\ c \notin accepted \union refused
  /\ Send(c) \/ SendTwice(c)
  /\ accepted' = accepted \union {c}
  /\ UNCHANGED <<refused, dead, worker, rows, mailed, failures, lost>>

EnqueueFails(c) ==
  /\ c \notin accepted \union refused
  /\ Fail
  /\ refused' = refused \union {c}
  /\ UNCHANGED <<accepted, queue, dead, worker, rows, mailed, lost>>

\* Somebody else sends a job nobody knows.
SendUnknown ==
  /\ Fail
  /\ Send(Unknown)
  /\ UNCHANGED <<accepted, refused, dead, worker, rows, mailed, lost>>

-----------------------------------------------------------------------------
(***************************************************************************)
(* process_once: one message at most                                       *)
(***************************************************************************)
Go(w, step) == pc' = [pc EXCEPT ![w] = step]

Drop(w) == receipt' = [receipt EXCEPT ![w] = None]

\* Mutant of OnJob: the ticker waits for ever for its first job.
OnJobIgnored(w, body) == UNCHANGED pendingReconcile

\* The pending job is forgotten as soon as one is received.
OnJob(w, body) ==
  pendingReconcile' = [pendingReconcile EXCEPT ![w] = @ /\ body # Reconcile]

Receive(w) ==
  /\ pc[w] = "receive"
  /\ \E s \in Slot :
       /\ Deliverable(s)
       /\ Hide(s)
       /\ receipt' = [receipt EXCEPT ![w] =
                        [slot |-> s, body |-> queue[s].body, nth |-> queue[s].receives + 1]]
       /\ OnJob(w, queue[s].body)
  /\ Go(w, "handle")
  /\ UNCHANGED <<accepted, refused, dead, due, rows, mailed, failures, lost>>

ReceiveNothing(w) ==
  /\ pc[w] = "receive"
  /\ \A s \in Slot : ~Deliverable(s)
  /\ Go(w, "tick")
  /\ UNCHANGED <<accepted, refused, queue, dead, receipt, pendingReconcile, due, rows,
                 mailed, failures, lost>>

\* ReadTimeoutError: SQS has delivered a message, the worker has not got it.
LoseResponse(w) ==
  /\ pc[w] = "receive"
  /\ lost < MaxLost
  /\ lost' = lost + 1
  /\ \E s \in Slot : Deliverable(s) /\ Hide(s)
  /\ Go(w, "tick")
  /\ UNCHANGED <<accepted, refused, dead, receipt, pendingReconcile, due, rows, mailed,
                 failures>>

\* parse_job or resolve raises: "job failed", and the message stays.
HandleUnknown(w) ==
  /\ pc[w] = "handle" /\ receipt[w].body = Unknown
  /\ Drop(w)
  /\ Go(w, "tick")
  /\ UNCHANGED <<accepted, refused, queue, dead, pendingReconcile, due, rows, mailed,
                 failures, lost>>

HandleReconcile(w) ==
  /\ pc[w] = "handle" /\ receipt[w].body = Reconcile
  /\ Go(w, "delete")
  /\ UNCHANGED <<accepted, refused, queue, dead, receipt, pendingReconcile, due, rows,
                 mailed, failures, lost>>

\* Mutant of Deliver: the e-mail is left for after the commit.
DeliverWithoutMail(w) == UNCHANGED mailed

\* Mutant of Deliver: the e-mail goes to whoever has the notification.
DeliverToInbox(w) ==
  LET c == receipt[w].body
  IN mailed' = [mailed EXCEPT ![c] = IF c \in Alert THEN @ \union Recipients(c) ELSE @]

\* _deliver_email, within the transaction of the notifications: nothing is sent
\* about what is not an alert, or when there is no address.
Deliver(w) ==
  LET c == receipt[w].body
  IN \/ /\ c \notin Alert \/ Addresses(c) = {}
        /\ UNCHANGED mailed
     \/ /\ c \in Alert /\ Addresses(c) # {}
        /\ mailed' = [mailed EXCEPT ![c] = @ \union Addresses(c)]

HandleNotify(w) ==
  /\ pc[w] = "handle" /\ receipt[w].body \in Change
  /\ Deliver(w)
  /\ Go(w, "commit")
  /\ UNCHANGED <<accepted, refused, queue, dead, receipt, pendingReconcile, due, rows,
                 failures, lost>>

\* Mutant of Inserted: there is no unique key.
InsertedAgain(row, wanted) == IF wanted THEN row + 1 ELSE row

\* Each recipient in a savepoint: the unique key lets the first row in only.
Inserted(row, wanted) == IF wanted /\ row = 0 THEN 1 ELSE row

CommitNotify(w) ==
  LET c == receipt[w].body
  IN /\ pc[w] = "commit"
     /\ inbox' = [inbox EXCEPT ![c] =
                    [u \in User |-> Inserted(inbox[c][u], u \in Recipients(c))]]
     /\ Go(w, "delete")
     /\ UNCHANGED <<accepted, refused, queue, dead, receipt, pendingReconcile, due, read,
                    mailed, failures, lost>>

\* Mutant of AfterFailure: a job that failed is deleted like any other.
ThenDelete(w) == Go(w, "delete") /\ UNCHANGED receipt

AfterFailure(w) == Go(w, "tick") /\ Drop(w)

\* The handler raises and its transaction is rolled back.
JobFails(w) ==
  /\ pc[w] \in {"handle", "commit"}
  /\ Fail
  /\ AfterFailure(w)
  /\ UNCHANGED <<accepted, refused, queue, dead, pendingReconcile, due, rows, mailed, lost>>

\* An old receipt, of a message delivered again since, may delete it or not.
Delete(w) ==
  LET s == receipt[w].slot
  IN /\ pc[w] = "delete"
     /\ \/ queue' = [queue EXCEPT ![s] = None]
        \/ /\ queue[s] # None => queue[s].receives # receipt[w].nth
           /\ UNCHANGED queue
     /\ Drop(w)
     /\ Go(w, "tick")
     /\ UNCHANGED <<accepted, refused, dead, pendingReconcile, due, rows, mailed,
                    failures, lost>>

\* queue.delete raises: the loop logs it and goes back to receive.
DeleteFails(w) ==
  /\ pc[w] = "delete"
  /\ Fail
  /\ Drop(w)
  /\ Go(w, "receive")
  /\ UNCHANGED <<accepted, refused, queue, dead, pendingReconcile, due, rows, mailed, lost>>

-----------------------------------------------------------------------------
(***************************************************************************)
(* The ticker, after each turn of the loop                                 *)
(***************************************************************************)
IntervalPasses(w) ==
  /\ ~due[w]
  /\ due' = [due EXCEPT ![w] = TRUE]
  /\ UNCHANGED <<accepted, refused, queue, dead, pc, receipt, pendingReconcile, rows,
                 mailed, failures, lost>>

TickerDue(w) == due[w] /\ ~pendingReconcile[w]

EnqueueReconcile(w) ==
  /\ pc[w] = "tick"
  /\ TickerDue(w)
  /\ Send(Reconcile)
  /\ pendingReconcile' = [pendingReconcile EXCEPT ![w] = TRUE]
  /\ due' = [due EXCEPT ![w] = FALSE]
  /\ Go(w, "receive")
  /\ UNCHANGED <<accepted, refused, dead, receipt, rows, mailed, failures, lost>>

\* The send raises, and the message may be in the queue all the same.
EnqueueReconcileFails(w) ==
  /\ pc[w] = "tick"
  /\ TickerDue(w)
  /\ Fail
  /\ UNCHANGED queue \/ Send(Reconcile)
  /\ Go(w, "receive")
  /\ UNCHANGED <<accepted, refused, dead, receipt, pendingReconcile, due, rows, mailed,
                 lost>>

SkipTick(w) ==
  /\ pc[w] = "tick"
  /\ ~TickerDue(w)
  /\ Go(w, "receive")
  /\ UNCHANGED <<accepted, refused, queue, dead, receipt, pendingReconcile, due, rows,
                 mailed, failures, lost>>

\* The process dies anywhere and is started again.
Crash(w) ==
  /\ Fail
  /\ Drop(w)
  /\ pendingReconcile' = [pendingReconcile EXCEPT ![w] = FALSE]
  /\ due' = [due EXCEPT ![w] = TRUE]
  /\ Go(w, "receive")
  /\ UNCHANGED <<accepted, refused, queue, dead, rows, mailed, lost>>

-----------------------------------------------------------------------------
(***************************************************************************)
(* notifications/routes.py                                                 *)
(***************************************************************************)
MarkRead(u) ==
  /\ \E c \in Change :
       /\ inbox[c][u] > 0 /\ ~read[c][u]
       /\ read' = [read EXCEPT ![c][u] = TRUE]
  /\ UNCHANGED <<accepted, refused, queue, dead, worker, inbox, mailed, failures, lost>>

MarkAllRead(u) ==
  /\ \E c \in Change : inbox[c][u] > 0 /\ ~read[c][u]
  /\ read' = [c \in Change |-> [v \in User |-> read[c][v] \/ (v = u /\ inbox[c][u] > 0)]]
  /\ UNCHANGED <<accepted, refused, queue, dead, worker, inbox, mailed, failures, lost>>

WorkerStep(w) ==
  \/ Receive(w) \/ ReceiveNothing(w)
  \/ HandleUnknown(w) \/ HandleReconcile(w) \/ HandleNotify(w) \/ CommitNotify(w)
  \/ Delete(w) \/ EnqueueReconcile(w) \/ SkipTick(w)

Next ==
  \/ \E c \in Change : Enqueue(c) \/ EnqueueFails(c)
  \/ SendUnknown
  \/ \E s \in Slot : VisibilityExpires(s) \/ DeadLetter(s)
  \/ \E w \in Worker : WorkerStep(w) \/ LoseResponse(w) \/ JobFails(w) \/ DeleteFails(w)
                       \/ EnqueueReconcileFails(w) \/ IntervalPasses(w) \/ Crash(w)
  \/ \E u \in User : MarkRead(u) \/ MarkAllRead(u)

Spec == Init /\ [][Next]_vars

(***************************************************************************)
(* The worker's loop goes on, time passes, and SQS offers a message again  *)
(* and again until a worker takes it.                                      *)
(***************************************************************************)
Fairness ==
  /\ \A w \in Worker : WF_vars(WorkerStep(w)) /\ WF_vars(IntervalPasses(w))
  /\ \A s \in Slot :
       /\ WF_vars(VisibilityExpires(s)) /\ WF_vars(DeadLetter(s))
       /\ \A w \in Worker : SF_vars(Receive(w) /\ receipt'[w].slot = s)

FairSpec == Spec /\ Fairness

-----------------------------------------------------------------------------
(***************************************************************************)
(* Properties                                                              *)
(***************************************************************************)
Queued(body) == \E s \in Slot : queue[s] # None /\ queue[s].body = body

\* Types; besides, a worker holds a message exactly while it works on one.
TypeOK ==
  /\ accepted \subseteq Change /\ refused \subseteq Change
  /\ accepted \intersect refused = {}
  /\ \A s \in Slot : queue[s] # None => queue[s] \in Queueable
  /\ dead \subseteq Body
  /\ pc \in [Worker -> {"receive", "handle", "commit", "delete", "tick"}]
  /\ \A w \in Worker :
       /\ receipt[w] # None => receipt[w].slot \in Slot /\ receipt[w].body \in Body
       /\ pc[w] \in {"handle", "commit", "delete"} <=> receipt[w] # None
       /\ pc[w] = "commit" => receipt[w].body \in Change
  /\ pendingReconcile \in [Worker -> BOOLEAN] /\ due \in [Worker -> BOOLEAN]
  /\ inbox \in [Change -> [User -> Nat]]
  /\ read \in [Change -> [User -> BOOLEAN]]
  /\ mailed \in [Change -> SUBSET Address]

\* A change that was accepted is not forgotten before it is told: it is in the
\* queue, or told, or among the dead letters for somebody to look at.
AcceptedIsKept ==
  \A c \in accepted : Queued(c) \/ c \in dead \/ \A u \in Recipients(c) : inbox[c][u] > 0

\* An alert that is in an inbox was mailed to the seller of the item and to the
\* extra address, as far as there are any: a crash between the e-mail and the
\* commit repeats the e-mail, and never leaves it out.  Nobody else is mailed, Ops
\* least of all, who have the row only.
AlertsAreMailed ==
  \A c \in Change :
    /\ c \in Alert /\ (\E u \in User : inbox[c][u] > 0) => mailed[c] = Addresses(c)
    /\ mailed[c] \subseteq IF c \in Alert THEN Addresses(c) ELSE {}

\* Whatever is sent, delivered, retried or crashes, the notifications keep the
\* promise of Inbox: all recipients or none, once, and read stays read.
Promise == INSTANCE Inbox
KeepsPromise == Promise!Spec

\* With fewer failures than deliveries, every accepted change is told.
AcceptedIsTold ==
  \A c \in Change : c \in accepted ~> \A u \in Recipients(c) : inbox[c][u] > 0

Reconciling == \E w \in Worker : pc[w] = "handle" /\ receipt[w].body = Reconcile

\* README.md, line 144: the worker publishes RECONCILE_PRIORITIES every minute.
\* So the priorities are reconciled again and again.
ReconcilesForever == []<>Reconciling

=============================================================================
