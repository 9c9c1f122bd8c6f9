------------------------------ MODULE Priority ------------------------------
(***************************************************************************)
(* The priority of conversations, kept in their rows: recalculated by Ops  *)
(* (refresh), by the paginated job RECONCILE_PRIORITIES, and overridden by *)
(* Ops (critical).  The requests of Ops lock the conversation before they  *)
(* read it; a page of the job is read without a lock, and written with the *)
(* moment at which the whole run began.  The status of the item changes    *)
(* under both: its stamp is taken before its commit.                       *)
(*                                                                         *)
(* Each conversation here is the open one of its own item, opened at hour  *)
(* 0.  Messages and closures come from Conversations.tla, as one step each.*)
(***************************************************************************)
EXTENDS PriorityPolicy, OrderStatus, FiniteSets

CONSTANTS
  Conversation,  \* ids, in their order: a set of positive numbers
  Reason,        \* the reason of each conversation
  Price,         \* what was paid for its item
  Unstamped,     \* conversations from before migrations 006 and 007
  Thread,        \* threads of the HTTP server
  Run,           \* runs of the job; two when deliveries overlap
  Served,        \* Served[c]: the operations in use on c, a bound
  PageSize,      \* Settings.reconcile_page_size
  Moments,       \* the hours the clock shows
  MaxFailures    \* bound of the failed transactions

OpsRequest == {"refresh", "critical", "remove"}
Operation == OpsRequest \union {"status", "message", "close"}

ASSUME PriorityAssumption ==
  /\ Conversation \subseteq Nat \ {0}
  /\ Reason \in [Conversation -> DOMAIN REASON_WEIGHTS]
  /\ Price \in [Conversation -> Nat]
  /\ Unstamped \subseteq Conversation
  /\ Served \in [Conversation -> SUBSET Operation]
  /\ PageSize \in Nat \ {0}
  /\ Moments \subseteq Nat /\ 0 \in Moments
  /\ MaxFailures \in Nat
  /\ Thread \intersect Run = {}
  /\ None \notin Thread \union Run \union Nat \union {"critical"}

Tx == Thread \union Run

VARIABLES
  clock,         \* the time utcnow() returns
  status,        \* conversations.status
  last,          \* conversations.last_interaction_at
  calculated,    \* conversations.calculated_priority
  override,      \* conversations.ops_override
  calculatedAt,  \* conversations.priority_calculated_at
  itemStatus,    \* order_items.status
  statusAt,      \* order_items.status_updated_at
  lock,          \* row locks of conversations
  itemLock,      \* row locks of order items
  pc,
  req,           \* the request a thread serves
  view,          \* the conversation its session has loaded
  moment,        \* moment[r]: when the run began
  after,         \* after[r]: the last id of its previous page
  changes,       \* the columns a transaction writes at its commit
  pending,       \* the ConversationPriorityChanged events it publishes then
  decision,      \* history: the override Ops last decided, and committed
  failures

priorities == <<calculated, override, calculatedAt>>
items      == <<itemStatus, statusAt>>
locks      == <<lock, itemLock>>
sessions   == <<req, view, moment, after>>
vars == <<clock, status, last, priorities, items, locks, pc, sessions, changes,
          pending, decision, failures>>

Loaded(c) == [calculated |-> calculated[c], override |-> override[c],
              calculatedAt |-> calculatedAt[c]]

Effective(c) == EffectivePriority(calculated[c], override[c])

\* The age of a conversation is the hour: all are opened at 0.
PriorityNow(c) == CalculatePriority(Reason[c], itemStatus[c], clock, Price[c])

Stale(c, now) == StaleClause(now, 0, last[c], statusAt[c], calculatedAt[c])

NoChange == <<>>  \* the function with the empty domain

Init ==
  /\ clock = 0
  /\ status = [c \in Conversation |-> "open"]
  /\ last = [c \in Conversation |-> 0]
  /\ itemStatus = [c \in Conversation |-> Placed]
  /\ statusAt = [c \in Conversation |-> 0]
  /\ calculated = [c \in Conversation |->
       IF c \in Unstamped THEN "low" ELSE CalculatePriority(Reason[c], Placed, 0, Price[c])]
  /\ override = [c \in Conversation |-> None]
  /\ calculatedAt = [c \in Conversation |-> IF c \in Unstamped THEN None ELSE 0]
  /\ lock = [c \in Conversation |-> None]
  /\ itemLock = [c \in Conversation |-> None]
  /\ pc = [t \in Tx |-> "idle"]
  /\ req = [t \in Tx |-> None]
  /\ view = [t \in Tx |-> None]
  /\ moment = [t \in Tx |-> None]
  /\ after = [t \in Tx |-> 0]
  /\ changes = [t \in Tx |-> NoChange]
  /\ pending = [t \in Tx |-> {}]
  /\ decision = [c \in Conversation |-> None]
  /\ failures = 0

Tick ==
  \E m \in Moments :
    /\ m > clock
    /\ \A n \in Moments : n > clock => m <= n
    /\ clock' = m
    /\ UNCHANGED <<status, last, priorities, items, locks, pc, sessions, changes,
                   pending, decision, failures>>

-----------------------------------------------------------------------------
(***************************************************************************)
(* What happens to a conversation elsewhere                                *)
(***************************************************************************)
MessageSent(c) ==
  /\ "message" \in Served[c]
  /\ status[c] = "open" /\ lock[c] = None
  /\ last[c] # clock
  /\ last' = [last EXCEPT ![c] = clock]
  /\ UNCHANGED <<clock, status, priorities, items, locks, pc, sessions, changes,
                 pending, decision, failures>>

Closed(c) ==
  /\ "close" \in Served[c]
  /\ status[c] = "open" /\ lock[c] = None
  /\ status' = [status EXCEPT ![c] = "closed"]
  /\ UNCHANGED <<clock, last, priorities, items, locks, pc, sessions, changes,
                 pending, decision, failures>>

-----------------------------------------------------------------------------
(***************************************************************************)
(* Locks and the end of a transaction                                      *)
(***************************************************************************)

\* Mutant of LockConversation: load_ops_conversation without for_update.
LoadConversation(t, c) == UNCHANGED lock

LockConversation(t, c) ==
  /\ lock[c] = None
  /\ lock' = [lock EXCEPT ![c] = t]

\* Mutant of ReleaseLocks: the session is never closed.
KeepLocks(t) == UNCHANGED locks

ReleaseLocks(t) ==
  /\ lock' = [c \in Conversation |-> IF lock[c] = t THEN None ELSE lock[c]]
  /\ itemLock' = [c \in Conversation |-> IF itemLock[c] = t THEN None ELSE itemLock[c]]

CloseSession(t) ==
  /\ ReleaseLocks(t)
  /\ req' = [req EXCEPT ![t] = None]
  /\ view' = [view EXCEPT ![t] = None]
  /\ changes' = [changes EXCEPT ![t] = NoChange]
  /\ pending' = [pending EXCEPT ![t] = {}]

-----------------------------------------------------------------------------
(***************************************************************************)
(* PATCH and cancellation of an order item, as far as its status goes      *)
(***************************************************************************)
NextStatus(s) ==
  { to \in OrderItemStatus :
      \/ to \in OrderItemForwardStatus /\ ForwardTransition(s, to)
      \/ to = "cancelled" /\ CanCancel(s, "seller") }

StampStatus(t) ==
  \E c \in Conversation, to \in OrderItemStatus :
    /\ "status" \in Served[c]
    /\ pc[t] = "idle"
    /\ itemLock[c] = None
    /\ to \in NextStatus(itemStatus[c])
    /\ itemLock' = [itemLock EXCEPT ![c] = t]
    /\ req' = [req EXCEPT ![t] = [op |-> "status", conversation |-> c, to |-> to, at |-> clock]]
    /\ pc' = [pc EXCEPT ![t] = "commitStatus"]
    /\ UNCHANGED <<clock, status, last, priorities, items, lock, view, moment, after,
                   changes, pending, decision, failures>>

CommitStatus(t) ==
  /\ pc[t] = "commitStatus"
  /\ itemStatus' = [itemStatus EXCEPT ![req[t].conversation] = req[t].to]
  /\ statusAt' = [statusAt EXCEPT ![req[t].conversation] = req[t].at]
  /\ CloseSession(t)
  /\ pc' = [pc EXCEPT ![t] = "idle"]
  /\ UNCHANGED <<clock, status, last, priorities, moment, after, decision, failures>>

-----------------------------------------------------------------------------
(***************************************************************************)
(* A handler changes the row it has loaded; the flush writes the columns   *)
(* that differ from what was loaded, and leaves the others as they are.  A *)
(* new stamp always differs: timestamps have microseconds, the clock here  *)
(* does not.                                                               *)
(***************************************************************************)
Column == {"calculated", "calculatedAt", "override"}

\* Mutant of Update: the whole row is written.
UpdateWhole(loaded, row, stamped) == [columns |-> Column, row |-> row]

Update(loaded, row, stamped) ==
  [columns |-> { column \in Column : row[column] # loaded[column] } \union stamped,
   row |-> row]

\* Mutant of Recalculated: nothing is written when the priority is the same.
RecalculatedIfDifferent(c, loaded, now) ==
  LET new == CalculatePriority(Reason[c], itemStatus[c], now, Price[c])
  IN IF new = loaded.calculated THEN loaded
     ELSE [loaded EXCEPT !.calculated = new, !.calculatedAt = now]

\* apply_calculated_priority
Recalculated(c, loaded, now) ==
  [loaded EXCEPT
     !.calculated = CalculatePriority(Reason[c], itemStatus[c], now, Price[c]),
     !.calculatedAt = now]

\* Mutant of EventsOf: only a new calculated priority is announced.
CalculatedEventsOf(c, loaded, row) ==
  IF loaded.calculated = row.calculated THEN {}
  ELSE {[conversation |-> c, from |-> loaded.calculated, to |-> row.calculated]}

\* ConversationPriorityChanged, if the effective priority changes.
EventsOf(c, loaded, row) ==
  LET from == EffectivePriority(loaded.calculated, loaded.override)
      to   == EffectivePriority(row.calculated, row.override)
  IN IF from = to THEN {} ELSE {[conversation |-> c, from |-> from, to |-> to]}

\* The rows that the transaction updates.
Dirty(t) == { c \in DOMAIN changes[t] : changes[t][c].columns # {} }

-----------------------------------------------------------------------------
(***************************************************************************)
(* Requests of Ops about a conversation, open or closed                    *)
(***************************************************************************)
LockForOps(t) ==
  \E c \in Conversation, op \in OpsRequest :
    /\ op \in Served[c]
    /\ pc[t] = "idle"
    /\ LockConversation(t, c)
    /\ req' = [req EXCEPT ![t] = [op |-> op, conversation |-> c]]
    /\ view' = [view EXCEPT ![t] = Loaded(c)]
    /\ pc' = [pc EXCEPT ![t] = "handle"]
    /\ UNCHANGED <<clock, status, last, priorities, items, itemLock, moment, after,
                   changes, pending, decision, failures>>

Handle(t, row, stamped) ==
  LET c == req[t].conversation
  IN /\ changes' = [changes EXCEPT ![t] = [d \in {c} |-> Update(view[t], row, stamped)]]
     /\ pending' = [pending EXCEPT ![t] = EventsOf(c, view[t], row)]
     /\ pc' = [pc EXCEPT ![t] = "commit"]
     /\ UNCHANGED <<clock, status, last, priorities, items, locks, sessions,
                    decision, failures>>

\* The item is read only now, without a lock.
RefreshPriority(t) ==
  /\ pc[t] = "handle" /\ req[t].op = "refresh"
  /\ Handle(t, Recalculated(req[t].conversation, view[t], clock), {"calculatedAt"})

ApplyCritical(t) ==
  /\ pc[t] = "handle" /\ req[t].op = "critical"
  /\ view[t].override # "critical"
  /\ Handle(t, [view[t] EXCEPT !.override = "critical"], {})

RemoveCritical(t) ==
  /\ pc[t] = "handle" /\ req[t].op = "remove"
  /\ view[t].override # None
  /\ Handle(t, [view[t] EXCEPT !.override = None], {})

\* InvalidTransitionError: already critical, or nothing to remove.
RefuseOverride(t) ==
  /\ pc[t] = "handle"
  /\ \/ req[t].op = "critical" /\ view[t].override = "critical"
     \/ req[t].op = "remove" /\ view[t].override = None
  /\ CloseSession(t)
  /\ pc' = [pc EXCEPT ![t] = "idle"]
  /\ UNCHANGED <<clock, status, last, priorities, items, moment, after, decision, failures>>

-----------------------------------------------------------------------------
(***************************************************************************)
(* run_reconcile                                                           *)
(***************************************************************************)
StartRun(r) ==
  /\ pc[r] = "idle"
  /\ moment' = [moment EXCEPT ![r] = clock]
  /\ after' = [after EXCEPT ![r] = 0]
  /\ pc' = [pc EXCEPT ![r] = "read"]
  /\ UNCHANGED <<clock, status, last, priorities, items, locks, req, view, changes,
                 pending, decision, failures>>

StaleAfter(r) ==
  { c \in Conversation : c > after[r] /\ status[c] = "open" /\ Stale(c, moment[r]) }

\* The first PageSize of them, by id.
StalePage(r) ==
  { c \in StaleAfter(r) : Cardinality({ d \in StaleAfter(r) : d < c }) < PageSize }

ReadPage(r) ==
  LET Row(c) == Recalculated(c, Loaded(c), moment[r])
  IN /\ pc[r] = "read"
     /\ StalePage(r) # {}
     /\ changes' = [changes EXCEPT ![r] = [c \in StalePage(r) |-> Update(Loaded(c), Row(c), {"calculatedAt"})]]
     /\ pending' = [pending EXCEPT ![r] =
          UNION { EventsOf(c, Loaded(c), Row(c)) : c \in StalePage(r) }]
     /\ after' = [after EXCEPT ![r] = CHOOSE c \in StalePage(r) : \A d \in StalePage(r) : d <= c]
     /\ pc' = [pc EXCEPT ![r] = "commit"]
     /\ UNCHANGED <<clock, status, last, priorities, items, locks, req, view, moment,
                    decision, failures>>

EndRun(r) ==
  /\ pc[r] = "read"
  /\ StalePage(r) = {}
  /\ moment' = [moment EXCEPT ![r] = None]
  /\ after' = [after EXCEPT ![r] = 0]
  /\ pc' = [pc EXCEPT ![r] = "idle"]
  /\ UNCHANGED <<clock, status, last, priorities, items, locks, req, view, changes,
                 pending, decision, failures>>

-----------------------------------------------------------------------------
(***************************************************************************)
(* Flush and commit.  The UPDATE of a row waits for its lock; the rows of  *)
(* a page come in the order of their ids, and a request has one row, so    *)
(* nobody waits in a circle and the wait for all of them is one step.      *)
(***************************************************************************)
Updated(t, column, old) ==
  [c \in Conversation |->
     IF c \in Dirty(t) /\ column \in changes[t][c].columns
       THEN changes[t][c].row[column] ELSE old[c]]

Commit(t) ==
  /\ pc[t] = "commit"
  /\ \A c \in Dirty(t) : lock[c] \in {None, t}
  /\ calculated' = Updated(t, "calculated", calculated)
  /\ calculatedAt' = Updated(t, "calculatedAt", calculatedAt)
  /\ override' = Updated(t, "override", override)
  /\ decision' =
       [c \in Conversation |->
          IF t \in Thread /\ c = req[t].conversation /\ req[t].op \in {"critical", "remove"}
            THEN IF req[t].op = "critical" THEN "critical" ELSE None
            ELSE decision[c]]
  /\ CloseSession(t)
  /\ pc' = [pc EXCEPT ![t] = IF t \in Run THEN "read" ELSE "idle"]
  /\ UNCHANGED <<clock, status, last, items, moment, after, failures>>

\* The transaction fails, or the process stops: a rollback.  The job comes
\* back as a new delivery, that is, as a new run.
Abort(t) ==
  /\ pc[t] # "idle"
  /\ failures < MaxFailures
  /\ failures' = failures + 1
  /\ CloseSession(t)
  /\ moment' = [moment EXCEPT ![t] = None]
  /\ after' = [after EXCEPT ![t] = 0]
  /\ pc' = [pc EXCEPT ![t] = "idle"]
  /\ UNCHANGED <<clock, status, last, priorities, items, decision>>

ThreadStep(t) ==
  \/ CommitStatus(t)
  \/ RefreshPriority(t) \/ ApplyCritical(t) \/ RemoveCritical(t) \/ RefuseOverride(t)
  \/ Commit(t)

RunStep(r) == StartRun(r) \/ ReadPage(r) \/ EndRun(r) \/ Commit(r)

Next ==
  \/ Tick
  \/ \E c \in Conversation : MessageSent(c) \/ Closed(c)
  \/ \E t \in Thread : StampStatus(t) \/ LockForOps(t) \/ ThreadStep(t)
  \/ \E r \in Run : RunStep(r)
  \/ \E t \in Tx : Abort(t)

Spec == Init /\ [][Next]_vars

(***************************************************************************)
(* A request that has begun goes on.  The worker's ticker publishes a job  *)
(* every minute, so a run always follows another one.                      *)
(***************************************************************************)
Fairness ==
  /\ \A t \in Thread : WF_vars(ThreadStep(t))
  /\ \A r \in Run : SF_vars(RunStep(r))

FairSpec == Spec /\ Fairness

-----------------------------------------------------------------------------
(***************************************************************************)
(* Properties                                                              *)
(***************************************************************************)

\* Types of rows and sessions; a lock belongs to a transaction in progress.
TypeOK ==
  /\ clock \in Moments
  /\ status \in [Conversation -> {"open", "closed"}]
  /\ last \in [Conversation -> Moments]
  /\ calculated \in [Conversation -> CalculatedPriority]
  /\ override \in [Conversation -> {None, "critical"}]
  /\ calculatedAt \in [Conversation -> Moments \union {None}]
  /\ itemStatus \in [Conversation -> OrderItemStatus]
  /\ statusAt \in [Conversation -> Moments]
  /\ lock \in [Conversation -> Thread \union {None}]
  /\ itemLock \in [Conversation -> Thread \union {None}]
  /\ \A c \in Conversation :
       /\ lock[c] # None => pc[lock[c]] \in {"handle", "commit"}
       /\ itemLock[c] # None => pc[itemLock[c]] = "commitStatus"
  /\ pc \in [Tx -> {"idle", "commitStatus", "handle", "read", "commit"}]
  /\ moment \in [Tx -> Moments \union {None}]
  /\ decision \in [Conversation -> {None, "critical"}]

\* The WHERE of reconcile.py selects what is_stale of priority.py calls stale,
\* also with the stamps that are NULL: the job and the policy agree on what is
\* out of date.
ClauseIsIsStale ==
  \A c \in Conversation :
    Stale(c, clock) <=> IsStale(clock, 0, last[c], statusAt[c], calculatedAt[c])

\* Waiting never makes a conversation less urgent.
NeverEases ==
  [][\A c \in Conversation : Tick => PriorityRank(PriorityNow(c)') <= PriorityRank(PriorityNow(c))]_vars

\* docs/P6.1_Foundation_Worker.md, lines 401-415 and 452-459: that the job reads the
\* current state and writes only what changes protects it from overlapping runs,
\* and a second run changes nothing more.  So a priority that is not stale, which no
\* run selects any more, is the one the policy gives now.
FreshIsCurrent ==
  \A c \in Conversation :
    status[c] = "open" /\ ~Stale(c, clock) => calculated[c] = PriorityNow(c)

\* The override is what Ops decided last, although the job, and the refresh of
\* another thread, read and write the same row (apply_calculated_priority: "Nao
\* mexe em ops_override").
OverrideIsLastDecision == override = decision

\* The events of an Ops request tell what its commit did to the effective priority
\* of the row, from what and to what, although the other requests and the job change
\* the same row.  (A page of the job is read without a lock: its events may tell of
\* what is no longer so.)
EventsMatchRow ==
  [][\A t \in Thread : Commit(t) =>
       \A e \in pending[t] :
         Effective(e.conversation) = e.from /\ Effective(e.conversation)' = e.to]_vars

\* An Ops request changes no effective priority without announcing it.
ChangesAnnounced ==
  [][\A t \in Thread : Commit(t) =>
       \A c \in Conversation : Effective(c)' # Effective(c) =>
         \E e \in pending[t] : e.conversation = c]_vars

\* An open conversation does not stay stale: the job finds it in one of its
\* pages, or it is closed.
StaleIsRepaired ==
  \A c \in Conversation :
    (status[c] = "open" /\ Stale(c, clock)) ~> (status[c] = "closed" \/ ~Stale(c, clock))

=============================================================================
