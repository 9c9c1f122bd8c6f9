--------------------------- MODULE PriorityProofs ---------------------------
(***************************************************************************)
(* Proofs about Priority, for any conversations, threads, runs of the job  *)
(* and moments: the types of the rows, the agreement of the stale          *)
(* predicate in SQL with the one in Python, and the override.              *)
(*   Then the policy: waiting never makes a conversation less urgent.  And *)
(* the requests of Ops: they announce what they do, and all they do,       *)
(* whatever the job does to the same rows in between.                      *)
(***************************************************************************)
EXTENDS Priority, TLAPS

-----------------------------------------------------------------------------
(* The inductive invariant *)

Rows == [calculated : CalculatedPriority, override : {None, "critical"},
         calculatedAt : Moments \union {None}]

\* Where a transaction can be: a thread serves requests, a run reads and
\* commits pages for the moment it began.
PcOK(t) ==
  /\ t \in Thread => pc[t] \in {"idle", "commitStatus", "handle", "commit"}
  /\ t \in Run => pc[t] \in {"idle", "read", "commit"}
  /\ (t \in Run /\ pc[t] # "idle") => moment[t] \in Moments

\* What a thread serves and has loaded.
RequestOK(t) ==
  /\ (t \in Thread /\ pc[t] = "commitStatus") =>
       /\ req[t].conversation \in Conversation
       /\ req[t].to \in OrderItemStatus /\ req[t].at \in Moments
  /\ (t \in Thread /\ pc[t] \in {"handle", "commit"}) =>
       req[t].op \in OpsRequest /\ req[t].conversation \in Conversation
  /\ (t \in Thread /\ pc[t] = "handle") => view[t] \in Rows

\* What a transaction is about to write.
ChangesOK(t) ==
  pc[t] = "commit" =>
    \A c \in DOMAIN changes[t] : changes[t][c].row \in Rows

\* The override is written by the requests that decide it, and by no other.
OverrideOK(t) ==
  pc[t] = "commit" =>
    /\ (t \in Run \/ req[t].op = "refresh") =>
         \A c \in DOMAIN changes[t] : "override" \notin changes[t][c].columns
    /\ (t \in Thread /\ req[t].op \in {"critical", "remove"}) =>
         /\ DOMAIN changes[t] = {req[t].conversation}
         /\ "override" \in changes[t][req[t].conversation].columns
         /\ changes[t][req[t].conversation].row.override =
              IF req[t].op = "critical" THEN "critical" ELSE None

SessionOK(t) == PcOK(t) /\ RequestOK(t) /\ ChangesOK(t) /\ OverrideOK(t)

Domains ==
  /\ req = [t \in Tx |-> req[t]] /\ view = [t \in Tx |-> view[t]]
  /\ changes = [t \in Tx |-> changes[t]]

IInv ==
  /\ TypeOK
  /\ Domains
  /\ \A t \in Tx : SessionOK(t)
  /\ OverrideIsLastDecision

-----------------------------------------------------------------------------
(* Sessions that do not move *)

Session(t) == <<pc[t], req[t], view[t], moment[t], changes[t]>>

\* A session that is left alone stays as it should be.
LEMMA SessionFrame ==
  ASSUME NEW t \in Tx, SessionOK(t), UNCHANGED Session(t)
  PROVE  SessionOK(t)'
  <1>1. PcOK(t)'
    BY DEF SessionOK, PcOK, Session
  <1>2. RequestOK(t)'
    BY DEF SessionOK, RequestOK, Session
  <1>3. ChangesOK(t)'
    BY DEF SessionOK, ChangesOK, Session
  <1>4. OverrideOK(t)'
    BY DEF SessionOK, OverrideOK, Session
  <1> QED
    BY <1>1, <1>2, <1>3, <1>4 DEF SessionOK

\* A transaction that ends releases its locks and forgets its request.
LEMMA CloseFrame ==
  ASSUME NEW t \in Tx, Domains, CloseSession(t)
  PROVE  /\ Domains'
         /\ \A u \in Tx \ {t} : UNCHANGED <<req[u], view[u], changes[u]>>
  BY DEF Domains, CloseSession

\* The policy gives one of the three priorities.
LEMMA PolicyType ==
  ASSUME NEW reason, NEW itemStatus_, NEW age, NEW price
  PROVE  CalculatePriority(reason, itemStatus_, age, price) \in CalculatedPriority
  BY DEF CalculatePriority, Classify, CalculatedPriority

\* A row that is recalculated for a moment keeps its override.
LEMMA RecalculatedRow ==
  ASSUME NEW c, NEW loaded \in Rows, NEW now \in Moments
  PROVE  /\ Recalculated(c, loaded, now) \in Rows
         /\ Recalculated(c, loaded, now).override = loaded.override
  BY PolicyType DEF Recalculated, Rows

\* A row that is loaded has the types of the table.
LEMMA LoadedRow ==
  ASSUME TypeOK, NEW c \in Conversation
  PROVE  Loaded(c) \in Rows
  BY DEF TypeOK, Loaded, Rows

\* All sessions are as they should be when the one that moves is.
LEMMA OneMoves ==
  ASSUME IInv, NEW t \in Tx, SessionOK(t)',
         \A u \in Tx \ {t} : UNCHANGED Session(u)
  PROVE  \A u \in Tx : SessionOK(u)'
  BY SessionFrame DEF IInv

\* When a session is closed nobody holds a lock in its name.
LEMMA Released ==
  ASSUME TypeOK, NEW t \in Tx, CloseSession(t),
         pc' \in [Tx -> {"idle", "commitStatus", "handle", "read", "commit"}],
         \A u \in Tx \ {t} : pc'[u] = pc[u]
  PROVE  /\ lock' \in [Conversation -> Thread \union {None}]
         /\ itemLock' \in [Conversation -> Thread \union {None}]
         /\ \A c \in Conversation :
              /\ lock'[c] # None => pc'[lock'[c]] \in {"handle", "commit"}
              /\ itemLock'[c] # None => pc'[itemLock'[c]] = "commitStatus"
  <1>1. /\ lock' = [c \in Conversation |-> IF lock[c] = t THEN None ELSE lock[c]]
        /\ itemLock' = [c \in Conversation |-> IF itemLock[c] = t THEN None ELSE itemLock[c]]
    BY DEF CloseSession, ReleaseLocks
  <1>2. Thread \subseteq Tx
    BY DEF Tx
  <1> QED
    BY <1>1, <1>2 DEF TypeOK

-----------------------------------------------------------------------------
(* Initial states *)

\* Nobody is doing anything, and Ops has decided nothing.
LEMMA InitIInv == Init => IInv
  <1> SUFFICES ASSUME Init
               PROVE  IInv
    OBVIOUS
  <1>1. calculated \in [Conversation -> CalculatedPriority]
    BY PolicyType DEF Init, CalculatedPriority
  <1>2. TypeOK
    BY <1>1, PriorityAssumption DEF Init, TypeOK, Placed, OrderItemStatus, OrderItemForwardStatus
  <1>3. \A t \in Tx : SessionOK(t)
    BY DEF Init, SessionOK, PcOK, RequestOK, ChangesOK, OverrideOK, Tx
  <1> QED
    BY <1>2, <1>3 DEF IInv, Init, Domains, OverrideIsLastDecision

-----------------------------------------------------------------------------
(* Steps without a transaction, and the change of an item's status *)

\* The clock, messages and closures write neither priorities nor sessions.
LEMMA WorldKeeps ==
  ASSUME IInv, Tick \/ \E c \in Conversation : MessageSent(c) \/ Closed(c)
  PROVE  IInv'
  <1>1. UNCHANGED <<priorities, itemStatus, statusAt, locks, pc, req, view, moment, changes,
                    decision>>
    BY DEF Tick, MessageSent, Closed, sessions, items
  <1>2. /\ clock' \in Moments
        /\ status' \in [Conversation -> {"open", "closed"}]
        /\ last' \in [Conversation -> Moments]
    BY DEF IInv, TypeOK, Tick, MessageSent, Closed
  <1>3. TypeOK'
    BY <1>1, <1>2 DEF IInv, TypeOK, priorities, locks
  <1>4. \A t \in Tx : SessionOK(t)'
    BY <1>1, SessionFrame DEF IInv, Session
  <1> QED
    BY <1>1, <1>3, <1>4 DEF IInv, Domains, OverrideIsLastDecision, priorities

\* A change of an item's status is stamped by its thread.
LEMMA StampStatusKeeps ==
  ASSUME IInv, NEW t \in Thread, StampStatus(t)
  PROVE  IInv'
  <1>0. t \in Tx
    BY DEF Tx
  <1> PICK c \in Conversation, to \in OrderItemStatus :
        /\ pc[t] = "idle"
        /\ itemLock' = [itemLock EXCEPT ![c] = t]
        /\ req' = [req EXCEPT ![t] = [op |-> "status", conversation |-> c, to |-> to, at |-> clock]]
    BY DEF StampStatus
  <1>1. /\ pc' = [pc EXCEPT ![t] = "commitStatus"]
        /\ UNCHANGED <<clock, status, last, priorities, items, lock, view, moment, after,
                       changes, pending, decision, failures>>
    BY DEF StampStatus
  <1>2. TypeOK'
    BY <1>0, <1>1 DEF IInv, TypeOK, priorities, items, Tx
  <1>3. SessionOK(t)'
    BY <1>0, <1>1, PriorityAssumption
    DEF IInv, TypeOK, Domains, SessionOK, PcOK, RequestOK, ChangesOK, OverrideOK
  <1>4. \A u \in Tx \ {t} : UNCHANGED Session(u)
    BY <1>0, <1>1 DEF IInv, TypeOK, Domains, Session
  <1>5. Domains'
    BY <1>0, <1>1 DEF IInv, Domains
  <1> QED
    BY <1>0, <1>1, <1>2, <1>3, <1>4, <1>5, OneMoves
    DEF IInv, OverrideIsLastDecision, priorities

\* It is committed, and its session closed.
LEMMA CommitStatusKeeps ==
  ASSUME IInv, NEW t \in Thread, CommitStatus(t)
  PROVE  IInv'
  <1>0. t \in Tx
    BY DEF Tx
  <1>1. /\ pc[t] = "commitStatus"
        /\ itemStatus' = [itemStatus EXCEPT ![req[t].conversation] = req[t].to]
        /\ statusAt' = [statusAt EXCEPT ![req[t].conversation] = req[t].at]
        /\ CloseSession(t)
        /\ pc' = [pc EXCEPT ![t] = "idle"]
        /\ UNCHANGED <<clock, status, last, priorities, moment, after, decision, failures>>
    BY DEF CommitStatus
  <1>2. /\ itemStatus' \in [Conversation -> OrderItemStatus]
        /\ statusAt' \in [Conversation -> Moments]
    BY <1>0, <1>1 DEF IInv, TypeOK, SessionOK, RequestOK
  <1>3. TypeOK'
    BY <1>0, <1>1, <1>2, Released DEF IInv, TypeOK, priorities
  <1>4. SessionOK(t)'
    BY <1>0, <1>1, PriorityAssumption
    DEF IInv, TypeOK, SessionOK, PcOK, RequestOK, ChangesOK, OverrideOK
  <1>5. \A u \in Tx \ {t} : UNCHANGED Session(u)
    BY <1>0, <1>1, CloseFrame DEF IInv, TypeOK, Session
  <1>6. Domains'
    BY <1>0, <1>1, CloseFrame DEF IInv
  <1> QED
    BY <1>0, <1>1, <1>3, <1>4, <1>5, <1>6, OneMoves
    DEF IInv, OverrideIsLastDecision, priorities

-----------------------------------------------------------------------------
(* Requests of Ops *)

\* A request of Ops locks its conversation and loads the row.
LEMMA LockForOpsKeeps ==
  ASSUME IInv, NEW t \in Thread, LockForOps(t)
  PROVE  IInv'
  <1>0. t \in Tx
    BY DEF Tx
  <1> PICK op \in OpsRequest, c \in Conversation :
        /\ pc[t] = "idle"
        /\ LockConversation(t, c)
        /\ req' = [req EXCEPT ![t] = [op |-> op, conversation |-> c]]
        /\ view' = [view EXCEPT ![t] = Loaded(c)]
    BY DEF LockForOps
  <1>1. /\ pc' = [pc EXCEPT ![t] = "handle"]
        /\ UNCHANGED <<clock, status, last, priorities, items, itemLock, moment, after,
                       changes, pending, decision, failures>>
    BY DEF LockForOps
  <1>2. TypeOK'
    BY <1>0, <1>1 DEF IInv, TypeOK, LockConversation, priorities, items, Tx
  <1>3. SessionOK(t)'
    <2>1. PcOK(t)'
      BY <1>0, <1>1, PriorityAssumption DEF IInv, TypeOK, PcOK
    <2>2. RequestOK(t)'
      BY <1>0, <1>1, LoadedRow DEF IInv, TypeOK, Domains, RequestOK
    <2>3. ChangesOK(t)' /\ OverrideOK(t)'
      BY <1>0, <1>1 DEF IInv, TypeOK, ChangesOK, OverrideOK
    <2> QED
      BY <2>1, <2>2, <2>3 DEF SessionOK
  <1>4. \A u \in Tx \ {t} : UNCHANGED Session(u)
    BY <1>0, <1>1 DEF IInv, TypeOK, Domains, Session
  <1>5. Domains'
    BY <1>0, <1>1 DEF IInv, Domains
  <1> QED
    BY <1>0, <1>1, <1>2, <1>3, <1>4, <1>5, OneMoves
    DEF IInv, OverrideIsLastDecision, priorities

\* A handler leaves its row to the commit.  What it wrote decides whether the
\* override may be among the columns.
LEMMA HandleKeeps ==
  ASSUME IInv, NEW t \in Thread, NEW row \in Rows, NEW stamped, pc[t] = "handle",
         Handle(t, row, stamped), "override" \notin stamped,
         req[t].op = "refresh" => row.override = view[t].override,
         req[t].op \in {"critical", "remove"} =>
           /\ row.override # view[t].override
           /\ row.override = IF req[t].op = "critical" THEN "critical" ELSE None
  PROVE  IInv'
  <1>0. t \in Tx
    BY DEF Tx
  <1> DEFINE c == req[t].conversation
  <1>1. /\ changes' = [changes EXCEPT ![t] = [d \in {c} |-> Update(view[t], row, stamped)]]
        /\ pc' = [pc EXCEPT ![t] = "commit"]
        /\ UNCHANGED <<clock, status, last, priorities, items, locks, sessions,
                       decision, failures>>
    BY DEF Handle
  <1>2. TypeOK'
    BY <1>0, <1>1 DEF IInv, TypeOK, priorities, items, locks, sessions, Tx
  <1>3. changes'[t] = [d \in {c} |-> Update(view[t], row, stamped)]
    BY <1>0, <1>1 DEF IInv, Domains
  <1>4. /\ Update(view[t], row, stamped).row = row
        /\ "override" \in Update(view[t], row, stamped).columns <=> row.override # view[t].override
    BY DEF Update, Column
  <1>5. SessionOK(t)'
    <2>1. PcOK(t)'
      BY <1>0, <1>1, PriorityAssumption DEF IInv, TypeOK, PcOK
    <2>2. RequestOK(t)'
      BY <1>0, <1>1 DEF IInv, TypeOK, SessionOK, RequestOK, sessions
    <2>3. ChangesOK(t)'
      BY <1>3, <1>4 DEF ChangesOK
    <2>4. OverrideOK(t)'
      <3>1. t \notin Run /\ req'[t] = req[t]
        BY <1>1, PriorityAssumption DEF sessions
      <3>2. req[t].op = "refresh" =>
              \A d \in DOMAIN changes'[t] : "override" \notin changes'[t][d].columns
        BY <1>3, <1>4
      <3>3. req[t].op \in {"critical", "remove"} =>
              /\ DOMAIN changes'[t] = {c}
              /\ "override" \in changes'[t][c].columns
              /\ changes'[t][c].row.override = IF req[t].op = "critical" THEN "critical" ELSE None
        BY <1>3, <1>4
      <3> QED
        BY <3>1, <3>2, <3>3 DEF OverrideOK
    <2> QED
      BY <2>1, <2>2, <2>3, <2>4 DEF SessionOK
  <1>6. \A u \in Tx \ {t} : UNCHANGED Session(u)
    BY <1>0, <1>1 DEF IInv, TypeOK, Domains, Session, sessions
  <1>7. Domains'
    BY <1>0, <1>1 DEF IInv, Domains, sessions
  <1> QED
    BY <1>0, <1>1, <1>2, <1>5, <1>6, <1>7, OneMoves
    DEF IInv, OverrideIsLastDecision, priorities

\* The three handlers meet what HandleKeeps asks of them.
LEMMA OpsKeeps ==
  ASSUME IInv, NEW t \in Thread, RefreshPriority(t) \/ ApplyCritical(t) \/ RemoveCritical(t)
  PROVE  IInv'
  <1>1. t \in Tx /\ pc[t] = "handle" /\ view[t] \in Rows
    BY DEF IInv, SessionOK, RequestOK, Tx, RefreshPriority, ApplyCritical, RemoveCritical
  <1>2. CASE RefreshPriority(t)
    <2>1. clock \in Moments
      BY DEF IInv, TypeOK
    <2>2. LET row == Recalculated(req[t].conversation, view[t], clock)
          IN  row \in Rows /\ row.override = view[t].override
      BY <1>1, <2>1, RecalculatedRow
    <2> QED
      BY <1>1, <1>2, <2>2, HandleKeeps DEF RefreshPriority
  <1>3. CASE ApplyCritical(t)
    <2>1. LET row == [view[t] EXCEPT !.override = "critical"]
          IN  row \in Rows /\ row.override = "critical"
      BY <1>1 DEF Rows
    <2> QED
      BY <1>1, <1>3, <2>1, HandleKeeps DEF ApplyCritical
  <1>4. CASE RemoveCritical(t)
    <2>1. LET row == [view[t] EXCEPT !.override = None]
          IN  row \in Rows /\ row.override = None
      BY <1>1 DEF Rows
    <2> QED
      BY <1>1, <1>4, <2>1, HandleKeeps DEF RemoveCritical
  <1> QED
    BY <1>2, <1>3, <1>4

\* A session that is closed without a commit, by a refusal or a rollback.
LEMMA ClosedKeeps ==
  ASSUME IInv, NEW t \in Tx, CloseSession(t), pc' = [pc EXCEPT ![t] = "idle"],
         moment' \in [Tx -> Moments \union {None}],
         \A u \in Tx \ {t} : moment'[u] = moment[u],
         UNCHANGED <<clock, status, last, priorities, items, decision>>
  PROVE  IInv'
  <1>1. TypeOK'
    BY Released DEF IInv, TypeOK, priorities, items
  <1>2. SessionOK(t)'
    BY DEF IInv, TypeOK, SessionOK, PcOK, RequestOK, ChangesOK, OverrideOK
  <1>3. \A u \in Tx \ {t} : UNCHANGED Session(u)
    BY CloseFrame DEF IInv, TypeOK, Session
  <1>4. Domains'
    BY CloseFrame DEF IInv
  <1> QED
    BY <1>1, <1>2, <1>3, <1>4, OneMoves DEF IInv, OverrideIsLastDecision, priorities

-----------------------------------------------------------------------------
(* Runs of the job *)

\* A run moves between its steps without writing.
LEMMA RunKeeps ==
  ASSUME IInv, NEW r \in Run, StartRun(r) \/ EndRun(r)
  PROVE  IInv'
  <1>0. r \in Tx /\ r \notin Thread
    BY PriorityAssumption DEF Tx
  <1>1. UNCHANGED <<clock, status, last, priorities, items, locks, req, view, changes, decision>>
    BY DEF StartRun, EndRun
  <1>2. /\ \E to \in {"idle", "read"} : pc' = [pc EXCEPT ![r] = to]
        /\ moment' \in [Tx -> Moments \union {None}]
        /\ \A u \in Tx \ {r} : moment'[u] = moment[u]
        /\ pc'[r] \in {"idle", "read"} /\ (pc'[r] # "idle" => moment'[r] \in Moments)
    BY <1>0 DEF IInv, TypeOK, StartRun, EndRun
  <1>3. TypeOK'
    BY <1>0, <1>1, <1>2 DEF IInv, TypeOK, priorities, items, locks, Tx
  <1>4. SessionOK(r)'
    BY <1>0, <1>1, <1>2 DEF SessionOK, PcOK, RequestOK, ChangesOK, OverrideOK
  <1>5. \A u \in Tx \ {r} : UNCHANGED Session(u)
    BY <1>0, <1>1, <1>2 DEF IInv, TypeOK, Session
  <1>6. Domains'
    BY <1>1 DEF IInv, Domains
  <1> QED
    BY <1>0, <1>1, <1>3, <1>4, <1>5, <1>6, OneMoves
    DEF IInv, OverrideIsLastDecision, priorities

\* A page is read: its rows are recalculated, their overrides left alone.
LEMMA ReadPageKeeps ==
  ASSUME IInv, NEW r \in Run, ReadPage(r)
  PROVE  IInv'
  <1>0. r \in Tx /\ r \notin Thread
    BY PriorityAssumption DEF Tx
  <1> DEFINE Row(c) == Recalculated(c, Loaded(c), moment[r])
  <1>1. /\ pc[r] = "read"
        /\ changes' = [changes EXCEPT ![r] =
             [c \in StalePage(r) |-> Update(Loaded(c), Row(c), {"calculatedAt"})]]
        /\ pc' = [pc EXCEPT ![r] = "commit"]
        /\ UNCHANGED <<clock, status, last, priorities, items, locks, req, view, moment,
                       decision, failures>>
    BY DEF ReadPage
  <1>2. TypeOK'
    BY <1>0, <1>1 DEF IInv, TypeOK, priorities, items, locks, Tx
  <1>3. moment[r] \in Moments
    BY <1>0, <1>1 DEF IInv, SessionOK, PcOK
  <1>4. \A c \in StalePage(r) : /\ Row(c) \in Rows
                                /\ Row(c).override = Loaded(c).override
    BY <1>3, LoadedRow, RecalculatedRow DEF IInv, StalePage, StaleAfter
  <1>5. changes'[r] = [c \in StalePage(r) |-> Update(Loaded(c), Row(c), {"calculatedAt"})]
    BY <1>0, <1>1 DEF IInv, Domains
  <1>6. \A c \in StalePage(r) : /\ changes'[r][c].row = Row(c)
                                /\ "override" \notin changes'[r][c].columns
    BY <1>4, <1>5 DEF Update, Column
  <1>7. SessionOK(r)'
    <2>1. PcOK(r)'
      BY <1>0, <1>1, <1>3 DEF IInv, TypeOK, PcOK
    <2>2. RequestOK(r)'
      BY <1>0 DEF RequestOK
    <2>3. ChangesOK(r)'
      BY <1>4, <1>5, <1>6 DEF ChangesOK
    <2>4. OverrideOK(r)'
      BY <1>0, <1>5, <1>6 DEF OverrideOK
    <2> QED
      BY <2>1, <2>2, <2>3, <2>4 DEF SessionOK
  <1>8. \A u \in Tx \ {r} : UNCHANGED Session(u)
    BY <1>0, <1>1 DEF IInv, TypeOK, Domains, Session
  <1>9. Domains'
    BY <1>0, <1>1 DEF IInv, Domains
  <1> QED
    BY <1>0, <1>1, <1>2, <1>7, <1>8, <1>9, OneMoves
    DEF IInv, OverrideIsLastDecision, priorities

-----------------------------------------------------------------------------
(* Commit *)

\* The rows after a commit have the columns it wrote.
LEMMA CommitRows ==
  ASSUME IInv, NEW t \in Tx, Commit(t)
  PROVE  /\ calculated' \in [Conversation -> CalculatedPriority]
         /\ override' \in [Conversation -> {None, "critical"}]
         /\ calculatedAt' \in [Conversation -> Moments \union {None}]
  <1>1. \A c \in Dirty(t) : changes[t][c].row \in Rows
    BY DEF IInv, SessionOK, ChangesOK, Dirty, Commit
  <1>2. /\ calculated' = Updated(t, "calculated", calculated)
        /\ calculatedAt' = Updated(t, "calculatedAt", calculatedAt)
        /\ override' = Updated(t, "override", override)
    BY DEF Commit
  <1>3. Updated(t, "calculated", calculated) \in [Conversation -> CalculatedPriority]
    BY <1>1 DEF IInv, TypeOK, Updated, Rows
  <1>4. Updated(t, "override", override) \in [Conversation -> {None, "critical"}]
    BY <1>1 DEF IInv, TypeOK, Updated, Rows
  <1>5. Updated(t, "calculatedAt", calculatedAt) \in [Conversation -> Moments \union {None}]
    BY <1>1 DEF IInv, TypeOK, Updated, Rows
  <1> QED
    BY <1>2, <1>3, <1>4, <1>5

\* The override after a commit is the one that was decided with it.
LEMMA CommitDecides ==
  ASSUME IInv, NEW t \in Tx, Commit(t)
  PROVE  OverrideIsLastDecision' /\ decision' \in [Conversation -> {None, "critical"}]
  <1> DEFINE Decides(c) ==
        t \in Thread /\ c = req[t].conversation /\ req[t].op \in {"critical", "remove"}
  <1>1. /\ pc[t] = "commit"
        /\ override' = Updated(t, "override", override)
        /\ decision' =
             [c \in Conversation |->
                IF Decides(c) THEN IF req[t].op = "critical" THEN "critical" ELSE None
                ELSE decision[c]]
    BY DEF Commit
  <1>2. decision' \in [Conversation -> {None, "critical"}]
    BY <1>1 DEF IInv, TypeOK
  <1>3. OverrideOK(t)
    BY DEF IInv, SessionOK
  <1>4. ASSUME NEW c \in Conversation, Decides(c)
        PROVE  override'[c] = decision'[c]
    <2>1. /\ c \in DOMAIN changes[t] /\ "override" \in changes[t][c].columns
          /\ changes[t][c].row.override = IF req[t].op = "critical" THEN "critical" ELSE None
      BY <1>1, <1>3, <1>4 DEF OverrideOK
    <2>2. c \in Dirty(t)
      BY <2>1 DEF Dirty
    <2> QED
      BY <1>1, <1>4, <2>1, <2>2 DEF Updated
  <1>5. ASSUME NEW c \in Conversation, ~Decides(c)
        PROVE  override'[c] = decision'[c]
    <2>1. ~(c \in Dirty(t) /\ "override" \in changes[t][c].columns)
      <3>1. CASE t \in Run \/ req[t].op = "refresh"
        BY <1>1, <1>3, <3>1 DEF OverrideOK, Dirty
      <3>2. CASE t \in Thread /\ req[t].op \in {"critical", "remove"}
        BY <1>1, <1>3, <1>5, <3>2 DEF OverrideOK, Dirty
      <3> QED
        BY <1>1, <3>1, <3>2 DEF IInv, SessionOK, RequestOK, OpsRequest, Tx
    <2>2. override[c] = decision[c]
      BY DEF IInv, OverrideIsLastDecision
    <2> QED
      BY <1>1, <1>5, <2>1, <2>2 DEF Updated
  <1>6. override' \in [Conversation -> {None, "critical"}]
    BY CommitRows
  <1> QED
    BY <1>2, <1>4, <1>5, <1>6 DEF OverrideIsLastDecision

\* A commit writes rows of the right types, and the override only as decided.
LEMMA CommitKeeps ==
  ASSUME IInv, NEW t \in Tx, Commit(t)
  PROVE  IInv'
  <1> DEFINE to == IF t \in Run THEN "read" ELSE "idle"
  <1>1. /\ pc[t] = "commit"
        /\ CloseSession(t)
        /\ pc' = [pc EXCEPT ![t] = to]
        /\ UNCHANGED <<clock, status, last, items, moment, after, failures>>
    BY DEF Commit
  <1>2. TypeOK'
    BY <1>1, Released, CommitRows, CommitDecides DEF IInv, TypeOK, items
  <1>3. SessionOK(t)'
    <2>1. PcOK(t)'
      BY <1>1, PriorityAssumption DEF IInv, TypeOK, SessionOK, PcOK
    <2>2. RequestOK(t)' /\ ChangesOK(t)' /\ OverrideOK(t)'
      BY <1>1 DEF IInv, TypeOK, RequestOK, ChangesOK, OverrideOK
    <2> QED
      BY <2>1, <2>2 DEF SessionOK
  <1>4. \A u \in Tx \ {t} : UNCHANGED Session(u)
    BY <1>1, CloseFrame DEF IInv, TypeOK, Session
  <1>5. Domains'
    BY <1>1, CloseFrame DEF IInv
  <1> QED
    BY <1>2, <1>3, <1>4, <1>5, OneMoves, CommitDecides DEF IInv

-----------------------------------------------------------------------------
(* Every step *)

\* Every action keeps the invariant.
LEMMA NextIInv == IInv /\ [Next]_vars => IInv'
  <1> SUFFICES ASSUME IInv, [Next]_vars
               PROVE  IInv'
    OBVIOUS
  <1>0. Thread \subseteq Tx /\ Run \subseteq Tx
    BY DEF Tx
  <1>1. CASE Tick \/ \E c \in Conversation : MessageSent(c) \/ Closed(c)
    BY <1>1, WorldKeeps
  <1>2. ASSUME NEW t \in Thread, StampStatus(t) \/ CommitStatus(t)
        PROVE  IInv'
    BY <1>2, StampStatusKeeps, CommitStatusKeeps
  <1>3. ASSUME NEW t \in Thread, LockForOps(t)
        PROVE  IInv'
    BY <1>3, LockForOpsKeeps
  <1>4. ASSUME NEW t \in Thread, RefreshPriority(t) \/ ApplyCritical(t) \/ RemoveCritical(t)
        PROVE  IInv'
    BY <1>4, OpsKeeps
  <1>5. ASSUME NEW t \in Thread, RefuseOverride(t)
        PROVE  IInv'
    BY <1>0, <1>5, ClosedKeeps DEF RefuseOverride, IInv, TypeOK
  <1>6. ASSUME NEW t \in Tx, Commit(t)
        PROVE  IInv'
    BY <1>6, CommitKeeps
  <1>7. ASSUME NEW r \in Run, StartRun(r) \/ EndRun(r) \/ ReadPage(r)
        PROVE  IInv'
    BY <1>7, RunKeeps, ReadPageKeeps
  <1>8. ASSUME NEW t \in Tx, Abort(t)
        PROVE  IInv'
    BY <1>8, ClosedKeeps DEF Abort, IInv, TypeOK
  <1>9. CASE UNCHANGED vars
    <2>1. UNCHANGED <<clock, status, last, calculated, override, calculatedAt, itemStatus, statusAt,
                      lock, itemLock, pc, req, view, moment, changes, decision>>
      BY <1>9 DEF vars, priorities, items, locks, sessions
    <2>2. TypeOK'
      BY <2>1 DEF IInv, TypeOK
    <2>3. \A t \in Tx : SessionOK(t)'
      BY <2>1, SessionFrame DEF IInv, Session
    <2> QED
      BY <2>1, <2>2, <2>3 DEF IInv, Domains, OverrideIsLastDecision
  <1> QED
    BY <1>0, <1>1, <1>2, <1>3, <1>4, <1>5, <1>6, <1>7, <1>8, <1>9
    DEF Next, ThreadStep, RunStep

\* The inductive invariant holds in every state.
LEMMA Invariant == Spec => []IInv
  BY InitIInv, NextIInv, PTL DEF Spec

-----------------------------------------------------------------------------
(* What holds in every state *)

\* Rows, locks and sessions keep their types, and a lock belongs to a
\* transaction in progress (support/priority_ops.py, communication/reconcile.py).
THEOREM TypeCorrect == Spec => []TypeOK
  <1>1. IInv => TypeOK
    BY DEF IInv
  <1> QED
    BY <1>1, Invariant, PTL

\* The override is what Ops decided last, however the job and the refreshes of
\* other threads come in between: apply_calculated_priority leaves it alone, and
\* the flush writes only the columns that differ.
THEOREM OverrideIsDecided == Spec => []OverrideIsLastDecision
  <1>1. IInv => OverrideIsLastDecision
    BY DEF IInv
  <1> QED
    BY <1>1, Invariant, PTL

\* The WHERE of the job selects exactly what the policy calls stale, NULL
\* stamps included (reconcile.py:33, priority.py).
THEOREM ClauseSelectsStale == Spec => []ClauseIsIsStale
  <1>1. TypeOK => ClauseIsIsStale
    <2> SUFFICES ASSUME TypeOK, NEW c \in Conversation
                 PROVE  Stale(c, clock)
                          <=> IsStale(clock, 0, last[c], statusAt[c], calculatedAt[c])
      BY DEF ClauseIsIsStale
    <2>1. /\ clock # None /\ last[c] # None /\ statusAt[c] # None
          /\ clock \in Nat /\ last[c] \in Nat /\ statusAt[c] \in Nat
          /\ calculatedAt[c] \in Nat \union {None}
      <3>1. /\ {clock, last[c], statusAt[c]} \subseteq Moments
            /\ calculatedAt[c] \in Moments \union {None}
        BY DEF TypeOK
      <3>2. Moments \subseteq Nat /\ None \notin Nat
        BY PriorityAssumption
      <3> QED
        BY <3>1, <3>2
    <2>2. CASE calculatedAt[c] = None
      BY <2>2 DEF Stale, StaleClause, IsStale
    <2>3. CASE calculatedAt[c] # None
      BY <2>1, <2>3 DEF Stale, StaleClause, IsStale, Above, SqlBucketRank
    <2> QED
      BY <2>2, <2>3
  <1> QED
    BY <1>1, TypeCorrect, PTL

-----------------------------------------------------------------------------
(***************************************************************************)
(* The policy                                                              *)
(***************************************************************************)

\* How many of four ascending boundaries a number has reached.
Reached(b1, b2, b3, b4, x) ==
  IF x < b1 THEN 0 ELSE IF x < b2 THEN 1 ELSE IF x < b3 THEN 2 ELSE IF x < b4 THEN 3 ELSE 4

\* Rank, the CASE of reconcile.py and the loop of priority.py, counts them.
LEMMA RankIs ==
  ASSUME NEW b1 \in Int, NEW b2 \in Int, NEW b3 \in Int, NEW b4 \in Int,
         b1 < b2, b2 < b3, b3 < b4, NEW x \in Int
  PROVE  Rank(<<b1, b2, b3, b4>>, x) = Reached(b1, b2, b3, b4, x)
  <1> DEFINE b == <<b1, b2, b3, b4>>
             Right(k) == /\ \A j \in 1 .. k : x >= b[j]
                         /\ \A j \in k + 1 .. Len(b) : x < b[j]
             n == Reached(b1, b2, b3, b4, x)
  <1>1. Len(b) = 4 /\ b[1] = b1 /\ b[2] = b2 /\ b[3] = b3 /\ b[4] = b4
    OBVIOUS
  <1>2. \A j \in Int : 1 <= j /\ j <= 4 => j = 1 \/ j = 2 \/ j = 3 \/ j = 4
    OBVIOUS
  <1> HIDE DEF b
  <1>3. n \in 0 .. 4
    BY DEF Reached
  <1>4. Right(n)
    BY <1>1, <1>2 DEF Reached
  <1>5. \A k \in 0 .. 4 : Right(k) => k = n
    BY <1>1, <1>2, <1>3, <1>4
  <1>6. Rank(b, x) = CHOOSE k \in 0 .. 4 : Right(k)
    BY <1>1 DEF Rank
  <1> HIDE DEF n, Right
  <1>7. (CHOOSE k \in 0 .. 4 : Right(k)) = n
    BY <1>3, <1>4, <1>5
  <1> QED
    BY <1>6, <1>7 DEF b, n

\* Ages are ranked by the boundaries 4, 12, 24 and 48 hours, prices by 100, 500,
\* 1000 and 5000; a rank is worth 25.
LEMMA Weights ==
  ASSUME NEW age \in Nat, NEW price \in Nat
  PROVE  /\ AgeBucketRank(age) = Reached(4, 12, 24, 48, age)
         /\ AgeWeight(age) = 25 * AgeBucketRank(age)
         /\ ValueWeight(price) \in Nat
  <1>1. AgeBucketRank(age) = Reached(4, 12, 24, 48, age)
    BY RankIs DEF AgeBucketRank, AGE_BUCKET_HOURS
  <1>2. AgeBucketRank(age) \in {0, 1, 2, 3, 4}
    BY <1>1 DEF Reached
  <1>3. AgeWeight(age) = 25 * AgeBucketRank(age)
    BY <1>2 DEF AgeWeight, AGE_BUCKET_WEIGHTS
  <1>4. Rank(VALUE_BOUNDARIES, price) = Reached(100, 500, 1000, 5000, price)
    BY RankIs DEF VALUE_BOUNDARIES
  <1>5. ValueWeight(price) \in Nat
    BY <1>4 DEF ValueWeight, Reached
  <1> QED
    BY <1>1, <1>3, <1>5

\* The age counts only by its rank, and the older of two conversations that are
\* otherwise alike is the more urgent.
LEMMA OlderIsMoreUrgent ==
  ASSUME NEW reason \in DOMAIN REASON_WEIGHTS, NEW itemStatus_ \in OrderItemStatus,
         NEW price \in Nat, NEW a \in Nat, NEW b \in Nat, a <= b
  PROVE  /\ PriorityRank(CalculatePriority(reason, itemStatus_, b, price))
              <= PriorityRank(CalculatePriority(reason, itemStatus_, a, price))
         /\ AgeBucketRank(a) = AgeBucketRank(b) =>
              CalculatePriority(reason, itemStatus_, b, price)
                = CalculatePriority(reason, itemStatus_, a, price)
  <1> DEFINE S(age) == Score(reason, itemStatus_, age, price)
             base == REASON_WEIGHTS[reason] + STATUS_WEIGHTS[itemStatus_] + ValueWeight(price)
  <1>1. AgeBucketRank(a) \in Nat /\ AgeBucketRank(b) \in Nat /\ AgeBucketRank(a) <= AgeBucketRank(b)
    BY Weights DEF Reached
  <1>2. REASON_WEIGHTS[reason] \in Nat
    BY DEF REASON_WEIGHTS
  <1>3. STATUS_WEIGHTS[itemStatus_] \in Nat
    BY DEF STATUS_WEIGHTS, OrderItemStatus, OrderItemForwardStatus
  <1>4. base \in Nat
    BY <1>2, <1>3, Weights
  <1>5. /\ S(a) = base + 25 * AgeBucketRank(a)
        /\ S(b) = base + 25 * AgeBucketRank(b)
    BY <1>1, <1>2, <1>3, Weights DEF Score
  <1> HIDE DEF base
  <1>6. S(a) \in Nat /\ S(b) \in Nat /\ S(a) <= S(b)
    BY <1>1, <1>4, <1>5
  <1>7. AgeBucketRank(a) = AgeBucketRank(b) => S(a) = S(b)
    BY <1>5
  <1> HIDE DEF S
  <1>8. PriorityRank(Classify(S(b))) <= PriorityRank(Classify(S(a)))
    BY <1>6 DEF Classify, PriorityRank
  <1> QED
    BY <1>7, <1>8 DEF CalculatePriority, S

\* What is_stale may compare buckets for: of a conversation that it does not call stale
\* the policy says the same as at the hour the priority was calculated for, as long as
\* the status of the item is the same (communication/priority.py).
THEOREM NotStaleIsAsBefore ==
  ASSUME NEW reason \in DOMAIN REASON_WEIGHTS, NEW itemStatus_ \in OrderItemStatus,
         NEW price \in Nat, NEW createdAt \in Nat, NEW calculatedAt_ \in Nat, NEW now \in Nat,
         createdAt <= calculatedAt_, createdAt <= now, NEW last_, NEW statusAt_,
         ~IsStale(now, createdAt, last_, statusAt_, calculatedAt_)
  PROVE  CalculatePriority(reason, itemStatus_, now - createdAt, price)
           = CalculatePriority(reason, itemStatus_, calculatedAt_ - createdAt, price)
  <1>1. PICK a \in Nat, b \in Nat : a = now - createdAt /\ b = calculatedAt_ - createdAt
    OBVIOUS
  <1>2. AgeBucketRank(a) = AgeBucketRank(b)
    BY <1>1 DEF IsStale
  <1>3. CalculatePriority(reason, itemStatus_, a, price)
          = CalculatePriority(reason, itemStatus_, b, price)
    <2>1. CASE a <= b
      BY <1>2, <2>1, OlderIsMoreUrgent
    <2>2. CASE b <= a
      BY <1>2, <2>2, OlderIsMoreUrgent
    <2> QED
      BY <1>1, <2>1, <2>2
  <1> QED
    BY <1>1, <1>3

-----------------------------------------------------------------------------
(***************************************************************************)
(* The requests of Ops: what they have loaded is the row, while they hold  *)
(* its lock                                                                *)
(***************************************************************************)

\* A request of Ops holds its conversation, and has loaded the row as it is.
Holds(t) ==
  (t \in Thread /\ pc[t] \in {"handle", "commit"}) =>
    /\ lock[req[t].conversation] = t
    /\ view[t] = Loaded(req[t].conversation)

\* The columns that it does not write are those it leaves as they are, and what
\* it announces is the difference between the two rows.
Plans(t) ==
  (t \in Thread /\ pc[t] = "commit") =>
    LET c == req[t].conversation
    IN /\ DOMAIN changes[t] = {c}
       /\ \A column \in Column : column \notin changes[t][c].columns =>
            changes[t][c].row[column] = view[t][column]
       /\ pending[t] = EventsOf(c, view[t], changes[t][c].row)

AInv ==
  /\ pending = [t \in Tx |-> pending[t]]
  /\ \A t \in Tx : Holds(t) /\ Plans(t)

-----------------------------------------------------------------------------
(***************************************************************************)
(* Waiting                                                                 *)
(***************************************************************************)

\* The clock makes no conversation less urgent (communication/priority.py).
THEOREM WaitingNeverEases == Spec => NeverEases
  <1>1. ASSUME IInv, NEW c \in Conversation, Tick
        PROVE  PriorityRank(PriorityNow(c)') <= PriorityRank(PriorityNow(c))
    <2>1. itemStatus' = itemStatus /\ clock \in Nat /\ clock' \in Nat /\ clock <= clock'
      BY <1>1, PriorityAssumption DEF Tick, items, IInv, TypeOK
    <2>2. /\ Reason[c] \in DOMAIN REASON_WEIGHTS /\ Price[c] \in Nat
          /\ itemStatus[c] \in OrderItemStatus
      BY <1>1, PriorityAssumption DEF IInv, TypeOK
    <2> QED
      BY <2>1, <2>2, OlderIsMoreUrgent DEF PriorityNow
  <1>2. IInv => [\A c \in Conversation : Tick =>
                   PriorityRank(PriorityNow(c)') <= PriorityRank(PriorityNow(c))]_vars
    BY <1>1
  <1> QED
    BY <1>2, Invariant, PTL DEF Spec, NeverEases

-----------------------------------------------------------------------------
(***************************************************************************)
(* Announcements                                                           *)
(***************************************************************************)

\* What a step of t leaves alone: the other transactions, and the rows that they
\* have locked.
Respects(t) ==
  /\ \A u \in Tx \ {t} : UNCHANGED <<Session(u), pending[u]>>
  /\ \A c \in Conversation : lock[c] \notin {None, t} =>
       lock'[c] = lock[c] /\ Loaded(c)' = Loaded(c)

\* A transaction that is respected keeps its row and its plans.
LEMMA OthersKeep ==
  ASSUME IInv, AInv, NEW t \in Tx, Respects(t), NEW u \in Tx \ {t}
  PROVE  Holds(u)' /\ Plans(u)'
  <1>1. UNCHANGED <<pc[u], req[u], view[u], changes[u], pending[u]>>
    BY DEF Respects, Session
  <1>2. Holds(u)'
    <2> SUFFICES ASSUME u \in Thread, pc[u] \in {"handle", "commit"}
                 PROVE  /\ lock'[req[u].conversation] = u
                        /\ view[u] = Loaded(req[u].conversation)'
      BY <1>1 DEF Holds
    <2>1. PICK c \in Conversation : c = req[u].conversation
      BY DEF IInv, SessionOK, RequestOK
    <2>2. lock[c] = u /\ view[u] = Loaded(c)
      BY <2>1 DEF AInv, Holds
    <2>3. u # None
      BY PriorityAssumption
    <2>4. lock'[c] = lock[c] /\ Loaded(c)' = Loaded(c)
      BY <2>2, <2>3 DEF Respects
    <2>5. req'[u].conversation = c
      BY <1>1, <2>1
    <2> QED
      BY <1>1, <2>1, <2>2, <2>4, <2>5 DEF Loaded
  <1>3. Plans(u)'
    <2>1. Plans(u)
      BY DEF AInv
    <2> QED
      BY <1>1, <2>1 DEF Plans, EventsOf
  <1> QED
    BY <1>2, <1>3

\* The rows and locks stay as they are when nothing is written.
LEMMA SameRows ==
  ASSUME UNCHANGED priorities, NEW c \in Conversation
  PROVE  Loaded(c)' = Loaded(c)
  BY DEF priorities, Loaded

\* Steps that write no priority and take no lock of a conversation.
LEMMA QuietKeeps ==
  ASSUME IInv, AInv, NEW t \in Tx, UNCHANGED <<priorities, lock>>,
         \A u \in Tx \ {t} : UNCHANGED Session(u), pending' = pending,
         Holds(t)', Plans(t)'
  PROVE  AInv'
  <1>1. Respects(t)
    BY SameRows DEF Respects
  <1> QED
    BY <1>1, OthersKeep DEF AInv

\* A session that is closed lets go of its own row only.
LEMMA ClosingKeeps ==
  ASSUME IInv, AInv, NEW t \in Tx, CloseSession(t), pc'[t] \in {"idle", "read"},
         \A u \in Tx \ {t} : UNCHANGED <<pc[u], moment[u]>>,
         \A c \in Conversation : lock[c] \notin {None, t} => Loaded(c)' = Loaded(c)
  PROVE  AInv'
  <1>1. pending' = [pending EXCEPT ![t] = {}]
    BY DEF CloseSession
  <1>2. /\ pending' = [u \in Tx |-> pending'[u]]
        /\ \A u \in Tx \ {t} : pending'[u] = pending[u]
    BY <1>1 DEF AInv
  <1>3. \A c \in Conversation : lock[c] \notin {None, t} => lock'[c] = lock[c]
    BY DEF CloseSession, ReleaseLocks
  <1>4. \A u \in Tx \ {t} : UNCHANGED Session(u)
    BY CloseFrame DEF IInv, Session
  <1>5. Respects(t)
    BY <1>2, <1>3, <1>4 DEF Respects
  <1>6. Holds(t)' /\ Plans(t)'
    BY DEF Holds, Plans
  <1> QED
    BY <1>2, <1>5, <1>6, OthersKeep DEF AInv

\* A request of Ops takes a row that nobody has locked, and loads it.
LEMMA LockingKeeps ==
  ASSUME IInv, AInv, NEW t \in Thread, LockForOps(t)
  PROVE  AInv'
  <1>0. t \in Tx
    BY DEF Tx
  <1> PICK op \in OpsRequest, c \in Conversation :
        /\ LockConversation(t, c)
        /\ req' = [req EXCEPT ![t] = [op |-> op, conversation |-> c]]
        /\ view' = [view EXCEPT ![t] = Loaded(c)]
    BY DEF LockForOps
  <1>1. /\ pc' = [pc EXCEPT ![t] = "handle"]
        /\ UNCHANGED <<priorities, moment, changes, pending>>
    BY DEF LockForOps
  <1>2. /\ lock[c] = None /\ lock'[c] = t
        /\ \A d \in Conversation \ {c} : lock'[d] = lock[d]
    BY DEF LockConversation, IInv, TypeOK
  <1>3. Respects(t)
    BY <1>0, <1>1, <1>2, SameRows DEF Respects, Session, IInv, TypeOK, Domains
  <1>4. req'[t].conversation = c /\ view'[t] = Loaded(c) /\ pc'[t] = "handle"
    BY <1>0, <1>1 DEF IInv, TypeOK, Domains
  <1>5. Holds(t)' /\ Plans(t)'
    BY <1>1, <1>2, <1>4, SameRows DEF Holds, Plans
  <1> QED
    BY <1>0, <1>1, <1>3, <1>5, OthersKeep DEF AInv

\* A handler plans the row that it has made of the one it has loaded.
LEMMA HandlingKeeps ==
  ASSUME IInv, AInv, NEW t \in Thread, NEW row, NEW stamped, pc[t] = "handle",
         Handle(t, row, stamped)
  PROVE  AInv'
  <1>0. t \in Tx
    BY DEF Tx
  <1> DEFINE c == req[t].conversation
  <1>1. /\ changes' = [changes EXCEPT ![t] = [d \in {c} |-> Update(view[t], row, stamped)]]
        /\ pending' = [pending EXCEPT ![t] = EventsOf(c, view[t], row)]
        /\ pc' = [pc EXCEPT ![t] = "commit"]
        /\ UNCHANGED <<priorities, locks, sessions>>
    BY DEF Handle
  <1>2. /\ changes'[t] = [d \in {c} |-> Update(view[t], row, stamped)]
        /\ \A u \in Tx \ {t} : changes'[u] = changes[u]
    BY <1>0, <1>1 DEF IInv, Domains
  <1>3. /\ pending'[t] = EventsOf(c, view[t], row)
        /\ \A u \in Tx \ {t} : pending'[u] = pending[u]
        /\ pending' = [u \in Tx |-> pending'[u]]
    BY <1>0, <1>1 DEF AInv
  <1>4. \A u \in Tx \ {t} : UNCHANGED Session(u)
    BY <1>0, <1>1, <1>2 DEF IInv, TypeOK, Session, sessions
  <1>5. Respects(t)
    BY <1>1, <1>3, <1>4, SameRows DEF Respects, locks
  <1>6. Holds(t)'
    <2>1. c \in Conversation /\ lock[c] = t /\ view[t] = Loaded(c)
      BY <1>0 DEF IInv, SessionOK, RequestOK, AInv, Holds
    <2> QED
      BY <1>1, <2>1, SameRows DEF Holds, locks, sessions
  <1>7. Plans(t)'
    <2>1. Update(view[t], row, stamped).row = row
      BY DEF Update
    <2>2. \A column \in Column : column \notin Update(view[t], row, stamped).columns =>
            row[column] = view[t][column]
      BY DEF Update
    <2>3. req'[t] = req[t] /\ view'[t] = view[t]
      BY <1>1 DEF sessions
    <2> QED
      BY <1>2, <1>3, <2>1, <2>2, <2>3 DEF Plans, EventsOf
  <1> QED
    BY <1>0, <1>3, <1>5, <1>6, <1>7, OthersKeep DEF AInv

\* A commit writes no row that another transaction has locked.
LEMMA CommitRespects ==
  ASSUME NEW t \in Tx, Commit(t), NEW c \in Conversation, lock[c] \notin {None, t}
  PROVE  Loaded(c)' = Loaded(c)
  <1>1. c \notin Dirty(t)
    BY DEF Commit
  <1>2. /\ calculated'[c] = calculated[c] /\ override'[c] = override[c]
        /\ calculatedAt'[c] = calculatedAt[c]
    BY <1>1 DEF Commit, Updated
  <1> QED
    BY <1>2 DEF Loaded

\* Every action keeps what the requests of Ops rely on.
LEMMA NextAInv == IInv /\ AInv /\ [Next]_vars => AInv'
  <1> SUFFICES ASSUME IInv, AInv, [Next]_vars
               PROVE  AInv'
    OBVIOUS
  <1>0. Thread \subseteq Tx /\ Run \subseteq Tx /\ Thread \intersect Run = {}
    BY PriorityAssumption DEF Tx
  <1>1. CASE Tick \/ (\E c \in Conversation : MessageSent(c) \/ Closed(c)) \/ UNCHANGED vars
    <2>1. UNCHANGED <<priorities, lock, pc, req, view, moment, changes, pending>>
      BY <1>1 DEF Tick, MessageSent, Closed, vars, locks, sessions
    <2>2. \A t \in Tx : Holds(t)' /\ Plans(t)'
      <3> SUFFICES ASSUME NEW t \in Tx
                   PROVE  Holds(t)' /\ Plans(t)'
        OBVIOUS
      <3>1. Holds(t) /\ Plans(t)
        BY DEF AInv
      <3>2. Plans(t)'
        BY <2>1, <3>1 DEF Plans, EventsOf
      <3>3. Holds(t)'
        BY <2>1, <3>1 DEF Holds, Loaded, priorities
      <3> QED
        BY <3>2, <3>3
    <2> QED
      BY <2>1, <2>2 DEF AInv
  <1>2. ASSUME NEW t \in Thread, StampStatus(t)
        PROVE  AInv'
    <2>1. /\ UNCHANGED <<priorities, lock, pending, view, moment, changes>>
          /\ \A u \in Tx \ {t} : UNCHANGED <<pc[u], req[u]>>
          /\ pc'[t] = "commitStatus"
      BY <1>0, <1>2 DEF StampStatus, IInv, TypeOK, Domains
    <2> QED
      BY <1>0, <2>1, QuietKeeps DEF Session, Holds, Plans
  <1>3. ASSUME NEW t \in Tx, CommitStatus(t) \/ RefuseOverride(t) \/ Abort(t)
        PROVE  AInv'
    <2>1. /\ CloseSession(t) /\ pc' = [pc EXCEPT ![t] = "idle"]
          /\ UNCHANGED priorities
          /\ moment' \in {moment, [moment EXCEPT ![t] = None]}
      BY <1>3 DEF CommitStatus, RefuseOverride, Abort
    <2>2. \A u \in Tx \ {t} : UNCHANGED <<pc[u], moment[u]>>
      BY <2>1 DEF IInv, TypeOK
    <2>3. pc'[t] = "idle"
      BY <2>1 DEF IInv, TypeOK
    <2> QED
      BY <2>1, <2>2, <2>3, SameRows, ClosingKeeps
  <1>4. ASSUME NEW t \in Thread, LockForOps(t)
        PROVE  AInv'
    BY <1>4, LockingKeeps
  <1>5. ASSUME NEW t \in Thread, RefreshPriority(t) \/ ApplyCritical(t) \/ RemoveCritical(t)
        PROVE  AInv'
    BY <1>5, HandlingKeeps DEF RefreshPriority, ApplyCritical, RemoveCritical
  <1>6. ASSUME NEW r \in Run, StartRun(r) \/ EndRun(r)
        PROVE  AInv'
    <2>1. /\ UNCHANGED <<priorities, lock, pending, req, view, changes>>
          /\ \A u \in Tx \ {r} : UNCHANGED <<pc[u], moment[u]>>
      BY <1>0, <1>6 DEF StartRun, EndRun, locks, IInv, TypeOK
    <2> QED
      BY <1>0, <2>1, QuietKeeps DEF Session, Holds, Plans
  <1>7. ASSUME NEW r \in Run, ReadPage(r)
        PROVE  AInv'
    <2>1. /\ UNCHANGED <<priorities, lock, req, view, moment>>
          /\ \A u \in Tx \ {r} : UNCHANGED <<pc[u], changes[u], pending[u]>>
          /\ pending' = [u \in Tx |-> pending'[u]]
      BY ZenonT(60), <1>0, <1>7 DEF ReadPage, locks, IInv, TypeOK, Domains, AInv
    <2>2. Respects(r)
      BY <2>1, SameRows DEF Respects, Session
    <2>3. Holds(r)' /\ Plans(r)'
      BY <1>0 DEF Holds, Plans
    <2> QED
      BY <1>0, <2>1, <2>2, <2>3, OthersKeep DEF AInv
  <1>8. ASSUME NEW t \in Tx, Commit(t)
        PROVE  AInv'
    <2>1. /\ CloseSession(t) /\ moment' = moment
          /\ pc' = [pc EXCEPT ![t] = IF t \in Run THEN "read" ELSE "idle"]
      BY <1>8 DEF Commit
    <2>2. pc'[t] \in {"idle", "read"} /\ \A u \in Tx \ {t} : UNCHANGED <<pc[u], moment[u]>>
      BY <2>1 DEF IInv, TypeOK
    <2> QED
      BY <1>8, <2>1, <2>2, CommitRespects, ClosingKeeps
  <1> QED
    BY <1>0, <1>1, <1>2, <1>3, <1>4, <1>5, <1>6, <1>7, <1>8 DEF Next, ThreadStep, RunStep

\* What the requests of Ops rely on holds in every state.
LEMMA AInvariant == Spec => [](IInv /\ AInv)
  <1>1. Init => AInv
    BY DEF Init, AInv, Holds, Plans
  <1> QED
    BY <1>1, InitIInv, NextIInv, NextAInv, PTL DEF Spec

\* After the commit of a request of Ops the row is the one that it has made.
LEMMA OpsCommitWrites ==
  ASSUME IInv, AInv, NEW t \in Thread, Commit(t)
  PROVE  LET c == req[t].conversation
             row == changes[t][c].row
         IN /\ c \in Conversation
            /\ calculated[c] = view[t].calculated /\ override[c] = view[t].override
            /\ calculated'[c] = row.calculated /\ override'[c] = row.override
            /\ \A d \in Conversation \ {c} : Loaded(d)' = Loaded(d)
  <1> DEFINE c == req[t].conversation
             plan == changes[t][c]
  <1>0. t \in Tx /\ pc[t] = "commit"
    BY DEF Tx, Commit
  <1>1. c \in Conversation
    BY <1>0 DEF IInv, SessionOK, RequestOK
  <1>2. view[t] = Loaded(c)
    BY <1>0 DEF AInv, Holds
  <1>3. calculated[c] = view[t].calculated /\ override[c] = view[t].override
    BY <1>2 DEF Loaded
  <1>4. /\ DOMAIN changes[t] = {c}
        /\ "calculated" \notin plan.columns => plan.row.calculated = view[t].calculated
        /\ "override" \notin plan.columns => plan.row.override = view[t].override
    BY <1>0 DEF AInv, Plans, Column
  <1>5. \A d \in Conversation : d \in Dirty(t) <=> d = c /\ plan.columns # {}
    BY <1>4 DEF Dirty
  <1>6. /\ calculated' = Updated(t, "calculated", calculated)
        /\ calculatedAt' = Updated(t, "calculatedAt", calculatedAt)
        /\ override' = Updated(t, "override", override)
    BY DEF Commit
  <1>7. /\ calculated'[c] = IF "calculated" \in plan.columns THEN plan.row.calculated ELSE calculated[c]
        /\ override'[c] = IF "override" \in plan.columns THEN plan.row.override ELSE override[c]
    BY <1>1, <1>5, <1>6 DEF Updated
  <1>8. \A d \in Conversation \ {c} : Loaded(d)' = Loaded(d)
    BY <1>5, <1>6 DEF Updated, Loaded
  <1> QED
    BY <1>1, <1>3, <1>4, <1>7, <1>8

\* A commit of Ops against its announcement.
LEMMA OpsAnnounce ==
  ASSUME IInv, AInv, NEW t \in Thread, Commit(t)
  PROVE  /\ \A e \in pending[t] : /\ Effective(e.conversation) = e.from
                                  /\ Effective(e.conversation)' = e.to
         /\ \A c \in Conversation : Effective(c)' # Effective(c) =>
              \E e \in pending[t] : e.conversation = c
  <1>1. PICK c \in Conversation : c = req[t].conversation
    BY OpsCommitWrites
  <1>2. PICK row : row = changes[t][c].row
    OBVIOUS
  <1> DEFINE from == EffectivePriority(view[t].calculated, view[t].override)
             to == EffectivePriority(row.calculated, row.override)
  <1>3. /\ calculated[c] = view[t].calculated /\ override[c] = view[t].override
        /\ calculated'[c] = row.calculated /\ override'[c] = row.override
        /\ \A d \in Conversation \ {c} : Loaded(d)' = Loaded(d)
    BY <1>1, <1>2, OpsCommitWrites
  <1>4. t \in Tx /\ pc[t] = "commit"
    BY DEF Tx, Commit
  <1>5. pending[t] = IF from = to THEN {} ELSE {[conversation |-> c, from |-> from, to |-> to]}
    BY <1>1, <1>2, <1>4 DEF AInv, Plans, EventsOf
  <1>6. PICK f, g : /\ f = from /\ g = to
                    /\ Effective(c) = f /\ Effective(c)' = g
    BY <1>3 DEF Effective, EffectivePriority
  <1>7. \A d \in Conversation \ {c} : Effective(d)' = Effective(d)
    BY <1>3 DEF Loaded, Effective, EffectivePriority
  <1>8. pending[t] = IF f = g THEN {} ELSE {[conversation |-> c, from |-> f, to |-> g]}
    BY <1>5, <1>6
  <1>9. ASSUME NEW e \in pending[t]
        PROVE  Effective(e.conversation) = e.from /\ Effective(e.conversation)' = e.to
    <2>1. PICK event : event = [conversation |-> c, from |-> f, to |-> g]
      OBVIOUS
    <2>2. e = event
      BY <1>8, <2>1
    <2>3. event.conversation = c /\ event.from = f /\ event.to = g
      BY <2>1
    <2> QED
      BY <1>6, <2>2, <2>3
  <1>10. ASSUME f # g
         PROVE  \E e \in pending[t] : e.conversation = c
    <2>1. PICK event : event = [conversation |-> c, from |-> f, to |-> g]
      OBVIOUS
    <2>2. event \in pending[t]
      BY <1>8, <1>10, <2>1
    <2>3. event.conversation = c
      BY <2>1
    <2> QED
      BY <2>2, <2>3
  <1> QED
    BY <1>6, <1>7, <1>9, <1>10

\* Whatever the other requests, the job and the status of the item do in between, an
\* event of an Ops request names the effective priority before its commit and the one
\* after it (support/priority_ops.py).
THEOREM EventsTellTheTruth == Spec => EventsMatchRow
  <1>1. IInv /\ AInv => [\A t \in Thread : Commit(t) =>
             \A e \in pending[t] :
               Effective(e.conversation) = e.from /\ Effective(e.conversation)' = e.to]_vars
    BY OpsAnnounce
  <1> QED
    BY <1>1, AInvariant, PTL DEF Spec, EventsMatchRow

\* And no Ops request changes the effective priority of a conversation without an
\* event that says so.
THEOREM ChangesAreAnnounced == Spec => ChangesAnnounced
  <1>1. IInv /\ AInv => [\A t \in Thread : Commit(t) =>
             \A c \in Conversation : Effective(c)' # Effective(c) =>
               \E e \in pending[t] : e.conversation = c]_vars
    BY OpsAnnounce
  <1> QED
    BY <1>1, AInvariant, PTL DEF Spec, ChangesAnnounced

=============================================================================
