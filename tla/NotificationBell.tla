-------------------------- MODULE NotificationBell --------------------------
(***************************************************************************)
(* The bell in the header: a count of unread notifications that is asked   *)
(* for again and again, a list that is loaded when the bell opens and      *)
(* grows by pages, marks that are shown before the API has made them, and  *)
(* the way from a notification to the page it is about.  Requests are      *)
(* served and answered in any order; some fail.                            *)
(***************************************************************************)
EXTENDS Integers, FiniteSets, SequencesExt

CONSTANTS
    EntityOf,      \* what each notification is about: ORDER_ITEM or CONVERSATION
    PageSize,
    MaxSent,       \* notifications of the user
    MaxRequests,   \* requests in flight at once
    MaxFailures,   \* requests that get no good answer
    MaxClicks      \* gestures of the user

\* What the constants must be.
BellConstants == PageSize \in Nat \ {0} /\ {MaxSent, MaxRequests, MaxFailures, MaxClicks} \subseteq Nat

VARIABLES
    role,          \* of the user
    sent,          \* notifications 1..sent exist, the highest is the newest
    read,          \* those marked as read
    unreadCount,   \* the number on the badge
    open,
    list,          \* [id, read] of the notifications on show; none before the first load
    total, page,
    loading, loadError, markingAll,
    route,         \* the page the user was last taken to
    net,           \* requests in flight
    failures, clicks

bellVars == <<role, sent, read, unreadCount, open, list, total, page, loading, loadError,
              markingAll, route, net, failures, clicks>>

listVars == <<list, total, page, loading, loadError>>

-----------------------------------------------------------------------------
(* The API: GET /notifications is paged from the newest one *)

Unread == sent - Cardinality(read)

PageOf(n) ==
    LET newest == [k \in 1..sent |-> sent + 1 - k]
        ids == SubSeq(newest, PageSize * (n - 1) + 1, Min({PageSize * n, sent}))
    IN  [k \in DOMAIN ids |-> [id |-> ids[k], read |-> ids[k] \in read]]

Request(op, arg) == [op |-> op, arg |-> arg, answer |-> [status |-> "pending"]]

-----------------------------------------------------------------------------
(* The bell *)

\* Where a notification leads, and what has to be looked up to know: an order
\* item of the buyer is under its order, a conversation under its item.
resolveNotificationRoute(r, entity) ==
    CASE r = "ops"                              -> [lookups |-> 0, to |-> "conversation"]
      [] r = "seller" /\ entity = "ORDER_ITEM"  -> [lookups |-> 0, to |-> "item"]
      [] r = "seller" /\ entity # "ORDER_ITEM"  -> [lookups |-> 1, to |-> "item of conversation"]
      [] r = "buyer" /\ entity = "ORDER_ITEM"   -> [lookups |-> 1, to |-> "item"]
      [] r = "buyer" /\ entity # "ORDER_ITEM"   -> [lookups |-> 2, to |-> "item of conversation"]

RouteTo(id) == resolveNotificationRoute(role, EntityOf[id])

NoList == <<[id |-> 0, read |-> TRUE]>>

Init ==
    /\ role \in {"buyer", "seller", "ops"}
    /\ sent = 0 /\ read = {}
    /\ unreadCount = 0 /\ open = FALSE
    /\ list = NoList /\ total = 0 /\ page = 1
    /\ loading = FALSE /\ loadError = FALSE /\ markingAll = FALSE
    /\ route = <<"here", 0>>
    /\ net = <<>> /\ failures = 0 /\ clicks = 0

ApiUnchanged == UNCHANGED <<role, sent, read, failures>>
Click == clicks < MaxClicks /\ clicks' = clicks + 1 /\ ApiUnchanged
RoomFor(n) == Len(net) + n <= MaxRequests

loadUnreadCount ==
    /\ RoomFor(1)
    /\ net' = Append(net, Request("count", 0))
    /\ ApiUnchanged
    /\ UNCHANGED <<unreadCount, open, listVars, markingAll, route, clicks>>

\* Opening loads the first page.
HandleToggle ==
    /\ Click
    /\ RoomFor(1)
    /\ open' = ~open
    /\ net' = IF open THEN net ELSE Append(net, Request("list", 1))
    /\ loading' = (loading \/ ~open) /\ loadError' = (loadError /\ open)
    /\ UNCHANGED <<unreadCount, list, total, page, markingAll, route>>

RetryList ==
    /\ Click
    /\ open /\ loadError
    /\ RoomFor(1)
    /\ net' = Append(net, Request("list", 1))
    /\ loading' = TRUE /\ loadError' = FALSE
    /\ UNCHANGED <<unreadCount, open, list, total, page, markingAll, route>>

hasOlder == list # NoList /\ Len(list) < total

LoadMore ==
    /\ Click
    /\ open /\ hasOlder /\ ~loading
    /\ RoomFor(1)
    /\ net' = Append(net, Request("list", page + 1))
    /\ loading' = TRUE /\ loadError' = FALSE
    /\ UNCHANGED <<unreadCount, open, list, total, page, markingAll, route>>

HandleMarkAll ==
    /\ Click
    /\ open /\ ~markingAll /\ unreadCount # 0
    /\ RoomFor(1)
    /\ markingAll' = TRUE
    /\ net' = Append(net, Request("all", 0))
    /\ UNCHANGED <<unreadCount, open, listVars, route>>

ShownRead(ids) == [k \in DOMAIN list |-> [list[k] EXCEPT !.read = @ \/ list[k].id \in ids]]

\* The badge never goes below zero.
Less(count, marks) == IF count = 0 THEN 0 ELSE count - marks

\* An unread notification is shown as read at once, the dropdown closes, and
\* the way to its page is looked up, or taken when there is nothing to look up.
Marks(id) == IF \E k \in DOMAIN list : list[k].id = id /\ ~list[k].read
             THEN <<Request("mark", id)>> ELSE <<>>
Lookups(id) == IF RouteTo(id).lookups = 0 THEN <<>> ELSE <<Request("lookup", <<id, 1>>)>>

HandleSelect(id) ==
    /\ Click
    /\ open /\ list # NoList
    /\ \E k \in DOMAIN list : list[k].id = id
    /\ RoomFor(Len(Marks(id)) + Len(Lookups(id)))
    /\ list' = ShownRead({id})
    /\ unreadCount' = Less(unreadCount, Len(Marks(id)))
    /\ net' = net \o Marks(id) \o Lookups(id)
    /\ open' = FALSE
    /\ route' = IF Lookups(id) = <<>> THEN <<RouteTo(id).to, id>> ELSE route
    /\ UNCHANGED <<total, page, loading, loadError, markingAll>>

-----------------------------------------------------------------------------
(* The API serves, and things happen elsewhere *)

ClientUnchanged == UNCHANGED <<role, unreadCount, open, listVars, markingAll, route, clicks>>

Serve(i) ==
    /\ net[i].answer.status = "pending"
    /\ net' = [net EXCEPT ![i].answer =
                 CASE net[i].op = "count" -> [status |-> "ok", unread |-> Unread]
                   [] net[i].op = "list"  -> [status |-> "ok", items |-> PageOf(net[i].arg),
                                              total |-> sent]
                   [] OTHER               -> [status |-> "ok"]]
    /\ read' = CASE net[i].op = "mark" -> read \cup {net[i].arg}
                 [] net[i].op = "all"  -> 1..sent
                 [] OTHER              -> read
    /\ UNCHANGED <<sent, failures>> /\ ClientUnchanged

\* A notification is sent; or the user reads one in another tab.
Notify ==
    /\ sent < MaxSent /\ sent' = sent + 1
    /\ UNCHANGED <<read, net, failures>> /\ ClientUnchanged

ReadElsewhere ==
    /\ Unread > 0
    /\ read' = 1..sent
    /\ UNCHANGED <<sent, net, failures>> /\ ClientUnchanged

-----------------------------------------------------------------------------
(* The answers *)

Comes(i, op) ==
    /\ net[i].op = op /\ net[i].answer.status = "ok"
    /\ ApiUnchanged /\ UNCHANGED clicks

\* Mutant of ShowCount: a smaller count is taken for a late one.
ShowCountThatGrew(i) ==
    /\ Comes(i, "count")
    /\ unreadCount' = IF net[i].answer.unread > unreadCount
                      THEN net[i].answer.unread ELSE unreadCount
    /\ net' = RemoveAt(net, i)
    /\ UNCHANGED <<open, listVars, markingAll, route>>

\* A count that grew while the list is open loads the list again.
ShowCount(i) ==
    LET grew == open /\ net[i].answer.unread > unreadCount
    IN  /\ Comes(i, "count")
        /\ unreadCount' = net[i].answer.unread
        /\ net' = RemoveAt(net, i) \o (IF grew THEN <<Request("list", 1)>> ELSE <<>>)
        /\ loading' = (loading \/ grew) /\ loadError' = (loadError /\ ~grew)
        /\ UNCHANGED <<open, list, total, page, markingAll, route>>

\* The first page replaces the list, another one is put at its end, whatever
\* came in between.
ShowList(i) ==
    /\ Comes(i, "list")
    /\ list' = IF net[i].arg = 1 THEN net[i].answer.items
               ELSE (IF list = NoList THEN <<>> ELSE list) \o net[i].answer.items
    /\ total' = net[i].answer.total
    /\ page' = net[i].arg
    /\ loading' = FALSE
    /\ net' = RemoveAt(net, i)
    /\ UNCHANGED <<unreadCount, open, loadError, markingAll, route>>

ShowAllMarked(i) ==
    /\ Comes(i, "all")
    /\ unreadCount' = 0
    /\ list' = IF list = NoList THEN list ELSE ShownRead(1..MaxSent)
    /\ markingAll' = FALSE
    /\ net' = RemoveAt(net, i)
    /\ UNCHANGED <<open, total, page, loading, loadError, route>>

Marked(i) ==
    /\ Comes(i, "mark")
    /\ net' = RemoveAt(net, i)
    /\ UNCHANGED <<unreadCount, open, listVars, markingAll, route>>

\* The next lookup, or the page, wherever the user has gone by then.
LookedUp(i) ==
    LET id == net[i].arg[1]  found == net[i].arg[2]
    IN  /\ Comes(i, "lookup")
        /\ net' = RemoveAt(net, i) \o (IF found = RouteTo(id).lookups THEN <<>>
                                        ELSE <<Request("lookup", <<id, found + 1>>)>>)
        /\ route' = IF found = RouteTo(id).lookups THEN <<RouteTo(id).to, id>> ELSE route
        /\ UNCHANGED <<unreadCount, open, listVars, markingAll>>

\* A failure, before or after the API did its part: an old list stays, the
\* badge stays, and a mark that failed stays shown.
Fail(i) ==
    /\ failures < MaxFailures /\ failures' = failures + 1
    /\ net' = RemoveAt(net, i)
    /\ loading' = (loading /\ net[i].op # "list")
    /\ loadError' = (loadError \/ net[i].op = "list")
    /\ markingAll' = (markingAll /\ net[i].op # "all")
    /\ UNCHANGED <<role, sent, read, unreadCount, open, list, total, page, route, clicks>>

Next ==
    \/ loadUnreadCount \/ HandleToggle \/ RetryList \/ LoadMore \/ HandleMarkAll
    \/ \E id \in 1..MaxSent : HandleSelect(id)
    \/ Notify \/ ReadElsewhere
    \/ \E i \in DOMAIN net :
          Serve(i) \/ ShowCount(i) \/ ShowList(i) \/ ShowAllMarked(i) \/ Marked(i)
          \/ LookedUp(i) \/ Fail(i)

Spec == Init /\ [][Next]_bellVars

\* The interval ticks, the API answers, the answers arrive.
Fairness ==
    /\ WF_bellVars(loadUnreadCount)
    /\ WF_bellVars(\E i \in DOMAIN net : Serve(i))
    /\ WF_bellVars(\E i \in DOMAIN net :
                      ShowCount(i) \/ ShowList(i) \/ ShowAllMarked(i) \/ Marked(i)
                      \/ LookedUp(i))

FairSpec == Spec /\ Fairness

-----------------------------------------------------------------------------
(* Properties *)

\* The type invariant of the bell.
TypeOK ==
    /\ sent \in 0..MaxSent /\ read \subseteq 1..sent
    /\ unreadCount \in 0..MaxSent /\ total \in 0..MaxSent
    /\ {open, loading, loadError, markingAll} \subseteq BOOLEAN
    /\ Len(net) <= MaxRequests

\* Once nothing happens any more, the badge shows the number of notifications
\* that are unread, whatever was shown before its time, came late or failed
\* (NotificationBell.tsx:42, :117, :136).
BadgeConverges == <>[](unreadCount = Unread)

=============================================================================
