------------------------------ MODULE ItemPage ------------------------------
(***************************************************************************)
(* The page of one thing, with the buttons that change it: the seller's    *)
(* order item (StatusActions), the buyer's (BuyerCancelActions), the       *)
(* conversation of Ops (PriorityActions), and the internal comments of an  *)
(* item (InternalCommentsPanel).  The page is loaded by useAsync, a        *)
(* mutation is followed by a reload, the route may change under it, and    *)
(* others change the same row.                                             *)
(***************************************************************************)
EXTENDS AsyncView, FiniteSets, OrderStatus, SequencesExt

CONSTANTS
    Things,        \* items of one order, or conversations
    MaxComments,
    MaxRequests,   \* requests in flight at once
    MaxClicks      \* gestures of the user

\* What the constants must be.
ItemConstants == MaxComments \in Nat /\ MaxRequests \in Nat \ {0}

VARIABLES
    kind,          \* whose page: seller, buyer, ops or comments
    route,         \* the thing in the URL
    row,           \* the API's rows
    view,          \* what useAsync holds
    pending,       \* a mutation of the component that is mounted is in flight
    confirming,    \* its dialog is open
    openedFor,     \* history: the thing shown when the dialog opened
    told,          \* history: the last state of each thing a toast announced
    overlapped,    \* history: the newest load left while another was in flight
    strayed,       \* history: the route changed under an open dialog
    net,           \* requests in flight
    clicks

itemVars == <<kind, route, row, view, pending, confirming, openedFor, told,
              overlapped, strayed, net, clicks>>

-----------------------------------------------------------------------------
(* statusFlow and orders/status: the rules the browser keeps for itself *)

STATUS_SEQUENCE == <<"placed", "preparing", "in_transit", "delivered">>

NextStatus(current) ==
    {STATUS_SEQUENCE[i + 1] : i \in {j \in 1..3 : STATUS_SEQUENCE[j] = current}}

CANCELLABLE == {"placed", "preparing", "in_transit"}

\* Mutant of BUYER_CANCELLABLE: the seller's table.
SELLERS_TOO == {"placed", "preparing", "in_transit"}

BUYER_CANCELLABLE == {"placed", "preparing"}

-----------------------------------------------------------------------------
(* The pages.  The buyer's page loads the order, which holds every item; the *)
(* others load the one thing of the route.                                   *)

\* What each page loads for, and whether it shows the thing of the route or the
\* one it loaded.
SellerOrderItemDetailPage(r) == [deps |-> r, shows |-> "loaded"]
BuyerOrderItemDetailPage(r) == [deps |-> "order", shows |-> "route"]
OpsConversationDetailPage(r) == [deps |-> r, shows |-> "loaded"]
InternalCommentsPanel(r) == [deps |-> r, shows |-> "loaded"]

PageOf(r) ==
    CASE kind = "seller"   -> SellerOrderItemDetailPage(r)
      [] kind = "buyer"    -> BuyerOrderItemDetailPage(r)
      [] kind = "ops"      -> OpsConversationDetailPage(r)
      [] kind = "comments" -> InternalCommentsPanel(r)

Shown == IF PageOf(route).shows = "route" THEN route ELSE view.data.of

\* The order of the buyer holds every item; the others hold one thing.
Held(t) == IF kind = "buyer" THEN Things ELSE {t}

ShownState == view.data.row[Shown]

Rows ==
    CASE kind \in {"seller", "buyer"} -> OrderItemStatus
      [] kind = "ops"                 -> {"none", "critical"}
      [] kind = "comments"            -> 0..MaxComments

\* The buttons of a state: those that ask at once, <<request, new state>>, and
\* those that open a dialog first.
StatusActions(state) ==
    [ask |-> {<<"advance", to>> : to \in NextStatus(state)},
     confirm |-> {<<"cancel", "cancelled">> : s \in {state} \cap CANCELLABLE}]

BuyerCancelActions(state) ==
    [ask |-> {},
     confirm |-> {<<"cancel", "cancelled">> : s \in {state} \cap BUYER_CANCELLABLE}]

PriorityActions(state) ==
    [ask |-> {<<"refresh", state>>} \cup {<<"remove", "none">> : s \in {state} \cap {"critical"}},
     confirm |-> {<<"apply", "critical">> : s \in {state} \ {"critical"}}]

Buttons(state) ==
    CASE kind = "seller"   -> StatusActions(state)
      [] kind = "buyer"    -> BuyerCancelActions(state)
      [] kind = "ops"      -> PriorityActions(state)
      [] kind = "comments" -> [ask |-> {}, confirm |-> {}]

Fetch(t) == [op |-> "fetch", thing |-> t, answer |-> [status |-> "pending"]]

\* A mutation of what the page shows.  mounted: the component that asked is
\* still there; meant, saw, amid are history: the thing its dialog was opened
\* for, the state shown at the click, and whether another load or another
\* route had come in between.
Mutation(op, to, meant) ==
    [op |-> op, thing |-> Shown, to |-> to, mounted |-> TRUE,
     meant |-> meant, saw |-> ShownState, amid |-> overlapped \/ strayed,
     answer |-> [status |-> "pending"]]

Fetches(pipe) == \E i \in DOMAIN pipe : pipe[i].op = "fetch"

\* The buttons are part of what a loaded page renders; the comments keep their
\* field while the list loads.
ButtonsLive == view.status = "success"
Unmounted(pipe) ==
    [i \in DOMAIN pipe |-> IF pipe[i].op = "fetch" \/ kind = "comments" THEN pipe[i]
                           ELSE [pipe[i] EXCEPT !.mounted = FALSE]]

\* Mutant of Load: the dialog belongs to the page, and stays.
LoadUnderDialog(pipe, t, stillPending) ==
    /\ net' = Requested(Unmounted(pipe), Fetch(t))
    /\ overlapped' = Fetches(pipe)
    /\ view' = Loading
    /\ pending' = (kind = "comments" /\ stillPending)
    /\ UNCHANGED confirming

\* useAsync loads: the buttons go with their state, another request leaves.
Load(pipe, t, stillPending) ==
    /\ net' = Requested(Unmounted(pipe), Fetch(t))
    /\ overlapped' = Fetches(pipe)
    /\ view' = Loading
    /\ confirming' = FALSE
    /\ pending' = (kind = "comments" /\ stillPending)

Init ==
    /\ kind \in {"seller", "buyer", "ops", "comments"}
    /\ route \in Things
    /\ row \in [Things -> CASE kind = "ops"      -> {"none", "critical"}
                            [] kind = "comments" -> {0}
                            [] OTHER             -> {"placed", "in_transit"}]
    /\ view = Loading
    /\ pending = FALSE /\ confirming = FALSE
    /\ openedFor = route
    /\ told = row
    /\ overlapped = FALSE /\ strayed = FALSE
    /\ net = <<Fetch(route)>>
    /\ clicks = 0

Click ==
    /\ clicks < MaxClicks /\ clicks' = clicks + 1
    /\ UNCHANGED <<kind, row, told>>

-----------------------------------------------------------------------------
(* The user *)

\* A link, a notification or the browser's history changes the thing in the
\* URL.  The order of the buyer is the same, so nothing is loaded again; the
\* comments are part of a page that loads, and start again with it.
ChangeRoute(t) ==
    /\ Click
    /\ kind # "comments" /\ t # route
    /\ route' = t
    /\ IF PageOf(t).deps = PageOf(route).deps
       THEN /\ strayed' = (strayed \/ confirming)
            /\ UNCHANGED <<view, pending, confirming, overlapped, net>>
       ELSE /\ Len(net) < MaxRequests
            /\ Load(net, t, FALSE)
            /\ UNCHANGED strayed
    /\ UNCHANGED openedFor

Retry ==
    /\ Click
    /\ view = Failed
    /\ Len(net) < MaxRequests
    /\ Load(net, route, pending)
    /\ UNCHANGED <<route, openedFor, strayed>>

\* A button that asks at once; an open dialog covers it.
Ask(op, to) ==
    /\ Click
    /\ Len(net) < MaxRequests
    /\ ~pending /\ ~confirming
    /\ pending' = TRUE
    /\ net' = Append(net, Mutation(op, to, Shown))
    /\ UNCHANGED <<route, view, confirming, openedFor, overlapped, strayed>>

HandleAdvance ==
    /\ kind = "seller" /\ ButtonsLive
    /\ \E button \in Buttons(ShownState).ask : Ask(button[1], button[2])

RunPriority ==
    /\ kind = "ops" /\ ButtonsLive
    /\ \E button \in Buttons(ShownState).ask : Ask(button[1], button[2])

RegisterComment ==
    /\ kind = "comments"
    /\ Click
    /\ Len(net) < MaxRequests
    /\ ~pending
    /\ pending' = TRUE
    /\ net' = Append(net, [op |-> "comment", thing |-> route, mounted |-> TRUE,
                           meant |-> route, answer |-> [status |-> "pending"]])
    /\ UNCHANGED <<route, view, confirming, openedFor, overlapped, strayed>>

OpenDialog ==
    /\ Click
    /\ ButtonsLive /\ Buttons(ShownState).confirm # {}
    /\ ~pending /\ ~confirming
    /\ confirming' = TRUE
    /\ openedFor' = Shown
    /\ strayed' = FALSE
    /\ UNCHANGED <<route, view, pending, overlapped, net>>

\* Escape and the backdrop close it, even while its answer is awaited.
CloseDialog ==
    /\ Click
    /\ confirming
    /\ confirming' = FALSE
    /\ UNCHANGED <<route, view, pending, openedFor, overlapped, strayed, net>>

\* The dialog of Ops stays over a conversation that became critical; the
\* buyer's is gone with a status that cannot be cancelled.
DialogShown == confirming /\ ButtonsLive /\ (kind = "buyer" => ShownState \in BUYER_CANCELLABLE)

Confirm ==
    /\ Click
    /\ DialogShown /\ ~pending
    /\ Len(net) < MaxRequests
    /\ pending' = TRUE
    /\ net' = Append(net, IF kind = "ops" THEN Mutation("apply", "critical", openedFor)
                          ELSE Mutation("cancel", "cancelled", openedFor))
    /\ UNCHANGED <<route, view, confirming, openedFor, overlapped, strayed>>

-----------------------------------------------------------------------------
(* The API *)

\* The rules of orders/status.py and support/priority_ops.py; to repeat the
\* status or the cancellation changes nothing and is accepted.
Allowed(request) ==
    LET current == row[request.thing]
    IN  CASE request.op = "advance" -> current = request.to \/ ForwardTransition(current, request.to)
          [] request.op = "cancel"  -> current = "cancelled" \/ CanCancel(current, kind)
          [] request.op = "apply"   -> current = "none"
          [] request.op = "remove"  -> current = "critical"
          [] OTHER                  -> TRUE

Outcome(request) ==
    CASE request.op = "refresh" -> row[request.thing]
      [] request.op = "comment" -> row[request.thing] + 1
      [] OTHER                  -> request.to

Waits(i) == net[i].answer.status = "pending"
Answered(i, answer) == net' = [net EXCEPT ![i].answer = answer]

ClientUnchanged ==
    UNCHANGED <<kind, route, view, pending, confirming, openedFor, told,
                overlapped, strayed, clicks>>

ServeFetch(i) ==
    /\ net[i].op = "fetch" /\ Waits(i)
    /\ Answered(i, [status |-> "ok",
                    data |-> [of |-> net[i].thing,
                              row |-> [t \in Held(net[i].thing) |-> row[t]]]])
    /\ UNCHANGED row
    /\ ClientUnchanged

Accept(i) ==
    /\ net[i].op # "fetch" /\ Waits(i)
    /\ Allowed(net[i])
    /\ net[i].op = "comment" => row[net[i].thing] < MaxComments
    /\ row' = [row EXCEPT ![net[i].thing] = Outcome(net[i])]
    /\ Answered(i, [status |-> "ok", data |-> Outcome(net[i])])
    /\ ClientUnchanged

Refuse(i) ==
    /\ net[i].op # "fetch" /\ Waits(i)
    /\ ~Allowed(net[i])
    /\ Answered(i, [status |-> "refused", found |-> row[net[i].thing]])
    /\ UNCHANGED row
    /\ ClientUnchanged

\* Another session moves the row: the seller or the buyer an item, another
\* member of Ops the override, either side a comment.
Elsewhere(t, to) ==
    /\ \/ kind \in {"seller", "buyer"} /\ ForwardTransition(row[t], to)
       \/ kind \in {"seller", "buyer"} /\ to = "cancelled" /\ CanCancel(row[t], "seller")
       \/ kind = "ops" /\ to # row[t]
       \/ kind = "comments" /\ to = row[t] + 1
    /\ row' = [row EXCEPT ![t] = to]
    /\ UNCHANGED net
    /\ ClientUnchanged

-----------------------------------------------------------------------------
(* The answers reach the page *)

Comes(i) == net[i].answer.status = "ok" /\ UNCHANGED <<kind, route, row, openedFor, clicks>>

\* Whichever load it belongs to.  Buttons that were on show keep their state.
ShowFetched(i) ==
    /\ net[i].op = "fetch" /\ Comes(i)
    /\ view' = Arrived(net[i].answer.data)
    /\ net' = RemoveAt(net, i)
    /\ UNCHANGED <<pending, confirming, told, overlapped, strayed>>

\* The toast, and the page loads again: the state of the buttons goes.
ShowDone(i) ==
    /\ net[i].op # "fetch" /\ Comes(i)
    /\ told' = [told EXCEPT ![net[i].thing] = net[i].answer.data]
    /\ Load(RemoveAt(net, i), route, pending /\ ~net[i].mounted)
    /\ UNCHANGED strayed

\* A refusal, or an answer that never comes.
ShowError(i) ==
    /\ net' = RemoveAt(net, i)
    /\ IF net[i].op = "fetch"
       THEN /\ view' = Failed /\ pending' = (pending /\ kind = "comments") /\ confirming' = FALSE
       ELSE /\ pending' = (pending /\ ~net[i].mounted)
            /\ UNCHANGED <<view, confirming>>
    /\ UNCHANGED <<kind, route, row, openedFor, told, overlapped, strayed, clicks>>

Next ==
    \/ \E t \in Things : ChangeRoute(t)
    \/ Retry
    \/ HandleAdvance \/ RunPriority \/ RegisterComment
    \/ OpenDialog \/ CloseDialog \/ Confirm
    \/ \E i \in DOMAIN net :
          ServeFetch(i) \/ Accept(i) \/ Refuse(i) \/ ShowFetched(i) \/ ShowDone(i) \/ ShowError(i)
    \/ \E t \in Things : \E to \in Rows : Elsewhere(t, to)

Spec == Init /\ [][Next]_itemVars

-----------------------------------------------------------------------------
(* Properties *)

\* The type invariant of the page.
TypeOK ==
    /\ route \in Things
    /\ row \in [Things -> Rows]
    /\ view.status \in {"loading", "error", "success"}
    /\ {pending, confirming, overlapped, strayed} \subseteq BOOLEAN
    /\ confirming => view.status = "success"
    /\ Len(net) <= MaxRequests

\* The API refuses what a button asks only if the row changed after the page
\* had read it: the browser's tables of what can be advanced, cancelled, marked
\* or unmarked offer nothing that the rules of the API would reject for the
\* state shown (statusFlow.ts:5, orders/status.ts:11, PriorityActions.tsx:77).
RefusedOnlyWhenStale ==
    \A i \in DOMAIN net :
        net[i].answer.status = "refused" => \/ net[i].answer.found # net[i].saw
                                           \/ net[i].amid

\* What the user confirms in a dialog is done to the thing the dialog was
\* opened for, unless loads of the page overlapped or the route changed under
\* the dialog (StatusActions.tsx:46, BuyerCancelActions.tsx:27).
ConfirmedIsDone ==
    \A i \in DOMAIN net :
        net[i].op \in {"cancel", "apply"} => (net[i].thing = net[i].meant \/ net[i].amid)

\* Once no load is in flight, the state shown is not older than the one the
\* user was told of.
LaterOrSame(a, b) ==
    \/ a = b \/ b = "cancelled"
    \/ \E i, j \in DOMAIN STATUS_SEQUENCE : STATUS_SEQUENCE[i] = a /\ STATUS_SEQUENCE[j] = b /\ i <= j

ToldIsShown ==
    (kind \in {"seller", "buyer"} /\ view.status = "success" /\ ~Fetches(net) /\ ~overlapped)
        => LaterOrSame(told[Shown], ShownState)

=============================================================================
