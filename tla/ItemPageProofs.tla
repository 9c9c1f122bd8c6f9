--------------------------- MODULE ItemPageProofs ---------------------------
(***************************************************************************)
(* Proofs about ItemPage, for any things, gestures and requests in flight: *)
(* what is confirmed in a dialog is done to the thing it was opened for,   *)
(* the API refuses only what is out of date, and a page shows no older     *)
(* state than it has announced; and about the panel that such a page       *)
(* holds, ConversationPanel, for any threads and windows: it shows the     *)
(* messages of the conversation that is selected, in order.  The bell      *)
(* above it, NotificationBell, keeps its types.                            *)
(***************************************************************************)
EXTENDS ItemPage, AsyncViewProofs, FiniteSetTheorems, TLAPS

-----------------------------------------------------------------------------
(***************************************************************************)
(* The inductive invariant                                                 *)
(***************************************************************************)
Mutations == {"advance", "cancel", "apply", "remove", "refresh"}

\* The fields of a request.
Shaped(r) ==
  /\ {"op", "thing", "answer"} \subseteq DOMAIN r
  /\ r.op \in {"fetch", "comment"} \union Mutations
  /\ r.op # "fetch" => {"mounted", "meant"} \subseteq DOMAIN r
  /\ r.op \in Mutations => {"to", "saw", "amid"} \subseteq DOMAIN r

\* A request that changes the row was offered by a button of the state that the
\* user saw, or confirmed in a dialog of the thing that was shown.
Offered(r) ==
  /\ r.thing \in Things
  /\ r.op = "advance" => kind = "seller" /\ r.to \in NextStatus(r.saw)
  /\ r.op = "cancel" => r.to = "cancelled"
  /\ r.op = "cancel" =>
       \/ kind = "seller" /\ (r.saw \in CANCELLABLE \/ r.amid)
       \/ kind = "buyer" /\ r.saw \in BUYER_CANCELLABLE
  /\ r.op = "apply" => kind = "ops" /\ r.to = "critical" /\ (r.saw # "critical" \/ r.amid)
  /\ r.op = "remove" => kind = "ops" /\ r.saw = "critical" /\ r.to = "none"
  /\ r.op = "comment" => kind = "comments"
  /\ r.op \in {"cancel", "apply"} => r.thing = r.meant \/ r.amid

\* An answer is of the thing that was asked for; a refusal found another row.
AnswerOK(r) ==
  /\ r.answer.status \in {"pending", "ok", "refused"}
  /\ r.op = "fetch" /\ r.answer.status = "ok" => r.answer.data.of = r.thing
  /\ r.answer.status = "refused" => r.op \in Mutations /\ (r.answer.found # r.saw \/ r.amid)

RequestOK(r) == Shaped(r) /\ Offered(r) /\ AnswerOK(r)

RequestsOK ==
  /\ IsSeq(net)
  /\ \A i \in DOMAIN net : RequestOK(net[i])

\* Without overlap there is one load at most, and the page waits for it.
LoadsOK ==
  ~overlapped =>
    /\ \A i, j \in DOMAIN net : net[i].op = "fetch" /\ net[j].op = "fetch" => i = j
    /\ view.status # "loading" => ~Fetches(net)

PageOK ==
  /\ kind \in {"seller", "buyer", "ops", "comments"}
  /\ route \in Things
  /\ {pending, confirming, overlapped, strayed} \subseteq BOOLEAN
  /\ view.status \in {"loading", "error", "success"}
  /\ view.status = "success" => view.data.of \in Things
  /\ row = [t \in Things |-> row[t]]
  /\ kind = "ops" => \A t \in Things : row[t] \in {"none", "critical"}

\* While a dialog is open the page shows what it was opened for, in a state
\* that offers it.
DialogOK ==
  confirming =>
    /\ view.status = "success" /\ kind # "comments"
    /\ ~overlapped /\ ~strayed => openedFor = Shown
    /\ ~overlapped /\ kind # "buyer" => Buttons(ShownState).confirm # {}

IInv == PageOK /\ RequestsOK /\ LoadsOK /\ DialogOK

-----------------------------------------------------------------------------
(***************************************************************************)
(* Requests in flight                                                      *)
(***************************************************************************)

\* The same request, whatever its answer, and whoever waits for it.
Alike(q, r) ==
  /\ Shaped(q)
  /\ q.op = r.op /\ q.thing = r.thing
  /\ r.op # "fetch" => q.meant = r.meant
  /\ r.op \in Mutations => q.to = r.to /\ q.saw = r.saw /\ q.amid = r.amid

LEMMA AlikeOK ==
  ASSUME NEW q, NEW r, RequestOK(r), Alike(q, r), AnswerOK(q)
  PROVE  RequestOK(q)
  BY DEF RequestOK, Alike, Offered, Mutations

LEMMA SameAnswer ==
  ASSUME NEW q, NEW r, RequestOK(r), Alike(q, r), q.answer = r.answer
  PROVE  RequestOK(q)
  BY AlikeOK DEF RequestOK, Alike, AnswerOK, Mutations

\* The component that asked goes with its state.
LEMMA Unmounts ==
  ASSUME NEW s, IsSeq(s), \A i \in DOMAIN s : Shaped(s[i])
  PROVE  /\ IsSeq(Unmounted(s)) /\ Len(Unmounted(s)) = Len(s)
         /\ \A i \in DOMAIN s :
              Alike(Unmounted(s)[i], s[i]) /\ Unmounted(s)[i].answer = s[i].answer
  <1> DEFINE u == Unmounted(s)
  <1>1. u = [i \in 1 .. Len(s) |-> u[i]] /\ Len(s) \in Nat /\ DOMAIN s = 1 .. Len(s)
    BY Indices DEF Unmounted
  <1>2. ASSUME NEW i \in DOMAIN s
        PROVE  Alike(u[i], s[i]) /\ u[i].answer = s[i].answer
    <2>1. CASE s[i].op = "fetch" \/ kind = "comments"
      BY <2>1 DEF Unmounted, Alike
    <2>2. CASE ~(s[i].op = "fetch" \/ kind = "comments")
      <3>1. u[i] = [s[i] EXCEPT !.mounted = FALSE]
        BY <2>2 DEF Unmounted
      <3> HIDE DEF u
      <3> QED
        BY <3>1 DEF Alike, Shaped, Mutations
    <2> QED
      BY <2>1, <2>2
  <1> HIDE DEF u
  <1>3. IsSeq(u) /\ Len(u) = Len(s)
    BY <1>1, FromElements
  <1> QED
    BY <1>2, <1>3 DEF u

\* The API answers.
LEMMA Answers ==
  ASSUME RequestsOK, NEW i \in DOMAIN net, NEW answer, Answered(i, answer)
  PROVE  /\ IsSeq(net') /\ Len(net') = Len(net) /\ DOMAIN net' = DOMAIN net
         /\ \A j \in DOMAIN net : j # i => net'[j] = net[j]
         /\ Alike(net'[i], net[i]) /\ net'[i].answer = answer
  <1>1. Len(net) \in Nat /\ DOMAIN net = 1 .. Len(net)
    BY Indices DEF RequestsOK
  <1>2. /\ net' = [j \in 1 .. Len(net) |-> net'[j]]
        /\ \A j \in DOMAIN net : j # i => net'[j] = net[j]
        /\ net'[i] = [net[i] EXCEPT !.answer = answer]
    BY <1>1 DEF Answered
  <1>3. Shaped(net[i])
    BY DEF RequestsOK, RequestOK
  <1>4. Alike(net'[i], net[i]) /\ net'[i].answer = answer
    BY <1>2, <1>3 DEF Alike, Shaped, Mutations
  <1>5. IsSeq(net') /\ Len(net') = Len(net)
    <2>1. PICK m : m = net'
      OBVIOUS
    <2>2. m = [j \in 1 .. Len(net) |-> m[j]]
      BY <1>2, <2>1
    <2>3. IsSeq(m) /\ Len(m) = Len(net)
      BY <1>1, <2>2, FromElements
    <2> QED
      BY <2>1, <2>3
  <1> QED
    BY <1>1, <1>2, <1>4, <1>5

LEMMA AnswersKeep ==
  ASSUME RequestsOK, LoadsOK, NEW i \in DOMAIN net, NEW answer, Answered(i, answer),
         UNCHANGED <<kind, overlapped, view>>,
         answer.status \in {"ok", "refused"},
         net[i].op = "fetch" /\ answer.status = "ok" => answer.data.of = net[i].thing,
         answer.status = "refused" =>
           net[i].op \in Mutations /\ (answer.found # net[i].saw \/ net[i].amid)
  PROVE  RequestsOK' /\ LoadsOK'
  <1>1. /\ IsSeq(net') /\ DOMAIN net' = DOMAIN net
        /\ \A j \in DOMAIN net : j # i => net'[j] = net[j]
        /\ Alike(net'[i], net[i]) /\ net'[i].answer = answer
    BY Answers
  <1>2. RequestOK(net'[i])
    <2>1. AnswerOK(net'[i])
      BY <1>1 DEF AnswerOK, Alike
    <2> QED
      BY <1>1, <2>1, AlikeOK DEF RequestsOK
  <1>3. \A j \in DOMAIN net' : RequestOK(net'[j])
    BY <1>1, <1>2 DEF RequestsOK
  <1>4. RequestsOK'
    BY <1>1, <1>3 DEF RequestsOK, RequestOK, Offered
  <1>5. \A j \in DOMAIN net : net'[j].op = net[j].op
    BY <1>1 DEF Alike
  <1>6. LoadsOK'
    BY <1>1, <1>5 DEF LoadsOK, Fetches
  <1> QED
    BY <1>4, <1>6

\* The page asks for a change.
LEMMA AsksKeep ==
  ASSUME RequestsOK, LoadsOK, NEW m, net' = Append(net, m), RequestOK(m), m.op # "fetch",
         UNCHANGED <<kind, overlapped, view>>
  PROVE  RequestsOK' /\ LoadsOK'
  <1>1. /\ IsSeq(net') /\ Len(net') = Len(net) + 1
        /\ \A i \in DOMAIN net : net'[i] = net[i]
        /\ net'[Len(net) + 1] = m
    BY Appended DEF RequestsOK
  <1>2. /\ Len(net) \in Nat /\ DOMAIN net = 1 .. Len(net)
    BY Indices DEF RequestsOK
  <1>3. DOMAIN net' = 1 .. Len(net) + 1
    <2>1. PICK n : n = net'
      OBVIOUS
    <2> QED
      BY <1>1, <2>1, Indices
  <1>4. \A i \in DOMAIN net' : i \in DOMAIN net \/ net'[i] = m
    BY <1>1, <1>2, <1>3
  <1>5. RequestsOK'
    <2>1. \A i \in DOMAIN net' : RequestOK(net'[i])
      BY <1>1, <1>4 DEF RequestsOK
    <2> QED
      BY <1>1, <2>1 DEF RequestsOK, RequestOK, Offered
  <1>6. LoadsOK'
    BY <1>1, <1>4 DEF LoadsOK, Fetches
  <1> QED
    BY <1>5, <1>6

\* useAsync asks for the thing of a route.
LEMMA LoadsKeep ==
  ASSUME NEW pipe, IsSeq(pipe), \A i \in DOMAIN pipe : RequestOK(pipe[i]),
         NEW t \in Things, NEW still, Load(pipe, t, still), UNCHANGED kind
  PROVE  RequestsOK' /\ LoadsOK'
  <1>1. /\ IsSeq(Unmounted(pipe)) /\ Len(Unmounted(pipe)) = Len(pipe)
        /\ \A i \in DOMAIN pipe : /\ Alike(Unmounted(pipe)[i], pipe[i])
                                  /\ Unmounted(pipe)[i].answer = pipe[i].answer
    BY Unmounts DEF RequestOK
  <1>2. net' = Append(Unmounted(pipe), Fetch(t))
    BY DEF Load, Requested
  <1> DEFINE n == Len(pipe) + 1
  <1>3. Len(pipe) \in Nat /\ DOMAIN pipe = 1 .. Len(pipe) /\ DOMAIN Unmounted(pipe) = DOMAIN pipe
    BY Indices DEF Unmounted
  <1>4. /\ IsSeq(net') /\ Len(net') = n
        /\ \A i \in DOMAIN pipe : net'[i] = Unmounted(pipe)[i]
        /\ net'[n] = Fetch(t)
    BY <1>1, <1>2, <1>3, Appended
  <1>5. DOMAIN net' = 1 .. n
    <2>1. PICK m : m = net'
      OBVIOUS
    <2> QED
      BY <1>4, <2>1, Indices
  <1>6. \A i \in DOMAIN net' : i \in DOMAIN pipe \/ i = n
    BY <1>3, <1>5
  <1>7. RequestOK(Fetch(t))
    BY DEF Fetch, RequestOK, Shaped, Offered, AnswerOK, Mutations
  <1>8. \A i \in DOMAIN pipe : RequestOK(Unmounted(pipe)[i])
    BY <1>1, SameAnswer
  <1>9. RequestsOK'
    <2>1. \A i \in DOMAIN net' : RequestOK(net'[i])
      BY <1>4, <1>6, <1>7, <1>8
    <2> QED
      BY <1>4, <2>1 DEF RequestsOK, RequestOK, Offered
  <1>10. LoadsOK'
    <2> SUFFICES ASSUME ~overlapped'
                 PROVE  /\ \A i, j \in DOMAIN net' :
                             net'[i].op = "fetch" /\ net'[j].op = "fetch" => i = j
                        /\ view'.status = "loading"
      BY DEF LoadsOK
    <2>1. \A i \in DOMAIN pipe : pipe[i].op # "fetch"
      BY DEF Load, Fetches
    <2>2. \A i \in DOMAIN net' : net'[i].op = "fetch" => i = n
      BY <1>1, <1>4, <1>6, <2>1 DEF Alike
    <2>3. view'.status = "loading"
      BY DEF Load, Loading
    <2> QED
      BY <2>2, <2>3
  <1> QED
    BY <1>9, <1>10

\* What is left when an answer has been taken.
LEMMA RemovedOK ==
  ASSUME RequestsOK, LoadsOK, NEW i \in DOMAIN net
  PROVE  LET rest == RemoveAt(net, i)
         IN /\ IsSeq(rest) /\ Len(rest) = Len(net) - 1
            /\ \A j \in DOMAIN rest : RequestOK(rest[j])
            /\ ~overlapped =>
                 /\ \A j, k \in DOMAIN rest :
                      rest[j].op = "fetch" /\ rest[k].op = "fetch" => j = k
                 /\ net[i].op = "fetch" => ~Fetches(rest)
                 /\ Fetches(rest) => Fetches(net)
  <1>1. PICK rest : rest = RemoveAt(net, i)
    OBVIOUS
  <1>2. /\ IsSeq(rest) /\ Len(rest) = Len(net) - 1
        /\ \A j \in DOMAIN rest : rest[j] = net[IF j < i THEN j ELSE j + 1]
    BY <1>1, Removed DEF RequestsOK
  <1>3. /\ Len(net) \in Nat /\ DOMAIN net = 1 .. Len(net)
        /\ Len(rest) \in Nat /\ DOMAIN rest = 1 .. Len(rest)
    BY <1>2, Indices DEF RequestsOK
  <1> DEFINE from(j) == IF j < i THEN j ELSE j + 1
  <1>4. /\ \A j \in DOMAIN rest : from(j) \in DOMAIN net /\ from(j) # i
        /\ \A j, k \in DOMAIN rest : from(j) = from(k) => j = k
    BY <1>2, <1>3
  <1>5. \A j \in DOMAIN rest : rest[j] = net[from(j)]
    BY <1>2
  <1> HIDE DEF from
  <1>6. \A j \in DOMAIN rest : RequestOK(rest[j])
    BY <1>4, <1>5 DEF RequestsOK
  <1>7. Fetches(rest) => Fetches(net)
    BY <1>4, <1>5 DEF Fetches
  <1>8. ASSUME ~overlapped
        PROVE  /\ \A j, k \in DOMAIN rest :
                    rest[j].op = "fetch" /\ rest[k].op = "fetch" => j = k
               /\ net[i].op = "fetch" => ~Fetches(rest)
    BY <1>4, <1>5, <1>8 DEF LoadsOK, Fetches
  <1> QED
    BY <1>1, <1>2, <1>6, <1>7, <1>8

LEMMA DropsKeep ==
  ASSUME RequestsOK, LoadsOK, NEW i \in DOMAIN net, net' = RemoveAt(net, i),
         UNCHANGED <<kind, overlapped>>, net[i].op = "fetch" \/ UNCHANGED view
  PROVE  RequestsOK' /\ LoadsOK'
  <1>1. RequestsOK'
    BY RemovedOK DEF RequestsOK, RequestOK, Offered
  <1>2. LoadsOK'
    BY RemovedOK DEF LoadsOK, Fetches
  <1> QED
    BY <1>1, <1>2

-----------------------------------------------------------------------------
(***************************************************************************)
(* Steps                                                                   *)
(***************************************************************************)

\* The page is left as it is.
LEMMA DialogFrame ==
  ASSUME DialogOK,
         UNCHANGED <<kind, route, view, confirming, overlapped, strayed, openedFor>>
  PROVE  DialogOK'
  BY DEF DialogOK, Shown, ShownState, PageOf, Buttons, SellerOrderItemDetailPage,
         BuyerOrderItemDetailPage, OpsConversationDetailPage, InternalCommentsPanel

\* Every page shows the thing it has loaded, but the buyer's the one of the route.
LEMMA WhatIsShown ==
  ASSUME PageOK
  PROVE  /\ kind = "buyer" => Shown = route
         /\ kind # "buyer" => Shown = view.data.of
         /\ view.status = "success" => Shown \in Things
  BY DEF PageOK, Shown, PageOf, SellerOrderItemDetailPage, BuyerOrderItemDetailPage,
         OpsConversationDetailPage, InternalCommentsPanel

LEMMA InitIInv == Init => IInv
  <1> SUFFICES ASSUME Init
               PROVE  IInv
    OBVIOUS
  <1>1. PageOK
    BY DEF Init, PageOK, Loading
  <1>2. RequestsOK
    <2>1. Fetch(route).op = "fetch" /\ RequestOK(Fetch(route))
      BY DEF Init, Fetch, RequestOK, Shaped, Offered, AnswerOK, Mutations
    <2>2. DOMAIN net = {1} /\ net[1] = Fetch(route)
      BY DEF Init
    <2>3. net = [j \in 1 .. 1 |-> net[j]]
      BY DEF Init
    <2>4. IsSeq(net)
      BY <2>3, FromElements
    <2> QED
      BY <2>1, <2>2, <2>4 DEF RequestsOK
  <1>3. LoadsOK
    BY DEF Init, LoadsOK, Loading
  <1>4. DialogOK
    BY DEF Init, DialogOK
  <1> QED
    BY <1>1, <1>2, <1>3, <1>4 DEF IInv

\* A new load ends whatever depended on the view.
LEMMA LoadIInv ==
  ASSUME IInv, NEW pipe, IsSeq(pipe), \A i \in DOMAIN pipe : RequestOK(pipe[i]),
         NEW still, Load(pipe, route', still), route' \in Things,
         UNCHANGED <<kind, row, strayed>>
  PROVE  IInv'
  <1>1. RequestsOK' /\ LoadsOK'
    BY LoadsKeep
  <1>2. PageOK'
    <2>1. view'.status = "loading"
      BY DEF Load, Loading
    <2>2. pending' \in BOOLEAN
      BY Zenon DEF Load
    <2>3. confirming' \in BOOLEAN
      BY Zenon DEF Load
    <2>4. overlapped' \in BOOLEAN
      BY Zenon DEF Load, Fetches
    <2>5. strayed' \in BOOLEAN
      BY DEF IInv, PageOK
    <2> QED
      BY <2>1, <2>2, <2>3, <2>4, <2>5 DEF IInv, PageOK
  <1>3. DialogOK'
    BY DEF Load, DialogOK
  <1> QED
    BY <1>1, <1>2, <1>3 DEF IInv

LEMMA ChangeRouteIInv ==
  ASSUME IInv, NEW t \in Things, ChangeRoute(t)
  PROVE  IInv'
  <1>1. CASE PageOf(t).deps = PageOf(route).deps
    <2>1. /\ kind = "buyer" /\ kind' = kind
      BY <1>1 DEF ChangeRoute, Click, IInv, PageOK, PageOf, SellerOrderItemDetailPage,
                  BuyerOrderItemDetailPage, OpsConversationDetailPage
    <2>2. /\ UNCHANGED <<kind, row, view, pending, confirming, overlapped, net>>
          /\ strayed' = (strayed \/ confirming) /\ route' = t
      BY <1>1 DEF ChangeRoute, Click
    <2>3. PageOK'
      BY <2>2 DEF IInv, PageOK
    <2>4. RequestsOK' /\ LoadsOK'
      BY <2>2 DEF IInv, RequestsOK, RequestOK, Offered, LoadsOK, Fetches
    <2>5. DialogOK'
      BY <2>1, <2>2 DEF IInv, DialogOK
    <2> QED
      BY <2>3, <2>4, <2>5 DEF IInv
  <1>2. CASE PageOf(t).deps # PageOf(route).deps
    <2>1. Load(net, route', FALSE) /\ route' = t /\ UNCHANGED <<kind, row, strayed>>
      BY <1>2 DEF ChangeRoute, Click
    <2> QED
      BY <2>1, LoadIInv DEF IInv, RequestsOK
  <1> QED
    BY <1>1, <1>2

LEMMA RetryIInv ==
  ASSUME IInv, Retry
  PROVE  IInv'
  <1>1. Load(net, route', pending) /\ UNCHANGED <<kind, row, route, strayed>>
    BY DEF Retry, Click
  <1> QED
    BY <1>1, LoadIInv DEF IInv, RequestsOK, PageOK

\* A request is sent, and nothing else of the page changes.
LEMMA SendIInv ==
  ASSUME IInv, NEW m, net' = Append(net, m), RequestOK(m), m.op # "fetch", pending',
         UNCHANGED <<kind, route, row, view, confirming, openedFor, overlapped, strayed>>
  PROVE  IInv'
  <1>1. RequestsOK' /\ LoadsOK'
    BY AsksKeep DEF IInv
  <1>2. PageOK'
    BY DEF IInv, PageOK
  <1>3. DialogOK'
    BY DialogFrame DEF IInv
  <1> QED
    BY <1>1, <1>2, <1>3 DEF IInv

\* What a mutation records of the page that sent it.
LEMMA MutationOf ==
  ASSUME NEW op \in Mutations, NEW to, NEW meant
  PROVE  LET m == Mutation(op, to, meant)
         IN /\ Shaped(m) /\ AnswerOK(m)
            /\ m.op = op /\ m.to = to /\ m.meant = meant /\ m.thing = Shown
            /\ m.saw = ShownState /\ (m.amid <=> overlapped \/ strayed)
  BY DEF Mutation, Shaped, AnswerOK, Mutations

LEMMA AskIInv ==
  ASSUME IInv, NEW button \in Buttons(ShownState).ask, ButtonsLive, Ask(button[1], button[2])
  PROVE  IInv'
  <1> DEFINE m == Mutation(button[1], button[2], Shown)
  <1>1. /\ kind = "seller" \/ kind = "ops"
        /\ button[1] \in {"advance", "refresh", "remove"}
        /\ button[1] = "advance" => kind = "seller" /\ button[2] \in NextStatus(ShownState)
        /\ button[1] = "remove" => kind = "ops" /\ ShownState = "critical" /\ button[2] = "none"
    BY DEF IInv, PageOK, Buttons, StatusActions, BuyerCancelActions, PriorityActions
  <1>2. Shown \in Things
    BY WhatIsShown DEF IInv, ButtonsLive
  <1>3. RequestOK(m) /\ m.op # "fetch"
    <2>1. button[1] \in Mutations
      BY <1>1 DEF Mutations
    <2>2. /\ Shaped(m) /\ AnswerOK(m) /\ m.op = button[1] /\ m.to = button[2]
          /\ m.thing = Shown /\ m.saw = ShownState
      BY <2>1, MutationOf
    <2> HIDE DEF m
    <2> QED
      BY <1>1, <1>2, <2>2 DEF RequestOK, Offered
  <1>4. /\ net' = Append(net, m) /\ pending'
        /\ UNCHANGED <<kind, route, row, view, confirming, openedFor, overlapped, strayed>>
    BY DEF Ask, Click
  <1> HIDE DEF m
  <1> QED
    BY <1>3, <1>4, SendIInv

LEMMA RegisterCommentIInv ==
  ASSUME IInv, RegisterComment
  PROVE  IInv'
  <1> DEFINE m == [op |-> "comment", thing |-> route, mounted |-> TRUE,
                   meant |-> route, answer |-> [status |-> "pending"]]
  <1>1. RequestOK(m) /\ m.op # "fetch"
    BY DEF RequestOK, Shaped, Offered, AnswerOK, Mutations, IInv, PageOK, RegisterComment
  <1>2. /\ net' = Append(net, m) /\ pending'
        /\ UNCHANGED <<kind, route, row, view, confirming, openedFor, overlapped, strayed>>
    BY DEF RegisterComment, Click
  <1> HIDE DEF m
  <1> QED
    BY <1>1, <1>2, SendIInv

LEMMA ConfirmIInv ==
  ASSUME IInv, Confirm
  PROVE  IInv'
  <1>1. /\ confirming /\ view.status = "success" /\ kind # "comments" /\ Shown \in Things
        /\ kind = "buyer" => ShownState \in BUYER_CANCELLABLE
        /\ ~overlapped /\ ~strayed => openedFor = Shown
        /\ ~overlapped /\ kind # "buyer" => Buttons(ShownState).confirm # {}
    BY WhatIsShown DEF Confirm, DialogShown, ButtonsLive, IInv, DialogOK
  <1>2. /\ ~overlapped /\ kind = "seller" => ShownState \in CANCELLABLE
        /\ ~overlapped /\ kind = "ops" => ShownState # "critical"
    BY <1>1 DEF Buttons, StatusActions, PriorityActions
  <1>3. PICK op, to :
          /\ op \in {"apply", "cancel"}
          /\ net' = Append(net, Mutation(op, to, openedFor))
          /\ kind = "ops" => op = "apply" /\ to = "critical"
          /\ kind # "ops" => op = "cancel" /\ to = "cancelled"
    BY DEF Confirm
  <1> DEFINE m == Mutation(op, to, openedFor)
  <1>4. RequestOK(m) /\ m.op # "fetch"
    <2>1. /\ Shaped(m) /\ AnswerOK(m) /\ m.op = op /\ m.to = to /\ m.meant = openedFor
          /\ m.thing = Shown /\ m.saw = ShownState /\ (m.amid <=> overlapped \/ strayed)
      BY <1>3, MutationOf DEF Mutations
    <2> HIDE DEF m
    <2>2. Offered(m)
      BY <1>1, <1>2, <1>3, <2>1 DEF Offered, IInv, PageOK
    <2> QED
      BY <1>3, <2>1, <2>2 DEF RequestOK
  <1>5. /\ net' = Append(net, m) /\ pending'
        /\ UNCHANGED <<kind, route, row, view, confirming, openedFor, overlapped, strayed>>
    BY <1>3 DEF Confirm, Click
  <1> HIDE DEF m
  <1> QED
    BY <1>4, <1>5, SendIInv

LEMMA DialogIInv ==
  ASSUME IInv, OpenDialog \/ CloseDialog
  PROVE  IInv'
  <1>1. UNCHANGED <<kind, route, row, view, pending, overlapped, net>>
    BY DEF OpenDialog, CloseDialog, Click
  <1>2. PageOK'
    BY <1>1 DEF OpenDialog, CloseDialog, IInv, PageOK
  <1>3. RequestsOK' /\ LoadsOK'
    BY <1>1 DEF IInv, RequestsOK, RequestOK, Offered, LoadsOK, Fetches
  <1>4. CASE OpenDialog
    <2>1. /\ view.status = "success" /\ Buttons(ShownState).confirm # {} /\ openedFor' = Shown
      BY <1>4 DEF OpenDialog, ButtonsLive
    <2>2. kind # "comments"
      BY <2>1 DEF Buttons
    <2>3. /\ Shown' = Shown /\ ShownState' = ShownState
          /\ Buttons(ShownState)' = Buttons(ShownState)
      BY <1>1 DEF Shown, ShownState, PageOf, Buttons, SellerOrderItemDetailPage,
                  BuyerOrderItemDetailPage, OpsConversationDetailPage, InternalCommentsPanel
    <2>4. DialogOK'
      BY <1>1, <2>1, <2>2, <2>3 DEF DialogOK
    <2> QED
      BY <1>2, <1>3, <2>4 DEF IInv
  <1>5. CASE CloseDialog
    <2>1. DialogOK'
      BY <1>5 DEF CloseDialog, DialogOK
    <2> QED
      BY <1>2, <1>3, <2>1 DEF IInv
  <1> QED
    BY <1>4, <1>5

-----------------------------------------------------------------------------
(***************************************************************************)
(* Answers                                                                 *)
(***************************************************************************)

\* What statusFlow.ts offers next, orders/status.py allows.
LEMMA NextIsForward ==
  ASSUME NEW s, NEW to \in NextStatus(s)
  PROVE  ForwardTransition(s, to) /\ s \in OrderItemForwardStatus /\ to \in OrderItemForwardStatus
  <1>1. PICK j \in 1 .. 3 : STATUS_SEQUENCE[j] = s /\ to = STATUS_SEQUENCE[j + 1]
    BY DEF NextStatus
  <1>2. j = 1 \/ j = 2 \/ j = 3
    OBVIOUS
  <1> QED
    BY <1>1, <1>2 DEF STATUS_SEQUENCE, ForwardTransition, FORWARD, OrderItemForwardStatus

\* The browser's tables offer nothing that the API refuses for the same state.
LEMMA OfferedIsAllowed ==
  ASSUME PageOK, NEW r, RequestOK(r), r.op \in Mutations, r.saw = row[r.thing], ~r.amid
  PROVE  Allowed(r)
  <1>1. r.thing \in Things /\ Offered(r)
    BY DEF RequestOK, Offered
  <1>2. CASE r.op = "advance"
    <2>1. ForwardTransition(row[r.thing], r.to)
      BY <1>1, <1>2, NextIsForward DEF Offered
    <2> QED
      BY <1>2, <2>1 DEF Allowed
  <1>3. CASE r.op = "cancel"
    <2>1. CanCancel(row[r.thing], kind)
      BY <1>1, <1>3 DEF Offered, CanCancel, CANCELLABLE, BUYER_CANCELLABLE,
                        BUYER_CANCEL_STATUSES, SELLER_CANCEL_STATUSES
    <2> QED
      BY <1>3, <2>1 DEF Allowed
  <1>4. CASE r.op = "apply"
    <2>1. row[r.thing] = "none"
      BY <1>1, <1>4 DEF Offered, PageOK
    <2> QED
      BY <1>4, <2>1 DEF Allowed
  <1>5. CASE r.op = "remove"
    BY <1>1, <1>5 DEF Offered, Allowed
  <1>6. CASE r.op = "refresh"
    BY <1>6 DEF Allowed
  <1> QED
    BY <1>2, <1>3, <1>4, <1>5, <1>6 DEF Mutations

\* What a request makes of the row.
LEMMA OutcomeTyped ==
  ASSUME PageOK, NEW r, RequestOK(r), r.op # "fetch", kind = "ops"
  PROVE  Outcome(r) \in {"none", "critical"}
  <1>1. r.op \in {"apply", "remove", "refresh"} /\ r.thing \in Things
    BY DEF RequestOK, Shaped, Offered, Mutations
  <1>2. r.op = "apply" => r.to = "critical"
    BY DEF RequestOK, Offered
  <1>3. r.op = "remove" => r.to = "none"
    BY DEF RequestOK, Offered
  <1>4. r.op = "refresh" => Outcome(r) = row[r.thing]
    BY DEF Outcome
  <1>5. r.op \in {"apply", "remove"} => Outcome(r) = r.to
    BY DEF Outcome
  <1> QED
    BY <1>1, <1>2, <1>3, <1>4, <1>5 DEF PageOK

\* The rows change, and an answer is under way or nothing is.
LEMMA ServedIInv ==
  ASSUME IInv, ClientUnchanged, RequestsOK', LoadsOK',
         row' = [t \in Things |-> row'[t]],
         kind = "ops" => \A t \in Things : row'[t] \in {"none", "critical"}
  PROVE  IInv'
  <1>1. PageOK'
    BY DEF ClientUnchanged, IInv, PageOK
  <1>2. DialogOK'
    BY DialogFrame DEF ClientUnchanged, IInv
  <1> QED
    BY <1>1, <1>2 DEF IInv

LEMMA ServeIInv ==
  ASSUME IInv, NEW i \in DOMAIN net, ServeFetch(i) \/ Accept(i) \/ Refuse(i)
  PROVE  IInv'
  <1>0. RequestOK(net[i]) /\ UNCHANGED <<kind, overlapped, view>> /\ RequestsOK /\ LoadsOK /\ PageOK
    BY DEF IInv, RequestsOK, ServeFetch, Accept, Refuse, ClientUnchanged
  <1>1. CASE ServeFetch(i)
    <2>1. PICK rows :
            Answered(i, [status |-> "ok", data |-> [of |-> net[i].thing, row |-> rows]])
      BY <1>1 DEF ServeFetch
    <2>2. RequestsOK' /\ LoadsOK'
      BY <1>0, <2>1, AnswersKeep
    <2> QED
      BY <1>0, <1>1, <2>2, ServedIInv DEF ServeFetch, PageOK
  <1>2. CASE Accept(i)
    <2>1. /\ net[i].op # "fetch"
          /\ Answered(i, [status |-> "ok", data |-> Outcome(net[i])])
          /\ row' = [row EXCEPT ![net[i].thing] = Outcome(net[i])]
      BY <1>2 DEF Accept
    <2>2. RequestsOK' /\ LoadsOK'
      BY <1>0, <2>1, AnswersKeep
    <2>3. kind = "ops" => Outcome(net[i]) \in {"none", "critical"}
      BY <1>0, <2>1, OutcomeTyped
    <2>4. /\ row' = [t \in Things |-> row'[t]]
          /\ kind = "ops" => \A t \in Things : row'[t] \in {"none", "critical"}
      BY <1>0, <2>1, <2>3 DEF PageOK
    <2> QED
      BY <1>2, <2>2, <2>4, ServedIInv DEF Accept
  <1>3. CASE Refuse(i)
    <2>1. /\ Answered(i, [status |-> "refused", found |-> row[net[i].thing]])
          /\ ~Allowed(net[i]) /\ net[i].op # "fetch"
      BY <1>3 DEF Refuse
    <2>2. net[i].op \in Mutations
      <3>1. net[i].op # "comment"
        BY <2>1 DEF Allowed
      <3> QED
        BY <1>0, <2>1, <3>1 DEF RequestOK, Shaped
    <2>3. row[net[i].thing] # net[i].saw \/ net[i].amid
      BY <1>0, <2>1, <2>2, OfferedIsAllowed
    <2>4. RequestsOK' /\ LoadsOK'
      BY <1>0, <2>1, <2>2, <2>3, AnswersKeep
    <2> QED
      BY <1>0, <1>3, <2>4, ServedIInv DEF Refuse, PageOK
  <1> QED
    BY <1>1, <1>2, <1>3

LEMMA ElsewhereIInv ==
  ASSUME IInv, NEW t \in Things, NEW to \in Rows, Elsewhere(t, to)
  PROVE  IInv'
  <1>1. /\ UNCHANGED <<kind, net, overlapped, view>> /\ ClientUnchanged
        /\ row' = [row EXCEPT ![t] = to]
    BY DEF Elsewhere, ClientUnchanged
  <1>2. RequestsOK' /\ LoadsOK'
    BY <1>1 DEF IInv, RequestsOK, RequestOK, Offered, LoadsOK, Fetches
  <1>3. kind = "ops" => to \in {"none", "critical"}
    BY DEF Rows
  <1>4. /\ row' = [u \in Things |-> row'[u]]
        /\ kind = "ops" => \A u \in Things : row'[u] \in {"none", "critical"}
    BY <1>1, <1>3 DEF IInv, PageOK
  <1> QED
    BY <1>1, <1>2, <1>4, ServedIInv

LEMMA ShowFetchedIInv ==
  ASSUME IInv, NEW i \in DOMAIN net, ShowFetched(i)
  PROVE  IInv'
  <1>1. /\ net[i].op = "fetch" /\ net[i].answer.status = "ok" /\ net' = RemoveAt(net, i)
        /\ view' = Success(net[i].answer.data)
        /\ UNCHANGED <<kind, route, row, openedFor, pending, confirming, overlapped, strayed>>
    BY DEF ShowFetched, Comes, Arrived
  <1>2. view'.status = "success" /\ view'.data = net[i].answer.data /\ view'.data.of \in Things
    <2>1. net[i].answer.data.of \in Things
      BY <1>1 DEF IInv, RequestsOK, RequestOK, AnswerOK, Offered
    <2> QED
      BY <1>1, <2>1 DEF Success
  <1>3. RequestsOK' /\ LoadsOK'
    BY <1>1, DropsKeep DEF IInv
  <1>4. PageOK'
    BY <1>1, <1>2 DEF IInv, PageOK
  <1>5. confirming => overlapped
    BY <1>1 DEF IInv, DialogOK, LoadsOK, Fetches
  <1>6. DialogOK'
    BY <1>1, <1>2, <1>5 DEF IInv, DialogOK
  <1> QED
    BY <1>3, <1>4, <1>6 DEF IInv

LEMMA ShowDoneIInv ==
  ASSUME IInv, NEW i \in DOMAIN net, ShowDone(i)
  PROVE  IInv'
  <1>1. /\ Load(RemoveAt(net, i), route', pending /\ ~net[i].mounted)
        /\ UNCHANGED <<kind, route, row, strayed>>
    BY DEF ShowDone, Comes
  <1>2. /\ IsSeq(RemoveAt(net, i))
        /\ \A j \in DOMAIN RemoveAt(net, i) : RequestOK(RemoveAt(net, i)[j])
    BY RemovedOK DEF IInv
  <1>3. route' \in Things
    BY <1>1 DEF IInv, PageOK
  <1> QED
    BY <1>1, <1>2, <1>3, LoadIInv

LEMMA ShowErrorIInv ==
  ASSUME IInv, NEW i \in DOMAIN net, ShowError(i)
  PROVE  IInv'
  <1>1. /\ net' = RemoveAt(net, i)
        /\ UNCHANGED <<kind, route, row, openedFor, overlapped, strayed>>
        /\ net[i].op = "fetch" =>
             /\ view' = Failed /\ confirming' = FALSE
             /\ pending' = (pending /\ kind = "comments")
        /\ net[i].op # "fetch" =>
             /\ UNCHANGED <<view, confirming>>
             /\ pending' = (pending /\ ~net[i].mounted)
    BY DEF ShowError
  <1>2. RequestsOK' /\ LoadsOK'
    BY <1>1, DropsKeep DEF IInv
  <1>3. PageOK'
    <2>1. pending' \in BOOLEAN /\ confirming' \in BOOLEAN
      BY <1>1 DEF IInv, PageOK
    <2> QED
      BY <1>1, <2>1 DEF IInv, PageOK, Failed
  <1>4. DialogOK'
    BY <1>1, DialogFrame DEF IInv, DialogOK
  <1> QED
    BY <1>2, <1>3, <1>4 DEF IInv

LEMMA NextIInv == IInv /\ [Next]_itemVars => IInv'
  <1> SUFFICES ASSUME IInv, [Next]_itemVars
               PROVE  IInv'
    OBVIOUS
  <1>1. ASSUME NEW t \in Things, ChangeRoute(t)
        PROVE  IInv'
    BY <1>1, ChangeRouteIInv
  <1>2. CASE Retry
    BY <1>2, RetryIInv
  <1>3. CASE HandleAdvance \/ RunPriority
    BY <1>3, AskIInv DEF HandleAdvance, RunPriority
  <1>4. CASE RegisterComment
    BY <1>4, RegisterCommentIInv
  <1>5. CASE OpenDialog \/ CloseDialog
    BY <1>5, DialogIInv
  <1>6. CASE Confirm
    BY <1>6, ConfirmIInv
  <1>7. ASSUME NEW i \in DOMAIN net, ServeFetch(i) \/ Accept(i) \/ Refuse(i)
        PROVE  IInv'
    BY <1>7, ServeIInv
  <1>8. ASSUME NEW i \in DOMAIN net, ShowFetched(i) \/ ShowDone(i) \/ ShowError(i)
        PROVE  IInv'
    BY <1>8, ShowFetchedIInv, ShowDoneIInv, ShowErrorIInv
  <1>9. ASSUME NEW t \in Things, NEW to \in Rows, Elsewhere(t, to)
        PROVE  IInv'
    BY <1>9, ElsewhereIInv
  <1>10. CASE UNCHANGED itemVars
    <2>1. /\ ClientUnchanged /\ UNCHANGED <<row, net>>
      BY <1>10 DEF itemVars, ClientUnchanged
    <2>2. RequestsOK' /\ LoadsOK'
      BY <2>1 DEF ClientUnchanged, IInv, RequestsOK, RequestOK, Offered, LoadsOK, Fetches
    <2> QED
      BY <2>1, <2>2, ServedIInv DEF IInv, PageOK
  <1> QED
    BY <1>1, <1>2, <1>3, <1>4, <1>5, <1>6, <1>7, <1>8, <1>9, <1>10 DEF Next

LEMMA Invariant == Spec => []IInv
  BY InitIInv, NextIInv, PTL DEF Spec

-----------------------------------------------------------------------------
(***************************************************************************)
(* What holds in every state                                               *)
(***************************************************************************)

LEMMA ConfirmedHolds == IInv => ConfirmedIsDone
  BY DEF IInv, RequestsOK, RequestOK, Offered, ConfirmedIsDone

LEMMA RefusedHolds == IInv => RefusedOnlyWhenStale
  BY DEF IInv, RequestsOK, RequestOK, AnswerOK, RefusedOnlyWhenStale

\* What the user confirms in a dialog is done to the thing the dialog was opened
\* for (StatusActions.tsx, BuyerCancelActions.tsx, PriorityActions.tsx).
THEOREM DoneAsConfirmed == Spec => []ConfirmedIsDone
  BY ConfirmedHolds, Invariant, PTL

\* The browser's rules and those of the API agree: a refusal means that the row
\* has changed since it was shown (statusFlow.ts, orders/status.py).
THEOREM RefusalMeansStale == Spec => []RefusedOnlyWhenStale
  BY RefusedHolds, Invariant, PTL

-----------------------------------------------------------------------------
(***************************************************************************)
(* What has been announced is shown                                        *)
(***************************************************************************)

\* An item moves forward or is cancelled, on its own or not at all.
Moved(b, c) == c = b \/ c = "cancelled" \/ ForwardTransition(b, c)

LEMMA LaterStill ==
  ASSUME NEW a, NEW b, NEW c, LaterOrSame(a, b), Moved(b, c)
  PROVE  LaterOrSame(a, c)
  <1>1. /\ DOMAIN STATUS_SEQUENCE = 1 .. 4
        /\ STATUS_SEQUENCE[1] = "placed" /\ STATUS_SEQUENCE[2] = "preparing"
        /\ STATUS_SEQUENCE[3] = "in_transit" /\ STATUS_SEQUENCE[4] = "delivered"
    BY DEF STATUS_SEQUENCE
  <1>2. CASE c = b
    BY <1>2
  <1>3. CASE c = "cancelled"
    BY <1>3 DEF LaterOrSame
  <1>4. CASE ForwardTransition(b, c)
    <2>1. \E j \in 1 .. 3 : b = STATUS_SEQUENCE[j] /\ c = STATUS_SEQUENCE[j + 1]
      BY <1>1, <1>4 DEF ForwardTransition, FORWARD
    <2>2. PICK j \in 1 .. 3 : b = STATUS_SEQUENCE[j] /\ c = STATUS_SEQUENCE[j + 1]
      BY <2>1
    <2>3. PICK k \in 1 .. 4 : a = STATUS_SEQUENCE[k] /\ k <= j
      <3>1. CASE a = b
        BY <2>2, <3>1
      <3>2. CASE a # b
        <4>1. b # "cancelled"
          BY <1>1, <2>2
        <4>2. PICK m, n \in 1 .. 4 : STATUS_SEQUENCE[m] = a /\ STATUS_SEQUENCE[n] = b /\ m <= n
          BY <1>1, <3>2, <4>1 DEF LaterOrSame
        <4>3. n = j
          BY <1>1, <2>2, <4>2
        <4> QED
          BY <4>2, <4>3
      <3> QED
        BY <3>1, <3>2
    <2> QED
      BY <1>1, <2>2, <2>3 DEF LaterOrSame
  <1> QED
    BY <1>2, <1>3, <1>4 DEF Moved

OfItems == kind \in {"seller", "buyer"}

\* The rows that a load brought are not older than what was announced.
Covers(data) == \A t \in Held(data.of) : LaterOrSame(told[t], data.row[t])

\* The row is not older than what was announced, nor than an answer under way;
\* and without overlap neither are the rows of a load.
RowsLead == told = [t \in Things |-> told[t]] /\ \A t \in Things : LaterOrSame(told[t], row[t])
AnswersTrail ==
  \A i \in DOMAIN net :
    net[i].op # "fetch" /\ net[i].answer.status = "ok"
      => LaterOrSame(net[i].answer.data, row[net[i].thing])
LoadsCover ==
  ~overlapped => \A i \in DOMAIN net :
                   net[i].op = "fetch" /\ net[i].answer.status = "ok" => Covers(net[i].answer.data)
ViewCovers == ~overlapped /\ view.status = "success" => Covers(view.data)

ToldOK == OfItems => RowsLead /\ AnswersTrail /\ LoadsCover /\ ViewCovers

\* Every answer that is under way after a step was so before.
OldAnswers(new, old) ==
  \A j \in DOMAIN new :
    new[j].answer.status = "ok" =>
      \E k \in DOMAIN old : /\ new[j].op = old[k].op /\ new[j].thing = old[k].thing
                            /\ new[j].answer = old[k].answer

\* A step that brings no answer, nor shows one.
LEMMA ToldFrame ==
  ASSUME IInv, ToldOK, UNCHANGED <<kind, row, told, overlapped>>, OldAnswers(net', net),
         UNCHANGED view \/ view'.status # "success"
  PROVE  ToldOK'
  <1> SUFFICES ASSUME OfItems
               PROVE  RowsLead' /\ AnswersTrail' /\ LoadsCover' /\ ViewCovers'
    BY DEF ToldOK, OfItems
  <1>1. RowsLead /\ AnswersTrail /\ LoadsCover /\ ViewCovers
    BY DEF ToldOK
  <1>2. RowsLead'
    BY <1>1 DEF RowsLead
  <1>3. AnswersTrail'
    BY <1>1 DEF AnswersTrail, OldAnswers
  <1>4. LoadsCover'
    BY <1>1 DEF LoadsCover, OldAnswers, Covers, Held
  <1>5. ViewCovers'
    BY <1>1 DEF ViewCovers, Covers, Held
  <1> QED
    BY <1>2, <1>3, <1>4, <1>5

\* A load takes the view away and asks again.
LEMMA LoadTold ==
  ASSUME NEW pipe, IsSeq(pipe), \A i \in DOMAIN pipe : RequestOK(pipe[i]),
         NEW t, NEW still, Load(pipe, t, still)
  PROVE  /\ OldAnswers(net', pipe) /\ view'.status = "loading"
         /\ ~overlapped' => \A i \in DOMAIN net' :
                              net'[i].op = "fetch" => net'[i].answer.status # "ok"
  <1>1. /\ IsSeq(Unmounted(pipe)) /\ Len(Unmounted(pipe)) = Len(pipe)
        /\ \A i \in DOMAIN pipe : /\ Alike(Unmounted(pipe)[i], pipe[i])
                                  /\ Unmounted(pipe)[i].answer = pipe[i].answer
    BY Unmounts DEF RequestOK
  <1>2. net' = Append(Unmounted(pipe), Fetch(t))
    BY DEF Load, Requested
  <1> DEFINE n == Len(pipe) + 1
  <1>3. Len(pipe) \in Nat /\ DOMAIN pipe = 1 .. Len(pipe) /\ DOMAIN Unmounted(pipe) = DOMAIN pipe
    BY Indices DEF Unmounted
  <1>4. /\ IsSeq(net') /\ Len(net') = n
        /\ \A i \in DOMAIN pipe : net'[i] = Unmounted(pipe)[i]
        /\ net'[n] = Fetch(t)
    BY <1>1, <1>2, <1>3, Appended
  <1>5. DOMAIN net' = 1 .. n
    <2>1. PICK m : m = net'
      OBVIOUS
    <2> QED
      BY <1>4, <2>1, Indices
  <1>6. \A i \in DOMAIN net' : i \in DOMAIN pipe \/ i = n
    BY <1>3, <1>5
  <1>7. net'[n].answer.status # "ok"
    BY <1>4 DEF Fetch
  <1>8. \A i \in DOMAIN pipe : /\ net'[i].op = pipe[i].op /\ net'[i].thing = pipe[i].thing
                               /\ net'[i].answer = pipe[i].answer
    BY <1>1, <1>4 DEF Alike
  <1> HIDE DEF n
  <1>9. OldAnswers(net', pipe)
    BY <1>6, <1>7, <1>8 DEF OldAnswers
  <1>10. ASSUME ~overlapped', NEW i \in DOMAIN net', net'[i].op = "fetch"
         PROVE  net'[i].answer.status # "ok"
    <2>1. \A k \in DOMAIN pipe : pipe[k].op # "fetch"
      BY <1>10 DEF Load, Fetches
    <2> QED
      BY <1>6, <1>7, <1>8, <1>10, <2>1
  <1>11. view'.status = "loading"
    BY DEF Load, Loading
  <1> QED
    BY <1>9, <1>10, <1>11

LEMMA ReloadTold ==
  ASSUME IInv, ToldOK, NEW t, NEW still, Load(net, t, still), UNCHANGED <<kind, row, told>>
  PROVE  ToldOK'
  <1> SUFFICES ASSUME OfItems
               PROVE  RowsLead' /\ AnswersTrail' /\ LoadsCover' /\ ViewCovers'
    BY DEF ToldOK, OfItems
  <1>1. RowsLead /\ AnswersTrail
    BY DEF ToldOK
  <1>2. /\ OldAnswers(net', net) /\ view'.status = "loading"
        /\ ~overlapped' => \A i \in DOMAIN net' :
                             net'[i].op = "fetch" => net'[i].answer.status # "ok"
    BY LoadTold DEF IInv, RequestsOK
  <1>3. RowsLead'
    BY <1>1 DEF RowsLead
  <1>4. AnswersTrail'
    BY <1>1, <1>2 DEF AnswersTrail, OldAnswers
  <1>5. LoadsCover'
    BY <1>2 DEF LoadsCover
  <1>6. ViewCovers'
    BY <1>2 DEF ViewCovers
  <1> QED
    BY <1>3, <1>4, <1>5, <1>6

\* A request leaves.
LEMMA SendTold ==
  ASSUME IInv, ToldOK, NEW m, net' = Append(net, m), m.answer.status # "ok",
         UNCHANGED <<kind, row, told, overlapped, view>>
  PROVE  ToldOK'
  <1>1. /\ IsSeq(net') /\ Len(net') = Len(net) + 1
        /\ \A i \in DOMAIN net : net'[i] = net[i]
        /\ net'[Len(net) + 1] = m
    BY Appended DEF IInv, RequestsOK
  <1>2. Len(net) \in Nat /\ DOMAIN net = 1 .. Len(net)
    BY Indices DEF IInv, RequestsOK
  <1>3. DOMAIN net' = 1 .. Len(net) + 1
    <2>1. PICK n : n = net'
      OBVIOUS
    <2> QED
      BY <1>1, <2>1, Indices
  <1>4. OldAnswers(net', net)
    BY <1>1, <1>2, <1>3 DEF OldAnswers
  <1> QED
    BY <1>4, ToldFrame

\* An answer is taken.
LEMMA RestIsOld ==
  ASSUME IInv, NEW i \in DOMAIN net
  PROVE  OldAnswers(RemoveAt(net, i), net)
  <1>1. PICK rest : rest = RemoveAt(net, i)
    OBVIOUS
  <1>2. /\ IsSeq(rest) /\ Len(rest) = Len(net) - 1
        /\ \A j \in DOMAIN rest : rest[j] = net[IF j < i THEN j ELSE j + 1]
    BY <1>1, Removed DEF IInv, RequestsOK
  <1>3. /\ Len(net) \in Nat /\ DOMAIN net = 1 .. Len(net)
        /\ Len(rest) \in Nat /\ DOMAIN rest = 1 .. Len(rest)
    BY <1>2, Indices DEF IInv, RequestsOK
  <1>4. \A j \in DOMAIN rest : \E k \in DOMAIN net : rest[j] = net[k]
    BY <1>2, <1>3
  <1> QED
    BY <1>1, <1>4 DEF OldAnswers

\* What the rows of items do when a request is accepted, or someone else comes.
LEMMA AcceptMoves ==
  ASSUME PageOK, OfItems, NEW r, RequestOK(r), r.op # "fetch", Allowed(r)
  PROVE  Moved(row[r.thing], Outcome(r)) /\ r.thing \in Things
  <1>1. r.op \in {"advance", "cancel", "refresh"} /\ r.thing \in Things
    BY DEF RequestOK, Shaped, Offered, Mutations, OfItems
  <1>2. r.op = "advance" =>
          Outcome(r) = r.to /\ (row[r.thing] = r.to \/ ForwardTransition(row[r.thing], r.to))
    BY DEF Outcome, Allowed
  <1>3. r.op = "cancel" => Outcome(r) = r.to /\ r.to = "cancelled"
    BY DEF Outcome, RequestOK, Offered
  <1>4. r.op = "refresh" => Outcome(r) = row[r.thing]
    BY DEF Outcome
  <1> QED
    BY <1>1, <1>2, <1>3, <1>4 DEF Moved

\* The rows move on; what had been announced stays behind them.
LEMMA MovedOn ==
  ASSUME RowsLead, UNCHANGED told, \A t \in Things : Moved(row[t], row'[t])
  PROVE  RowsLead'
  <1>1. \A t \in Things : LaterOrSame(told[t], row'[t])
    BY LaterStill DEF RowsLead
  <1> QED
    BY <1>1 DEF RowsLead

LEMMA AcceptTold ==
  ASSUME IInv, ToldOK, NEW i \in DOMAIN net, Accept(i)
  PROVE  ToldOK'
  <1> SUFFICES ASSUME OfItems
               PROVE  RowsLead' /\ AnswersTrail' /\ LoadsCover' /\ ViewCovers'
    BY DEF ToldOK, OfItems, Accept, ClientUnchanged
  <1> DEFINE new == Outcome(net[i])
             thing == net[i].thing
  <1>1. /\ net[i].op # "fetch" /\ Allowed(net[i])
        /\ row' = [row EXCEPT ![thing] = new]
        /\ Answered(i, [status |-> "ok", data |-> new])
        /\ UNCHANGED <<kind, told, overlapped, view>>
    BY DEF Accept, ClientUnchanged
  <1>2. RowsLead /\ AnswersTrail /\ LoadsCover /\ ViewCovers /\ RequestOK(net[i]) /\ PageOK
    BY DEF ToldOK, IInv, RequestsOK
  <1>3. Moved(row[thing], new) /\ thing \in Things
    BY <1>1, <1>2, AcceptMoves
  <1> HIDE DEF new
  <1>4. /\ DOMAIN net' = DOMAIN net
        /\ \A j \in DOMAIN net : j # i => net'[j] = net[j]
        /\ net'[i].op = net[i].op /\ net'[i].thing = thing
        /\ net'[i].answer = [status |-> "ok", data |-> new]
    BY <1>1, Answers DEF IInv, Alike
  <1>5. row = [t \in Things |-> row[t]]
    BY <1>2 DEF PageOK
  <1>6. row'[thing] = new /\ \A t \in Things : Moved(row[t], row'[t])
    BY <1>1, <1>3, <1>5 DEF Moved
  <1>7. RowsLead'
    BY <1>1, <1>2, <1>6, MovedOn
  <1>8. AnswersTrail'
    <2> SUFFICES ASSUME NEW j \in DOMAIN net, net'[j].op # "fetch", net'[j].answer.status = "ok"
                 PROVE  LaterOrSame(net'[j].answer.data, row'[net'[j].thing])
      BY <1>4 DEF AnswersTrail
    <2>1. CASE j = i
      BY <1>4, <1>6, <2>1 DEF LaterOrSame
    <2>2. CASE j # i
      <3>1. net'[j] = net[j] /\ LaterOrSame(net[j].answer.data, row[net[j].thing])
        BY <1>2, <1>4, <2>2 DEF AnswersTrail
      <3>2. net[j].thing \in Things
        BY DEF IInv, RequestsOK, RequestOK, Offered
      <3> QED
        BY <1>6, <3>1, <3>2, LaterStill
    <2> QED
      BY <2>1, <2>2
  <1>9. LoadsCover'
    BY <1>1, <1>2, <1>4 DEF LoadsCover, Covers, Held
  <1>10. ViewCovers'
    BY <1>1, <1>2 DEF ViewCovers, Covers, Held
  <1> QED
    BY <1>7, <1>8, <1>9, <1>10

LEMMA ElsewhereTold ==
  ASSUME IInv, ToldOK, NEW t \in Things, NEW to \in Rows, Elsewhere(t, to)
  PROVE  ToldOK'
  <1> SUFFICES ASSUME OfItems
               PROVE  RowsLead' /\ AnswersTrail' /\ LoadsCover' /\ ViewCovers'
    BY DEF ToldOK, OfItems, Elsewhere, ClientUnchanged
  <1>1. /\ row' = [row EXCEPT ![t] = to]
        /\ UNCHANGED <<kind, told, overlapped, view, net>>
    BY DEF Elsewhere, ClientUnchanged
  <1>2. RowsLead /\ AnswersTrail /\ LoadsCover /\ ViewCovers /\ row = [u \in Things |-> row[u]]
    BY DEF ToldOK, IInv, PageOK
  <1>3. Moved(row[t], to)
    BY DEF Elsewhere, OfItems, Moved
  <1>4. \A u \in Things : Moved(row[u], row'[u])
    BY <1>1, <1>2, <1>3 DEF Moved
  <1>5. RowsLead'
    BY <1>1, <1>2, <1>4, MovedOn
  <1>6. AnswersTrail'
    <2>1. \A j \in DOMAIN net : net[j].thing \in Things
      BY DEF IInv, RequestsOK, RequestOK, Offered
    <2> QED
      BY <1>1, <1>2, <1>4, <2>1, LaterStill DEF AnswersTrail
  <1>7. LoadsCover' /\ ViewCovers'
    BY <1>1, <1>2 DEF LoadsCover, ViewCovers, Covers, Held
  <1> QED
    BY <1>5, <1>6, <1>7

\* A load that is answered now brings rows that lead what was announced.
LEMMA ServeFetchTold ==
  ASSUME IInv, ToldOK, NEW i \in DOMAIN net, ServeFetch(i)
  PROVE  ToldOK'
  <1> SUFFICES ASSUME OfItems
               PROVE  RowsLead' /\ AnswersTrail' /\ LoadsCover' /\ ViewCovers'
    BY DEF ToldOK, OfItems, ServeFetch, ClientUnchanged
  <1>1. PICK rows, data : /\ rows = [t \in Held(net[i].thing) |-> row[t]]
                          /\ data = [of |-> net[i].thing, row |-> rows]
    OBVIOUS
  <1>2. /\ net[i].op = "fetch" /\ Answered(i, [status |-> "ok", data |-> data])
        /\ UNCHANGED <<kind, row, told, overlapped, view>>
    BY <1>1 DEF ServeFetch, ClientUnchanged
  <1>3. RowsLead /\ AnswersTrail /\ LoadsCover /\ ViewCovers
    BY DEF ToldOK
  <1>4. /\ DOMAIN net' = DOMAIN net
        /\ \A j \in DOMAIN net : j # i => net'[j] = net[j]
        /\ net'[i].op = "fetch" /\ net'[i].answer = [status |-> "ok", data |-> data]
    BY <1>2, Answers DEF IInv, Alike
  <1>5. Covers(data)
    <2>1. net[i].thing \in Things
      BY DEF IInv, RequestsOK, RequestOK, Offered
    <2>2. \A t \in Held(net[i].thing) : t \in Things /\ rows[t] = row[t]
      BY <1>1, <2>1 DEF Held
    <2>3. data.of = net[i].thing /\ data.row = rows
      BY <1>1
    <2> QED
      BY <1>3, <2>2, <2>3 DEF Covers, RowsLead
  <1>6. RowsLead'
    BY <1>2, <1>3 DEF RowsLead
  <1>7. AnswersTrail'
    BY <1>2, <1>3, <1>4 DEF AnswersTrail
  <1>8. LoadsCover'
    <2>1. \A d : Covers(d)' <=> Covers(d)
      BY <1>2 DEF Covers, Held
    <2>2. net'[i].answer.data = data
      BY <1>4
    <2> QED
      BY <1>2, <1>3, <1>4, <1>5, <2>1, <2>2 DEF LoadsCover
  <1>9. ViewCovers'
    BY <1>2, <1>3 DEF ViewCovers, Covers, Held
  <1> QED
    BY <1>6, <1>7, <1>8, <1>9

LEMMA RefuseTold ==
  ASSUME IInv, ToldOK, NEW i \in DOMAIN net, Refuse(i)
  PROVE  ToldOK'
  <1>1. /\ Answered(i, [status |-> "refused", found |-> row[net[i].thing]])
        /\ UNCHANGED <<kind, row, told, overlapped, view>>
    BY DEF Refuse, ClientUnchanged
  <1>2. /\ DOMAIN net' = DOMAIN net
        /\ \A j \in DOMAIN net : j # i => net'[j] = net[j]
        /\ net'[i].answer.status # "ok"
    BY <1>1, Answers DEF IInv
  <1>3. OldAnswers(net', net)
    BY <1>2 DEF OldAnswers
  <1> QED
    BY <1>1, <1>3, ToldFrame

\* The page shows a load, and announces a change.
LEMMA ShowFetchedTold ==
  ASSUME IInv, ToldOK, NEW i \in DOMAIN net, ShowFetched(i)
  PROVE  ToldOK'
  <1> SUFFICES ASSUME OfItems
               PROVE  RowsLead' /\ AnswersTrail' /\ LoadsCover' /\ ViewCovers'
    BY DEF ToldOK, OfItems, ShowFetched, Comes
  <1>1. /\ net[i].op = "fetch" /\ net[i].answer.status = "ok" /\ net' = RemoveAt(net, i)
        /\ view' = Success(net[i].answer.data)
        /\ UNCHANGED <<kind, row, told, overlapped>>
    BY DEF ShowFetched, Comes, Arrived
  <1>2. RowsLead /\ AnswersTrail /\ LoadsCover
    BY DEF ToldOK
  <1>3. OldAnswers(net', net)
    BY <1>1, RestIsOld
  <1>4. RowsLead'
    BY <1>1, <1>2 DEF RowsLead
  <1>5. AnswersTrail'
    BY <1>1, <1>2, <1>3 DEF AnswersTrail, OldAnswers
  <1>6. \A d : Covers(d)' <=> Covers(d)
    BY <1>1 DEF Covers, Held
  <1>7. LoadsCover'
    BY <1>1, <1>2, <1>3, <1>6 DEF LoadsCover, OldAnswers
  <1>8. ViewCovers'
    <2>1. view'.data = net[i].answer.data
      BY <1>1 DEF Success
    <2> QED
      BY <1>1, <1>2, <1>6, <2>1 DEF ViewCovers, LoadsCover
  <1> QED
    BY <1>4, <1>5, <1>7, <1>8

LEMMA ShowDoneTold ==
  ASSUME IInv, ToldOK, NEW i \in DOMAIN net, ShowDone(i)
  PROVE  ToldOK'
  <1> SUFFICES ASSUME OfItems
               PROVE  RowsLead' /\ AnswersTrail' /\ LoadsCover' /\ ViewCovers'
    BY DEF ToldOK, OfItems, ShowDone, Comes
  <1>1. /\ net[i].op # "fetch" /\ net[i].answer.status = "ok"
        /\ told' = [told EXCEPT ![net[i].thing] = net[i].answer.data]
        /\ Load(RemoveAt(net, i), route, pending /\ ~net[i].mounted)
        /\ UNCHANGED <<kind, row>>
    BY DEF ShowDone, Comes
  <1>2. RowsLead /\ AnswersTrail
    BY DEF ToldOK
  <1>3. PICK rest : rest = RemoveAt(net, i)
    OBVIOUS
  <1>4. IsSeq(rest) /\ (\A j \in DOMAIN rest : RequestOK(rest[j])) /\ OldAnswers(rest, net)
    BY <1>3, RemovedOK, RestIsOld DEF IInv
  <1>5. /\ OldAnswers(net', rest) /\ view'.status = "loading"
        /\ ~overlapped' => \A j \in DOMAIN net' :
                             net'[j].op = "fetch" => net'[j].answer.status # "ok"
    BY <1>1, <1>3, <1>4, LoadTold
  <1>6. RowsLead'
    <2>1. net[i].thing \in Things
      BY DEF IInv, RequestsOK, RequestOK, Offered
    <2>2. LaterOrSame(net[i].answer.data, row[net[i].thing])
      BY <1>1, <1>2 DEF AnswersTrail
    <2>3. /\ told' = [t \in Things |-> told'[t]] /\ told'[net[i].thing] = net[i].answer.data
          /\ \A t \in Things : t # net[i].thing => told'[t] = told[t]
      BY <1>1, <1>2, <2>1 DEF RowsLead
    <2>4. \A t \in Things : LaterOrSame(told'[t], row[t])
      BY <1>2, <2>2, <2>3 DEF RowsLead
    <2> QED
      BY <1>1, <2>3, <2>4 DEF RowsLead
  <1>7. OldAnswers(net', net)
    BY <1>4, <1>5 DEF OldAnswers
  <1>8. AnswersTrail'
    BY <1>1, <1>2, <1>7 DEF AnswersTrail, OldAnswers
  <1>9. LoadsCover' /\ ViewCovers'
    BY <1>5 DEF LoadsCover, ViewCovers
  <1> QED
    BY <1>6, <1>8, <1>9

LEMMA ShowErrorTold ==
  ASSUME IInv, ToldOK, NEW i \in DOMAIN net, ShowError(i)
  PROVE  ToldOK'
  <1>1. /\ net' = RemoveAt(net, i) /\ UNCHANGED <<kind, row, told, overlapped>>
        /\ UNCHANGED view \/ view' = Failed
    BY DEF ShowError
  <1>2. OldAnswers(net', net)
    BY <1>1, RestIsOld
  <1>3. UNCHANGED view \/ view'.status # "success"
    BY <1>1 DEF Failed
  <1> QED
    BY <1>1, <1>2, <1>3, ToldFrame

\* The rest of what the user does.
LEMMA UserTold ==
  ASSUME IInv, ToldOK,
         \/ \E t \in Things : ChangeRoute(t)
         \/ Retry \/ HandleAdvance \/ RunPriority \/ RegisterComment
         \/ OpenDialog \/ CloseDialog \/ Confirm \/ UNCHANGED itemVars
  PROVE  ToldOK'
  <1>0. OldAnswers(net, net)
    BY DEF OldAnswers
  <1>1. ASSUME NEW t \in Things, ChangeRoute(t)
        PROVE  ToldOK'
    <2>1. CASE PageOf(t).deps = PageOf(route).deps
      <3>1. UNCHANGED <<kind, row, told, overlapped, view, net>>
        BY <1>1, <2>1 DEF ChangeRoute, Click
      <3> QED
        BY <1>0, <3>1, ToldFrame
    <2>2. CASE PageOf(t).deps # PageOf(route).deps
      BY <1>1, <2>2, ReloadTold DEF ChangeRoute, Click
    <2> QED
      BY <2>1, <2>2
  <1>2. CASE Retry
    BY <1>2, ReloadTold DEF Retry, Click
  <1>3. ASSUME NEW op, NEW to, Ask(op, to)
        PROVE  ToldOK'
    <2>1. PICK m : m = Mutation(op, to, Shown)
      OBVIOUS
    <2>2. m.answer.status # "ok"
      BY <2>1 DEF Mutation
    <2>3. net' = Append(net, m) /\ UNCHANGED <<kind, row, told, overlapped, view>>
      BY <1>3, <2>1 DEF Ask, Click
    <2> QED
      BY <2>2, <2>3, SendTold
  <1>4. CASE HandleAdvance \/ RunPriority
    BY <1>3, <1>4 DEF HandleAdvance, RunPriority
  <1>5. CASE RegisterComment
    <2>1. PICK m : m = [op |-> "comment", thing |-> route, mounted |-> TRUE,
                        meant |-> route, answer |-> [status |-> "pending"]]
      OBVIOUS
    <2>2. net' = Append(net, m) /\ UNCHANGED <<kind, row, told, overlapped, view>>
      BY <1>5, <2>1 DEF RegisterComment, Click
    <2>3. m.answer.status # "ok"
      BY <2>1
    <2> QED
      BY <2>2, <2>3, SendTold
  <1>6. CASE OpenDialog \/ CloseDialog \/ UNCHANGED itemVars
    <2>1. UNCHANGED <<kind, row, told, overlapped, view, net>>
      BY <1>6 DEF OpenDialog, CloseDialog, itemVars, Click
    <2> QED
      BY <1>0, <2>1, ToldFrame
  <1>7. CASE Confirm
    <2>1. PICK op, to : net' = Append(net, Mutation(op, to, openedFor))
      BY <1>7 DEF Confirm
    <2>2. PICK m : m = Mutation(op, to, openedFor)
      OBVIOUS
    <2>3. m.answer.status # "ok"
      BY <2>2 DEF Mutation
    <2>4. UNCHANGED <<kind, row, told, overlapped, view>>
      BY <1>7 DEF Confirm, Click
    <2> QED
      BY <2>1, <2>2, <2>3, <2>4, SendTold
  <1> QED
    BY <1>1, <1>2, <1>4, <1>5, <1>6, <1>7

LEMMA InitTold == Init => ToldOK
  <1> SUFFICES ASSUME Init, OfItems
               PROVE  RowsLead /\ AnswersTrail /\ LoadsCover /\ ViewCovers
    BY DEF ToldOK
  <1>1. told = row /\ row = [t \in Things |-> row[t]] /\ view.status = "loading"
    BY DEF Init, Loading
  <1>2. DOMAIN net = {1} /\ net[1].answer.status = "pending"
    BY DEF Init, Fetch
  <1>3. RowsLead
    BY <1>1 DEF RowsLead, LaterOrSame
  <1> QED
    BY <1>1, <1>2, <1>3 DEF AnswersTrail, LoadsCover, ViewCovers

LEMMA NextTold == IInv /\ ToldOK /\ [Next]_itemVars => ToldOK'
  BY AcceptTold, ElsewhereTold, ServeFetchTold, RefuseTold, ShowFetchedTold, ShowDoneTold,
     ShowErrorTold, UserTold DEF Next

LEMMA ToldHolds == IInv /\ ToldOK => ToldIsShown
  <1> SUFFICES ASSUME IInv, ToldOK, OfItems, view.status = "success", ~overlapped
               PROVE  LaterOrSame(told[Shown], ShownState)
    BY DEF ToldIsShown, OfItems
  <1>1. Covers(view.data)
    BY DEF ToldOK, ViewCovers
  <1>2. Shown \in Held(view.data.of)
    BY WhatIsShown DEF IInv, PageOK, OfItems, Held
  <1> QED
    BY <1>1, <1>2 DEF Covers, ShownState

\* The state that a page of an item shows is not older than the one a toast told
\* the user of, although the answers may come in another order than the requests
\* and others move the item meanwhile (useAsync.ts, StatusActions.tsx).
THEOREM ShownAsTold == Spec => []ToldIsShown
  BY ToldHolds, Invariant, InitTold, NextTold, PTL DEF Spec

-----------------------------------------------------------------------------
(***************************************************************************)
(* The types                                                               *)
(***************************************************************************)

\* The rows are of the page's kind, and the requests are not too many.
Bounded ==
  /\ row \in [Things -> Rows]
  /\ Len(net) <= MaxRequests

LEMMA SameRows == ASSUME UNCHANGED kind PROVE Rows' = Rows
  BY DEF Rows

\* What a request makes of the row is of the page's kind.
LEMMA OutcomeIsRow ==
  ASSUME ItemConstants, PageOK, Bounded, NEW r, RequestOK(r), r.op # "fetch",
         r.op = "comment" => row[r.thing] < MaxComments
  PROVE  Outcome(r) \in Rows
  <1>1. r.thing \in Things /\ r.op \in {"comment"} \union Mutations /\ row[r.thing] \in Rows
    BY DEF RequestOK, Shaped, Offered, Bounded
  <1>2. CASE r.op = "advance"
    <2>1. kind = "seller" /\ r.to \in OrderItemForwardStatus
      BY <1>2, NextIsForward DEF RequestOK, Offered
    <2> QED
      BY <1>2, <2>1 DEF Outcome, Rows, OrderItemStatus, OrderItemForwardStatus
  <1>3. CASE r.op = "cancel"
    <2>1. kind \in {"seller", "buyer"} /\ r.to = "cancelled"
      BY <1>3 DEF RequestOK, Offered
    <2> QED
      BY <1>3, <2>1 DEF Outcome, Rows, OrderItemStatus
  <1>4. CASE r.op \in {"apply", "remove"}
    <2>1. kind = "ops" /\ r.to \in {"none", "critical"}
      BY <1>4 DEF RequestOK, Offered
    <2> QED
      BY <1>4, <2>1 DEF Outcome, Rows
  <1>5. CASE r.op = "refresh"
    BY <1>1, <1>5 DEF Outcome
  <1>6. CASE r.op = "comment"
    <2>1. kind = "comments"
      BY <1>6 DEF RequestOK, Offered
    <2>2. Rows = 0 .. MaxComments /\ Outcome(r) = row[r.thing] + 1
      BY <1>6, <2>1 DEF Rows, Outcome
    <2> QED
      BY <1>1, <1>6, <2>2 DEF ItemConstants
  <1> QED
    BY <1>1, <1>2, <1>3, <1>4, <1>5, <1>6 DEF Mutations

LEMMA InitBounded == ItemConstants /\ Init => Bounded
  <1> SUFFICES ASSUME ItemConstants, Init
               PROVE  Bounded
    OBVIOUS
  <1>1. row \in [Things -> Rows]
    <2>1. CASE kind \in {"seller", "buyer"}
      BY <2>1 DEF Init, Rows, OrderItemStatus, OrderItemForwardStatus
    <2>2. CASE kind = "ops"
      BY <2>2 DEF Init, Rows
    <2>3. CASE kind = "comments"
      BY <2>3 DEF Init, Rows, ItemConstants
    <2> QED
      BY <2>1, <2>2, <2>3 DEF Init
  <1>2. Len(net) = 1
    BY DEF Init
  <1> QED
    BY <1>1, <1>2 DEF Bounded, ItemConstants

\* A request more, where there was room for it.
LEMMA RoomIsLeft ==
  ASSUME ItemConstants, IInv, Len(net) < MaxRequests, NEW m, net' = Append(net, m)
  PROVE  Len(net') <= MaxRequests
  <1>1. Len(net') = Len(net) + 1 /\ Len(net) \in Nat
    BY Appended, Indices DEF IInv, RequestsOK
  <1> QED
    BY <1>1 DEF ItemConstants

LEMMA LoadIsOne ==
  ASSUME NEW pipe, IsSeq(pipe), \A i \in DOMAIN pipe : RequestOK(pipe[i]), NEW t, NEW still,
         Load(pipe, t, still)
  PROVE  Len(net') = Len(pipe) + 1
  <1>1. IsSeq(Unmounted(pipe)) /\ Len(Unmounted(pipe)) = Len(pipe)
    BY Unmounts DEF RequestOK
  <1>2. net' = Append(Unmounted(pipe), Fetch(t))
    BY DEF Load, Requested
  <1> QED
    BY <1>1, <1>2, Appended

\* The gestures of the user leave the rows alone, and ask only where there is room.
LEMMA UserBounded ==
  ASSUME ItemConstants, IInv, Bounded,
         \/ \E t \in Things : ChangeRoute(t)
         \/ Retry \/ HandleAdvance \/ RunPriority \/ RegisterComment
         \/ OpenDialog \/ CloseDialog \/ Confirm
  PROVE  Bounded'
  <1>1. UNCHANGED <<kind, row>>
    BY DEF ChangeRoute, Retry, HandleAdvance, RunPriority, RegisterComment, OpenDialog,
           CloseDialog, Confirm, Ask, Click
  <1>2. row' \in [Things -> Rows']
    BY <1>1, SameRows DEF Bounded
  <1>3. IsSeq(net) /\ (\A i \in DOMAIN net : RequestOK(net[i])) /\ Len(net) \in Nat
    BY Indices DEF IInv, RequestsOK
  <1>4. ASSUME NEW t, NEW still, Load(net, t, still), Len(net) < MaxRequests
        PROVE  Len(net') <= MaxRequests
    <2>1. Len(net') = Len(net) + 1
      BY <1>3, <1>4, LoadIsOne
    <2> QED
      BY <1>3, <1>4, <2>1 DEF ItemConstants
  <1>5. ASSUME NEW t \in Things, ChangeRoute(t)
        PROVE  Len(net') <= MaxRequests
    <2>1. CASE PageOf(t).deps = PageOf(route).deps
      BY <1>5, <2>1 DEF ChangeRoute, Bounded
    <2>2. CASE PageOf(t).deps # PageOf(route).deps
      <3>1. Len(net) < MaxRequests /\ Load(net, t, FALSE)
        BY <1>5, <2>2 DEF ChangeRoute
      <3> QED
        BY <1>4, <3>1
    <2> QED
      BY <2>1, <2>2
  <1>6. ASSUME Retry
        PROVE  Len(net') <= MaxRequests
    <2>1. Len(net) < MaxRequests /\ Load(net, route, pending)
      BY <1>6 DEF Retry
    <2> QED
      BY <1>4, <2>1
  <1>7. ASSUME HandleAdvance \/ RunPriority \/ RegisterComment \/ Confirm
        PROVE  Len(net') <= MaxRequests
    <2>1. Len(net) < MaxRequests /\ \E m : net' = Append(net, m)
      BY <1>7 DEF HandleAdvance, RunPriority, Ask, RegisterComment, Confirm
    <2> QED
      BY <2>1, RoomIsLeft
  <1>8. ASSUME OpenDialog \/ CloseDialog
        PROVE  Len(net') <= MaxRequests
    BY <1>8 DEF OpenDialog, CloseDialog, Bounded
  <1> QED
    BY <1>2, <1>5, <1>6, <1>7, <1>8 DEF Bounded

\* The API answers in place; what it accepts gives a row of the kind.
LEMMA ServedBounded ==
  ASSUME ItemConstants, IInv, Bounded, NEW i \in DOMAIN net,
         ServeFetch(i) \/ Accept(i) \/ Refuse(i)
  PROVE  Bounded'
  <1>1. UNCHANGED kind /\ \E a : Answered(i, a)
    BY DEF ServeFetch, Accept, Refuse, ClientUnchanged
  <1>2. Len(net') <= MaxRequests
    BY <1>1, Answers DEF IInv, Bounded
  <1>3. RequestOK(net[i]) /\ PageOK
    BY DEF IInv, RequestsOK
  <1>4. row' \in [Things -> Rows]
    <2>1. CASE Accept(i)
      <3>1. /\ row' = [row EXCEPT ![net[i].thing] = Outcome(net[i])]
            /\ net[i].op # "fetch"
            /\ net[i].op = "comment" => row[net[i].thing] < MaxComments
        BY <2>1 DEF Accept
      <3>2. Outcome(net[i]) \in Rows
        BY <1>3, <3>1, OutcomeIsRow
      <3> QED
        BY <3>1, <3>2 DEF Bounded
    <2>2. CASE ServeFetch(i) \/ Refuse(i)
      BY <2>2 DEF ServeFetch, Refuse, Bounded
    <2> QED
      BY <2>1, <2>2
  <1> QED
    BY <1>1, <1>2, <1>4, SameRows DEF Bounded

LEMMA ShownBounded ==
  ASSUME ItemConstants, IInv, Bounded, NEW i \in DOMAIN net,
         ShowFetched(i) \/ ShowDone(i) \/ ShowError(i)
  PROVE  Bounded'
  <1>1. UNCHANGED <<kind, row>>
    BY DEF ShowFetched, ShowDone, ShowError, Comes
  <1>2. /\ IsSeq(RemoveAt(net, i)) /\ Len(RemoveAt(net, i)) = Len(net) - 1
        /\ \A j \in DOMAIN RemoveAt(net, i) : RequestOK(RemoveAt(net, i)[j])
    BY RemovedOK DEF IInv
  <1>3. Len(net) \in Nat
    BY Indices DEF IInv, RequestsOK
  <1>4. Len(net') \in {Len(net), Len(net) - 1}
    <2>1. CASE ShowDone(i)
      <3>1. PICK still : Load(RemoveAt(net, i), route, still)
        BY <2>1 DEF ShowDone
      <3>2. Len(net') = Len(RemoveAt(net, i)) + 1
        BY <1>2, <3>1, LoadIsOne
      <3> QED
        BY <1>2, <1>3, <3>2
    <2>2. CASE ShowFetched(i) \/ ShowError(i)
      BY <1>2, <2>2 DEF ShowFetched, ShowError
    <2> QED
      BY <2>1, <2>2
  <1> QED
    BY <1>1, <1>3, <1>4, SameRows DEF Bounded, ItemConstants

LEMMA NextBounded == ItemConstants /\ IInv /\ Bounded /\ [Next]_itemVars => Bounded'
  <1> SUFFICES ASSUME ItemConstants, IInv, Bounded, [Next]_itemVars
               PROVE  Bounded'
    OBVIOUS
  <1>1. ASSUME NEW t \in Things, NEW to \in Rows, Elsewhere(t, to)
        PROVE  Bounded'
    <2>1. row' = [row EXCEPT ![t] = to] /\ UNCHANGED <<kind, net>>
      BY <1>1 DEF Elsewhere, ClientUnchanged
    <2> QED
      BY <2>1, SameRows DEF Bounded
  <1>2. CASE UNCHANGED itemVars
    <2>1. UNCHANGED <<kind, row, net>>
      BY <1>2 DEF itemVars
    <2> QED
      BY <2>1, SameRows DEF Bounded
  <1> QED
    BY <1>1, <1>2, UserBounded, ServedBounded, ShownBounded DEF Next

LEMMA TypeHolds == IInv /\ Bounded => TypeOK
  BY DEF IInv, PageOK, DialogOK, Bounded, TypeOK

\* The variables of the pages keep their types (StatusActions.tsx,
\* PriorityActions.tsx, InternalCommentsPanel.tsx): the rows are of the page's
\* kind, whoever changes them, and a dialog is open over a loaded page only.
THEOREM PagesTypeCorrect == ASSUME ItemConstants PROVE Spec => []TypeOK
  <1>1. Init => IInv /\ Bounded
    BY InitIInv, InitBounded
  <1>2. IInv /\ Bounded /\ [Next]_itemVars => (IInv /\ Bounded)'
    BY NextIInv, NextBounded
  <1>3. IInv /\ Bounded => TypeOK
    BY TypeHolds
  <1> QED
    BY <1>1, <1>2, <1>3, PTL DEF Spec

-----------------------------------------------------------------------------
(***************************************************************************)
(* The panel of a conversation                                             *)
(***************************************************************************)

CONSTANTS Histories, MessageWindow, StartTime, MaxTime, MaxConversations, PanelClicks

VARIABLES viewer, server, now, listing, selected, messages, hasOlder, loadingMessages,
          messagesError, opening, sending, closing, crossed

P == INSTANCE ConversationPanel WITH MaxClicks <- PanelClicks

LEMMA PanelNumbers == P!PanelConstants =>
  /\ StartTime \in Nat /\ MaxTime \in Nat /\ StartTime <= MaxTime
  /\ MessageWindow \in Nat /\ MaxRequests \in Nat \ {0}
  BY DEF P!PanelConstants

\* A message is in the thread of a conversation.
Holds(rows, c, message) == \E k \in DOMAIN rows[c].thread : message = rows[c].thread[k]

\* Conversations as the API keeps them: one is open at most, and their messages
\* are in the order of their times, before now.
RowsOK(rows, time) ==
  /\ rows \in Seq(P!Conversations)
  /\ \A c, d \in DOMAIN rows : rows[c].status = "open" /\ rows[d].status = "open" => c = d
  /\ \A c \in DOMAIN rows :
       /\ P!Ordered(rows[c].thread)
       /\ \A i \in DOMAIN rows[c].thread : rows[c].thread[i].at < time

\* Nothing that was said is lost.
Extends(rows, more) ==
  \A c \in DOMAIN rows :
    c \in DOMAIN more /\ \A message : Holds(rows, c, message) => Holds(more, c, message)

LEMMA SelfExtends == ASSUME NEW rows PROVE Extends(rows, rows)
  BY DEF Extends

LEMMA OfRows ==
  ASSUME NEW rows, NEW time, RowsOK(rows, time), NEW c \in DOMAIN rows
  PROVE  /\ rows \in Seq(P!Conversations) /\ Len(rows) \in Nat /\ DOMAIN rows = 1 .. Len(rows)
         /\ rows[c] \in P!Conversations
         /\ rows[c].thread \in Seq(P!Messages) /\ Len(rows[c].thread) \in Nat
         /\ DOMAIN rows[c].thread = 1 .. Len(rows[c].thread)
         /\ \A i \in DOMAIN rows[c].thread : rows[c].thread[i] \in P!Messages
  <1>1. rows \in Seq(P!Conversations)
    BY DEF RowsOK
  <1>2. Len(rows) \in Nat /\ DOMAIN rows = 1 .. Len(rows) /\ rows[c] \in P!Conversations
    BY <1>1, LenProperties
  <1>3. rows[c].thread \in Seq(P!Messages)
    BY <1>2 DEF P!Conversations
  <1>4. PICK thread \in Seq(P!Messages) : thread = rows[c].thread
    BY <1>3
  <1>5. Len(thread) \in Nat /\ DOMAIN thread = 1 .. Len(thread)
        /\ \A i \in DOMAIN thread : thread[i] \in P!Messages
    BY LenProperties
  <1> QED
    BY <1>1, <1>2, <1>3, <1>4, <1>5

\* A thread with one message more.
LEMMA ThreadGrows ==
  ASSUME NEW thread \in Seq(P!Messages), NEW time \in Nat, P!Ordered(thread),
         \A i \in DOMAIN thread : thread[i].at < time,
         NEW m \in P!Messages, m.at = time, NEW more, more = Append(thread, m)
  PROVE  /\ more \in Seq(P!Messages) /\ P!Ordered(more)
         /\ \A i \in DOMAIN more : more[i].at < time + 1
         /\ \A i \in DOMAIN thread : i \in DOMAIN more /\ more[i] = thread[i]
         /\ \E i \in DOMAIN more : more[i] = m
  <1>1. /\ more \in Seq(P!Messages) /\ Len(more) = Len(thread) + 1
        /\ \A i \in 1 .. Len(thread) : more[i] = thread[i]
        /\ more[Len(thread) + 1] = m
    BY AppendProperties
  <1>2. /\ Len(thread) \in Nat /\ DOMAIN thread = 1 .. Len(thread)
        /\ DOMAIN more = 1 .. Len(thread) + 1
    BY <1>1, LenProperties
  <1>3. \A i \in DOMAIN thread : thread[i].at \in Nat
    <2>1. \A i \in DOMAIN thread : thread[i] \in P!Messages
      BY <1>2, LenProperties
    <2> QED
      BY <2>1 DEF P!Messages
  <1>4. \A i \in DOMAIN more : i \in DOMAIN thread \/ i = Len(thread) + 1
    BY <1>2
  <1>5. \A i \in DOMAIN more : more[i].at < time + 1
    BY <1>1, <1>2, <1>3, <1>4
  <1>6. ASSUME NEW i \in DOMAIN more, NEW j \in DOMAIN more, i < j
        PROVE  more[i].at < more[j].at
    <2>1. i \in DOMAIN thread
      BY <1>2, <1>6
    <2>2. CASE j \in DOMAIN thread
      BY <1>1, <1>2, <1>6, <2>1, <2>2 DEF P!Ordered
    <2>3. CASE j = Len(thread) + 1
      BY <1>1, <1>2, <2>1, <2>3
    <2> QED
      BY <1>4, <2>2, <2>3
  <1>7. P!Ordered(more)
    BY <1>6 DEF P!Ordered
  <1> QED
    BY <1>1, <1>2, <1>5, <1>7

\* A message is written to a conversation, and the conversation may be closed.
LEMMA WritingKeeps ==
  ASSUME NEW rows, NEW time \in Nat, RowsOK(rows, time), NEW c \in DOMAIN rows,
         NEW m \in P!Messages, m.at = time,
         NEW mark \in {rows[c].status, "closed"}, NEW more,
         more = [rows EXCEPT ![c] = [status |-> mark, opened |-> rows[c].opened,
                                     thread |-> Append(rows[c].thread, m)]]
  PROVE  RowsOK(more, time + 1) /\ Extends(rows, more) /\ Holds(more, c, m)
         /\ Len(more) = Len(rows)
  <1>1. /\ rows \in Seq(P!Conversations) /\ Len(rows) \in Nat /\ DOMAIN rows = 1 .. Len(rows)
        /\ rows[c] \in P!Conversations /\ rows[c].thread \in Seq(P!Messages)
    BY OfRows
  <1>2. PICK grown : grown = Append(rows[c].thread, m)
    OBVIOUS
  <1>3. PICK thread : thread = rows[c].thread
    OBVIOUS
  <1>4. /\ grown \in Seq(P!Messages) /\ P!Ordered(grown)
        /\ \A i \in DOMAIN grown : grown[i].at < time + 1
        /\ \A i \in DOMAIN thread : i \in DOMAIN grown /\ grown[i] = thread[i]
        /\ \E i \in DOMAIN grown : grown[i] = m
    <2>1. P!Ordered(thread) /\ \A i \in DOMAIN thread : thread[i].at < time
      BY <1>3 DEF RowsOK
    <2>2. thread \in Seq(P!Messages) /\ grown = Append(thread, m)
      BY <1>1, <1>2, <1>3
    <2>3. grown \in Seq(P!Messages) /\ P!Ordered(grown)
      BY <2>1, <2>2, ThreadGrows
    <2>4. \A i \in DOMAIN grown : grown[i].at < time + 1
      BY <2>1, <2>2, ThreadGrows
    <2>5. \A i \in DOMAIN thread : i \in DOMAIN grown /\ grown[i] = thread[i]
      BY <2>1, <2>2, ThreadGrows
    <2>6. \E i \in DOMAIN grown : grown[i] = m
      BY <2>1, <2>2, ThreadGrows
    <2> QED
      BY <2>3, <2>4, <2>5, <2>6
  <1>5. PICK entry : entry = [status |-> mark, opened |-> rows[c].opened, thread |-> grown]
    OBVIOUS
  <1>6. entry \in P!Conversations /\ entry.thread = grown /\ entry.status = mark
    BY <1>1, <1>4, <1>5 DEF P!Conversations
  <1>7. more = [rows EXCEPT ![c] = entry]
    BY <1>2, <1>5
  <1>8. more \in Seq(P!Conversations) /\ Len(more) = Len(rows) /\ DOMAIN more = DOMAIN rows
    <2>1. c \in 1 .. Len(rows)
      BY <1>1
    <2>2. more \in Seq(P!Conversations) /\ Len(more) = Len(rows)
      BY ONLY <1>1, <1>6, <1>7, <2>1, ExceptSeq
    <2> QED
      BY <1>1, <1>7, <2>2
  <1>9. more[c] = entry /\ \A d \in DOMAIN rows : d # c => more[d] = rows[d]
    BY <1>1, <1>7
  <1>10. \A d, e \in DOMAIN more : more[d].status = "open" /\ more[e].status = "open" => d = e
    <2>1. \A d \in DOMAIN rows : more[d].status = "open" => rows[d].status = "open"
      BY <1>6, <1>9
    <2> QED
      BY <1>8, <2>1 DEF RowsOK
  <1>11. ASSUME NEW d \in DOMAIN more
         PROVE  /\ P!Ordered(more[d].thread)
                /\ \A i \in DOMAIN more[d].thread : more[d].thread[i].at < time + 1
    <2>1. CASE d = c
      BY <1>4, <1>6, <1>9, <2>1
    <2>2. CASE d # c
      <3>1. more[d] = rows[d] /\ d \in DOMAIN rows
        BY <1>8, <1>9, <2>2
      <3>2. \A i \in DOMAIN rows[d].thread : rows[d].thread[i].at < time
                                            /\ rows[d].thread[i].at \in Nat
        BY <3>1, OfRows DEF RowsOK, P!Messages
      <3>3. \A i \in DOMAIN rows[d].thread : rows[d].thread[i].at < time + 1
        BY <3>2
      <3> QED
        BY <3>1, <3>3 DEF RowsOK
    <2> QED
      BY <2>1, <2>2
  <1>12. RowsOK(more, time + 1)
    BY <1>8, <1>10, <1>11 DEF RowsOK
  <1>13. ASSUME NEW d \in DOMAIN rows, NEW message, Holds(rows, d, message)
         PROVE  Holds(more, d, message)
    <2>1. CASE d = c
      <3>1. PICK k \in DOMAIN thread : message = thread[k]
        BY <1>3, <1>13, <2>1 DEF Holds
      <3>2. k \in DOMAIN grown /\ message = grown[k] /\ more[d].thread = grown
        BY <1>4, <1>6, <1>9, <2>1, <3>1
      <3> QED
        BY <3>2 DEF Holds
    <2>2. CASE d # c
      BY <1>9, <1>13, <2>2 DEF Holds
    <2> QED
      BY <2>1, <2>2
  <1>14. Extends(rows, more)
    BY <1>8, <1>13 DEF Extends
  <1>15. Holds(more, c, m)
    BY <1>4, <1>6, <1>9 DEF Holds
  <1> QED
    BY <1>8, <1>12, <1>14, <1>15

\* A conversation is closed.
LEMMA ClosingKeeps ==
  ASSUME NEW rows, NEW time, RowsOK(rows, time), NEW c \in DOMAIN rows,
         NEW more, more = [rows EXCEPT ![c].status = "closed"]
  PROVE  RowsOK(more, time) /\ Extends(rows, more) /\ Len(more) = Len(rows)
  <1>1. /\ rows \in Seq(P!Conversations) /\ Len(rows) \in Nat /\ DOMAIN rows = 1 .. Len(rows)
        /\ rows[c] \in P!Conversations
    BY OfRows
  <1>2. PICK entry : entry = [rows[c] EXCEPT !.status = "closed"]
    OBVIOUS
  <1>3. entry \in P!Conversations /\ entry.thread = rows[c].thread /\ entry.status = "closed"
    BY <1>1, <1>2 DEF P!Conversations
  <1>4. c \in 1 .. Len(rows) /\ more = [rows EXCEPT ![c] = entry]
    BY <1>1, <1>2
  <1>5. more \in Seq(P!Conversations) /\ Len(more) = Len(rows)
    BY ONLY <1>1, <1>3, <1>4, ExceptSeq
  <1>6. /\ DOMAIN more = DOMAIN rows /\ more[c] = entry
        /\ \A d \in DOMAIN rows : d # c => more[d] = rows[d]
    BY <1>1, <1>4
  <1>7. \A d \in DOMAIN rows : /\ more[d].thread = rows[d].thread
                               /\ more[d].status = "open" => rows[d].status = "open"
    BY <1>3, <1>6
  <1>8. RowsOK(more, time)
    <2>1. \A d, e \in DOMAIN more : more[d].status = "open" /\ more[e].status = "open" => d = e
      BY <1>6, <1>7 DEF RowsOK
    <2>2. \A d \in DOMAIN more :
             /\ P!Ordered(more[d].thread)
             /\ \A i \in DOMAIN more[d].thread : more[d].thread[i].at < time
      BY <1>6, <1>7 DEF RowsOK
    <2> QED
      BY <1>5, <2>1, <2>2 DEF RowsOK
  <1>9. Extends(rows, more)
    BY <1>6, <1>7 DEF Extends, Holds
  <1> QED
    BY <1>5, <1>8, <1>9

\* A conversation is opened when none is.
LEMMA OpeningKeeps ==
  ASSUME NEW rows, NEW time \in Nat, RowsOK(rows, time),
         \A c \in DOMAIN rows : rows[c].status # "open", NEW more,
         more = Append(rows, [status |-> "open", opened |-> time, thread |-> <<>>])
  PROVE  RowsOK(more, time + 1) /\ Extends(rows, more) /\ Len(more) = Len(rows) + 1
  <1>1. rows \in Seq(P!Conversations) /\ Len(rows) \in Nat /\ DOMAIN rows = 1 .. Len(rows)
    <2>1. rows \in Seq(P!Conversations)
      BY DEF RowsOK
    <2> QED
      BY <2>1, LenProperties
  <1>2. PICK entry : entry = [status |-> "open", opened |-> time, thread |-> <<>>]
    OBVIOUS
  <1>3. entry \in P!Conversations /\ entry.thread = <<>>
    <2>1. <<>> \in Seq(P!Messages)
      BY EmptySeq
    <2> QED
      BY <1>2, <2>1 DEF P!Conversations
  <1>4. /\ more \in Seq(P!Conversations) /\ Len(more) = Len(rows) + 1
        /\ \A c \in DOMAIN rows : more[c] = rows[c]
        /\ more[Len(rows) + 1] = entry
    BY <1>1, <1>2, <1>3, AppendProperties
  <1>5. DOMAIN more = 1 .. Len(rows) + 1
    BY <1>1, <1>4, LenProperties
  <1>6. \A c \in DOMAIN more : c \in DOMAIN rows \/ c = Len(rows) + 1
    BY <1>1, <1>5
  <1>7. \A c, d \in DOMAIN more : more[c].status = "open" /\ more[d].status = "open" => c = d
    BY <1>4, <1>6
  <1>8. ASSUME NEW c \in DOMAIN more
        PROVE  /\ P!Ordered(more[c].thread)
               /\ \A i \in DOMAIN more[c].thread : more[c].thread[i].at < time + 1
    <2>1. CASE c \in DOMAIN rows
      <3>1. \A i \in DOMAIN rows[c].thread : rows[c].thread[i].at < time
                                            /\ rows[c].thread[i].at \in Nat
        BY <2>1, OfRows DEF RowsOK, P!Messages
      <3>2. \A i \in DOMAIN rows[c].thread : rows[c].thread[i].at < time + 1
        BY <3>1
      <3> QED
        BY <1>4, <2>1, <3>2 DEF RowsOK
    <2>2. CASE c = Len(rows) + 1
      <3>1. DOMAIN more[c].thread = {}
        BY <1>3, <1>4, <2>2
      <3> QED
        BY <3>1 DEF P!Ordered
    <2> QED
      BY <1>6, <2>1, <2>2
  <1>9. RowsOK(more, time + 1)
    BY <1>4, <1>7, <1>8 DEF RowsOK
  <1>10. \A c \in DOMAIN rows : c \in DOMAIN more
    BY <1>1, <1>5
  <1>11. Extends(rows, more)
    BY <1>4, <1>10 DEF Extends, Holds
  <1> QED
    BY <1>4, <1>9, <1>11

\* What a writer writes.
LEMMA SayingKeeps ==
  ASSUME RowsOK(server, now), now \in Nat, NEW c \in DOMAIN server,
         NEW by \in {"buyer", "seller", "system", "other"}
  PROVE  /\ RowsOK(P!Said(c, by), now + 1) /\ Extends(server, P!Said(c, by))
         /\ Holds(P!Said(c, by), c, [at |-> now, by |-> by]) /\ Len(P!Said(c, by)) = Len(server)
  <1>1. PICK m : m = [at |-> now, by |-> by]
    OBVIOUS
  <1>2. m \in P!Messages /\ m.at = now
    BY <1>1 DEF P!Messages
  <1>3. PICK entry : entry = server[c]
    OBVIOUS
  <1>4. entry \in P!Conversations
    BY <1>3, OfRows
  <1>5. [entry EXCEPT !.thread = Append(@, m)]
          = [status |-> entry.status, opened |-> entry.opened, thread |-> Append(entry.thread, m)]
    <2>1. PICK longer : longer = Append(entry.thread, m)
      OBVIOUS
    <2>2. entry = [status |-> entry.status, opened |-> entry.opened, thread |-> entry.thread]
      BY <1>4 DEF P!Conversations
    <2>3. [entry EXCEPT !.thread = longer]
            = [status |-> entry.status, opened |-> entry.opened, thread |-> longer]
      BY <2>2
    <2> QED
      BY <2>1, <2>3
  <1>6. PICK more : more = P!Said(c, by)
    OBVIOUS
  <1>7. more = [server EXCEPT ![c] = [entry EXCEPT !.thread = Append(@, m)]]
    BY <1>1, <1>3, <1>6 DEF P!Said
  <1>8. more = [server EXCEPT ![c] = [status |-> server[c].status, opened |-> server[c].opened,
                                      thread |-> Append(server[c].thread, m)]]
    BY <1>3, <1>5, <1>7
  <1>9. RowsOK(more, now + 1)
    BY <1>2, <1>8, WritingKeeps
  <1>10. Extends(server, more)
    BY <1>2, <1>8, WritingKeeps
  <1>11. Holds(more, c, m)
    BY <1>2, <1>8, WritingKeeps
  <1>12. Len(more) = Len(server)
    BY <1>2, <1>8, WritingKeeps
  <1> QED
    BY <1>1, <1>6, <1>9, <1>10, <1>11, <1>12

LEMMA ExpiringKeeps ==
  ASSUME RowsOK(server, now), now \in Nat, NEW c \in DOMAIN server
  PROVE  /\ RowsOK(P!Expired(c), now + 1) /\ Extends(server, P!Expired(c))
         /\ Len(P!Expired(c)) = Len(server)
  <1>1. PICK said : said = P!Said(c, "system")
    OBVIOUS
  <1>2. RowsOK(said, now + 1) /\ Extends(server, said) /\ Len(said) = Len(server)
    BY <1>1, SayingKeeps
  <1>3. c \in DOMAIN said
    BY <1>2 DEF Extends
  <1>4. PICK more : more = [said EXCEPT ![c].status = "closed"]
    OBVIOUS
  <1>5. RowsOK(more, now + 1) /\ Extends(said, more) /\ Len(more) = Len(said)
    <2>1. RowsOK(more, now + 1)
      BY <1>2, <1>3, <1>4, ClosingKeeps
    <2>2. Extends(said, more)
      BY <1>2, <1>3, <1>4, ClosingKeeps
    <2>3. Len(more) = Len(said)
      BY <1>2, <1>3, <1>4, ClosingKeeps
    <2> QED
      BY <2>1, <2>2, <2>3
  <1>6. Extends(server, more)
    BY <1>2, <1>5 DEF Extends
  <1>7. P!Expired(c) = more
    BY <1>1, <1>4 DEF P!Expired
  <1> QED
    BY <1>2, <1>5, <1>6, <1>7

\* What a read finds, or makes.
LEMMA ReadingKeeps ==
  ASSUME P!PanelConstants,
         RowsOK(server, now), now \in StartTime .. MaxTime, NEW those \in SUBSET DOMAIN server,
         NEW found \in P!Reads(those)
  PROVE  /\ RowsOK(found.rows, found.at) /\ found.at \in StartTime .. MaxTime
         /\ Extends(server, found.rows) /\ Len(found.rows) = Len(server)
  <1>1. CASE found = [rows |-> server, at |-> now]
    BY <1>1, SelfExtends
  <1>2. ASSUME NEW c \in DOMAIN server, now < MaxTime,
               found = [rows |-> P!Expired(c), at |-> now + 1]
        PROVE  /\ RowsOK(found.rows, found.at) /\ found.at \in StartTime .. MaxTime
               /\ Extends(server, found.rows) /\ Len(found.rows) = Len(server)
    <2>1. now \in Nat /\ now + 1 \in StartTime .. MaxTime
      BY <1>2, PanelNumbers
    <2>2. /\ RowsOK(P!Expired(c), now + 1) /\ Extends(server, P!Expired(c))
          /\ Len(P!Expired(c)) = Len(server)
      BY <2>1, ExpiringKeeps
    <2> QED
      BY <1>2, <2>1, <2>2
  <1> QED
    BY <1>1, <1>2 DEF P!Reads, P!Open

-----------------------------------------------------------------------------
\* The first messages of a thread are those written before a time.
LEMMA OlderFirst ==
  ASSUME NEW thread \in Seq(P!Messages), P!Ordered(thread), NEW time \in Int
  PROVE  /\ P!WrittenBefore(thread, time) \in 0 .. Len(thread)
         /\ \A i \in DOMAIN thread : thread[i].at < time <=> i <= P!WrittenBefore(thread, time)
  <1>1. Len(thread) \in Nat /\ DOMAIN thread = 1 .. Len(thread)
    BY LenProperties
  <1>2. \A i \in DOMAIN thread : thread[i].at \in Nat
    <2>1. \A i \in DOMAIN thread : thread[i] \in P!Messages
      BY <1>1, LenProperties
    <2> QED
      BY <2>1 DEF P!Messages
  <1>3. PICK older : older = {i \in DOMAIN thread : thread[i].at < time}
    OBVIOUS
  <1>4. \A i \in DOMAIN thread : i \in older <=> thread[i].at < time
    BY <1>3
  <1>5. \A i, j \in DOMAIN thread : i < j /\ j \in older => i \in older
    BY <1>2, <1>3 DEF P!Ordered
  <1>6. PICK n : n = Cardinality(older)
    OBVIOUS
  <1>7. IsFiniteSet(older) /\ n \in Nat /\ n <= Len(thread)
    <2>1. IsFiniteSet(1 .. Len(thread)) /\ Cardinality(1 .. Len(thread)) = Len(thread)
      BY <1>1, FS_Interval
    <2>2. older \subseteq 1 .. Len(thread)
      BY <1>1, <1>3
    <2> QED
      BY <1>6, <2>1, <2>2, FS_Subset, FS_CardinalityType
  <1>8. ASSUME NEW i \in older PROVE i <= n
    <2>1. i \in 1 .. Len(thread) /\ 1 .. i \subseteq older
      BY <1>1, <1>3, <1>5
    <2>2. Cardinality(1 .. i) = i
      BY <1>1, <2>1, FS_Interval
    <2> QED
      BY <1>6, <1>7, <2>1, <2>2, FS_Subset
  <1>9. ASSUME NEW i \in DOMAIN thread, i \notin older PROVE n < i
    <2>1. i \in 1 .. Len(thread) /\ older \subseteq 1 .. (i - 1)
      <3>1. i \in 1 .. Len(thread)
        BY <1>1
      <3>2. \A j \in older : j \in 1 .. Len(thread) /\ ~ (i < j) /\ j # i
        BY <1>1, <1>3, <1>5, <1>9
      <3> QED
        BY <3>1, <3>2
    <2>2. PICK k : k = i - 1
      OBVIOUS
    <2>3. k \in Nat /\ k < i
      BY <1>1, <2>1, <2>2
    <2>4. IsFiniteSet(1 .. k) /\ Cardinality(1 .. k) = k
      BY <2>3, FS_Interval
    <2>5. n <= k
      BY <1>6, <2>1, <2>2, <2>4, FS_Subset
    <2> QED
      BY <1>7, <2>3, <2>5, <2>1
  <1>10. P!WrittenBefore(thread, time) = n
    BY <1>3, <1>6 DEF P!WrittenBefore, P!Cardinality, Cardinality
  <1>11. \A i \in DOMAIN thread : thread[i].at < time <=> i <= n
    <2>1. ASSUME NEW i \in DOMAIN thread PROVE thread[i].at < time <=> i <= n
      BY <1>1, <1>4, <1>7, <1>8, <1>9
    <2> QED
      BY <2>1
  <1> QED
    BY <1>1, <1>7, <1>10, <1>11

\* Messages are among the first ones of a thread.
IsAmong(piece, thread, b) ==
  \A i \in DOMAIN piece : \E k \in DOMAIN thread : k <= b /\ piece[i] = thread[k]

\* A piece of a thread is in order.
LEMMA PieceOfThread ==
  ASSUME NEW thread \in Seq(P!Messages), P!Ordered(thread), NEW a \in 0 .. Len(thread),
         NEW b \in 0 .. Len(thread), NEW piece, piece = SubSeq(thread, a + 1, b)
  PROVE  piece \in Seq(P!Messages) /\ P!Ordered(piece) /\ IsAmong(piece, thread, b)
  <1>1. Len(thread) \in Nat /\ DOMAIN thread = 1 .. Len(thread)
        /\ \A k \in DOMAIN thread : thread[k] \in P!Messages
    BY LenProperties
  <1>2. /\ piece \in Seq(P!Messages)
        /\ Len(piece) = IF a + 1 <= b THEN b - (a + 1) + 1 ELSE 0
        /\ \A i \in 1 .. b - (a + 1) + 1 : piece[i] = thread[(a + 1) + i - 1]
    <2>1. \A k \in a + 1 .. b : thread[k] \in P!Messages
      BY <1>1
    <2> QED
      BY <1>1, <2>1, SubSeqProperties
  <1>3. DOMAIN piece = 1 .. Len(piece)
    BY <1>2, LenProperties
  <1>4. \A i \in DOMAIN piece : i \in Nat /\ a + i \in DOMAIN thread /\ a + i <= b
                                 /\ piece[i] = thread[a + i]
    <2>1. ASSUME NEW i \in DOMAIN piece
          PROVE  i \in Nat /\ a + i \in DOMAIN thread /\ a + i <= b /\ piece[i] = thread[a + i]
      <3>1. i \in 1 .. b - (a + 1) + 1 /\ i \in Nat /\ a + i \in 1 .. Len(thread) /\ a + i <= b
        BY <1>1, <1>2, <1>3
      <3>2. (a + 1) + i - 1 = a + i
        BY <3>1
      <3> QED
        BY <1>1, <1>2, <3>1, <3>2
    <2> QED
      BY <2>1
  <1>5. P!Ordered(piece)
    <2>1. ASSUME NEW i \in DOMAIN piece, NEW j \in DOMAIN piece, i < j
          PROVE  piece[i].at < piece[j].at
      <3>1. a + i < a + j
        BY <1>4, <2>1
      <3> QED
        BY <1>4, <3>1 DEF P!Ordered
    <2> QED
      BY <2>1 DEF P!Ordered
  <1> QED
    BY <1>2, <1>4, <1>5 DEF IsAmong

\* What a window holds.
LEMMA WindowHolds ==
  ASSUME P!PanelConstants,
         NEW rows, NEW time \in Nat, RowsOK(rows, time), NEW c \in DOMAIN rows,
         NEW before \in Nat \cup {-1}, NEW items,
         items = P!Window(rows[c].thread, time, before).items
  PROVE  /\ items \in Seq(P!Messages) /\ P!Ordered(items)
         /\ \A i \in DOMAIN items : Holds(rows, c, items[i])
         /\ before # -1 => \A i \in DOMAIN items : items[i].at < before
  <1>1. PICK thread : thread = rows[c].thread
    OBVIOUS
  <1>2. thread \in Seq(P!Messages) /\ P!Ordered(thread) /\ Len(thread) \in Nat
    BY <1>1, OfRows DEF RowsOK
  <1>3. PICK from : from = IF before = -1 THEN time - MessageWindow ELSE before - MessageWindow
    OBVIOUS
  <1>4. from \in Int
    BY <1>3, PanelNumbers
  <1>5. PICK a : a = P!WrittenBefore(thread, from)
    OBVIOUS
  <1>6. a \in 0 .. Len(thread)
    BY <1>2, <1>4, <1>5, OlderFirst
  <1>7. PICK b : b = IF before = -1 THEN Len(thread) ELSE P!WrittenBefore(thread, before)
    OBVIOUS
  <1>8. /\ b \in 0 .. Len(thread)
        /\ before # -1 => \A k \in DOMAIN thread : k <= b => thread[k].at < before
    BY <1>2, <1>7, OlderFirst
  <1>9. items = SubSeq(thread, a + 1, b)
    BY <1>1, <1>3, <1>5, <1>7 DEF P!Window
  <1>10. items \in Seq(P!Messages) /\ P!Ordered(items)
    BY <1>2, <1>6, <1>8, <1>9, PieceOfThread
  <1>11. \A i \in DOMAIN items : \E k \in DOMAIN thread : k <= b /\ items[i] = thread[k]
    <2>1. IsAmong(items, thread, b)
      BY <1>2, <1>6, <1>8, <1>9, PieceOfThread
    <2> QED
      BY <2>1 DEF IsAmong
  <1>12. \A i \in DOMAIN items : Holds(rows, c, items[i])
    BY <1>1, <1>11 DEF Holds
  <1>13. before # -1 => \A i \in DOMAIN items : items[i].at < before
    BY <1>8, <1>11
  <1> QED
    BY <1>10, <1>12, <1>13

-----------------------------------------------------------------------------
\* Of finitely many things one has the latest time.
LEMMA Latest ==
  ASSUME NEW S, IsFiniteSet(S), S # {}, NEW f, \A x \in S : f[x] \in Int
  PROVE  \E x \in S : \A y \in S : f[y] <= f[x]
  <1> DEFINE later(x) == {y \in S : f[x] < f[y]}
             all == {later(x) : x \in S}
  <1>1. IsWellFoundedOn(StrictSubsetOrdering(S), FiniteSubsetsOf(S))
    BY FS_StrictSubsetOrderingWellFounded
  <1>2. FiniteSubsetsOf(S) = SUBSET S
    BY FS_FiniteSubsetsOfFinite
  <1>3. all # {} /\ all \subseteq SUBSET S
    OBVIOUS
  <1>4. PICK T \in all : \A U \in all : ~ (<<U, T>> \in StrictSubsetOrdering(S))
    <2> HIDE DEF all
    <2> QED
      BY <1>1, <1>2, <1>3, WFMin
  <1>5. PICK x \in S : T = later(x)
    OBVIOUS
  <1>6. ASSUME NEW y \in S, f[x] < f[y] PROVE FALSE
    <2>1. later(y) \in all /\ later(y) \subseteq later(x) /\ y \in later(x) /\ y \notin later(y)
      BY <1>6
    <2>2. <<later(y), T>> \in StrictSubsetOrdering(S)
      BY <1>5, <2>1 DEF StrictSubsetOrdering
    <2> QED
      BY <1>4, <2>1, <2>2
  <1>7. \A y \in S : f[y] <= f[x]
    BY <1>6
  <1> QED
    BY <1>7

\* What the panel may show: a conversation that the API keeps, or none.
IsShown(conversation, rows) ==
  /\ conversation.id \in 0 .. Len(rows)
  /\ conversation # P!NoConversation => conversation.id # 0

LEMMA PreferredIsShown ==
  ASSUME NEW rows, NEW time, RowsOK(rows, time)
  PROVE  IsShown(P!Preferred(rows), rows)
  <1>1. rows \in Seq(P!Conversations) /\ Len(rows) \in Nat /\ DOMAIN rows = 1 .. Len(rows)
    <2>1. rows \in Seq(P!Conversations)
      BY DEF RowsOK
    <2> QED
      BY <2>1, LenProperties
  <1>2. \A c \in DOMAIN rows : IsShown(P!Conversation(rows, c), rows)
    BY <1>1 DEF IsShown, P!Conversation, P!NoConversation
  <1>3. CASE rows = <<>>
    <2>1. P!Preferred(rows) = P!NoConversation
      BY <1>3 DEF P!Preferred
    <2> QED
      BY <1>1, <2>1 DEF IsShown, P!NoConversation
  <1>4. CASE rows # <<>> /\ \E c \in DOMAIN rows : rows[c].status = "open"
    <2>1. PICK stillOpen : stillOpen = {c \in DOMAIN rows : rows[c].status = "open"}
      OBVIOUS
    <2>2. stillOpen # {} /\ (CHOOSE c \in stillOpen : TRUE) \in DOMAIN rows
      BY <1>4, <2>1
    <2>3. P!Preferred(rows) = P!Conversation(rows, CHOOSE c \in stillOpen : TRUE)
      BY <1>4, <2>1, <2>2 DEF P!Preferred
    <2> QED
      BY <1>2, <2>2, <2>3
  <1>5. CASE rows # <<>> /\ \A c \in DOMAIN rows : rows[c].status # "open"
    <2>1. PICK f : f = [c \in DOMAIN rows |-> P!LastInteraction(rows[c])]
      OBVIOUS
    <2>2. ASSUME NEW c \in DOMAIN rows PROVE f[c] \in Int
      <3>1. PICK entry : entry = rows[c]
        OBVIOUS
      <3>2. entry.thread \in Seq(P!Messages) /\ entry.opened \in Nat
        BY <3>1, OfRows DEF P!Conversations
      <3>3. CASE entry.thread = <<>>
        BY <2>1, <3>1, <3>2, <3>3 DEF P!LastInteraction
      <3>4. CASE entry.thread # <<>>
        <4>1. PICK m : m = entry.thread[Len(entry.thread)]
          OBVIOUS
        <4>2. m \in P!Messages
          <5>1. Len(entry.thread) \in Nat \ {0}
            BY <3>2, <3>4, EmptySeq
          <5> QED
            BY <3>2, <4>1, <5>1, LenProperties
        <4>3. f[c] = m.at
          BY <2>1, <3>1, <3>4, <4>1 DEF P!LastInteraction, P!Last
        <4> QED
          BY <4>2, <4>3 DEF P!Messages
      <3> QED
        BY <3>3, <3>4
    <2>3. \E c \in DOMAIN rows : \A d \in DOMAIN rows : f[d] <= f[c]
      <3>1. IsFiniteSet(DOMAIN rows)
        BY <1>1, FS_Interval
      <3>2. DOMAIN rows # {}
        BY <1>1, <1>5, EmptySeq
      <3> QED
        BY <2>2, <3>1, <3>2, Latest
    <2>4. PICK last : last = CHOOSE c \in DOMAIN rows :
                     \A d \in DOMAIN rows : P!LastInteraction(rows[d]) <= P!LastInteraction(rows[c])
      OBVIOUS
    <2>5. last \in DOMAIN rows
      <3>1. \E c \in DOMAIN rows :
              \A d \in DOMAIN rows : P!LastInteraction(rows[d]) <= P!LastInteraction(rows[c])
        BY <2>1, <2>3
      <3> QED
        BY <2>4, <3>1
    <2>6. {c \in DOMAIN rows : rows[c].status = "open"} = {}
      BY <1>5
    <2>7. P!Preferred(rows) = P!Conversation(rows, last)
      BY <1>5, <2>4, <2>6 DEF P!Preferred
    <2> QED
      BY <1>2, <2>5, <2>7
  <1> QED
    BY <1>3, <1>4, <1>5

-----------------------------------------------------------------------------
\* The fields of a request.
Shape(r) ==
  /\ {"op", "answer"} \subseteq DOMAIN r
  /\ r.op \in {"list", "messages", "open", "send", "close"}
  /\ r.op \in {"messages", "send", "close"} => "conv" \in DOMAIN r
  /\ r.op = "messages" => "before" \in DOMAIN r

\* What the API may have answered to a request: a conversation it keeps, a window
\* of the thread that was asked for, or the message that was sent.
WindowOK(window, c, before, rows) ==
  /\ window.items \in Seq(P!Messages) /\ P!Ordered(window.items) /\ window.has_older \in BOOLEAN
  /\ \A i \in DOMAIN window.items : Holds(rows, c, window.items[i])
  /\ before # -1 => \A i \in DOMAIN window.items : window.items[i].at < before

ReplyOK(r, answer, rows) ==
  answer.status = "ok" =>
    /\ r.op \in {"list", "open", "close"} => IsShown(answer.data, rows)
    /\ r.op = "messages" => WindowOK(answer.data, r.conv, r.before, rows)
    /\ r.op = "send" => answer.data \in P!Messages /\ Holds(rows, r.conv, answer.data)

CallOK(r, rows) ==
  /\ Shape(r)
  /\ r.op \in {"messages", "send", "close"} => r.conv \in DOMAIN rows
  /\ r.op = "messages" => r.before \in Nat \cup {-1}
  /\ ReplyOK(r, r.answer, rows)

\* A request that will change the messages shown is about them.
Fits(r, conversation, shown) ==
  /\ P!TouchesThread(r) => r.conv = conversation.id
  /\ r.op = "messages" /\ r.before # -1 => shown # <<>> /\ r.before = shown[1].at
  /\ r.op = "send" /\ r.answer.status = "ok" =>
       \A k \in DOMAIN shown : shown[k].at < r.answer.data.at

NoneTouches(pipe) == \A i \in DOMAIN pipe : ~ P!TouchesThread(pipe[i])
OneTouches(pipe) ==
  \A i, j \in DOMAIN pipe : P!TouchesThread(pipe[i]) /\ P!TouchesThread(pipe[j]) => i = j

AllFit(pipe, conversation, shown) == \A i \in DOMAIN pipe : Fits(pipe[i], conversation, shown)
AllHeld(rows, c, shown) == \A i \in DOMAIN shown : Holds(rows, c, shown[i])

ThreadOK ==
  selected # P!NoConversation /\ ~ crossed =>
    /\ AllHeld(server, selected.id, messages) /\ P!Ordered(messages)
    /\ OneTouches(net) /\ AllFit(net, selected, messages)

PipeOK(pipe, rows) == IsSeq(pipe) /\ \A i \in DOMAIN pipe : CallOK(pipe[i], rows)

FlagsOK ==
  /\ viewer \in {"buyer", "seller"} /\ listing \in {"loading", "error", "loaded"}
  /\ hasOlder \in BOOLEAN /\ loadingMessages \in BOOLEAN /\ messagesError \in BOOLEAN
  /\ opening \in BOOLEAN /\ sending \in BOOLEAN /\ closing \in BOOLEAN /\ crossed \in BOOLEAN

ServerOK == RowsOK(server, now) /\ now \in StartTime .. MaxTime

LoadingOK == loadingMessages => \E i \in DOMAIN net : net[i].op = "messages"

PanelInv ==
  /\ FlagsOK /\ ServerOK
  /\ IsShown(selected, server) /\ messages \in Seq(P!Messages)
  /\ PipeOK(net, server) /\ Len(net) <= MaxRequests /\ LoadingOK
  /\ ThreadOK

-----------------------------------------------------------------------------
LEMMA SelectedIsKept ==
  ASSUME ServerOK, IsShown(selected, server), selected # P!NoConversation
  PROVE  selected.id \in DOMAIN server
  <1>1. server \in Seq(P!Conversations)
    BY DEF ServerOK, RowsOK
  <1>2. Len(server) \in Nat /\ DOMAIN server = 1 .. Len(server)
    BY <1>1, LenProperties
  <1> QED
    BY <1>2 DEF IsShown

\* What is right stays right when more is said.
LEMMA AnswersLast ==
  ASSUME NEW rows, NEW more, Extends(rows, more), Len(rows) \in Nat, Len(more) \in Nat,
         Len(rows) <= Len(more), NEW r, NEW answer, ReplyOK(r, answer, rows),
         r.op \in {"messages", "send", "close"} => r.conv \in DOMAIN rows
  PROVE  ReplyOK(r, answer, more)
  <1>1. ASSUME NEW conversation, IsShown(conversation, rows)
        PROVE  IsShown(conversation, more)
    BY <1>1 DEF IsShown
  <1>2. ASSUME r.op = "messages", WindowOK(answer.data, r.conv, r.before, rows)
        PROVE  WindowOK(answer.data, r.conv, r.before, more)
    BY <1>2 DEF WindowOK, Extends
  <1>3. ASSUME r.op = "send", Holds(rows, r.conv, answer.data)
        PROVE  Holds(more, r.conv, answer.data)
    BY <1>3 DEF Extends
  <1> QED
    BY <1>1, <1>2, <1>3 DEF ReplyOK

LEMMA RequestsLast ==
  ASSUME NEW rows, NEW more, Extends(rows, more), Len(rows) \in Nat, Len(more) \in Nat,
         Len(rows) <= Len(more), NEW pipe, PipeOK(pipe, rows)
  PROVE  PipeOK(pipe, more)
  <1>1. ASSUME NEW i \in DOMAIN pipe PROVE CallOK(pipe[i], more)
    <2>1. PICK r : r = pipe[i]
      OBVIOUS
    <2>2. CallOK(r, rows)
      BY <2>1 DEF PipeOK
    <2>3. ReplyOK(r, r.answer, more)
      BY <2>2, AnswersLast DEF CallOK
    <2>4. r.op \in {"messages", "send", "close"} => r.conv \in DOMAIN more
      BY <2>2 DEF CallOK, Extends
    <2> QED
      BY <2>1, <2>2, <2>3, <2>4 DEF CallOK
  <1> QED
    BY <1>1 DEF PipeOK

\* The rows grow.
Grows(rows, more) ==
  Extends(rows, more) /\ Len(rows) \in Nat /\ Len(more) \in Nat /\ Len(rows) <= Len(more)

LEMMA ShownLasts ==
  ASSUME NEW rows, NEW more, Grows(rows, more), NEW conversation, IsShown(conversation, rows)
  PROVE  IsShown(conversation, more)
  BY DEF IsShown, Grows

\* One request less.
Drawn(pipe, s, i) == \A k \in DOMAIN pipe : \E q \in DOMAIN s : q # i /\ pipe[k] = s[q]
Left(pipe, s, i) == \A q \in DOMAIN s : q # i => \E k \in DOMAIN pipe : pipe[k] = s[q]

LEMMA Pruned ==
  ASSUME NEW s, IsSeq(s), NEW i \in DOMAIN s, NEW pipe, pipe = P!RemoveAt(s, i)
  PROVE  /\ IsSeq(pipe) /\ Len(pipe) = Len(s) - 1 /\ Drawn(pipe, s, i) /\ Left(pipe, s, i)
         /\ OneTouches(s) => OneTouches(pipe)
         /\ OneTouches(s) /\ P!TouchesThread(s[i]) => NoneTouches(pipe)
  <1>1. Len(s) \in Nat /\ DOMAIN s = 1 .. Len(s) /\ i \in 1 .. Len(s)
    BY Indices
  <1>2. /\ IsSeq(pipe) /\ Len(pipe) = Len(s) - 1
        /\ \A j \in DOMAIN pipe : pipe[j] = s[IF j < i THEN j ELSE j + 1]
    BY Removed DEF P!RemoveAt, RemoveAt
  <1>3. DOMAIN pipe = 1 .. Len(s) - 1
    BY <1>2, Indices
  <1>4. \A j \in DOMAIN pipe : \/ j < i /\ j \in DOMAIN s /\ pipe[j] = s[j]
                               \/ j >= i /\ j + 1 \in DOMAIN s /\ pipe[j] = s[j + 1]
    BY <1>1, <1>2, <1>3
  <1>5. Drawn(pipe, s, i)
    <2>1. ASSUME NEW j \in DOMAIN pipe PROVE \E q \in DOMAIN s : q # i /\ pipe[j] = s[q]
      <3>1. j \in Nat
        BY <1>3
      <3>2. CASE j < i /\ j \in DOMAIN s /\ pipe[j] = s[j]
        BY <1>1, <3>1, <3>2
      <3>3. CASE j >= i /\ j + 1 \in DOMAIN s /\ pipe[j] = s[j + 1]
        <4>1. j + 1 # i
          BY <1>1, <3>1, <3>3
        <4> QED
          BY <3>3, <4>1
      <3> QED
        BY <1>4, <3>2, <3>3
    <2> QED
      BY <2>1 DEF Drawn
  <1>6. Left(pipe, s, i)
    <2>1. ASSUME NEW q \in DOMAIN s, q # i PROVE \E k \in DOMAIN pipe : pipe[k] = s[q]
      <3>1. CASE q < i
        <4>1. q \in DOMAIN pipe /\ pipe[q] = s[q]
          BY <1>1, <1>2, <1>3, <2>1, <3>1
        <4> QED
          BY <4>1
      <3>2. CASE q > i
        <4>1. PICK k : k = q - 1
          OBVIOUS
        <4>2. k \in DOMAIN pipe /\ ~ (k < i) /\ k + 1 = q
          BY <1>1, <1>3, <2>1, <3>2, <4>1
        <4>3. pipe[k] = s[q]
          BY <1>2, <4>2
        <4> QED
          BY <4>2, <4>3
      <3> QED
        BY <1>1, <2>1, <3>1, <3>2
    <2> QED
      BY <2>1 DEF Left
  <1>7. ASSUME OneTouches(s) PROVE OneTouches(pipe)
    <2>1. ASSUME NEW j \in DOMAIN pipe, NEW k \in DOMAIN pipe, P!TouchesThread(pipe[j]),
                 P!TouchesThread(pipe[k])
          PROVE  j = k
      <3>1. PICK p : p = IF j < i THEN j ELSE j + 1
        OBVIOUS
      <3>2. PICK q : q = IF k < i THEN k ELSE k + 1
        OBVIOUS
      <3>3. p \in DOMAIN s /\ q \in DOMAIN s /\ pipe[j] = s[p] /\ pipe[k] = s[q]
        BY <1>1, <1>2, <1>3, <3>1, <3>2
      <3>4. p = q
        BY <1>7, <2>1, <3>3 DEF OneTouches
      <3> QED
        BY <1>1, <1>3, <3>1, <3>2, <3>4
    <2> QED
      BY <2>1 DEF OneTouches
  <1>8. ASSUME OneTouches(s), P!TouchesThread(s[i]) PROVE NoneTouches(pipe)
    BY <1>5, <1>8 DEF OneTouches, NoneTouches, Drawn
  <1> QED
    BY <1>2, <1>5, <1>6, <1>7, <1>8

LEMMA PrunedOK ==
  ASSUME NEW s, NEW rows, PipeOK(s, rows), NEW i \in DOMAIN s, NEW pipe, pipe = P!RemoveAt(s, i)
  PROVE  PipeOK(pipe, rows)
  <1>1. IsSeq(pipe) /\ Drawn(pipe, s, i)
    BY Pruned DEF PipeOK
  <1> QED
    BY <1>1 DEF PipeOK, Drawn

\* One request more.
LEMMA Issued ==
  ASSUME NEW s, IsSeq(s), NEW r, NEW pipe, pipe = Append(s, r)
  PROVE  /\ IsSeq(pipe) /\ Len(pipe) = Len(s) + 1
         /\ \A k \in DOMAIN pipe : pipe[k] = r \/ (k \in DOMAIN s /\ pipe[k] = s[k])
         /\ \E k \in DOMAIN pipe : pipe[k] = r
         /\ \A k \in DOMAIN s : k \in DOMAIN pipe /\ pipe[k] = s[k]
         /\ OneTouches(s) /\ ~ P!TouchesThread(r) => OneTouches(pipe)
         /\ NoneTouches(s) => OneTouches(pipe)
  <1>1. /\ IsSeq(pipe) /\ Len(pipe) = Len(s) + 1 /\ \A k \in DOMAIN s : pipe[k] = s[k]
        /\ pipe[Len(s) + 1] = r
    BY Appended
  <1>2. Len(s) \in Nat /\ DOMAIN s = 1 .. Len(s)
    BY Indices
  <1>3. DOMAIN pipe = 1 .. Len(s) + 1
    BY <1>1, Indices
  <1>4. \A k \in DOMAIN pipe : k = Len(s) + 1 \/ k \in DOMAIN s
    BY <1>2, <1>3
  <1>5. Len(s) + 1 \in DOMAIN pipe /\ \A k \in DOMAIN s : k \in DOMAIN pipe
    BY <1>2, <1>3
  <1>6. OneTouches(s) /\ ~ P!TouchesThread(r) => OneTouches(pipe)
    BY <1>1, <1>4 DEF OneTouches
  <1>7. NoneTouches(s) => OneTouches(pipe)
    BY <1>1, <1>4 DEF OneTouches, NoneTouches
  <1> QED
    BY <1>1, <1>4, <1>5, <1>6, <1>7

\* Requests that change no messages fit any.
LEMMA NoneFit ==
  ASSUME NEW pipe, NoneTouches(pipe), NEW conversation, NEW shown
  PROVE  OneTouches(pipe) /\ AllFit(pipe, conversation, shown)
  BY DEF NoneTouches, OneTouches, AllFit, Fits, P!TouchesThread

\* A click that asks for something.
LEMMA IssueKeeps ==
  ASSUME P!PanelConstants,
         PipeOK(net, server), ThreadOK, Len(net) < MaxRequests, NEW r, CallOK(r, server),
         P!Issue(r), Fits(r, selected, messages), UNCHANGED <<server, selected, messages>>
  PROVE  /\ PipeOK(net', server') /\ Len(net') <= MaxRequests /\ ThreadOK'
         /\ \E k \in DOMAIN net' : net'[k] = r
         /\ \A k \in DOMAIN net : k \in DOMAIN net' /\ net'[k] = net[k]
  <1>1. IsSeq(net) /\ net' = Append(net, r) /\ crossed' = (crossed \/ P!Overlaps(r, net))
    BY DEF PipeOK, P!Issue
  <1>2. PICK pipe : pipe = net'
    OBVIOUS
  <1>3. /\ IsSeq(pipe) /\ Len(pipe) = Len(net) + 1
        /\ \A k \in DOMAIN pipe : pipe[k] = r \/ (k \in DOMAIN net /\ pipe[k] = net[k])
        /\ \E k \in DOMAIN pipe : pipe[k] = r
        /\ \A k \in DOMAIN net : k \in DOMAIN pipe /\ pipe[k] = net[k]
        /\ OneTouches(net) /\ ~ P!TouchesThread(r) => OneTouches(pipe)
        /\ NoneTouches(net) => OneTouches(pipe)
    <2>1. pipe = Append(net, r)
      BY <1>1, <1>2
    <2>2. IsSeq(pipe) /\ Len(pipe) = Len(net) + 1
      BY <1>1, <2>1, Issued
    <2>3. \A k \in DOMAIN pipe : pipe[k] = r \/ (k \in DOMAIN net /\ pipe[k] = net[k])
      BY <1>1, <2>1, Issued
    <2>4. \E k \in DOMAIN pipe : pipe[k] = r
      BY <1>1, <2>1, Issued
    <2>5. \A k \in DOMAIN net : k \in DOMAIN pipe /\ pipe[k] = net[k]
      BY <1>1, <2>1, Issued
    <2>6. OneTouches(net) /\ ~ P!TouchesThread(r) => OneTouches(pipe)
      BY <1>1, <2>1, Issued
    <2>7. NoneTouches(net) => OneTouches(pipe)
      BY <1>1, <2>1, Issued
    <2> QED
      BY <2>2, <2>3, <2>4, <2>5, <2>6, <2>7
  <1>4. Len(net) \in Nat /\ Len(pipe) <= MaxRequests
    BY <1>1, <1>3, Indices, PanelNumbers
  <1>5. PipeOK(pipe, server)
    BY <1>3 DEF PipeOK
  <1>6. ASSUME selected # P!NoConversation, ~ crossed'
        PROVE  OneTouches(pipe) /\ AllFit(pipe, selected, messages)
    <2>1. ~ crossed /\ ~ P!Overlaps(r, net)
      BY <1>1, <1>6
    <2>2. OneTouches(net) /\ AllFit(net, selected, messages)
      BY <1>6, <2>1 DEF ThreadOK
    <2>3. ~ P!TouchesThread(r) \/ NoneTouches(net)
      BY <2>1 DEF P!Overlaps, NoneTouches
    <2>4. OneTouches(pipe)
      BY <1>3, <2>2, <2>3
    <2>5. AllFit(pipe, selected, messages)
      BY <1>3, <2>2 DEF AllFit
    <2> QED
      BY <2>4, <2>5
  <1>7. ASSUME selected # P!NoConversation, ~ crossed'
        PROVE  AllHeld(server, selected.id, messages) /\ P!Ordered(messages)
    BY <1>1, <1>7 DEF ThreadOK
  <1>8. ThreadOK'
    <2>1. selected # P!NoConversation /\ ~ crossed' =>
            /\ AllHeld(server, selected.id, messages) /\ P!Ordered(messages)
            /\ OneTouches(net') /\ AllFit(net', selected, messages)
      BY <1>2, <1>6, <1>7
    <2> QED
      BY <2>1 DEF ThreadOK
  <1>9. PipeOK(net', server') /\ Len(net') <= MaxRequests
    BY <1>2, <1>4, <1>5
  <1>10. \E k \in DOMAIN net' : net'[k] = r
    BY <1>2, <1>3
  <1>11. \A k \in DOMAIN net : k \in DOMAIN net' /\ net'[k] = net[k]
    BY <1>2, <1>3
  <1> QED
    BY <1>8, <1>9, <1>10, <1>11

\* What is said while nothing of the panel changes but an answer.
LEMMA ThreadLasts ==
  ASSUME ThreadOK, ServerOK, IsShown(selected, server), Extends(server, server'),
         UNCHANGED <<selected, messages, crossed, net>>
  PROVE  ThreadOK'
  <1>1. ASSUME selected # P!NoConversation, ~ crossed
        PROVE  AllHeld(server', selected.id, messages)
    <2>1. selected.id \in DOMAIN server /\ AllHeld(server, selected.id, messages)
      BY <1>1, SelectedIsKept DEF ThreadOK
    <2> QED
      BY <2>1 DEF AllHeld, Extends
  <1>2. selected # P!NoConversation /\ ~ crossed =>
          /\ AllHeld(server', selected.id, messages) /\ P!Ordered(messages)
          /\ OneTouches(net) /\ AllFit(net, selected, messages)
    BY <1>1 DEF ThreadOK
  <1> QED
    BY <1>2 DEF ThreadOK

\* A conversation is selected.
LEMMA SelectCases ==
  ASSUME NEW pipe, NEW conversation, P!Select(pipe, conversation)
  PROVE  /\ selected' = conversation
         /\ \/ /\ conversation = P!NoConversation /\ net' = pipe
               /\ UNCHANGED <<messages, loadingMessages, messagesError, crossed>>
            \/ /\ conversation # P!NoConversation
               /\ messages' = <<>> /\ loadingMessages' = TRUE /\ messagesError' = FALSE
               /\ net' = Append(pipe, P!MessagesRequest(conversation.id, -1, FALSE))
               /\ crossed' = P!Overlaps(P!MessagesRequest(conversation.id, -1, FALSE), pipe)
  BY DEF P!Select

LEMMA MessagesRequestOK ==
  ASSUME NEW rows, NEW c \in DOMAIN rows, NEW before \in Nat \cup {-1}, NEW older,
         NEW r, r = P!MessagesRequest(c, before, older)
  PROVE  /\ CallOK(r, rows) /\ P!TouchesThread(r) /\ r.op = "messages" /\ r.conv = c
         /\ r.before = before /\ r.answer.status # "ok"
  BY DEF P!MessagesRequest, CallOK, Shape, ReplyOK, P!TouchesThread, P!Pending

LEMMA SelectKeeps ==
  ASSUME P!PanelConstants,
         PanelInv, NEW i \in DOMAIN net, net[i].op # "messages", NEW conversation,
         IsShown(conversation, server), P!Select(P!RemoveAt(net, i), conversation), UNCHANGED server
  PROVE  /\ IsShown(selected', server') /\ messages' \in Seq(P!Messages)
         /\ PipeOK(net', server') /\ Len(net') <= MaxRequests /\ LoadingOK' /\ ThreadOK'
         /\ loadingMessages' \in BOOLEAN /\ messagesError' \in BOOLEAN /\ crossed' \in BOOLEAN
  <1>1. PICK pipe : pipe = P!RemoveAt(net, i)
    OBVIOUS
  <1>2. IsSeq(net) /\ PipeOK(net, server) /\ Len(net) \in Nat /\ Len(net) <= MaxRequests
    BY Indices DEF PanelInv, PipeOK
  <1>3. IsSeq(pipe) /\ Len(pipe) = Len(net) - 1 /\ Left(pipe, net, i) /\ PipeOK(pipe, server)
    BY <1>1, <1>2, Pruned, PrunedOK
  <1>4. selected' = conversation
    BY SelectCases
  <1>5. CASE /\ conversation = P!NoConversation /\ net' = pipe
             /\ UNCHANGED <<messages, loadingMessages, messagesError, crossed>>
    <2>1. messages' \in Seq(P!Messages) /\ IsShown(selected', server')
      BY <1>4, <1>5 DEF PanelInv
    <2>2. PipeOK(net', server') /\ Len(net') <= MaxRequests
      BY <1>2, <1>3, <1>5, PanelNumbers
    <2>3. LoadingOK'
      <3>1. loadingMessages => \E k \in DOMAIN pipe : pipe[k].op = "messages"
        BY <1>3 DEF PanelInv, LoadingOK, Left
      <3> QED
        BY <1>5, <3>1 DEF LoadingOK
    <2>4. ThreadOK'
      BY <1>4, <1>5 DEF ThreadOK, P!NoConversation
    <2>5. loadingMessages' \in BOOLEAN /\ messagesError' \in BOOLEAN /\ crossed' \in BOOLEAN
      BY <1>5 DEF PanelInv, FlagsOK
    <2> QED
      BY <2>1, <2>2, <2>3, <2>4, <2>5
  <1>6. CASE /\ conversation # P!NoConversation
             /\ messages' = <<>> /\ loadingMessages' = TRUE /\ messagesError' = FALSE
             /\ net' = Append(pipe, P!MessagesRequest(conversation.id, -1, FALSE))
             /\ crossed' = P!Overlaps(P!MessagesRequest(conversation.id, -1, FALSE), pipe)
    <2>1. PICK r : r = P!MessagesRequest(conversation.id, -1, FALSE)
      OBVIOUS
    <2>2. conversation.id \in DOMAIN server
      <3>1. server \in Seq(P!Conversations)
        BY DEF PanelInv, ServerOK, RowsOK
      <3>2. Len(server) \in Nat /\ DOMAIN server = 1 .. Len(server)
        BY <3>1, LenProperties
      <3> QED
        BY <1>6, <3>2 DEF IsShown
    <2>3. /\ CallOK(r, server) /\ P!TouchesThread(r) /\ r.op = "messages"
          /\ r.conv = conversation.id /\ r.before = -1 /\ r.answer.status # "ok"
      <3>1. PICK c : c = conversation.id
        OBVIOUS
      <3>2. c \in DOMAIN server /\ r = P!MessagesRequest(c, -1, FALSE)
        BY <2>1, <2>2, <3>1
      <3> QED
        BY <3>1, <3>2
        DEF P!MessagesRequest, CallOK, Shape, ReplyOK, P!TouchesThread, P!Pending
    <2>4. PICK more : more = Append(pipe, r)
      OBVIOUS
    <2>5. IsSeq(more) /\ Len(more) = Len(pipe) + 1
      BY <1>3, <2>4, Issued
    <2>6. \A k \in DOMAIN more : more[k] = r \/ (k \in DOMAIN pipe /\ more[k] = pipe[k])
      BY <1>3, <2>4, Issued
    <2>7. \E k \in DOMAIN more : more[k] = r
      BY <1>3, <2>4, Issued
    <2>8. NoneTouches(pipe) => OneTouches(more)
      BY <1>3, <2>4, Issued
    <2>9. net' = more /\ crossed' = P!Overlaps(r, pipe)
      BY <1>6, <2>1, <2>4
    <2>10. messages' \in Seq(P!Messages) /\ IsShown(selected', server')
      BY <1>4, <1>6, EmptySeq
    <2>11. PipeOK(net', server') /\ Len(net') <= MaxRequests
      <3>1. PipeOK(more, server)
        BY <1>3, <2>3, <2>5, <2>6 DEF PipeOK
      <3>2. Len(more) <= MaxRequests
        BY <1>2, <1>3, <2>5, PanelNumbers
      <3> QED
        BY <2>9, <3>1, <3>2
    <2>12. LoadingOK'
      BY <2>3, <2>7, <2>9 DEF LoadingOK
    <2>13. ThreadOK'
      <3>1. ASSUME ~ crossed'
            PROVE  /\ AllHeld(server', conversation.id, <<>>) /\ P!Ordered(<<>>)
                   /\ OneTouches(more) /\ AllFit(more, conversation, <<>>)
        <4>1. NoneTouches(pipe)
          BY <2>3, <2>9, <3>1 DEF P!Overlaps, NoneTouches
        <4>2. AllFit(pipe, conversation, <<>>)
          BY <4>1, NoneFit
        <4>3. Fits(r, conversation, <<>>)
          BY <2>3 DEF Fits
        <4>4. AllFit(more, conversation, <<>>)
          BY <2>6, <4>2, <4>3 DEF AllFit
        <4>5. AllHeld(server', conversation.id, <<>>) /\ P!Ordered(<<>>)
          BY DEF AllHeld, P!Ordered
        <4> QED
          BY <2>8, <4>1, <4>4, <4>5
      <3> QED
        BY <1>4, <1>6, <2>9, <3>1 DEF ThreadOK
    <2>14. loadingMessages' \in BOOLEAN /\ messagesError' \in BOOLEAN
      BY <1>6
    <2>15. crossed' \in BOOLEAN
      BY <2>9 DEF P!Overlaps
    <2> QED
      BY <2>10, <2>11, <2>12, <2>13, <2>14, <2>15
  <1>7. \/ /\ conversation = P!NoConversation /\ net' = pipe
           /\ UNCHANGED <<messages, loadingMessages, messagesError, crossed>>
        \/ /\ conversation # P!NoConversation
           /\ messages' = <<>> /\ loadingMessages' = TRUE /\ messagesError' = FALSE
           /\ net' = Append(pipe, P!MessagesRequest(conversation.id, -1, FALSE))
           /\ crossed' = P!Overlaps(P!MessagesRequest(conversation.id, -1, FALSE), pipe)
    <2>1. P!Select(pipe, conversation)
      BY <1>1
    <2> QED
      BY <2>1, SelectCases
  <1> QED
    BY <1>5, <1>6, <1>7

\* An older window in front of the messages shown.
LEMMA Joined ==
  ASSUME NEW a \in Seq(P!Messages), NEW b \in Seq(P!Messages), P!Ordered(a), P!Ordered(b),
         b # <<>>, \A i \in DOMAIN a : a[i].at < b[1].at, NEW all, all = a \o b
  PROVE  /\ P!Ordered(all)
         /\ \A i \in DOMAIN all : (\E j \in DOMAIN a : all[i] = a[j])
                                  \/ (\E j \in DOMAIN b : all[i] = b[j])
  <1>1. /\ Len(a) \in Nat /\ DOMAIN a = 1 .. Len(a) /\ \A i \in DOMAIN a : a[i] \in P!Messages
        /\ Len(b) \in Nat \ {0} /\ DOMAIN b = 1 .. Len(b) /\ \A i \in DOMAIN b : b[i] \in P!Messages
    BY LenProperties, EmptySeq
  <1>2. /\ all \in Seq(P!Messages) /\ Len(all) = Len(a) + Len(b)
        /\ \A i \in 1 .. Len(a) + Len(b) : all[i] = IF i <= Len(a) THEN a[i] ELSE b[i - Len(a)]
    BY ConcatProperties
  <1>3. DOMAIN all = 1 .. Len(a) + Len(b)
    BY <1>2, LenProperties
  <1>4. \A i \in DOMAIN a : a[i].at \in Nat
    BY <1>1 DEF P!Messages
  <1>5. \A i \in DOMAIN b : b[i].at \in Nat
    BY <1>1 DEF P!Messages
  <1>6. ASSUME NEW i \in DOMAIN all, i <= Len(a) PROVE i \in DOMAIN a /\ all[i] = a[i]
    BY <1>1, <1>2, <1>3, <1>6
  <1>7. ASSUME NEW i \in DOMAIN all, i > Len(a)
        PROVE  i - Len(a) \in DOMAIN b /\ all[i] = b[i - Len(a)]
    BY <1>1, <1>2, <1>3, <1>7
  <1>8. 1 \in DOMAIN b /\ \A j \in DOMAIN b : b[1].at <= b[j].at
    <2>1. 1 \in DOMAIN b
      BY <1>1
    <2>2. ASSUME NEW j \in DOMAIN b PROVE b[1].at <= b[j].at
      <3>1. CASE j = 1
        BY <1>5, <2>1, <3>1
      <3>2. CASE j # 1
        <4>1. 1 < j
          BY <1>1, <3>2
        <4>2. b[1].at < b[j].at
          BY <2>1, <4>1 DEF P!Ordered
        <4> QED
          BY <1>5, <2>1, <4>2
      <3> QED
        BY <3>1, <3>2
    <2> QED
      BY <2>1, <2>2
  <1>9. ASSUME NEW i \in DOMAIN all, NEW j \in DOMAIN all, i < j
        PROVE  all[i].at < all[j].at
    <2>1. i \in Nat /\ j \in Nat
      BY <1>1, <1>3
    <2>2. CASE j <= Len(a)
      <3>1. i <= Len(a)
        BY <1>1, <1>9, <2>1, <2>2
      <3> QED
        BY <1>6, <1>9, <2>2, <3>1 DEF P!Ordered
    <2>3. CASE i > Len(a)
      <3>1. j > Len(a) /\ i - Len(a) < j - Len(a)
        BY <1>1, <1>9, <2>1, <2>3
      <3> QED
        BY <1>7, <2>3, <3>1 DEF P!Ordered
    <2>4. CASE i <= Len(a) /\ j > Len(a)
      <3>1. all[i] = a[i] /\ i \in DOMAIN a /\ a[i].at < b[1].at
        BY <1>6, <2>4
      <3>2. PICK k : k = j - Len(a)
        OBVIOUS
      <3>3. k \in DOMAIN b /\ all[j] = b[k] /\ b[1].at <= b[k].at
        BY <1>7, <1>8, <2>4, <3>2
      <3> QED
        BY <1>4, <1>5, <1>8, <3>1, <3>3
    <2> QED
      BY <1>1, <2>1, <2>2, <2>3, <2>4
  <1>10. P!Ordered(all)
    BY <1>9 DEF P!Ordered
  <1>11. ASSUME NEW i \in DOMAIN all
         PROVE  (\E j \in DOMAIN a : all[i] = a[j]) \/ (\E j \in DOMAIN b : all[i] = b[j])
    <2>1. CASE i <= Len(a)
      BY <1>6, <2>1
    <2>2. CASE i > Len(a)
      BY <1>7, <2>2
    <2> QED
      BY <1>1, <1>3, <2>1, <2>2
  <1> QED
    BY <1>10, <1>11

-----------------------------------------------------------------------------
\* The API answers a request, or something happens that the panel does not see.
LEMMA AnsweredKeeps ==
  ASSUME PanelInv, NEW i \in DOMAIN net, NEW answer, P!Answered(i, answer), P!ClientUnchanged,
         Grows(server, server'), ServerOK', ReplyOK(net[i], answer, server'),
         selected # P!NoConversation /\ ~ crossed /\ net[i].op = "send" /\ answer.status = "ok"
           => \A k \in DOMAIN messages : messages[k].at < answer.data.at
  PROVE  PanelInv'
  <1>1. PICK r : r = net[i]
    OBVIOUS
  <1>2. PICK pipe : pipe = net'
    OBVIOUS
  <1>3. PICK s : s = [r EXCEPT !.answer = answer]
    OBVIOUS
  <1>4. pipe = [net EXCEPT ![i] = s]
    BY <1>1, <1>2, <1>3 DEF P!Answered
  <1>5. IsSeq(net) /\ PipeOK(net, server') /\ Len(net) <= MaxRequests
    BY RequestsLast DEF PanelInv, PipeOK, Grows
  <1>6. /\ IsSeq(pipe) /\ Len(pipe) = Len(net) /\ DOMAIN pipe = DOMAIN net
        /\ pipe[i] = s /\ \A k \in DOMAIN net : k # i => pipe[k] = net[k]
    <2>1. pipe = [k \in DOMAIN net |-> pipe[k]]
      BY <1>4
    <2>2. IsSeq(pipe) /\ Len(pipe) = Len(net) /\ DOMAIN pipe = DOMAIN net
      BY <1>5, <2>1, Replaced
    <2>3. IsSeq(net) /\ net = [k \in DOMAIN net |-> net[k]]
      BY <1>5, Indices
    <2>4. pipe[i] = s /\ \A k \in DOMAIN net : k # i => pipe[k] = net[k]
      BY <1>4, <2>3
    <2> QED
      BY <2>2, <2>4
  <1>7. CallOK(r, server')
    BY <1>1, <1>5 DEF PipeOK
  <1>8. /\ Shape(s) /\ s.op = r.op /\ s.answer = answer
        /\ r.op \in {"messages", "send", "close"} => s.conv = r.conv
        /\ r.op = "messages" => s.before = r.before
    BY <1>3, <1>7 DEF CallOK, Shape
  <1>9. ReplyOK(s, answer, server')
    BY <1>1, <1>8 DEF ReplyOK
  <1>10. CallOK(s, server')
    BY <1>7, <1>8, <1>9 DEF CallOK
  <1>11. PipeOK(pipe, server')
    BY <1>5, <1>6, <1>10 DEF PipeOK
  <1>12. LoadingOK'
    <2>1. loadingMessages => \E k \in DOMAIN pipe : pipe[k].op = "messages"
      BY <1>1, <1>6, <1>8 DEF PanelInv, LoadingOK
    <2> QED
      BY <1>2, <2>1 DEF LoadingOK, P!ClientUnchanged
  <1>13. ASSUME selected # P!NoConversation, ~ crossed
         PROVE  /\ AllHeld(server', selected.id, messages) /\ P!Ordered(messages)
                /\ OneTouches(pipe) /\ AllFit(pipe, selected, messages)
    <2>1. /\ AllHeld(server, selected.id, messages) /\ P!Ordered(messages)
          /\ OneTouches(net) /\ AllFit(net, selected, messages)
      BY <1>13 DEF PanelInv, ThreadOK
    <2>2. selected.id \in DOMAIN server
      BY <1>13, SelectedIsKept DEF PanelInv
    <2>3. AllHeld(server', selected.id, messages)
      BY <2>1, <2>2 DEF AllHeld, Grows, Extends
    <2>4. P!TouchesThread(s) <=> P!TouchesThread(r)
      BY <1>8 DEF P!TouchesThread
    <2>5. \A k \in DOMAIN pipe : P!TouchesThread(pipe[k]) <=> P!TouchesThread(net[k])
      BY <1>1, <1>6, <2>4
    <2>6. OneTouches(pipe)
      BY <1>6, <2>1, <2>5 DEF OneTouches
    <2>7. Fits(r, selected, messages)
      BY <1>1, <2>1 DEF AllFit
    <2>8. Fits(s, selected, messages)
      BY <1>1, <1>8, <1>13, <2>4, <2>7 DEF Fits, P!TouchesThread
    <2>9. AllFit(pipe, selected, messages)
      BY <1>6, <2>1, <2>8 DEF AllFit
    <2> QED
      BY <2>1, <2>3, <2>6, <2>9
  <1>14. ThreadOK'
    BY <1>2, <1>13 DEF ThreadOK, P!ClientUnchanged
  <1>15. IsShown(selected, server')
    BY ShownLasts DEF PanelInv
  <1>16. FlagsOK' /\ messages' \in Seq(P!Messages) /\ selected' = selected
    BY DEF PanelInv, FlagsOK, P!ClientUnchanged
  <1>17. PipeOK(net', server') /\ Len(net') <= MaxRequests
    BY <1>2, <1>5, <1>6, <1>11
  <1> QED
    BY <1>12, <1>14, <1>15, <1>16, <1>17 DEF PanelInv

LEMMA QuietKeeps ==
  ASSUME PanelInv, Grows(server, server'), ServerOK', UNCHANGED net, P!ClientUnchanged
  PROVE  PanelInv'
  <1>1. ThreadOK'
    BY ThreadLasts DEF PanelInv, P!ClientUnchanged, Grows
  <1>2. PipeOK(net, server')
    BY RequestsLast DEF PanelInv, Grows
  <1>3. IsShown(selected, server')
    BY ShownLasts DEF PanelInv
  <1>4. FlagsOK' /\ messages' \in Seq(P!Messages) /\ selected' = selected
    BY DEF PanelInv, FlagsOK, P!ClientUnchanged
  <1>5. LoadingOK'
    BY DEF PanelInv, LoadingOK, P!ClientUnchanged
  <1>6. PipeOK(net', server') /\ Len(net') <= MaxRequests
    BY <1>2 DEF PanelInv
  <1> QED
    BY <1>1, <1>3, <1>4, <1>5, <1>6 DEF PanelInv

LEMMA CountsRows ==
  ASSUME NEW rows, NEW time, RowsOK(rows, time)
  PROVE  Len(rows) \in Nat /\ DOMAIN rows = 1 .. Len(rows)
  <1>1. rows \in Seq(P!Conversations)
    BY DEF RowsOK
  <1> QED
    BY <1>1, LenProperties

LEMMA ServeListKeeps ==
  ASSUME P!PanelConstants, PanelInv, NEW i \in DOMAIN net, P!ServeList(i), P!ClientUnchanged
  PROVE  PanelInv'
  <1>1. PICK found \in P!Reads(DOMAIN server) :
          server' = found.rows /\ now' = found.at /\ P!Answered(i, P!Ok(P!Preferred(found.rows)))
    BY DEF P!ServeList
  <1>2. ServerOK /\ RowsOK(server, now)
    BY DEF PanelInv, ServerOK
  <1>3. /\ RowsOK(found.rows, found.at) /\ found.at \in StartTime .. MaxTime
        /\ Extends(server, found.rows) /\ Len(found.rows) = Len(server)
    BY <1>2, ReadingKeeps DEF ServerOK
  <1>4. ServerOK' /\ Grows(server, server')
    BY <1>1, <1>2, <1>3, CountsRows DEF ServerOK, Grows
  <1>5. PICK answer : answer = P!Ok(P!Preferred(found.rows))
    OBVIOUS
  <1>6. IsShown(answer.data, server') /\ net[i].op = "list"
    BY <1>1, <1>3, <1>5, PreferredIsShown DEF P!Ok, P!ServeList, P!Waits
  <1>7. ReplyOK(net[i], answer, server')
    BY <1>6 DEF ReplyOK
  <1>8. P!Answered(i, answer)
    BY <1>1, <1>5
  <1> QED
    BY <1>4, <1>6, <1>7, <1>8, AnsweredKeeps

LEMMA ServeMessagesKeeps ==
  ASSUME P!PanelConstants,
         PanelInv, NEW i \in DOMAIN net, P!ServeMessages(i), P!ClientUnchanged
  PROVE  PanelInv'
  <1>1. net[i].op = "messages" /\ CallOK(net[i], server)
    BY DEF P!ServeMessages, P!Waits, PanelInv, PipeOK
  <1>2. net[i].conv \in DOMAIN server /\ net[i].before \in Nat \cup {-1}
    BY <1>1 DEF CallOK
  <1>3. PICK found \in P!Reads({net[i].conv}) :
          /\ server' = found.rows /\ now' = found.at
          /\ P!Answered(i, P!Ok(P!Window(found.rows[net[i].conv].thread, found.at, net[i].before)))
    BY DEF P!ServeMessages
  <1>4. ServerOK /\ RowsOK(server, now)
    BY DEF PanelInv, ServerOK
  <1>5. /\ RowsOK(found.rows, found.at) /\ found.at \in StartTime .. MaxTime
        /\ Extends(server, found.rows) /\ Len(found.rows) = Len(server)
    BY <1>2, <1>4, ReadingKeeps DEF ServerOK
  <1>6. ServerOK' /\ Grows(server, server')
    BY <1>3, <1>4, <1>5, CountsRows DEF ServerOK, Grows
  <1>7. PICK c : c = net[i].conv
    OBVIOUS
  <1>8. PICK before : before = net[i].before
    OBVIOUS
  <1>9. PICK window : window = P!Window(found.rows[c].thread, found.at, before)
    OBVIOUS
  <1>10. PICK rows : rows = found.rows
    OBVIOUS
  <1>11. c \in DOMAIN rows /\ found.at \in Nat /\ RowsOK(rows, found.at) /\ before \in Nat \cup {-1}
    BY <1>2, <1>5, <1>7, <1>8, <1>10, PanelNumbers DEF Extends
  <1>12. PICK items : items = P!Window(rows[c].thread, found.at, before).items
    OBVIOUS
  <1>13. items \in Seq(P!Messages) /\ P!Ordered(items)
    BY <1>11, <1>12, WindowHolds
  <1>14. \A k \in DOMAIN items : Holds(rows, c, items[k])
    BY <1>11, <1>12, WindowHolds
  <1>15. before # -1 => \A k \in DOMAIN items : items[k].at < before
    BY <1>11, <1>12, WindowHolds
  <1>16. window.items = items /\ window.has_older \in BOOLEAN
    BY <1>9, <1>10, <1>12 DEF P!Window
  <1>17. WindowOK(window, c, before, rows)
    BY <1>13, <1>14, <1>15, <1>16 DEF WindowOK
  <1>18. PICK answer : answer = P!Ok(window)
    OBVIOUS
  <1>19. ReplyOK(net[i], answer, server')
    BY <1>1, <1>3, <1>7, <1>8, <1>10, <1>17, <1>18 DEF ReplyOK, P!Ok
  <1>20. P!Answered(i, answer)
    BY <1>3, <1>7, <1>8, <1>9, <1>18
  <1> QED
    BY <1>1, <1>6, <1>19, <1>20, AnsweredKeeps

LEMMA ServeSendKeeps ==
  ASSUME P!PanelConstants, PanelInv, NEW i \in DOMAIN net, P!ServeSend(i), P!ClientUnchanged
  PROVE  PanelInv'
  <1>1. /\ net[i].op = "send" /\ CallOK(net[i], server) /\ ServerOK /\ RowsOK(server, now)
        /\ viewer \in {"buyer", "seller"}
    BY DEF P!ServeSend, P!Waits, PanelInv, PipeOK, ServerOK, FlagsOK
  <1>2. PICK c : c = net[i].conv
    OBVIOUS
  <1>3. c \in DOMAIN server /\ now \in Nat
    BY <1>1, <1>2, PanelNumbers DEF CallOK, ServerOK
  <1>4. CASE /\ now < MaxTime /\ now' = now + 1 /\ server' = P!Said(net[i].conv, viewer)
             /\ P!Answered(i, P!Ok([at |-> now, by |-> viewer]))
    <2>1. PICK m : m = [at |-> now, by |-> viewer]
      OBVIOUS
    <2>2. PICK answer : answer = P!Ok(m)
      OBVIOUS
    <2>3. /\ RowsOK(P!Said(c, viewer), now + 1) /\ Extends(server, P!Said(c, viewer))
          /\ Holds(P!Said(c, viewer), c, m) /\ Len(P!Said(c, viewer)) = Len(server)
      BY <1>1, <1>3, <2>1, SayingKeeps
    <2>4. server' = P!Said(c, viewer)
      BY <1>2, <1>4
    <2>5. ServerOK' /\ Grows(server, server')
      BY <1>1, <1>3, <1>4, <2>3, <2>4, CountsRows, PanelNumbers DEF ServerOK, Grows
    <2>6. m \in P!Messages /\ m.at = now /\ answer.status = "ok" /\ answer.data = m
      BY <1>1, <1>3, <2>1, <2>2 DEF P!Messages, P!Ok
    <2>7. ReplyOK(net[i], answer, server')
      BY <1>1, <1>2, <2>3, <2>4, <2>6 DEF ReplyOK
    <2>8. ASSUME selected # P!NoConversation, ~ crossed, NEW k \in DOMAIN messages
          PROVE  messages[k].at < answer.data.at
      <3>1. Holds(server, selected.id, messages[k]) /\ selected.id \in DOMAIN server
        BY <2>8, SelectedIsKept DEF PanelInv, ThreadOK, AllHeld
      <3> QED
        BY <1>1, <2>6, <3>1 DEF Holds, RowsOK
    <2>9. P!Answered(i, answer)
      BY <1>4, <2>1, <2>2
    <2> QED
      BY <2>5, <2>7, <2>8, <2>9, AnsweredKeeps
  <1>5. CASE P!Answered(i, P!Refused) /\ UNCHANGED <<server, now>>
    <2>1. ServerOK' /\ Grows(server, server')
      BY <1>1, <1>5, SelfExtends, CountsRows DEF ServerOK, Grows
    <2>2. P!Refused.status # "ok"
      BY DEF P!Refused
    <2>3. ReplyOK(net[i], P!Refused, server')
      BY <2>2 DEF ReplyOK
    <2> QED
      BY <1>5, <2>1, <2>2, <2>3, AnsweredKeeps
  <1> QED
    BY <1>4, <1>5 DEF P!ServeSend

LEMMA ServeCloseKeeps ==
  ASSUME PanelInv, NEW i \in DOMAIN net, P!ServeClose(i), P!ClientUnchanged
  PROVE  PanelInv'
  <1>1. /\ net[i].op = "close" /\ CallOK(net[i], server) /\ ServerOK /\ RowsOK(server, now)
        /\ now' = now
    BY DEF P!ServeClose, P!Waits, PanelInv, PipeOK, ServerOK
  <1>2. PICK c : c = net[i].conv
    OBVIOUS
  <1>3. c \in DOMAIN server /\ Len(server) \in Nat /\ DOMAIN server = 1 .. Len(server)
    BY <1>1, <1>2, CountsRows DEF CallOK
  <1>4. CASE /\ server' = [server EXCEPT ![net[i].conv].status = "closed"]
             /\ P!Answered(i, P!Ok([id |-> net[i].conv, status |-> "closed"]))
    <2>1. PICK more : more = server'
      OBVIOUS
    <2>2. more = [server EXCEPT ![c].status = "closed"]
      BY <1>2, <1>4, <2>1
    <2>3. RowsOK(more, now)
      BY <1>1, <1>3, <2>2, ClosingKeeps
    <2>4. Extends(server, more)
      BY <1>1, <1>3, <2>2, ClosingKeeps
    <2>5. Len(more) = Len(server)
      BY <1>1, <1>3, <2>2, ClosingKeeps
    <2>6. ServerOK' /\ Grows(server, server')
      BY <1>1, <1>3, <2>1, <2>3, <2>4, <2>5 DEF ServerOK, Grows
    <2>7. PICK answer : answer = P!Ok([id |-> c, status |-> "closed"])
      OBVIOUS
    <2>8. IsShown(answer.data, server')
      BY <1>3, <2>1, <2>5, <2>7 DEF P!Ok, IsShown
    <2>9. ReplyOK(net[i], answer, server')
      BY <1>1, <2>8 DEF ReplyOK
    <2>10. P!Answered(i, answer)
      BY <1>2, <1>4, <2>7
    <2> QED
      BY <1>1, <2>6, <2>9, <2>10, AnsweredKeeps
  <1>5. CASE P!Answered(i, P!Refused) /\ UNCHANGED server
    <2>1. ServerOK' /\ Grows(server, server')
      BY <1>1, <1>3, <1>5, SelfExtends DEF ServerOK, Grows
    <2>2. P!Refused.status # "ok"
      BY DEF P!Refused
    <2>3. ReplyOK(net[i], P!Refused, server')
      BY <2>2 DEF ReplyOK
    <2> QED
      BY <1>5, <2>1, <2>2, <2>3, AnsweredKeeps
  <1> QED
    BY <1>4, <1>5 DEF P!ServeClose

\* The open conversation is reused, or one is opened.
LEMMA OpenCases ==
  ASSUME NEW i, P!ServeOpen(i)
  PROVE  \/ P!Open # {} /\ P!Answered(i, P!Ok(P!Preferred(server))) /\ UNCHANGED <<server, now>>
         \/ /\ P!Open = {} /\ now < MaxTime /\ now' = now + 1
            /\ server' = Append(server, [status |-> "open", opened |-> now, thread |-> <<>>])
            /\ P!Answered(i, P!Ok([id |-> Len(server) + 1, status |-> "open"]))
  BY DEF P!ServeOpen

LEMMA ServeOpenKeeps ==
  ASSUME P!PanelConstants, PanelInv, NEW i \in DOMAIN net, P!ServeOpen(i), P!ClientUnchanged
  PROVE  PanelInv'
  <1>1. net[i].op = "open" /\ ServerOK /\ RowsOK(server, now) /\ now \in Nat
    BY PanelNumbers DEF P!ServeOpen, P!Waits, PanelInv, ServerOK
  <1>2. Len(server) \in Nat /\ DOMAIN server = 1 .. Len(server)
    BY <1>1, CountsRows
  <1>3. CASE P!Answered(i, P!Ok(P!Preferred(server))) /\ UNCHANGED <<server, now>>
    <2>1. ServerOK' /\ Grows(server, server')
      BY <1>1, <1>2, <1>3, SelfExtends DEF ServerOK, Grows
    <2>2. PICK answer : answer = P!Ok(P!Preferred(server))
      OBVIOUS
    <2>3. IsShown(answer.data, server')
      BY <1>1, <1>3, <2>2, PreferredIsShown DEF P!Ok
    <2>4. ReplyOK(net[i], answer, server')
      BY <1>1, <2>3 DEF ReplyOK
    <2>5. P!Answered(i, answer)
      BY <1>3, <2>2
    <2> QED
      BY <1>1, <2>1, <2>4, <2>5, AnsweredKeeps
  <1>4. CASE /\ P!Open = {} /\ now < MaxTime /\ now' = now + 1
             /\ server' = Append(server, [status |-> "open", opened |-> now, thread |-> <<>>])
             /\ P!Answered(i, P!Ok([id |-> Len(server) + 1, status |-> "open"]))
    <2>1. PICK more : more = server'
      OBVIOUS
    <2>2. more = Append(server, [status |-> "open", opened |-> now, thread |-> <<>>])
      BY <1>4, <2>1
    <2>3. \A c \in DOMAIN server : server[c].status # "open"
      BY <1>4 DEF P!Open
    <2>4. RowsOK(more, now + 1)
      BY <1>1, <2>2, <2>3, OpeningKeeps
    <2>5. Extends(server, more)
      BY <1>1, <2>2, <2>3, OpeningKeeps
    <2>6. Len(more) = Len(server) + 1
      BY <1>1, <2>2, <2>3, OpeningKeeps
    <2>7. ServerOK' /\ Grows(server, server')
      BY <1>1, <1>2, <1>4, <2>1, <2>4, <2>5, <2>6, PanelNumbers DEF ServerOK, Grows
    <2>8. PICK answer : answer = P!Ok([id |-> Len(server) + 1, status |-> "open"])
      OBVIOUS
    <2>9. IsShown(answer.data, server')
      BY <1>2, <2>1, <2>6, <2>8 DEF P!Ok, IsShown
    <2>10. ReplyOK(net[i], answer, server')
      BY <1>1, <2>9 DEF ReplyOK
    <2>11. P!Answered(i, answer)
      BY <1>4, <2>8
    <2> QED
      BY <1>1, <2>7, <2>10, <2>11, AnsweredKeeps
  <1> QED
    BY <1>3, <1>4, OpenCases

\* The rest of the world.
LEMMA ElsewhereKeeps ==
  ASSUME P!PanelConstants, PanelInv,
         P!Tick \/ \E c \in DOMAIN server : P!OtherWrites(c) \/ P!OtherCloses(c) \/ P!Expires(c)
  PROVE  PanelInv'
  <1>1. ServerOK /\ RowsOK(server, now) /\ now \in Nat
    BY PanelNumbers DEF PanelInv, ServerOK
  <1>2. Len(server) \in Nat /\ DOMAIN server = 1 .. Len(server)
    BY <1>1, CountsRows
  <1>3. PICK more : more = server'
    OBVIOUS
  <1>4. CASE P!Tick
    <2>1. UNCHANGED <<server, net>> /\ P!ClientUnchanged /\ now < MaxTime /\ now' = now + 1
      BY <1>4 DEF P!Tick, P!Elsewhere
    <2>2. RowsOK(server, now + 1)
      <3>1. ASSUME NEW c \in DOMAIN server, NEW k \in DOMAIN server[c].thread
            PROVE  server[c].thread[k].at < now + 1
        <4>1. server[c].thread[k].at < now /\ server[c].thread[k].at \in Nat
          BY <1>1, OfRows DEF RowsOK, P!Messages
        <4> QED
          BY <1>1, <4>1
      <3> QED
        BY <1>1, <3>1 DEF RowsOK
    <2>3. ServerOK' /\ Grows(server, server')
      BY <1>1, <1>2, <2>1, <2>2, SelfExtends, PanelNumbers DEF ServerOK, Grows
    <2> QED
      BY <2>1, <2>3, QuietKeeps
  <1>5. ASSUME NEW c \in DOMAIN server, P!OtherWrites(c)
        PROVE  PanelInv'
    <2>1. /\ more = P!Said(c, "other") /\ now < MaxTime /\ now' = now + 1
          /\ UNCHANGED net /\ P!ClientUnchanged
      BY <1>3, <1>5 DEF P!OtherWrites, P!Elsewhere
    <2>2. RowsOK(more, now + 1) /\ Extends(server, more) /\ Len(more) = Len(server)
      BY <1>1, <2>1, SayingKeeps
    <2>3. ServerOK' /\ Grows(server, server')
      BY <1>1, <1>2, <1>3, <2>1, <2>2, PanelNumbers DEF ServerOK, Grows
    <2> QED
      BY <2>1, <2>3, QuietKeeps
  <1>6. ASSUME NEW c \in DOMAIN server, P!OtherCloses(c)
        PROVE  PanelInv'
    <2>1. /\ more = [server EXCEPT ![c].status = "closed"] /\ now' = now
          /\ UNCHANGED net /\ P!ClientUnchanged
      BY <1>3, <1>6 DEF P!OtherCloses, P!Elsewhere
    <2>2. RowsOK(more, now)
      BY <1>1, <2>1, ClosingKeeps
    <2>3. Extends(server, more)
      BY <1>1, <2>1, ClosingKeeps
    <2>4. Len(more) = Len(server)
      BY <1>1, <2>1, ClosingKeeps
    <2>5. ServerOK' /\ Grows(server, server')
      BY <1>1, <1>2, <1>3, <2>1, <2>2, <2>3, <2>4 DEF ServerOK, Grows
    <2> QED
      BY <2>1, <2>5, QuietKeeps
  <1>7. ASSUME NEW c \in DOMAIN server, P!Expires(c)
        PROVE  PanelInv'
    <2>1. /\ more = P!Expired(c) /\ now < MaxTime /\ now' = now + 1
          /\ UNCHANGED net /\ P!ClientUnchanged
      BY <1>3, <1>7 DEF P!Expires, P!Elsewhere
    <2>2. RowsOK(more, now + 1) /\ Extends(server, more) /\ Len(more) = Len(server)
      BY <1>1, <2>1, ExpiringKeeps
    <2>3. ServerOK' /\ Grows(server, server')
      BY <1>1, <1>2, <1>3, <2>1, <2>2, PanelNumbers DEF ServerOK, Grows
    <2> QED
      BY <2>1, <2>3, QuietKeeps
  <1> QED
    BY <1>4, <1>5, <1>6, <1>7

-----------------------------------------------------------------------------
\* The clicks.
ClicksOK ==
  /\ PipeOK(net', server') /\ Len(net') <= MaxRequests /\ ThreadOK'
  /\ LoadingOK' /\ ServerOK' /\ IsShown(selected', server') /\ messages' \in Seq(P!Messages)
  /\ crossed' \in BOOLEAN /\ viewer' = viewer /\ hasOlder' = hasOlder

LEMMA ClickKeeps ==
  ASSUME P!PanelConstants,
         PanelInv, P!Click, NEW r, CallOK(r, server), Fits(r, selected, messages), P!Issue(r),
         loadingMessages' = loadingMessages \/ r.op = "messages"
  PROVE  ClicksOK
  <1>1. /\ Len(net) < MaxRequests
        /\ UNCHANGED <<viewer, server, now, selected, messages, hasOlder>>
    BY DEF P!Click
  <1>2. PipeOK(net, server) /\ ThreadOK
    BY DEF PanelInv
  <1>3. PipeOK(net', server') /\ Len(net') <= MaxRequests
    BY <1>1, <1>2, IssueKeeps
  <1>4. ThreadOK'
    BY <1>1, <1>2, IssueKeeps
  <1>5. \E k \in DOMAIN net' : net'[k] = r
    BY <1>1, <1>2, IssueKeeps
  <1>6. \A k \in DOMAIN net : k \in DOMAIN net' /\ net'[k] = net[k]
    BY <1>1, <1>2, IssueKeeps
  <1>7. LoadingOK'
    BY <1>5, <1>6 DEF PanelInv, LoadingOK
  <1>8. ServerOK' /\ IsShown(selected', server') /\ messages' \in Seq(P!Messages)
    BY <1>1 DEF PanelInv, ServerOK
  <1>9. crossed' \in BOOLEAN
    BY DEF P!Issue
  <1> QED
    BY <1>1, <1>3, <1>4, <1>7, <1>8, <1>9 DEF ClicksOK

LEMMA ClickedKeeps ==
  ASSUME PanelInv, ClicksOK, listing' \in {"loading", "error", "loaded"},
         loadingMessages' \in BOOLEAN, messagesError' \in BOOLEAN, opening' \in BOOLEAN,
         sending' \in BOOLEAN, closing' \in BOOLEAN
  PROVE  PanelInv'
  <1>1. FlagsOK'
    BY DEF PanelInv, FlagsOK, ClicksOK
  <1> QED
    BY <1>1 DEF PanelInv, ClicksOK

LEMMA PanelFlags ==
  ASSUME PanelInv
  PROVE  /\ listing \in {"loading", "error", "loaded"} /\ hasOlder \in BOOLEAN
         /\ loadingMessages \in BOOLEAN /\ messagesError \in BOOLEAN /\ opening \in BOOLEAN
         /\ sending \in BOOLEAN /\ closing \in BOOLEAN /\ crossed \in BOOLEAN
  BY DEF PanelInv, FlagsOK

\* Requests that load no messages.
LEMMA PlainFits ==
  ASSUME NEW r, r \in {P!ListRequest, P!MutationRequest("open", 0)}, NEW rows, NEW c, NEW shown
  PROVE  CallOK(r, rows) /\ Fits(r, c, shown)
  BY DEF P!ListRequest, P!MutationRequest, CallOK, Shape, ReplyOK, Fits,
         P!TouchesThread, P!Pending

LEMMA ThreadFits ==
  ASSUME NEW op \in {"send", "close"}, NEW conversation, NEW r,
         r = P!MutationRequest(op, conversation.id), NEW rows, conversation.id \in DOMAIN rows,
         NEW shown
  PROVE  CallOK(r, rows) /\ Fits(r, conversation, shown)
  BY DEF P!MutationRequest, CallOK, Shape, ReplyOK, Fits,
         P!TouchesThread, P!Pending

LEMMA LoadKeeps ==
  ASSUME P!PanelConstants, PanelInv, P!Click, P!HasThread, NEW before, NEW older,
         before = -1 \/ (messages # <<>> /\ before = messages[1].at),
         P!LoadMessages(selected.id, before, older),
         UNCHANGED <<listing, opening, sending, closing>>
  PROVE  PanelInv'
  <1>1. PICK r : r = P!MessagesRequest(selected.id, before, older)
    OBVIOUS
  <1>2. selected.id \in DOMAIN server
    BY SelectedIsKept DEF PanelInv, P!HasThread
  <1>3. before \in Nat \cup {-1}
    <2>1. CASE messages # <<>> /\ before = messages[1].at
      <3>1. messages \in Seq(P!Messages)
        BY DEF PanelInv
      <3>2. messages[1] \in P!Messages
        BY <2>1, <3>1, EmptySeq, LenProperties
      <3> QED
        BY <2>1, <3>2 DEF P!Messages
    <2> QED
      BY <2>1
  <1>4. PICK c : c = selected.id
    OBVIOUS
  <1>5. /\ CallOK(r, server) /\ r.op = "messages" /\ r.conv = c /\ r.before = before
    BY <1>1, <1>2, <1>3, <1>4
    DEF P!MessagesRequest, CallOK, Shape, ReplyOK, P!Pending
  <1>6. Fits(r, selected, messages)
    BY <1>4, <1>5 DEF Fits
  <1>7. P!Issue(r) /\ loadingMessages' = TRUE /\ messagesError' = FALSE
    BY <1>1 DEF P!LoadMessages
  <1>8. ClicksOK
    BY <1>5, <1>6, <1>7, ClickKeeps
  <1> QED
    BY <1>7, <1>8, PanelFlags, ClickedKeeps

LEMMA ClicksKeep ==
  ASSUME P!PanelConstants, PanelInv,
         \/ P!RetryList \/ P!LoadOlder \/ P!RetryMessages
         \/ P!HandleOpenConversation \/ P!HandleSend \/ P!HandleClose
  PROVE  PanelInv'
  <1>1. CASE P!RetryList
    <2>1. CallOK(P!ListRequest, server) /\ Fits(P!ListRequest, selected, messages)
      BY PlainFits
    <2>2. ClicksOK
      BY <1>1, <2>1, ClickKeeps DEF P!RetryList
    <2> QED
      BY <1>1, <2>2, PanelFlags, ClickedKeeps DEF P!RetryList
  <1>2. CASE P!LoadOlder
    <2>1. PICK before : before = IF messages = <<>> THEN -1 ELSE messages[1].at
      OBVIOUS
    <2>2. P!LoadMessages(selected.id, before, TRUE)
      BY <1>2, <2>1 DEF P!LoadOlder
    <2>3. before = -1 \/ (messages # <<>> /\ before = messages[1].at)
      BY <2>1
    <2> QED
      BY <1>2, <2>2, <2>3, LoadKeeps DEF P!LoadOlder
  <1>3. CASE P!RetryMessages
    <2>1. PICK before : before = -1
      OBVIOUS
    <2>2. P!LoadMessages(selected.id, before, FALSE)
      BY <1>3, <2>1 DEF P!RetryMessages
    <2> QED
      BY <1>3, <2>1, <2>2, LoadKeeps DEF P!RetryMessages
  <1>4. CASE P!HandleOpenConversation
    <2>1. PICK r : r = P!MutationRequest("open", 0)
      OBVIOUS
    <2>2. CallOK(r, server) /\ Fits(r, selected, messages)
      BY <2>1, PlainFits
    <2>3. P!Issue(r) /\ P!Click /\ opening' = TRUE
          /\ UNCHANGED <<listing, loadingMessages, messagesError, sending, closing>>
      BY <1>4, <2>1 DEF P!HandleOpenConversation
    <2>4. ClicksOK
      BY <2>2, <2>3, ClickKeeps
    <2> QED
      BY <2>3, <2>4, PanelFlags, ClickedKeeps
  <1>5. CASE P!HandleSend
    <2>1. PICK r : r = P!MutationRequest("send", selected.id)
      OBVIOUS
    <2>2. selected.id \in DOMAIN server
      BY <1>5, SelectedIsKept DEF PanelInv, P!HandleSend, P!HasThread
    <2>3. CallOK(r, server) /\ Fits(r, selected, messages)
      BY <2>1, <2>2, ThreadFits
    <2>4. P!Issue(r) /\ P!Click /\ sending' = TRUE
          /\ UNCHANGED <<listing, loadingMessages, messagesError, opening, closing>>
      BY <1>5, <2>1 DEF P!HandleSend
    <2>5. ClicksOK
      BY <2>3, <2>4, ClickKeeps
    <2> QED
      BY <2>4, <2>5, PanelFlags, ClickedKeeps
  <1>6. CASE P!HandleClose
    <2>1. PICK r : r = P!MutationRequest("close", selected.id)
      OBVIOUS
    <2>2. selected.id \in DOMAIN server
      BY <1>6, SelectedIsKept DEF PanelInv, P!HandleClose, P!HasThread
    <2>3. CallOK(r, server) /\ Fits(r, selected, messages)
      BY <2>1, <2>2, ThreadFits
    <2>4. P!Issue(r) /\ P!Click /\ closing' = TRUE
          /\ UNCHANGED <<listing, loadingMessages, messagesError, opening, sending>>
      BY <1>6, <2>1 DEF P!HandleClose
    <2>5. ClicksOK
      BY <2>3, <2>4, ClickKeeps
    <2> QED
      BY <2>4, <2>5, PanelFlags, ClickedKeeps
  <1> QED
    BY <1>1, <1>2, <1>3, <1>4, <1>5, <1>6

-----------------------------------------------------------------------------
\* An answer with a conversation: the panel selects it.
LEMMA SelectedKeeps ==
  ASSUME P!PanelConstants,
         PanelInv, NEW i \in DOMAIN net, net[i].op \in {"list", "open", "close"},
         net[i].answer.status = "ok", P!Select(P!RemoveAt(net, i), net[i].answer.data),
         UNCHANGED <<viewer, server, now, hasOlder>>, listing' \in {"loading", "error", "loaded"},
         opening' \in BOOLEAN, sending' \in BOOLEAN, closing' \in BOOLEAN
  PROVE  PanelInv'
  <1>1. PICK conversation : conversation = net[i].answer.data
    OBVIOUS
  <1>2. IsShown(conversation, server)
    BY <1>1 DEF PanelInv, PipeOK, CallOK, ReplyOK
  <1>3. P!Select(P!RemoveAt(net, i), conversation) /\ net[i].op # "messages"
    BY <1>1
  <1>4. IsShown(selected', server') /\ messages' \in Seq(P!Messages)
    BY <1>2, <1>3, SelectKeeps
  <1>5. PipeOK(net', server') /\ Len(net') <= MaxRequests
    BY <1>2, <1>3, SelectKeeps
  <1>6. LoadingOK' /\ ThreadOK'
    BY <1>2, <1>3, SelectKeeps
  <1>7. loadingMessages' \in BOOLEAN /\ messagesError' \in BOOLEAN /\ crossed' \in BOOLEAN
    BY <1>2, <1>3, SelectKeeps
  <1>8. FlagsOK'
    BY <1>7 DEF PanelInv, FlagsOK
  <1>9. ServerOK'
    BY DEF PanelInv, ServerOK
  <1> QED
    BY <1>4, <1>5, <1>6, <1>8, <1>9 DEF PanelInv

\* What is left when an answer has come.
LEMMA RestKeeps ==
  ASSUME P!PanelConstants,
         PanelInv, NEW i \in DOMAIN net, net' = P!RemoveAt(net, i), UNCHANGED <<server, now>>
  PROVE  /\ PipeOK(net', server') /\ Len(net') <= MaxRequests /\ ServerOK'
         /\ OneTouches(net) => OneTouches(net')
         /\ OneTouches(net) /\ P!TouchesThread(net[i]) => NoneTouches(net')
         /\ \A c, shown : AllFit(net, c, shown) => AllFit(net', c, shown)
         /\ net[i].op # "messages" =>
              (loadingMessages => \E k \in DOMAIN net' : net'[k].op = "messages")
  <1>1. PICK pipe : pipe = net'
    OBVIOUS
  <1>2. IsSeq(net) /\ PipeOK(net, server) /\ Len(net) \in Nat /\ Len(net) <= MaxRequests
    BY Indices DEF PanelInv, PipeOK
  <1>3. pipe = P!RemoveAt(net, i)
    BY <1>1
  <1>4. IsSeq(pipe) /\ Len(pipe) = Len(net) - 1
    BY <1>2, <1>3, Pruned
  <1>5. Drawn(pipe, net, i) /\ Left(pipe, net, i)
    BY <1>2, <1>3, Pruned
  <1>6. OneTouches(net) => OneTouches(pipe)
    BY <1>2, <1>3, Pruned
  <1>7. OneTouches(net) /\ P!TouchesThread(net[i]) => NoneTouches(pipe)
    BY <1>2, <1>3, Pruned
  <1>8. PipeOK(pipe, server)
    BY <1>2, <1>3, PrunedOK
  <1>9. Len(pipe) <= MaxRequests
    BY <1>2, <1>4, PanelNumbers
  <1>10. ASSUME NEW c, NEW shown, AllFit(net, c, shown) PROVE AllFit(pipe, c, shown)
    BY <1>5, <1>10 DEF AllFit, Drawn
  <1>11. net[i].op # "messages" =>
           (loadingMessages => \E k \in DOMAIN pipe : pipe[k].op = "messages")
    BY <1>5 DEF PanelInv, LoadingOK, Left
  <1>12. ServerOK'
    BY DEF PanelInv, ServerOK
  <1>13. PipeOK(net', server') /\ Len(net') <= MaxRequests
    BY <1>1, <1>8, <1>9
  <1>14. OneTouches(net) => OneTouches(net')
    BY <1>1, <1>6
  <1>15. OneTouches(net) /\ P!TouchesThread(net[i]) => NoneTouches(net')
    BY <1>1, <1>7
  <1>16. \A c, shown : AllFit(net, c, shown) => AllFit(net', c, shown)
    BY <1>1, <1>10
  <1>17. net[i].op # "messages" =>
           (loadingMessages => \E k \in DOMAIN net' : net'[k].op = "messages")
    BY <1>1, <1>11
  <1> QED
    BY <1>12, <1>13, <1>14, <1>15, <1>16, <1>17

LEMMA ShowMessagesKeeps ==
  ASSUME P!PanelConstants, PanelInv, NEW i \in DOMAIN net, P!ShowMessages(i)
  PROVE  PanelInv'
  <1>1. /\ net[i].op = "messages" /\ net[i].answer.status = "ok"
        /\ UNCHANGED <<viewer, server, now>>
        /\ hasOlder' = net[i].answer.data.has_older /\ loadingMessages' = FALSE
        /\ net' = P!RemoveAt(net, i)
        /\ UNCHANGED <<listing, selected, messagesError, opening, sending, closing, crossed>>
    BY DEF P!ShowMessages, P!Comes, P!ServerUnchanged
  <1>2. PICK items : items = net[i].answer.data.items
    OBVIOUS
  <1>3. PICK before : before = net[i].before
    OBVIOUS
  <1>4. PICK shown : shown = IF before = -1 THEN items ELSE items \o messages
    OBVIOUS
  <1>5. messages' = shown
    BY <1>2, <1>3, <1>4 DEF P!ShowMessages
  <1>6. WindowOK(net[i].answer.data, net[i].conv, net[i].before, server)
    BY <1>1 DEF PanelInv, PipeOK, CallOK, ReplyOK
  <1>7. items \in Seq(P!Messages) /\ P!Ordered(items) /\ hasOlder' \in BOOLEAN
    BY <1>1, <1>2, <1>6 DEF WindowOK
  <1>8. \A k \in DOMAIN items : Holds(server, net[i].conv, items[k])
    BY <1>2, <1>6 DEF WindowOK
  <1>9. before # -1 => \A k \in DOMAIN items : items[k].at < before
    BY <1>2, <1>3, <1>6 DEF WindowOK
  <1>10. shown \in Seq(P!Messages) /\ messages \in Seq(P!Messages)
    BY <1>4, <1>7, ConcatProperties DEF PanelInv
  <1>11. /\ PipeOK(net', server') /\ Len(net') <= MaxRequests /\ ServerOK'
         /\ OneTouches(net) /\ P!TouchesThread(net[i]) => NoneTouches(net')
    BY <1>1, RestKeeps
  <1>12. ASSUME selected # P!NoConversation, ~ crossed
         PROVE  /\ AllHeld(server, selected.id, shown) /\ P!Ordered(shown)
                /\ OneTouches(net') /\ AllFit(net', selected, shown)
    <2>1. /\ AllHeld(server, selected.id, messages) /\ P!Ordered(messages)
          /\ OneTouches(net) /\ Fits(net[i], selected, messages)
      BY <1>12 DEF PanelInv, ThreadOK, AllFit
    <2>2. P!TouchesThread(net[i])
      BY <1>1 DEF P!TouchesThread
    <2>3. net[i].conv = selected.id /\ (before # -1 => messages # <<>> /\ before = messages[1].at)
      BY <1>1, <1>3, <2>1, <2>2 DEF Fits
    <2>4. NoneTouches(net')
      BY <1>11, <2>1, <2>2
    <2>5. OneTouches(net') /\ AllFit(net', selected, shown)
      BY <2>4, NoneFit
    <2>6. AllHeld(server, selected.id, items)
      BY <1>8, <2>3 DEF AllHeld
    <2>7. CASE before = -1
      BY <1>4, <1>7, <2>5, <2>6, <2>7
    <2>8. CASE before # -1
      <3>1. shown = items \o messages /\ messages # <<>>
        BY <1>4, <2>3, <2>8
      <3>2. \A k \in DOMAIN items : items[k].at < messages[1].at
        BY <1>9, <2>3, <2>8
      <3>3. P!Ordered(shown)
        BY <1>7, <1>10, <2>1, <3>1, <3>2, Joined
      <3>4. ASSUME NEW k \in DOMAIN shown PROVE Holds(server, selected.id, shown[k])
        <4>1. (\E j \in DOMAIN items : shown[k] = items[j])
              \/ (\E j \in DOMAIN messages : shown[k] = messages[j])
          BY <1>7, <1>10, <2>1, <3>1, <3>2, Joined
        <4> QED
          BY <2>1, <2>6, <4>1 DEF AllHeld
      <3> QED
        BY <2>5, <3>3, <3>4 DEF AllHeld
    <2> QED
      BY <2>7, <2>8
  <1>13. ThreadOK'
    BY <1>1, <1>5, <1>12 DEF ThreadOK
  <1>14. LoadingOK'
    BY <1>1 DEF LoadingOK
  <1>15. FlagsOK'
    BY <1>1, <1>7 DEF PanelInv, FlagsOK
  <1>16. IsShown(selected', server') /\ messages' \in Seq(P!Messages)
    BY <1>1, <1>5, <1>10 DEF PanelInv
  <1> QED
    BY <1>11, <1>13, <1>14, <1>15, <1>16 DEF PanelInv

LEMMA ShowSentKeeps ==
  ASSUME P!PanelConstants, PanelInv, NEW i \in DOMAIN net, P!ShowSent(i)
  PROVE  PanelInv'
  <1>1. /\ net[i].op = "send" /\ net[i].answer.status = "ok"
        /\ UNCHANGED <<viewer, server, now>>
        /\ sending' = FALSE /\ net' = P!RemoveAt(net, i)
        /\ UNCHANGED <<listing, selected, hasOlder, loadingMessages, messagesError, opening,
                       closing, crossed>>
    BY DEF P!ShowSent, P!Comes, P!ServerUnchanged
  <1>2. PICK m : m = net[i].answer.data
    OBVIOUS
  <1>3. m \in P!Messages /\ Holds(server, net[i].conv, m)
    BY <1>1, <1>2 DEF PanelInv, PipeOK, CallOK, ReplyOK
  <1>4. PICK shown : shown = Append(messages, m)
    OBVIOUS
  <1>5. messages' = shown /\ messages \in Seq(P!Messages)
    BY <1>2, <1>4 DEF P!ShowSent, PanelInv
  <1>6. /\ shown \in Seq(P!Messages) /\ Len(shown) = Len(messages) + 1
        /\ \A k \in 1 .. Len(messages) : shown[k] = messages[k]
        /\ shown[Len(messages) + 1] = m
    BY <1>3, <1>4, <1>5, AppendProperties
  <1>7. /\ Len(messages) \in Nat /\ DOMAIN messages = 1 .. Len(messages)
        /\ DOMAIN shown = 1 .. Len(messages) + 1
    BY <1>5, <1>6, LenProperties
  <1>8. \A k \in DOMAIN shown : \/ k \in DOMAIN messages /\ shown[k] = messages[k]
                                \/ k = Len(messages) + 1 /\ shown[k] = m
    BY <1>6, <1>7
  <1>9. /\ PipeOK(net', server') /\ Len(net') <= MaxRequests /\ ServerOK'
        /\ OneTouches(net) /\ P!TouchesThread(net[i]) => NoneTouches(net')
    BY <1>1, RestKeeps
  <1>10. net[i].op # "messages" =>
           (loadingMessages => \E k \in DOMAIN net' : net'[k].op = "messages")
    BY <1>1, RestKeeps
  <1>11. ASSUME selected # P!NoConversation, ~ crossed
         PROVE  /\ AllHeld(server, selected.id, shown) /\ P!Ordered(shown)
                /\ OneTouches(net') /\ AllFit(net', selected, shown)
    <2>1. /\ AllHeld(server, selected.id, messages) /\ P!Ordered(messages)
          /\ OneTouches(net) /\ Fits(net[i], selected, messages)
      BY <1>11 DEF PanelInv, ThreadOK, AllFit
    <2>2. P!TouchesThread(net[i])
      BY <1>1 DEF P!TouchesThread
    <2>3. net[i].conv = selected.id /\ \A k \in DOMAIN messages : messages[k].at < m.at
      BY <1>1, <1>2, <2>1, <2>2 DEF Fits
    <2>4. NoneTouches(net')
      BY <1>9, <2>1, <2>2
    <2>5. OneTouches(net') /\ AllFit(net', selected, shown)
      BY <2>4, NoneFit
    <2>6. AllHeld(server, selected.id, shown)
      BY <1>3, <1>8, <2>1, <2>3 DEF AllHeld
    <2>7. ASSUME NEW j \in DOMAIN shown, NEW k \in DOMAIN shown, j < k
          PROVE  shown[j].at < shown[k].at
      <3>1. j \in DOMAIN messages /\ shown[j] = messages[j]
        BY <1>7, <1>8, <2>7
      <3>2. CASE k \in DOMAIN messages /\ shown[k] = messages[k]
        BY <2>1, <2>7, <3>1, <3>2 DEF P!Ordered
      <3>3. CASE shown[k] = m
        BY <2>3, <3>1, <3>3
      <3> QED
        BY <1>8, <3>2, <3>3
    <2>8. P!Ordered(shown)
      BY <2>7 DEF P!Ordered
    <2> QED
      BY <2>5, <2>6, <2>8
  <1>12. ThreadOK'
    BY <1>1, <1>5, <1>11 DEF ThreadOK
  <1>13. LoadingOK'
    BY <1>1, <1>10 DEF LoadingOK
  <1>14. FlagsOK'
    BY <1>1 DEF PanelInv, FlagsOK
  <1>15. IsShown(selected', server') /\ messages' \in Seq(P!Messages)
    BY <1>1, <1>5, <1>6 DEF PanelInv
  <1> QED
    BY <1>9, <1>12, <1>13, <1>14, <1>15 DEF PanelInv

LEMMA ShowErrorKeeps ==
  ASSUME P!PanelConstants, PanelInv, NEW i \in DOMAIN net, P!ShowError(i)
  PROVE  PanelInv'
  <1>1. /\ net' = P!RemoveAt(net, i) /\ UNCHANGED <<selected, messages, hasOlder, crossed>>
        /\ UNCHANGED <<viewer, server, now>>
        /\ loadingMessages' = (loadingMessages /\ net[i].op # "messages")
    BY DEF P!ShowError, P!ServerUnchanged
  <1>2. /\ listing' \in {"loading", "error", "loaded"} /\ loadingMessages' \in BOOLEAN
        /\ messagesError' \in BOOLEAN /\ opening' \in BOOLEAN /\ sending' \in BOOLEAN
        /\ closing' \in BOOLEAN
    BY DEF P!ShowError, PanelInv, FlagsOK
  <1>3. PipeOK(net', server') /\ Len(net') <= MaxRequests /\ ServerOK'
    BY <1>1, RestKeeps
  <1>4. net[i].op # "messages" =>
           (loadingMessages => \E k \in DOMAIN net' : net'[k].op = "messages")
    BY <1>1, RestKeeps
  <1>5. OneTouches(net) => OneTouches(net')
    BY <1>1, RestKeeps
  <1>6. AllFit(net, selected, messages) => AllFit(net', selected, messages)
    BY <1>1, RestKeeps
  <1>7. ThreadOK'
    BY <1>1, <1>5, <1>6 DEF PanelInv, ThreadOK
  <1>8. LoadingOK'
    BY <1>1, <1>4 DEF LoadingOK
  <1>9. FlagsOK'
    BY <1>1, <1>2 DEF PanelInv, FlagsOK
  <1>10. IsShown(selected', server') /\ messages' \in Seq(P!Messages)
    BY <1>1 DEF PanelInv
  <1> QED
    BY <1>3, <1>7, <1>8, <1>9, <1>10 DEF PanelInv

LEMMA RepliesKeep ==
  ASSUME P!PanelConstants, PanelInv, NEW i \in DOMAIN net,
         \/ P!ShowList(i) \/ P!ShowMessages(i) \/ P!ShowSent(i) \/ P!ShowClosed(i)
         \/ P!ShowOpened(i) \/ P!ShowError(i)
  PROVE  PanelInv'
  <1>1. CASE P!ShowList(i)
    BY <1>1, SelectedKeeps, PanelFlags DEF P!ShowList, P!Comes, P!ServerUnchanged
  <1>2. CASE P!ShowClosed(i)
    BY <1>2, SelectedKeeps, PanelFlags DEF P!ShowClosed, P!Comes, P!ServerUnchanged
  <1>3. CASE P!ShowOpened(i)
    BY <1>3, SelectedKeeps, PanelFlags DEF P!ShowOpened, P!Comes, P!ServerUnchanged
  <1> QED
    BY <1>1, <1>2, <1>3, ShowMessagesKeeps, ShowSentKeeps, ShowErrorKeeps

-----------------------------------------------------------------------------
LEMMA PanelStarts == P!PanelConstants /\ P!Init => PanelInv
  <1> SUFFICES ASSUME P!PanelConstants, P!Init
               PROVE  PanelInv
    OBVIOUS
  <1>1. FlagsOK
    BY DEF P!Init, FlagsOK
  <1>2. ServerOK /\ Len(server) \in Nat
    <2>1. server \in Histories /\ now = StartTime
      BY DEF P!Init
    <2>2. RowsOK(server, now)
      BY <2>1 DEF P!PanelConstants, RowsOK
    <2> QED
      BY <2>1, <2>2, PanelNumbers, CountsRows DEF ServerOK
  <1>3. IsShown(selected, server)
    BY <1>2 DEF P!Init, IsShown, P!NoConversation
  <1>4. messages \in Seq(P!Messages)
    BY EmptySeq DEF P!Init
  <1>5. PipeOK(net, server) /\ Len(net) <= MaxRequests
    <2>1. PICK pipe : pipe = <<P!ListRequest>>
      OBVIOUS
    <2>2. IsSeq(pipe) /\ Len(pipe) = 1 /\ DOMAIN pipe = {1} /\ pipe[1] = P!ListRequest
      <3>1. pipe = [k \in 1 .. 1 |-> pipe[k]]
        BY <2>1
      <3>2. IsSeq(pipe) /\ Len(pipe) = 1
        BY <3>1, FromElements
      <3> QED
        BY <2>1, <3>2
    <2>3. CallOK(P!ListRequest, server)
      BY PlainFits
    <2>4. PipeOK(pipe, server) /\ Len(pipe) <= MaxRequests
      BY <2>2, <2>3, PanelNumbers DEF PipeOK
    <2> QED
      BY <2>1, <2>4 DEF P!Init
  <1>6. LoadingOK /\ ThreadOK
    BY DEF P!Init, LoadingOK, ThreadOK
  <1> QED
    BY <1>1, <1>2, <1>3, <1>4, <1>5, <1>6 DEF PanelInv

\* Every action keeps the invariant.
LEMMA PanelGoesOn == P!PanelConstants /\ PanelInv /\ [P!Next]_(P!panelVars) => PanelInv'
  <1> SUFFICES ASSUME P!PanelConstants, PanelInv, [P!Next]_(P!panelVars)
               PROVE  PanelInv'
    OBVIOUS
  <1>1. ASSUME NEW i \in DOMAIN net, P!ClientUnchanged,
               P!ServeList(i) \/ P!ServeMessages(i) \/ P!ServeSend(i)
               \/ P!ServeClose(i) \/ P!ServeOpen(i)
        PROVE  PanelInv'
    BY <1>1, ServeListKeeps, ServeMessagesKeeps, ServeSendKeeps, ServeCloseKeeps, ServeOpenKeeps
  <1>2. CASE UNCHANGED P!panelVars
    <2>1. ServerOK /\ RowsOK(server, now)
      BY DEF PanelInv, ServerOK
    <2>2. UNCHANGED <<server, now, net>> /\ P!ClientUnchanged
      BY <1>2 DEF P!panelVars, P!ClientUnchanged
    <2>3. ServerOK' /\ Grows(server, server')
      BY <2>1, <2>2, SelfExtends, CountsRows DEF ServerOK, Grows
    <2> QED
      BY <2>2, <2>3, QuietKeeps
  <1>3. CASE P!Next
    BY <1>1, <1>3, ClicksKeep, RepliesKeep, ElsewhereKeeps DEF P!Next
  <1> QED
    BY <1>2, <1>3

LEMMA PanelTells == PanelInv => P!PanelTellsTheThread
  BY DEF PanelInv, ThreadOK, AllHeld, Holds, P!PanelTellsTheThread

LEMMA PanelTyped == PanelInv => P!TypeOK
  <1> SUFFICES ASSUME PanelInv
               PROVE  P!TypeOK
    OBVIOUS
  <1>1. P!Cardinality(P!Open) <= 1
    <2>1. RowsOK(server, now)
      BY DEF PanelInv, ServerOK
    <2>2. \A c, d \in P!Open : c = d
      BY <2>1 DEF RowsOK, P!Open
    <2>3. PICK stillOpen : stillOpen = P!Open
      OBVIOUS
    <2>6. P!Cardinality(P!Open) = Cardinality(stillOpen)
      BY <2>3 DEF P!Cardinality, Cardinality
    <2>4. CASE stillOpen = {}
      BY <2>4, <2>6, FS_EmptySet
    <2>5. CASE stillOpen # {}
      <3>1. PICK c : stillOpen = {c}
        BY <2>2, <2>3, <2>5
      <3> QED
        BY <2>6, <3>1, FS_Singleton
    <2> QED
      BY <2>4, <2>5
  <1>2. {hasOlder, loadingMessages, messagesError, opening, sending, closing, crossed}
          \subseteq BOOLEAN
    BY DEF PanelInv, FlagsOK
  <1> QED
    BY <1>1, <1>2 DEF PanelInv, P!TypeOK, FlagsOK, ServerOK, LoadingOK, IsShown

\* The panel shows messages of the selected conversation, in order and each once,
\* however its loads, its messages and the messages of others interleave, unless
\* two requests that change the messages shown were in flight together
\* (ConversationPanel.tsx:101, 143).
THEOREM ThreadIsTold == ASSUME P!PanelConstants PROVE P!Spec => []P!PanelTellsTheThread
  <1>1. P!Init => PanelInv
    BY PanelStarts
  <1>2. PanelInv /\ [P!Next]_(P!panelVars) => PanelInv'
    BY PanelGoesOn
  <1> QED
    BY <1>1, <1>2, PanelTells, PTL DEF P!Spec

-----------------------------------------------------------------------------
(***************************************************************************)
(* The bell above the page                                                 *)
(***************************************************************************)
CONSTANTS EntityOf, PageSize, MaxSent, MaxFailures, BellClicks

VARIABLES role, sent, read, unreadCount, open, list, total, page, loading, loadError,
          markingAll, failures

B == INSTANCE NotificationBell WITH MaxClicks <- BellClicks

\* What the list shows of a notification, and what may be in flight, while so
\* many have been sent.
Notices(top) == [id : 0 .. top, read : BOOLEAN]

Waiting == {[status |-> "pending"]}
Done == {[status |-> "ok"]}
Asked(top) ==
  [op : {"count"}, arg : {0}, answer : Waiting \cup [status : {"ok"}, unread : 0 .. MaxSent]]
    \cup [op : {"list"}, arg : Nat \ {0},
          answer : Waiting \cup [status : {"ok"}, items : Seq(Notices(top)), total : 0 .. MaxSent]]
    \cup [op : {"all"}, arg : {0}, answer : Waiting \cup Done]
    \cup [op : {"mark"}, arg : 1 .. top, answer : Waiting \cup Done]
    \cup [op : {"lookup"}, arg : (1 .. MaxSent) \X Nat, answer : Waiting \cup Done]

BellInv ==
  /\ sent \in 0 .. MaxSent /\ read \subseteq 1 .. sent
  /\ unreadCount \in 0 .. MaxSent /\ total \in 0 .. MaxSent /\ page \in Nat \ {0}
  /\ {open, loading, loadError, markingAll} \subseteq BOOLEAN
  /\ list \in Seq(Notices(sent))
  /\ net \in Seq(Asked(sent)) /\ Len(net) <= MaxRequests

LEMMA BellNumbers ==
  B!BellConstants => PageSize \in Nat \ {0} /\ MaxSent \in Nat /\ MaxRequests \in Nat
  BY DEF B!BellConstants

\* What is asked first waits.
LEMMA AskedFirst ==
  ASSUME NEW top \in Nat
  PROVE  /\ B!Request("count", 0) \in Asked(top) /\ B!Request("all", 0) \in Asked(top)
         /\ \A n \in Nat \ {0} : B!Request("list", n) \in Asked(top)
         /\ \A id \in 1 .. top : B!Request("mark", id) \in Asked(top)
         /\ \A id \in 1 .. MaxSent, n \in Nat : B!Request("lookup", <<id, n>>) \in Asked(top)
  <1>1. B!Request("count", 0) \in Asked(top) /\ B!Request("all", 0) \in Asked(top)
    BY DEF B!Request, Asked, Waiting
  <1>2. \A n \in Nat \ {0} : B!Request("list", n) \in Asked(top)
    BY DEF B!Request, Asked, Waiting
  <1>3. \A id \in 1 .. top : B!Request("mark", id) \in Asked(top)
    BY DEF B!Request, Asked, Waiting
  <1>4. \A id \in 1 .. MaxSent, n \in Nat : B!Request("lookup", <<id, n>>) \in Asked(top)
    BY DEF B!Request, Asked, Waiting
  <1> QED
    BY <1>1, <1>2, <1>3, <1>4

\* A notification more is nothing to those before.
LEMMA MoreAreSent ==
  ASSUME NEW top \in Nat
  PROVE  Seq(Notices(top)) \subseteq Seq(Notices(top + 1)) /\ Seq(Asked(top)) \subseteq Seq(Asked(top + 1))
  <1>1. Notices(top) \subseteq Notices(top + 1)
    BY DEF Notices
  <1>2. Seq(Notices(top)) \subseteq Seq(Notices(top + 1))
    BY <1>1, SeqMonotonic
  <1>3. ASSUME NEW r \in Asked(top)
        PROVE  r \in Asked(top + 1)
    <2>1. CASE r.op = "list"
      BY <1>2, <1>3, <2>1 DEF Asked
    <2>2. CASE r.op = "mark"
      BY <1>3, <2>2 DEF Asked
    <2>3. CASE r.op \notin {"list", "mark"}
      BY <1>3, <2>3 DEF Asked
    <2> QED
      BY <2>1, <2>2, <2>3
  <1> QED
    BY <1>2, <1>3, SeqMonotonic

\* A page lists notifications that were sent.
LEMMA PageIsSent ==
  ASSUME B!BellConstants, BellInv, NEW n \in Nat \ {0}
  PROVE  B!PageOf(n) \in Seq(Notices(sent))
  <1>1. PICK newest : newest = [k \in 1 .. sent |-> sent + 1 - k]
    OBVIOUS
  <1>2. sent \in Nat /\ newest \in Seq(1 .. sent) /\ Len(newest) = sent
    <2>1. sent \in Nat
      BY BellNumbers DEF BellInv
    <2>2. \A k \in 1 .. sent : sent + 1 - k \in 1 .. sent
      BY <2>1
    <2>3. newest \in [1 .. sent -> 1 .. sent]
      BY <1>1, <2>2
    <2>4. newest = [i \in 1 .. sent |-> newest[i]]
      BY <1>1
    <2> QED
      BY <2>1, <2>3, <2>4, SeqDef, FromElements
  <1>3. PICK before : before = PageSize * (n - 1)
    OBVIOUS
  <1>4. PICK upto : upto = B!Min({PageSize * n, sent})
    OBVIOUS
  <1>5. before \in Nat
    <2>1. PICK m : m = n - 1
      OBVIOUS
    <2> QED
      BY <1>3, <2>1, BellNumbers
  <1>6. upto \in Nat /\ upto <= sent
    <2>1. PICK end : end = PageSize * n
      OBVIOUS
    <2>2. end \in Nat
      BY <2>1, BellNumbers
    <2>3. \E x \in {end, sent} : \A y \in {end, sent} : x <= y
      BY <1>2, <2>2
    <2>4. upto = CHOOSE x \in {end, sent} : \A y \in {end, sent} : x <= y
      BY <1>4, <2>1 DEF B!Min
    <2>5. upto \in {end, sent} /\ upto <= sent
      BY <2>3, <2>4
    <2> QED
      BY <1>2, <2>2, <2>5
  <1>7. PICK ids : ids = SubSeq(newest, before + 1, upto)
    OBVIOUS
  <1>8. ids \in Seq(1 .. sent)
    <2>1. PICK S : S = 1 .. sent
      OBVIOUS
    <2>2. newest \in Seq(S) /\ Len(newest) = sent /\ sent \in Nat
      BY <1>2, <2>1
    <2>3. \A k \in 1 .. sent : newest[k] \in S
      BY <2>2, LenProperties
    <2>4. \A k \in before + 1 .. upto : newest[k] \in S
      BY <1>2, <1>5, <1>6, <2>3
    <2>5. before + 1 \in Int /\ upto \in Int
      BY <1>5, <1>6
    <2>6. SubSeq(newest, before + 1, upto) \in Seq(S)
      BY <2>4, <2>5, SubSeqProperties
    <2> QED
      BY <1>7, <2>1, <2>6
  <1>9. PICK rows : rows = [k \in DOMAIN ids |-> [id |-> ids[k], read |-> ids[k] \in read]]
    OBVIOUS
  <1>10. DOMAIN ids = 1 .. Len(ids) /\ Len(ids) \in Nat /\ \A k \in DOMAIN ids : ids[k] \in 1 .. sent
    BY <1>8, LenProperties
  <1>11. \A k \in DOMAIN ids : [id |-> ids[k], read |-> ids[k] \in read] \in Notices(sent)
    <2>1. \A k \in DOMAIN ids : ids[k] \in 0 .. sent
      BY <1>2, <1>10
    <2> QED
      BY <2>1 DEF Notices
  <1>12. rows \in [1 .. Len(ids) -> Notices(sent)]
    BY <1>9, <1>10, <1>11
  <1>13. rows \in Seq(Notices(sent))
    BY <1>10, <1>12, SeqDef
  <1> QED
    BY <1>1, <1>3, <1>4, <1>7, <1>9, <1>13 DEF B!PageOf

LEMMA UnreadCounts ==
  ASSUME B!BellConstants, BellInv
  PROVE  B!Unread \in 0 .. MaxSent
  <1>1. sent \in Nat /\ IsFiniteSet(1 .. sent) /\ Cardinality(1 .. sent) = sent
    <2>1. sent \in Nat /\ 1 \in Int /\ sent \in Int
      BY BellNumbers DEF BellInv
    <2> QED
      BY <2>1, FS_Interval
  <1>2. Cardinality(read) \in Nat /\ Cardinality(read) <= sent
    <2>1. read \subseteq 1 .. sent
      BY DEF BellInv
    <2>2. IsFiniteSet(read) /\ Cardinality(read) <= Cardinality(1 .. sent)
      BY <1>1, <2>1, FS_Subset
    <2> QED
      BY <1>1, <2>2, FS_CardinalityType
  <1>3. B!Unread = sent - Cardinality(read)
    BY DEF B!Unread, B!Cardinality, Cardinality
  <1> QED
    BY <1>1, <1>2, <1>3, BellNumbers DEF BellInv

LEMMA BellStarts == B!BellConstants /\ B!Init => BellInv
  <1> SUFFICES ASSUME B!BellConstants, B!Init
               PROVE  BellInv
    OBVIOUS
  <1>1. list \in Seq(Notices(sent))
    <2>1. list = <<[id |-> 0, read |-> TRUE]>> /\ sent = 0
      BY DEF B!Init, B!NoList
    <2>2. [id |-> 0, read |-> TRUE] \in Notices(sent)
      BY <2>1 DEF Notices
    <2> QED
      BY <2>1, <2>2
  <1>2. net \in Seq(Asked(sent)) /\ Len(net) = 0
    BY EmptySeq DEF B!Init
  <1>3. sent \in 0 .. MaxSent /\ read \subseteq 1 .. sent
    BY BellNumbers DEF B!Init
  <1>4. unreadCount \in 0 .. MaxSent /\ total \in 0 .. MaxSent /\ page \in Nat \ {0}
    BY BellNumbers DEF B!Init
  <1>5. {open, loading, loadError, markingAll} \subseteq BOOLEAN
    BY DEF B!Init
  <1> QED
    BY <1>1, <1>2, <1>3, <1>4, <1>5, BellNumbers DEF BellInv

\* A request less, a request that has changed.
LEMMA OneLess ==
  ASSUME NEW S, NEW s \in Seq(S), NEW i \in DOMAIN s
  PROVE  B!RemoveAt(s, i) \in Seq(S) /\ Len(B!RemoveAt(s, i)) = Len(s) - 1
  <1>1. Len(s) \in Nat /\ i \in 1 .. Len(s) /\ \A k \in 1 .. Len(s) : s[k] \in S
    BY LenProperties
  <1>2. PICK f : f = SubSeq(s, 1, i - 1)
    OBVIOUS
  <1>3. PICK g : g = SubSeq(s, i + 1, Len(s))
    OBVIOUS
  <1>4. f \in Seq(S) /\ Len(f) = i - 1
    BY <1>1, <1>2, SubSeqProperties
  <1>5. g \in Seq(S) /\ Len(g) = Len(s) - i
    <2>1. \A k \in i + 1 .. Len(s) : s[k] \in S
      BY <1>1
    <2>2. g \in Seq(S) /\ Len(g) = IF i + 1 <= Len(s) THEN Len(s) - (i + 1) + 1 ELSE 0
      BY <1>1, <1>3, <2>1, SubSeqProperties
    <2> QED
      BY <1>1, <2>2
  <1>6. f \o g \in Seq(S) /\ Len(f \o g) = Len(f) + Len(g)
    BY <1>4, <1>5, ConcatProperties
  <1>7. B!RemoveAt(s, i) = f \o g
    BY <1>2, <1>3 DEF B!RemoveAt
  <1>8. Len(f) + Len(g) = Len(s) - 1
    BY <1>1, <1>4, <1>5
  <1> QED
    BY <1>6, <1>7, <1>8

LEMMA OneChanged ==
  ASSUME NEW S, NEW s \in Seq(S), NEW i \in DOMAIN s, NEW e \in S
  PROVE  [s EXCEPT ![i] = e] \in Seq(S) /\ Len([s EXCEPT ![i] = e]) = Len(s)
  BY ExceptSeq

\* What the requests of the bell hold.
LEMMA AskedHolds ==
  ASSUME NEW top \in Nat, NEW r \in Asked(top), MaxSent \in Nat
  PROVE  /\ r.op = "count" /\ r.answer.status = "ok" => r.answer.unread \in 0 .. MaxSent
         /\ r.op = "list" => r.arg \in Nat \ {0}
         /\ r.op = "list" /\ r.answer.status = "ok"
              => r.answer.items \in Seq(Notices(top)) /\ r.answer.total \in 0 .. MaxSent
         /\ r.op = "mark" => r.arg \in 1 .. top
         /\ r.op = "lookup" => r.arg[1] \in 1 .. MaxSent /\ r.arg[2] \in Nat
  <1>1. r.op = "count" /\ r.answer.status = "ok" => r.answer.unread \in 0 .. MaxSent
    BY DEF Asked, Waiting
  <1>2. r.op = "list" => r.arg \in Nat \ {0}
    BY DEF Asked
  <1>3. r.op = "list" /\ r.answer.status = "ok"
          => r.answer.items \in Seq(Notices(top)) /\ r.answer.total \in 0 .. MaxSent
    BY DEF Asked, Waiting
  <1>4. r.op = "mark" => r.arg \in 1 .. top
    BY DEF Asked
  <1>5. r.op = "lookup" => r.arg[1] \in 1 .. MaxSent /\ r.arg[2] \in Nat
    BY DEF Asked
  <1> QED
    BY <1>1, <1>2, <1>3, <1>4, <1>5

\* What the bell marks as read is still a list.
LEMMA ShownReadFits ==
  ASSUME B!BellConstants, BellInv, NEW ids
  PROVE  B!ShownRead(ids) \in Seq(Notices(sent))
  <1>1. Len(list) \in Nat /\ DOMAIN list = 1 .. Len(list)
        /\ \A k \in 1 .. Len(list) : list[k] \in Notices(sent)
    BY LenProperties DEF BellInv
  <1>2. PICK shown : shown = B!ShownRead(ids)
    OBVIOUS
  <1>3. \A k \in 1 .. Len(list) :
          [list[k] EXCEPT !.read = list[k].read \/ list[k].id \in ids] \in Notices(sent)
    BY <1>1 DEF Notices
  <1>4. shown \in [1 .. Len(list) -> Notices(sent)]
    BY <1>1, <1>2, <1>3 DEF B!ShownRead
  <1>5. shown \in Seq(Notices(sent))
    BY <1>1, <1>4, SeqDef
  <1> QED
    BY <1>2, <1>5

\* A request more in flight, where there is room.
LEMMA OneMore ==
  ASSUME B!BellConstants, BellInv, B!RoomFor(1), NEW r \in Asked(sent)
  PROVE  Append(net, r) \in Seq(Asked(sent)) /\ Len(Append(net, r)) <= MaxRequests
  <1>1. net \in Seq(Asked(sent)) /\ Len(net) \in Nat /\ Len(net) + 1 <= MaxRequests
    BY DEF BellInv, B!RoomFor
  <1>2. Append(net, r) \in Seq(Asked(sent)) /\ Len(Append(net, r)) = Len(net) + 1
    BY <1>1, AppendProperties
  <1> QED
    BY <1>1, <1>2

-----------------------------------------------------------------------------
\* What the user does, step by step.  A step that leaves the API alone keeps
\* what is said of it.
LEMMA BellSame == BellInv /\ UNCHANGED B!bellVars => BellInv'
  <1> SUFFICES ASSUME BellInv, UNCHANGED B!bellVars
               PROVE  BellInv'
    OBVIOUS
  <1>1. UNCHANGED <<sent, read, unreadCount, total, page, open, loading, loadError, markingAll,
                    list, net>>
    BY DEF B!bellVars
  <1> QED
    BY <1>1 DEF BellInv

LEMMA BellAsks ==
  ASSUME B!BellConstants, BellInv,
         B!loadUnreadCount \/ B!HandleToggle \/ B!RetryList \/ B!LoadMore \/ B!HandleMarkAll
  PROVE  BellInv'
  <1>1. sent \in Nat /\ page + 1 \in Nat \ {0} /\ 1 \in Nat \ {0}
    BY BellNumbers DEF BellInv
  <1>2. UNCHANGED <<sent, read, list, unreadCount, total, page>>
    BY DEF B!loadUnreadCount, B!HandleToggle, B!RetryList, B!LoadMore, B!HandleMarkAll, B!Click,
           B!ApiUnchanged, B!listVars
  <1>3. {open, loading, loadError, markingAll}' \subseteq BOOLEAN
    <2>1. CASE B!loadUnreadCount
      BY <2>1 DEF B!loadUnreadCount, B!listVars, BellInv
    <2>2. CASE B!HandleToggle
      BY <2>2 DEF B!HandleToggle, BellInv
    <2>3. CASE B!RetryList
      BY <2>3 DEF B!RetryList, BellInv
    <2>4. CASE B!LoadMore
      BY <2>4 DEF B!LoadMore, BellInv
    <2>5. CASE B!HandleMarkAll
      BY <2>5 DEF B!HandleMarkAll, B!listVars, BellInv
    <2> QED
      BY <2>1, <2>2, <2>3, <2>4, <2>5
  <1>4. net' \in Seq(Asked(sent)) /\ Len(net') <= MaxRequests
    <2>1. CASE B!loadUnreadCount
      BY <1>1, <2>1, OneMore, AskedFirst DEF B!loadUnreadCount
    <2>2. CASE B!HandleToggle
      <3>1. net' = net \/ net' = Append(net, B!Request("list", 1))
        BY <2>2 DEF B!HandleToggle
      <3>2. B!RoomFor(1)
        BY <2>2 DEF B!HandleToggle
      <3> QED
        BY <1>1, <3>1, <3>2, OneMore, AskedFirst DEF BellInv
    <2>3. CASE B!RetryList
      BY <1>1, <2>3, OneMore, AskedFirst DEF B!RetryList
    <2>4. CASE B!LoadMore
      BY <1>1, <2>4, OneMore, AskedFirst DEF B!LoadMore
    <2>5. CASE B!HandleMarkAll
      BY <1>1, <2>5, OneMore, AskedFirst DEF B!HandleMarkAll
    <2> QED
      BY <2>1, <2>2, <2>3, <2>4, <2>5
  <1> QED
    BY <1>2, <1>3, <1>4 DEF BellInv

LEMMA BellSelects ==
  ASSUME B!BellConstants, BellInv, NEW id \in 1 .. MaxSent, B!HandleSelect(id)
  PROVE  BellInv'
  <1>1. UNCHANGED <<sent, read, total, page, loading, loadError, markingAll>> /\ open' = FALSE
    BY DEF B!HandleSelect, B!Click, B!ApiUnchanged
  <1>2. sent \in Nat /\ id \in 1 .. sent
    <2>1. sent \in Nat /\ id \in Nat \ {0}
      BY BellNumbers DEF BellInv
    <2>2. PICK k \in DOMAIN list : list[k].id = id
      BY DEF B!HandleSelect
    <2>3. list[k] \in Notices(sent)
      BY LenProperties DEF BellInv
    <2>4. list[k].id \in 0 .. sent
      BY <2>3 DEF Notices
    <2> QED
      BY <2>1, <2>2, <2>4
  <1>3. list' \in Seq(Notices(sent))
    BY ShownReadFits DEF B!HandleSelect
  <1>4. PICK marks : marks = B!Marks(id)
    OBVIOUS
  <1>5. PICK lookups : lookups = B!Lookups(id)
    OBVIOUS
  <1>6. marks \in Seq(Asked(sent)) /\ Len(marks) \in {0, 1}
    <2>1. PICK r : r = B!Request("mark", id)
      OBVIOUS
    <2>2. marks = <<>> \/ marks = <<r>>
      BY <1>4, <2>1 DEF B!Marks
    <2>3. r \in Asked(sent)
      BY <1>2, <2>1, AskedFirst
    <2>4. CASE marks = <<>>
      BY <2>4
    <2>5. CASE marks = <<r>>
      BY <2>3, <2>5
    <2> QED
      BY <2>2, <2>4, <2>5
  <1>7. lookups \in Seq(Asked(sent))
    <2>1. PICK r : r = B!Request("lookup", <<id, 1>>)
      OBVIOUS
    <2>2. lookups = <<>> \/ lookups = <<r>>
      BY <1>5, <2>1 DEF B!Lookups
    <2>3. r \in Asked(sent)
      BY <1>2, <2>1, AskedFirst
    <2>4. CASE lookups = <<>>
      BY <2>4
    <2>5. CASE lookups = <<r>>
      BY <2>3, <2>5
    <2> QED
      BY <2>2, <2>4, <2>5
  <1>8. unreadCount' \in 0 .. MaxSent
    <2>1. unreadCount' = IF unreadCount = 0 THEN 0 ELSE unreadCount - Len(marks)
      BY <1>4 DEF B!HandleSelect, B!Less
    <2>2. PICK few : few = Len(marks)
      OBVIOUS
    <2>3. few \in {0, 1} /\ unreadCount \in 0 .. MaxSent /\ MaxSent \in Nat
      BY <1>6, <2>2, BellNumbers DEF BellInv
    <2>4. unreadCount' = IF unreadCount = 0 THEN 0 ELSE unreadCount - few
      BY <2>1, <2>2
    <2> QED
      BY <2>3, <2>4
  <1>9. net' \in Seq(Asked(sent)) /\ Len(net') <= MaxRequests
    <2>1. net' = (net \o marks) \o lookups /\ Len(net) + (Len(marks) + Len(lookups)) <= MaxRequests
      BY <1>4, <1>5 DEF B!HandleSelect, B!RoomFor
    <2>2. net \in Seq(Asked(sent)) /\ Len(net) \in Nat /\ Len(marks) \in Nat /\ Len(lookups) \in Nat
      BY <1>6, <1>7, LenProperties DEF BellInv
    <2>3. net \o marks \in Seq(Asked(sent)) /\ Len(net \o marks) = Len(net) + Len(marks)
      BY <1>6, <2>2, ConcatProperties
    <2>4. /\ (net \o marks) \o lookups \in Seq(Asked(sent))
          /\ Len((net \o marks) \o lookups) = Len(net \o marks) + Len(lookups)
      BY <1>7, <2>3, ConcatProperties
    <2> QED
      BY <2>1, <2>2, <2>3, <2>4
  <1> QED
    BY <1>1, <1>3, <1>8, <1>9 DEF BellInv

-----------------------------------------------------------------------------
\* What the API does.
LEMMA BellIsServed ==
  ASSUME B!BellConstants, BellInv, NEW i \in DOMAIN net, B!Serve(i)
  PROVE  BellInv'
  <1>1. UNCHANGED <<sent, unreadCount, list, total, page, open, loading, loadError, markingAll>>
    BY DEF B!Serve, B!ClientUnchanged, B!listVars
  <1>2. sent \in Nat /\ sent \in 0 .. MaxSent /\ net[i] \in Asked(sent)
    BY BellNumbers, LenProperties DEF BellInv
  <1>3. PICK r : r = net[i]
    OBVIOUS
  <1>4. read' \subseteq 1 .. sent
    <2>1. CASE r.op = "mark"
      <3>1. read' = read \cup {r.arg}
        BY <1>3, <2>1 DEF B!Serve
      <3>2. r.arg \in 1 .. sent
        BY <1>2, <1>3, <2>1, AskedHolds, BellNumbers
      <3> QED
        BY <3>1, <3>2 DEF BellInv
    <2>2. CASE r.op = "all"
      BY <1>3, <2>2 DEF B!Serve
    <2>3. CASE r.op \notin {"mark", "all"}
      <3>1. read' = read
        BY <1>3, <2>3 DEF B!Serve
      <3> QED
        BY <3>1 DEF BellInv
    <2> QED
      BY <2>1, <2>2, <2>3
  <1>5. PICK a : a = CASE r.op = "count" -> [status |-> "ok", unread |-> B!Unread]
                       [] r.op = "list"  -> [status |-> "ok", items |-> B!PageOf(r.arg),
                                             total |-> sent]
                       [] OTHER          -> [status |-> "ok"]
    OBVIOUS
  <1>6. net' = [net EXCEPT ![i] = [r EXCEPT !.answer = a]]
    BY <1>3, <1>5 DEF B!Serve
  <1>7. [r EXCEPT !.answer = a] \in Asked(sent)
    <2>1. CASE r.op = "count"
      <3>1. a = [status |-> "ok", unread |-> B!Unread]
        BY <1>5, <2>1
      <3> QED
        BY <1>2, <1>3, <2>1, <3>1, UnreadCounts DEF Asked
    <2>2. CASE r.op = "list"
      <3>1. a = [status |-> "ok", items |-> B!PageOf(r.arg), total |-> sent]
        BY <1>5, <2>2
      <3>2. r.arg \in Nat \ {0}
        BY <1>2, <1>3, <2>2, AskedHolds, BellNumbers
      <3>3. B!PageOf(r.arg) \in Seq(Notices(sent))
        BY <3>2, PageIsSent
      <3> QED
        BY <1>2, <1>3, <2>2, <3>1, <3>3 DEF Asked
    <2>3. CASE r.op \notin {"count", "list"}
      <3>1. a = [status |-> "ok"]
        BY <1>5, <2>3
      <3> QED
        BY <1>2, <1>3, <2>3, <3>1 DEF Asked, Done
    <2> QED
      BY <2>1, <2>2, <2>3
  <1>8. net' \in Seq(Asked(sent)) /\ Len(net') = Len(net)
    <2>1. net \in Seq(Asked(sent))
      BY DEF BellInv
    <2> QED
      BY <1>6, <1>7, <2>1, OneChanged
  <1> QED
    BY <1>1, <1>4, <1>8 DEF BellInv

LEMMA BellHears ==
  ASSUME B!BellConstants, BellInv, B!Notify \/ B!ReadElsewhere
  PROVE  BellInv'
  <1>1. UNCHANGED <<net, unreadCount, list, total, page, open, loading, loadError, markingAll>>
    BY DEF B!Notify, B!ReadElsewhere, B!ClientUnchanged, B!listVars
  <1>2. sent \in Nat /\ sent \in 0 .. MaxSent /\ MaxSent \in Nat
    BY BellNumbers DEF BellInv
  <1>3. CASE B!Notify
    <2>1. sent' = sent + 1 /\ sent < MaxSent /\ read' = read
      BY <1>3 DEF B!Notify
    <2>2. sent' \in 0 .. MaxSent /\ read' \subseteq 1 .. sent'
      BY <1>2, <2>1 DEF BellInv
    <2>3. list' \in Seq(Notices(sent')) /\ net' \in Seq(Asked(sent'))
      BY <1>1, <1>2, <2>1, MoreAreSent DEF BellInv
    <2> QED
      BY <1>1, <2>2, <2>3 DEF BellInv
  <1>4. CASE B!ReadElsewhere
    <2>1. read' = 1 .. sent /\ sent' = sent
      BY <1>4 DEF B!ReadElsewhere
    <2> QED
      BY <1>1, <2>1 DEF BellInv
  <1> QED
    BY <1>3, <1>4

-----------------------------------------------------------------------------
\* The answers.
LEMMA BellIsTold ==
  ASSUME B!BellConstants, BellInv, NEW i \in DOMAIN net,
         \/ B!ShowCount(i) \/ B!ShowList(i) \/ B!ShowAllMarked(i) \/ B!Marked(i) \/ B!LookedUp(i)
         \/ B!Fail(i)
  PROVE  BellInv'
  <1>1. /\ sent \in Nat /\ sent \in 0 .. MaxSent /\ net[i] \in Asked(sent) /\ Len(net) \in Nat
        /\ MaxRequests \in Nat /\ Len(net) <= MaxRequests
    BY BellNumbers, LenProperties DEF BellInv
  <1>2. sent' = sent /\ read' = read
    BY DEF B!ShowCount, B!ShowList, B!ShowAllMarked, B!Marked, B!LookedUp, B!Fail, B!Comes,
           B!ApiUnchanged
  <1>3. PICK rest : rest = B!RemoveAt(net, i)
    OBVIOUS
  <1>4. rest \in Seq(Asked(sent)) /\ Len(rest) = Len(net) - 1
    <2>1. net \in Seq(Asked(sent))
      BY DEF BellInv
    <2> QED
      BY <1>3, <2>1, OneLess
  <1>5. ASSUME NEW r \in Asked(sent)
        PROVE  rest \o <<r>> \in Seq(Asked(sent)) /\ Len(rest \o <<r>>) <= MaxRequests
    <2>1. <<r>> \in Seq(Asked(sent)) /\ Len(<<r>>) = 1
      BY <1>5
    <2>2. rest \o <<r>> \in Seq(Asked(sent)) /\ Len(rest \o <<r>>) = Len(rest) + Len(<<r>>)
      BY <1>4, <2>1, ConcatProperties
    <2> QED
      BY <1>1, <1>4, <2>1, <2>2
  <1>6. rest \o <<>> = rest
    BY <1>4, ConcatEmptySeq
  <1>7. CASE B!ShowCount(i)
    <2>1. PICK grew : grew = (open /\ net[i].answer.unread > unreadCount)
      OBVIOUS
    <2>2. /\ unreadCount' = net[i].answer.unread
          /\ net' = rest \o (IF grew THEN <<B!Request("list", 1)>> ELSE <<>>)
          /\ loading' = (loading \/ grew) /\ loadError' = (loadError /\ ~grew)
          /\ UNCHANGED <<open, list, total, page, markingAll>>
          /\ net[i].op = "count" /\ net[i].answer.status = "ok"
      BY <1>3, <1>7, <2>1 DEF B!ShowCount, B!Comes
    <2>3. unreadCount' \in 0 .. MaxSent
      BY <1>1, <2>2, AskedHolds, BellNumbers
    <2>4. net' = rest \o <<B!Request("list", 1)>> \/ net' = rest
      BY <1>6, <2>2
    <2>5. PICK r : r = B!Request("list", 1)
      OBVIOUS
    <2>6. net' \in Seq(Asked(sent)) /\ Len(net') <= MaxRequests
      <3>1. r \in Asked(sent) /\ 1 \in Nat \ {0}
        BY <1>1, <2>5, AskedFirst
      <3>2. CASE net' = rest
        BY <1>1, <1>4, <3>2
      <3>3. CASE net' = rest \o <<r>>
        BY <1>5, <3>1, <3>3
      <3> QED
        BY <2>4, <2>5, <3>2, <3>3
    <2>7. {open, loading, loadError, markingAll}' \subseteq BOOLEAN
      BY <2>2 DEF BellInv
    <2> QED
      BY <1>2, <2>2, <2>3, <2>6, <2>7 DEF BellInv
  <1>8. CASE B!ShowList(i)
    <2>1. /\ list' = IF net[i].arg = 1 THEN net[i].answer.items
                     ELSE (IF list = B!NoList THEN <<>> ELSE list) \o net[i].answer.items
          /\ total' = net[i].answer.total /\ page' = net[i].arg /\ loading' = FALSE
          /\ net' = rest /\ UNCHANGED <<unreadCount, open, loadError, markingAll>>
          /\ net[i].op = "list" /\ net[i].answer.status = "ok"
      BY <1>3, <1>8 DEF B!ShowList, B!Comes
    <2>2. /\ net[i].answer.items \in Seq(Notices(sent)) /\ total' \in 0 .. MaxSent
          /\ page' \in Nat \ {0}
      BY <1>1, <2>1, AskedHolds, BellNumbers
    <2>3. list' \in Seq(Notices(sent))
      <3>1. PICK before : before = IF list = B!NoList THEN <<>> ELSE list
        OBVIOUS
      <3>2. before \in Seq(Notices(sent))
        <4>1. before = <<>> \/ before = list
          BY <3>1
        <4> QED
          BY <4>1, EmptySeq DEF BellInv
      <3>3. PICK items : items = net[i].answer.items
        OBVIOUS
      <3>4. before \o items \in Seq(Notices(sent))
        BY <2>2, <3>2, <3>3, ConcatProperties
      <3> QED
        BY <2>1, <2>2, <3>1, <3>3, <3>4
    <2>4. net' \in Seq(Asked(sent)) /\ Len(net') <= MaxRequests
      BY <1>1, <1>4, <2>1
    <2> QED
      BY <1>2, <2>1, <2>2, <2>3, <2>4 DEF BellInv
  <1>9. CASE B!ShowAllMarked(i)
    <2>1. /\ unreadCount' = 0 /\ markingAll' = FALSE /\ net' = rest
          /\ list' = list \/ list' = B!ShownRead(1 .. MaxSent)
          /\ UNCHANGED <<open, total, page, loading, loadError>>
      BY <1>3, <1>9 DEF B!ShowAllMarked
    <2>2. list' \in Seq(Notices(sent))
      BY <2>1, ShownReadFits DEF BellInv
    <2>3. net' \in Seq(Asked(sent)) /\ Len(net') <= MaxRequests
      BY <1>1, <1>4, <2>1
    <2>4. unreadCount' \in 0 .. MaxSent
      BY <2>1, BellNumbers
    <2>5. {open, loading, loadError, markingAll}' \subseteq BOOLEAN
      BY <2>1 DEF BellInv
    <2> QED
      BY <1>2, <2>1, <2>2, <2>3, <2>4, <2>5 DEF BellInv
  <1>10. CASE B!Marked(i)
    <2>1. /\ net' = rest
          /\ UNCHANGED <<unreadCount, open, list, total, page, loading, loadError, markingAll>>
      BY <1>3, <1>10 DEF B!Marked, B!listVars
    <2>2. net' \in Seq(Asked(sent)) /\ Len(net') <= MaxRequests
      BY <1>1, <1>4, <2>1
    <2> QED
      BY <1>2, <2>1, <2>2 DEF BellInv
  <1>11. CASE B!LookedUp(i)
    <2>1. PICK id : id = net[i].arg[1]
      OBVIOUS
    <2>2. PICK found : found = net[i].arg[2]
      OBVIOUS
    <2>3. /\ net' = rest \o (IF found = B!RouteTo(id).lookups THEN <<>>
                             ELSE <<B!Request("lookup", <<id, found + 1>>)>>)
          /\ UNCHANGED <<unreadCount, open, list, total, page, loading, loadError, markingAll>>
          /\ net[i].op = "lookup"
      BY <1>3, <1>11, <2>1, <2>2 DEF B!LookedUp, B!Comes, B!listVars
    <2>4. id \in 1 .. MaxSent /\ found + 1 \in Nat
      BY <1>1, <2>1, <2>2, <2>3, AskedHolds, BellNumbers
    <2>5. PICK r : r = B!Request("lookup", <<id, found + 1>>)
      OBVIOUS
    <2>6. r \in Asked(sent) /\ (net' = rest \/ net' = rest \o <<r>>)
      BY <1>1, <1>6, <2>3, <2>4, <2>5, AskedFirst
    <2>7. net' \in Seq(Asked(sent)) /\ Len(net') <= MaxRequests
      <3>1. CASE net' = rest
        BY <1>1, <1>4, <3>1
      <3>2. CASE net' = rest \o <<r>>
        BY <1>5, <2>6, <3>2
      <3> QED
        BY <2>6, <3>1, <3>2
    <2> QED
      BY <1>2, <2>3, <2>7 DEF BellInv
  <1>12. CASE B!Fail(i)
    <2>1. /\ net' = rest /\ UNCHANGED <<unreadCount, open, list, total, page>>
          /\ loading' = (loading /\ net[i].op # "list")
          /\ loadError' = (loadError \/ net[i].op = "list")
          /\ markingAll' = (markingAll /\ net[i].op # "all")
      BY <1>3, <1>12 DEF B!Fail
    <2>2. net' \in Seq(Asked(sent)) /\ Len(net') <= MaxRequests
      BY <1>1, <1>4, <2>1
    <2>3. {open, loading, loadError, markingAll}' \subseteq BOOLEAN
      BY <2>1 DEF BellInv
    <2> QED
      BY <1>2, <2>1, <2>2, <2>3 DEF BellInv
  <1> QED
    BY <1>7, <1>8, <1>9, <1>10, <1>11, <1>12

LEMMA BellGoesOn == B!BellConstants /\ BellInv /\ [B!Next]_(B!bellVars) => BellInv'
  BY BellSame, BellAsks, BellSelects, BellIsServed, BellHears, BellIsTold DEF B!Next

LEMMA BellTypes == BellInv => B!TypeOK
  BY DEF BellInv, B!TypeOK

\* The variables of the bell keep their types, however its counts, its pages and its
\* marks interleave: what is read was sent, and the badge never falls below zero
\* (NotificationBell.tsx).
THEOREM BellTypeCorrect == ASSUME B!BellConstants PROVE B!Spec => []B!TypeOK
  <1>1. B!Init => BellInv
    BY BellStarts
  <1>2. BellInv /\ [B!Next]_(B!bellVars) => BellInv'
    BY BellGoesOn
  <1> QED
    BY <1>1, <1>2, BellTypes, PTL DEF B!Spec
=============================================================================
