-------------------------- MODULE OfferPagesProofs --------------------------
(***************************************************************************)
(* Proofs about OfferPages, for any offers, rows, gestures and requests in *)
(* flight: an order is paid as it was shown to its buyer, a save overwrites*)
(* only what has become stale, and a product that is left without an offer *)
(* was told of.                                                            *)
(***************************************************************************)
EXTENDS OfferPages, AsyncViewProofs, FiniteSetTheorems

-----------------------------------------------------------------------------
(***************************************************************************)
(* The inductive invariant                                                 *)
(***************************************************************************)
Fields == {"price", "stock", "available"}

EditorForms ==
  [price : DOMAIN ApiPrice, stock : {-1} \union 0 .. MaxStock, available : BOOLEAN,
   edited : SUBSET Fields]

\* What a load brings to a page: rows of the API, among them the one it is of.
DataOK(page, data) ==
  page \in {"product", "editor"} =>
    /\ \A o \in DOMAIN data.row : o \in Offers /\ data.row[o] \in Rows
    /\ page = "editor" => data.of \in DOMAIN data.row

\* The fields of a request.
Shaped(r) ==
  /\ {"op", "answer"} \subseteq DOMAIN r
  /\ r.op \in {"load", "buy", "save", "product", "delete", "add", "publish"}
  /\ r.op # "load" => "mounted" \in DOMAIN r
  /\ r.op = "buy" => {"offer", "quantity", "expected", "shown", "amid"} \subseteq DOMAIN r
  /\ r.op = "save" => {"offer", "edited", "to", "shown"} \subseteq DOMAIN r
  /\ r.op = "add" => "sent" \in DOMAIN r
  /\ r.op = "publish" => "product" \in DOMAIN r

\* A purchase asks for what the screen showed.
BuyOK(r) ==
  r.op = "buy" =>
    /\ r.offer \in Offers /\ r.shown \in Rows /\ r.quantity \in Nat \ {0}
    /\ r.expected = r.shown.price
    /\ r.amid \in BOOLEAN
    /\ ~r.amid => r.quantity <= r.shown.stock

\* A save sends what the screen showed, but for the fields that were edited.
SaveOK(r) ==
  r.op = "save" =>
    /\ r.offer \in Offers /\ r.shown \in Rows /\ r.to \in Rows
    /\ \A field \in Fields \ r.edited : r.to[field] = r.shown[field]

AnswerOK(page, r) ==
  /\ r.answer.status \in {"pending", "ok", "refused"}
  /\ r.op = "load" /\ r.answer.status = "ok" => DataOK(page, r.answer.data)
  /\ r.op = "save" /\ r.answer.status = "ok" => r.answer.before \in Rows

RequestOK(page, r) == Shaped(r) /\ BuyOK(r) /\ SaveOK(r) /\ AnswerOK(page, r)

PipeOK(page, pipe) == IsSeq(pipe) /\ \A i \in DOMAIN pipe : RequestOK(page, pipe[i])

RequestsOK == PipeOK(scene, net) /\ Len(net) <= MaxRequests

Fetching(pipe) == \E i \in DOMAIN pipe : pipe[i].op = "load"
OneLoad(pipe) == \A i, j \in DOMAIN pipe : pipe[i].op = "load" /\ pipe[j].op = "load" => i = j

\* Without overlap there is one load at most, and the page waits for it.
LoadsOK == ~overlapped => OneLoad(net) /\ (view.status # "loading" => ~Fetching(net))

ApiOK ==
  /\ row \in [Offers -> Rows] /\ live \subseteq Offers
  /\ IsSeq(orders) /\ BoughtAsShown

ViewOK ==
  /\ scene \in {"product", "editor", "new", "left"}
  /\ view.status \in {"loading", "error", "success"}
  /\ view.status = "success" => DataOK(scene, view.data)
  /\ form # NoForm => view.status = "success"
  /\ pending \in BOOLEAN /\ overlapped \in BOOLEAN
  /\ dialog \in {"none", "offer", "product"}

\* The panel counts units of the row it shows.
PanelOK ==
  scene = "product" /\ view.status = "success" =>
    /\ form \in [selected : Offers \union {0}, quantity : Nat \ {0}]
    /\ ~overlapped /\ form.selected \in availableOffers(view.data) =>
         form.quantity <= view.data.row[form.selected].stock

\* The editor differs from the row it shows in what was edited.
EditorOK ==
  scene = "editor" /\ form # NoForm =>
    /\ form \in EditorForms
    /\ \A field \in Fields \ form.edited : form[field] = view.data.row[view.data.of][field]

IInv == ApiOK /\ ViewOK /\ RequestsOK /\ LoadsOK /\ PanelOK /\ EditorOK

-----------------------------------------------------------------------------
(***************************************************************************)
(* Requests in flight                                                      *)
(***************************************************************************)

\* The same request, whatever its answer, and whoever waits for it.
Alike(q, r) ==
  /\ DOMAIN q = DOMAIN r
  /\ \A key \in DOMAIN r \ {"answer", "mounted"} : q[key] = r[key]

LEMMA AlikeOp == ASSUME NEW q, NEW r, Shaped(r), Alike(q, r) PROVE q.op = r.op
  BY DEF Shaped, Alike

LEMMA AlikeOK ==
  ASSUME NEW page, NEW q, NEW r, RequestOK(page, r), Alike(q, r), AnswerOK(page, q)
  PROVE  RequestOK(page, q)
  <1>1. Shaped(r) /\ q.op = r.op
    BY AlikeOp DEF RequestOK
  <1>2. Shaped(q)
    BY <1>1 DEF Shaped, Alike
  <1>3. BuyOK(q)
    <2>1. r.op = "buy" => /\ q.offer = r.offer /\ q.quantity = r.quantity /\ q.shown = r.shown
                          /\ q.expected = r.expected /\ q.amid = r.amid
      BY <1>1 DEF Shaped, Alike
    <2> QED
      BY <1>1, <2>1 DEF RequestOK, BuyOK
  <1>4. SaveOK(q)
    <2>1. r.op = "save" => /\ q.offer = r.offer /\ q.shown = r.shown /\ q.to = r.to
                           /\ q.edited = r.edited
      BY <1>1 DEF Shaped, Alike
    <2> QED
      BY <1>1, <2>1 DEF RequestOK, SaveOK
  <1> QED
    BY <1>2, <1>3, <1>4 DEF RequestOK

LEMMA SameAnswer ==
  ASSUME NEW page, NEW q, NEW r, RequestOK(page, r), Alike(q, r), q.answer = r.answer
  PROVE  RequestOK(page, q)
  BY AlikeOK, AlikeOp DEF RequestOK, AnswerOK

\* Requests that stay alike.
LEMMA StillOK ==
  ASSUME NEW page, NEW s, PipeOK(page, s), NEW t, t = [i \in DOMAIN s |-> t[i]],
         \A i \in DOMAIN s : Alike(t[i], s[i]) /\ (AnswerOK(page, t[i]) \/ t[i].answer = s[i].answer)
  PROVE  /\ PipeOK(page, t) /\ Len(t) = Len(s) /\ DOMAIN t = DOMAIN s
         /\ \A i \in DOMAIN s : t[i].op = s[i].op
  <1>1. IsSeq(t) /\ Len(t) = Len(s) /\ DOMAIN t = DOMAIN s
    BY Replaced DEF PipeOK
  <1>2. \A i \in DOMAIN s : RequestOK(page, t[i])
    BY AlikeOK, SameAnswer DEF PipeOK
  <1>3. \A i \in DOMAIN s : t[i].op = s[i].op
    BY AlikeOp DEF PipeOK, RequestOK
  <1> QED
    BY <1>1, <1>2, <1>3 DEF PipeOK

\* The form that asked goes with its state.
LEMMA Unmounts ==
  ASSUME NEW page, NEW s, PipeOK(page, s)
  PROVE  /\ PipeOK(page, Unmounted(s)) /\ Len(Unmounted(s)) = Len(s)
         /\ DOMAIN Unmounted(s) = DOMAIN s
         /\ \A i \in DOMAIN s : /\ Alike(Unmounted(s)[i], s[i])
                                /\ Unmounted(s)[i].answer = s[i].answer
                                /\ Unmounted(s)[i].op = s[i].op
  <1>1. PICK u : u = Unmounted(s)
    OBVIOUS
  <1>2. u = [i \in DOMAIN s |-> u[i]]
    BY <1>1 DEF Unmounted
  <1>3. ASSUME NEW i \in DOMAIN s
        PROVE  Alike(u[i], s[i]) /\ u[i].answer = s[i].answer
    <2>1. CASE s[i].op = "load"
      BY <1>1, <2>1 DEF Unmounted, Alike
    <2>2. CASE s[i].op # "load"
      <3>1. u[i] = [s[i] EXCEPT !.mounted = FALSE]
        BY <1>1, <2>2 DEF Unmounted
      <3> QED
        BY <3>1 DEF Alike
    <2> QED
      BY <2>1, <2>2
  <1> QED
    BY <1>1, <1>2, <1>3, StillOK

\* A request more.
LEMMA Sends ==
  ASSUME NEW page, NEW s, PipeOK(page, s), NEW m, RequestOK(page, m)
  PROVE  LET t == Append(s, m)
         IN  /\ PipeOK(page, t) /\ Len(t) = Len(s) + 1
             /\ \A i \in DOMAIN s : i \in DOMAIN t /\ t[i] = s[i]
             /\ Len(s) + 1 \in DOMAIN t /\ t[Len(s) + 1] = m
             /\ \A i \in DOMAIN t : i \in DOMAIN s \/ i = Len(s) + 1
  <1>1. PICK t : t = Append(s, m)
    OBVIOUS
  <1>2. /\ IsSeq(t) /\ Len(t) = Len(s) + 1 /\ t[Len(s) + 1] = m
        /\ \A i \in DOMAIN s : t[i] = s[i]
    BY <1>1, Appended DEF PipeOK
  <1>3. /\ Len(s) \in Nat /\ DOMAIN s = 1 .. Len(s) /\ DOMAIN t = 1 .. Len(s) + 1
    BY <1>2, Indices DEF PipeOK
  <1>4. \A i \in DOMAIN t : i \in DOMAIN s \/ i = Len(s) + 1
    BY <1>3
  <1>5. Len(s) + 1 \in DOMAIN t /\ \A i \in DOMAIN s : i \in DOMAIN t
    BY <1>3
  <1>6. PipeOK(page, t)
    BY <1>2, <1>4 DEF PipeOK
  <1> QED
    BY <1>1, <1>2, <1>4, <1>5, <1>6

\* A request less.
LEMMA Drops ==
  ASSUME NEW page, NEW s, PipeOK(page, s), NEW i \in DOMAIN s
  PROVE  LET t == RemoveAt(s, i)
         IN  /\ PipeOK(page, t) /\ Len(t) = Len(s) - 1
             /\ \A j \in DOMAIN t : \E k \in DOMAIN s \ {i} : t[j] = s[k]
             /\ \A k \in DOMAIN s \ {i} : \E j \in DOMAIN t : t[j] = s[k]
             /\ OneLoad(s) => OneLoad(t)
             /\ OneLoad(s) /\ s[i].op = "load" => ~Fetching(t)
             /\ Fetching(t) => Fetching(s)
  <1>1. PICK t : t = RemoveAt(s, i)
    OBVIOUS
  <1>2. /\ IsSeq(t) /\ Len(t) = Len(s) - 1
        /\ \A j \in DOMAIN t : t[j] = s[IF j < i THEN j ELSE j + 1]
    BY <1>1, Removed DEF PipeOK
  <1>3. /\ Len(s) \in Nat /\ DOMAIN s = 1 .. Len(s)
        /\ Len(t) \in Nat /\ DOMAIN t = 1 .. Len(t)
    BY <1>2, Indices DEF PipeOK
  <1> DEFINE from(j) == IF j < i THEN j ELSE j + 1
  <1>4. /\ \A j \in DOMAIN t : from(j) \in DOMAIN s \ {i}
        /\ \A j, k \in DOMAIN t : from(j) = from(k) => j = k
        /\ \A k \in DOMAIN s \ {i} : \E j \in DOMAIN t : from(j) = k
    <2>1. /\ \A j \in DOMAIN t : from(j) \in DOMAIN s \ {i}
          /\ \A j, k \in DOMAIN t : from(j) = from(k) => j = k
      BY <1>2, <1>3
    <2>2. ASSUME NEW k \in DOMAIN s \ {i}
          PROVE  \E j \in DOMAIN t : from(j) = k
      <3>1. CASE k < i
        BY <1>2, <1>3, <3>1
      <3>2. CASE k > i
        <4>1. k - 1 \in DOMAIN t /\ from(k - 1) = k
          BY <1>2, <1>3, <3>2
        <4> QED
          BY <4>1
      <3> QED
        BY <1>3, <3>1, <3>2
    <2> QED
      BY <2>1, <2>2
  <1>5. \A j \in DOMAIN t : t[j] = s[from(j)]
    BY <1>2
  <1> HIDE DEF from
  <1>6. /\ \A j \in DOMAIN t : \E k \in DOMAIN s \ {i} : t[j] = s[k]
        /\ \A k \in DOMAIN s \ {i} : \E j \in DOMAIN t : t[j] = s[k]
    BY <1>4, <1>5
  <1>7. PipeOK(page, t)
    BY <1>2, <1>6 DEF PipeOK
  <1>8. /\ OneLoad(s) => OneLoad(t)
        /\ Fetching(t) => Fetching(s)
        /\ OneLoad(s) /\ s[i].op = "load" => ~Fetching(t)
    BY <1>4, <1>5 DEF OneLoad, Fetching
  <1> QED
    BY <1>1, <1>2, <1>6, <1>7, <1>8

\* The API answers.
LEMMA Answers ==
  ASSUME NEW page, NEW s, PipeOK(page, s), NEW i \in DOMAIN s,
         NEW t, t = [j \in DOMAIN s |-> t[j]], \A j \in DOMAIN s : j # i => t[j] = s[j],
         Alike(t[i], s[i]), AnswerOK(page, t[i])
  PROVE  /\ PipeOK(page, t) /\ Len(t) = Len(s) /\ DOMAIN t = DOMAIN s
         /\ \A j \in DOMAIN s : t[j].op = s[j].op
  <1>1. ASSUME NEW j \in DOMAIN s
        PROVE  Alike(t[j], s[j]) /\ (AnswerOK(page, t[j]) \/ t[j].answer = s[j].answer)
    BY DEF Alike
  <1> QED
    BY <1>1, StillOK

-----------------------------------------------------------------------------
(***************************************************************************)
(* Steps of the user                                                       *)
(***************************************************************************)

LEMMA Numbers == OfferConstants => MaxStock \in Nat /\ MaxRequests \in Nat /\ MaxRequests > 0
  <1> SUFFICES ASSUME OfferConstants
               PROVE  MaxStock \in Nat /\ MaxRequests \in Nat /\ MaxRequests > 0
    OBVIOUS
  <1>1. {MaxStock, MaxProducts, MaxOthers, MaxClicks} \subseteq Nat /\ MaxRequests \in Nat \ {0}
    BY DEF OfferConstants
  <1> QED
    BY <1>1

LEMMA ApiPrices ==
  OfferConstants => \A text \in DOMAIN ApiPrice : ApiPrice[text] \in Prices \union {""}
  BY DEF OfferConstants

LEMMA ShelfRows == OfferConstants => Shelf \in [Offers -> Rows]
  BY DEF OfferConstants

\* The page starts in what it asks first.
LEMMA InitIInv == ASSUME OfferConstants PROVE Init => IInv
  <1> SUFFICES ASSUME Init
               PROVE  IInv
    OBVIOUS
  <1>1. /\ scene \in {"product", "editor", "new"} /\ row = Shelf /\ live = Offers /\ orders = <<>>
        /\ view = Loading /\ form = NoForm /\ pending = FALSE /\ dialog = "none"
        /\ net = <<Loads(route)>> /\ overlapped = FALSE
    BY DEF Init
  <1>2. view.status = "loading"
    BY <1>1 DEF Loading
  <1>3. ApiOK
    BY <1>1, ShelfRows DEF ApiOK, BoughtAsShown, IsSeq
  <1>4. ViewOK /\ PanelOK /\ EditorOK
    BY <1>1, <1>2 DEF ViewOK, PanelOK, EditorOK
  <1>5. RequestOK(scene, Loads(route))
    BY DEF RequestOK, Loads, Waiting, Shaped, BuyOK, SaveOK, AnswerOK
  <1>6. net = [i \in 1 .. 1 |-> Loads(route)]
    BY <1>1
  <1>7. RequestsOK
    <2>1. net \in Seq({Loads(route)}) /\ {net[i] : i \in DOMAIN net} = {Loads(route)} /\ Len(net) = 1
      BY <1>1
    <2>2. \A i \in DOMAIN net : RequestOK(scene, net[i])
      BY <1>5, <1>6
    <2> QED
      BY <2>1, <2>2, Numbers DEF RequestsOK, PipeOK, IsSeq
  <1>8. LoadsOK
    BY <1>2, <1>6 DEF LoadsOK, OneLoad
  <1> QED
    BY <1>3, <1>4, <1>7, <1>8 DEF IInv

LEMMA ApiFrame ==
  ASSUME ApiOK, UNCHANGED <<row, live, orders>>
  PROVE  ApiOK'
  BY DEF ApiOK, BoughtAsShown, IsSeq

\* useAsync asks for what a route names.
LEMMA LoadIInv ==
  ASSUME ApiOK, ViewOK, NEW pipe, PipeOK(scene, pipe), Len(pipe) < MaxRequests, NEW r,
         Load(pipe, r), UNCHANGED <<scene, row, live, orders>>, OfferConstants
  PROVE  IInv'
  <1>1. /\ PipeOK(scene, Unmounted(pipe)) /\ Len(Unmounted(pipe)) = Len(pipe)
        /\ DOMAIN Unmounted(pipe) = DOMAIN pipe
        /\ \A i \in DOMAIN pipe : Unmounted(pipe)[i].op = pipe[i].op
    BY Unmounts
  <1>2. net' = Append(Unmounted(pipe), Loads(r)) /\ overlapped' = Fetching(pipe)
    BY DEF Load, Requested, Fetching
  <1>3. /\ view'.status = "loading" /\ form' = NoForm /\ pending' = FALSE /\ dialog' = "none"
    BY DEF Load, Loading
  <1>4. RequestOK(scene, Loads(r))
    BY DEF RequestOK, Loads, Waiting, Shaped, BuyOK, SaveOK, AnswerOK
  <1>5. /\ PipeOK(scene, net') /\ Len(net') = Len(pipe) + 1
        /\ \A i \in DOMAIN net' :
             \/ i \in DOMAIN pipe /\ net'[i].op = pipe[i].op
             \/ i = Len(pipe) + 1
    BY <1>1, <1>2, <1>4, Sends
  <1>6. Len(pipe) \in Nat
    BY Indices DEF PipeOK
  <1>7. ApiOK'
    BY ApiFrame
  <1>8. ViewOK'
    BY <1>2, <1>3 DEF ViewOK, Fetching
  <1>9. PanelOK' /\ EditorOK'
    BY <1>3 DEF PanelOK, EditorOK
  <1>10. RequestsOK'
    BY <1>5, <1>6, Numbers DEF RequestsOK
  <1>11. LoadsOK'
    <2> SUFFICES ASSUME ~overlapped'
                 PROVE  OneLoad(net')
      BY <1>3 DEF LoadsOK
    <2>1. \A i \in DOMAIN pipe : pipe[i].op # "load"
      BY <1>2 DEF Fetching
    <2> QED
      BY <1>5, <2>1 DEF OneLoad
  <1> QED
    BY <1>7, <1>8, <1>9, <1>10, <1>11 DEF IInv

\* A form sends a request.
LEMMA SendIInv ==
  ASSUME IInv, NEW m, Send(m), RequestOK(scene, m), m.op # "load", OfferConstants
  PROVE  IInv'
  <1>1. /\ net' = Append(net, m) /\ Len(net) < MaxRequests
        /\ pending' = TRUE
        /\ UNCHANGED <<scene, row, live, orders, view, form, dialog, overlapped>>
    BY DEF Send, Click, ApiUnchanged
  <1>2. /\ PipeOK(scene, net') /\ Len(net') = Len(net) + 1
        /\ \A i \in DOMAIN net : i \in DOMAIN net' /\ net'[i] = net[i]
        /\ net'[Len(net) + 1] = m
        /\ \A i \in DOMAIN net' : i \in DOMAIN net \/ i = Len(net) + 1
    BY <1>1, Sends DEF IInv, RequestsOK
  <1>3. Len(net) \in Nat
    BY Indices DEF IInv, RequestsOK, PipeOK
  <1>4. RequestsOK'
    BY <1>1, <1>2, <1>3, Numbers DEF RequestsOK
  <1>5. LoadsOK'
    BY <1>1, <1>2 DEF IInv, LoadsOK, OneLoad, Fetching
  <1>6. ViewOK' /\ PanelOK' /\ EditorOK'
    BY <1>1 DEF IInv, ViewOK, PanelOK, EditorOK
  <1> QED
    BY <1>1, <1>4, <1>5, <1>6, ApiFrame DEF IInv

\* Only the dialog changes.
LEMMA DialogIInv ==
  ASSUME IInv, dialog' \in {"none", "offer", "product"},
         UNCHANGED <<scene, row, live, orders, view, form, pending, net, overlapped>>
  PROVE  IInv'
  BY ApiFrame DEF IInv, ViewOK, PanelOK, EditorOK, RequestsOK, LoadsOK

\* Only the form changes.
LEMMA FillIInv ==
  ASSUME IInv, NEW new, Fill(new), PanelOK', EditorOK'
  PROVE  IInv'
  <1>1. /\ form # NoForm
        /\ UNCHANGED <<scene, row, live, orders, view, pending, dialog, net, overlapped>>
    BY DEF Fill, Click, ApiUnchanged
  <1> QED
    BY <1>1, ApiFrame DEF IInv, ViewOK, RequestsOK, LoadsOK

LEMMA RoutesIInv ==
  ASSUME IInv, OfferConstants, NEW r, ChangeRoute(r) \/ Retry
  PROVE  IInv'
  <1>1. PICK t : Load(net, t)
    BY DEF ChangeRoute, Retry
  <1>2. UNCHANGED <<scene, row, live, orders>> /\ Len(net) < MaxRequests
    BY DEF ChangeRoute, Retry, Click, ApiUnchanged
  <1> QED
    BY <1>1, <1>2, LoadIInv DEF IInv, RequestsOK

\* The panel: at least one unit, and no more than it shows.
LEMMA PanelIInv ==
  ASSUME IInv, OfferConstants,
         \/ \E o \in Offers : SelectOffer(o)
         \/ \E n \in Int : UpdateQuantity(n)
  PROVE  IInv'
  <1>1. scene = "product" /\ view.status = "success" /\ DataOK(scene, view.data)
    BY DEF SelectOffer, UpdateQuantity, Buying, IInv, ViewOK
  <1>2. \A o \in availableOffers(view.data) :
           /\ o \in Offers /\ view.data.row[o].stock \in Nat \ {0}
    <2>1. \A o \in DOMAIN view.data.row : o \in Offers /\ view.data.row[o].stock \in 0 .. MaxStock
      BY <1>1 DEF DataOK, Rows
    <2> QED
      BY <2>1, Numbers DEF availableOffers
  <1>3. ASSUME NEW new, Fill(new), new.selected \in availableOffers(view.data),
               new \in [selected : Offers \union {0}, quantity : Nat \ {0}],
               new.quantity <= view.data.row[new.selected].stock
        PROVE  IInv'
    <2>1. form' = new /\ UNCHANGED <<scene, view, overlapped>>
      BY <1>3 DEF Fill, Click
    <2>2. PanelOK' /\ EditorOK'
      BY <1>1, <1>3, <2>1 DEF PanelOK, EditorOK
    <2> QED
      BY <1>3, <2>2, FillIInv
  <1>4. ASSUME NEW o \in Offers, SelectOffer(o)
        PROVE  IInv'
    <2>1. PICK new : new = [selected |-> o, quantity |-> 1]
      OBVIOUS
    <2>2. Fill(new) /\ o \in availableOffers(view.data)
      BY <1>4, <2>1 DEF SelectOffer
    <2>3. 1 <= view.data.row[o].stock
      BY <1>2, <2>2
    <2> QED
      BY <1>3, <2>1, <2>2, <2>3
  <1>5. ASSUME NEW n \in Int, UpdateQuantity(n)
        PROVE  IInv'
    <2>1. PICK o \in selectedOffer :
             LET atLeast1 == IF n < 1 THEN 1 ELSE n
                 stock == view.data.row[o].stock
             IN  Fill([form EXCEPT !.quantity = IF atLeast1 > stock THEN stock ELSE atLeast1])
      BY <1>5 DEF UpdateQuantity
    <2>2. o = form.selected /\ o \in availableOffers(view.data)
      BY DEF selectedOffer
    <2>3. PICK stock \in Nat \ {0} : stock = view.data.row[o].stock
      BY <1>2, <2>2
    <2>4. PICK q \in Nat \ {0} :
             /\ q <= stock
             /\ q = LET atLeast1 == IF n < 1 THEN 1 ELSE n
                    IN  IF atLeast1 > stock THEN stock ELSE atLeast1
      OBVIOUS
    <2>5. PICK new : new = [form EXCEPT !.quantity = q]
      OBVIOUS
    <2>6. Fill(new)
      BY <2>1, <2>3, <2>4, <2>5
    <2>7. form \in [selected : Offers \union {0}, quantity : Nat \ {0}]
      BY <1>1 DEF IInv, PanelOK
    <2>8. /\ new \in [selected : Offers \union {0}, quantity : Nat \ {0}]
          /\ new.selected = o /\ new.quantity = q
      BY <2>2, <2>5, <2>7
    <2> QED
      BY <1>3, <2>2, <2>3, <2>4, <2>6, <2>8
  <1> QED
    BY <1>4, <1>5

LEMMA HandleBuyIInv ==
  ASSUME IInv, OfferConstants, HandleBuy
  PROVE  IInv'
  <1>1. PICK o \in selectedOffer :
           Send([op |-> "buy", offer |-> o, quantity |-> form.quantity,
                 expected |-> view.data.row[o].price, shown |-> view.data.row[o],
                 amid |-> overlapped, mounted |-> TRUE, answer |-> Waiting])
    BY DEF HandleBuy
  <1>2. scene = "product" /\ view.status = "success" /\ DataOK(scene, view.data)
    BY DEF HandleBuy, Buying, IInv, ViewOK
  <1>3. o = form.selected /\ o \in availableOffers(view.data) /\ o \in DOMAIN view.data.row
    BY DEF selectedOffer, availableOffers
  <1>4. o \in Offers /\ view.data.row[o] \in Rows
    BY <1>2, <1>3 DEF DataOK
  <1>5. /\ form.quantity \in Nat \ {0} /\ overlapped \in BOOLEAN
        /\ ~overlapped => form.quantity <= view.data.row[o].stock
    BY <1>2, <1>3 DEF IInv, PanelOK, ViewOK
  <1>6. PICK shown \in Rows : shown = view.data.row[o]
    BY <1>4
  <1>7. PICK m : m = [op |-> "buy", offer |-> o, quantity |-> form.quantity,
                      expected |-> shown.price, shown |-> shown,
                      amid |-> overlapped, mounted |-> TRUE, answer |-> Waiting]
    OBVIOUS
  <1>8. Send(m)
    BY <1>1, <1>6, <1>7
  <1>9. RequestOK(scene, m)
    <2>1. m.op = "buy" /\ Shaped(m) /\ AnswerOK(scene, m)
      BY <1>7 DEF Shaped, AnswerOK, Waiting
    <2>2. BuyOK(m)
      BY <1>4, <1>5, <1>6, <1>7 DEF BuyOK
    <2> QED
      BY <2>1, <2>2 DEF RequestOK, SaveOK
  <1> QED
    BY <1>7, <1>8, <1>9, SendIInv

\* The editor: what is changed is marked as edited.
LEMMA EditIInv ==
  ASSUME IInv, OfferConstants,
         \/ \E text \in DOMAIN ApiPrice : EditPrice(text)
         \/ \E n \in {-1, MaxStock} : EditStock(n)
         \/ ToggleAvailable
  PROVE  IInv'
  <1>1. scene = "editor" /\ view.status = "success" /\ form # NoForm
    BY DEF EditPrice, EditStock, ToggleAvailable, Editing
  <1>2. /\ form \in EditorForms
        /\ \A field \in Fields \ form.edited : form[field] = view.data.row[view.data.of][field]
    BY <1>1 DEF IInv, EditorOK
  <1>3. ASSUME NEW field \in Fields, NEW new \in EditorForms, Fill(new),
               new.edited = form.edited \union {field},
               \A other \in Fields \ {field} : new[other] = form[other]
        PROVE  IInv'
    <2>1. form' = new /\ UNCHANGED <<scene, view, overlapped>>
      BY <1>3 DEF Fill, Click
    <2>2. \A other \in Fields \ new.edited :
             new[other] = view.data.row[view.data.of][other]
      BY <1>2, <1>3
    <2>3. PanelOK' /\ EditorOK'
      BY <1>1, <2>1, <2>2 DEF PanelOK, EditorOK
    <2> QED
      BY <1>3, <2>3, FillIInv
  <1>4. ASSUME NEW text \in DOMAIN ApiPrice, EditPrice(text)
        PROVE  IInv'
    <2>1. PICK new : new = [form EXCEPT !.price = text, !.edited = @ \cup {"price"}]
      OBVIOUS
    <2>2. /\ new \in EditorForms /\ new.edited = form.edited \union {"price"}
          /\ new["stock"] = form["stock"] /\ new["available"] = form["available"]
      BY <1>2, <2>1 DEF EditorForms, Fields
    <2>3. Fill(new)
      BY <1>4, <2>1 DEF EditPrice
    <2>4. \A other \in Fields \ {"price"} : new[other] = form[other]
      BY <2>2 DEF Fields
    <2> QED
      BY <1>3, <2>2, <2>3, <2>4 DEF Fields
  <1>5. ASSUME NEW n \in {-1, MaxStock}, EditStock(n)
        PROVE  IInv'
    <2>1. PICK new : new = [form EXCEPT !.stock = n, !.edited = @ \cup {"stock"}]
      OBVIOUS
    <2>2. n \in {-1} \union 0 .. MaxStock
      BY Numbers
    <2>3. /\ new \in EditorForms /\ new.edited = form.edited \union {"stock"}
          /\ new["price"] = form["price"] /\ new["available"] = form["available"]
      BY <1>2, <2>1, <2>2 DEF EditorForms, Fields
    <2>4. Fill(new)
      BY <1>5, <2>1 DEF EditStock
    <2>5. \A other \in Fields \ {"stock"} : new[other] = form[other]
      BY <2>3 DEF Fields
    <2> QED
      BY <1>3, <2>3, <2>4, <2>5 DEF Fields
  <1>6. CASE ToggleAvailable
    <2>1. PICK new : new = [form EXCEPT !.available = ~@, !.edited = @ \cup {"available"}]
      OBVIOUS
    <2>2. /\ new \in EditorForms /\ new.edited = form.edited \union {"available"}
          /\ new["price"] = form["price"] /\ new["stock"] = form["stock"]
      BY <1>2, <2>1 DEF EditorForms, Fields
    <2>3. Fill(new)
      BY <1>6, <2>1 DEF ToggleAvailable
    <2>4. \A other \in Fields \ {"available"} : new[other] = form[other]
      BY <2>2 DEF Fields
    <2> QED
      BY <1>3, <2>2, <2>3, <2>4 DEF Fields
  <1> QED
    BY <1>4, <1>5, <1>6

LEMMA HandleSaveOfferIInv ==
  ASSUME IInv, OfferConstants, HandleSaveOffer
  PROVE  IInv'
  <1>1. scene = "editor" /\ view.status = "success" /\ form # NoForm
    BY DEF HandleSaveOffer, Editing
  <1>2. /\ form \in EditorForms
        /\ \A field \in Fields \ form.edited : form[field] = view.data.row[view.data.of][field]
    BY <1>1 DEF IInv, EditorOK
  <1>3. view.data.of \in Offers /\ view.data.row[view.data.of] \in Rows
    BY <1>1 DEF IInv, ViewOK, DataOK
  <1>4. PICK shown \in Rows : shown = view.data.row[view.data.of]
    BY <1>3
  <1>5. PICK to : to = [price |-> ApiPrice[form.price], stock |-> form.stock,
                        available |-> form.available]
    OBVIOUS
  <1>6. /\ to["price"] = ApiPrice[form.price] /\ to["stock"] = form.stock
        /\ to["available"] = form.available
    BY <1>5
  <1>7. to \in Rows
    <2>1. ApiPrice[form.price] \in Prices
      BY <1>2, ApiPrices DEF HandleSaveOffer, FormIsValid, EditorForms
    <2>2. form.stock \in 0 .. MaxStock /\ form.available \in BOOLEAN
      <3>1. form.stock \in {-1} \union 0 .. MaxStock /\ form.available \in BOOLEAN
        BY <1>2 DEF EditorForms
      <3>2. form.stock >= 0
        BY DEF HandleSaveOffer, FormIsValid
      <3> QED
        BY <3>1, <3>2, Numbers
    <2> QED
      BY <1>5, <2>1, <2>2 DEF Rows
  <1>8. ASSUME NEW field \in Fields \ form.edited
        PROVE  to[field] = shown[field]
    <2>1. form[field] = shown[field]
      BY <1>2, <1>4
    <2>2. CASE field = "price"
      <3>1. shown.price \in Prices
        BY DEF Rows
      <3>2. form.price = shown.price
        BY <2>1, <2>2
      <3> QED
        BY <1>6, <2>2, <3>1, <3>2 DEF Prices
    <2>3. CASE field \in {"stock", "available"}
      BY <1>6, <2>1, <2>3
    <2> QED
      BY <2>2, <2>3 DEF Fields
  <1>9. PICK m : m = [op |-> "save", offer |-> view.data.of, edited |-> form.edited,
                      to |-> to, shown |-> shown, mounted |-> TRUE, answer |-> Waiting]
    OBVIOUS
  <1>10. Send(m)
    BY <1>4, <1>5, <1>9 DEF HandleSaveOffer
  <1>11. RequestOK(scene, m)
    <2>1. m.op = "save" /\ Shaped(m) /\ AnswerOK(scene, m)
      BY <1>9 DEF Shaped, AnswerOK, Waiting
    <2>2. SaveOK(m)
      BY <1>3, <1>7, <1>8, <1>9 DEF SaveOK
    <2> QED
      BY <2>1, <2>2 DEF RequestOK, BuyOK
  <1> QED
    BY <1>9, <1>10, <1>11, SendIInv

\* The other requests carry nothing that is asked of them here.
LEMMA PlainRequest ==
  ASSUME NEW page, NEW m, Shaped(m), m.op \notin {"load", "buy", "save"}, m.answer = Waiting
  PROVE  RequestOK(page, m)
  BY DEF RequestOK, BuyOK, SaveOK, AnswerOK, Waiting

LEMMA OtherSendsIInv ==
  ASSUME IInv, OfferConstants, HandleSaveProduct \/ HandleConfirmDelete \/ HandleSubmit
  PROVE  IInv'
  <1>1. CASE HandleSaveProduct
    <2>1. PICK m : m = [op |-> "product", mounted |-> TRUE, answer |-> Waiting]
      OBVIOUS
    <2>2. Send(m)
      BY <1>1, <2>1 DEF HandleSaveProduct
    <2>3. RequestOK(scene, m) /\ m.op # "load"
      BY <2>1, PlainRequest DEF Shaped
    <2> QED
      BY <2>2, <2>3, SendIInv
  <1>2. CASE HandleConfirmDelete
    <2>1. PICK m : m = [op |-> "delete", target |-> dialog, offer |-> view.data.of,
                        mounted |-> TRUE, answer |-> Waiting]
      OBVIOUS
    <2>2. Send(m)
      BY <1>2, <2>1 DEF HandleConfirmDelete
    <2>3. RequestOK(scene, m) /\ m.op # "load"
      BY <2>1, PlainRequest DEF Shaped
    <2> QED
      BY <2>2, <2>3, SendIInv
  <1>3. CASE HandleSubmit
    <2>1. PICK a : a = [op |-> "add", sent |-> form, mounted |-> TRUE, answer |-> Waiting]
      OBVIOUS
    <2>2. PICK m : m = CreateOffer(form.product, form)
      OBVIOUS
    <2>3. Send(a) \/ Send(m)
      BY <1>3, <2>1, <2>2 DEF HandleSubmit
    <2>4. RequestOK(scene, a) /\ a.op # "load"
      BY <2>1, PlainRequest DEF Shaped
    <2>5. RequestOK(scene, m) /\ m.op # "load"
      BY <2>2, PlainRequest DEF Shaped, CreateOffer
    <2> QED
      BY <2>3, <2>4, <2>5, SendIInv
  <1> QED
    BY <1>1, <1>2, <1>3

\* The dialogs, and the form of a new offer.
LEMMA OtherClicksIInv ==
  ASSUME IInv,
         \/ \E target \in {"offer", "product"} : AskDelete(target)
         \/ CloseDialog
         \/ \E mode : SetMode(mode)
         \/ \E p : ChooseProduct(p)
         \/ \E text : TypePrice(text)
  PROVE  IInv'
  <1>1. CASE \/ \E target \in {"offer", "product"} : AskDelete(target)
             \/ CloseDialog
    <2>1. /\ dialog' \in {"none", "offer", "product"}
          /\ UNCHANGED <<scene, row, live, orders, view, form, pending, net, overlapped>>
      BY <1>1 DEF AskDelete, CloseDialog, Click, ApiUnchanged
    <2> QED
      BY <2>1, DialogIInv
  <1>2. CASE (\E mode : SetMode(mode)) \/ (\E p : ChooseProduct(p)) \/ (\E text : TypePrice(text))
    <2>1. scene = "new" /\ \E new : Fill(new)
      BY <1>2 DEF SetMode, ChooseProduct, TypePrice, Publishing
    <2>2. PICK new : Fill(new)
      BY <2>1
    <2>3. scene' = "new"
      BY <2>1, <2>2 DEF Fill, Click
    <2>4. PanelOK' /\ EditorOK'
      BY <2>3 DEF PanelOK, EditorOK
    <2> QED
      BY <2>2, <2>4, FillIInv
  <1> QED
    BY <1>1, <1>2

-----------------------------------------------------------------------------
(***************************************************************************)
(* Steps of the API                                                        *)
(***************************************************************************)

\* An answer changes nothing of the page until it arrives.
LEMMA ServeIInv ==
  ASSUME IInv, NEW i \in DOMAIN net, NEW answer, Answered(i, answer),
         AnswerOK(scene, [net[i] EXCEPT !.answer = answer]), ApiOK', ClientUnchanged
  PROVE  IInv'
  <1>1. /\ PipeOK(scene, net') /\ Len(net') = Len(net) /\ DOMAIN net' = DOMAIN net
        /\ \A j \in DOMAIN net : net'[j].op = net[j].op
    <2>1. PipeOK(scene, net)
      BY DEF IInv, RequestsOK
    <2>2. /\ net' = [j \in DOMAIN net |-> net'[j]]
          /\ \A j \in DOMAIN net : j # i => net'[j] = net[j]
          /\ net'[i] = [net[i] EXCEPT !.answer = answer]
      BY DEF Answered
    <2>3. PICK t : t = net'
      OBVIOUS
    <2>4. Shaped(net[i])
      BY <2>1 DEF PipeOK, RequestOK
    <2>5. Alike(t[i], net[i])
      BY <2>2, <2>3, <2>4 DEF Alike, Shaped
    <2>6. AnswerOK(scene, t[i])
      BY <2>2, <2>3
    <2>7. t = [j \in DOMAIN net |-> t[j]] /\ \A j \in DOMAIN net : j # i => t[j] = net[j]
      BY <2>2, <2>3
    <2>8. /\ PipeOK(scene, t) /\ Len(t) = Len(net) /\ DOMAIN t = DOMAIN net
          /\ \A j \in DOMAIN net : t[j].op = net[j].op
      BY <2>1, <2>5, <2>6, <2>7, Answers
    <2> QED
      BY <2>3, <2>8
  <1>2. UNCHANGED <<scene, view, form, pending, dialog, overlapped>>
    BY DEF ClientUnchanged
  <1>3. RequestsOK'
    BY <1>1, <1>2 DEF IInv, RequestsOK
  <1>4. LoadsOK'
    BY <1>1, <1>2 DEF IInv, LoadsOK, OneLoad, Fetching
  <1>5. ViewOK' /\ PanelOK' /\ EditorOK'
    BY <1>2 DEF IInv, ViewOK, PanelOK, EditorOK
  <1> QED
    BY <1>3, <1>4, <1>5 DEF IInv

\* What an answer has to be, by the request it is for.
LEMMA AnswerTo ==
  ASSUME IInv, NEW i \in DOMAIN net, NEW answer,
         answer.status \in {"ok", "refused"},
         net[i].op = "load" /\ answer.status = "ok" => DataOK(scene, answer.data),
         net[i].op = "save" /\ answer.status = "ok" => answer.before \in Rows
  PROVE  AnswerOK(scene, [net[i] EXCEPT !.answer = answer])
  <1>1. Shaped(net[i])
    BY DEF IInv, RequestsOK, PipeOK, RequestOK
  <1>2. PICK q : q = [net[i] EXCEPT !.answer = answer]
    OBVIOUS
  <1>3. q.answer = answer /\ q.op = net[i].op
    BY <1>1, <1>2 DEF Shaped
  <1> QED
    BY <1>2, <1>3 DEF AnswerOK

LEMMA ServeLoadIInv ==
  ASSUME IInv, NEW i \in DOMAIN net, ServeLoad(i)
  PROVE  IInv'
  <1>1. ApiOK' /\ ClientUnchanged
    BY ApiFrame DEF ServeLoad, ApiUnchanged, IInv
  <1>2. row \in [Offers -> Rows] /\ live \subseteq Offers
    BY DEF IInv, ApiOK
  <1>3. PICK data : data = CASE scene = "product" -> ProductDetailPage(net[i].thing)
                             [] scene = "editor"  -> SellerOfferDetailPage(net[i].thing)
                             [] scene = "new"     -> [of |-> 0]
    OBVIOUS
  <1>4. CASE /\ scene = "editor" => net[i].thing \in live
             /\ Answered(i, [status |-> "ok", data |-> data])
    <2>1. DataOK(scene, data)
      <3>1. CASE scene = "product"
        <4>1. data = ProductDetailPage(net[i].thing)
          BY <1>3, <3>1
        <4>2. \A o \in DOMAIN data.row : o \in Offers /\ data.row[o] = row[o]
          BY <1>2, <4>1 DEF ProductDetailPage, OffersOf
        <4> QED
          BY <1>2, <3>1, <4>2 DEF DataOK
      <3>2. CASE scene = "editor"
        <4>1. data = SellerOfferDetailPage(net[i].thing)
          BY <1>3, <3>2
        <4>2. net[i].thing \in Offers
          BY <1>2, <1>4, <3>2
        <4>3. data.of = net[i].thing /\ DOMAIN data.row = {net[i].thing}
              /\ data.row[net[i].thing] = row[net[i].thing]
          BY <4>1 DEF SellerOfferDetailPage
        <4> QED
          BY <1>2, <4>2, <4>3 DEF DataOK
      <3>3. CASE scene \notin {"product", "editor"}
        BY <3>3 DEF DataOK
      <3> QED
        BY <3>1, <3>2, <3>3
    <2>2. PICK answer : answer = [status |-> "ok", data |-> data]
      OBVIOUS
    <2>3. AnswerOK(scene, [net[i] EXCEPT !.answer = answer])
      BY <2>1, <2>2, AnswerTo DEF ServeLoad, Waits
    <2> QED
      BY <1>1, <1>4, <2>2, <2>3, ServeIInv
  <1>5. CASE Refused(i)
    <2>1. PICK answer : answer = [status |-> "refused"]
      OBVIOUS
    <2>2. AnswerOK(scene, [net[i] EXCEPT !.answer = answer])
      BY <2>1, AnswerTo
    <2> QED
      BY <1>1, <1>5, <2>1, <2>2, ServeIInv DEF Refused
  <1> QED
    BY <1>3, <1>4, <1>5 DEF ServeLoad

\* checkout finds the price that was shown, and as many units as are asked for.
LEMMA CheckoutFinds ==
  ASSUME ApiOK, NEW r, CheckoutProblem(r) = "none"
  PROVE  /\ r.offer \in Offers
         /\ ~(row[r.offer].stock < r.quantity) /\ row[r.offer].price = r.expected
  <1>1. /\ r.offer \in live
        /\ ~(row[r.offer].stock < r.quantity) /\ ~(row[r.offer].price # r.expected)
    BY DEF CheckoutProblem
  <1> QED
    BY <1>1 DEF ApiOK

LEMMA ServeBuyCases ==
  ASSUME NEW i, ServeBuy(i)
  PROVE  \/ /\ CheckoutProblem(net[i]) = "none"
            /\ row' = [row EXCEPT ![net[i].offer].stock = @ - net[i].quantity]
            /\ orders' = Append(orders, [quantity |-> net[i].quantity, shown |-> net[i].shown,
                                         paid |-> row[net[i].offer].price, amid |-> net[i].amid])
            /\ Answered(i, [status |-> "ok"])
         \/ Refused(i) /\ UNCHANGED <<row, orders>>
  BY DEF ServeBuy

LEMMA ServeBuyIInv ==
  ASSUME IInv, OfferConstants, NEW i \in DOMAIN net, ServeBuy(i)
  PROVE  IInv'
  <1>1. UNCHANGED live /\ ClientUnchanged /\ net[i].op = "buy"
    BY DEF ServeBuy, Waits
  <1>2. BuyOK(net[i])
    BY DEF IInv, RequestsOK, PipeOK, RequestOK
  <1>3. CASE /\ CheckoutProblem(net[i]) = "none"
             /\ row' = [row EXCEPT ![net[i].offer].stock = @ - net[i].quantity]
             /\ orders' = Append(orders, [quantity |-> net[i].quantity, shown |-> net[i].shown,
                                          paid |-> row[net[i].offer].price, amid |-> net[i].amid])
             /\ Answered(i, [status |-> "ok"])
    <2>1. PICK o \in Offers : o = net[i].offer
      BY <1>1, <1>2 DEF BuyOK
    <2>2. PICK quantity \in Nat \ {0} : quantity = net[i].quantity
      BY <1>1, <1>2 DEF BuyOK
    <2>3. ~(row[o].stock < quantity) /\ row[o].price = net[i].shown.price
      BY <1>1, <1>2, <1>3, <2>1, <2>2, CheckoutFinds DEF BuyOK, IInv
    <2>4. row[o] \in Rows /\ row \in [Offers -> Rows]
      BY DEF IInv, ApiOK
    <2>5. PICK new : new = [row[o] EXCEPT !.stock = @ - quantity]
      OBVIOUS
    <2>6. new \in Rows
      <3>1. row[o].stock \in 0 .. MaxStock
        BY <2>4 DEF Rows
      <3>2. row[o].stock - quantity \in 0 .. MaxStock
        BY <2>3, <3>1, Numbers
      <3> QED
        BY <2>4, <2>5, <3>2 DEF Rows
    <2>7. row' = [row EXCEPT ![o] = new]
      BY <1>3, <2>1, <2>2, <2>5
    <2>8. row' \in [Offers -> Rows]
      BY <2>4, <2>6, <2>7
    <2>9. PICK order : order = [quantity |-> quantity, shown |-> net[i].shown,
                                paid |-> row[o].price, amid |-> net[i].amid]
      OBVIOUS
    <2>10. orders' = Append(orders, order)
      BY <1>3, <2>1, <2>2, <2>9
    <2>11. /\ IsSeq(orders') /\ Len(orders') = Len(orders) + 1
           /\ \A k \in DOMAIN orders : orders'[k] = orders[k]
           /\ orders'[Len(orders) + 1] = order
      BY <2>10, Appended DEF IInv, ApiOK
    <2>12. \A k \in DOMAIN orders' : k \in DOMAIN orders \/ orders'[k] = order
      <3>1. Len(orders) \in Nat /\ DOMAIN orders = 1 .. Len(orders)
        BY Indices DEF IInv, ApiOK
      <3>2. PICK new2 : new2 = orders'
        OBVIOUS
      <3>3. DOMAIN new2 = 1 .. Len(orders) + 1
        BY <2>11, <3>2, Indices
      <3> QED
        BY <2>11, <3>1, <3>2, <3>3
    <2>13. \/ order.amid
           \/ order.paid = order.shown.price /\ order.quantity \in 1 .. order.shown.stock
      <3>1. CASE net[i].amid
        BY <2>9, <3>1
      <3>2. CASE ~net[i].amid
        <4>1. quantity <= net[i].shown.stock /\ net[i].shown \in Rows
          BY <1>1, <1>2, <2>2, <3>2 DEF BuyOK
        <4>2. net[i].shown.stock \in 0 .. MaxStock
          BY <4>1 DEF Rows
        <4>3. quantity \in 1 .. net[i].shown.stock
          BY <4>1, <4>2, Numbers
        <4> QED
          BY <2>3, <2>9, <4>3
      <3> QED
        BY <3>1, <3>2
    <2>14. BoughtAsShown'
      BY <2>11, <2>12, <2>13 DEF IInv, ApiOK, BoughtAsShown
    <2>15. ApiOK'
      BY <1>1, <2>8, <2>11, <2>14 DEF IInv, ApiOK
    <2>16. PICK answer : answer = [status |-> "ok"]
      OBVIOUS
    <2>17. AnswerOK(scene, [net[i] EXCEPT !.answer = answer])
      BY <1>1, <2>16, AnswerTo
    <2> QED
      BY <1>1, <1>3, <2>15, <2>16, <2>17, ServeIInv
  <1>4. CASE Refused(i) /\ UNCHANGED <<row, orders>>
    <2>1. PICK answer : answer = [status |-> "refused"]
      OBVIOUS
    <2>2. AnswerOK(scene, [net[i] EXCEPT !.answer = answer])
      BY <2>1, AnswerTo
    <2> QED
      BY <1>1, <1>4, <2>1, <2>2, ApiFrame, ServeIInv DEF Refused, IInv
  <1> QED
    BY <1>3, <1>4, ServeBuyCases

LEMMA ServeSaveCases ==
  ASSUME NEW i, ServeSave(i)
  PROVE  \/ /\ net[i].offer \in live
            /\ row' = [row EXCEPT ![net[i].offer] = net[i].to]
            /\ Answered(i, [status |-> "ok", before |-> row[net[i].offer]])
         \/ Refused(i) /\ UNCHANGED row
  BY DEF ServeSave

LEMMA ServeSaveIInv ==
  ASSUME IInv, NEW i \in DOMAIN net, ServeSave(i)
  PROVE  IInv'
  <1>1. UNCHANGED <<live, orders>> /\ ClientUnchanged /\ net[i].op = "save"
    BY DEF ServeSave, Waits
  <1>2. net[i].to \in Rows /\ net[i].offer \in Offers
    BY <1>1 DEF IInv, RequestsOK, PipeOK, RequestOK, SaveOK
  <1>3. row \in [Offers -> Rows]
    BY DEF IInv, ApiOK
  <1>4. CASE /\ net[i].offer \in live
             /\ row' = [row EXCEPT ![net[i].offer] = net[i].to]
             /\ Answered(i, [status |-> "ok", before |-> row[net[i].offer]])
    <2>1. row' \in [Offers -> Rows]
      BY <1>2, <1>3, <1>4
    <2>2. ApiOK'
      BY <1>1, <2>1 DEF IInv, ApiOK, BoughtAsShown, IsSeq
    <2>3. PICK answer : answer = [status |-> "ok", before |-> row[net[i].offer]]
      OBVIOUS
    <2>4. answer.before \in Rows /\ answer.status = "ok"
      BY <1>2, <1>3, <2>3
    <2>5. AnswerOK(scene, [net[i] EXCEPT !.answer = answer])
      BY <1>1, <2>4, AnswerTo
    <2> QED
      BY <1>1, <1>4, <2>2, <2>3, <2>5, ServeIInv
  <1>5. CASE Refused(i) /\ UNCHANGED row
    <2>1. PICK answer : answer = [status |-> "refused"]
      OBVIOUS
    <2>2. AnswerOK(scene, [net[i] EXCEPT !.answer = answer])
      BY <2>1, AnswerTo
    <2> QED
      BY <1>1, <1>5, <2>1, <2>2, ApiFrame, ServeIInv DEF Refused, IInv
  <1> QED
    BY <1>4, <1>5, ServeSaveCases

\* The other answers say whether it was done, and which product was made.
LEMMA OtherAnswers ==
  ASSUME NEW i, ServeSaveProduct(i) \/ ServeDelete(i) \/ ServeAdd(i) \/ ServePublish(i)
  PROVE  /\ net[i].op \in {"product", "delete", "add", "publish"}
         /\ row' = row /\ live' \subseteq live /\ orders' = orders /\ ClientUnchanged
         /\ \/ Answered(i, [status |-> "ok"]) \/ Refused(i)
            \/ Answered(i, [status |-> "ok", product |-> Cardinality(Products) + added + 1])
  <1>1. ServeSaveProduct(i) => /\ net[i].op = "product" /\ Answered(i, [status |-> "ok"])
                               /\ row' = row /\ live' = live /\ orders' = orders /\ ClientUnchanged
    BY DEF ServeSaveProduct, Waits, ApiUnchanged
  <1>2. ServeDelete(i) => /\ net[i].op = "delete"
                          /\ Answered(i, [status |-> "ok"]) \/ Refused(i)
                          /\ row' = row /\ live' \subseteq live /\ orders' = orders
                          /\ ClientUnchanged
    BY DEF ServeDelete, Waits
  <1>3. ServeAdd(i) => /\ net[i].op = "add"
                       /\ Answered(i, [status |-> "ok",
                                       product |-> Cardinality(Products) + added + 1])
                       /\ row' = row /\ live' = live /\ orders' = orders /\ ClientUnchanged
    BY DEF ServeAdd, Waits
  <1>4. ServePublish(i) => /\ net[i].op = "publish" /\ Answered(i, [status |-> "ok"])
                           /\ row' = row /\ live' = live /\ orders' = orders /\ ClientUnchanged
    BY DEF ServePublish, Waits
  <1> QED
    BY <1>1, <1>2, <1>3, <1>4

LEMMA OtherServesIInv ==
  ASSUME IInv, NEW i \in DOMAIN net,
         ServeSaveProduct(i) \/ ServeDelete(i) \/ ServeAdd(i) \/ ServePublish(i)
  PROVE  IInv'
  <1>1. ApiOK'
    BY OtherAnswers DEF IInv, ApiOK, BoughtAsShown, IsSeq
  <1>2. PICK answer : /\ Answered(i, answer)
                      /\ \/ answer = [status |-> "ok"] \/ answer = [status |-> "refused"]
                         \/ answer = [status |-> "ok",
                                      product |-> Cardinality(Products) + added + 1]
    BY OtherAnswers DEF Refused
  <1>3. answer.status \in {"ok", "refused"}
    BY <1>2
  <1>4. AnswerOK(scene, [net[i] EXCEPT !.answer = answer])
    BY <1>3, OtherAnswers, AnswerTo
  <1> QED
    BY <1>1, <1>2, <1>4, OtherAnswers, ServeIInv

\* Others leave the rows rows.
LEMMA ElsewhereIInv ==
  ASSUME IInv, OfferConstants, NEW o \in Offers, Elsewhere(o)
  PROVE  IInv'
  <1>1. /\ UNCHANGED <<orders, net, scene, view, form, pending, dialog, overlapped>>
    BY DEF Elsewhere, ClientUnchanged
  <1>2. row \in [Offers -> Rows] /\ row[o] \in Rows /\ live \subseteq Offers
    BY DEF IInv, ApiOK
  <1>3. live' \subseteq Offers
    BY <1>2 DEF Elsewhere
  <1>4. MaxStock \in 0 .. MaxStock
    <2>1. MaxStock \in Nat
      BY Numbers
    <2> QED
      BY <2>1
  <1>5. row' \in [Offers -> Rows]
    <2>1. CASE row[o].stock > 0 /\ row' = [row EXCEPT ![o].stock = @ - 1]
      <3>1. PICK new : new = [row[o] EXCEPT !.stock = @ - 1]
        OBVIOUS
      <3>2. row[o].stock \in 0 .. MaxStock
        BY <1>2 DEF Rows
      <3>3. row[o].stock - 1 \in 0 .. MaxStock
        BY <2>1, <3>2, Numbers
      <3>4. new \in Rows
        BY <1>2, <3>1, <3>3 DEF Rows
      <3>5. row' = [row EXCEPT ![o] = new]
        BY <2>1, <3>1
      <3> QED
        BY <1>2, <3>4, <3>5
    <2>2. ASSUME NEW new \in [price : {ApiPrice[t] : t \in DOMAIN ApiPrice} \ {""},
                              stock : {MaxStock}, available : BOOLEAN],
                 row' = [row EXCEPT ![o] = new]
          PROVE  row' \in [Offers -> Rows]
      <3>1. new.price \in Prices
        BY ApiPrices
      <3>2. MaxStock \in 0 .. MaxStock
        BY <1>4
      <3>3. new \in Rows
        BY <3>1, <3>2 DEF Rows
      <3> QED
        BY <1>2, <2>2, <3>3
    <2>3. CASE row' = row
      BY <1>2, <2>3
    <2> QED
      BY <2>1, <2>2, <2>3 DEF Elsewhere
  <1>6. ApiOK'
    BY <1>1, <1>3, <1>5 DEF IInv, ApiOK, BoughtAsShown, IsSeq
  <1> QED
    BY <1>1, <1>6 DEF IInv, ViewOK, RequestsOK, LoadsOK, PanelOK, EditorOK

-----------------------------------------------------------------------------
(***************************************************************************)
(* Answers reach the page                                                  *)
(***************************************************************************)

LEMMA ShowLoadedCases ==
  ASSUME NEW i, ShowLoaded(i)
  PROVE  \/ /\ Stays(net[i].answer.data)
            /\ net' = RemoveAt(net, i) /\ UNCHANGED <<form, pending, dialog>>
         \/ /\ net' = Unmounted(RemoveAt(net, i))
            /\ form' \in Mounted(net[i].answer.data)
            /\ pending' = FALSE /\ dialog' = "none"
  BY DEF ShowLoaded

\* A form is mounted with the row that was loaded.
LEMMA MountedOK ==
  ASSUME IInv, OfferConstants, NEW data, DataOK(scene, data), NEW new \in Mounted(data),
         form' = new, view' = Success(data), UNCHANGED <<scene, overlapped>>
  PROVE  PanelOK' /\ EditorOK'
  <1>1. CASE scene = "product"
    <2>1. PICK o \in IF availableOffers(data) = {} THEN {0} ELSE availableOffers(data) :
             new = [selected |-> o, quantity |-> 1]
      BY <1>1 DEF Mounted, PurchasePanel
    <2>2. \A x \in availableOffers(data) :
             x \in Offers /\ data.row[x].stock \in 0 .. MaxStock /\ data.row[x].stock > 0
      BY <1>1 DEF availableOffers, DataOK, Rows
    <2>3. \A x \in availableOffers(data) : 1 <= data.row[x].stock
      BY <2>2, Numbers
    <2>4. /\ new \in [selected : Offers \union {0}, quantity : Nat \ {0}]
          /\ new.quantity = 1 /\ new.selected = o
      BY <2>1, <2>2
    <2>5. view'.data = data
      BY DEF Success
    <2>6. PanelOK'
      BY <2>3, <2>4, <2>5 DEF PanelOK
    <2> QED
      BY <1>1, <2>6 DEF EditorOK
  <1>2. CASE scene = "editor" /\ new # NoForm
    <2>1. PICK r \in Rows : r = data.row[data.of]
      BY <1>2 DEF DataOK
    <2>2. new = [price |-> r.price, stock |-> r.stock, available |-> r.available, edited |-> {}]
      BY <1>2, <2>1 DEF Mounted, SellerOfferEditor
    <2>3. /\ new.price = r.price /\ new.stock = r.stock /\ new.available = r.available
      BY <2>2
    <2>4. \A field \in Fields : new[field] = r[field]
      BY <2>3 DEF Fields
    <2>5. r.price \in DOMAIN ApiPrice /\ r.stock \in 0 .. MaxStock /\ r.available \in BOOLEAN
      BY DEF Rows, Prices
    <2>6. new \in EditorForms
      BY <2>2, <2>5 DEF EditorForms
    <2>7. view'.data = data
      BY DEF Success
    <2>8. EditorOK'
      BY <2>1, <2>4, <2>6, <2>7 DEF EditorOK
    <2> QED
      BY <1>2, <2>8 DEF PanelOK
  <1>3. CASE scene = "editor" /\ new = NoForm
    BY <1>3 DEF PanelOK, EditorOK
  <1>4. CASE scene \notin {"product", "editor"}
    BY <1>4 DEF PanelOK, EditorOK
  <1> QED
    BY <1>1, <1>2, <1>3, <1>4

LEMMA ShowLoadedIInv ==
  ASSUME IInv, OfferConstants, NEW i \in DOMAIN net, ShowLoaded(i)
  PROVE  IInv'
  <1>1. PICK data : data = net[i].answer.data
    OBVIOUS
  <1>2. /\ net[i].op = "load" /\ view' = Success(data)
        /\ UNCHANGED <<scene, row, live, orders, overlapped>>
    BY <1>1 DEF ShowLoaded, Comes, ApiUnchanged, Arrived
  <1>3. DataOK(scene, data)
    BY <1>1, <1>2 DEF ShowLoaded, Comes, IInv, RequestsOK, PipeOK, RequestOK, AnswerOK
  <1>4. view'.status = "success" /\ view'.data = data
    BY <1>2 DEF Success
  <1>5. PICK rest : rest = RemoveAt(net, i)
    OBVIOUS
  <1>6. /\ PipeOK(scene, rest) /\ Len(rest) = Len(net) - 1
        /\ OneLoad(net) => OneLoad(rest) /\ ~Fetching(rest)
    BY <1>2, <1>5, Drops DEF IInv, RequestsOK
  <1>7. /\ PipeOK(scene, Unmounted(rest)) /\ Len(Unmounted(rest)) = Len(rest)
        /\ DOMAIN Unmounted(rest) = DOMAIN rest
        /\ \A j \in DOMAIN rest : Unmounted(rest)[j].op = rest[j].op
    BY <1>6, Unmounts
  <1>8. Len(net) \in Nat /\ Len(net) <= MaxRequests
    BY Indices DEF IInv, RequestsOK, PipeOK
  <1>9. net' = rest \/ net' = Unmounted(rest)
    BY <1>5, ShowLoadedCases
  <1>10. RequestsOK'
    BY <1>2, <1>6, <1>7, <1>8, <1>9, Numbers DEF RequestsOK
  <1>11. LoadsOK'
    BY <1>2, <1>6, <1>7, <1>9 DEF IInv, LoadsOK, OneLoad, Fetching
  <1>12. ViewOK'
    <2>1. pending' \in BOOLEAN /\ dialog' \in {"none", "offer", "product"}
      BY ShowLoadedCases DEF IInv, ViewOK
    <2> QED
      BY <1>2, <1>3, <1>4, <2>1 DEF IInv, ViewOK
  <1>13. PanelOK' /\ EditorOK'
    <2>1. CASE Stays(data) /\ UNCHANGED form
      <3>1. view.status = "success"
        BY <2>1 DEF Stays
      <3>2. overlapped
        BY <1>2, <3>1 DEF IInv, LoadsOK, Fetching
      <3>3. PanelOK'
        BY <1>2, <2>1, <3>1, <3>2 DEF IInv, PanelOK
      <3>4. CASE scene = "editor"
        <4>1. EditorKey(data) = EditorKey(view.data)
          BY <2>1, <3>4 DEF Stays
        <4>2. data.row[data.of] = view.data.row[view.data.of]
          BY <4>1 DEF EditorKey
        <4> QED
          BY <1>2, <1>4, <2>1, <3>3, <4>2 DEF IInv, EditorOK
      <3> QED
        BY <1>2, <3>3, <3>4 DEF EditorOK
    <2>2. CASE form' \in Mounted(data)
      BY <1>2, <1>3, <2>2, MountedOK
    <2> QED
      BY <1>1, <2>1, <2>2, ShowLoadedCases
  <1> QED
    BY <1>2, <1>10, <1>11, <1>12, <1>13, ApiFrame DEF IInv

\* The page is left.
LEMMA ShowGoneIInv ==
  ASSUME IInv, OfferConstants, NEW i, NEW op, ShowGone(i, op)
  PROVE  IInv'
  <1>1. /\ scene' = "left" /\ view' = Loading /\ form' = NoForm /\ net' = <<>>
        /\ pending' = FALSE /\ dialog' = "none"
        /\ UNCHANGED <<row, live, orders, overlapped>>
    BY DEF ShowGone, Comes, ApiUnchanged
  <1>2. ViewOK' /\ PanelOK' /\ EditorOK'
    BY <1>1 DEF IInv, ViewOK, PanelOK, EditorOK, Loading
  <1>3. RequestsOK' /\ LoadsOK'
    <2>1. IsSeq(net') /\ Len(net') = 0 /\ DOMAIN net' = {}
      BY <1>1 DEF IsSeq
    <2> QED
      BY <2>1, Numbers DEF RequestsOK, PipeOK, LoadsOK, OneLoad, Fetching
  <1> QED
    BY <1>1, <1>2, <1>3, ApiFrame DEF IInv

LEMMA ShowSavedIInv ==
  ASSUME IInv, OfferConstants, NEW i \in DOMAIN net, NEW op, ShowSaved(i, op)
  PROVE  IInv'
  <1>1. Load(RemoveAt(net, i), route) /\ UNCHANGED <<scene, row, live, orders>>
    BY DEF ShowSaved, Comes, ApiUnchanged
  <1>2. PipeOK(scene, RemoveAt(net, i)) /\ Len(RemoveAt(net, i)) = Len(net) - 1
    BY Drops DEF IInv, RequestsOK
  <1>3. Len(net) \in Nat /\ Len(net) <= MaxRequests
    BY Indices DEF IInv, RequestsOK, PipeOK
  <1>4. Len(RemoveAt(net, i)) < MaxRequests
    BY <1>2, <1>3, Numbers
  <1> QED
    BY <1>1, <1>2, <1>4, LoadIInv DEF IInv

\* The second call takes the place of the first.
LEMMA ShowAddedIInv ==
  ASSUME IInv, OfferConstants, NEW i \in DOMAIN net, ShowAdded(i)
  PROVE  IInv'
  <1>1. PICK m : m = CreateOffer(net[i].answer.product, net[i].sent)
    OBVIOUS
  <1>2. PICK rest : rest = RemoveAt(net, i)
    OBVIOUS
  <1>3. /\ net' = Append(rest, m)
        /\ UNCHANGED <<scene, row, live, orders, view, form, pending, dialog, overlapped>>
    BY <1>1, <1>2 DEF ShowAdded, Comes, ApiUnchanged
  <1>4. /\ PipeOK(scene, rest) /\ Len(rest) = Len(net) - 1
        /\ OneLoad(net) => OneLoad(rest)
        /\ Fetching(rest) => Fetching(net)
    BY <1>2, Drops DEF IInv, RequestsOK
  <1>5. RequestOK(scene, m) /\ m.op # "load"
    BY <1>1, PlainRequest DEF Shaped, CreateOffer
  <1>6. /\ PipeOK(scene, net') /\ Len(net') = Len(rest) + 1
        /\ \A j \in DOMAIN rest : j \in DOMAIN net' /\ net'[j] = rest[j]
        /\ net'[Len(rest) + 1] = m
        /\ \A j \in DOMAIN net' : j \in DOMAIN rest \/ j = Len(rest) + 1
    BY <1>3, <1>4, <1>5, Sends
  <1>7. Len(net) \in Nat /\ Len(net) <= MaxRequests
    BY Indices DEF IInv, RequestsOK, PipeOK
  <1>8. RequestsOK'
    BY <1>3, <1>4, <1>6, <1>7 DEF RequestsOK
  <1>9. OneLoad(rest) => OneLoad(net')
    BY <1>5, <1>6 DEF OneLoad
  <1>10. Fetching(net') => Fetching(rest)
    BY <1>5, <1>6 DEF Fetching
  <1>11. LoadsOK'
    BY <1>3, <1>4, <1>9, <1>10 DEF IInv, LoadsOK
  <1>12. ViewOK' /\ PanelOK' /\ EditorOK'
    BY <1>3 DEF IInv, ViewOK, PanelOK, EditorOK
  <1> QED
    BY <1>3, <1>8, <1>11, <1>12, ApiFrame DEF IInv

LEMMA ShowErrorCases ==
  ASSUME NEW i, ShowError(i)
  PROVE  \/ /\ net[i].op = "load" /\ net' = Unmounted(RemoveAt(net, i))
            /\ view' = Failed /\ form' = NoForm /\ pending' = FALSE /\ dialog' = "none"
         \/ /\ net[i].op # "load" /\ net' = RemoveAt(net, i)
            /\ pending' = (pending /\ ~net[i].mounted)
            /\ dialog' = "none" \/ dialog' = dialog
            /\ UNCHANGED <<view, form>>
  BY DEF ShowError

LEMMA ShowErrorIInv ==
  ASSUME IInv, OfferConstants, NEW i \in DOMAIN net, ShowError(i)
  PROVE  IInv'
  <1>1. UNCHANGED <<scene, row, live, orders, overlapped>>
    BY DEF ShowError, ApiUnchanged
  <1>2. PICK rest : rest = RemoveAt(net, i)
    OBVIOUS
  <1>3. /\ PipeOK(scene, rest) /\ Len(rest) = Len(net) - 1
        /\ OneLoad(net) => OneLoad(rest)
        /\ OneLoad(net) /\ net[i].op = "load" => ~Fetching(rest)
        /\ Fetching(rest) => Fetching(net)
    BY <1>2, Drops DEF IInv, RequestsOK
  <1>4. Len(net) \in Nat /\ Len(net) <= MaxRequests
    BY Indices DEF IInv, RequestsOK, PipeOK
  <1>5. CASE /\ net[i].op = "load" /\ net' = Unmounted(rest)
             /\ view' = Failed /\ form' = NoForm /\ pending' = FALSE /\ dialog' = "none"
    <2>1. /\ PipeOK(scene, net') /\ Len(net') = Len(rest) /\ DOMAIN net' = DOMAIN rest
          /\ \A j \in DOMAIN rest : net'[j].op = rest[j].op
      BY <1>3, <1>5, Unmounts
    <2>2. RequestsOK'
      BY <1>1, <1>3, <1>4, <2>1, Numbers DEF RequestsOK
    <2>3. LoadsOK'
      BY <1>1, <1>3, <1>5, <2>1 DEF IInv, LoadsOK, OneLoad, Fetching
    <2>4. ViewOK' /\ PanelOK' /\ EditorOK'
      BY <1>1, <1>5 DEF IInv, ViewOK, PanelOK, EditorOK, Failed
    <2> QED
      BY <1>1, <2>2, <2>3, <2>4, ApiFrame DEF IInv
  <1>6. CASE /\ net[i].op # "load" /\ net' = rest
             /\ pending' = (pending /\ ~net[i].mounted)
             /\ dialog' = "none" \/ dialog' = dialog
             /\ UNCHANGED <<view, form>>
    <2>1. RequestsOK' /\ LoadsOK'
      <3>1. RequestsOK'
        BY <1>1, <1>3, <1>4, <1>6, Numbers DEF RequestsOK
      <3>2. LoadsOK'
        BY <1>1, <1>3, <1>6 DEF IInv, LoadsOK
      <3> QED
        BY <3>1, <3>2
    <2>2. pending' \in BOOLEAN
      BY <1>6
    <2>3. ViewOK' /\ PanelOK' /\ EditorOK'
      BY <1>1, <1>6, <2>2 DEF IInv, ViewOK, PanelOK, EditorOK
    <2> QED
      BY <1>1, <2>1, <2>3, ApiFrame DEF IInv
  <1> QED
    BY <1>2, <1>5, <1>6, ShowErrorCases

-----------------------------------------------------------------------------
\* Every action keeps the invariant.
LEMMA NextIInv == OfferConstants /\ IInv /\ [Next]_formVars => IInv'
  <1> SUFFICES ASSUME OfferConstants, IInv, [Next]_formVars
               PROVE  IInv'
    OBVIOUS
  <1>1. ASSUME NEW r, ChangeRoute(r)
        PROVE  IInv'
    BY <1>1, RoutesIInv
  <1>2. CASE Retry
    BY <1>2, RoutesIInv
  <1>3. ASSUME NEW o \in Offers, SelectOffer(o)
        PROVE  IInv'
    BY <1>3, PanelIInv
  <1>4. ASSUME NEW n \in 0 .. (MaxStock + 1), UpdateQuantity(n)
        PROVE  IInv'
    <2>1. n \in Int
      BY Numbers
    <2> QED
      BY <1>4, <2>1, PanelIInv
  <1>5. CASE HandleBuy
    BY <1>5, HandleBuyIInv
  <1>6. ASSUME NEW text \in DOMAIN ApiPrice, EditPrice(text) \/ TypePrice(text)
        PROVE  IInv'
    BY <1>6, EditIInv, OtherClicksIInv
  <1>7. ASSUME NEW n \in {-1, MaxStock}, EditStock(n)
        PROVE  IInv'
    BY <1>7, EditIInv
  <1>8. CASE ToggleAvailable
    BY <1>8, EditIInv
  <1>9. CASE HandleSaveOffer
    BY <1>9, HandleSaveOfferIInv
  <1>10. CASE HandleSaveProduct \/ HandleConfirmDelete \/ HandleSubmit
    BY <1>10, OtherSendsIInv
  <1>11. CASE (\E target \in {"offer", "product"} : AskDelete(target)) \/ CloseDialog
    BY <1>11, OtherClicksIInv
  <1>12. ASSUME NEW mode, SetMode(mode) \/ ChooseProduct(mode)
         PROVE  IInv'
    BY <1>12, OtherClicksIInv
  <1>13. ASSUME NEW i \in DOMAIN net, ServeLoad(i) \/ ServeBuy(i) \/ ServeSave(i)
         PROVE  IInv'
    BY <1>13, ServeLoadIInv, ServeBuyIInv, ServeSaveIInv
  <1>14. ASSUME NEW i \in DOMAIN net,
                ServeSaveProduct(i) \/ ServeDelete(i) \/ ServeAdd(i) \/ ServePublish(i)
         PROVE  IInv'
    BY <1>14, OtherServesIInv
  <1>15. ASSUME NEW i \in DOMAIN net, ShowLoaded(i) \/ ShowAdded(i) \/ ShowError(i)
         PROVE  IInv'
    BY <1>15, ShowLoadedIInv, ShowAddedIInv, ShowErrorIInv
  <1>16. ASSUME NEW i \in DOMAIN net, NEW op, ShowGone(i, op) \/ ShowSaved(i, op)
         PROVE  IInv'
    BY <1>16, ShowGoneIInv, ShowSavedIInv
  <1>17. ASSUME NEW o \in Offers, Elsewhere(o)
         PROVE  IInv'
    BY <1>17, ElsewhereIInv
  <1>18. CASE UNCHANGED formVars
    <2>1. UNCHANGED <<scene, row, live, orders, view, form, pending, dialog, net, overlapped>>
      BY <1>18 DEF formVars
    <2> QED
      BY <2>1, DialogIInv DEF IInv, ViewOK
  <1> QED
    BY <1>1, <1>2, <1>3, <1>4, <1>5, <1>6, <1>7, <1>8, <1>9, <1>10, <1>11, <1>12, <1>13, <1>14,
       <1>15, <1>16, <1>17, <1>18 DEF Next

-----------------------------------------------------------------------------
(***************************************************************************)
(* What the invariant says                                                 *)
(***************************************************************************)

LEMMA TypeHolds == ASSUME OfferConstants PROVE IInv => TypeOK
  <1> SUFFICES ASSUME IInv
               PROVE  TypeOK
    OBVIOUS
  <1>1. \A o \in Offers : row[o].stock \in 0 .. MaxStock /\ row[o].available \in BOOLEAN
    BY DEF IInv, ApiOK, Rows
  <1> QED
    BY <1>1 DEF IInv, ApiOK, ViewOK, RequestsOK, TypeOK

LEMMA BoughtHolds == IInv => BoughtAsShown
  BY DEF IInv, ApiOK

LEMMA OverwritesHolds == IInv => OverwritesOnlyWhenStale
  <1> SUFFICES ASSUME IInv, NEW i \in DOMAIN net,
                      net[i].op = "save", net[i].answer.status = "ok"
               PROVE  LET before == net[i].answer.before
                      IN  \/ before # net[i].shown
                          \/ \A field \in DOMAIN before :
                                net[i].to[field] # before[field] => field \in net[i].edited
    BY DEF OverwritesOnlyWhenStale
  <1>1. SaveOK(net[i]) /\ net[i].answer.before \in Rows
    BY DEF IInv, RequestsOK, PipeOK, RequestOK, AnswerOK
  <1>2. PICK before \in Rows : before = net[i].answer.before
    BY <1>1
  <1>3. DOMAIN before = Fields
    BY DEF Rows, Fields
  <1>4. before = net[i].shown =>
          \A field \in Fields \ net[i].edited : net[i].to[field] = before[field]
    BY <1>1 DEF SaveOK
  <1> QED
    BY <1>2, <1>3, <1>4

-----------------------------------------------------------------------------
(***************************************************************************)
(* Products without an offer                                               *)
(***************************************************************************)

\* A request that is going to publish an offer for a product.
Carries(r, p) ==
  \/ r.op = "publish" /\ p = r.product
  \/ r.op = "add" /\ r.answer.status = "ok" /\ p = r.answer.product

Carried(pipe, p) == \E i \in DOMAIN pipe : Carries(pipe[i], p)

Created == Cardinality(Products) + 1 .. Cardinality(Products) + added

\* Those nobody is going to publish.
Lost == {p \in Created : p \notin published /\ ~Carried(net, p)}

LostAreTold ==
  /\ added \in Nat /\ failures \in Nat /\ IsFiniteSet(published)
  /\ scene # "left" => Cardinality(Lost) <= failures

LEMMA FiniteProducts ==
  OfferConstants => Cardinality(Products) \in Nat /\ Products = 1 .. Cardinality(Products)
  <1> SUFFICES ASSUME OfferConstants
               PROVE  Cardinality(Products) \in Nat /\ Products = 1 .. Cardinality(Products)
    OBVIOUS
  <1>1. IsFiniteSet(Offers) /\ Products = 1 .. Cardinality(Products)
    BY DEF OfferConstants
  <1>2. IsFiniteSet(Products)
    <2> DEFINE f == [o \in Offers |-> ProductOf[o]]
    <2>1. f \in Surjection(Offers, Products)
      BY DEF Surjection, Products
    <2> HIDE DEF f
    <2> QED
      BY <1>1, <2>1, FS_Surjection
  <1> QED
    BY <1>1, <1>2, FS_CardinalityType

LEMMA FiniteLost ==
  ASSUME OfferConstants, added \in Nat
  PROVE  IsFiniteSet(Created) /\ IsFiniteSet(Lost) /\ Cardinality(Lost) \in Nat
  <1>1. Cardinality(Products) \in Nat
    BY FiniteProducts
  <1>2. /\ Cardinality(Products) + 1 \in Int /\ Cardinality(Products) + added \in Int
    BY <1>1
  <1>3. IsFiniteSet(Created)
    BY <1>2, FS_Interval DEF Created
  <1>4. IsFiniteSet(Lost)
    BY <1>3, FS_Subset DEF Lost
  <1> QED
    BY <1>3, <1>4, FS_CardinalityType

\* A product is lost only when it stops being carried.
LEMMA NoneLost ==
  ASSUME OfferConstants, LostAreTold, UNCHANGED <<added, failures>>,
         published \subseteq published', IsFiniteSet(published'), scene' = scene,
         \A p : Carried(net, p) => Carried(net', p)
  PROVE  LostAreTold'
  <1>1. Lost' \subseteq Lost
    BY DEF Lost, Created
  <1>2. IsFiniteSet(Lost) /\ Cardinality(Lost) \in Nat
    BY FiniteLost DEF LostAreTold
  <1>3. Cardinality(Lost') <= Cardinality(Lost) /\ Cardinality(Lost') \in Nat
    BY <1>1, <1>2, FS_Subset, FS_CardinalityType
  <1> QED
    BY <1>2, <1>3 DEF LostAreTold

LEMMA UnmountedCarries ==
  ASSUME NEW page, NEW s, PipeOK(page, s), NEW p, Carried(s, p)
  PROVE  Carried(Unmounted(s), p)
  <1>1. PICK i \in DOMAIN s : Carries(s[i], p)
    BY DEF Carried
  <1>2. PICK u : u = Unmounted(s)
    OBVIOUS
  <1>3. /\ i \in DOMAIN u /\ Alike(u[i], s[i]) /\ u[i].answer = s[i].answer
        /\ u[i].op = s[i].op
    BY <1>2, Unmounts
  <1>4. Shaped(s[i])
    BY DEF PipeOK, RequestOK
  <1>5. s[i].op = "publish" => u[i].product = s[i].product
    BY <1>3, <1>4 DEF Alike, Shaped
  <1>6. Carries(u[i], p)
    BY <1>1, <1>3, <1>5 DEF Carries
  <1> QED
    BY <1>2, <1>3, <1>6 DEF Carried

LEMMA AppendedCarries ==
  ASSUME NEW s, IsSeq(s), NEW m, NEW p, Carried(s, p) \/ Carries(m, p)
  PROVE  Carried(Append(s, m), p)
  <1>1. PICK t : t = Append(s, m)
    OBVIOUS
  <1>2. /\ IsSeq(t) /\ Len(t) = Len(s) + 1 /\ t[Len(s) + 1] = m
        /\ \A i \in DOMAIN s : t[i] = s[i]
    BY <1>1, Appended
  <1>3. /\ Len(s) \in Nat /\ DOMAIN s = 1 .. Len(s) /\ DOMAIN t = 1 .. Len(s) + 1
    BY <1>2, Indices
  <1>4. Len(s) + 1 \in DOMAIN t /\ \A i \in DOMAIN s : i \in DOMAIN t
    BY <1>3
  <1> QED
    BY <1>1, <1>2, <1>4 DEF Carried

LEMMA RestCarries ==
  ASSUME NEW page, NEW s, PipeOK(page, s), NEW i \in DOMAIN s, NEW p, Carried(s, p)
  PROVE  Carried(RemoveAt(s, i), p) \/ Carries(s[i], p)
  <1>1. PICK t : t = RemoveAt(s, i)
    OBVIOUS
  <1>2. \A k \in DOMAIN s \ {i} : \E j \in DOMAIN t : t[j] = s[k]
    BY <1>1, Drops
  <1> QED
    BY <1>1, <1>2 DEF Carried

LEMMA LoadCarries ==
  ASSUME NEW pipe, PipeOK(scene, pipe), NEW r, Load(pipe, r), NEW p, Carried(pipe, p)
  PROVE  Carried(net', p)
  <1>1. net' = Append(Unmounted(pipe), Loads(r))
    BY DEF Load, Requested
  <1>2. IsSeq(Unmounted(pipe))
    BY Unmounts DEF PipeOK
  <1>3. Carried(Unmounted(pipe), p)
    BY UnmountedCarries
  <1> QED
    BY <1>1, <1>2, <1>3, AppendedCarries

\* An answer does not change what an answered request carries.
LEMMA AnsweredCarries ==
  ASSUME IInv, NEW i \in DOMAIN net, NEW answer, Answered(i, answer), net[i].answer = Waiting,
         NEW p, Carried(net, p)
  PROVE  Carried(net', p)
  <1>1. PICK j \in DOMAIN net : Carries(net[j], p)
    BY DEF Carried
  <1>2. /\ DOMAIN net' = DOMAIN net
        /\ \A k \in DOMAIN net : k # i => net'[k] = net[k]
        /\ net'[i] = [net[i] EXCEPT !.answer = answer]
    BY DEF Answered
  <1>3. CASE j # i
    BY <1>1, <1>2, <1>3 DEF Carried
  <1>4. CASE j = i
    <2>1. net[i].op = "publish" /\ p = net[i].product
      BY <1>1, <1>4 DEF Carries, Waiting
    <2>2. Shaped(net[i])
      BY DEF IInv, RequestsOK, PipeOK, RequestOK
    <2>3. net'[i].op = "publish" /\ net'[i].product = p
      BY <1>2, <2>1, <2>2 DEF Shaped
    <2>4. Carries(net'[i], p)
      BY <2>3 DEF Carries
    <2> QED
      BY <1>2, <2>4 DEF Carried
  <1> QED
    BY <1>3, <1>4

\* The failure of a call loses one product at most, and is told.
LEMMA ErrorTold ==
  ASSUME OfferConstants, IInv, LostAreTold, NEW i \in DOMAIN net, ShowError(i)
  PROVE  LostAreTold'
  <1>1. /\ UNCHANGED <<scene, added, published>>
        /\ net' = RemoveAt(net, i) \/ net' = Unmounted(RemoveAt(net, i))
    BY ShowErrorCases DEF ShowError, ApiUnchanged
  <1>2. failures' = IF net[i].op \in {"add", "publish"} THEN failures + 1 ELSE failures
    BY DEF ShowError
  <1>3. PipeOK(scene, net)
    BY DEF IInv, RequestsOK
  <1>4. PipeOK(scene, RemoveAt(net, i))
    BY <1>3, Drops
  <1>5. \A p : Carried(net, p) => Carried(net', p) \/ Carries(net[i], p)
    BY <1>1, <1>3, <1>4, RestCarries, UnmountedCarries
  <1>6. CASE net[i].op \notin {"add", "publish"}
    <2>1. \A p : Carried(net, p) => Carried(net', p)
      BY <1>5, <1>6 DEF Carries
    <2>2. failures' = failures
      BY <1>2, <1>6
    <2> QED
      BY <1>1, <2>1, <2>2, NoneLost DEF LostAreTold
  <1>7. CASE net[i].op \in {"add", "publish"}
    <2>1. PICK q : \A p : Carries(net[i], p) => p = q
      <3>1. CASE net[i].op = "add"
        BY <3>1 DEF Carries
      <3>2. CASE net[i].op = "publish"
        BY <3>2 DEF Carries
      <3> QED
        BY <1>7, <3>1, <3>2
    <2>2. Lost' \subseteq Lost \union {q}
      BY <1>1, <1>5, <2>1 DEF Lost, Created
    <2>3. IsFiniteSet(Lost) /\ Cardinality(Lost) \in Nat
      BY FiniteLost DEF LostAreTold
    <2>4. IsFiniteSet(Lost \union {q}) /\ Cardinality(Lost \union {q}) <= Cardinality(Lost) + 1
      <3>1. PICK L : L = Lost
        OBVIOUS
      <3>2. IsFiniteSet(L) /\ Cardinality(L) \in Nat
        BY <2>3, <3>1
      <3>3. IsFiniteSet(L \union {q})
        BY <3>2, FS_AddElement
      <3>4. Cardinality(L \union {q}) = IF q \in L THEN Cardinality(L) ELSE Cardinality(L) + 1
        BY <3>2, FS_AddElement
      <3>5. Cardinality(L \union {q}) <= Cardinality(L) + 1
        BY <3>2, <3>4
      <3> QED
        BY <3>1, <3>3, <3>5
    <2>5. Cardinality(Lost') <= Cardinality(Lost) + 1 /\ Cardinality(Lost') \in Nat
      <3>1. IsFiniteSet(Lost') /\ Cardinality(Lost') <= Cardinality(Lost \union {q})
        BY <2>2, <2>4, FS_Subset
      <3>2. Cardinality(Lost') \in Nat /\ Cardinality(Lost \union {q}) \in Nat
        BY <2>4, <3>1, FS_CardinalityType
      <3> QED
        BY <2>3, <2>4, <3>1, <3>2
    <2>6. failures' = failures + 1
      BY <1>2, <1>7
    <2> QED
      BY <1>1, <2>3, <2>5, <2>6 DEF LostAreTold
  <1> QED
    BY <1>6, <1>7

\* A product that is added is carried by the answer.
LEMMA AddTold ==
  ASSUME OfferConstants, IInv, LostAreTold, NEW i \in DOMAIN net, ServeAdd(i)
  PROVE  LostAreTold'
  <1>1. PICK k : k = Cardinality(Products) + added + 1
    OBVIOUS
  <1>2. PICK answer : answer = [status |-> "ok", product |-> k]
    OBVIOUS
  <1>3. /\ Answered(i, answer) /\ net[i].answer = Waiting /\ net[i].op = "add"
        /\ added' = added + 1 /\ UNCHANGED <<published, failures, scene>>
    BY <1>1, <1>2 DEF ServeAdd, Waits, ClientUnchanged
  <1>4. \A p : Carried(net, p) => Carried(net', p)
    BY <1>3, AnsweredCarries
  <1>5. Carried(net', k)
    <2>1. Shaped(net[i])
      BY DEF IInv, RequestsOK, PipeOK, RequestOK
    <2>2. DOMAIN net' = DOMAIN net /\ net'[i] = [net[i] EXCEPT !.answer = answer]
      BY <1>3 DEF Answered
    <2>3. net'[i].op = "add" /\ net'[i].answer = answer
      BY <1>3, <2>1, <2>2 DEF Shaped
    <2>4. Carries(net'[i], k)
      BY <1>2, <2>3 DEF Carries
    <2> QED
      BY <2>2, <2>4 DEF Carried
  <1>6. Cardinality(Products) \in Nat /\ added \in Nat
    BY FiniteProducts DEF LostAreTold
  <1>7. Created' = Created \union {k}
    BY <1>1, <1>3, <1>6 DEF Created
  <1>8. Lost' \subseteq Lost
    BY <1>3, <1>4, <1>5, <1>7 DEF Lost
  <1>9. IsFiniteSet(Lost) /\ Cardinality(Lost) \in Nat
    BY <1>6, FiniteLost
  <1>10. Cardinality(Lost') <= Cardinality(Lost) /\ Cardinality(Lost') \in Nat
    BY <1>8, <1>9, FS_Subset, FS_CardinalityType
  <1> QED
    BY <1>3, <1>6, <1>9, <1>10 DEF LostAreTold

\* The user's steps carry what was carried.
LEMMA UserTold ==
  ASSUME OfferConstants, IInv, LostAreTold, UNCHANGED <<added, published, failures, scene>>,
         \/ net' = net
         \/ \E m : net' = Append(net, m)
         \/ \E r : Load(net, r)
  PROVE  LostAreTold'
  <1>1. PipeOK(scene, net) /\ IsSeq(net)
    BY DEF IInv, RequestsOK, PipeOK
  <1>2. \A p : Carried(net, p) => Carried(net', p)
    BY <1>1, AppendedCarries, LoadCarries
  <1> QED
    BY <1>2, NoneLost DEF LostAreTold

LEMMA ClicksTold ==
  ASSUME Click
  PROVE  UNCHANGED <<added, published, failures, scene>>
  BY DEF Click, ApiUnchanged

LEMMA InitTold == ASSUME OfferConstants PROVE Init => LostAreTold
  <1> SUFFICES ASSUME Init
               PROVE  LostAreTold
    OBVIOUS
  <1>1. added = 0 /\ failures = 0 /\ published = {}
    BY DEF Init
  <1>2. Cardinality(Products) \in Nat
    BY FiniteProducts
  <1>3. Lost = {}
    BY <1>1, <1>2 DEF Lost, Created
  <1> QED
    BY <1>1, <1>3, FS_EmptySet DEF LostAreTold

\* Every action keeps it.
LEMMA NextTold == OfferConstants /\ IInv /\ LostAreTold /\ [Next]_formVars => LostAreTold'
  <1> SUFFICES ASSUME OfferConstants, IInv, LostAreTold, [Next]_formVars
               PROVE  LostAreTold'
    OBVIOUS
  <1>0. PipeOK(scene, net)
    BY DEF IInv, RequestsOK
  <1>1. ASSUME NEW r, ChangeRoute(r) \/ Retry
        PROVE  LostAreTold'
    <2>1. Click /\ \E t : Load(net, t)
      BY <1>1 DEF ChangeRoute, Retry
    <2> QED
      BY <2>1, ClicksTold, UserTold
  <1>2. ASSUME NEW new, Fill(new)
        PROVE  LostAreTold'
    <2>1. Click /\ net' = net
      BY <1>2 DEF Fill
    <2> QED
      BY <2>1, ClicksTold, UserTold
  <1>3. ASSUME NEW m, Send(m)
        PROVE  LostAreTold'
    <2>1. Click /\ net' = Append(net, m)
      BY <1>3 DEF Send
    <2> QED
      BY <2>1, ClicksTold, UserTold
  <1>4. ASSUME NEW o, SelectOffer(o) \/ UpdateQuantity(o)
        PROVE  LostAreTold'
    BY <1>2, <1>4 DEF SelectOffer, UpdateQuantity
  <1>5. ASSUME NEW value, EditPrice(value) \/ TypePrice(value) \/ EditStock(value)
                 \/ SetMode(value) \/ ChooseProduct(value) \/ ToggleAvailable
        PROVE  LostAreTold'
    BY <1>2, <1>5 DEF EditPrice, TypePrice, EditStock, SetMode, ChooseProduct, ToggleAvailable
  <1>6. CASE HandleBuy \/ HandleSaveOffer \/ HandleSaveProduct \/ HandleConfirmDelete
               \/ HandleSubmit
    BY <1>3, <1>6 DEF HandleBuy, HandleSaveOffer, HandleSaveProduct, HandleConfirmDelete,
       HandleSubmit
  <1>7. ASSUME NEW target, AskDelete(target) \/ CloseDialog
        PROVE  LostAreTold'
    <2>1. Click /\ net' = net
      BY <1>7 DEF AskDelete, CloseDialog
    <2> QED
      BY <2>1, ClicksTold, UserTold
  <1>8. ASSUME NEW i \in DOMAIN net,
               \/ ServeLoad(i) \/ ServeBuy(i) \/ ServeSave(i) \/ ServeSaveProduct(i)
               \/ ServeDelete(i) \/ ServePublish(i)
        PROVE  LostAreTold'
    <2>1. net[i].answer = Waiting /\ \E answer : Answered(i, answer)
      BY <1>8 DEF ServeLoad, ServeBuy, ServeSave, ServeSaveProduct, ServeDelete, ServePublish, Waits,
                  Refused
    <2>2. UNCHANGED <<added, failures, scene>>
      BY <1>8 DEF ServeLoad, ServeBuy, ServeSave, ServeSaveProduct, ServeDelete, ServePublish,
                  ApiUnchanged, ClientUnchanged
    <2>3. published' = published \/ published' = published \union {net[i].product}
      BY <1>8 DEF ServeLoad, ServeBuy, ServeSave, ServeSaveProduct, ServeDelete, ServePublish,
                  ApiUnchanged
    <2>4. IsFiniteSet(published') /\ published \subseteq published'
      BY <2>3, FS_AddElement DEF LostAreTold
    <2>5. \A p : Carried(net, p) => Carried(net', p)
      BY <2>1, AnsweredCarries
    <2> QED
      BY <2>2, <2>4, <2>5, NoneLost
  <1>9. ASSUME NEW i \in DOMAIN net, ServeAdd(i) \/ ShowError(i)
        PROVE  LostAreTold'
    BY <1>9, AddTold, ErrorTold
  <1>10. ASSUME NEW i \in DOMAIN net, ShowLoaded(i)
         PROVE  LostAreTold'
    <2>1. /\ UNCHANGED <<added, published, failures, scene>> /\ net[i].op = "load"
      BY <1>10 DEF ShowLoaded, Comes, ApiUnchanged
    <2>2. PipeOK(scene, RemoveAt(net, i))
      BY <1>0, Drops
    <2>3. \A p : Carried(net, p) => Carried(RemoveAt(net, i), p)
      BY <1>0, <2>1, RestCarries DEF Carries
    <2>4. \A p : Carried(net, p) => Carried(net', p)
      BY <1>10, <2>2, <2>3, ShowLoadedCases, UnmountedCarries
    <2> QED
      BY <2>1, <2>4, NoneLost DEF LostAreTold
  <1>11. ASSUME NEW i \in DOMAIN net, ShowAdded(i)
         PROVE  LostAreTold'
    <2>1. PICK m : m = CreateOffer(net[i].answer.product, net[i].sent)
      OBVIOUS
    <2>2. /\ UNCHANGED <<added, published, failures, scene>> /\ net[i].op = "add"
          /\ net' = Append(RemoveAt(net, i), m)
      BY <1>11, <2>1 DEF ShowAdded, Comes, ApiUnchanged
    <2>3. IsSeq(RemoveAt(net, i))
      BY <1>0, Drops DEF PipeOK
    <2>4. \A p : Carries(net[i], p) => Carries(m, p)
      BY <2>1, <2>2 DEF Carries, CreateOffer
    <2>5. \A p : Carried(net, p) => Carried(net', p)
      BY <1>0, <2>2, <2>3, <2>4, RestCarries, AppendedCarries
    <2> QED
      BY <2>2, <2>5, NoneLost DEF LostAreTold
  <1>12. ASSUME NEW i \in DOMAIN net, NEW op \in {"save", "product"}, ShowSaved(i, op)
         PROVE  LostAreTold'
    <2>1. /\ UNCHANGED <<added, published, failures, scene>> /\ net[i].op = op
          /\ Load(RemoveAt(net, i), route)
      BY <1>12 DEF ShowSaved, Comes, ApiUnchanged
    <2>2. PipeOK(scene, RemoveAt(net, i))
      BY <1>0, Drops
    <2>3. \A p : Carried(net, p) => Carried(RemoveAt(net, i), p)
      BY <1>0, <2>1, RestCarries DEF Carries
    <2>4. \A p : Carried(net, p) => Carried(net', p)
      BY <2>1, <2>2, <2>3, LoadCarries
    <2> QED
      BY <2>1, <2>4, NoneLost DEF LostAreTold
  <1>13. ASSUME NEW i, NEW op, ShowGone(i, op)
         PROVE  LostAreTold'
    BY <1>13 DEF ShowGone, Comes, ApiUnchanged, LostAreTold
  <1>14. ASSUME NEW o, Elsewhere(o)
         PROVE  LostAreTold'
    BY <1>14, UserTold DEF Elsewhere, ClientUnchanged
  <1>15. CASE UNCHANGED formVars
    BY <1>15, UserTold DEF formVars
  <1> QED
    BY <1>1, <1>2, <1>3, <1>4, <1>5, <1>6, <1>7, <1>8, <1>9, <1>10, <1>11, <1>12, <1>13, <1>14,
       <1>15 DEF Next

\* A sequence carries no more products than it has requests for one.
LEMMA CarriedCount ==
  ASSUME NEW page, NEW s, PipeOK(page, s)
  PROVE  LET calls == {i \in DOMAIN s : s[i].op \in {"add", "publish"}}
             carried == {p \in {s[i].product : i \in calls} \union
                               {s[i].answer.product : i \in calls} : Carried(s, p)}
         IN  /\ IsFiniteSet(calls) /\ IsFiniteSet(carried)
             /\ Cardinality(carried) <= Cardinality(calls)
             /\ \A p : Carried(s, p) => p \in carried
  <1> DEFINE calls == {i \in DOMAIN s : s[i].op \in {"add", "publish"}}
             product(i) == IF s[i].op = "publish" THEN s[i].product ELSE s[i].answer.product
             image == {product(i) : i \in calls}
             carried == {p \in {s[i].product : i \in calls} \union
                               {s[i].answer.product : i \in calls} : Carried(s, p)}
  <1>1. IsFiniteSet(calls)
    <2>1. DOMAIN s = 1 .. Len(s) /\ 1 \in Int /\ Len(s) \in Int
      BY Indices DEF PipeOK
    <2>2. IsFiniteSet(1 .. Len(s))
      BY <2>1, FS_Interval
    <2> QED
      BY <2>1, <2>2, FS_Subset
  <1>2. IsFiniteSet(image) /\ Cardinality(image) <= Cardinality(calls)
    <2> DEFINE f == [i \in calls |-> product(i)]
    <2>1. f \in Surjection(calls, image)
      BY DEF Surjection
    <2> HIDE DEF f, calls, image
    <2> QED
      BY <1>1, <2>1, FS_Surjection
  <1>3. \A p : Carried(s, p) => p \in image /\ p \in carried
    BY DEF Carried, Carries
  <1>4. carried \subseteq image
    BY <1>3
  <1> HIDE DEF calls, image, carried
  <1>5. IsFiniteSet(carried) /\ Cardinality(carried) <= Cardinality(image)
    BY <1>2, <1>4, FS_Subset
  <1>6. Cardinality(carried) \in Nat /\ Cardinality(image) \in Nat /\ Cardinality(calls) \in Nat
    BY <1>1, <1>2, <1>5, FS_CardinalityType
  <1>7. Cardinality(carried) <= Cardinality(calls)
    BY <1>2, <1>5, <1>6
  <1> QED
    BY <1>1, <1>3, <1>5, <1>7 DEF calls, carried

LEMMA OrphansHold == OfferConstants /\ IInv /\ LostAreTold => OrphansAreTold
  <1> SUFFICES ASSUME OfferConstants, IInv, LostAreTold, scene = "new"
               PROVE  added - Cardinality(published \ Products)
                        <= failures + Cardinality({i \in DOMAIN net :
                                                      net[i].op \in {"add", "publish"}})
    BY DEF OrphansAreTold
  <1> DEFINE calls == {i \in DOMAIN net : net[i].op \in {"add", "publish"}}
             carried == {p \in {net[i].product : i \in calls} \union
                               {net[i].answer.product : i \in calls} : Carried(net, p)}
             sold == published \ Products
  <1>1. /\ IsFiniteSet(calls) /\ IsFiniteSet(carried)
        /\ Cardinality(carried) <= Cardinality(calls)
        /\ \A p : Carried(net, p) => p \in carried
    <2>1. PipeOK(scene, net)
      BY DEF IInv, RequestsOK
    <2> QED
      BY <2>1, CarriedCount
  <1>2. added \in Nat /\ failures \in Nat /\ Cardinality(Lost) <= failures
    BY DEF LostAreTold
  <1>3. IsFiniteSet(sold)
    BY FS_Difference DEF LostAreTold
  <1>4. IsFiniteSet(Created) /\ IsFiniteSet(Lost)
    BY <1>2, FiniteLost
  <1>5. Cardinality(Created) = added
    <2>1. Cardinality(Products) \in Nat
      BY FiniteProducts
    <2>2. PICK a \in Int : a = Cardinality(Products) + 1
      BY <2>1
    <2>3. PICK b \in Int : b = Cardinality(Products) + added
      BY <1>2, <2>1
    <2>4. Cardinality(a .. b) = IF a > b THEN 0 ELSE b - a + 1
      BY FS_Interval
    <2>5. a > b => added = 0
      BY <1>2, <2>1, <2>2, <2>3
    <2>6. ~(a > b) => b - a + 1 = added
      BY <1>2, <2>1, <2>2, <2>3
    <2> QED
      BY <2>2, <2>3, <2>4, <2>5, <2>6 DEF Created
  <1>6. Created \subseteq (Lost \union sold) \union carried
    <2>1. Products = 1 .. Cardinality(Products) /\ Cardinality(Products) \in Nat
      BY FiniteProducts
    <2>2. \A p \in Created : p \notin Products
      BY <1>2, <2>1 DEF Created
    <2> HIDE DEF carried
    <2> QED
      BY <1>1, <2>2 DEF Lost
  <1> HIDE DEF calls, carried, sold
  <1>7. /\ Cardinality(Lost) \in Nat /\ Cardinality(sold) \in Nat
        /\ Cardinality(carried) \in Nat /\ Cardinality(calls) \in Nat
    BY <1>1, <1>3, <1>4, FS_CardinalityType
  <1>8. PICK ls : ls = Lost \union sold
    OBVIOUS
  <1>9. IsFiniteSet(ls) /\ Cardinality(ls) <= Cardinality(Lost) + Cardinality(sold)
        /\ Cardinality(ls) \in Nat
    <2>1. /\ IsFiniteSet(ls)
          /\ Cardinality(ls) = Cardinality(Lost) + Cardinality(sold) - Cardinality(Lost \cap sold)
      BY <1>3, <1>4, <1>8, FS_Union
    <2>2. Cardinality(Lost \cap sold) \in Nat /\ Cardinality(ls) \in Nat
      BY <1>4, <2>1, FS_Intersection, FS_CardinalityType
    <2> QED
      BY <1>7, <2>1, <2>2
  <1>10. PICK all : all = ls \union carried
    OBVIOUS
  <1>11. IsFiniteSet(all) /\ Cardinality(all) <= Cardinality(ls) + Cardinality(carried)
         /\ Cardinality(all) \in Nat
    <2>1. /\ IsFiniteSet(all)
          /\ Cardinality(all) = Cardinality(ls) + Cardinality(carried) - Cardinality(ls \cap carried)
      BY <1>1, <1>9, <1>10, FS_Union
    <2>2. Cardinality(ls \cap carried) \in Nat /\ Cardinality(all) \in Nat
      BY <1>9, <2>1, FS_Intersection, FS_CardinalityType
    <2> QED
      BY <1>7, <1>9, <2>1, <2>2
  <1>12. added <= Cardinality(all)
    BY <1>5, <1>6, <1>8, <1>10, <1>11, FS_Subset
  <1>13. added - Cardinality(sold) <= failures + Cardinality(calls)
    BY <1>1, <1>2, <1>7, <1>9, <1>11, <1>12
  <1> QED
    BY <1>13 DEF sold, calls

-----------------------------------------------------------------------------
(***************************************************************************)
(* What holds in every state                                               *)
(***************************************************************************)

LEMMA Invariant == ASSUME OfferConstants PROVE Spec => [](IInv /\ LostAreTold)
  <1>1. Init => IInv /\ LostAreTold
    BY InitIInv, InitTold
  <1>2. IInv /\ LostAreTold /\ [Next]_formVars => (IInv /\ LostAreTold)'
    BY NextIInv, NextTold
  <1> QED
    BY <1>1, <1>2, PTL DEF Spec

\* The variables of the forms keep their types.
THEOREM FormsTypeCorrect == ASSUME OfferConstants PROVE Spec => []TypeOK
  BY TypeHolds, Invariant, PTL

\* An order is paid at the price that was on the screen when its buyer clicked,
\* for units the screen said were there, unless two loads of the page overlapped
\* (PurchasePanel.tsx:56, checkout.py:43).
THEOREM PaidAsShown == ASSUME OfferConstants PROVE Spec => []BoughtAsShown
  BY BoughtHolds, Invariant, PTL

\* A save changes a field the seller did not touch only if the row had changed
\* after the form was filled (SellerOfferDetailPage.tsx:100).
THEOREM OverwritesAreStale == ASSUME OfferConstants PROVE Spec => []OverwritesOnlyWhenStale
  BY OverwritesHolds, Invariant, PTL

\* A product without an offer was told of, or waits for the second call of its
\* form (SellerOfferNewPage.tsx:61).
THEOREM FailuresAreTold == ASSUME OfferConstants PROVE Spec => []OrphansAreTold
  <1>1. IInv /\ LostAreTold => OrphansAreTold
    BY OrphansHold
  <1> QED
    BY <1>1, Invariant, PTL
=============================================================================
