----------------------------- MODULE OfferPages -----------------------------
(***************************************************************************)
(* The forms about offers: the page of a product, where a buyer chooses an *)
(* offer and buys (ProductDetailPage, PurchasePanel), and the two forms of *)
(* a seller, which edit an offer (SellerOfferDetailPage) and publish one   *)
(* (SellerOfferNewPage).  Each form is filled from an answer of the API    *)
(* and sent later, while others buy and edit the same offers.              *)
(***************************************************************************)
EXTENDS AsyncView, Integers, FiniteSets, SequencesExt

CONSTANTS
    Offers,
    ProductOf,     \* the product of each offer
    Mine,          \* the offers of the seller's own store
    Shelf,         \* the initial row of each offer
    ApiPrice,      \* toApiPrice on the texts a price field may hold, "" for null
    MaxStock,
    MaxProducts,   \* products the form of a new offer may add
    MaxOthers,     \* changes made by other sessions
    MaxRequests,
    MaxClicks

VARIABLES
    scene,         \* the page that is mounted: product, editor, new, or left
    route,         \* the product, or the offer, of the URL
    row,           \* the API's offers
    live,          \* those that exist
    added,         \* products the form of a new offer created
    orders,        \* orders of the buyer
    published,     \* products the form of a new offer published an offer for
    view,          \* what useAsync holds
    form,          \* the state of the form on show
    pending,       \* its request is in flight
    dialog,        \* what it asks to confirm the deletion of, or none
    net,           \* requests in flight
    overlapped,    \* history: the newest load left while another was in flight
    failures,      \* history: answers that told the new-offer form of a failure
    others,
    clicks

formVars == <<scene, route, row, live, added, orders, published, view, form,
              pending, dialog, net, overlapped, failures, others, clicks>>

Products == {ProductOf[o] : o \in Offers}

\* A price the API holds is one toApiPrice leaves as it is.
Prices == {p \in DOMAIN ApiPrice : p # "" /\ ApiPrice[p] = p}
Rows == [price : Prices, stock : 0..MaxStock, available : BOOLEAN]

OfferConstants ==
    /\ IsFiniteSet(Offers) /\ 0 \notin Offers /\ Mine \subseteq Offers
    /\ Products = 1..Cardinality(Products)
    /\ Shelf \in [Offers -> Rows]
    /\ \A text \in DOMAIN ApiPrice : ApiPrice[text] \in Prices \cup {""}
    /\ MaxRequests \in Nat \ {0}
    /\ {MaxStock, MaxProducts, MaxOthers, MaxClicks} \subseteq Nat

NoForm == [none |-> TRUE]
Waiting == [status |-> "pending"]

-----------------------------------------------------------------------------
(* What each page loads and shows *)

\* Which offer a list names first is up to the database: no order is asked for.
OffersOf(p) == {o \in live : ProductOf[o] = p}

ProductDetailPage(p) == [of |-> p, row |-> [o \in OffersOf(p) |-> row[o]]]
SellerOfferDetailPage(o) == [of |-> o, row |-> [x \in {o} |-> row[x]]]

Loads(r) == [op |-> "load", thing |-> r, answer |-> Waiting]

availableOffers(data) ==
    {o \in DOMAIN data.row : data.row[o].available /\ data.row[o].stock > 0}

\* The form a page mounts with its data.
PurchasePanel(data) ==
    {[selected |-> o, quantity |-> 1] :
        o \in IF availableOffers(data) = {} THEN {0} ELSE availableOffers(data)}

SellerOfferEditor(data) ==
    {[price |-> data.row[data.of].price, stock |-> data.row[data.of].stock,
      available |-> data.row[data.of].available, edited |-> {}]}

NewOffer == {[mode |-> "existing", product |-> 0, price |-> "", stock |-> 1]}

Mounted(data) ==
    CASE scene = "product" -> PurchasePanel(data)
      [] scene = "editor"  -> IF data.of \in Mine THEN SellerOfferEditor(data) ELSE {NoForm}
      [] scene = "new"     -> NewOffer

\* Mutant of EditorKey: the id alone.
EditorKeyOfId(data) == <<data.of>>

\* The editor is keyed by what it was filled with: the same answer again leaves
\* it alone, another one mounts it anew.
EditorKey(data) == <<data.of, data.row[data.of]>>

Stays(data) ==
    /\ view.status = "success"
    /\ scene = "editor" => EditorKey(data) = EditorKey(view.data)

Unmounted(pipe) ==
    [i \in DOMAIN pipe |-> IF pipe[i].op = "load" THEN pipe[i]
                           ELSE [pipe[i] EXCEPT !.mounted = FALSE]]

\* useAsync loads: the form goes, another request leaves.
Load(pipe, r) ==
    /\ net' = Requested(Unmounted(pipe), Loads(r))
    /\ overlapped' = (\E i \in DOMAIN pipe : pipe[i].op = "load")
    /\ view' = Loading
    /\ form' = NoForm
    /\ pending' = FALSE /\ dialog' = "none"

Init ==
    /\ scene \in {"product", "editor", "new"}
    /\ route \in IF scene = "product" THEN Products ELSE Offers
    /\ row = Shelf /\ live = Offers
    /\ added = 0 /\ orders = <<>> /\ published = {}
    /\ view = Loading /\ form = NoForm
    /\ pending = FALSE /\ dialog = "none"
    /\ net = <<Loads(route)>>
    /\ overlapped = FALSE /\ failures = 0 /\ others = 0 /\ clicks = 0

-----------------------------------------------------------------------------
(* The user *)

ApiUnchanged == UNCHANGED <<row, live, added, orders, published, others>>

Click ==
    /\ clicks < MaxClicks /\ clicks' = clicks + 1
    /\ ApiUnchanged /\ UNCHANGED <<scene, failures>>

ChangeRoute(r) ==
    /\ Click
    /\ scene \in {"product", "editor"} /\ r # route
    /\ Len(net) < MaxRequests
    /\ route' = r
    /\ Load(net, r)

Retry ==
    /\ Click
    /\ view = Failed
    /\ Len(net) < MaxRequests
    /\ Load(net, route)
    /\ UNCHANGED route

Fill(new) ==
    /\ Click
    /\ form # NoForm /\ new # form
    /\ form' = new
    /\ UNCHANGED <<route, view, pending, dialog, net, overlapped>>

\* The panel shows nothing to fill in without an available offer selected.
selectedOffer == {form.selected} \cap availableOffers(view.data)
Buying == scene = "product" /\ view.status = "success"

SelectOffer(o) ==
    /\ Buying
    /\ o \in availableOffers(view.data)
    /\ Fill([selected |-> o, quantity |-> 1])

UpdateQuantity(value) ==
    /\ Buying
    /\ \E o \in selectedOffer :
          LET atLeast1 == IF value < 1 THEN 1 ELSE value
              stock == view.data.row[o].stock
          IN  Fill([form EXCEPT !.quantity = IF atLeast1 > stock THEN stock ELSE atLeast1])

\* A request remembers whether the form that sent it is still there.
Send(request) ==
    /\ Click
    /\ ~pending
    /\ Len(net) < MaxRequests
    /\ pending' = TRUE
    /\ net' = Append(net, request)
    /\ UNCHANGED <<route, view, form, dialog, overlapped>>

\* shown and amid are history: the row on the screen, and whether the page was
\* being loaded twice.
HandleBuy ==
    /\ Buying
    /\ \E o \in selectedOffer :
          Send([op |-> "buy", offer |-> o, quantity |-> form.quantity,
                expected |-> view.data.row[o].price, shown |-> view.data.row[o],
                amid |-> overlapped, mounted |-> TRUE, answer |-> Waiting])

Editing == scene = "editor" /\ view.status = "success" /\ form # NoForm

EditPrice(text) ==
    Editing /\ Fill([form EXCEPT !.price = text, !.edited = @ \cup {"price"}])
EditStock(n) ==
    Editing /\ Fill([form EXCEPT !.stock = n, !.edited = @ \cup {"stock"}])
ToggleAvailable ==
    Editing /\ Fill([form EXCEPT !.available = ~@, !.edited = @ \cup {"available"}])

\* An invalid price or stock is told and nothing is sent.
FormIsValid == ApiPrice[form.price] # "" /\ form.stock >= 0

HandleSaveOffer ==
    /\ Editing /\ dialog = "none"
    /\ FormIsValid
    /\ Send([op |-> "save", offer |-> view.data.of, edited |-> form.edited,
             to |-> [price |-> ApiPrice[form.price], stock |-> form.stock,
                     available |-> form.available],
             shown |-> view.data.row[view.data.of], mounted |-> TRUE, answer |-> Waiting])

\* The product is saved by a form of its own; the page loads again all the same.
HandleSaveProduct ==
    /\ Editing /\ dialog = "none"
    /\ Send([op |-> "product", mounted |-> TRUE, answer |-> Waiting])

AskDelete(target) ==
    /\ Click
    /\ Editing /\ ~pending /\ dialog = "none"
    /\ dialog' = target
    /\ UNCHANGED <<route, view, form, pending, net, overlapped>>

CloseDialog ==
    /\ Click
    /\ dialog # "none"
    /\ dialog' = "none"
    /\ UNCHANGED <<route, view, form, pending, net, overlapped>>

HandleConfirmDelete ==
    /\ Editing /\ dialog # "none"
    /\ Send([op |-> "delete", target |-> dialog, offer |-> view.data.of,
             mounted |-> TRUE, answer |-> Waiting])

Publishing == scene = "new" /\ view.status = "success"

SetMode(mode) == Publishing /\ Fill([form EXCEPT !.mode = mode])
ChooseProduct(p) ==
    Publishing /\ form.mode = "existing" /\ Fill([form EXCEPT !.product = p])
TypePrice(text) == Publishing /\ Fill([form EXCEPT !.price = text])

CreateOffer(p, offerForm) ==
    [op |-> "publish", product |-> p, price |-> ApiPrice[offerForm.price],
     mounted |-> TRUE, answer |-> Waiting]

HandleSubmit ==
    /\ Publishing /\ FormIsValid
    /\ \/ /\ form.mode = "new"
          /\ Send([op |-> "add", sent |-> form, mounted |-> TRUE, answer |-> Waiting])
       \/ /\ form.mode = "existing" /\ form.product # 0
          /\ Send(CreateOffer(form.product, form))

-----------------------------------------------------------------------------
(* The API *)

ClientUnchanged ==
    UNCHANGED <<scene, route, view, form, pending, dialog, overlapped, failures, clicks>>

Waits(i, op) == net[i].answer = Waiting /\ net[i].op = op
Answered(i, answer) == net' = [net EXCEPT ![i].answer = answer]
Refused(i) == Answered(i, [status |-> "refused"])

ServeLoad(i) ==
    /\ Waits(i, "load")
    /\ \/ /\ scene = "editor" => net[i].thing \in live
          /\ Answered(i, [status |-> "ok",
                data |-> CASE scene = "product" -> ProductDetailPage(net[i].thing)
                           [] scene = "editor"  -> SellerOfferDetailPage(net[i].thing)
                           [] scene = "new"     -> [of |-> 0]])
       \/ scene = "editor" /\ net[i].thing \notin live /\ Refused(i)
    /\ ApiUnchanged /\ ClientUnchanged

\* Mutants of CheckoutProblem: the stock, or the price, is not looked at.
CheckoutAnyStock(request) ==
    CASE request.offer \notin live                         -> "not_found"
      [] ~row[request.offer].available                     -> "unavailable"
      [] row[request.offer].price # request.expected       -> "price_changed"
      [] OTHER                                             -> "none"

CheckoutAnyPrice(request) ==
    CASE request.offer \notin live                         -> "not_found"
      [] ~row[request.offer].available                     -> "unavailable"
      [] row[request.offer].stock < request.quantity       -> "insufficient_stock"
      [] OTHER                                             -> "none"

\* checkout: the reasons in the order in which it looks for them.
CheckoutProblem(request) ==
    CASE request.offer \notin live                         -> "not_found"
      [] ~row[request.offer].available                     -> "unavailable"
      [] row[request.offer].stock < request.quantity       -> "insufficient_stock"
      [] row[request.offer].price # request.expected       -> "price_changed"
      [] OTHER                                             -> "none"

ServeBuy(i) ==
    /\ Waits(i, "buy")
    /\ IF CheckoutProblem(net[i]) = "none"
       THEN /\ row' = [row EXCEPT ![net[i].offer].stock = @ - net[i].quantity]
            /\ orders' = Append(orders, [quantity |-> net[i].quantity, shown |-> net[i].shown,
                                         paid |-> row[net[i].offer].price, amid |-> net[i].amid])
            /\ Answered(i, [status |-> "ok"])
       ELSE Refused(i) /\ UNCHANGED <<row, orders>>
    /\ UNCHANGED <<live, added, published, others>> /\ ClientUnchanged

\* before is history: what the save found.
ServeSave(i) ==
    /\ Waits(i, "save")
    /\ IF net[i].offer \in live
       THEN /\ row' = [row EXCEPT ![net[i].offer] = net[i].to]
            /\ Answered(i, [status |-> "ok", before |-> row[net[i].offer]])
       ELSE Refused(i) /\ UNCHANGED row
    /\ UNCHANGED <<live, added, orders, published, others>> /\ ClientUnchanged

ServeSaveProduct(i) ==
    /\ Waits(i, "product")
    /\ Answered(i, [status |-> "ok"])
    /\ ApiUnchanged /\ ClientUnchanged

\* An offer with order items stays; so does a product with offers.
ServeDelete(i) ==
    /\ Waits(i, "delete")
    /\ \/ /\ net[i].target = "offer" /\ net[i].offer \in live
          /\ \/ live' = live \ {net[i].offer} /\ Answered(i, [status |-> "ok"])
             \/ UNCHANGED live /\ Refused(i)
       \/ /\ net[i].target = "offer" /\ net[i].offer \notin live
          /\ UNCHANGED live /\ Refused(i)
       \/ /\ net[i].target = "product"
          /\ UNCHANGED live
          /\ IF OffersOf(ProductOf[net[i].offer]) = {}
             THEN Answered(i, [status |-> "ok"]) ELSE Refused(i)
    /\ UNCHANGED <<row, added, orders, published, others>> /\ ClientUnchanged

ServeAdd(i) ==
    /\ Waits(i, "add")
    /\ added < MaxProducts
    /\ added' = added + 1
    /\ Answered(i, [status |-> "ok", product |-> Cardinality(Products) + added + 1])
    /\ UNCHANGED <<row, live, orders, published, others>> /\ ClientUnchanged

ServePublish(i) ==
    /\ Waits(i, "publish")
    /\ published' = published \cup {net[i].product}
    /\ Answered(i, [status |-> "ok"])
    /\ UNCHANGED <<row, live, added, orders, others>> /\ ClientUnchanged

\* Another session: somebody buys a unit, the store edits or deletes the offer.
Elsewhere(o) ==
    /\ others < MaxOthers /\ others' = others + 1
    /\ o \in live
    /\ \/ /\ row[o].available /\ row[o].stock > 0
          /\ row' = [row EXCEPT ![o].stock = @ - 1]
          /\ UNCHANGED live
       \/ /\ \E new \in [price : {ApiPrice[t] : t \in DOMAIN ApiPrice} \ {""},
                         stock : {MaxStock}, available : BOOLEAN] : row' = [row EXCEPT ![o] = new]
          /\ UNCHANGED live
       \/ live' = live \ {o} /\ UNCHANGED row
    /\ UNCHANGED <<added, orders, published, net>> /\ ClientUnchanged

-----------------------------------------------------------------------------
(* The answers reach the page *)

Comes(i, op) ==
    /\ net[i].op = op /\ net[i].answer.status = "ok"
    /\ ApiUnchanged /\ UNCHANGED <<route, clicks>>

\* Whichever load it belongs to.  A form that is there stays as it is.
ShowLoaded(i) ==
    /\ Comes(i, "load")
    /\ view' = Arrived(net[i].answer.data)
    /\ IF Stays(net[i].answer.data)
       THEN net' = RemoveAt(net, i) /\ UNCHANGED <<form, pending, dialog>>
       ELSE /\ net' = Unmounted(RemoveAt(net, i))
            /\ form' \in Mounted(net[i].answer.data)
            /\ pending' = FALSE /\ dialog' = "none"
    /\ UNCHANGED <<scene, overlapped, failures>>

\* navigate: to the order, to the list of offers, to the offer published.
ShowGone(i, op) ==
    /\ Comes(i, op)
    /\ scene' = "left" /\ view' = Loading /\ form' = NoForm
    /\ pending' = FALSE /\ dialog' = "none" /\ net' = <<>>
    /\ UNCHANGED <<overlapped, failures>>

ShowSaved(i, op) ==
    /\ Comes(i, op)
    /\ Load(RemoveAt(net, i), route)
    /\ UNCHANGED <<scene, failures>>

\* The second of the two calls; it uses the fields as they were at the click.
ShowAdded(i) ==
    /\ Comes(i, "add")
    /\ net' = Append(RemoveAt(net, i), CreateOffer(net[i].answer.product, net[i].sent))
    /\ UNCHANGED <<scene, view, form, pending, dialog, overlapped, failures>>

\* A refusal, or an answer that never comes.  A deletion that failed closes its
\* dialog.
ShowError(i) ==
    /\ net' = IF net[i].op = "load" THEN Unmounted(RemoveAt(net, i)) ELSE RemoveAt(net, i)
    /\ failures' = IF net[i].op \in {"add", "publish"} THEN failures + 1 ELSE failures
    /\ IF net[i].op = "load"
       THEN view' = Failed /\ form' = NoForm /\ pending' = FALSE /\ dialog' = "none"
       ELSE /\ pending' = (pending /\ ~net[i].mounted)
            /\ dialog' = IF net[i].op = "delete" /\ net[i].mounted THEN "none" ELSE dialog
            /\ UNCHANGED <<view, form>>
    /\ ApiUnchanged /\ UNCHANGED <<scene, route, overlapped, clicks>>

Next ==
    \/ \E r \in IF scene = "product" THEN Products ELSE Offers : ChangeRoute(r)
    \/ Retry
    \/ \E o \in Offers : SelectOffer(o)
    \/ \E n \in 0..(MaxStock + 1) : UpdateQuantity(n)
    \/ HandleBuy
    \/ \E text \in DOMAIN ApiPrice : EditPrice(text) \/ TypePrice(text)
    \/ \E n \in {-1, MaxStock} : EditStock(n)
    \/ ToggleAvailable \/ HandleSaveOffer \/ HandleSaveProduct
    \/ \E target \in {"offer", "product"} : AskDelete(target)
    \/ CloseDialog \/ HandleConfirmDelete
    \/ \E mode \in {"existing", "new"} : SetMode(mode)
    \/ \E p \in Products : ChooseProduct(p)
    \/ HandleSubmit
    \/ \E i \in DOMAIN net :
          \/ ServeLoad(i) \/ ServeBuy(i) \/ ServeSave(i) \/ ServeSaveProduct(i)
          \/ ServeDelete(i) \/ ServeAdd(i) \/ ServePublish(i)
          \/ ShowLoaded(i) \/ ShowAdded(i) \/ ShowError(i)
          \/ \E op \in {"buy", "delete", "publish"} : ShowGone(i, op)
          \/ \E op \in {"save", "product"} : ShowSaved(i, op)
    \/ \E o \in Offers : Elsewhere(o)

Spec == Init /\ [][Next]_formVars

-----------------------------------------------------------------------------
(* Properties *)

\* The type invariant of the forms.
TypeOK ==
    /\ scene \in {"product", "editor", "new", "left"}
    /\ live \subseteq Offers
    /\ \A o \in Offers : row[o].stock \in 0..MaxStock /\ row[o].available \in BOOLEAN
    /\ {pending, overlapped} \subseteq BOOLEAN
    /\ dialog \in {"none", "offer", "product"}
    /\ (form # NoForm) => view.status = "success"
    /\ Len(net) <= MaxRequests

\* An order is paid at the price that was on the screen when its buyer clicked,
\* for a number of units the screen said were there, unless two loads of the
\* page overlapped (PurchasePanel.tsx:56, :48, checkout.py:43).
BoughtAsShown ==
    \A k \in DOMAIN orders :
        \/ orders[k].amid
        \/ /\ orders[k].paid = orders[k].shown.price
           /\ orders[k].quantity \in 1..orders[k].shown.stock

\* A save writes every field of the form (SellerOfferDetailPage.tsx:100): it
\* changes one the seller did not touch only if the row changed after the form
\* was filled, as when a unit was sold meanwhile.
OverwritesOnlyWhenStale ==
    \A i \in DOMAIN net :
        (net[i].op = "save" /\ net[i].answer.status = "ok") =>
            LET before == net[i].answer.before
            IN  \/ before # net[i].shown
                \/ \A field \in DOMAIN before :
                      net[i].to[field] # before[field] => field \in net[i].edited

\* A product the form of a new offer created is left without an offer only
\* after that form told a failure, or while its second call is under way
\* (SellerOfferNewPage.tsx:61).
OrphansAreTold ==
    scene = "new" =>
        added - Cardinality(published \ Products)
            <= failures + Cardinality({i \in DOMAIN net : net[i].op \in {"add", "publish"}})

=============================================================================
