------------------------------- MODULE Orders -------------------------------
(***************************************************************************)
(* Offers, checkout, shipping and cancellation, as the requests of the     *)
(* HTTP server run them: every request is one PostgreSQL transaction       *)
(* (database.py session_transaction) at READ COMMITTED, and an action is   *)
(* one SQL statement of a request with the Python code around it.  What a  *)
(* request has written stays with the request until its commit; the rows   *)
(* it has written or selected FOR UPDATE are locked until it ends.         *)
(*                                                                         *)
(* Checkouts are one shot: the order a checkout commits is known by the    *)
(* checkout's identifier, and <<c, n>> is line n of order c (the unique    *)
(* (order_id, line) of orders/models.py).  ItemRequest and OfferRequest    *)
(* are worker threads that serve one request after another.                *)
(***************************************************************************)
EXTENDS Integers, Sequences, FiniteSets, FiniteSetsExt, OrderStatus

CONSTANTS
  Offer,          \* offer identifiers, the ones created later included
  Price,          \* prices an offer may carry
  Catalogue,      \* the offers table a run starts from, seeded by catalog/seed.py
  Cart,           \* CheckoutRequest payloads
  MaxLines,       \* bound: the length of the longest cart
  OfferPayload,   \* OfferCreate / OfferUpdate payloads
  Checkout,       \* POST /v1/orders requests
  ItemRequest,    \* threads serving PATCH /order-items and /cancel
  OfferRequest,   \* threads serving POST, PATCH and DELETE /offers
  None            \* no lock holder, field not set, no value

CheckoutItem == [offer : Offer, quantity : Nat \ {0}, expected_price : Price]

CatalogueAssumption ==
  Catalogue \subseteq
    [state : [Offer -> {"absent", "live"}], price : [Offer -> Price],
     stock : [Offer -> Nat], available : [Offer -> BOOLEAN]]

\* CheckoutRequest in orders/schemas.py: at least one line, no repeated offer.
CartAssumption ==
  /\ MaxLines \in Nat
  /\ Cart \subseteq Seq(CheckoutItem)
  /\ \A lines \in Cart :
       /\ Len(lines) \in 1 .. MaxLines
       /\ \A m, n \in 1 .. Len(lines) :
            lines[m].offer = lines[n].offer => m = n

\* A field a PATCH leaves out is None; create_offer needs all three.
PayloadAssumption ==
  OfferPayload \subseteq
    [price : Price \union {None}, stock : Nat \union {None},
     available : BOOLEAN \union {None}]

IdentityAssumption ==
  /\ None \notin Price \union Nat \union BOOLEAN
  /\ None \notin Checkout \union ItemRequest \union OfferRequest
  /\ Checkout \intersect ItemRequest = {}
  /\ Checkout \intersect OfferRequest = {}
  /\ ItemRequest \intersect OfferRequest = {}

ASSUME OrdersAssumption ==
  CatalogueAssumption /\ CartAssumption /\ PayloadAssumption /\ IdentityAssumption

Tx == Checkout \union ItemRequest \union OfferRequest
Item == Checkout \X (1 .. MaxLines)

\* Rows of the three tables a request can lock.
OfferRow(o) == <<"offer", o>>
ItemRow(i)  == <<"item", i>>
OrderRow(c) == <<"order", c>>

Row == ({"offer"} \X Offer) \union ({"item"} \X Item) \union ({"order"} \X Checkout)

VARIABLES
  offerState, price, stock, available,  \* the offers table, committed
  cart,        \* cart[c]: the payload of c; the lines of order c once placed
  status,      \* the order_items table: "none" before the order commits
  paid,        \* purchase_price of an order item
  lock,        \* row locks: the holder, or None
  pc,          \* where each request is
  line,        \* the line, or row to lock, a request is working on
  rejected,    \* the problems list of a checkout is not empty
  seen,        \* seen[c][n]: the price of line n's offer in c's session
  req,         \* the request an item thread is serving
  previous,    \* the status its session has loaded
  edit,        \* the request an offer thread is serving, dirty fields only
  blocking,    \* the order item a DELETE's RESTRICT check has found
  pending,     \* session.info: events recorded, not yet published
  published,   \* events handed to the publisher last
  moves,       \* history: the status changes committed for each item
  restored,    \* history: how often an item's units went back to stock
  supply       \* history: units the seller put on sale, net of corrections

offers   == <<offerState, price, stock, available>>
orders   == <<cart, status, paid>>
sessions == <<line, rejected, seen, req, previous, edit, blocking>>
history  == <<moves, restored, supply>>
vars     == <<offers, orders, lock, pc, sessions, pending, published, history>>

OfferOf(i)    == cart[i[1]][i[2]].offer
QuantityOf(i) == cart[i[1]][i[2]].quantity
Exists(i)     == status[i] # "none"

ItemRequestPayload ==
  [item : Item, role : {"seller"}, target : OrderItemForwardStatus]
    \union [item : Item, role : {"buyer", "seller"}, target : {"cancelled"}]

OfferEdit ==
  [op : {"update", "delete"}, offer : Offer, price : Price \union {None},
   stock : Nat \union {None}, available : BOOLEAN \union {None}]

Event ==
  [type : {"OrderCreated"}, order : Checkout]
    \union [type : {"OrderItemStatusChanged"}, item : Item,
            from : OrderItemStatus, to : OrderItemStatus]
    \union [type : {"OrderItemCancelled"}, item : Item, restored : BOOLEAN]

-----------------------------------------------------------------------------
(***************************************************************************)
(* The end of a transaction.  A rollback gives back its locks and discards *)
(* its session; so does a commit, after the caller's writes.               *)
(***************************************************************************)
Lock(t, row) ==
  /\ lock[row] \in {None, t}
  /\ lock' = [lock EXCEPT ![row] = t]

\* Mutant of ReleaseLocks: the session is never closed.
KeepLocks(t) == lock' = lock

ReleaseLocks(t) ==
  lock' = [row \in Row |-> IF lock[row] = t THEN None ELSE lock[row]]

CloseSession(t) ==
  /\ line'     = [line EXCEPT ![t] = 0]
  /\ rejected' = [rejected EXCEPT ![t] = FALSE]
  /\ seen'     = [seen EXCEPT ![t] = <<>>]
  /\ req'      = [req EXCEPT ![t] = None]
  /\ previous' = [previous EXCEPT ![t] = None]
  /\ edit'     = [edit EXCEPT ![t] = None]
  /\ blocking' = [blocking EXCEPT ![t] = None]

\* Where a request is when it has answered: a checkout is not submitted again.
Finished(t) == IF t \in Checkout THEN "done" ELSE "idle"

Rollback(t) ==
  /\ ReleaseLocks(t)
  /\ CloseSession(t)
  /\ cart' = IF t \in Checkout THEN [cart EXCEPT ![t] = <<>>] ELSE cart
  /\ pending' = [pending EXCEPT ![t] = {}]
  /\ pc' = [pc EXCEPT ![t] = Finished(t)]
  /\ UNCHANGED <<offers, status, paid, published, history>>

\* The seed of the catalogue: some offers are on sale, nothing is ordered.
Init ==
  /\ \E table \in Catalogue :
       /\ offerState = table.state
       /\ price = table.price
       /\ stock = table.stock
       /\ available = table.available
  /\ cart = [t \in Checkout |-> <<>>]
  /\ status = [i \in Item |-> "none"]
  /\ paid = [i \in Item |-> None]
  /\ lock = [row \in Row |-> None]
  /\ pc = [t \in Tx |-> "idle"]
  /\ line = [t \in Tx |-> 0]
  /\ rejected = [t \in Tx |-> FALSE]
  /\ seen = [t \in Tx |-> <<>>]
  /\ req = [t \in Tx |-> None]
  /\ previous = [t \in Tx |-> None]
  /\ edit = [t \in Tx |-> None]
  /\ blocking = [t \in Tx |-> None]
  /\ pending = [t \in Tx |-> {}]
  /\ published = {}
  /\ moves = [i \in Item |-> {}]
  /\ restored = [i \in Item |-> 0]
  /\ supply = stock

-----------------------------------------------------------------------------
(***************************************************************************)
(* POST /v1/orders (orders/checkout.py)                                    *)
(***************************************************************************)
Submit(c) ==
  /\ pc[c] = "idle"
  /\ \E lines \in Cart : cart' = [cart EXCEPT ![c] = lines]
  /\ pc' = [pc EXCEPT ![c] = "validate"]
  /\ line' = [line EXCEPT ![c] = 1]
  /\ UNCHANGED <<offers, status, paid, lock, rejected, seen, req, previous,
                 edit, blocking, pending, published, history>>

\* Mutant of Valid: expected_price is not compared.
ValidAnyPrice(item) ==
  /\ offerState[item.offer] = "live"
  /\ available[item.offer]
  /\ stock[item.offer] >= item.quantity

\* _validate_item finds no reason to reject the line: an unlocked read.
Valid(item) ==
  /\ offerState[item.offer] = "live"
  /\ available[item.offer]
  /\ stock[item.offer] >= item.quantity
  /\ price[item.offer] = item.expected_price

\* One line of the validation loop.  Problems are collected, and only after
\* the last line is the whole cart rejected or the order begun.
ValidateItem(c) ==
  LET item == cart[c][line[c]]
      bad  == rejected[c] \/ ~Valid(item)
      last == line[c] = Len(cart[c])
  IN /\ pc[c] = "validate"
     /\ IF last /\ bad
          THEN Rollback(c)
          ELSE /\ rejected' = [rejected EXCEPT ![c] = bad]
               /\ seen' = [seen EXCEPT ![c] = Append(@, price[item.offer])]
               /\ line' = [line EXCEPT ![c] = IF last THEN 1 ELSE @ + 1]
               /\ pc' = [pc EXCEPT ![c] = IF last THEN "consume" ELSE @]
               /\ UNCHANGED <<offers, orders, lock, req, previous, edit,
                              blocking, pending, published, history>>

\* Mutant of Sellable: WHERE stock >= quantity is left out.
SellableAnyStock(item) == offerState[item.offer] = "live" /\ available[item.offer]

\* The WHERE clause of _consume_stock's UPDATE.  It does not read the price.
Sellable(item) ==
  /\ offerState[item.offer] = "live"
  /\ stock[item.offer] >= item.quantity
  /\ available[item.offer]

\* The UPDATE matches the row and waits for its lock; the item keeps the price
\* of the Offer object loaded at validation.  After the last line the order is
\* flushed and its event recorded.
ConsumeStock(c) ==
  LET item == cart[c][line[c]]
      last == line[c] = Len(cart[c])
  IN /\ pc[c] = "consume"
     /\ Sellable(item)
     /\ Lock(c, OfferRow(item.offer))
     /\ line' = [line EXCEPT ![c] = @ + 1]
     /\ pc' = [pc EXCEPT ![c] = IF last THEN "commit" ELSE @]
     /\ pending' = [pending EXCEPT ![c] =
                      IF last THEN {[type |-> "OrderCreated", order |-> c]} ELSE @]
     /\ UNCHANGED <<offers, orders, rejected, seen, req, previous, edit, blocking,
                    published, history>>

\* No row is affected: CheckoutRejectedError, or a failed refresh when the
\* offer is gone; either way the transaction is rolled back.
RefuseStock(c) ==
  /\ pc[c] = "consume"
  /\ ~Sellable(cart[c][line[c]])
  /\ Rollback(c)

\* Mutant of Units: each line takes one unit, whatever its quantity.
UnitPerLine(lines, o) ==
  Cardinality({ n \in 1 .. Len(lines) : lines[n].offer = o })

\* The units of offer o a cart takes.
Units(lines, o) ==
  LET onOffer == { n \in 1 .. Len(lines) : lines[n].offer = o }
  IN IF onOffer = {} THEN 0 ELSE lines[CHOOSE n \in onOffer : TRUE].quantity

CommitCheckout(c) ==
  /\ pc[c] = "commit"
  /\ stock' = [o \in Offer |-> stock[o] - Units(cart[c], o)]
  /\ status' = [i \in Item |-> IF i[1] = c /\ i[2] <= Len(cart[c])
                                 THEN Placed ELSE status[i]]
  /\ paid' = [i \in Item |-> IF i[1] = c /\ i[2] <= Len(cart[c])
                               THEN seen[c][i[2]] ELSE paid[i]]
  /\ ReleaseLocks(c)
  /\ CloseSession(c)
  /\ pc' = [pc EXCEPT ![c] = "publish"]
  /\ UNCHANGED <<offerState, price, available, cart, pending, published, history>>

-----------------------------------------------------------------------------
(***************************************************************************)
(* PATCH /v1/order-items/{id} and POST .../cancel (orders/routes.py).      *)
(* Only the item's seller, and for a cancel also its buyer, get past       *)
(* load_seller_item / load_buyer_item; anyone else is answered 403 or 404  *)
(* before anything is written, like a request for an unknown item.         *)
(***************************************************************************)
Receive(r) ==
  /\ pc[r] = "idle"
  /\ \E payload \in ItemRequestPayload :
       /\ Exists(payload.item)
       /\ req' = [req EXCEPT ![r] = payload]
  /\ pc' = [pc EXCEPT ![r] = "lock"]
  /\ line' = [line EXCEPT ![r] = 1]
  /\ UNCHANGED <<offers, orders, lock, rejected, seen, previous, edit,
                 blocking, pending, published, history>>

ItemNotFound(r) ==
  /\ pc[r] = "idle"
  /\ \E i \in Item : ~Exists(i)
  /\ UNCHANGED vars

\* Mutants of LockRows: FOR UPDATE OF the joined table only; the joined row first.
JoinedRowOnly(payload) ==
  << IF payload.role = "seller" THEN OfferRow(OfferOf(payload.item))
                                ELSE OrderRow(payload.item[1]) >>

JoinedRowFirst(payload) == JoinedRowOnly(payload) \o << ItemRow(payload.item) >>

\* The rows SELECT ... FOR UPDATE locks, in this order: the item, then the row
\* it is joined with, the offer for a seller and the order for a buyer.
LockRows(payload) ==
  << ItemRow(payload.item),
     IF payload.role = "seller" THEN OfferRow(OfferOf(payload.item))
                                ELSE OrderRow(payload.item[1]) >>

\* With the last row the SELECT returns, and the session has the item's status.
LockRow(r) ==
  LET rows == LockRows(req[r])
      last == line[r] = Len(rows)
  IN /\ pc[r] = "lock"
     /\ Lock(r, rows[line[r]])
     /\ line' = [line EXCEPT ![r] = @ + 1]
     /\ IF last THEN /\ previous' = [previous EXCEPT ![r] = status[req[r].item]]
                     /\ pc' = [pc EXCEPT ![r] = "decide"]
                ELSE UNCHANGED <<previous, pc>>
     /\ UNCHANGED <<offers, orders, rejected, seen, req, edit, blocking, pending,
                    published, history>>

\* The item already has the status asked for: 200, nothing written.
AnswerUnchanged(r) ==
  /\ pc[r] = "decide"
  /\ previous[r] = req[r].target
  /\ Rollback(r)

\* InvalidTransitionError: 409.
RefuseTransition(r) ==
  /\ pc[r] = "decide"
  /\ previous[r] # req[r].target
  /\ IF req[r].target = "cancelled"
       THEN ~CanCancel(previous[r], req[r].role)
       ELSE ~ForwardTransition(previous[r], req[r].target)
  /\ Rollback(r)

\* Mutant of StatusChanged: the event is recorded from the item already changed.
ChangedFromTarget(r) ==
  [type |-> "OrderItemStatusChanged", item |-> req[r].item,
   from |-> req[r].target, to |-> req[r].target]

StatusChanged(r) ==
  [type |-> "OrderItemStatusChanged", item |-> req[r].item,
   from |-> previous[r], to |-> req[r].target]

Cancelled(r) ==
  [type |-> "OrderItemCancelled", item |-> req[r].item,
   restored |-> RestoresStockOnCancel(previous[r])]

UpdateStatus(r) ==
  /\ pc[r] = "decide"
  /\ req[r].target # "cancelled"
  /\ ForwardTransition(previous[r], req[r].target)
  /\ pending' = [pending EXCEPT ![r] = {StatusChanged(r)}]
  /\ pc' = [pc EXCEPT ![r] = "commit"]
  /\ UNCHANGED <<offers, orders, lock, sessions, published, history>>

\* The UPDATE that gives stock back waits for the offer's row, which a seller
\* has locked already.
Cancel(r) ==
  /\ pc[r] = "decide"
  /\ req[r].target = "cancelled"
  /\ previous[r] # "cancelled"
  /\ CanCancel(previous[r], req[r].role)
  /\ IF RestoresStockOnCancel(previous[r])
       THEN Lock(r, OfferRow(OfferOf(req[r].item)))
       ELSE UNCHANGED lock
  /\ pending' = [pending EXCEPT ![r] = {Cancelled(r), StatusChanged(r)}]
  /\ pc' = [pc EXCEPT ![r] = "commit"]
  /\ UNCHANGED <<offers, orders, sessions, published, history>>

CommitItem(r) ==
  LET i == req[r].item
      back == /\ req[r].target = "cancelled"
              /\ RestoresStockOnCancel(previous[r])
  IN /\ pc[r] = "commit"
     /\ status' = [status EXCEPT ![i] = req[r].target]
     /\ stock' = IF back THEN [stock EXCEPT ![OfferOf(i)] = @ + QuantityOf(i)]
                         ELSE stock
     /\ moves' = [moves EXCEPT ![i] = @ \union {<<status[i], req[r].target>>}]
     /\ restored' = IF back THEN [restored EXCEPT ![i] = @ + 1] ELSE restored
     /\ ReleaseLocks(r)
     /\ CloseSession(r)
     /\ pc' = [pc EXCEPT ![r] = "publish"]
     /\ UNCHANGED <<offerState, price, available, cart, paid, pending, published,
                    supply>>

-----------------------------------------------------------------------------
(***************************************************************************)
(* POST, PATCH and DELETE /v1/offers (catalog/offers.py), by the offer's   *)
(* owner.  None of them selects FOR UPDATE.                                *)
(***************************************************************************)
CreateOffer(f) ==
  /\ pc[f] = "idle"
  /\ \E o \in Offer, p \in OfferPayload :
       /\ offerState[o] = "absent"
       /\ p.price # None /\ p.stock # None
       /\ offerState' = [offerState EXCEPT ![o] = "live"]
       /\ price' = [price EXCEPT ![o] = p.price]
       /\ stock' = [stock EXCEPT ![o] = p.stock]
       /\ available' = [available EXCEPT ![o] = (p.available # FALSE)]
       /\ supply' = [supply EXCEPT ![o] = p.stock]
  /\ UNCHANGED <<orders, lock, pc, sessions, pending, published, moves, restored>>

\* _require_owned_offer, or the check before it: 404, nothing written.
OfferNotFound(f) ==
  /\ pc[f] = "idle"
  /\ \E o \in Offer : offerState[o] # "live"
  /\ UNCHANGED vars

\* The fields setattr changes: a value equal to the loaded one is not dirty
\* and is not in the UPDATE.
Dirty(new, loaded) == IF new = loaded THEN None ELSE new

ReadForUpdate(f) ==
  /\ pc[f] = "idle"
  /\ \E o \in Offer, p \in OfferPayload :
       /\ offerState[o] = "live"
       /\ edit' = [edit EXCEPT ![f] =
                     [op |-> "update", offer |-> o,
                      price |-> Dirty(p.price, price[o]),
                      stock |-> Dirty(p.stock, stock[o]),
                      available |-> Dirty(p.available, available[o])]]
  /\ pc' = [pc EXCEPT ![f] = "flush"]
  /\ UNCHANGED <<offers, orders, lock, line, rejected, seen, req, previous,
                 blocking, pending, published, history>>

ReadForDelete(f) ==
  /\ pc[f] = "idle"
  /\ \E o \in Offer :
       /\ offerState[o] = "live"
       /\ edit' = [edit EXCEPT ![f] = [op |-> "delete", offer |-> o, price |-> None,
                                       stock |-> None, available |-> None]]
  /\ pc' = [pc EXCEPT ![f] = "flush"]
  /\ UNCHANGED <<offers, orders, lock, line, rejected, seen, req, previous,
                 blocking, pending, published, history>>

NothingDirty(e) ==
  e.op = "update" /\ e.price = None /\ e.stock = None /\ e.available = None

\* Nothing to write (a PATCH of equal values), or no row left to write (the
\* offer was deleted meanwhile: StaleDataError for an UPDATE, a warning for a
\* DELETE): the transaction ends without effect.
FlushNothing(f) ==
  /\ pc[f] = "flush"
  /\ NothingDirty(edit[f]) \/ offerState[edit[f].offer] # "live"
  /\ Rollback(f)

FlushUpdate(f) ==
  LET o == edit[f].offer
  IN /\ pc[f] = "flush"
     /\ edit[f].op = "update" /\ ~NothingDirty(edit[f])
     /\ offerState[o] = "live"
     /\ Lock(f, OfferRow(o))
     /\ pc' = [pc EXCEPT ![f] = "commit"]
     /\ UNCHANGED <<offers, orders, sessions, pending, published, history>>

\* Mutant of References: the foreign key on offers.id is not declared.
NoReference(o) == {}

References(o) == { i \in Item : Exists(i) /\ OfferOf(i) = o }

\* The DELETE locks the offer's row; the RESTRICT foreign key then looks for an
\* order item of the offer.
FlushDelete(f) ==
  LET o == edit[f].offer
  IN /\ pc[f] = "flush"
     /\ edit[f].op = "delete"
     /\ offerState[o] = "live"
     /\ Lock(f, OfferRow(o))
     /\ IF References(o) = {}
          THEN /\ pc' = [pc EXCEPT ![f] = "commit"]
               /\ UNCHANGED blocking
          ELSE /\ pc' = [pc EXCEPT ![f] = "restrict"]
               /\ \E i \in References(o) : blocking' = [blocking EXCEPT ![f] = i]
     /\ UNCHANGED <<offers, orders, line, rejected, seen, req, previous, edit,
                    pending, published, history>>

\* The check reads the item it found FOR KEY SHARE, so it waits for whoever
\* has it FOR UPDATE, and then fails: IntegrityError, ResourceInUseError, 409.
RestrictDelete(f) ==
  /\ pc[f] = "restrict"
  /\ lock[ItemRow(blocking[f])] = None
  /\ Rollback(f)

Written(new, old) == IF new = None THEN old ELSE new

CommitOffer(f) ==
  LET e == edit[f]
      o == e.offer
  IN /\ pc[f] = "commit"
     /\ IF e.op = "delete"
          THEN /\ offerState' = [offerState EXCEPT ![o] = "deleted"]
               /\ UNCHANGED <<price, stock, available, supply>>
          ELSE /\ price' = [price EXCEPT ![o] = Written(e.price, @)]
               /\ stock' = [stock EXCEPT ![o] = Written(e.stock, @)]
               /\ available' = [available EXCEPT ![o] = Written(e.available, @)]
               /\ supply' = [supply EXCEPT ![o] = @ + (stock'[o] - stock[o])]
               /\ UNCHANGED offerState
     /\ ReleaseLocks(f)
     /\ CloseSession(f)
     /\ pc' = [pc EXCEPT ![f] = "idle"]
     /\ UNCHANGED <<orders, pending, published, moves, restored>>

-----------------------------------------------------------------------------
(***************************************************************************)
(* What every transaction shares: events published after the commit        *)
(* (core/events.py), failures, and PostgreSQL's deadlock detector.         *)
(***************************************************************************)
Publish(t) ==
  /\ pc[t] = "publish"
  /\ published' = pending[t]
  /\ pending' = [pending EXCEPT ![t] = {}]
  /\ pc' = [pc EXCEPT ![t] = Finished(t)]
  /\ UNCHANGED <<offers, orders, lock, sessions, history>>

\* The process stops between the commit and publish_pending.
LoseEvents(t) ==
  /\ pc[t] = "publish"
  /\ pending' = [pending EXCEPT ![t] = {}]
  /\ pc' = [pc EXCEPT ![t] = Finished(t)]
  /\ UNCHANGED <<offers, orders, lock, sessions, published, history>>

\* A statement fails, or the process stops: the database rolls back.
Abort(t) ==
  /\ pc[t] \notin {"idle", "publish", "done"}
  /\ Rollback(t)

\* The row t's next statement locks or has to wait for, if it is about to.
NextRow(t) ==
  CASE pc[t] = "consume" /\ Sellable(cart[t][line[t]]) ->
         {OfferRow(cart[t][line[t]].offer)}
    [] pc[t] = "lock" -> {LockRows(req[t])[line[t]]}
    [] pc[t] = "decide" /\ req[t].target = "cancelled"
         /\ CanCancel(previous[t], req[t].role)
         /\ RestoresStockOnCancel(previous[t]) -> {OfferRow(OfferOf(req[t].item))}
    [] pc[t] = "flush" /\ offerState[edit[t].offer] = "live"
         /\ ~NothingDirty(edit[t]) -> {OfferRow(edit[t].offer)}
    [] pc[t] = "restrict" -> {ItemRow(blocking[t])}
    [] OTHER -> {}

\* The transactions that t waits for.
Blockers(t) == { lock[row] : row \in NextRow(t) } \ {None, t}

\* The members of a set each wait for another member, and nobody is left out.
Cycle(S) ==
  /\ S # {}
  /\ \A t \in S : NextRow(t) # {}
  /\ UNION { Blockers(t) : t \in S } = S

DeadlockVictim(t) ==
  /\ Blockers(t) # {}
  /\ \E S \in SUBSET Tx : t \in S /\ Cycle(S)
  /\ Rollback(t)

CheckoutStep(c) ==
  ValidateItem(c) \/ ConsumeStock(c) \/ RefuseStock(c) \/ CommitCheckout(c)

ItemStep(r) ==
  \/ LockRow(r) \/ AnswerUnchanged(r) \/ RefuseTransition(r)
  \/ UpdateStatus(r) \/ Cancel(r) \/ CommitItem(r)

OfferStep(f) ==
  \/ FlushNothing(f) \/ FlushUpdate(f) \/ FlushDelete(f) \/ RestrictDelete(f)
  \/ CommitOffer(f)

Next ==
  \/ \E c \in Checkout : Submit(c) \/ CheckoutStep(c)
  \/ \E r \in ItemRequest : Receive(r) \/ ItemNotFound(r) \/ ItemStep(r)
  \/ \E f \in OfferRequest :
       \/ CreateOffer(f) \/ OfferNotFound(f)
       \/ ReadForUpdate(f) \/ ReadForDelete(f) \/ OfferStep(f)
  \/ \E t \in Tx : Publish(t) \/ LoseEvents(t) \/ Abort(t) \/ DeadlockVictim(t)

Spec == Init /\ [][Next]_vars

(***************************************************************************)
(* A thread that has begun a request goes on with it: Python does not stop *)
(* a running handler.  Fairness is strong because a statement that waits   *)
(* for a row lock is enabled only from time to time, and PostgreSQL queues *)
(* the waiters of a row; new requests, crashes and aborts are not assumed. *)
(***************************************************************************)
Fairness ==
  /\ \A c \in Checkout : SF_vars(CheckoutStep(c))
  /\ \A r \in ItemRequest : SF_vars(ItemStep(r))
  /\ \A f \in OfferRequest : SF_vars(OfferStep(f))
  /\ \A t \in Tx : WF_vars(Publish(t)) /\ WF_vars(DeadlockVictim(t))

FairSpec == Spec /\ Fairness

-----------------------------------------------------------------------------
(***************************************************************************)
(* Properties                                                              *)
(***************************************************************************)

PC == {"idle", "validate", "consume", "lock", "decide", "flush", "restrict",
       "commit", "publish", "done"}

\* Type correctness of the tables, lock, sessions and event buffers.  That
\* stock is a natural number is a claim: two checkouts that both validated the
\* last unit must not both take it (orders/checkout.py _consume_stock).
TypeOK ==
  /\ offerState \in [Offer -> {"absent", "live", "deleted"}]
  /\ price \in [Offer -> Price]
  /\ stock \in [Offer -> Nat]
  /\ available \in [Offer -> BOOLEAN]
  /\ cart \in [Checkout -> Cart \union {<<>>}]
  /\ status \in [Item -> OrderItemStatus \union {"none"}]
  /\ paid \in [Item -> Price \union {None}]
  /\ lock \in [Row -> Tx \union {None}]
  /\ pc \in [Tx -> PC]
  /\ line \in [Tx -> Nat]
  /\ rejected \in [Tx -> BOOLEAN]
  /\ seen \in [Tx -> Seq(Price)]
  /\ req \in [Tx -> ItemRequestPayload \union {None}]
  /\ previous \in [Tx -> OrderItemStatus \union {"none", None}]
  /\ edit \in [Tx -> OfferEdit \union {None}]
  /\ blocking \in [Tx -> Item \union {None}]
  /\ pending \in [Tx -> SUBSET Event]
  /\ published \in SUBSET Event
  /\ moves \in [Item -> SUBSET (OrderItemStatus \X OrderItemStatus)]
  /\ restored \in [Item -> Nat]
  /\ supply \in [Offer -> Int]

Outstanding(o) ==
  MapThenSumSet(QuantityOf,
                { i \in Item : Exists(i) /\ OfferOf(i) = o /\ restored[i] = 0 })

\* No unit is lost or invented: what the seller put on sale is either still in
\* stock or in an order item that has not given its units back, whatever
\* checkouts, cancellations and seller edits ran at the same time.
StockConserved ==
  \A o \in Offer : offerState[o] = "live" => stock[o] + Outstanding(o) = supply[o]

\* An item's units go back to stock at most once, and exactly when it was
\* cancelled before it left the store: the buyer and the seller may cancel it
\* at the same time (orders/routes.py cancel_order_item).
RestockedOnce ==
  \A i \in Item :
    restored[i] = IF \E s \in {"placed", "preparing"} : <<s, "cancelled">> \in moves[i]
                    THEN 1 ELSE 0

\* The buyer pays the price shown when the order was confirmed, although the
\* seller may change the price between the validation and the purchase.
PaidAsExpected ==
  \A i \in Item : Exists(i) => paid[i] = cart[i[1]][i[2]].expected_price

\* docs/p2_order.md, section 5: the purchase copies the offer's current price
\* into purchase_price, and is not made when the price has changed.
PaidIsCurrentPrice ==
  [][\A i \in Item : ~Exists(i) /\ Exists(i)' => paid'[i] = price[OfferOf(i)]]_vars

\* An order item never points to a deleted offer, although an offer may be
\* deleted between the validation of a cart and the purchase.
NoOrphanItem == \A i \in Item : Exists(i) => offerState[OfferOf(i)] = "live"

\* What subscribers are told happened: every published change of an item was
\* committed, and a published cancellation says truly whether stock came back.
EventsAreTrue ==
  \A e \in published :
    /\ e.type = "OrderItemStatusChanged" => <<e.from, e.to>> \in moves[e.item]
    /\ e.type = "OrderItemCancelled" => (e.restored <=> restored[e.item] = 1)
    /\ e.type = "OrderCreated" => Exists(<<e.order, 1>>)

\* Shipping and cancelling alone never deadlock: requests that wait for each
\* other in a circle include two checkouts or the deletion of an offer.
DeadlockNeedsCheckoutsOrDelete ==
  \A S \in SUBSET {t \in Tx : Blockers(t) # {}} :
    Cycle(S) => \/ Cardinality(S \intersect Checkout) >= 2
                \/ \E f \in S : pc[f] = "restrict"

\* Every request that has begun is answered: whoever waits for a row lock gets
\* it, is refused, or is chosen by the deadlock detector.
EveryRequestEnds ==
  \A t \in Tx : (pc[t] # "idle") ~> (pc[t] \in {"idle", "done"})

\* The interleaved requests implement the store of OrderBook, in which each of
\* them takes effect at one instant, its commit.
placedOrder ==
  [c \in Checkout |-> IF pc[c] \in {"publish", "done"} THEN cart[c] ELSE <<>>]

Book == INSTANCE OrderBook WITH order <- placedOrder

RefinesOrderBook == Book!Spec

=============================================================================
