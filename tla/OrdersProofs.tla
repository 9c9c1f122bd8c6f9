---------------------------- MODULE OrdersProofs ----------------------------
(***************************************************************************)
(* Proofs about Orders, for every catalogue, every set of carts and any    *)
(* number of requests.  The inductive invariant says what a session knows  *)
(* while it holds its row locks.                                           *)
(*   The last part is about the stock: no unit is lost and none invented.  *)
(* The units that are still out are a sum over a set of order items, and   *)
(* what a commit does to that set is add or take away one item per offer;  *)
(* what that does to a sum is proved first.                                *)
(***************************************************************************)
EXTENDS Orders, FiniteSetTheorems, WellFoundedInduction, TLAPS

-----------------------------------------------------------------------------
(***************************************************************************)
(* The inductive invariant                                                 *)
(***************************************************************************)

\* Which program counters each kind of request goes through.
PcInv ==
  /\ \A c \in Checkout :
       pc[c] \in {"idle", "validate", "consume", "commit", "publish", "done"}
  /\ \A r \in ItemRequest : pc[r] \in {"idle", "lock", "decide", "commit", "publish"}
  /\ \A f \in OfferRequest : pc[f] \in {"idle", "flush", "restrict", "commit"}

\* Items exist from the commit of their checkout on, with the price expected.
ItemsInv ==
  \A i \in Item :
    /\ Exists(i) <=> pc[i[1]] \in {"publish", "done"} /\ i[2] <= Len(cart[i[1]])
    /\ Exists(i) => paid[i] = cart[i[1]][i[2]].expected_price

\* The price a session has read for a line is the one its buyer expects.
Confirmed(c, n) == seen[c][n] = cart[c][n].expected_price

\* A line whose units are taken: the offer's row is locked by the checkout, so
\* what the UPDATE's WHERE clause has found still holds.
Held(c, n) ==
  /\ lock[OfferRow(cart[c][n].offer)] = c
  /\ Sellable(cart[c][n])

CheckoutOK(c) ==
  /\ pc[c] = "idle" => seen[c] = <<>>
  /\ pc[c] \in {"validate", "consume", "commit"} => cart[c] \in Cart
  /\ pc[c] \in {"validate", "consume"} => line[c] \in 1 .. Len(cart[c])
  /\ pc[c] = "validate" =>
       /\ Len(seen[c]) = line[c] - 1
       /\ ~rejected[c] => \A n \in 1 .. (line[c] - 1) : Confirmed(c, n)
  /\ pc[c] = "commit" => line[c] = Len(cart[c]) + 1
  /\ pc[c] \in {"consume", "commit"} =>
       /\ Len(seen[c]) = Len(cart[c])
       /\ \A n \in 1 .. Len(cart[c]) : Confirmed(c, n)
       /\ \A n \in 1 .. (line[c] - 1) : Held(c, n)

\* While a thread decides about an item it holds the item's row, so the status
\* it has read is the item's status, and what it decided is still allowed.
ItemOK(r) ==
  /\ pc[r] \in {"lock", "decide", "commit"} =>
       /\ req[r] \in ItemRequestPayload
       /\ Exists(req[r].item)
  /\ pc[r] = "lock" => line[r] \in 1 .. 2
  /\ pc[r] = "lock" /\ line[r] = 2 => lock[ItemRow(req[r].item)] = r
  /\ pc[r] \in {"decide", "commit"} =>
       /\ lock[ItemRow(req[r].item)] = r
       /\ previous[r] = status[req[r].item]
  /\ pc[r] = "commit" =>
       \/ /\ req[r].target = "cancelled"
          /\ CanCancel(previous[r], req[r].role)
          /\ RestoresStockOnCancel(previous[r]) =>
               lock[OfferRow(OfferOf(req[r].item))] = r
       \/ /\ req[r].target # "cancelled"
          /\ ForwardTransition(previous[r], req[r].target)

\* A thread about to commit an edit of an offer holds the offer's row; before
\* a deletion commits, no order item refers to the offer.
OfferOK(f) ==
  /\ pc[f] \in {"flush", "restrict", "commit"} => edit[f] \in OfferEdit
  /\ pc[f] = "restrict" => blocking[f] \in Item
  /\ pc[f] = "commit" =>
       /\ lock[OfferRow(edit[f].offer)] = f
       /\ offerState[edit[f].offer] = "live"
       /\ edit[f].op = "delete" => References(edit[f].offer) = {}

SessionInv ==
  /\ \A c \in Checkout : CheckoutOK(c)
  /\ \A r \in ItemRequest : ItemOK(r)
  /\ \A f \in OfferRequest : OfferOK(f)

IInv == TypeOK /\ PcInv /\ ItemsInv /\ SessionInv

\* The same for the history of restocking: what was given back, and why.
RestockInv ==
  \A i \in Item :
    /\ restored[i] = IF \E s \in {"placed", "preparing"} : <<s, "cancelled">> \in moves[i]
                       THEN 1 ELSE 0
    /\ moves[i] # {} => Exists(i)
    /\ \A m \in moves[i] : m[2] = "cancelled" => status[i] = "cancelled"

-----------------------------------------------------------------------------
(***************************************************************************)
(* Initial states                                                          *)
(***************************************************************************)

LEMMA InitIInv == Init => IInv
  <1> SUFFICES ASSUME Init PROVE IInv
    OBVIOUS
  <1>1. PICK table \in Catalogue :
          /\ offerState = table.state
          /\ price = table.price
          /\ stock = table.stock
          /\ available = table.available
    BY DEF Init
  <1>2. TypeOK
    <2>1. /\ offerState \in [Offer -> {"absent", "live", "deleted"}]
          /\ price \in [Offer -> Price]
          /\ stock \in [Offer -> Nat] /\ supply \in [Offer -> Int]
          /\ available \in [Offer -> BOOLEAN]
      BY <1>1, OrdersAssumption DEF Init, OrdersAssumption, CatalogueAssumption
    <2>2. <<>> \in Seq(Price)
      OBVIOUS
    <2> QED
      BY <2>1, <2>2 DEF Init, TypeOK, PC
  <1>3. PcInv /\ SessionInv
    BY DEF Init, PcInv, SessionInv, CheckoutOK, ItemOK, OfferOK, Tx
  <1>4. ItemsInv
    BY DEF Init, ItemsInv, Exists, Item, Tx
  <1> QED
    BY <1>2, <1>3, <1>4 DEF IInv

-----------------------------------------------------------------------------
(***************************************************************************)
(* Frames: a session stays well formed when the step of another request    *)
(* leaves its local state, its locks and the rows it has locked alone.     *)
(***************************************************************************)

LEMMA CartLine ==
  ASSUME NEW lines \in Cart, NEW n \in 1 .. Len(lines)
  PROVE  /\ lines \in Seq(CheckoutItem)
         /\ lines[n] \in CheckoutItem
         /\ lines[n].offer \in Offer
         /\ lines[n].quantity \in Nat
         /\ OfferRow(lines[n].offer) \in Row
  <1>1. lines \in Seq(CheckoutItem)
    BY OrdersAssumption DEF OrdersAssumption, CartAssumption
  <1>2. lines[n] \in CheckoutItem
    BY <1>1
  <1>3. lines[n].offer \in Offer /\ lines[n].quantity \in Nat
    BY <1>2 DEF CheckoutItem
  <1> QED
    BY <1>1, <1>2, <1>3 DEF Row, OfferRow

\* An item that exists is a line of a cart that has been bought.
LEMMA ItemLine ==
  ASSUME IInv, NEW i \in Item, Exists(i)
  PROVE  /\ i[1] \in Checkout
         /\ pc[i[1]] \in {"publish", "done"}
         /\ cart[i[1]] \in Cart
         /\ i[2] \in 1 .. Len(cart[i[1]])
         /\ OfferOf(i) \in Offer
         /\ QuantityOf(i) \in Nat
         /\ OfferRow(OfferOf(i)) \in Row
  <1>1. i[1] \in Checkout /\ i[2] \in 1 .. MaxLines
    BY DEF Item
  <1>2. pc[i[1]] \in {"publish", "done"} /\ i[2] <= Len(cart[i[1]])
    BY DEF IInv, ItemsInv
  <1>3. cart[i[1]] \in Cart \union {<<>>}
    BY <1>1 DEF IInv, TypeOK
  <1>4. cart[i[1]] \in Cart
    BY <1>1, <1>2, <1>3, OrdersAssumption DEF OrdersAssumption, CartAssumption
  <1>5. i[2] \in 1 .. Len(cart[i[1]])
    BY <1>1, <1>2, <1>4, OrdersAssumption DEF OrdersAssumption, CartAssumption
  <1> QED
    BY <1>1, <1>2, <1>4, <1>5, CartLine DEF OfferOf, QuantityOf

LEMMA Kinds ==
  ASSUME NEW t \in Tx
  PROVE  /\ t # None
         /\ t \in Checkout => t \notin ItemRequest /\ t \notin OfferRequest
         /\ t \in ItemRequest => t \notin Checkout /\ t \notin OfferRequest
         /\ t \in OfferRequest => t \notin Checkout /\ t \notin ItemRequest
  BY OrdersAssumption DEF OrdersAssumption, IdentityAssumption, Tx

\* The locks and local state of request u are those of the previous state.
Untouched(u) ==
  /\ pc'[u] = pc[u] /\ line'[u] = line[u] /\ rejected'[u] = rejected[u]
  /\ seen'[u] = seen[u] /\ req'[u] = req[u] /\ previous'[u] = previous[u]
  /\ edit'[u] = edit[u] /\ blocking'[u] = blocking[u]
  /\ \A row \in Row : lock[row] = u => lock'[row] = u

\* A step of t respects the others: it writes no row that another has locked,
\* except that it may give stock back or create an offer.
Respects(t) ==
  /\ \A u \in Tx : u # t => Untouched(u)
  /\ \A c \in Checkout : c # t => cart'[c] = cart[c]
  /\ \A i \in Item : Exists(i) => Exists(i)' /\ cart'[i[1]] = cart[i[1]]
  /\ \A i \in Item :
       Exists(i) /\ lock[ItemRow(i)] \notin {None, t} => status'[i] = status[i]
  /\ \A o \in Offer :
       offerState[o] = "live" /\ lock[OfferRow(o)] \notin {None, t} =>
         /\ offerState'[o] = offerState[o]
         /\ available'[o] = available[o]
         /\ stock'[o] \in Nat /\ stock'[o] >= stock[o]
         /\ References(o)' \subseteq References(o)

LEMMA CheckoutFrame ==
  ASSUME IInv, NEW t \in Tx, Respects(t), NEW c \in Checkout, c # t
  PROVE  CheckoutOK(c)'
  <1>0. CheckoutOK(c) /\ c \in Tx
    BY DEF IInv, SessionInv, Tx
  <1>1. Untouched(c) /\ cart'[c] = cart[c]
    BY <1>0 DEF Respects
  <1>2. ASSUME NEW n \in 1 .. Len(cart[c]), cart[c] \in Cart, Held(c, n)
        PROVE  Held(c, n)'
    <2>1. /\ cart[c][n].offer \in Offer
          /\ cart[c][n].quantity \in Nat
          /\ OfferRow(cart[c][n].offer) \in Row
      BY <1>2, CartLine
    <2>2. stock[cart[c][n].offer] \in Nat
      BY <2>1 DEF IInv, TypeOK
    <2>3. lock[OfferRow(cart[c][n].offer)] \notin {None, t}
      BY <1>0, <1>2, Kinds DEF Held
    <2>4. lock'[OfferRow(cart[c][n].offer)] = c
      BY <1>1, <1>2, <2>1 DEF Held, Untouched
    <2>5. Sellable(cart[c][n])'
      BY <1>1, <1>2, <2>1, <2>2, <2>3 DEF Respects, Held, Sellable
    <2> QED
      BY <1>1, <2>4, <2>5 DEF Held, OfferRow
  <1>3. ASSUME NEW n \in 1 .. Len(cart[c]), Confirmed(c, n)
        PROVE  Confirmed(c, n)'
    BY <1>1, <1>3 DEF Confirmed, Untouched
  <1>4. pc[c] = "consume" => \A n \in 1 .. (line[c] - 1) : n \in 1 .. Len(cart[c])
    BY <1>0 DEF CheckoutOK
  <1> QED
    BY <1>0, <1>1, <1>2, <1>3, <1>4 DEF CheckoutOK, Untouched

LEMMA ItemFrame ==
  ASSUME IInv, NEW t \in Tx, Respects(t), NEW r \in ItemRequest, r # t
  PROVE  ItemOK(r)'
  <1>0. ItemOK(r) /\ r \in Tx
    BY DEF IInv, SessionInv, Tx
  <1>1. Untouched(r)
    BY <1>0 DEF Respects
  <1> DEFINE i == req[r].item
  <1>2. CASE pc[r] \in {"lock", "decide", "commit"}
    <2>1. req[r] \in ItemRequestPayload /\ Exists(i) /\ i \in Item
      BY <1>0, <1>2 DEF ItemOK, ItemRequestPayload
    <2>2. ItemRow(i) \in Row /\ OfferRow(OfferOf(i)) \in Row
      BY <2>1, ItemLine DEF Row, ItemRow
    <2>3. Exists(i)' /\ OfferOf(i)' = OfferOf(i)
      BY <1>1, <2>1 DEF Respects, OfferOf, Untouched
    <2>4. lock[ItemRow(i)] = r => lock'[ItemRow(i)] = r /\ status'[i] = status[i]
      BY <1>0, <1>1, <2>1, <2>2, Kinds DEF Respects, Untouched
    <2>5. lock[OfferRow(OfferOf(i))] = r => lock'[OfferRow(OfferOf(i))] = r
      BY <1>1, <2>2 DEF Untouched
    <2>6. req'[r] = req[r] /\ line'[r] = line[r] /\ previous'[r] = previous[r]
          /\ pc'[r] = pc[r]
      BY <1>1 DEF Untouched
    <2> HIDE DEF i
    <2>7. CASE pc[r] = "lock"
      BY <1>0, <2>1, <2>3, <2>4, <2>6, <2>7 DEF ItemOK, i, ItemRow
    <2>8. CASE pc[r] = "decide"
      BY <1>0, <2>1, <2>3, <2>4, <2>6, <2>8 DEF ItemOK, i, ItemRow
    <2>9. CASE pc[r] = "commit"
      BY <1>0, <2>1, <2>3, <2>4, <2>5, <2>6, <2>9 DEF ItemOK, i, ItemRow, OfferRow
    <2> QED
      BY <1>2, <2>7, <2>8, <2>9
  <1>3. CASE pc[r] \notin {"lock", "decide", "commit"}
    BY <1>1, <1>3 DEF ItemOK, Untouched
  <1> QED
    BY <1>2, <1>3

LEMMA OfferFrame ==
  ASSUME IInv, NEW t \in Tx, Respects(t), NEW f \in OfferRequest, f # t
  PROVE  OfferOK(f)'
  <1>0. OfferOK(f) /\ f \in Tx
    BY DEF IInv, SessionInv, Tx
  <1>1. Untouched(f)
    BY <1>0 DEF Respects
  <1>2. edit[f] \in OfferEdit =>
          edit[f].offer \in Offer /\ OfferRow(edit[f].offer) \in Row
    BY DEF OfferEdit, Row, OfferRow
  <1> QED
    BY <1>0, <1>1, <1>2, Kinds DEF OfferOK, Untouched, OfferRow, Respects

\* So for a step of t only t's own session is left to check.
LEMMA OneSession ==
  ASSUME IInv, NEW t \in Tx, Respects(t),
         t \in Checkout => CheckoutOK(t)',
         t \in ItemRequest => ItemOK(t)',
         t \in OfferRequest => OfferOK(t)'
  PROVE  SessionInv'
  <1>1. ASSUME NEW c \in Checkout PROVE CheckoutOK(c)'
    BY CheckoutFrame
  <1>2. ASSUME NEW r \in ItemRequest PROVE ItemOK(r)'
    BY ItemFrame
  <1>3. ASSUME NEW f \in OfferRequest PROVE OfferOK(f)'
    BY OfferFrame
  <1> QED
    BY <1>1, <1>2, <1>3 DEF SessionInv

-----------------------------------------------------------------------------
(***************************************************************************)
(* A rollback                                                              *)
(***************************************************************************)

LEMMA RollbackIInv ==
  ASSUME IInv, NEW t \in Tx, pc[t] \notin {"publish", "done"}, Rollback(t)
  PROVE  IInv'
  <1> USE DEF Rollback, CloseSession, offers, history
  <1>1. TypeOK'
    BY OrdersAssumption DEF IInv, TypeOK, ReleaseLocks, Finished, PC, Tx
  <1>2. PcInv'
    BY Kinds DEF IInv, TypeOK, PcInv, Finished, Tx
  <1>3. \A i \in Item : Exists(i) => i[1] # t
    BY DEF IInv, ItemsInv
  <1>4. \A i \in Item : Exists(i) => cart'[i[1]] = cart[i[1]]
    BY <1>3 DEF IInv, TypeOK, Item
  <1>5. ItemsInv'
    <2> SUFFICES ASSUME NEW i \in Item
                 PROVE  /\ Exists(i)' <=> pc'[i[1]] \in {"publish", "done"}
                                            /\ i[2] <= Len(cart'[i[1]])
                        /\ Exists(i)' => paid'[i] = cart'[i[1]][i[2]].expected_price
      BY DEF ItemsInv
    <2>1. i[1] \in Checkout /\ i[2] \in 1 .. MaxLines
      BY DEF Item
    <2>2. CASE i[1] = t
      BY <1>3, <2>1, <2>2 DEF IInv, TypeOK, Exists, Finished, Tx
    <2>3. CASE i[1] # t
      BY <2>1, <2>3 DEF IInv, ItemsInv, TypeOK, Exists, Tx
    <2> QED
      BY <2>2, <2>3
  <1>6. Respects(t)
    <2>1. \A u \in Tx : u # t => Untouched(u)
      BY Kinds DEF IInv, TypeOK, Untouched, ReleaseLocks
    <2>2. \A c \in Checkout : c # t => cart'[c] = cart[c]
      BY DEF IInv, TypeOK
    <2>3. \A o \in Offer : References(o)' \subseteq References(o)
      BY <1>4 DEF References, Exists, OfferOf
    <2> QED
      BY <1>4, <2>1, <2>2, <2>3 DEF Respects, Exists, IInv, TypeOK
  <1>7. pc'[t] \in {"idle", "done"} /\ seen'[t] = <<>>
    BY DEF IInv, TypeOK, Finished
  <1>8. SessionInv'
    BY <1>6, <1>7, OneSession DEF CheckoutOK, ItemOK, OfferOK
  <1> QED
    BY <1>1, <1>2, <1>5, <1>8 DEF IInv

-----------------------------------------------------------------------------
(***************************************************************************)
(* Steps that write no table                                               *)
(***************************************************************************)

LEMMA SameItems ==
  ASSUME IInv, UNCHANGED orders,
         \A c \in Checkout : pc'[c] \in {"publish", "done"}
                              <=> pc[c] \in {"publish", "done"}
  PROVE  ItemsInv'
  BY DEF IInv, ItemsInv, orders, Exists, Item

LEMMA SameTables ==
  ASSUME IInv, NEW t \in Tx, UNCHANGED <<offers, orders>>,
         \A u \in Tx : u # t => Untouched(u)
  PROVE  Respects(t)
  <1>1. \A o \in Offer : References(o)' = References(o)
    BY DEF References, Exists, OfferOf, orders
  <1> QED
    BY <1>1 DEF Respects, offers, orders, Exists, IInv, TypeOK

\* A lock that is granted takes nothing from the others.
LEMMA LockRespects ==
  ASSUME IInv, NEW t \in Tx, NEW row, Lock(t, row)
  PROVE  /\ lock' \in [Row -> Tx \union {None}]
         /\ \A u \in Tx : u # t => \A other \in Row : lock[other] = u => lock'[other] = u
         /\ \A other \in Row : lock[other] = t => lock'[other] = t
         /\ row \in Row => lock'[row] = t
  BY Kinds DEF IInv, TypeOK, Lock

LEMMA ReleaseRespects ==
  ASSUME IInv, NEW t \in Tx, ReleaseLocks(t)
  PROVE  /\ lock' \in [Row -> Tx \union {None}]
         /\ \A u \in Tx : u # t => \A other \in Row : lock[other] = u => lock'[other] = u
  BY Kinds DEF IInv, TypeOK, ReleaseLocks

-----------------------------------------------------------------------------
(***************************************************************************)
(* Checkout                                                                *)
(***************************************************************************)

LEMMA SubmitIInv ==
  ASSUME IInv, NEW c \in Checkout, Submit(c)
  PROVE  IInv'
  <1> c \in Tx
    BY DEF Tx
  <1> USE DEF Submit, offers, history
  <1>1. PICK lines \in Cart : cart' = [cart EXCEPT ![c] = lines]
    OBVIOUS
  <1>2. TypeOK'
    BY <1>1 DEF IInv, TypeOK, PC
  <1>3. PcInv'
    BY Kinds DEF IInv, TypeOK, PcInv, Tx
  <1>4. \A i \in Item : Exists(i) => i[1] # c
    BY DEF IInv, ItemsInv
  <1>5. \A i \in Item : Exists(i) => cart'[i[1]] = cart[i[1]]
    BY <1>4 DEF IInv, TypeOK, Item
  <1>6. ItemsInv'
    <2> SUFFICES ASSUME NEW i \in Item
                 PROVE  /\ Exists(i)' <=> pc'[i[1]] \in {"publish", "done"}
                                            /\ i[2] <= Len(cart'[i[1]])
                        /\ Exists(i)' => paid'[i] = cart'[i[1]][i[2]].expected_price
      BY DEF ItemsInv
    <2>1. i[1] \in Checkout /\ i[2] \in 1 .. MaxLines
      BY DEF Item
    <2>2. CASE i[1] = c
      BY <1>4, <2>1, <2>2 DEF IInv, TypeOK, Exists, Tx
    <2>3. CASE i[1] # c
      BY <2>1, <2>3 DEF IInv, ItemsInv, TypeOK, Exists, Tx
    <2> QED
      BY <2>2, <2>3
  <1>7. Respects(c)
    <2>1. \A o \in Offer : References(o)' = References(o)
      BY <1>5 DEF References, Exists, OfferOf
    <2>2. \A u \in Tx : u # c => Untouched(u)
      BY DEF IInv, TypeOK, Untouched
    <2> QED
      BY <1>5, <2>1, <2>2 DEF Respects, Exists, IInv, TypeOK
  <1>8. CheckoutOK(c)'
    <2>1. /\ pc'[c] = "validate" /\ cart'[c] = lines /\ line'[c] = 1
          /\ seen'[c] = seen[c]
      BY <1>1 DEF IInv, TypeOK
    <2>2. Len(lines) \in Nat /\ Len(lines) >= 1
      BY OrdersAssumption DEF OrdersAssumption, CartAssumption
    <2>3. seen[c] = <<>>
      BY DEF IInv, SessionInv, CheckoutOK
    <2> QED
      BY <2>1, <2>2, <2>3 DEF CheckoutOK
  <1> QED
    BY <1>2, <1>3, <1>6, <1>7, <1>8, OneSession, Kinds DEF IInv

LEMMA ValidateItemIInv ==
  ASSUME IInv, NEW c \in Checkout, ValidateItem(c)
  PROVE  IInv'
  <1> c \in Tx
    BY DEF Tx
  <1> DEFINE item == cart[c][line[c]]
             bad  == rejected[c] \/ ~Valid(item)
             last == line[c] = Len(cart[c])
  <1>1. pc[c] = "validate" /\ CheckoutOK(c)
    BY DEF ValidateItem, IInv, SessionInv
  <1>2. CASE last /\ bad
    <2>1. Rollback(c)
      BY <1>2 DEF ValidateItem
    <2> QED
      BY <1>1, <2>1, RollbackIInv
  <1>3. CASE ~(last /\ bad)
    <2>1. /\ rejected' = [rejected EXCEPT ![c] = bad]
          /\ seen' = [seen EXCEPT ![c] = Append(@, price[item.offer])]
          /\ line' = [line EXCEPT ![c] = IF last THEN 1 ELSE @ + 1]
          /\ pc' = [pc EXCEPT ![c] = IF last THEN "consume" ELSE @]
          /\ UNCHANGED <<offers, orders, lock, req, previous, edit,
                         blocking, pending, published, history>>
      BY <1>3 DEF ValidateItem
    <2>2. cart[c] \in Cart /\ line[c] \in 1 .. Len(cart[c])
      BY <1>1 DEF CheckoutOK
    <2>3. item \in CheckoutItem /\ item.offer \in Offer /\ price[item.offer] \in Price
      BY <2>2, CartLine DEF IInv, TypeOK
    <2>4. Len(cart[c]) \in Nat
      BY <2>2, OrdersAssumption DEF OrdersAssumption, CartAssumption
    <2>5. bad \in BOOLEAN
      BY DEF IInv, TypeOK, Valid
    <2>6. seen[c] \in Seq(Price) /\ line[c] \in Nat
      BY DEF IInv, TypeOK
    <2>7. /\ Append(seen[c], price[item.offer]) \in Seq(Price)
          /\ Len(Append(seen[c], price[item.offer])) = line[c]
          /\ Append(seen[c], price[item.offer])[line[c]] = price[item.offer]
          /\ \A n \in 1 .. (line[c] - 1) :
               Append(seen[c], price[item.offer])[n] = seen[c][n]
      BY <1>1, <2>2, <2>3, <2>6 DEF CheckoutOK
    <2>8. /\ rejected'[c] = bad /\ cart' = cart
          /\ seen'[c] = Append(seen[c], price[item.offer])
          /\ line'[c] = (IF last THEN 1 ELSE line[c] + 1)
          /\ pc'[c] = (IF last THEN "consume" ELSE "validate")
      BY <1>1, <2>1 DEF IInv, TypeOK, orders
    <2>9. ~bad => Valid(item) /\ ~rejected[c]
      OBVIOUS
    <2> HIDE DEF item, bad, last
    <2>10. TypeOK'
      BY <2>1, <2>5, <2>6, <2>7, <2>4 DEF IInv, TypeOK, PC, offers, orders, history
    <2>11. PcInv'
      BY <1>1, <2>1, Kinds DEF IInv, TypeOK, PcInv, Tx
    <2>12. ItemsInv'
      BY <1>1, <2>1, SameItems DEF IInv, TypeOK, Tx
    <2>13. Respects(c)
      <3>1. \A u \in Tx : u # c => Untouched(u)
        BY <2>1 DEF IInv, TypeOK, Untouched
      <3> QED
        BY <2>1, <3>1, SameTables
    <2>14. ~bad => \A n \in 1 .. line[c] : Confirmed(c, n)'
      <3> SUFFICES ASSUME ~bad, NEW n \in 1 .. line[c] PROVE Confirmed(c, n)'
        OBVIOUS
      <3>1. CASE n = line[c]
        BY <2>3, <2>7, <2>8, <2>9, <3>1 DEF Confirmed, Valid, item
      <3>2. CASE n \in 1 .. (line[c] - 1)
        BY <1>1, <2>7, <2>8, <2>9, <3>2 DEF Confirmed, CheckoutOK
      <3> QED
        BY <2>6, <3>1, <3>2
    <2>15. CheckoutOK(c)'
      <3>1. CASE last
        <4>1. ~bad /\ line[c] = Len(cart[c])
          BY <1>3, <3>1 DEF last
        <4> QED
          BY <2>2, <2>4, <2>7, <2>8, <2>14, <3>1, <4>1 DEF CheckoutOK
      <3>2. CASE ~last
        <4>1. line[c] + 1 \in 1 .. Len(cart[c])
          BY <2>2, <2>4, <3>2 DEF last
        <4> QED
          BY <2>2, <2>4, <2>6, <2>7, <2>8, <2>14, <3>2, <4>1 DEF CheckoutOK
      <3> QED
        BY <3>1, <3>2
    <2> QED
      BY <2>10, <2>11, <2>12, <2>13, <2>15, OneSession, Kinds DEF IInv
  <1> QED
    BY <1>2, <1>3

LEMMA ConsumeStockIInv ==
  ASSUME IInv, NEW c \in Checkout, ConsumeStock(c)
  PROVE  IInv'
  <1> c \in Tx
    BY DEF Tx
  <1> DEFINE item == cart[c][line[c]]
             last == line[c] = Len(cart[c])
  <1>1. pc[c] = "consume" /\ CheckoutOK(c) /\ Sellable(item) /\ Lock(c, OfferRow(item.offer))
    BY DEF ConsumeStock, IInv, SessionInv
  <1>2. cart[c] \in Cart /\ line[c] \in 1 .. Len(cart[c])
    BY <1>1 DEF CheckoutOK
  <1>3. OfferRow(item.offer) \in Row
    BY <1>2, CartLine
  <1>4. Len(cart[c]) \in Nat /\ line[c] \in Nat
    BY <1>2, OrdersAssumption DEF OrdersAssumption, CartAssumption
  <1>5. /\ cart' = cart /\ seen' = seen /\ line'[c] = line[c] + 1
        /\ pc'[c] = (IF last THEN "commit" ELSE "consume")
        /\ UNCHANGED <<offers, orders>>
    BY <1>1 DEF ConsumeStock, IInv, TypeOK, orders
  <1>6. TypeOK'
    BY <1>1, LockRespects
    DEF ConsumeStock, IInv, TypeOK, PC, Event, offers, orders, history
  <1>7. PcInv'
    BY <1>1, Kinds DEF ConsumeStock, IInv, TypeOK, PcInv, Tx
  <1>8. ItemsInv'
    BY <1>1, SameItems DEF ConsumeStock, IInv, TypeOK, Tx
  <1>9. Respects(c)
    <2>1. \A u \in Tx : u # c => Untouched(u)
      BY <1>1, LockRespects DEF ConsumeStock, IInv, TypeOK, Untouched
    <2> QED
      BY <1>5, <2>1, SameTables
  <1>10. \A n \in 1 .. line[c] : Held(c, n)'
    <2> SUFFICES ASSUME NEW n \in 1 .. line[c] PROVE Held(c, n)'
      OBVIOUS
    <2>1. CASE n = line[c]
      BY <1>1, <1>3, <1>5, <2>1, LockRespects DEF Held, Sellable, OfferRow, offers
    <2>2. CASE n # line[c]
      <3>1. n \in 1 .. (line[c] - 1) /\ n \in 1 .. Len(cart[c])
        BY <1>2, <1>4, <2>2
      <3>2. Held(c, n) /\ OfferRow(cart[c][n].offer) \in Row
        BY <1>1, <1>2, <3>1, CartLine DEF CheckoutOK
      <3> QED
        BY <1>1, <1>5, <3>2, LockRespects DEF Held, Sellable, OfferRow, offers
    <2> QED
      BY <2>1, <2>2
  <1>11. \A n \in 1 .. Len(cart[c]) : Confirmed(c, n)'
    BY <1>1, <1>5 DEF Confirmed, CheckoutOK
  <1>12. CheckoutOK(c)'
    <2> HIDE DEF item
    <2>1. line'[c] - 1 = line[c]
      BY <1>4, <1>5
    <2>2. ~last => line[c] + 1 \in 1 .. Len(cart[c])
      BY <1>2, <1>4
    <2> QED
      BY <1>1, <1>2, <1>5, <1>10, <1>11, <2>1, <2>2 DEF CheckoutOK
  <1> QED
    BY <1>6, <1>7, <1>8, <1>9, <1>12, OneSession, Kinds DEF IInv

\* A cart takes units of an offer through one line, if any.
LEMMA UnitsOfLine ==
  ASSUME NEW lines \in Cart, NEW o \in Offer
  PROVE  \/ /\ Units(lines, o) = 0
            /\ \A n \in 1 .. Len(lines) : lines[n].offer # o
         \/ \E n \in 1 .. Len(lines) :
              lines[n].offer = o /\ Units(lines, o) = lines[n].quantity
  <1> DEFINE onOffer == { n \in 1 .. Len(lines) : lines[n].offer = o }
  <1>1. CASE onOffer = {}
    BY <1>1 DEF Units
  <1>2. CASE onOffer # {}
    <2>1. (CHOOSE n \in onOffer : TRUE) \in onOffer
      BY <1>2
    <2>2. Units(lines, o) = lines[CHOOSE n \in onOffer : TRUE].quantity
      BY <1>2 DEF Units
    <2> QED
      BY <2>1, <2>2
  <1> QED
    BY <1>1, <1>2

LEMMA CommitCheckoutIInv ==
  ASSUME IInv, NEW c \in Checkout, CommitCheckout(c)
  PROVE  IInv'
  <1> c \in Tx
    BY DEF Tx
  <1>1. /\ pc[c] = "commit" /\ CheckoutOK(c) /\ cart[c] \in Cart
        /\ line[c] = Len(cart[c]) + 1 /\ Len(cart[c]) \in Nat
        /\ \A n \in 1 .. Len(cart[c]) : Held(c, n) /\ Confirmed(c, n)
    <2>1. pc[c] = "commit" /\ CheckoutOK(c)
      BY DEF CommitCheckout, IInv, SessionInv
    <2>2. cart[c] \in Cart /\ line[c] = Len(cart[c]) + 1
      BY <2>1 DEF CheckoutOK
    <2>3. Len(cart[c]) \in Nat
      BY <2>2, OrdersAssumption DEF OrdersAssumption, CartAssumption
    <2> QED
      BY <2>1, <2>2, <2>3 DEF CheckoutOK
  <1>2. cart' = cart /\ pc'[c] = "publish"
    BY DEF CommitCheckout, IInv, TypeOK
  <1>3. \A o \in Offer : /\ stock'[o] = stock[o] - Units(cart[c], o)
                         /\ stock'[o] \in Nat
                         /\ lock[OfferRow(o)] # c => stock'[o] = stock[o]
    <2> SUFFICES ASSUME NEW o \in Offer
                 PROVE  /\ stock'[o] = stock[o] - Units(cart[c], o)
                        /\ stock'[o] \in Nat
                        /\ lock[OfferRow(o)] # c => stock'[o] = stock[o]
      OBVIOUS
    <2>1. stock'[o] = stock[o] - Units(cart[c], o) /\ stock[o] \in Nat
      BY DEF CommitCheckout, IInv, TypeOK
    <2>2. CASE Units(cart[c], o) = 0
      BY <2>1, <2>2
    <2>3. CASE \E n \in 1 .. Len(cart[c]) :
                 cart[c][n].offer = o /\ Units(cart[c], o) = cart[c][n].quantity
      <3>1. PICK n \in 1 .. Len(cart[c]) :
              cart[c][n].offer = o /\ Units(cart[c], o) = cart[c][n].quantity
        BY <2>3
      <3>2. lock[OfferRow(o)] = c /\ stock[o] >= cart[c][n].quantity
        BY <1>1, <3>1 DEF Held, Sellable
      <3>3. cart[c][n].quantity \in Nat
        BY <1>1, CartLine
      <3> QED
        BY <2>1, <3>1, <3>2, <3>3
    <2> QED
      BY <1>1, <2>2, <2>3, UnitsOfLine
  <1>4. \A i \in Item :
          /\ status'[i] = IF i[1] = c /\ i[2] <= Len(cart[i[1]]) THEN Placed ELSE status[i]
          /\ paid'[i] = IF i[1] = c /\ i[2] <= Len(cart[i[1]]) THEN seen[i[1]][i[2]] ELSE paid[i]
          /\ i[1] \in Checkout /\ i[2] \in 1 .. MaxLines
    BY DEF CommitCheckout, Item
  <1>5. \A i \in Item : i[1] = c /\ i[2] <= Len(cart[i[1]]) =>
          /\ i[2] \in 1 .. Len(cart[c])
          /\ seen[c][i[2]] = cart[c][i[2]].expected_price
          /\ seen[c][i[2]] \in Price
    <2> SUFFICES ASSUME NEW i \in Item, i[1] = c, i[2] <= Len(cart[i[1]])
                 PROVE  /\ i[2] \in 1 .. Len(cart[c])
                        /\ seen[c][i[2]] = cart[c][i[2]].expected_price
                        /\ seen[c][i[2]] \in Price
      OBVIOUS
    <2>1. i[2] \in 1 .. Len(cart[c])
      BY <1>1, <1>4
    <2>2. cart[c][i[2]] \in CheckoutItem
      BY <1>1, <2>1, CartLine
    <2> QED
      BY <1>1, <2>1, <2>2 DEF Confirmed, CheckoutItem
  <1>6. TypeOK'
    <2>1. stock' \in [Offer -> Nat]
      BY <1>3 DEF CommitCheckout
    <2>2. status' \in [Item -> OrderItemStatus \union {"none"}]
      BY <1>4 DEF CommitCheckout, IInv, TypeOK, Placed, OrderItemStatus, OrderItemForwardStatus
    <2>3. paid' \in [Item -> Price \union {None}]
      BY <1>4, <1>5 DEF CommitCheckout, IInv, TypeOK
    <2> QED
      BY <2>1, <2>2, <2>3, ReleaseRespects
      DEF CommitCheckout, CloseSession, IInv, TypeOK, PC, history
  <1>7. PcInv'
    BY Kinds DEF CommitCheckout, IInv, TypeOK, PcInv, Tx
  <1>8. \A i \in Item : Exists(i) => i[1] # c /\ Exists(i)'
    BY <1>1, <1>4 DEF IInv, ItemsInv, Exists
  <1>9. ItemsInv'
    <2> SUFFICES ASSUME NEW i \in Item
                 PROVE  /\ Exists(i)' <=> pc'[i[1]] \in {"publish", "done"}
                                            /\ i[2] <= Len(cart[i[1]])
                        /\ Exists(i)' => paid'[i] = cart[i[1]][i[2]].expected_price
      BY <1>2 DEF ItemsInv
    <2>1. CASE i[1] = c
      BY <1>2, <1>4, <1>5, <1>8, <2>1 DEF Exists, Placed
    <2>2. CASE i[1] # c
      BY <1>4, <2>2 DEF CommitCheckout, IInv, ItemsInv, TypeOK, Exists, Tx
    <2> QED
      BY <2>1, <2>2
  <1>10. Respects(c)
    <2>1. \A u \in Tx : u # c => Untouched(u)
      BY ReleaseRespects DEF CommitCheckout, CloseSession, IInv, TypeOK, Untouched
    <2>2. \A o \in Offer : lock[OfferRow(o)] # c => References(o)' \subseteq References(o)
      <3> SUFFICES ASSUME NEW o \in Offer, lock[OfferRow(o)] # c,
                          NEW i \in Item, Exists(i)', OfferOf(i)' = o
                   PROVE  Exists(i)
        BY <1>2 DEF References, OfferOf
      <3>1. CASE i[1] = c /\ i[2] <= Len(cart[i[1]])
        BY <1>1, <1>2, <1>5, <3>1 DEF Held, OfferOf
      <3>2. CASE ~(i[1] = c /\ i[2] <= Len(cart[i[1]]))
        BY <1>4, <3>2 DEF Exists
      <3> QED
        BY <3>1, <3>2
    <2>3. \A o \in Offer : offerState'[o] = offerState[o] /\ available'[o] = available[o]
      BY DEF CommitCheckout
    <2>4. \A i \in Item : Exists(i) => status'[i] = status[i]
      BY <1>4, <1>8
    <2> QED
      BY <1>2, <1>3, <1>8, <2>1, <2>2, <2>3, <2>4 DEF Respects, IInv, TypeOK
  <1>11. CheckoutOK(c)'
    BY <1>2 DEF CheckoutOK
  <1> QED
    BY <1>6, <1>7, <1>9, <1>10, <1>11, OneSession, Kinds DEF IInv

-----------------------------------------------------------------------------
(***************************************************************************)
(* Shipping and cancelling                                                 *)
(***************************************************************************)

LEMMA ReceiveIInv ==
  ASSUME IInv, NEW r \in ItemRequest, Receive(r)
  PROVE  IInv'
  <1> r \in Tx
    BY DEF Tx
  <1>1. PICK payload \in ItemRequestPayload :
          Exists(payload.item) /\ req' = [req EXCEPT ![r] = payload]
    BY DEF Receive
  <1>2. TypeOK'
    BY <1>1 DEF Receive, IInv, TypeOK, PC, offers, orders, history
  <1>3. PcInv'
    BY Kinds DEF Receive, IInv, TypeOK, PcInv, Tx
  <1>4. ItemsInv'
    BY SameItems, Kinds DEF Receive, IInv, TypeOK, Tx
  <1>5. Respects(r)
    <2>1. \A u \in Tx : u # r => Untouched(u)
      BY DEF Receive, IInv, TypeOK, Untouched
    <2> QED
      BY <2>1, SameTables DEF Receive
  <1>6. ItemOK(r)'
    <2>1. pc'[r] = "lock" /\ line'[r] = 1 /\ req'[r] = payload
      BY <1>1 DEF Receive, IInv, TypeOK
    <2>2. Exists(payload.item)'
      BY <1>1 DEF Receive, Exists, orders
    <2> QED
      BY <2>1, <2>2 DEF ItemOK
  <1> QED
    BY <1>2, <1>3, <1>4, <1>5, <1>6, OneSession, Kinds DEF IInv

\* What a session that has got past Receive knows about its item.
LEMMA ItemSession ==
  ASSUME IInv, NEW r \in ItemRequest, pc[r] \in {"lock", "decide", "commit"}
  PROVE  /\ ItemOK(r) /\ r \in Tx
         /\ req[r] \in ItemRequestPayload
         /\ req[r].item \in Item
         /\ req[r].target \in OrderItemStatus
         /\ Exists(req[r].item)
         /\ status[req[r].item] \in OrderItemStatus
         /\ ItemRow(req[r].item) \in Row
  <1>1. ItemOK(r) /\ r \in Tx
    BY DEF IInv, SessionInv, Tx
  <1>2. req[r] \in ItemRequestPayload /\ Exists(req[r].item)
    BY <1>1 DEF ItemOK
  <1>3. req[r].item \in Item /\ req[r].target \in OrderItemStatus
    BY <1>2 DEF ItemRequestPayload, OrderItemStatus
  <1>4. status[req[r].item] \in OrderItemStatus
    BY <1>2, <1>3 DEF IInv, TypeOK, Exists
  <1> QED
    BY <1>1, <1>2, <1>3, <1>4 DEF ItemRow, Row

LEMMA LockRowIInv ==
  ASSUME IInv, NEW r \in ItemRequest, LockRow(r)
  PROVE  IInv'
  <1> DEFINE i == req[r].item
             rows == LockRows(req[r])
  <1>0. pc[r] = "lock" /\ Lock(r, rows[line[r]])
    BY DEF LockRow
  <1>1. /\ ItemOK(r) /\ r \in Tx /\ i \in Item /\ Exists(i)
        /\ req[r] \in ItemRequestPayload
        /\ status[i] \in OrderItemStatus /\ ItemRow(i) \in Row
        /\ line[r] \in 1 .. 2
    BY <1>0, ItemSession DEF ItemOK
  <1>2. rows[1] = ItemRow(i) /\ Len(rows) = 2
    BY DEF LockRows
  <1>3. /\ lock' \in [Row -> Tx \union {None}]
        /\ \A u \in Tx : u # r => \A other \in Row : lock[other] = u => lock'[other] = u
        /\ \A other \in Row : lock[other] = r => lock'[other] = r
        /\ line[r] = 1 => lock'[ItemRow(i)] = r
    BY <1>0, <1>1, <1>2, LockRespects
  <1>4. /\ line' = [line EXCEPT ![r] = @ + 1]
        /\ UNCHANGED <<offers, orders, rejected, seen, req, edit, blocking, pending,
                       published, history>>
    BY DEF LockRow
  <1>4a. IF line[r] = Len(rows)
           THEN /\ previous' = [previous EXCEPT ![r] = status[i]]
                /\ pc' = [pc EXCEPT ![r] = "decide"]
           ELSE UNCHANGED <<previous, pc>>
    BY DEF LockRow
  <1> HIDE DEF i, rows
  <1>5. CASE line[r] = 1
    <2>1. UNCHANGED <<previous, pc>> /\ line' = [line EXCEPT ![r] = 2]
      BY <1>2, <1>4, <1>4a, <1>5
    <2>2. TypeOK'
      BY <1>1, <1>3, <1>4, <2>1 DEF IInv, TypeOK, offers, orders, history
    <2>3. PcInv'
      BY <2>1 DEF IInv, PcInv
    <2>4. ItemsInv'
      BY <1>4, <2>1, SameItems
    <2>5. \A u \in Tx : u # r => Untouched(u)
      BY <1>3, <1>4, <2>1 DEF IInv, TypeOK, Untouched
    <2>6. ItemOK(r)'
      BY <1>0, <1>1, <1>3, <1>4, <1>5, <2>1
      DEF IInv, TypeOK, ItemOK, Exists, ItemRow, orders, i
    <2> QED
      BY <1>1, <1>4, <2>2, <2>3, <2>4, <2>5, <2>6, SameTables, OneSession, Kinds DEF IInv
  <1>6. CASE line[r] = 2
    <2>1. /\ previous' = [previous EXCEPT ![r] = status[i]]
          /\ pc' = [pc EXCEPT ![r] = "decide"]
          /\ line' = [line EXCEPT ![r] = 3]
      BY <1>2, <1>4, <1>4a, <1>6
    <2>2. TypeOK'
      BY <1>1, <1>3, <1>4, <2>1 DEF IInv, TypeOK, PC, offers, orders, history
    <2>3. PcInv'
      BY <1>1, <2>1, Kinds DEF IInv, TypeOK, PcInv, Tx
    <2>4. ItemsInv'
      BY <1>4, <2>1, SameItems, Kinds DEF IInv, TypeOK, Tx
    <2>5. \A u \in Tx : u # r => Untouched(u)
      BY <1>3, <1>4, <2>1 DEF IInv, TypeOK, Untouched
    <2>6. lock'[ItemRow(i)] = r
      BY <1>0, <1>1, <1>3, <1>6 DEF ItemOK, i
    <2>7. pc'[r] = "decide" /\ previous'[r] = status[i]
      BY <1>1, <2>1 DEF IInv, TypeOK
    <2>8. req' = req /\ status' = status
      BY <1>4 DEF orders
    <2>9. ItemOK(r)'
      BY <1>1, <2>6, <2>7, <2>8 DEF ItemOK, Exists, ItemRow, i
    <2> QED
      BY <1>1, <1>4, <2>2, <2>3, <2>4, <2>5, <2>9, SameTables, OneSession, Kinds DEF IInv
  <1> QED
    BY <1>1, <1>5, <1>6

LEMMA UpdateStatusIInv ==
  ASSUME IInv, NEW r \in ItemRequest, UpdateStatus(r)
  PROVE  IInv'
  <1>0. pc[r] = "decide"
    BY DEF UpdateStatus
  <1>1. /\ ItemOK(r) /\ r \in Tx /\ req[r] \in ItemRequestPayload
        /\ req[r].item \in Item /\ req[r].target \in OrderItemStatus
        /\ previous[r] \in OrderItemStatus
    BY <1>0, ItemSession DEF ItemOK
  <1>2. StatusChanged(r) \in Event
    BY <1>1 DEF StatusChanged, Event
  <1>3. TypeOK'
    BY <1>1, <1>2 DEF UpdateStatus, IInv, TypeOK, PC, offers, orders, sessions, history
  <1>4. PcInv'
    BY <1>1, Kinds DEF UpdateStatus, IInv, TypeOK, PcInv, Tx
  <1>5. ItemsInv'
    BY <1>1, SameItems, Kinds DEF UpdateStatus, IInv, TypeOK, Tx
  <1>6. Respects(r)
    <2>1. \A u \in Tx : u # r => Untouched(u)
      BY DEF UpdateStatus, IInv, TypeOK, Untouched, sessions
    <2> QED
      BY <1>1, <2>1, SameTables DEF UpdateStatus
  <1>7. ItemOK(r)'
    <2>1. pc'[r] = "commit"
      BY <1>1 DEF UpdateStatus, IInv, TypeOK
    <2> QED
      BY <1>0, <1>1, <2>1 DEF UpdateStatus, ItemOK, Exists, sessions, orders, ItemRow
  <1> QED
    BY <1>1, <1>3, <1>4, <1>5, <1>6, <1>7, OneSession, Kinds DEF IInv

LEMMA CancelIInv ==
  ASSUME IInv, NEW r \in ItemRequest, Cancel(r)
  PROVE  IInv'
  <1>0. pc[r] = "decide"
    BY DEF Cancel
  <1> DEFINE i == req[r].item
  <1>1. /\ ItemOK(r) /\ r \in Tx /\ req[r] \in ItemRequestPayload
        /\ i \in Item /\ req[r].target \in OrderItemStatus
        /\ previous[r] \in OrderItemStatus /\ ItemRow(i) \in Row
        /\ Exists(i) /\ OfferRow(OfferOf(i)) \in Row
    BY <1>0, ItemSession, ItemLine DEF ItemOK
  <1>2. StatusChanged(r) \in Event /\ Cancelled(r) \in Event
    BY <1>1 DEF StatusChanged, Cancelled, Event, RestoresStockOnCancel
  <1>3. /\ lock' \in [Row -> Tx \union {None}]
        /\ \A u \in Tx : u # r => \A other \in Row : lock[other] = u => lock'[other] = u
        /\ \A other \in Row : lock[other] = r => lock'[other] = r
        /\ RestoresStockOnCancel(previous[r]) => lock'[OfferRow(OfferOf(i))] = r
    BY <1>1, LockRespects DEF Cancel, IInv, TypeOK
  <1>4. TypeOK'
    BY <1>1, <1>2, <1>3 DEF Cancel, IInv, TypeOK, PC, offers, orders, sessions, history
  <1>5. PcInv'
    BY <1>1, Kinds DEF Cancel, IInv, TypeOK, PcInv, Tx
  <1>6. ItemsInv'
    BY <1>1, SameItems, Kinds DEF Cancel, IInv, TypeOK, Tx
  <1>7. Respects(r)
    <2>1. \A u \in Tx : u # r => Untouched(u)
      BY <1>3 DEF Cancel, IInv, TypeOK, Untouched, sessions
    <2> QED
      BY <1>1, <2>1, SameTables DEF Cancel
  <1>8. ItemOK(r)'
    <2>1. /\ pc'[r] = "commit" /\ req' = req /\ previous' = previous
          /\ status' = status /\ cart' = cart
      BY <1>1 DEF Cancel, IInv, TypeOK, sessions, orders
    <2>2. lock'[ItemRow(i)] = r /\ previous[r] = status[i]
      BY <1>0, <1>1, <1>3 DEF ItemOK
    <2>3. OfferOf(i)' = OfferOf(i) /\ Exists(i)'
      BY <1>1, <2>1 DEF OfferOf, Exists
    <2>4. req[r].target = "cancelled" /\ CanCancel(previous[r], req[r].role)
      BY DEF Cancel
    <2> QED
      BY <1>1, <1>3, <2>1, <2>2, <2>3, <2>4 DEF ItemOK, ItemRow, OfferRow
  <1> QED
    BY <1>1, <1>4, <1>5, <1>6, <1>7, <1>8, OneSession, Kinds DEF IInv

LEMMA CommitItemIInv ==
  ASSUME IInv, NEW r \in ItemRequest, CommitItem(r)
  PROVE  IInv'
  <1>0. pc[r] = "commit"
    BY DEF CommitItem
  <1> DEFINE i == req[r].item
             back == req[r].target = "cancelled" /\ RestoresStockOnCancel(previous[r])
  <1>1. /\ ItemOK(r) /\ r \in Tx /\ i \in Item /\ Exists(i)
        /\ req[r].target \in OrderItemStatus /\ status[i] \in OrderItemStatus
        /\ OfferOf(i) \in Offer /\ QuantityOf(i) \in Nat
        /\ lock[ItemRow(i)] = r
        /\ back => lock[OfferRow(OfferOf(i))] = r
    BY <1>0, ItemSession, ItemLine DEF ItemOK
  <1>2. /\ status' = [status EXCEPT ![i] = req[r].target] /\ cart' = cart
        /\ \A j \in Item : Exists(j)' <=> Exists(j)
    BY <1>1 DEF CommitItem, IInv, TypeOK, Exists, OrderItemStatus, OrderItemForwardStatus
  <1>3. /\ stock' \in [Offer -> Nat]
        /\ \A o \in Offer : stock'[o] >= stock[o]
    BY <1>1 DEF CommitItem, IInv, TypeOK
  <1>4. TypeOK'
    <2>1. status' \in [Item -> OrderItemStatus \union {"none"}]
      BY <1>1, <1>2 DEF IInv, TypeOK
    <2>2. moves' \in [Item -> SUBSET (OrderItemStatus \X OrderItemStatus)]
      BY <1>1 DEF CommitItem, IInv, TypeOK
    <2>3. restored' \in [Item -> Nat]
      BY <1>1 DEF CommitItem, IInv, TypeOK
    <2> QED
      BY SMTT(30), <1>1, <1>3, <2>1, <2>2, <2>3, ReleaseRespects
      DEF CommitItem, CloseSession, IInv, TypeOK, PC
  <1>5. PcInv'
    BY <1>1, Kinds DEF CommitItem, IInv, TypeOK, PcInv, Tx
  <1>6. ItemsInv'
    <2>1. \A c \in Checkout : pc'[c] = pc[c]
      BY <1>1, Kinds DEF CommitItem, IInv, TypeOK, Tx
    <2> QED
      BY <1>2, <2>1 DEF CommitItem, IInv, ItemsInv, Item
  <1>7. Respects(r)
    <2>1. \A u \in Tx : u # r => Untouched(u)
      BY SMTT(30), <1>1, ReleaseRespects DEF CommitItem, CloseSession, IInv, TypeOK, Untouched
    <2>2. \A o \in Offer : References(o)' = References(o)
      BY <1>2 DEF References, OfferOf
    <2>3. \A j \in Item : lock[ItemRow(j)] \notin {None, r} => status'[j] = status[j]
      BY <1>1, <1>2 DEF IInv, TypeOK
    <2> QED
      BY <1>2, <1>3, <2>1, <2>2, <2>3 DEF CommitItem, Respects
  <1>8. ItemOK(r)'
    BY <1>1 DEF CommitItem, IInv, TypeOK, ItemOK
  <1> QED
    BY <1>1, <1>4, <1>5, <1>6, <1>7, <1>8, OneSession, Kinds DEF IInv

-----------------------------------------------------------------------------
(***************************************************************************)
(* Creating, editing and deleting offers                                   *)
(***************************************************************************)

LEMMA CreateOfferIInv ==
  ASSUME IInv, NEW f \in OfferRequest, CreateOffer(f)
  PROVE  IInv'
  <1> f \in Tx
    BY DEF Tx
  <1>1. PICK o \in Offer, p \in OfferPayload :
          /\ offerState[o] = "absent"
          /\ p.price # None /\ p.stock # None
          /\ offerState' = [offerState EXCEPT ![o] = "live"]
          /\ price' = [price EXCEPT ![o] = p.price]
          /\ stock' = [stock EXCEPT ![o] = p.stock]
          /\ available' = [available EXCEPT ![o] = (p.available # FALSE)]
          /\ supply' = [supply EXCEPT ![o] = p.stock]
    BY DEF CreateOffer
  <1>2. p.price \in Price /\ p.stock \in Nat
    BY <1>1, OrdersAssumption DEF OrdersAssumption, PayloadAssumption
  <1>3. TypeOK'
    BY <1>1, <1>2 DEF CreateOffer, IInv, TypeOK, orders, sessions
  <1>4. PcInv'
    BY DEF CreateOffer, IInv, PcInv
  <1>5. ItemsInv'
    BY SameItems DEF CreateOffer
  <1>6. Respects(f)
    <2>1. \A u \in Tx : Untouched(u)
      BY DEF CreateOffer, Untouched, sessions
    <2>2. \A other \in Offer : References(other)' = References(other)
      BY DEF CreateOffer, References, OfferOf, Exists, orders
    <2>3. \A other \in Offer : offerState[other] = "live" =>
            /\ offerState'[other] = offerState[other]
            /\ available'[other] = available[other]
            /\ stock'[other] = stock[other] /\ stock[other] \in Nat
      BY <1>1 DEF IInv, TypeOK
    <2>4. status' = status /\ cart' = cart
      BY DEF CreateOffer, orders
    <2> QED
      BY <2>1, <2>2, <2>3, <2>4 DEF Respects, Exists
  <1>7. OfferOK(f)'
    BY DEF CreateOffer, OfferOK
  <1> QED
    BY <1>3, <1>4, <1>5, <1>6, <1>7, OneSession, Kinds DEF IInv

\* ReadForUpdate and ReadForDelete load the offer into the session.
LEMMA ReadOfferIInv ==
  ASSUME IInv, NEW f \in OfferRequest, NEW e \in OfferEdit,
         edit' = [edit EXCEPT ![f] = e],
         pc[f] = "idle", pc' = [pc EXCEPT ![f] = "flush"],
         UNCHANGED <<offers, orders, lock, line, rejected, seen, req, previous,
                     blocking, pending, published, history>>
  PROVE  IInv'
  <1> f \in Tx
    BY DEF Tx
  <1>1. TypeOK'
    BY DEF IInv, TypeOK, PC, offers, orders, history
  <1>2. PcInv'
    BY Kinds DEF IInv, TypeOK, PcInv, Tx
  <1>3. ItemsInv'
    BY SameItems, Kinds DEF IInv, TypeOK, Tx
  <1>4. \A u \in Tx : u # f => Untouched(u)
    BY DEF IInv, TypeOK, Untouched
  <1>5. OfferOK(f)'
    BY DEF IInv, TypeOK, OfferOK
  <1> QED
    BY <1>1, <1>2, <1>3, <1>4, <1>5, SameTables, OneSession, Kinds DEF IInv

LEMMA ReadForUpdateIInv ==
  ASSUME IInv, NEW f \in OfferRequest, ReadForUpdate(f)
  PROVE  IInv'
  <1>1. PICK o \in Offer, p \in OfferPayload :
          /\ offerState[o] = "live"
          /\ edit' = [edit EXCEPT ![f] =
                        [op |-> "update", offer |-> o,
                         price |-> Dirty(p.price, price[o]),
                         stock |-> Dirty(p.stock, stock[o]),
                         available |-> Dirty(p.available, available[o])]]
    BY DEF ReadForUpdate
  <1>2. /\ p.price \in Price \union {None}
        /\ p.stock \in Nat \union {None}
        /\ p.available \in BOOLEAN \union {None}
    BY OrdersAssumption DEF OrdersAssumption, PayloadAssumption
  <1>3. [op |-> "update", offer |-> o, price |-> Dirty(p.price, price[o]),
         stock |-> Dirty(p.stock, stock[o]),
         available |-> Dirty(p.available, available[o])] \in OfferEdit
    BY <1>2 DEF OfferEdit, Dirty
  <1> QED
    BY <1>1, <1>3, ReadOfferIInv DEF ReadForUpdate

LEMMA ReadForDeleteIInv ==
  ASSUME IInv, NEW f \in OfferRequest, ReadForDelete(f)
  PROVE  IInv'
  <1>1. PICK o \in Offer :
          edit' = [edit EXCEPT ![f] = [op |-> "delete", offer |-> o, price |-> None,
                                       stock |-> None, available |-> None]]
    BY DEF ReadForDelete
  <1>2. [op |-> "delete", offer |-> o, price |-> None,
         stock |-> None, available |-> None] \in OfferEdit
    BY DEF OfferEdit
  <1> QED
    BY <1>1, <1>2, ReadOfferIInv DEF ReadForDelete

LEMMA FlushUpdateIInv ==
  ASSUME IInv, NEW f \in OfferRequest, FlushUpdate(f)
  PROVE  IInv'
  <1> DEFINE o == edit[f].offer
  <1>1. /\ f \in Tx /\ pc[f] = "flush" /\ edit[f] \in OfferEdit
        /\ edit[f].op # "delete" /\ offerState[o] = "live"
        /\ Lock(f, OfferRow(o)) /\ OfferRow(o) \in Row
        /\ pc' = [pc EXCEPT ![f] = "commit"]
        /\ UNCHANGED <<offers, orders, sessions, pending, published, history>>
    BY DEF FlushUpdate, IInv, SessionInv, OfferOK, Tx, OfferEdit, OfferRow, Row
  <1>2. TypeOK'
    BY <1>1, LockRespects DEF IInv, TypeOK, PC, offers, orders, sessions, history
  <1>3. PcInv'
    BY <1>1, Kinds DEF IInv, TypeOK, PcInv, Tx
  <1>4. ItemsInv'
    BY <1>1, SameItems, Kinds DEF IInv, TypeOK, Tx
  <1>5. \A u \in Tx : u # f => Untouched(u)
    BY <1>1, LockRespects DEF IInv, TypeOK, Untouched, sessions
  <1>6. OfferOK(f)'
    BY <1>1, LockRespects DEF IInv, TypeOK, OfferOK, sessions, offers, OfferRow
  <1> QED
    BY <1>1, <1>2, <1>3, <1>4, <1>5, <1>6, SameTables, OneSession, Kinds DEF IInv

LEMMA FlushDeleteIInv ==
  ASSUME IInv, NEW f \in OfferRequest, FlushDelete(f)
  PROVE  IInv'
  <1> DEFINE o == edit[f].offer
  <1>1. /\ f \in Tx /\ pc[f] = "flush" /\ edit[f] \in OfferEdit
        /\ offerState[o] = "live"
        /\ Lock(f, OfferRow(o)) /\ OfferRow(o) \in Row
        /\ UNCHANGED <<offers, orders, line, rejected, seen, req, previous, edit,
                       pending, published, history>>
    BY DEF FlushDelete, IInv, SessionInv, OfferOK, Tx, OfferEdit, OfferRow, Row
  <1>2. References(o) \subseteq Item /\ References(o)' = References(o)
    BY <1>1 DEF References, Exists, OfferOf, orders
  <1>3. /\ pc' \in [Tx -> PC] /\ pc'[f] \in {"commit", "restrict"}
        /\ blocking' \in [Tx -> Item \union {None}]
        /\ \A u \in Tx : u # f => pc'[u] = pc[u] /\ blocking'[u] = blocking[u]
        /\ pc'[f] = "commit" => References(o) = {}
        /\ pc'[f] = "restrict" => blocking'[f] \in Item
    <2>1. CASE References(o) = {}
      BY <1>1, <2>1 DEF FlushDelete, IInv, TypeOK, PC
    <2>2. CASE References(o) # {}
      <3>1. PICK i \in References(o) : blocking' = [blocking EXCEPT ![f] = i]
        BY <2>2 DEF FlushDelete
      <3>2. pc' = [pc EXCEPT ![f] = "restrict"]
        BY <2>2 DEF FlushDelete
      <3> QED
        BY <1>1, <1>2, <3>1, <3>2 DEF IInv, TypeOK, PC
    <2> QED
      BY <2>1, <2>2
  <1>4. TypeOK'
    BY <1>1, <1>3, LockRespects DEF IInv, TypeOK, offers, orders, history
  <1>5. PcInv'
    BY <1>1, <1>3, Kinds DEF IInv, TypeOK, PcInv, Tx
  <1>6. ItemsInv'
    BY <1>1, <1>3, SameItems, Kinds DEF IInv, TypeOK, Tx
  <1>7. \A u \in Tx : u # f => Untouched(u)
    BY <1>1, <1>3, LockRespects DEF IInv, TypeOK, Untouched
  <1>8. OfferOK(f)'
    BY <1>1, <1>2, <1>3, LockRespects DEF OfferOK, offers, OfferRow
  <1> QED
    BY <1>1, <1>4, <1>5, <1>6, <1>7, <1>8, SameTables, OneSession, Kinds DEF IInv

LEMMA CommitOfferIInv ==
  ASSUME IInv, NEW f \in OfferRequest, CommitOffer(f)
  PROVE  IInv'
  <1> DEFINE e == edit[f]
             o == e.offer
  <1>1. /\ f \in Tx /\ pc[f] = "commit" /\ e \in OfferEdit /\ o \in Offer
        /\ e.price \in Price \union {None} /\ e.stock \in Nat \union {None}
        /\ e.available \in BOOLEAN \union {None}
        /\ lock[OfferRow(o)] = f
    BY DEF CommitOffer, IInv, SessionInv, OfferOK, Tx, OfferEdit
  <1>2. /\ ReleaseLocks(f) /\ CloseSession(f) /\ pc' = [pc EXCEPT ![f] = "idle"]
        /\ UNCHANGED <<orders, pending, published, moves, restored>>
    BY DEF CommitOffer
  <1>3. /\ offerState' \in [Offer -> {"absent", "live", "deleted"}]
        /\ price' \in [Offer -> Price]
        /\ stock' \in [Offer -> Nat]
        /\ available' \in [Offer -> BOOLEAN]
        /\ supply' \in [Offer -> Int]
        /\ \A other \in Offer : other # o =>
             /\ offerState'[other] = offerState[other]
             /\ stock'[other] = stock[other]
             /\ available'[other] = available[other]
    <2>1. CASE e.op = "delete"
      BY <1>1, <2>1 DEF CommitOffer, IInv, TypeOK
    <2>2. CASE e.op # "delete"
      <3>1. /\ Written(e.price, price[o]) \in Price
            /\ Written(e.stock, stock[o]) \in Nat
            /\ Written(e.available, available[o]) \in BOOLEAN
        BY <1>1 DEF Written, IInv, TypeOK
      <3>2. /\ price' = [price EXCEPT ![o] = Written(e.price, @)]
            /\ stock' = [stock EXCEPT ![o] = Written(e.stock, @)]
            /\ available' = [available EXCEPT ![o] = Written(e.available, @)]
            /\ supply' = [supply EXCEPT ![o] = @ + (stock'[o] - stock[o])]
            /\ UNCHANGED offerState
        BY <2>2 DEF CommitOffer
      <3>3. stock'[o] \in Nat /\ stock[o] \in Nat /\ supply[o] \in Int
        BY <1>1, <3>1, <3>2 DEF IInv, TypeOK
      <3>4. supply' \in [Offer -> Int]
        <4> DEFINE d == stock'[o] - stock[o]
        <4>1. supply[o] + d \in Int /\ supply' = [supply EXCEPT ![o] = supply[o] + d]
          BY <3>2, <3>3
        <4>2. supply \in [Offer -> Int]
          BY DEF IInv, TypeOK
        <4> HIDE DEF d, o
        <4> QED
          BY <4>1, <4>2
      <3> QED
        BY <1>1, <3>1, <3>2, <3>4 DEF IInv, TypeOK
    <2> QED
      BY <2>1, <2>2
  <1>4. TypeOK'
    BY <1>1, <1>2, <1>3, ReleaseRespects DEF CloseSession, IInv, TypeOK, PC, orders
  <1>5. PcInv'
    BY <1>1, <1>2, Kinds DEF IInv, TypeOK, PcInv, Tx
  <1>6. ItemsInv'
    BY <1>1, <1>2, SameItems, Kinds DEF IInv, TypeOK, Tx
  <1>7. Respects(f)
    <2>1. \A u \in Tx : u # f => Untouched(u)
      BY <1>1, <1>2, ReleaseRespects DEF CloseSession, IInv, TypeOK, Untouched
    <2>2. \A other \in Offer : References(other)' = References(other)
      BY <1>2 DEF References, OfferOf, Exists, orders
    <2> QED
      BY <1>1, <1>2, <1>3, <2>1, <2>2 DEF Respects, Exists, orders, IInv, TypeOK
  <1>8. OfferOK(f)'
    BY <1>1, <1>2 DEF IInv, TypeOK, OfferOK
  <1> QED
    BY <1>1, <1>4, <1>5, <1>6, <1>7, <1>8, OneSession, Kinds DEF IInv

-----------------------------------------------------------------------------
(***************************************************************************)
(* The steps every request shares, and the theorems                        *)
(***************************************************************************)

\* Publish and LoseEvents: the transaction has been committed.
LEMMA PublishIInv ==
  ASSUME IInv, NEW t \in Tx, pc[t] = "publish",
         published' \in SUBSET Event,
         pending' = [pending EXCEPT ![t] = {}],
         pc' = [pc EXCEPT ![t] = Finished(t)],
         UNCHANGED <<offers, orders, lock, sessions, history>>
  PROVE  IInv'
  <1>1. TypeOK'
    BY DEF IInv, TypeOK, PC, Finished, offers, orders, sessions, history
  <1>2. PcInv'
    BY Kinds DEF IInv, TypeOK, PcInv, Finished, Tx
  <1>3. ItemsInv'
    BY SameItems DEF IInv, TypeOK, Finished, Tx
  <1>4. \A u \in Tx : u # t => Untouched(u)
    BY DEF IInv, TypeOK, Untouched, sessions
  <1>5. /\ t \in Checkout => pc'[t] = "done"
        /\ t \in ItemRequest => pc'[t] = "idle"
        /\ t \notin OfferRequest
    BY Kinds DEF IInv, PcInv, TypeOK, Finished
  <1> QED
    BY <1>1, <1>2, <1>3, <1>4, <1>5, SameTables, OneSession
    DEF IInv, CheckoutOK, ItemOK

LEMMA StepIInv == IInv /\ [Next]_vars => IInv'
  <1> SUFFICES ASSUME IInv, [Next]_vars PROVE IInv'
    OBVIOUS
  <1>1. ASSUME NEW c \in Checkout, Submit(c) \/ CheckoutStep(c)
        PROVE  IInv'
    <2>1. CASE Submit(c)
      BY <2>1, SubmitIInv
    <2>2. CASE ValidateItem(c)
      BY <2>2, ValidateItemIInv
    <2>3. CASE ConsumeStock(c)
      BY <2>3, ConsumeStockIInv
    <2>4. CASE RefuseStock(c)
      BY <2>4, RollbackIInv DEF RefuseStock, Tx
    <2>5. CASE CommitCheckout(c)
      BY <2>5, CommitCheckoutIInv
    <2> QED
      BY <1>1, <2>1, <2>2, <2>3, <2>4, <2>5 DEF CheckoutStep
  <1>2. ASSUME NEW r \in ItemRequest, Receive(r) \/ ItemStep(r)
        PROVE  IInv'
    <2>1. CASE Receive(r)
      BY <2>1, ReceiveIInv
    <2>2. CASE LockRow(r)
      BY <2>2, LockRowIInv
    <2>3. CASE AnswerUnchanged(r)
      BY <2>3, RollbackIInv DEF AnswerUnchanged, Tx
    <2>4. CASE RefuseTransition(r)
      BY <2>4, RollbackIInv DEF RefuseTransition, Tx
    <2>5. CASE UpdateStatus(r)
      BY <2>5, UpdateStatusIInv
    <2>6. CASE Cancel(r)
      BY <2>6, CancelIInv
    <2>7. CASE CommitItem(r)
      BY <2>7, CommitItemIInv
    <2> QED
      BY <1>2, <2>1, <2>2, <2>3, <2>4, <2>5, <2>6, <2>7 DEF ItemStep
  <1>3. ASSUME NEW f \in OfferRequest,
               CreateOffer(f) \/ ReadForUpdate(f) \/ ReadForDelete(f) \/ OfferStep(f)
        PROVE  IInv'
    <2>1. CASE CreateOffer(f)
      BY <2>1, CreateOfferIInv
    <2>2. CASE ReadForUpdate(f)
      BY <2>2, ReadForUpdateIInv
    <2>3. CASE ReadForDelete(f)
      BY <2>3, ReadForDeleteIInv
    <2>4. CASE FlushNothing(f)
      BY <2>4, RollbackIInv DEF FlushNothing, Tx
    <2>5. CASE FlushUpdate(f)
      BY <2>5, FlushUpdateIInv
    <2>6. CASE FlushDelete(f)
      BY <2>6, FlushDeleteIInv
    <2>7. CASE RestrictDelete(f)
      BY <2>7, RollbackIInv DEF RestrictDelete, Tx
    <2>8. CASE CommitOffer(f)
      BY <2>8, CommitOfferIInv
    <2> QED
      BY <1>3, <2>1, <2>2, <2>3, <2>4, <2>5, <2>6, <2>7, <2>8 DEF OfferStep
  <1>4. ASSUME NEW t \in Tx, Publish(t) \/ LoseEvents(t) \/ Abort(t) \/ DeadlockVictim(t)
        PROVE  IInv'
    <2>1. CASE Publish(t)
      <3>1. pending[t] \in SUBSET Event
        BY DEF IInv, TypeOK
      <3> QED
        BY <2>1, <3>1, PublishIInv DEF Publish
    <2>2. CASE LoseEvents(t)
      <3>1. published \in SUBSET Event
        BY DEF IInv, TypeOK
      <3> QED
        BY <2>2, <3>1, PublishIInv DEF LoseEvents
    <2>3. CASE Abort(t)
      BY <2>3, RollbackIInv DEF Abort
    <2>4. CASE DeadlockVictim(t)
      <3>1. NextRow(t) # {}
        BY <2>4 DEF DeadlockVictim, Cycle
      <3>2. pc[t] \notin {"publish", "done"}
        BY <3>1 DEF NextRow
      <3> QED
        BY <2>4, <3>2, RollbackIInv DEF DeadlockVictim
    <2> QED
      BY <1>4, <2>1, <2>2, <2>3, <2>4
  <1>5. CASE UNCHANGED vars
    <2>1. TypeOK'
      BY <1>5 DEF vars, offers, orders, sessions, history, IInv, TypeOK
    <2>2. PcInv' /\ ItemsInv'
      BY <1>5 DEF vars, offers, orders, sessions, IInv, PcInv, ItemsInv, Exists
    <2>3. ASSUME NEW t \in Checkout PROVE CheckoutOK(t)'
      BY <1>5, <2>3
      DEF vars, offers, orders, sessions, IInv, SessionInv, CheckoutOK, Confirmed, Held,
          Sellable, OfferRow
    <2>4. ASSUME NEW t \in ItemRequest PROVE ItemOK(t)'
      BY <1>5, <2>4
      DEF vars, offers, orders, sessions, IInv, SessionInv, ItemOK, Exists, OfferOf,
          OfferRow, ItemRow
    <2>5. ASSUME NEW t \in OfferRequest PROVE OfferOK(t)'
      BY <1>5, <2>5
      DEF vars, offers, orders, sessions, IInv, SessionInv, OfferOK, Exists, References,
          OfferOf, OfferRow
    <2> QED
      BY <2>1, <2>2, <2>3, <2>4, <2>5 DEF IInv, SessionInv
  <1>6. ASSUME NEW t, ItemNotFound(t) \/ OfferNotFound(t) PROVE UNCHANGED vars
    BY <1>6 DEF ItemNotFound, OfferNotFound
  <1> QED
    BY <1>1, <1>2, <1>3, <1>4, <1>5, <1>6 DEF Next

LEMMA Invariance == Spec => []IInv
  <1>1. Init => IInv
    BY InitIInv
  <1>2. IInv /\ [Next]_vars => IInv'
    BY StepIInv
  <1> QED
    BY <1>1, <1>2, PTL DEF Spec

\* Tables, sessions and locks keep their types; above all, stock never goes
\* below zero, however many checkouts validated the same units
\* (orders/checkout.py _consume_stock).
THEOREM TypeCorrect == Spec => []TypeOK
  <1>1. IInv => TypeOK
    BY DEF IInv
  <1> QED
    BY <1>1, Invariance, PTL

\* No buyer pays a price other than the one confirmed (orders/checkout.py
\* _validate_item, and purchase_price copied from the validated session).
THEOREM ExpectedPricePaid == Spec => []PaidAsExpected
  <1>1. IInv => PaidAsExpected
    BY DEF IInv, ItemsInv, PaidAsExpected
  <1> QED
    BY <1>1, Invariance, PTL

\* The tables and the history change only when a transaction commits, and
\* then the lines of existing items stay what they are.
LEMMA TableSteps ==
  ASSUME IInv, [Next]_vars
  PROVE  \/ \E c \in Checkout : CommitCheckout(c)
         \/ \E r \in ItemRequest : CommitItem(r)
         \/ \E f \in OfferRequest : CommitOffer(f)
         \/ \E f \in OfferRequest : CreateOffer(f)
         \/ /\ UNCHANGED <<offers, status, paid, history>>
            /\ \A i \in Item : Exists(i) => OfferOf(i)' = OfferOf(i)
            /\ placedOrder' = placedOrder
  <1> DEFINE Same == /\ UNCHANGED <<offers, status, paid, history>>
                     /\ \A i \in Item : Exists(i) => OfferOf(i)' = OfferOf(i)
                     /\ placedOrder' = placedOrder
  <1>1. ASSUME cart' = cart, UNCHANGED <<offers, status, paid, history>>,
               \A c \in Checkout : pc'[c] \in {"publish", "done"}
                                    <=> pc[c] \in {"publish", "done"}
        PROVE  Same
    BY <1>1 DEF OfferOf, placedOrder
  <1>2. ASSUME NEW t \in Tx, pc[t] \notin {"publish", "done"}, Rollback(t)
        PROVE  Same
    <2>1. \A i \in Item : Exists(i) => OfferOf(i)' = OfferOf(i)
      BY <1>2, ItemLine DEF Rollback, IInv, TypeOK, OfferOf
    <2>2. \A c \in Checkout :
            (IF pc'[c] \in {"publish", "done"} THEN cart'[c] ELSE <<>>)
              = (IF pc[c] \in {"publish", "done"} THEN cart[c] ELSE <<>>)
      BY <1>2 DEF Rollback, IInv, TypeOK, Finished, Tx
    <2> QED
      BY <1>2, <2>1, <2>2 DEF Rollback, placedOrder
  <1>3. ASSUME NEW c \in Checkout, Submit(c) \/ CheckoutStep(c)
        PROVE  CommitCheckout(c) \/ Same
    <2> c \in Tx
      BY DEF Tx
    <2>1. CASE Submit(c)
      <3>1. \A i \in Item : Exists(i) => OfferOf(i)' = OfferOf(i)
        BY <2>1, ItemLine DEF Submit, IInv, TypeOK, OfferOf
      <3>2. \A u \in Checkout :
              (IF pc'[u] \in {"publish", "done"} THEN cart'[u] ELSE <<>>)
                = (IF pc[u] \in {"publish", "done"} THEN cart[u] ELSE <<>>)
        BY <2>1 DEF Submit, IInv, TypeOK, Tx
      <3> QED
        BY <2>1, <3>1, <3>2 DEF Submit, placedOrder
    <2>2. CASE ValidateItem(c)
      <3>1. CASE Rollback(c)
        BY <1>2, <2>2, <3>1 DEF ValidateItem
      <3>2. CASE ~Rollback(c)
        <4>1. /\ UNCHANGED <<offers, orders, history>> /\ pc[c] = "validate"
              /\ pc' = [pc EXCEPT ![c] = IF line[c] = Len(cart[c]) THEN "consume" ELSE @]
          BY <2>2, <3>2 DEF ValidateItem
        <4> QED
          BY <1>1, <4>1 DEF orders, IInv, TypeOK, Tx
      <3> QED
        BY <3>1, <3>2
    <2>3. CASE ConsumeStock(c)
      BY <1>1, <2>3 DEF ConsumeStock, orders, IInv, TypeOK, Tx
    <2>4. CASE RefuseStock(c)
      BY <1>2, <2>4 DEF RefuseStock
    <2> QED
      BY <1>3, <2>1, <2>2, <2>3, <2>4 DEF CheckoutStep
  <1>4. ASSUME NEW r \in ItemRequest, Receive(r) \/ ItemStep(r)
        PROVE  CommitItem(r) \/ Same
    <2> r \in Tx /\ r \notin Checkout
      BY Kinds DEF Tx
    <2>1. CASE Receive(r)
      BY <1>1, <2>1 DEF Receive, orders, IInv, TypeOK
    <2>2. CASE LockRow(r)
      <3>1. \A c \in Checkout : pc'[c] = pc[c]
        <4>1. pc' = [pc EXCEPT ![r] = "decide"] \/ pc' = pc
          BY <2>2 DEF LockRow
        <4> QED
          BY <4>1 DEF IInv, TypeOK, Tx
      <3> QED
        BY <1>1, <2>2, <3>1 DEF LockRow, orders
    <2>3. CASE AnswerUnchanged(r)
      BY <1>2, <2>3 DEF AnswerUnchanged
    <2>4. CASE RefuseTransition(r)
      BY <1>2, <2>4 DEF RefuseTransition
    <2>5. CASE UpdateStatus(r)
      BY <1>1, <2>5 DEF UpdateStatus, orders, IInv, TypeOK
    <2>6. CASE Cancel(r)
      BY <1>1, <2>6 DEF Cancel, orders, IInv, TypeOK
    <2> QED
      BY <1>4, <2>1, <2>2, <2>3, <2>4, <2>5, <2>6 DEF ItemStep
  <1>5. ASSUME NEW f \in OfferRequest, ReadForUpdate(f) \/ ReadForDelete(f) \/ OfferStep(f)
        PROVE  CommitOffer(f) \/ Same
    <2> f \in Tx /\ f \notin Checkout
      BY Kinds DEF Tx
    <2>1. CASE ReadForUpdate(f)
      BY <1>1, <2>1 DEF ReadForUpdate, orders, IInv, TypeOK
    <2>2. CASE ReadForDelete(f)
      BY <1>1, <2>2 DEF ReadForDelete, orders, IInv, TypeOK
    <2>3. CASE FlushNothing(f)
      BY <1>2, <2>3 DEF FlushNothing
    <2>4. CASE FlushUpdate(f)
      BY <1>1, <2>4 DEF FlushUpdate, orders, IInv, TypeOK
    <2>5. CASE FlushDelete(f)
      <3>1. \A c \in Checkout : pc'[c] = pc[c]
        <4>1. \E where \in {"commit", "restrict"} : pc' = [pc EXCEPT ![f] = where]
          BY <2>5 DEF FlushDelete
        <4> QED
          BY <4>1 DEF IInv, TypeOK, Tx
      <3> QED
        BY <1>1, <2>5, <3>1 DEF FlushDelete, orders
    <2>6. CASE RestrictDelete(f)
      BY <1>2, <2>6 DEF RestrictDelete
    <2> QED
      BY <1>5, <2>1, <2>2, <2>3, <2>4, <2>5, <2>6 DEF OfferStep
  <1>6. ASSUME NEW t \in Tx, Publish(t) \/ LoseEvents(t) \/ Abort(t) \/ DeadlockVictim(t)
        PROVE  Same
    <2>1. CASE Publish(t)
      BY <1>1, <2>1 DEF Publish, orders, Finished, IInv, TypeOK, Tx
    <2>2. CASE LoseEvents(t)
      BY <1>1, <2>2 DEF LoseEvents, orders, Finished, IInv, TypeOK, Tx
    <2>3. CASE Abort(t)
      BY <1>2, <2>3 DEF Abort
    <2>4. CASE DeadlockVictim(t)
      <3>1. NextRow(t) # {}
        BY <2>4 DEF DeadlockVictim, Cycle
      <3>2. pc[t] \notin {"publish", "done"}
        BY <3>1 DEF NextRow
      <3> QED
        BY <1>2, <2>4, <3>2 DEF DeadlockVictim
    <2> QED
      BY <1>6, <2>1, <2>2, <2>3, <2>4
  <1>7. UNCHANGED vars => Same
    BY DEF vars, offers, orders, history, OfferOf, placedOrder
  <1>8. ASSUME NEW t, ItemNotFound(t) \/ OfferNotFound(t) PROVE UNCHANGED vars
    BY <1>8 DEF ItemNotFound, OfferNotFound
  <1> HIDE DEF Same
  <1>9. \/ \E c \in Checkout : CommitCheckout(c)
        \/ \E r \in ItemRequest : CommitItem(r)
        \/ \E f \in OfferRequest : CommitOffer(f)
        \/ \E f \in OfferRequest : CreateOffer(f)
        \/ Same
    BY <1>3, <1>4, <1>5, <1>6, <1>7, <1>8 DEF Next
  <1> QED
    BY <1>9 DEF Same

LEMMA InitHistory == Init => NoOrphanItem /\ RestockInv
  BY DEF Init, NoOrphanItem, RestockInv, Exists

LEMMA NoOrphanStep == IInv /\ NoOrphanItem /\ [Next]_vars => NoOrphanItem'
  <1> SUFFICES ASSUME IInv, NoOrphanItem, [Next]_vars, NEW i \in Item, Exists(i)'
               PROVE  offerState'[OfferOf(i)'] = "live"
    BY DEF NoOrphanItem
  <1>1. ASSUME NEW c \in Checkout, CommitCheckout(c)
        PROVE  offerState'[OfferOf(i)'] = "live"
    <2>1. cart' = cart /\ offerState' = offerState
      BY <1>1 DEF CommitCheckout
    <2>2. CASE i[1] = c /\ i[2] <= Len(cart[c])
      <3>1. /\ cart[c] \in Cart /\ i[2] \in 1 .. Len(cart[c])
            /\ \A n \in 1 .. (line[c] - 1) : Held(c, n)
            /\ line[c] = Len(cart[c]) + 1
        BY <1>1, <2>2, OrdersAssumption
        DEF CommitCheckout, IInv, SessionInv, CheckoutOK, Item, OrdersAssumption, CartAssumption
      <3>2. Held(c, i[2])
        BY <3>1, OrdersAssumption DEF OrdersAssumption, CartAssumption
      <3> QED
        BY <2>1, <2>2, <3>2 DEF Held, Sellable, OfferOf
    <2>3. CASE ~(i[1] = c /\ i[2] <= Len(cart[c]))
      BY <1>1, <2>1, <2>3 DEF CommitCheckout, Exists, NoOrphanItem, OfferOf
    <2> QED
      BY <2>2, <2>3
  <1>2. ASSUME NEW r \in ItemRequest, CommitItem(r)
        PROVE  offerState'[OfferOf(i)'] = "live"
    <2>1. Exists(i)
      BY <1>2, ItemSession DEF CommitItem, Exists, IInv, TypeOK
    <2> QED
      BY <1>2, <2>1 DEF CommitItem, NoOrphanItem, OfferOf
  <1>3. ASSUME NEW f \in OfferRequest, CommitOffer(f)
        PROVE  offerState'[OfferOf(i)'] = "live"
    <2>1. Exists(i) /\ OfferOf(i)' = OfferOf(i)
      BY <1>3 DEF CommitOffer, Exists, OfferOf, orders
    <2>2. CASE edit[f].op = "delete"
      <3>1. References(edit[f].offer) = {}
        BY <1>3, <2>2 DEF CommitOffer, IInv, SessionInv, OfferOK
      <3>2. OfferOf(i) # edit[f].offer
        BY <2>1, <3>1 DEF References
      <3> QED
        BY <1>3, <2>1, <2>2, <3>2, ItemLine DEF CommitOffer, NoOrphanItem, IInv, TypeOK
    <2>3. CASE edit[f].op # "delete"
      BY <1>3, <2>1, <2>3 DEF CommitOffer, NoOrphanItem
    <2> QED
      BY <2>2, <2>3
  <1>4. ASSUME NEW f \in OfferRequest, CreateOffer(f)
        PROVE  offerState'[OfferOf(i)'] = "live"
    BY <1>4, ItemLine DEF CreateOffer, Exists, OfferOf, orders, NoOrphanItem, IInv, TypeOK
  <1>5. ASSUME UNCHANGED <<offers, status, paid, history>>,
               \A j \in Item : Exists(j) => OfferOf(j)' = OfferOf(j)
        PROVE  offerState'[OfferOf(i)'] = "live"
    BY <1>5 DEF offers, Exists, NoOrphanItem
  <1> QED
    BY <1>1, <1>2, <1>3, <1>4, <1>5, TableSteps

\* An order item never points to a deleted offer (the RESTRICT foreign key of
\* orders/models.py and the row locks of checkout and delete_offer).
THEOREM OffersOfItemsLive == Spec => []NoOrphanItem
  <1>1. Init => NoOrphanItem
    BY InitHistory
  <1>2. IInv /\ NoOrphanItem /\ [Next]_vars => NoOrphanItem'
    BY NoOrphanStep
  <1> QED
    BY <1>1, <1>2, Invariance, PTL DEF Spec

LEMMA RestockStep == IInv /\ RestockInv /\ [Next]_vars => RestockInv'
  <1> SUFFICES ASSUME IInv, RestockInv, [Next]_vars PROVE RestockInv'
    OBVIOUS
  <1>1. ASSUME NEW c \in Checkout, CommitCheckout(c) PROVE RestockInv'
    <2>1. moves' = moves /\ restored' = restored
      BY <1>1 DEF CommitCheckout, history
    <2>2. \A i \in Item : Exists(i) => i[1] # c
      BY <1>1 DEF CommitCheckout, IInv, ItemsInv
    <2>3. \A i \in Item : Exists(i) => status'[i] = status[i]
      BY <1>1, <2>2 DEF CommitCheckout
    <2> QED
      BY <2>1, <2>3 DEF RestockInv, Exists
  <1>2. ASSUME NEW r \in ItemRequest, CommitItem(r) PROVE RestockInv'
    <2> DEFINE i == req[r].item
               target == req[r].target
    <2>1. /\ i \in Item /\ ItemOK(r) /\ pc[r] = "commit"
          /\ target \in OrderItemStatus /\ status[i] \in OrderItemStatus
          /\ previous[r] = status[i]
      BY <1>2, ItemSession DEF CommitItem, ItemOK
    <2>2. /\ status' = [status EXCEPT ![i] = target]
          /\ moves' = [moves EXCEPT ![i] = @ \union {<<status[i], target>>}]
          /\ restored' = IF target = "cancelled" /\ RestoresStockOnCancel(status[i])
                           THEN [restored EXCEPT ![i] = @ + 1] ELSE restored
      BY <1>2, <2>1 DEF CommitItem
    <2>3. /\ status[i] # "cancelled"
          /\ target = "cancelled" => status[i] \in {"placed", "preparing", "in_transit"}
      BY <2>1 DEF ItemOK, CanCancel, ForwardTransition, FORWARD, BUYER_CANCEL_STATUSES,
                  SELLER_CANCEL_STATUSES
    <2>4. /\ \A m \in moves[i] : m[2] # "cancelled"
          /\ restored[i] = 0
      BY <2>1, <2>3 DEF RestockInv
    <2> HIDE DEF i, target
    <2>5. ASSUME NEW j \in Item, j # i
          PROVE  /\ moves'[j] = moves[j] /\ restored'[j] = restored[j]
                 /\ status'[j] = status[j]
      BY <2>1, <2>2, <2>5 DEF IInv, TypeOK
    <2>6. /\ moves'[i] = moves[i] \union {<<status[i], target>>}
          /\ restored'[i] = IF target = "cancelled" /\ RestoresStockOnCancel(status[i])
                              THEN 1 ELSE 0
          /\ status'[i] = target
      BY <2>1, <2>2, <2>4 DEF IInv, TypeOK
    <2>7. /\ restored'[i] = IF \E s \in {"placed", "preparing"} :
                                  <<s, "cancelled">> \in moves'[i] THEN 1 ELSE 0
          /\ \A m \in moves'[i] : m[2] = "cancelled" => status'[i] = "cancelled"
      BY <2>3, <2>4, <2>6 DEF RestoresStockOnCancel, STOCK_RESTORE_STATUSES
    <2>8. status'[i] # "none"
      BY <2>1, <2>6 DEF OrderItemStatus, OrderItemForwardStatus
    <2> QED
      BY <2>5, <2>7, <2>8 DEF RestockInv, Exists
  <1>3. ASSUME UNCHANGED <<status, moves, restored>> PROVE RestockInv'
    BY <1>3 DEF RestockInv, Exists
  <1>4. ASSUME NEW f \in OfferRequest, CommitOffer(f) \/ CreateOffer(f) PROVE RestockInv'
    BY <1>3, <1>4 DEF CommitOffer, CreateOffer, orders
  <1>5. UNCHANGED <<offers, status, paid, history>> => RestockInv'
    BY <1>3 DEF history
  <1> QED
    BY <1>1, <1>2, <1>4, <1>5, TableSteps

\* An item's units go back to stock at most once, and exactly when it was
\* cancelled before it left the store (orders/routes.py cancel_order_item).
THEOREM RestockedAtMostOnce == Spec => []RestockedOnce
  <1>1. Init => RestockInv
    BY InitHistory
  <1>2. IInv /\ RestockInv /\ [Next]_vars => RestockInv'
    BY RestockStep
  <1>3. RestockInv => RestockedOnce
    BY DEF RestockInv, RestockedOnce
  <1> QED
    BY <1>1, <1>2, <1>3, Invariance, PTL DEF Spec

-----------------------------------------------------------------------------
(***************************************************************************)
(* The requests implement the atomic store                                 *)
(***************************************************************************)

LEMMA InitBook == Init => Book!Init
  <1> SUFFICES ASSUME Init PROVE Book!Init
    OBVIOUS
  <1>1. stock \in [Offer -> Nat]
    BY InitIInv DEF IInv, TypeOK
  <1>2. placedOrder = [c \in Checkout |-> <<>>]
    BY DEF Init, placedOrder, Tx
  <1> QED
    BY <1>1, <1>2 DEF Init, Book!Init, Book!Item, Item

LEMMA PlaceStep ==
  ASSUME IInv, NEW c \in Checkout, CommitCheckout(c)
  PROVE  Book!Next
  <1> DEFINE lines == cart[c]
  <1>1. /\ pc[c] = "commit" /\ lines \in Cart /\ Len(lines) \in Nat
        /\ line[c] = Len(lines) + 1
        /\ \A n \in 1 .. (line[c] - 1) : Held(c, n)
    BY OrdersAssumption
    DEF CommitCheckout, IInv, SessionInv, CheckoutOK, OrdersAssumption, CartAssumption
  <1>2. \A o \in Offer : Book!Quantity(lines, o) = Units(lines, o)
    BY DEF Book!Quantity, Units
  <1>3. ASSUME NEW o \in Offer PROVE Units(lines, o) <= stock[o]
    <2>1. stock[o] \in Nat
      BY DEF IInv, TypeOK
    <2>2. CASE Units(lines, o) = 0
      BY <2>1, <2>2
    <2>3. CASE \E n \in 1 .. Len(lines) :
                 lines[n].offer = o /\ Units(lines, o) = lines[n].quantity
      BY <1>1, <2>1, <2>3 DEF Held, Sellable
    <2> QED
      BY <1>1, <2>2, <2>3, UnitsOfLine
  <1>4. placedOrder[c] = <<>>
    BY <1>1 DEF placedOrder
  <1>5. placedOrder' = [placedOrder EXCEPT ![c] = lines]
    <2>1. /\ cart' = cart /\ pc'[c] = "publish"
          /\ \A u \in Checkout : u # c => pc'[u] = pc[u]
      BY DEF CommitCheckout, IInv, TypeOK, Tx
    <2> QED
      BY <2>1 DEF placedOrder
  <1>6. stock' = [o \in Offer |-> stock[o] - Book!Quantity(lines, o)]
    BY <1>2 DEF CommitCheckout
  <1>7. status' = [i \in Book!Item |-> IF i[1] = c /\ i[2] <= Len(lines)
                                         THEN "placed" ELSE status[i]]
    BY DEF CommitCheckout, Book!Item, Item, Placed
  <1>8. Book!Place(c, lines)
    BY <1>2, <1>3, <1>4, <1>5, <1>6, <1>7 DEF Book!Place
  <1> QED
    BY <1>1, <1>8 DEF Book!Next

LEMMA ItemStepRefines ==
  ASSUME IInv, NEW r \in ItemRequest, CommitItem(r)
  PROVE  Book!Next
  <1> DEFINE i == req[r].item
             target == req[r].target
  <1>1. /\ i \in Item /\ i \in Book!Item /\ Exists(i) /\ ItemOK(r) /\ pc[r] = "commit"
        /\ req[r] \in ItemRequestPayload /\ r \in Tx
        /\ previous[r] = status[i]
    BY ItemSession DEF CommitItem, ItemOK, Item, Book!Item
  <1>2. placedOrder' = placedOrder
    BY <1>1, Kinds DEF CommitItem, IInv, TypeOK, placedOrder, Tx
  <1>3. placedOrder[i[1]][i[2]] = cart[i[1]][i[2]]
    BY <1>1, ItemLine DEF placedOrder
  <1>4. status' = [status EXCEPT ![i] = target]
    BY DEF CommitItem
  <1>5. CASE target = "cancelled"
    <2>1. CanCancel(status[i], req[r].role)
      BY <1>1, <1>5 DEF ItemOK
    <2>2. stock' = IF status[i] \in {"placed", "preparing"}
                     THEN [stock EXCEPT ![OfferOf(i)] = @ + QuantityOf(i)] ELSE stock
      BY <1>1, <1>5 DEF CommitItem, RestoresStockOnCancel, STOCK_RESTORE_STATUSES
    <2>3. Book!Cancel(i)
      BY <1>2, <1>3, <1>4, <1>5, <2>1, <2>2
      DEF Book!Cancel, Book!Cancellable, Book!Restocked, CanCancel,
          BUYER_CANCEL_STATUSES, SELLER_CANCEL_STATUSES, OfferOf, QuantityOf
    <2> QED
      BY <1>1, <2>3 DEF Book!Next
  <1>6. CASE target # "cancelled"
    <2>1. ForwardTransition(status[i], target)
      BY <1>1, <1>6 DEF ItemOK
    <2>2. <<status[i], target>> \in Book!Forward
      BY <2>1 DEF ForwardTransition, FORWARD, Book!Forward
    <2>3. target \in {"preparing", "in_transit", "delivered"}
      BY <2>2 DEF Book!Forward
    <2>4. stock' = stock
      BY <1>6 DEF CommitItem
    <2>5. Book!Advance(i, target)
      BY <1>2, <1>4, <2>2, <2>4 DEF Book!Advance
    <2> QED
      BY <1>1, <2>3, <2>5 DEF Book!Next
  <1> QED
    BY <1>5, <1>6

LEMMA RestockStepRefines ==
  ASSUME IInv, IInv', NEW f \in OfferRequest, CommitOffer(f) \/ CreateOffer(f)
  PROVE  Book!Next \/ UNCHANGED Book!vars
  <1>1. placedOrder' = placedOrder /\ status' = status
    <2>1. f \in Tx /\ f \notin Checkout
      BY Kinds DEF Tx
    <2>2. \A c \in Checkout : pc'[c] = pc[c]
      BY <2>1 DEF CommitOffer, CreateOffer, IInv, TypeOK, Tx
    <2> QED
      BY <2>2 DEF CommitOffer, CreateOffer, orders, placedOrder
  <1>2. stock' = stock \/ \E o \in Offer : stock' = [stock EXCEPT ![o] = stock'[o]]
    <2>1. CASE CreateOffer(f)
      BY ZenonT(60), <2>1 DEF CreateOffer, IInv, TypeOK
    <2>2. CASE CommitOffer(f) /\ edit[f].op = "delete"
      BY <2>2 DEF CommitOffer
    <2>3. CASE CommitOffer(f) /\ edit[f].op # "delete"
      <3>1. edit[f].offer \in Offer
        BY <2>3 DEF CommitOffer, IInv, SessionInv, OfferOK, OfferEdit
      <3> QED
        <4> DEFINE o == edit[f].offer
                   units == Written(edit[f].stock, stock[o])
        <4>1. stock' = [stock EXCEPT ![o] = units]
          BY <2>3 DEF CommitOffer
        <4> HIDE DEF o, units
        <4>2. stock' = [stock EXCEPT ![o] = stock'[o]]
          BY <3>1, <4>1 DEF IInv, TypeOK, o
        <4> QED
          BY <3>1, <4>2 DEF o
    <2> QED
      BY <2>1, <2>2, <2>3
  <1>3. \A o \in Offer : stock'[o] \in Nat
    BY DEF IInv, TypeOK
  <1> QED
    BY <1>1, <1>2, <1>3 DEF Book!Next, Book!Restock, Book!vars

\* Every interleaving of the requests' statements is a history of the atomic
\* store of OrderBook: a request takes effect at its commit (database.py
\* session_transaction) or not at all.
THEOREM ImplementsOrderBook == Spec => RefinesOrderBook
  <1>1. Init => Book!Init
    BY InitBook
  <1>2. IInv /\ IInv' /\ [Next]_vars => [Book!Next]_(Book!vars)
    <2> SUFFICES ASSUME IInv, IInv', [Next]_vars
                 PROVE  Book!Next \/ UNCHANGED Book!vars
      OBVIOUS
    <2>1. UNCHANGED <<offers, status, paid, history>> /\ placedOrder' = placedOrder
            => UNCHANGED Book!vars
      BY DEF offers, Book!vars
    <2> QED
      BY <2>1, TableSteps, PlaceStep, ItemStepRefines, RestockStepRefines
  <1> QED
    BY <1>1, <1>2, Invariance, PTL DEF Spec, RefinesOrderBook, Book!Spec

-----------------------------------------------------------------------------
(***************************************************************************)
(* What subscribers are told                                               *)
(***************************************************************************)

\* What an event says is so, and is not undone: the change is in the item's
\* history, a cancelled item stays cancelled, an order stays placed.
Fact(e) ==
  /\ e.type = "OrderItemStatusChanged" => <<e.from, e.to>> \in moves[e.item]
  /\ e.type = "OrderItemCancelled" =>
       /\ status[e.item] = "cancelled"
       /\ e.restored <=> restored[e.item] = 1
  /\ e.type = "OrderCreated" => <<e.order, 1>> \in Item /\ Exists(<<e.order, 1>>)

OrderCreated(c) == [type |-> "OrderCreated", order |-> c]

\* The events a request has recorded: none until it is about to commit, then
\* those of its own change, which are facts as soon as it has committed.
RecordedOK(t) ==
  /\ pending[t] \subseteq Event
  /\ t \in OfferRequest \/ pc[t] \notin {"commit", "publish"} => pending[t] = {}
  /\ t \in Checkout /\ pc[t] = "commit" => pending[t] = {OrderCreated(t)}
  /\ t \in ItemRequest /\ pc[t] = "commit" =>
       \A e \in pending[t] :
         \/ e = StatusChanged(t)
         \/ e = Cancelled(t) /\ req[t].target = "cancelled"
  /\ pc[t] = "publish" => \A e \in pending[t] : Fact(e)

EventInv ==
  /\ \A t \in Tx : RecordedOK(t)
  /\ published \subseteq Event
  /\ \A e \in published : Fact(e)

LEMMA InitEvents == Init => EventInv
  BY DEF Init, EventInv, RecordedOK

\* No step takes back what an event has said: the history of an item only
\* grows, and no status follows "cancelled".
LEMMA FactStays ==
  ASSUME IInv, [Next]_vars, NEW e \in Event, Fact(e)
  PROVE  Fact(e)'
  <1>1. /\ e.type = "OrderItemStatusChanged" => e.item \in Item
        /\ e.type = "OrderItemCancelled" => e.item \in Item
    BY DEF Event
  <1>2. ASSUME \A i \in Item : /\ moves[i] \subseteq moves'[i]
                               /\ status[i] = "cancelled" =>
                                    status'[i] = "cancelled" /\ restored'[i] = restored[i]
                               /\ Exists(i) => Exists(i)'
        PROVE  Fact(e)'
    BY <1>1, <1>2 DEF Fact
  <1>3. ASSUME NEW c \in Checkout, CommitCheckout(c) PROVE Fact(e)'
    <2>1. moves' = moves /\ restored' = restored
      BY <1>3 DEF CommitCheckout, history
    <2>2. \A i \in Item : Exists(i) => i[1] # c
      BY <1>3 DEF CommitCheckout, IInv, ItemsInv
    <2>3. \A i \in Item : Exists(i) => status'[i] = status[i]
      BY <1>3, <2>2 DEF CommitCheckout
    <2> QED
      BY <1>2, <2>1, <2>3 DEF Exists
  <1>4. ASSUME NEW r \in ItemRequest, CommitItem(r) PROVE Fact(e)'
    <2>1. /\ req[r].item \in Item /\ status[req[r].item] # "cancelled"
          /\ req[r].target \in OrderItemStatus
      BY <1>4, ItemSession
      DEF CommitItem, ItemOK, CanCancel, ForwardTransition, FORWARD, BUYER_CANCEL_STATUSES,
          SELLER_CANCEL_STATUSES
    <2> DEFINE i == req[r].item
               target == req[r].target
    <2>2. /\ status' = [status EXCEPT ![i] = target]
          /\ moves' = [moves EXCEPT ![i] = @ \union {<<status[i], target>>}]
          /\ \/ restored' = [restored EXCEPT ![i] = @ + 1]
             \/ restored' = restored
      BY <1>4 DEF CommitItem
    <2> HIDE DEF i, target
    <2>3. \A j \in Item : moves[j] \subseteq moves'[j]
      BY <2>2 DEF IInv, TypeOK
    <2>4. \A j \in Item : j # i => status'[j] = status[j] /\ restored'[j] = restored[j]
      BY <2>2 DEF IInv, TypeOK
    <2>5. status'[i] # "none"
      BY <2>1, <2>2 DEF IInv, TypeOK, i, target, OrderItemStatus, OrderItemForwardStatus
    <2> QED
      BY <1>2, <2>1, <2>3, <2>4, <2>5 DEF Exists, i
  <1>5. ASSUME UNCHANGED <<status, moves, restored>> PROVE Fact(e)'
    BY <1>2, <1>5 DEF Exists
  <1>6. ASSUME NEW f \in OfferRequest, CommitOffer(f) \/ CreateOffer(f) PROVE Fact(e)'
    BY <1>5, <1>6 DEF CommitOffer, CreateOffer, orders
  <1>7. UNCHANGED <<offers, status, paid, history>> => Fact(e)'
    BY <1>5 DEF history
  <1> QED
    BY <1>3, <1>4, <1>6, <1>7, TableSteps

\* A request's own events become facts with its commit.
LEMMA CheckoutTold ==
  ASSUME IInv, EventInv, NEW c \in Checkout, CommitCheckout(c)
  PROVE  \A e \in pending[c] : Fact(e)'
  <1>1. c \in Tx /\ pc[c] = "commit" /\ CheckoutOK(c) /\ RecordedOK(c)
    BY DEF CommitCheckout, IInv, SessionInv, EventInv, Tx
  <1>2. cart[c] \in Cart /\ pending[c] = {OrderCreated(c)}
    BY <1>1 DEF CheckoutOK, RecordedOK
  <1>3. 1 <= Len(cart[c]) /\ 1 \in 1 .. MaxLines
    BY <1>2, OrdersAssumption DEF OrdersAssumption, CartAssumption
  <1>4. <<c, 1>> \in Item
    BY <1>3 DEF Item
  <1>5. status'[<<c, 1>>] = "placed"
    BY <1>3, <1>4 DEF CommitCheckout, Placed
  <1> QED
    BY <1>2, <1>4, <1>5 DEF Fact, OrderCreated, Exists

LEMMA ItemTold ==
  ASSUME IInv, RestockInv, EventInv, NEW r \in ItemRequest, CommitItem(r)
  PROVE  \A e \in pending[r] : Fact(e)'
  <1> DEFINE i == req[r].item
             target == req[r].target
  <1>1. /\ i \in Item /\ ItemOK(r) /\ pc[r] = "commit" /\ RecordedOK(r)
        /\ target \in OrderItemStatus /\ status[i] \in OrderItemStatus
        /\ previous[r] = status[i]
    BY ItemSession DEF CommitItem, ItemOK, EventInv, Tx
  <1>2. /\ status' = [status EXCEPT ![i] = target]
        /\ moves' = [moves EXCEPT ![i] = @ \union {<<status[i], target>>}]
        /\ restored' = IF target = "cancelled" /\ RestoresStockOnCancel(status[i])
                         THEN [restored EXCEPT ![i] = @ + 1] ELSE restored
    BY <1>1 DEF CommitItem
  <1>3. status[i] # "cancelled"
    BY <1>1 DEF ItemOK, CanCancel, ForwardTransition, FORWARD, BUYER_CANCEL_STATUSES,
                SELLER_CANCEL_STATUSES
  <1>4. restored[i] = 0
    BY <1>1, <1>3 DEF RestockInv
  <1>5. StatusChanged(r) = [type |-> "OrderItemStatusChanged", item |-> i,
                            from |-> status[i], to |-> target]
    BY <1>1 DEF StatusChanged
  <1>6. Cancelled(r) = [type |-> "OrderItemCancelled", item |-> i,
                        restored |-> RestoresStockOnCancel(status[i])]
    BY <1>1 DEF Cancelled
  <1>7. \A e \in pending[r] : e = StatusChanged(r) \/ (e = Cancelled(r) /\ target = "cancelled")
    BY <1>1 DEF RecordedOK
  <1> HIDE DEF i, target
  <1>8. /\ status'[i] = target /\ <<status[i], target>> \in moves'[i]
        /\ target = "cancelled" => (RestoresStockOnCancel(status[i]) <=> restored'[i] = 1)
    BY <1>1, <1>2, <1>4 DEF IInv, TypeOK
  <1>9. ASSUME NEW e \in pending[r], e = StatusChanged(r) PROVE Fact(e)'
    BY <1>1, <1>5, <1>8, <1>9 DEF Fact
  <1>10. ASSUME NEW e \in pending[r], e = Cancelled(r), target = "cancelled"
         PROVE  Fact(e)'
    BY <1>1, <1>6, <1>8, <1>10 DEF Fact
  <1> QED
    BY <1>7, <1>9, <1>10

\* The step of one request leaves what the others have recorded alone.
LEMMA RecordedFrame ==
  ASSUME IInv, EventInv, [Next]_vars, NEW u \in Tx,
         UNCHANGED <<pc[u], req[u], previous[u], pending[u]>>
  PROVE  RecordedOK(u)'
  <1>1. RecordedOK(u) /\ \A e \in Event : Fact(e) => Fact(e)'
    BY FactStays DEF EventInv
  <1>2. StatusChanged(u)' = StatusChanged(u) /\ Cancelled(u)' = Cancelled(u)
    BY DEF StatusChanged, Cancelled
  <1> QED
    BY <1>1, <1>2 DEF RecordedOK, OrderCreated

\* A step of t that publishes nothing: t's own events are left to check.
LEMMA OneRecorder ==
  ASSUME IInv, EventInv, [Next]_vars, NEW t \in Tx, published' = published,
         \A u \in Tx : u # t => UNCHANGED <<pc[u], req[u], previous[u], pending[u]>>,
         RecordedOK(t)'
  PROVE  EventInv'
  <1>1. \A u \in Tx : RecordedOK(u)'
    BY RecordedFrame
  <1>2. \A e \in published : Fact(e)'
    BY FactStays DEF EventInv
  <1> QED
    BY <1>1, <1>2 DEF EventInv

\* A step after which the request has recorded nothing.
LEMMA NothingRecorded ==
  ASSUME IInv, EventInv, [Next]_vars, NEW t \in Tx, published' = published,
         \A u \in Tx : u # t => UNCHANGED <<pc[u], req[u], previous[u], pending[u]>>,
         pending'[t] = {},
         t \in Checkout => pc'[t] # "commit"
  PROVE  EventInv'
  BY OneRecorder DEF RecordedOK

LEMMA RollbackEvents ==
  ASSUME IInv, EventInv, [Next]_vars, NEW t \in Tx, Rollback(t)
  PROVE  EventInv'
  <1>1. /\ published' = published /\ pending'[t] = {} /\ pc'[t] # "commit"
        /\ \A u \in Tx : u # t => UNCHANGED <<pc[u], req[u], previous[u], pending[u]>>
    BY DEF Rollback, CloseSession, Finished, IInv, TypeOK
  <1> QED
    BY <1>1, NothingRecorded

LEMMA CheckoutEvents ==
  ASSUME IInv, EventInv, [Next]_vars, NEW c \in Checkout, Submit(c) \/ CheckoutStep(c)
  PROVE  EventInv'
  <1> c \in Tx /\ RecordedOK(c)
    BY DEF Tx, EventInv
  <1>1. CASE Submit(c)
    BY <1>1, NothingRecorded DEF Submit, IInv, TypeOK, RecordedOK
  <1>2. CASE ValidateItem(c)
    <2>1. CASE Rollback(c)
      BY <2>1, RollbackEvents
    <2>2. CASE ~Rollback(c)
      <3>1. /\ pc[c] = "validate"
            /\ pc' = [pc EXCEPT ![c] = IF line[c] = Len(cart[c]) THEN "consume" ELSE @]
            /\ UNCHANGED <<req, previous, pending, published>>
        BY <1>2, <2>2 DEF ValidateItem
      <3> QED
        BY <3>1, NothingRecorded DEF IInv, TypeOK, RecordedOK
    <2> QED
      BY <2>1, <2>2
  <1>3. CASE ConsumeStock(c)
    <2>1. /\ pc[c] = "consume" /\ UNCHANGED <<req, previous, published>>
          /\ \A u \in Tx : u # c => pc'[u] = pc[u] /\ pending'[u] = pending[u]
      BY <1>3 DEF ConsumeStock, IInv, TypeOK
    <2>2. CASE line[c] = Len(cart[c])
      <3>1. pc'[c] = "commit" /\ pending'[c] = {OrderCreated(c)}
        BY <1>3, <2>2 DEF ConsumeStock, IInv, TypeOK, OrderCreated
      <3>2. OrderCreated(c) \in Event
        BY DEF Event, OrderCreated
      <3> QED
        BY <2>1, <3>1, <3>2, OneRecorder, Kinds DEF RecordedOK, OrderCreated
    <2>3. CASE line[c] # Len(cart[c])
      <3>1. pc'[c] = "consume" /\ pending'[c] = {}
        BY <1>3, <2>1, <2>3 DEF ConsumeStock, IInv, TypeOK, RecordedOK
      <3> QED
        BY <2>1, <3>1, NothingRecorded
    <2> QED
      BY <2>2, <2>3
  <1>4. CASE RefuseStock(c)
    BY <1>4, RollbackEvents DEF RefuseStock
  <1>5. CASE CommitCheckout(c)
    <2>1. /\ pc'[c] = "publish" /\ pending' = pending /\ published' = published
          /\ \A u \in Tx : u # c => UNCHANGED <<pc[u], req[u], previous[u], pending[u]>>
      BY <1>5 DEF CommitCheckout, CloseSession, IInv, TypeOK
    <2>2. RecordedOK(c)'
      BY <1>5, <2>1, CheckoutTold, Kinds DEF RecordedOK
    <2> QED
      BY <2>1, <2>2, OneRecorder
  <1> QED
    BY <1>1, <1>2, <1>3, <1>4, <1>5 DEF CheckoutStep

LEMMA ItemEvents ==
  ASSUME IInv, RestockInv, EventInv, [Next]_vars, NEW r \in ItemRequest,
         Receive(r) \/ ItemStep(r)
  PROVE  EventInv'
  <1> r \in Tx /\ RecordedOK(r) /\ r \notin Checkout /\ r \notin OfferRequest
    BY Kinds DEF Tx, EventInv
  <1>1. CASE Receive(r)
    BY <1>1, NothingRecorded DEF Receive, IInv, TypeOK, RecordedOK
  <1>2. CASE LockRow(r)
    <2>1. /\ pc[r] = "lock" /\ UNCHANGED <<req, pending, published>>
          /\ \/ pc' = [pc EXCEPT ![r] = "decide"]
                /\ previous' = [previous EXCEPT ![r] = status[req[r].item]]
             \/ pc' = pc /\ previous' = previous
      BY <1>2 DEF LockRow
    <2> QED
      BY <2>1, NothingRecorded DEF IInv, TypeOK, RecordedOK
  <1>3. CASE AnswerUnchanged(r) \/ RefuseTransition(r)
    BY <1>3, RollbackEvents DEF AnswerUnchanged, RefuseTransition
  <1>4. CASE UpdateStatus(r)
    <2>1. /\ pc'[r] = "commit" /\ pending'[r] = {StatusChanged(r)}
          /\ UNCHANGED <<req, previous, published>>
          /\ \A u \in Tx : u # r => pc'[u] = pc[u] /\ pending'[u] = pending[u]
      BY <1>4 DEF UpdateStatus, sessions, IInv, TypeOK
    <2>2. StatusChanged(r)' = StatusChanged(r)
      BY <2>1 DEF StatusChanged
    <2>3. pending'[r] \subseteq Event
      BY <1>4, UpdateStatusIInv DEF IInv, TypeOK
    <2>4. RecordedOK(r)'
      BY <2>1, <2>2, <2>3 DEF RecordedOK
    <2> QED
      BY <2>1, <2>4, OneRecorder
  <1>5. CASE Cancel(r)
    <2>1. /\ pc'[r] = "commit" /\ pending'[r] = {Cancelled(r), StatusChanged(r)}
          /\ UNCHANGED <<req, previous, published>> /\ req[r].target = "cancelled"
          /\ \A u \in Tx : u # r => pc'[u] = pc[u] /\ pending'[u] = pending[u]
      BY <1>5 DEF Cancel, sessions, IInv, TypeOK
    <2>2. StatusChanged(r)' = StatusChanged(r) /\ Cancelled(r)' = Cancelled(r)
      BY <2>1 DEF StatusChanged, Cancelled
    <2>3. pending'[r] \subseteq Event
      BY <1>5, CancelIInv DEF IInv, TypeOK
    <2>4. RecordedOK(r)'
      BY <2>1, <2>2, <2>3 DEF RecordedOK
    <2> QED
      BY <2>1, <2>4, OneRecorder
  <1>6. CASE CommitItem(r)
    <2>1. /\ pc'[r] = "publish" /\ pending' = pending /\ published' = published
          /\ \A u \in Tx : u # r => UNCHANGED <<pc[u], req[u], previous[u], pending[u]>>
      BY <1>6 DEF CommitItem, CloseSession, IInv, TypeOK
    <2>2. RecordedOK(r)'
      BY <1>6, <2>1, ItemTold DEF RecordedOK
    <2> QED
      BY <2>1, <2>2, OneRecorder
  <1> QED
    BY <1>1, <1>2, <1>3, <1>4, <1>5, <1>6 DEF ItemStep

\* A request of the catalogue records nothing at all.
LEMMA OfferEvents ==
  ASSUME IInv, EventInv, [Next]_vars, NEW f \in OfferRequest,
         CreateOffer(f) \/ ReadForUpdate(f) \/ ReadForDelete(f) \/ OfferStep(f)
  PROVE  EventInv'
  <1> f \in Tx /\ RecordedOK(f) /\ f \notin Checkout
    BY Kinds DEF Tx, EventInv
  <1>1. pending[f] = {}
    BY DEF RecordedOK
  <1>2. ASSUME Rollback(f) PROVE EventInv'
    BY <1>2, RollbackEvents
  <1>3. ASSUME UNCHANGED <<req, previous, pending, published>>,
               \A u \in Tx : u # f => pc'[u] = pc[u]
        PROVE  EventInv'
    BY <1>1, <1>3, NothingRecorded
  <1>4. CASE CreateOffer(f) \/ ReadForUpdate(f) \/ ReadForDelete(f) \/ FlushUpdate(f)
    BY <1>3, <1>4
    DEF CreateOffer, ReadForUpdate, ReadForDelete, FlushUpdate, sessions, IInv, TypeOK
  <1>5. CASE FlushDelete(f)
    <2>1. \E where \in {"commit", "restrict"} : pc' = [pc EXCEPT ![f] = where]
      BY <1>5 DEF FlushDelete
    <2> QED
      BY <1>3, <1>5, <2>1 DEF FlushDelete, IInv, TypeOK
  <1>6. CASE FlushNothing(f) \/ RestrictDelete(f)
    BY <1>2, <1>6 DEF FlushNothing, RestrictDelete
  <1>7. CASE CommitOffer(f)
    <2>1. /\ pending' = pending /\ published' = published
          /\ \A u \in Tx : u # f => UNCHANGED <<pc[u], req[u], previous[u], pending[u]>>
      BY <1>7 DEF CommitOffer, CloseSession, IInv, TypeOK
    <2> QED
      BY <1>1, <2>1, NothingRecorded
  <1> QED
    BY <1>4, <1>5, <1>6, <1>7 DEF OfferStep

LEMMA EventStep == IInv /\ RestockInv /\ EventInv /\ [Next]_vars => EventInv'
  <1> SUFFICES ASSUME IInv, RestockInv, EventInv, [Next]_vars PROVE EventInv'
    OBVIOUS
  <1>1. ASSUME NEW t \in Tx, Publish(t) PROVE EventInv'
    <2>1. /\ RecordedOK(t) /\ published' = pending[t] /\ pending'[t] = {}
          /\ pc'[t] # "commit" /\ pc[t] = "publish"
          /\ \A u \in Tx : u # t => UNCHANGED <<pc[u], req[u], previous[u], pending[u]>>
      BY <1>1 DEF Publish, sessions, Finished, EventInv, IInv, TypeOK
    <2>2. RecordedOK(t)'
      BY <2>1 DEF RecordedOK
    <2>3. \A u \in Tx : RecordedOK(u)'
      BY <2>1, <2>2, RecordedFrame
    <2>4. published' \subseteq Event /\ \A e \in published' : Fact(e)'
      BY <2>1, FactStays DEF RecordedOK
    <2> QED
      BY <2>3, <2>4 DEF EventInv
  <1>2. ASSUME NEW t \in Tx, LoseEvents(t) PROVE EventInv'
    BY <1>2, NothingRecorded DEF LoseEvents, sessions, Finished, IInv, TypeOK
  <1>3. ASSUME NEW t \in Tx, Abort(t) \/ DeadlockVictim(t) PROVE EventInv'
    BY <1>3, RollbackEvents DEF Abort, DeadlockVictim
  <1>4. ASSUME UNCHANGED vars PROVE EventInv'
    <2>1. UNCHANGED <<pc, req, previous, pending, published>>
      BY <1>4 DEF vars, sessions
    <2>2. \A u \in Tx : RecordedOK(u)'
      BY <2>1, RecordedFrame
    <2>3. \A e \in published : Fact(e)'
      BY FactStays DEF EventInv
    <2> QED
      BY <2>1, <2>2, <2>3 DEF EventInv
  <1>5. ASSUME NEW t, ItemNotFound(t) \/ OfferNotFound(t) PROVE EventInv'
    BY <1>4, <1>5 DEF ItemNotFound, OfferNotFound
  <1> QED
    BY <1>1, <1>2, <1>3, <1>4, <1>5, CheckoutEvents, ItemEvents, OfferEvents DEF Next

\* What subscribers of the order events are told is so: an event is recorded
\* before the commit and published after it, and a rollback discards it
\* (core/events.py, orders/routes.py cancel_order_item).
THEOREM EventsToldAreTrue == Spec => []EventsAreTrue
  <1>1. Init => RestockInv /\ EventInv
    BY InitHistory, InitEvents
  <1>2. IInv /\ RestockInv /\ EventInv /\ [Next]_vars => RestockInv' /\ EventInv'
    BY RestockStep, EventStep
  <1>3. EventInv => EventsAreTrue
    BY DEF EventInv, Fact, EventsAreTrue
  <1> QED
    BY <1>1, <1>2, <1>3, Invariance, PTL DEF Spec

-----------------------------------------------------------------------------
(***************************************************************************)
(* Deadlock                                                                *)
(***************************************************************************)

\* What a request that has not reached its last statement may hold: a thread
\* that loads an item takes the item's row first, then the row it is joined
\* with; a checkout validates, and an edit reads, without a lock.
HoldsOK(t) ==
  /\ \A row \in Row : lock[row] = t =>
       /\ pc[t] \notin {"idle", "validate", "flush", "publish", "done"}
       /\ pc[t] = "lock" => line[t] = 2 /\ row[1] = "item"
       /\ pc[t] = "decide" /\ req[t].role = "buyer" => row[1] \in {"item", "order"}
  /\ pc[t] = "decide" /\ req[t].role = "seller" =>
       lock[OfferRow(OfferOf(req[t].item))] = t

LockInv == \A t \in Tx : HoldsOK(t)

LEMMA InitLocks == Init => LockInv
  BY Kinds DEF Init, LockInv, HoldsOK

\* The locks of u and where it is are those of the previous state.
SameLocks(u) ==
  /\ pc'[u] = pc[u] /\ line'[u] = line[u] /\ req'[u] = req[u]
  /\ \A row \in Row : lock'[row] = u <=> lock[row] = u

\* Items stay what they are while the step of another request ends.
LEMMA HoldsFrame ==
  ASSUME IInv, LockInv, NEW u \in Tx, SameLocks(u),
         \A i \in Item : Exists(i) => OfferOf(i)' = OfferOf(i)
  PROVE  HoldsOK(u)'
  <1>1. HoldsOK(u)
    BY DEF LockInv
  <1>2. CASE pc[u] = "decide"
    <2>1. u \in ItemRequest
      BY <1>2 DEF IInv, PcInv, Tx
    <2> DEFINE i == req[u].item
    <2>2. i \in Item /\ Exists(i) /\ OfferRow(OfferOf(i)) \in Row
      BY <1>2, <2>1, ItemSession, ItemLine
    <2>3. OfferOf(i)' = OfferOf(i)
      BY <2>2, <1>2 DEF SameLocks, OfferOf
    <2>4. OfferRow(OfferOf(i))' = OfferRow(OfferOf(i))
      BY <2>3 DEF OfferRow
    <2> QED
      BY <1>1, <1>2, <2>2, <2>4 DEF HoldsOK, SameLocks
  <1>3. CASE pc[u] # "decide"
    BY <1>1, <1>3 DEF HoldsOK, SameLocks
  <1> QED
    BY <1>2, <1>3

\* So for a step of t only t's own locks are left to check.
LEMMA OneHolder ==
  ASSUME IInv, LockInv, NEW t \in Tx, \A u \in Tx : u # t => SameLocks(u),
         \A i \in Item : Exists(i) => OfferOf(i)' = OfferOf(i),
         HoldsOK(t)'
  PROVE  LockInv'
  BY HoldsFrame DEF LockInv

\* A lock that is granted changes hands from nobody to t.
LEMMA GrantedTo ==
  ASSUME IInv, NEW t \in Tx, NEW granted, Lock(t, granted)
  PROVE  /\ \A u \in Tx : u # t => \A row \in Row : lock'[row] = u <=> lock[row] = u
         /\ \A row \in Row : lock'[row] = t <=> lock[row] = t \/ row = granted
  BY Kinds DEF IInv, TypeOK, Lock

LEMMA Released ==
  ASSUME IInv, NEW t \in Tx, ReleaseLocks(t)
  PROVE  /\ \A u \in Tx : u # t => \A row \in Row : lock'[row] = u <=> lock[row] = u
         /\ \A row \in Row : lock'[row] # t
  BY Kinds DEF IInv, TypeOK, ReleaseLocks

LEMMA ReleasedHolder ==
  ASSUME IInv, LockInv, NEW t \in Tx, ReleaseLocks(t), pc'[t] # "decide",
         \A u \in Tx : u # t => UNCHANGED <<pc[u], line[u], req[u]>>,
         \A i \in Item : Exists(i) => OfferOf(i)' = OfferOf(i)
  PROVE  LockInv'
  <1>1. \A u \in Tx : u # t => SameLocks(u)
    BY Released DEF SameLocks
  <1>2. HoldsOK(t)'
    BY Released DEF HoldsOK
  <1> QED
    BY <1>1, <1>2, OneHolder

\* The step of a request that takes no lock.
LEMMA NoLockTaken ==
  ASSUME IInv, LockInv, NEW t \in Tx, lock' = lock,
         \A u \in Tx : u # t => UNCHANGED <<pc[u], line[u], req[u]>>,
         \A i \in Item : Exists(i) => OfferOf(i)' = OfferOf(i),
         \/ pc[t] \in {"idle", "validate", "flush"} /\ pc'[t] # "decide"
         \/ pc[t] \notin {"idle", "validate", "flush", "publish", "done"}
               /\ pc'[t] \in {"consume", "commit", "restrict"}
         \/ pc[t] \in {"publish", "done"} /\ pc'[t] # "decide"
  PROVE  LockInv'
  <1>1. \A u \in Tx : u # t => SameLocks(u)
    BY DEF SameLocks
  <1>2. HoldsOK(t)'
    BY DEF LockInv, HoldsOK
  <1> QED
    BY <1>1, <1>2, OneHolder

LEMMA RollbackLocks ==
  ASSUME IInv, LockInv, NEW t \in Tx, Rollback(t),
         \A i \in Item : Exists(i) => OfferOf(i)' = OfferOf(i)
  PROVE  LockInv'
  <1>1. /\ ReleaseLocks(t) /\ pc'[t] # "decide"
        /\ \A u \in Tx : u # t => UNCHANGED <<pc[u], line[u], req[u]>>
    BY DEF Rollback, CloseSession, Finished, IInv, TypeOK
  <1> QED
    BY <1>1, ReleasedHolder

\* The lines of an item that exists never change (TableSteps).
LEMMA LinesStay ==
  ASSUME IInv, [Next]_vars
  PROVE  \A i \in Item : Exists(i) => OfferOf(i)' = OfferOf(i)
  <1>1. cart' = cart => \A i \in Item : OfferOf(i)' = OfferOf(i)
    BY DEF OfferOf
  <1> QED
    BY <1>1, TableSteps DEF CommitCheckout, CommitItem, CommitOffer, CreateOffer, orders

LEMMA CheckoutLocks ==
  ASSUME IInv, LockInv, [Next]_vars, NEW c \in Checkout, Submit(c) \/ CheckoutStep(c)
  PROVE  LockInv'
  <1> c \in Tx
    BY DEF Tx
  <1>1. \A i \in Item : Exists(i) => OfferOf(i)' = OfferOf(i)
    BY LinesStay
  <1>2. CASE Submit(c)
    BY <1>1, <1>2, NoLockTaken DEF Submit, IInv, TypeOK
  <1>3. CASE ValidateItem(c)
    <2>1. CASE Rollback(c)
      BY <1>1, <2>1, RollbackLocks
    <2>2. CASE ~Rollback(c)
      <3>1. /\ pc[c] = "validate" /\ UNCHANGED <<lock, req>>
            /\ pc' = [pc EXCEPT ![c] = IF line[c] = Len(cart[c]) THEN "consume" ELSE @]
            /\ line' = [line EXCEPT ![c] = IF line[c] = Len(cart[c]) THEN 1 ELSE @ + 1]
        BY <1>3, <2>2 DEF ValidateItem
      <3> QED
        BY <1>1, <3>1, NoLockTaken DEF IInv, TypeOK
    <2> QED
      BY <2>1, <2>2
  <1>4. CASE ConsumeStock(c)
    <2>1. /\ Lock(c, OfferRow(cart[c][line[c]].offer)) /\ pc[c] = "consume"
          /\ pc'[c] \in {"consume", "commit"}
          /\ \A u \in Tx : u # c => UNCHANGED <<pc[u], line[u], req[u]>>
      BY <1>4 DEF ConsumeStock, IInv, TypeOK
    <2>2. \A u \in Tx : u # c => SameLocks(u)
      BY <2>1, GrantedTo DEF SameLocks
    <2>3. HoldsOK(c)'
      BY <2>1 DEF HoldsOK
    <2> QED
      BY <1>1, <2>2, <2>3, OneHolder
  <1>5. CASE RefuseStock(c)
    BY <1>1, <1>5, RollbackLocks DEF RefuseStock
  <1>6. CASE CommitCheckout(c)
    BY <1>1, <1>6, ReleasedHolder DEF CommitCheckout, CloseSession, IInv, TypeOK
  <1> QED
    BY <1>2, <1>3, <1>4, <1>5, <1>6 DEF CheckoutStep

LEMMA ItemLocks ==
  ASSUME IInv, LockInv, [Next]_vars, NEW r \in ItemRequest, Receive(r) \/ ItemStep(r)
  PROVE  LockInv'
  <1> r \in Tx /\ HoldsOK(r)
    BY DEF Tx, LockInv
  <1>1. \A i \in Item : Exists(i) => OfferOf(i)' = OfferOf(i)
    BY LinesStay
  <1>2. CASE Receive(r)
    BY <1>1, <1>2, NoLockTaken DEF Receive, IInv, TypeOK
  <1>3. CASE LockRow(r)
    <2> DEFINE payload == req[r]
               row == LockRows(payload)[line[r]]
    <2>1. /\ pc[r] = "lock" /\ Lock(r, row) /\ req' = req /\ cart' = cart
          /\ line[r] \in 1 .. 2 /\ payload.role \in {"buyer", "seller"}
          /\ line'[r] = line[r] + 1
          /\ IF line[r] = 2 THEN pc' = [pc EXCEPT ![r] = "decide"] ELSE pc' = pc
          /\ \A u \in Tx : u # r => line'[u] = line[u]
      BY <1>3, ItemSession
      DEF LockRow, LockRows, orders, ItemOK, ItemRequestPayload, IInv, TypeOK
    <2>2. \A u \in Tx : u # r => SameLocks(u)
      BY <2>1, GrantedTo DEF SameLocks, IInv, TypeOK
    <2>3. Exists(payload.item) /\ payload.item \in Item
      BY <2>1, ItemSession
    <2>4. OfferRow(OfferOf(payload.item)) \in Row
      BY <2>3, ItemLine
    <2>5. OfferOf(payload.item)' = OfferOf(payload.item)
      BY <2>1 DEF OfferOf
    <2>6. CASE line[r] = 1
      <3>1. row = ItemRow(payload.item) /\ row[1] = "item"
        BY <2>6 DEF LockRows, ItemRow
      <3>2. \A other \in Row : lock'[other] = r => other = row
        BY <2>1, <2>6, GrantedTo DEF HoldsOK
      <3> HIDE DEF row
      <3>3. HoldsOK(r)'
        BY <2>1, <2>6, <3>1, <3>2 DEF HoldsOK
      <3> QED
        BY <1>1, <2>2, <3>3, OneHolder
    <2>7. CASE line[r] = 2
      <3>1. row = IF payload.role = "seller" THEN OfferRow(OfferOf(payload.item))
                                            ELSE OrderRow(payload.item[1])
        BY <2>7 DEF LockRows
      <3>2. \A other \in Row : lock'[other] = r => other = row \/ other[1] = "item"
        BY <2>1, <2>7, GrantedTo DEF HoldsOK
      <3>3. payload.role = "buyer" => row[1] = "order"
        BY <3>1 DEF OrderRow
      <3>4. payload.role = "seller" => lock'[OfferRow(OfferOf(payload.item))] = r
        BY <2>1, <2>4, <3>1, GrantedTo
      <3>5. pc'[r] = "decide"
        BY <2>1, <2>7 DEF IInv, TypeOK
      <3> HIDE DEF row
      <3>6. HoldsOK(r)'
        BY <2>1, <2>5, <3>2, <3>3, <3>4, <3>5 DEF HoldsOK, OfferRow
      <3> QED
        BY <1>1, <2>2, <3>6, OneHolder
    <2> QED
      BY <2>1, <2>6, <2>7
  <1>4. CASE AnswerUnchanged(r) \/ RefuseTransition(r)
    BY <1>1, <1>4, RollbackLocks DEF AnswerUnchanged, RefuseTransition
  <1>5. CASE UpdateStatus(r)
    BY <1>1, <1>5, NoLockTaken DEF UpdateStatus, sessions, IInv, TypeOK
  <1>6. CASE Cancel(r)
    <2>1. /\ pc'[r] = "commit"
          /\ \A u \in Tx : u # r => UNCHANGED <<pc[u], line[u], req[u]>>
          /\ lock' = lock \/ Lock(r, OfferRow(OfferOf(req[r].item)))
      BY <1>6 DEF Cancel, sessions, IInv, TypeOK
    <2>2. \A u \in Tx : u # r => SameLocks(u)
      BY <2>1, GrantedTo DEF SameLocks
    <2>3. HoldsOK(r)'
      BY <2>1 DEF HoldsOK
    <2> QED
      BY <1>1, <2>2, <2>3, OneHolder
  <1>7. CASE CommitItem(r)
    BY <1>1, <1>7, ReleasedHolder DEF CommitItem, CloseSession, IInv, TypeOK
  <1> QED
    BY <1>2, <1>3, <1>4, <1>5, <1>6, <1>7 DEF ItemStep

LEMMA OfferLocks ==
  ASSUME IInv, LockInv, [Next]_vars, NEW f \in OfferRequest,
         CreateOffer(f) \/ ReadForUpdate(f) \/ ReadForDelete(f) \/ OfferStep(f)
  PROVE  LockInv'
  <1> f \in Tx
    BY DEF Tx
  <1>1. \A i \in Item : Exists(i) => OfferOf(i)' = OfferOf(i)
    BY LinesStay
  <1>2. CASE CreateOffer(f) \/ ReadForUpdate(f) \/ ReadForDelete(f)
    BY <1>1, <1>2, NoLockTaken
    DEF CreateOffer, ReadForUpdate, ReadForDelete, sessions, IInv, TypeOK
  <1>3. CASE FlushNothing(f) \/ RestrictDelete(f)
    BY <1>1, <1>3, RollbackLocks DEF FlushNothing, RestrictDelete
  <1>4. CASE FlushUpdate(f) \/ FlushDelete(f)
    <2>1. /\ Lock(f, OfferRow(edit[f].offer)) /\ UNCHANGED <<line, req>>
          /\ \E where \in {"commit", "restrict"} : pc' = [pc EXCEPT ![f] = where]
      BY <1>4 DEF FlushUpdate, FlushDelete, sessions
    <2>2. \A u \in Tx : u # f => SameLocks(u)
      BY <2>1, GrantedTo DEF SameLocks, IInv, TypeOK
    <2>3. HoldsOK(f)'
      BY <2>1 DEF HoldsOK, IInv, TypeOK
    <2> QED
      BY <1>1, <2>2, <2>3, OneHolder
  <1>5. CASE CommitOffer(f)
    BY <1>1, <1>5, ReleasedHolder DEF CommitOffer, CloseSession, IInv, TypeOK
  <1> QED
    BY <1>2, <1>3, <1>4, <1>5 DEF OfferStep

LEMMA LockStep == IInv /\ LockInv /\ [Next]_vars => LockInv'
  <1> SUFFICES ASSUME IInv, LockInv, [Next]_vars PROVE LockInv'
    OBVIOUS
  <1>1. \A i \in Item : Exists(i) => OfferOf(i)' = OfferOf(i)
    BY LinesStay
  <1>2. ASSUME NEW t \in Tx, Publish(t) \/ LoseEvents(t) PROVE LockInv'
    BY <1>1, <1>2, NoLockTaken DEF Publish, LoseEvents, sessions, Finished, IInv, TypeOK
  <1>3. ASSUME NEW t \in Tx, Abort(t) \/ DeadlockVictim(t) PROVE LockInv'
    BY <1>1, <1>3, RollbackLocks DEF Abort, DeadlockVictim
  <1>4. ASSUME UNCHANGED vars PROVE LockInv'
    <2>1. \A u \in Tx : SameLocks(u)
      BY <1>4 DEF vars, sessions, SameLocks
    <2> QED
      BY <1>1, <2>1, HoldsFrame DEF LockInv
  <1>5. ASSUME NEW t, ItemNotFound(t) \/ OfferNotFound(t) PROVE LockInv'
    BY <1>4, <1>5 DEF ItemNotFound, OfferNotFound
  <1> QED
    BY <1>2, <1>3, <1>4, <1>5, CheckoutLocks, ItemLocks, OfferLocks DEF Next

\* Who waits for a row of which table: an item's row is waited for by a thread
\* that holds nothing yet or by the check of a deletion, an order's row by a
\* thread that holds its item.
LEMMA WaitsFor ==
  ASSUME IInv, NEW t \in Tx, NEW row \in NextRow(t)
  PROVE  /\ NextRow(t) = {row}
         /\ pc[t] \in {"consume", "lock", "decide", "flush", "restrict"}
         /\ pc[t] = "decide" => row = OfferRow(OfferOf(req[t].item))
         /\ row[1] = "item" => pc[t] = "restrict" \/ (pc[t] = "lock" /\ line[t] = 1)
         /\ row[1] = "order" => pc[t] = "lock" /\ line[t] = 2
  <1>1. pc[t] = "lock" => t \in ItemRequest /\ line[t] \in 1 .. 2
    BY DEF IInv, PcInv, SessionInv, ItemOK, Tx
  <1>2. CASE pc[t] = "lock"
    <2>1. NextRow(t) = {LockRows(req[t])[line[t]]}
      BY <1>2 DEF NextRow
    <2>2. line[t] = 2 => LockRows(req[t])[line[t]][1] \in {"offer", "order"}
      BY DEF LockRows, OfferRow, OrderRow
    <2>3. line[t] = 1 => LockRows(req[t])[line[t]][1] = "item"
      BY DEF LockRows, ItemRow
    <2> QED
      BY <1>1, <1>2, <2>1, <2>2, <2>3
  <1>3. CASE pc[t] = "restrict"
    BY <1>3 DEF NextRow, ItemRow
  <1>4. CASE pc[t] \notin {"lock", "restrict"}
    <2>1. CASE pc[t] = "consume"
      BY <2>1 DEF NextRow, OfferRow
    <2>2. CASE pc[t] = "decide"
      BY <2>2 DEF NextRow, OfferRow
    <2>3. CASE pc[t] = "flush"
      BY <2>3 DEF NextRow, OfferRow
    <2>4. CASE pc[t] \notin {"consume", "decide", "flush"}
      BY <1>4, <2>4 DEF NextRow
    <2> QED
      BY <2>1, <2>2, <2>3, <2>4
  <1> QED
    BY <1>2, <1>3, <1>4

LEMMA WaitedRows ==
  ASSUME IInv, NEW t \in Tx
  PROVE  NextRow(t) \subseteq Row
  <1> SUFFICES ASSUME NEW row \in NextRow(t) PROVE row \in Row
    OBVIOUS
  <1>1. CASE pc[t] = "consume"
    <2>1. t \in Checkout /\ CheckoutOK(t)
      BY <1>1 DEF IInv, PcInv, SessionInv, Tx
    <2>2. cart[t] \in Cart /\ line[t] \in 1 .. Len(cart[t])
      BY <1>1, <2>1 DEF CheckoutOK
    <2> QED
      BY <1>1, <2>2, CartLine DEF NextRow
  <1>2. CASE pc[t] \in {"lock", "decide"}
    <2>1. t \in ItemRequest
      BY <1>2 DEF IInv, PcInv, Tx
    <2>2. /\ ItemOK(t) /\ ItemRow(req[t].item) \in Row
          /\ OfferRow(OfferOf(req[t].item)) \in Row
          /\ OrderRow(req[t].item[1]) \in Row
      BY <1>2, <2>1, ItemSession, ItemLine DEF Row, OrderRow
    <2>3. CASE pc[t] = "decide"
      BY <2>2, <2>3 DEF NextRow
    <2>4. CASE pc[t] = "lock"
      <3>1. row = LockRows(req[t])[line[t]] /\ line[t] \in 1 .. 2
        BY <2>2, <2>4 DEF NextRow, ItemOK
      <3> QED
        BY <2>2, <3>1 DEF LockRows
    <2> QED
      BY <1>2, <2>3, <2>4
  <1>3. CASE pc[t] \in {"flush", "restrict"}
    <2>1. t \in OfferRequest
      BY <1>3 DEF IInv, PcInv, Tx
    <2>2. edit[t] \in OfferEdit
      BY <1>3, <2>1 DEF IInv, SessionInv, OfferOK
    <2>3. CASE pc[t] = "flush"
      <3>1. edit[t].offer \in Offer
        BY <2>2 DEF OfferEdit
      <3>2. OfferRow(edit[t].offer) \in Row
        BY <3>1 DEF OfferRow, Row
      <3> QED
        BY <2>3, <3>2 DEF NextRow
    <2>4. CASE pc[t] = "restrict"
      BY <1>3, <2>1, <2>4 DEF NextRow, ItemRow, Row, IInv, SessionInv, OfferOK
    <2> QED
      BY <1>3, <2>3, <2>4
  <1> QED
    BY <1>1, <1>2, <1>3, WaitsFor

\* In a circle of waiting requests everybody holds a row that another member
\* waits for.  Nobody holds one in the middle of loading an item: whoever
\* waits for the item's row holds nothing yet.  So a thread that has loaded its
\* item could be waited for only by its offer's row, which a seller's thread
\* does not wait for itself, and a buyer's does not hold.
LEMMA CircleOfCheckouts ==
  ASSUME IInv, LockInv, NEW S \in SUBSET {t \in Tx : Blockers(t) # {}}, Cycle(S),
         ~ \E f \in S : pc[f] = "restrict"
  PROVE  S \subseteq Checkout
  <1>1. ASSUME NEW s \in S
        PROVE  \E t \in S : \E row \in NextRow(t) : row \in Row /\ lock[row] = s
    <2>1. PICK t \in S : s \in Blockers(t)
      BY DEF Cycle
    <2> QED
      BY <2>1, WaitedRows DEF Blockers
  <1>2. ASSUME NEW s \in S
        PROVE  /\ s \in Tx /\ HoldsOK(s) /\ \E row \in Row : lock[row] = s
               /\ pc[s] \in {"consume", "lock", "decide"}
    <2>1. s \in Tx /\ HoldsOK(s) /\ \E row \in Row : lock[row] = s
      BY <1>1 DEF LockInv
    <2>2. \E row : row \in NextRow(s)
      BY DEF Cycle
    <2> QED
      BY <2>1, <2>2, WaitsFor DEF HoldsOK
  <1>3. ASSUME NEW s \in S PROVE pc[s] # "lock"
    <2> SUFFICES ASSUME pc[s] = "lock" PROVE FALSE
      OBVIOUS
    <2>1. PICK t \in S : \E row \in NextRow(t) : row \in Row /\ lock[row] = s
      BY <1>1
    <2>2. PICK row \in NextRow(t) : row \in Row /\ lock[row] = s
      BY <2>1
    <2>3. row[1] = "item"
      BY <1>2, <2>2 DEF HoldsOK
    <2>4. pc[t] = "lock" /\ line[t] = 1
      BY <1>2, <2>2, <2>3, WaitsFor
    <2> QED
      BY <1>2, <2>4 DEF HoldsOK
  <1>4. ASSUME NEW s \in S PROVE pc[s] # "decide"
    <2> SUFFICES ASSUME pc[s] = "decide" PROVE FALSE
      OBVIOUS
    <2>1. s \in ItemRequest
      BY <1>2 DEF IInv, PcInv, Tx
    <2>2. req[s].role \in {"buyer", "seller"}
      BY <2>1, ItemSession DEF ItemRequestPayload
    <2>3. PICK t \in S : \E row \in NextRow(t) : row \in Row /\ lock[row] = s
      BY <1>1
    <2>4. PICK row \in NextRow(t) : row \in Row /\ lock[row] = s
      BY <2>3
    <2>5. CASE req[s].role = "buyer"
      <3>1. row[1] \in {"item", "order"}
        BY <1>2, <2>4, <2>5 DEF HoldsOK
      <3> QED
        BY <1>2, <1>3, <2>4, <3>1, WaitsFor
    <2>6. CASE req[s].role = "seller"
      <3>1. \A waited \in NextRow(s) : lock[waited] = s
        BY <1>2, <2>6, WaitsFor DEF HoldsOK
      <3>2. Blockers(s) = {}
        BY <3>1 DEF Blockers
      <3> QED
        BY <3>2
    <2> QED
      BY <2>2, <2>5, <2>6
  <1> QED
    BY <1>2, <1>3, <1>4 DEF IInv, PcInv, Tx

LEMMA CircleHasTwo ==
  ASSUME NEW S \in SUBSET {t \in Tx : Blockers(t) # {}}, Cycle(S),
         S \subseteq Checkout, IsFiniteSet(Checkout)
  PROVE  Cardinality(S \intersect Checkout) >= 2
  <1>1. PICK t \in S : TRUE
    BY DEF Cycle
  <1>2. PICK u \in Blockers(t) : TRUE
    OBVIOUS
  <1>3. u \in S /\ u # t
    BY <1>2 DEF Cycle, Blockers
  <1>4. IsFiniteSet(S) /\ IsFiniteSet({t, u}) /\ Cardinality({t, u}) = 2
    <2>1. IsFiniteSet(S)
      BY FS_Subset
    <2>2. IsFiniteSet({u}) /\ Cardinality({u}) = 1 /\ t \notin {u}
      BY <1>3, FS_Singleton
    <2>3. {t, u} = {u} \union {t}
      OBVIOUS
    <2>4. Cardinality({u} \union {t}) = Cardinality({u}) + 1 /\ IsFiniteSet({u} \union {t})
      BY <2>2, FS_AddElement
    <2> QED
      BY <2>1, <2>2, <2>3, <2>4
  <1>5. Cardinality({t, u}) <= Cardinality(S)
    BY <1>1, <1>3, <1>4, FS_Subset
  <1>6. Cardinality(S) \in Nat /\ S \intersect Checkout = S
    BY <1>4, FS_CardinalityType
  <1> QED
    BY <1>4, <1>5, <1>6

\* Requests that wait for each other in a circle include two checkouts or the
\* deletion of an offer: shipping and cancelling lock the item before the
\* offer (orders/routes.py load_seller_item, load_buyer_item) and never
\* deadlock among themselves, however many run.
THEOREM NoOtherDeadlock ==
  ASSUME IsFiniteSet(Checkout)
  PROVE  Spec => []DeadlockNeedsCheckoutsOrDelete
  <1>1. Init => LockInv
    BY InitLocks
  <1>2. IInv /\ LockInv /\ [Next]_vars => LockInv'
    BY LockStep
  <1>3. IInv /\ LockInv => DeadlockNeedsCheckoutsOrDelete
    BY CircleOfCheckouts, CircleHasTwo DEF DeadlockNeedsCheckoutsOrDelete
  <1> QED
    BY <1>1, <1>2, <1>3, Invariance, PTL DEF Spec


-----------------------------------------------------------------------------
(***************************************************************************)
(* Induction over the subsets of a finite set, as a smallest               *)
(* counterexample: a set of subsets, rather than a predicate, which the    *)
(* provers can be given.                                                   *)
(***************************************************************************)

LEMMA SmallestSubset ==
  ASSUME NEW S, IsFiniteSet(S), NEW Bad \in SUBSET (SUBSET S), Bad # {}
  PROVE  \E T \in Bad : \A U \in Bad : ~ (U \subseteq T /\ U # T)
  <1>1. IsWellFoundedOn(StrictSubsetOrdering(S), FiniteSubsetsOf(S))
    BY FS_StrictSubsetOrderingWellFounded
  <1>2. FiniteSubsetsOf(S) = SUBSET S
    BY FS_FiniteSubsetsOfFinite
  <1>3. \E T \in Bad : \A U \in Bad : ~ (<<U, T>> \in StrictSubsetOrdering(S))
    BY <1>1, <1>2, WFMin
  <1> QED
    BY <1>3 DEF StrictSubsetOrdering

-----------------------------------------------------------------------------
(***************************************************************************)
(* Sums                                                                    *)
(***************************************************************************)

\* The element of a set that the recursion of MapThenFoldSet takes first.
First(T) == CHOOSE x \in T : TRUE

\* The function g gives every subset of S the sum of the weights w of its
\* elements, by the recursion of MapThenSumSet.
Sums(g, w, S) ==
  g = [T \in SUBSET S |-> IF T = {} THEN 0 ELSE w[First(T)] + g[T \ {First(T)}]]

Sum(w, S) == (CHOOSE g : Sums(g, w, S))[S]

LEMMA FirstIsElement ==
  ASSUME NEW T, T # {}
  PROVE  First(T) \in T
  BY DEF First

\* The sum of a set depends on the weights of its elements only, not on the
\* set of which it is a subset.
LEMMA SumsAgree ==
  ASSUME NEW S, IsFiniteSet(S), NEW w, NEW g, Sums(g, w, S),
         NEW R, NEW v, NEW h, Sums(h, v, R),
         NEW T, T \subseteq S, T \subseteq R, \A x \in T : w[x] = v[x]
  PROVE  g[T] = h[T]
  <1> DEFINE Bad == { U \in SUBSET T : g[U] # h[U] }
  <1> SUFFICES ASSUME Bad # {} PROVE FALSE
    OBVIOUS
  <1>1. PICK U \in Bad : \A V \in Bad : ~ (V \subseteq U /\ V # U)
    <2>1. Bad \in SUBSET (SUBSET T)
      OBVIOUS
    <2>2. IsFiniteSet(T)
      BY FS_Subset
    <2> HIDE DEF Bad
    <2> QED
      BY <2>1, <2>2, SmallestSubset
  <1>2. /\ g[U] = IF U = {} THEN 0 ELSE w[First(U)] + g[U \ {First(U)}]
        /\ h[U] = IF U = {} THEN 0 ELSE v[First(U)] + h[U \ {First(U)}]
    BY DEF Sums
  <1>3. U # {}
    BY <1>1, <1>2
  <1>4. First(U) \in T /\ U \ {First(U)} \subseteq U /\ U \ {First(U)} # U
    BY <1>1, <1>3, FirstIsElement
  <1>5. g[U \ {First(U)}] = h[U \ {First(U)}]
    BY <1>1, <1>4
  <1> QED
    BY <1>1, <1>2, <1>3, <1>4, <1>5

\* The recursion has a solution: the sum of each subset comes from a solution
\* for that subset alone, and these agree.
LEMMA SumsExist ==
  ASSUME NEW S, IsFiniteSet(S), NEW w
  PROVE  \E g : Sums(g, w, S)
  <1> DEFINE Bad == { T \in SUBSET S : ~ \E g : Sums(g, w, T) }
  <1> SUFFICES ASSUME Bad # {} PROVE FALSE
    OBVIOUS
  <1>1. PICK T \in Bad : \A U \in Bad : ~ (U \subseteq T /\ U # T)
    <2>1. Bad \in SUBSET (SUBSET S)
      OBVIOUS
    <2> HIDE DEF Bad
    <2> QED
      BY <2>1, SmallestSubset
  <1> DEFINE part(U) == CHOOSE g : Sums(g, w, U)
             below(U) == part(U)[U]
             rest == T \ {First(T)}
             g == [U \in SUBSET T |-> IF U # T THEN below(U)
                                      ELSE IF T = {} THEN 0
                                      ELSE w[First(T)] + below(rest)]
  <1>2. ASSUME NEW U \in SUBSET T, U # T PROVE Sums(part(U), w, U)
    <2>1. \E h : Sums(h, w, U)
      BY <1>1, <1>2
    <2> QED
      BY <2>1
  <1>3. ASSUME NEW U \in SUBSET T, U # T, U # {}
        PROVE  below(U) = w[First(U)] + below(U \ {First(U)})
    <2> DEFINE V == U \ {First(U)}
    <2>1. V \in SUBSET T /\ V # T /\ V \subseteq U
      BY <1>3
    <2>2. Sums(part(U), w, U) /\ Sums(part(V), w, V)
      BY <1>2, <1>3, <2>1
    <2>3. IsFiniteSet(U)
      BY <1>3, FS_Subset
    <2> HIDE DEF part, V
    <2>4. part(U)[U] = w[First(U)] + part(U)[V]
      BY <1>3, <2>2 DEF Sums, V
    <2>5. part(U)[V] = part(V)[V]
      BY <2>1, <2>2, <2>3, SumsAgree
    <2> QED
      BY <2>4, <2>5 DEF V
  <1> HIDE DEF part, below
  <1>4. T # {} => rest \in SUBSET T /\ rest # T
    BY FirstIsElement
  <1>5. ASSUME NEW U \in SUBSET T
        PROVE  g[U] = IF U = {} THEN 0 ELSE w[First(U)] + g[U \ {First(U)}]
    <2>1. CASE U = T
      BY <1>4, <2>1
    <2>2. CASE U # T /\ U # {}
      <3>1. U \ {First(U)} \in SUBSET T /\ U \ {First(U)} # T
        BY <2>2
      <3> QED
        BY <1>3, <2>2, <3>1
    <2>3. CASE U # T /\ U = {}
      <3>1. Sums(part({}), w, {})
        BY <1>2, <2>3
      <3>2. below({}) = 0
        BY <3>1 DEF Sums, below
      <3> QED
        BY <2>3, <3>2
    <2> QED
      BY <2>1, <2>2, <2>3
  <1>6. Sums(g, w, T)
    BY <1>5 DEF Sums
  <1> QED
    BY <1>1, <1>6

LEMMA SumIs ==
  ASSUME NEW S, IsFiniteSet(S), NEW w, NEW g, Sums(g, w, S)
  PROVE  Sum(w, S) = g[S]
  <1> DEFINE h == CHOOSE f : Sums(f, w, S)
  <1>1. Sums(h, w, S)
    OBVIOUS
  <1> HIDE DEF h
  <1>2. h[S] = g[S]
    BY <1>1, SumsAgree
  <1> QED
    BY <1>2 DEF Sum, h

LEMMA SumsType ==
  ASSUME NEW S, IsFiniteSet(S), NEW w, \A x \in S : w[x] \in Int, NEW g, Sums(g, w, S)
  PROVE  \A T \in SUBSET S : g[T] \in Int
  <1> DEFINE Bad == { T \in SUBSET S : g[T] \notin Int }
  <1> SUFFICES ASSUME Bad # {} PROVE FALSE
    OBVIOUS
  <1>1. PICK T \in Bad : \A U \in Bad : ~ (U \subseteq T /\ U # T)
    <2>1. Bad \in SUBSET (SUBSET S)
      OBVIOUS
    <2> HIDE DEF Bad
    <2> QED
      BY <2>1, SmallestSubset
  <1>2. g[T] = IF T = {} THEN 0 ELSE w[First(T)] + g[T \ {First(T)}]
    BY DEF Sums
  <1>3. T # {}
    BY <1>2
  <1>4. First(T) \in S /\ T \ {First(T)} \subseteq T /\ T \ {First(T)} # T
    BY <1>3, FirstIsElement
  <1>5. g[T \ {First(T)}] \in Int
    BY <1>1, <1>4
  <1> QED
    BY <1>1, <1>2, <1>3, <1>4, <1>5

\* Whichever element is taken out first, the sum is the same.
LEMMA SumsAnyOrder ==
  ASSUME NEW S, IsFiniteSet(S), NEW w, \A x \in S : w[x] \in Int, NEW g, Sums(g, w, S)
  PROVE  \A T \in SUBSET S : \A x \in T : g[T] = w[x] + g[T \ {x}]
  <1> DEFINE Bad == { T \in SUBSET S : \E x \in T : g[T] # w[x] + g[T \ {x}] }
  <1> SUFFICES ASSUME Bad # {} PROVE FALSE
    OBVIOUS
  <1>1. PICK T \in Bad : \A U \in Bad : ~ (U \subseteq T /\ U # T)
    <2>1. Bad \in SUBSET (SUBSET S)
      OBVIOUS
    <2> HIDE DEF Bad
    <2> QED
      BY <2>1, SmallestSubset
  <1>2. PICK x \in T : g[T] # w[x] + g[T \ {x}]
    BY <1>1
  <1> DEFINE c == First(T)
             both == (T \ {c}) \ {x}
  <1>3. c \in T /\ g[T] = w[c] + g[T \ {c}]
    BY FirstIsElement DEF Sums
  <1>4. c # x
    BY <1>2, <1>3
  <1> HIDE DEF c
  <1>5. g[T \ {c}] = w[x] + g[both]
    <2>1. T \ {c} \in SUBSET S /\ T \ {c} \subseteq T /\ T \ {c} # T /\ x \in T \ {c}
      BY <1>3, <1>4
    <2> QED
      BY <1>1, <2>1
  <1>6. g[T \ {x}] = w[c] + g[both]
    <2>1. /\ T \ {x} \in SUBSET S /\ T \ {x} \subseteq T /\ T \ {x} # T /\ c \in T \ {x}
          /\ (T \ {x}) \ {c} = both
      BY <1>3, <1>4
    <2> QED
      BY <1>1, <2>1
  <1>7. w[c] \in Int /\ w[x] \in Int /\ g[both] \in Int
    BY <1>3, SumsType
  <1> HIDE DEF both
  <1> QED
    BY <1>2, <1>3, <1>5, <1>6, <1>7

LEMMA SumOfNone == ASSUME NEW w PROVE Sum(w, {}) = 0
  <1>1. IsFiniteSet({})
    BY FS_EmptySet
  <1>2. PICK g : Sums(g, w, {})
    BY <1>1, SumsExist
  <1>3. g[{}] = 0
    BY <1>2 DEF Sums
  <1> QED
    BY <1>1, <1>2, <1>3, SumIs

\* One element more adds its weight to a sum.
LEMMA SumWith ==
  ASSUME NEW S, IsFiniteSet(S), NEW x, x \notin S,
         NEW w, \A y \in S \union {x} : w[y] \in Int
  PROVE  /\ Sum(w, S) \in Int
         /\ Sum(w, S \union {x}) = w[x] + Sum(w, S)
  <1> DEFINE R == S \union {x}
  <1>1. IsFiniteSet(R)
    BY FS_AddElement
  <1>2. PICK g : Sums(g, w, R)
    BY <1>1, SumsExist
  <1>3. PICK h : Sums(h, w, S)
    BY SumsExist
  <1>4. R \ {x} = S /\ R \in SUBSET R /\ x \in R
    OBVIOUS
  <1> HIDE DEF R
  <1>5. g[R] = w[x] + g[S]
    BY <1>1, <1>2, <1>4, SumsAnyOrder DEF R
  <1>6. g[S] = h[S]
    BY <1>1, <1>2, <1>3, SumsAgree DEF R
  <1>7. h[S] \in Int
    BY <1>3, SumsType
  <1> QED
    BY <1>1, <1>2, <1>3, <1>5, <1>6, <1>7, SumIs DEF R

LEMMA SumWithout ==
  ASSUME NEW S, IsFiniteSet(S), NEW x \in S, NEW w, \A y \in S : w[y] \in Int
  PROVE  /\ Sum(w, S) \in Int
         /\ Sum(w, S \ {x}) = Sum(w, S) - w[x]
  <1> DEFINE R == S \ {x}
  <1>1. IsFiniteSet(R) /\ x \notin R /\ R \union {x} = S
    BY FS_RemoveElement
  <1>2. \A y \in R \union {x} : w[y] \in Int
    OBVIOUS
  <1> HIDE DEF R
  <1>3. Sum(w, R) \in Int /\ Sum(w, R \union {x}) = w[x] + Sum(w, R)
    BY <1>1, <1>2, SumWith
  <1>4. w[x] \in Int /\ Sum(w, S) = w[x] + Sum(w, R)
    BY <1>1, <1>3
  <1>5. Sum(w, S) \in Int /\ Sum(w, R) = Sum(w, S) - w[x]
    BY <1>3, <1>4
  <1> QED
    BY <1>5 DEF R

LEMMA SumOfSame ==
  ASSUME NEW S, IsFiniteSet(S), NEW w, NEW v, \A x \in S : w[x] = v[x]
  PROVE  Sum(w, S) = Sum(v, S)
  <1>1. PICK g : Sums(g, w, S)
    BY SumsExist
  <1>2. PICK h : Sums(h, v, S)
    BY SumsExist
  <1>3. g[S] = h[S]
    BY <1>1, <1>2, SumsAgree
  <1> QED
    BY <1>1, <1>2, <1>3, SumIs

-----------------------------------------------------------------------------
(***************************************************************************)
(* The units that are still out                                            *)
(***************************************************************************)

\* The items of an offer that have not given their units back, and the number
\* of units of each item.
Out(o) == { i \in Item : Exists(i) /\ OfferOf(i) = o /\ restored[i] = 0 }
quantity == [i \in Item |-> QuantityOf(i)]

\* The fold of the model is the sum of this module.
LEMMA OutstandingIsSum ==
  ASSUME NEW o, IsFiniteSet(Out(o))
  PROVE  Outstanding(o) = Sum(quantity, Out(o))
  <1> DEFINE S == Out(o)
             Step(g, T) == IF T = {} THEN 0
                           ELSE LET x == CHOOSE x \in T : TRUE
                                IN  QuantityOf(x) + g[T \ {x}]
             iter == CHOOSE g : g = [T \in SUBSET S |-> Step(g, T)]
  <1>1. Outstanding(o) = iter[S]
    BY DEF Outstanding, MapThenSumSet, MapThenFoldSet, Out
  <1>2. ASSUME NEW g, NEW T \in SUBSET S
        PROVE  Step(g, T) = IF T = {} THEN 0
                            ELSE quantity[First(T)] + g[T \ {First(T)}]
    <2>1. CASE T = {}
      BY <2>1
    <2>2. CASE T # {}
      <3>1. First(T) \in Item
        BY <2>2, FirstIsElement DEF Out
      <3>2. quantity[First(T)] = QuantityOf(First(T))
        BY <3>1 DEF quantity
      <3>3. Step(g, T) = QuantityOf(First(T)) + g[T \ {First(T)}]
        BY <2>2 DEF First
      <3> QED
        BY <2>2, <3>2, <3>3
    <2> QED
      BY <2>1, <2>2
  <1>3. ASSUME NEW g
        PROVE  [T \in SUBSET S |-> Step(g, T)]
                 = [T \in SUBSET S |-> IF T = {} THEN 0
                                       ELSE quantity[First(T)] + g[T \ {First(T)}]]
    <2> HIDE DEF Step, S
    <2> QED
      BY <1>2
  <1> HIDE DEF Step, S
  <1>4. PICK g : Sums(g, quantity, S)
    BY SumsExist DEF S
  <1>5. g = [T \in SUBSET S |-> Step(g, T)]
    BY <1>3, <1>4 DEF Sums
  <1>6. iter = [T \in SUBSET S |-> Step(iter, T)]
    BY <1>5
  <1> HIDE DEF iter
  <1>7. Sums(iter, quantity, S)
    BY <1>3, <1>6 DEF Sums
  <1>8. IsFiniteSet(S)
    BY DEF S
  <1> QED
    BY <1>1, <1>7, <1>8, SumIs DEF S

ItemsFinite == IsFiniteSet({ i \in Item : Exists(i) })

\* The books of an offer on sale: in stock, or out.
Balanced(o) == offerState[o] = "live" => stock[o] + Sum(quantity, Out(o)) = supply[o]

StockInv == ItemsFinite /\ \A o \in Offer : Balanced(o)

LEMMA InitStock == Init => StockInv
  <1> SUFFICES ASSUME Init PROVE StockInv
    OBVIOUS
  <1>1. { i \in Item : Exists(i) } = {} /\ \A o \in Offer : Out(o) = {}
    BY DEF Init, Exists, Out
  <1>2. \A o \in Offer : stock[o] \in Nat /\ supply[o] = stock[o]
    BY InitIInv DEF Init, IInv, TypeOK
  <1>3. ItemsFinite
    BY <1>1, FS_EmptySet DEF ItemsFinite
  <1>4. ASSUME NEW o \in Offer PROVE Balanced(o)
    <2>1. Sum(quantity, Out(o)) = 0
      BY <1>1, SumOfNone
    <2> QED
      BY <1>2, <2>1 DEF Balanced
  <1> QED
    BY <1>3, <1>4 DEF StockInv

\* An item that exists keeps its line of the cart.
LEMMA LinesKept ==
  ASSUME IInv, [Next]_vars, NEW i \in Item, Exists(i)
  PROVE  /\ cart'[i[1]] = cart[i[1]]
         /\ OfferOf(i)' = OfferOf(i)
         /\ QuantityOf(i)' = QuantityOf(i)
         /\ quantity'[i] = quantity[i]
  <1>1. cart'[i[1]] = cart[i[1]]
    <2>1. /\ i[1] \in Checkout /\ cart[i[1]] \in Cart
          /\ placedOrder[i[1]] = cart[i[1]]
      BY ItemLine DEF placedOrder
    <2>2. cart[i[1]] # <<>>
      BY <2>1, OrdersAssumption DEF OrdersAssumption, CartAssumption
    <2>3. placedOrder' = placedOrder => cart'[i[1]] = cart[i[1]]
      BY <2>1, <2>2 DEF placedOrder
    <2>4. cart' = cart => cart'[i[1]] = cart[i[1]]
      OBVIOUS
    <2> QED
      BY <2>3, <2>4, TableSteps
      DEF CommitCheckout, CommitItem, CommitOffer, CreateOffer, orders
  <1> QED
    BY <1>1 DEF OfferOf, QuantityOf, quantity

LEMMA OutIsFinite ==
  ASSUME IInv, ItemsFinite, NEW o \in Offer
  PROVE  IsFiniteSet(Out(o)) /\ \A i \in Out(o) : quantity[i] \in Int /\ Exists(i)
  <1>1. Out(o) \in SUBSET { i \in Item : Exists(i) }
    BY DEF Out
  <1>2. IsFiniteSet(Out(o))
    BY <1>1, FS_Subset DEF ItemsFinite
  <1>3. ASSUME NEW i \in Out(o) PROVE quantity[i] \in Int /\ Exists(i)
    <2>1. i \in Item /\ Exists(i)
      BY DEF Out
    <2>2. QuantityOf(i) \in Nat
      BY <2>1, ItemLine
    <2> QED
      BY <2>1, <2>2 DEF quantity
  <1> QED
    BY <1>2, <1>3

\* What a step does to the units of an offer that are out, when it adds an
\* item, takes one away, or does neither.
LEMMA OutUnchanged ==
  ASSUME IInv, ItemsFinite, [Next]_vars, NEW o \in Offer, NEW S, S = Out(o)
  PROVE  Sum(quantity', S) = Sum(quantity, S) /\ Sum(quantity, S) \in Int
  <1>1. IsFiniteSet(S) /\ \A i \in S : quantity[i] \in Int /\ Exists(i) /\ i \in Item
    BY OutIsFinite DEF Out
  <1>2. \A i \in S : quantity[i] = quantity'[i]
    BY <1>1, LinesKept
  <1>3. PICK g : Sums(g, quantity, S)
    BY <1>1, SumsExist
  <1>4. g[S] \in Int
    BY <1>1, <1>3, SumsType
  <1> QED
    BY <1>1, <1>2, <1>3, <1>4, SumIs, SumOfSame

LEMMA OutGains ==
  ASSUME IInv, ItemsFinite, [Next]_vars, NEW o \in Offer, NEW i, i \notin Out(o),
         quantity'[i] \in Int, Out(o)' = Out(o) \union {i}
  PROVE  Sum(quantity', Out(o)') = quantity'[i] + Sum(quantity, Out(o))
  <1>1. PICK S : S = Out(o)
    OBVIOUS
  <1>2. PICK w : w = quantity'
    OBVIOUS
  <1>3. IsFiniteSet(S) /\ \A j \in S : j \in Item /\ Exists(j) /\ quantity[j] \in Int
    BY <1>1, OutIsFinite DEF Out
  <1>4. \A j \in S \union {i} : w[j] \in Int
    BY <1>2, <1>3, LinesKept
  <1>5. Sum(w, S \union {i}) = w[i] + Sum(w, S)
    BY <1>1, <1>3, <1>4, SumWith
  <1> QED
    BY <1>1, <1>2, <1>5, OutUnchanged

LEMMA OutLoses ==
  ASSUME IInv, ItemsFinite, [Next]_vars, NEW o \in Offer, NEW i \in Out(o),
         Out(o)' = Out(o) \ {i}
  PROVE  Sum(quantity', Out(o)') = Sum(quantity, Out(o)) - quantity[i]
  <1>1. PICK S : S = Out(o)
    OBVIOUS
  <1>2. PICK w : w = quantity'
    OBVIOUS
  <1>3. IsFiniteSet(S) /\ \A j \in S : j \in Item /\ Exists(j) /\ quantity[j] \in Int
    BY <1>1, OutIsFinite DEF Out
  <1>4. \A j \in S : w[j] \in Int /\ w[j] = quantity[j]
    BY <1>2, <1>3, LinesKept
  <1>5. Sum(w, S \ {i}) = Sum(w, S) - w[i]
    BY <1>1, <1>3, <1>4, SumWithout
  <1> QED
    BY <1>1, <1>2, <1>4, <1>5, OutUnchanged

LEMMA SameOut ==
  ASSUME IInv, [Next]_vars, UNCHANGED <<status, restored>>, NEW o \in Offer
  PROVE  Out(o)' = Out(o)
  BY LinesKept DEF Out, Exists

\* A checkout's commit takes the units of its line from the stock of an offer.
LEMMA CheckoutBalances ==
  ASSUME IInv, RestockInv, StockInv, [Next]_vars,
         NEW c \in Checkout, CommitCheckout(c), NEW o \in Offer
  PROVE  Balanced(o)'
  <1>1. c \in Tx /\ pc[c] = "commit" /\ CheckoutOK(c) /\ ItemsFinite
    BY DEF CommitCheckout, IInv, SessionInv, StockInv, Tx
  <1>2. cart[c] \in Cart /\ Len(cart[c]) \in Nat /\ Len(cart[c]) <= MaxLines /\ MaxLines \in Nat
    BY <1>1, OrdersAssumption DEF CheckoutOK, OrdersAssumption, CartAssumption
  <1>3. /\ stock'[o] = stock[o] - Units(cart[c], o) /\ stock[o] \in Nat
        /\ offerState' = offerState /\ supply' = supply /\ restored' = restored
        /\ cart' = cart /\ supply[o] \in Int
    BY DEF CommitCheckout, history, IInv, TypeOK
  <1>4. \A i \in Item :
          Exists(i)' <=> Exists(i) \/ (i[1] = c /\ i[2] <= Len(cart[c]))
    BY DEF CommitCheckout, Exists, Placed
  <1>5. \A i \in Item : i[1] = c => ~Exists(i) /\ restored[i] = 0
    BY <1>1 DEF IInv, ItemsInv, RestockInv
  <1>6. CASE Units(cart[c], o) = 0 /\ \A n \in 1 .. Len(cart[c]) : cart[c][n].offer # o
    <2>1. ASSUME NEW i \in Item, i[1] = c, i[2] <= Len(cart[c]) PROVE OfferOf(i) # o
      BY <1>2, <1>6, <2>1 DEF OfferOf, Item
    <2>2. Out(o)' = Out(o)
      BY <1>3, <1>4, <2>1 DEF Out, OfferOf
    <2>3. Sum(quantity', Out(o)') = Sum(quantity, Out(o)) /\ Sum(quantity, Out(o)) \in Int
      BY <1>1, <2>2, OutUnchanged
    <2> QED
      BY <1>3, <1>6, <2>3 DEF Balanced, StockInv
  <1>7. CASE \E n \in 1 .. Len(cart[c]) :
               cart[c][n].offer = o /\ Units(cart[c], o) = cart[c][n].quantity
    <2>1. PICK n \in 1 .. Len(cart[c]) :
            cart[c][n].offer = o /\ Units(cart[c], o) = cart[c][n].quantity
      BY <1>7
    <2>2. PICK i : i = <<c, n>>
      OBVIOUS
    <2>3. i \in Item /\ i[1] = c /\ i[2] = n
      BY <1>2, <2>2 DEF Item
    <2>4. /\ OfferOf(i) = o /\ OfferOf(i)' = o
          /\ quantity'[i] = cart[c][n].quantity /\ cart[c][n].quantity \in Nat
      BY <1>2, <1>3, <2>1, <2>3, CartLine DEF OfferOf, QuantityOf, quantity
    <2>5. ASSUME NEW j \in Item, j[1] = c, j[2] <= Len(cart[c]), OfferOf(j) = o
          PROVE  j = i
      <3>1. j[2] \in 1 .. Len(cart[c]) /\ j = <<j[1], j[2]>>
        BY <1>2, <2>5 DEF Item
      <3>2. cart[c][j[2]].offer = cart[c][n].offer
        BY <2>1, <2>5 DEF OfferOf
      <3>3. j[2] = n
        BY <1>2, <3>1, <3>2, OrdersAssumption DEF OrdersAssumption, CartAssumption
      <3> QED
        BY <2>2, <2>5, <3>1, <3>3
    <2>6. i \notin Out(o) /\ Exists(i)' /\ restored'[i] = 0
      BY <1>2, <1>3, <1>4, <1>5, <2>3 DEF Out
    <2>7. Out(o)' = Out(o) \union {i}
      BY <1>3, <1>4, <1>5, <2>3, <2>4, <2>5, <2>6 DEF Out, OfferOf
    <2>8. Sum(quantity', Out(o)') = cart[c][n].quantity + Sum(quantity, Out(o))
      <3>1. quantity'[i] \in Int
        BY <2>4
      <3>2. Sum(quantity', Out(o)') = quantity'[i] + Sum(quantity, Out(o))
        BY <1>1, <2>6, <2>7, <3>1, OutGains
      <3> QED
        BY <2>4, <3>2
    <2>9. Sum(quantity, Out(o)) \in Int
      BY <1>1, OutUnchanged
    <2> QED
      BY <1>3, <2>1, <2>4, <2>8, <2>9 DEF Balanced, StockInv
  <1> QED
    BY <1>2, <1>6, <1>7, UnitsOfLine

\* A cancellation's commit gives back what the item has taken, once.
LEMMA ItemBalances ==
  ASSUME IInv, RestockInv, StockInv, [Next]_vars,
         NEW r \in ItemRequest, CommitItem(r), NEW o \in Offer
  PROVE  Balanced(o)'
  <1> DEFINE back == /\ req[r].target = "cancelled"
                     /\ RestoresStockOnCancel(previous[r])
  <1>1. PICK i : i = req[r].item
    OBVIOUS
  <1>2. /\ i \in Item /\ Exists(i) /\ ItemsFinite /\ status[i] # "cancelled"
        /\ req[r].target \in OrderItemStatus
    BY <1>1, ItemSession
    DEF CommitItem, StockInv, ItemOK, CanCancel, ForwardTransition, FORWARD,
        BUYER_CANCEL_STATUSES, SELLER_CANCEL_STATUSES
  <1>3. /\ status' = [status EXCEPT ![i] = req[r].target]
        /\ offerState' = offerState /\ supply' = supply /\ cart' = cart
        /\ back => /\ stock' = [stock EXCEPT ![OfferOf(i)] = @ + QuantityOf(i)]
                   /\ restored' = [restored EXCEPT ![i] = @ + 1]
        /\ ~back => stock' = stock /\ restored' = restored
    BY <1>1 DEF CommitItem
  <1>4. \A j \in Item : (Exists(j)' <=> Exists(j)) /\ OfferOf(j)' = OfferOf(j)
    BY <1>2, <1>3
    DEF Exists, OfferOf, OrderItemStatus, OrderItemForwardStatus, IInv, TypeOK
  <1>5. /\ OfferOf(i) \in Offer /\ QuantityOf(i) \in Nat /\ restored[i] = 0
        /\ stock[o] \in Nat /\ supply[o] \in Int
    BY <1>2, ItemLine DEF RestockInv, IInv, TypeOK
  <1>6. Sum(quantity, Out(o)) \in Int
    BY <1>2, OutUnchanged
  <1> HIDE DEF back
  <1>7. CASE back /\ OfferOf(i) = o
    <2>1. i \in Out(o) /\ quantity[i] = QuantityOf(i)
      BY <1>2, <1>5, <1>7 DEF Out, quantity
    <2>2. restored'[i] = 1 /\ \A j \in Item : j # i => restored'[j] = restored[j]
      BY <1>2, <1>3, <1>5, <1>7 DEF IInv, TypeOK
    <2>3. Out(o)' = Out(o) \ {i}
      BY <1>4, <2>2 DEF Out
    <2>4. Sum(quantity', Out(o)') = Sum(quantity, Out(o)) - QuantityOf(i)
      BY <1>2, <2>1, <2>3, OutLoses
    <2>5. stock'[o] = stock[o] + QuantityOf(i)
      BY <1>3, <1>7 DEF IInv, TypeOK
    <2> QED
      BY <1>3, <1>5, <1>6, <2>4, <2>5 DEF Balanced, StockInv
  <1>8. CASE ~(back /\ OfferOf(i) = o)
    <2>1. stock'[o] = stock[o]
      BY <1>3, <1>5, <1>8 DEF IInv, TypeOK
    <2>2. \A j \in Item : OfferOf(j) = o /\ Exists(j) => restored'[j] = restored[j]
      BY <1>3, <1>8 DEF IInv, TypeOK
    <2>3. Out(o)' = Out(o)
      BY <1>4, <2>2 DEF Out
    <2>4. Sum(quantity', Out(o)') = Sum(quantity, Out(o))
      BY <1>2, <2>3, OutUnchanged
    <2> QED
      BY <1>3, <2>1, <2>4 DEF Balanced, StockInv
  <1> QED
    BY <1>7, <1>8

\* An edit of an offer is booked as a supply or a correction; an offer that is
\* created has no item yet.
LEMMA OfferBalances ==
  ASSUME IInv, NoOrphanItem, StockInv, [Next]_vars,
         NEW f \in OfferRequest, CommitOffer(f) \/ CreateOffer(f), NEW o \in Offer
  PROVE  Balanced(o)'
  <1>1. /\ UNCHANGED <<status, restored>> /\ ItemsFinite
        /\ stock[o] \in Nat /\ stock'[o] \in Nat /\ supply[o] \in Int
    BY StepIInv DEF CommitOffer, CreateOffer, orders, StockInv, IInv, TypeOK
  <1>2. /\ Out(o)' = Out(o) /\ Sum(quantity', Out(o)') = Sum(quantity, Out(o))
        /\ Sum(quantity, Out(o)) \in Int
    BY <1>1, SameOut, OutUnchanged
  <1>3. ASSUME offerState[o] = "live", supply'[o] = supply[o] + (stock'[o] - stock[o])
        PROVE  Balanced(o)'
    BY <1>1, <1>2, <1>3 DEF Balanced, StockInv
  <1>4. CASE CommitOffer(f)
    <2>1. CASE edit[f].op = "delete"
      <3>1. /\ offerState' = [offerState EXCEPT ![edit[f].offer] = "deleted"]
            /\ UNCHANGED <<stock, supply>>
        BY <1>4, <2>1 DEF CommitOffer
      <3>2. offerState'[o] = "live" => offerState[o] = "live"
        BY <3>1 DEF IInv, TypeOK
      <3> QED
        BY <1>2, <3>1, <3>2 DEF Balanced, StockInv
    <2>2. CASE edit[f].op # "delete"
      <3>1. PICK e \in Offer : e = edit[f].offer
        BY <1>4 DEF CommitOffer, IInv, SessionInv, OfferOK, OfferEdit
      <3>2. /\ offerState' = offerState
            /\ stock' = [stock EXCEPT ![e] = Written(edit[f].stock, @)]
            /\ supply' = [supply EXCEPT ![e] = @ + (stock'[e] - stock[e])]
        BY <1>4, <2>2, <3>1 DEF CommitOffer
      <3>3. supply'[o] = supply[o] + (stock'[o] - stock[o])
        BY <1>1, <3>2 DEF IInv, TypeOK
      <3> QED
        BY <1>3, <3>2, <3>3 DEF Balanced
    <2> QED
      BY <2>1, <2>2
  <1>5. CASE CreateOffer(f)
    <2>1. PICK e \in Offer, p \in OfferPayload :
            /\ offerState[e] = "absent"
            /\ offerState' = [offerState EXCEPT ![e] = "live"]
            /\ stock' = [stock EXCEPT ![e] = p.stock]
            /\ supply' = [supply EXCEPT ![e] = p.stock]
      BY <1>5 DEF CreateOffer
    <2>2. CASE e = o
      <3>1. Out(o) = {}
        BY <2>1, <2>2 DEF Out, NoOrphanItem
      <3>2. stock'[o] = supply'[o]
        BY <2>1, <2>2 DEF IInv, TypeOK
      <3>3. Sum(quantity', Out(o)') = 0
        BY <1>2, <3>1, SumOfNone
      <3> QED
        BY <1>1, <3>2, <3>3 DEF Balanced
    <2>3. CASE e # o
      <3>1. offerState'[o] = offerState[o] /\ stock'[o] = stock[o] /\ supply'[o] = supply[o]
        BY <2>1, <2>3 DEF IInv, TypeOK
      <3> QED
        BY <1>2, <3>1 DEF Balanced, StockInv
    <2> QED
      BY <2>2, <2>3
  <1> QED
    BY <1>4, <1>5

LEMMA FiniteStep ==
  ASSUME IInv, ItemsFinite, [Next]_vars
  PROVE  ItemsFinite'
  <1> DEFINE now == { i \in Item : Exists(i) }
  <1>1. ASSUME now' \subseteq now PROVE ItemsFinite'
    BY <1>1, FS_Subset DEF ItemsFinite
  <1>2. ASSUME NEW c \in Checkout, CommitCheckout(c) PROVE ItemsFinite'
    <2> DEFINE lines == {c} \X (1 .. MaxLines)
    <2>1. IsFiniteSet(lines)
      <3>1. MaxLines \in Int /\ IsFiniteSet({c})
        <4>1. MaxLines \in Nat
          BY OrdersAssumption DEF OrdersAssumption, CartAssumption
        <4> QED
          BY <4>1, FS_Singleton
      <3>2. IsFiniteSet(1 .. MaxLines)
        BY <3>1, FS_Interval
      <3> QED
        BY <3>1, <3>2, FS_Product
    <2>2. now' \subseteq now \union lines
      BY <1>2 DEF CommitCheckout, Exists, Item
    <2>3. IsFiniteSet(now \union lines)
      BY <2>1, FS_Union DEF ItemsFinite
    <2>4. IsFiniteSet(now')
      BY <2>2, <2>3, FS_Subset
    <2> QED
      BY <2>4 DEF ItemsFinite
  <1>3. ASSUME NEW r \in ItemRequest, CommitItem(r) PROVE now' \subseteq now
    <2>1. Exists(req[r].item)
      BY <1>3, ItemSession DEF CommitItem
    <2> QED
      BY <1>3, <2>1 DEF CommitItem, Exists, IInv, TypeOK
  <1>4. status' = status => now' \subseteq now
    BY DEF Exists
  <1> HIDE DEF now
  <1> QED
    BY <1>1, <1>2, <1>3, <1>4, TableSteps DEF CommitOffer, CreateOffer, orders

LEMMA StockStep ==
  IInv /\ NoOrphanItem /\ RestockInv /\ StockInv /\ [Next]_vars => StockInv'
  <1> SUFFICES ASSUME IInv, NoOrphanItem, RestockInv, StockInv, [Next]_vars
               PROVE  StockInv'
    OBVIOUS
  <1>1. ItemsFinite'
    BY FiniteStep DEF StockInv
  <1>2. ASSUME NEW o \in Offer, UNCHANGED <<offers, status, paid, history>>
        PROVE  Balanced(o)'
    <2>1. UNCHANGED <<status, restored, offerState, stock, supply>>
      BY <1>2 DEF offers, history
    <2>2. Out(o)' = Out(o) /\ Sum(quantity', Out(o)') = Sum(quantity, Out(o))
      BY <2>1, SameOut, OutUnchanged DEF StockInv
    <2> QED
      BY <2>1, <2>2 DEF Balanced, StockInv
  <1>3. ASSUME NEW o \in Offer PROVE Balanced(o)'
    BY <1>2, CheckoutBalances, ItemBalances, OfferBalances, TableSteps
  <1> QED
    BY <1>1, <1>3 DEF StockInv

\* No unit is lost or invented, whatever checkouts, cancellations and edits of
\* sellers run at the same time: what was put on sale is in stock, or in an
\* item that has not given it back (orders/checkout.py _consume_stock,
\* orders/routes.py cancel_order_item, catalog/offers.py).
THEOREM NoUnitLost == Spec => []StockConserved
  <1>1. Init => NoOrphanItem /\ RestockInv /\ StockInv
    BY InitHistory, InitStock
  <1>2. IInv /\ NoOrphanItem /\ RestockInv /\ StockInv /\ [Next]_vars
          => NoOrphanItem' /\ RestockInv' /\ StockInv'
    BY NoOrphanStep, RestockStep, StockStep
  <1>3. IInv /\ StockInv => StockConserved
    BY OutIsFinite, OutstandingIsSum DEF StockInv, Balanced, StockConserved
  <1> QED
    BY <1>1, <1>2, <1>3, Invariance, PTL DEF Spec
=============================================================================
