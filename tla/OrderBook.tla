----------------------------- MODULE OrderBook -----------------------------
(***************************************************************************)
(* What the marketplace promises about stock and order items, with every   *)
(* request taking effect in one indivisible step: a purchase takes all its *)
(* lines or none and never sells what is not in stock, an item walks the   *)
(* shipping lifecycle, and a cancellation gives stock back exactly when    *)
(* the item had not left the store.  Orders.tla, where the same requests   *)
(* are interleaved SQL statements under row locks, implements this module. *)
(***************************************************************************)
EXTENDS Integers, Sequences

CONSTANTS
  Offer,      \* identifiers of catalogue offers
  Checkout,   \* purchase requests; a committed one is an order
  Cart,       \* the carts buyers may submit: non-empty sequences of lines
  MaxLines    \* the length of the longest cart

VARIABLES
  stock,      \* stock[o]: units of offer o that can still be sold
  order,      \* order[c]: the lines bought by c, <<>> until it is placed
  status      \* status[<<c, n>>]: the status of line n of order c

vars == <<stock, order, status>>

Item == Checkout \X (1 .. MaxLines)

(***************************************************************************)
(* FORWARD in orders/status.py: the only moves a seller can make.          *)
(***************************************************************************)
Forward ==
  { <<"placed", "preparing">>, <<"preparing", "in_transit">>,
    <<"in_transit", "delivered">> }

Cancellable == {"placed", "preparing", "in_transit"}
Restocked   == {"placed", "preparing"}

Quantity(lines, o) ==
  LET onOffer == { n \in 1 .. Len(lines) : lines[n].offer = o }
  IN IF onOffer = {} THEN 0 ELSE lines[CHOOSE n \in onOffer : TRUE].quantity

Init ==
  /\ stock \in [Offer -> Nat]
  /\ order = [c \in Checkout |-> <<>>]
  /\ status = [i \in Item |-> "none"]

(***************************************************************************)
(* A purchase: every line is in stock, all are sold together.              *)
(***************************************************************************)
Place(c, lines) ==
  /\ order[c] = <<>>
  /\ \A o \in Offer : Quantity(lines, o) <= stock[o]
  /\ stock' = [o \in Offer |-> stock[o] - Quantity(lines, o)]
  /\ order' = [order EXCEPT ![c] = lines]
  /\ status' = [i \in Item |->
                  IF i[1] = c /\ i[2] <= Len(lines) THEN "placed" ELSE status[i]]

Advance(i, target) ==
  /\ <<status[i], target>> \in Forward
  /\ status' = [status EXCEPT ![i] = target]
  /\ UNCHANGED <<stock, order>>

Cancel(i) ==
  LET line == order[i[1]][i[2]]
  IN /\ status[i] \in Cancellable
     /\ status' = [status EXCEPT ![i] = "cancelled"]
     /\ stock' = IF status[i] \in Restocked
                   THEN [stock EXCEPT ![line.offer] = @ + line.quantity]
                   ELSE stock
     /\ UNCHANGED order

(***************************************************************************)
(* The seller declares a new stock level for an offer, any level.          *)
(***************************************************************************)
Restock(o) ==
  /\ stock'[o] \in Nat
  /\ stock' = [stock EXCEPT ![o] = stock'[o]]
  /\ UNCHANGED <<order, status>>

Next ==
  \/ \E c \in Checkout, lines \in Cart : Place(c, lines)
  \/ \E i \in Item, target \in {"preparing", "in_transit", "delivered"} :
        Advance(i, target)
  \/ \E i \in Item : Cancel(i)
  \/ \E o \in Offer : Restock(o)

Spec == Init /\ [][Next]_vars

=============================================================================
