---------------------------- MODULE OrderStatus ----------------------------
(***************************************************************************)
(* The status rules of an order item (orders/status.py), as constants of   *)
(* the specification: no state, shared by every module that moves items.   *)
(***************************************************************************)

Placed == "placed"

\* OrderItemStatus and OrderItemForwardStatus in orders/schemas.py: the
\* second is what a PATCH may ask for, "cancelled" is reached by /cancel only.
OrderItemForwardStatus == {"placed", "preparing", "in_transit", "delivered"}
OrderItemStatus == OrderItemForwardStatus \union {"cancelled"}

FORWARD ==
  [s \in {"placed", "preparing", "in_transit"} |->
     CASE s = "placed"     -> "preparing"
       [] s = "preparing"  -> "in_transit"
       [] s = "in_transit" -> "delivered"]

BUYER_CANCEL_STATUSES  == {"placed", "preparing"}
SELLER_CANCEL_STATUSES == {"placed", "preparing", "in_transit"}
STOCK_RESTORE_STATUSES == {"placed", "preparing"}

\* assert_forward_transition does not raise.
ForwardTransition(current, target) ==
  current \in DOMAIN FORWARD /\ FORWARD[current] = target

CanCancel(current, role) ==
  \/ role = "buyer" /\ current \in BUYER_CANCEL_STATUSES
  \/ role = "seller" /\ current \in SELLER_CANCEL_STATUSES

\* Mutant of RestoresStockOnCancel: a cancellation always gives stock back.
RestoresOnAnyCancel(current) == current \in SELLER_CANCEL_STATUSES

RestoresStockOnCancel(current) == current \in STOCK_RESTORE_STATUSES

=============================================================================
