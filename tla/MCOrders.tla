------------------------------ MODULE MCOrders ------------------------------
(***************************************************************************)
(* Small instances of Orders for TLC.  Two offers are enough for two       *)
(* checkouts to lock rows in opposite orders; prices and quantities take   *)
(* the values a comparison tells apart.                                    *)
(***************************************************************************)
EXTENDS Orders, TLC

CONSTANTS o1, o2, buyer

MCOffer == {o1, o2}
MCPrice == {10, 20}

Line(o, q, p) == [offer |-> o, quantity |-> q, expected_price |-> p]
Patch(p, s, a) == [price |-> p, stock |-> s, available |-> a]

\* Both offers on sale at price 10; there is one unit of o2 to compete for.
BothOnSale ==
  { [state |-> [o \in MCOffer |-> "live"], price |-> [o \in MCOffer |-> 10],
     stock |-> o1 :> 2 @@ o2 :> 1, available |-> [o \in MCOffer |-> TRUE]] }

\* o2 is created during the run.
OneOnSale ==
  { [state |-> o1 :> "live" @@ o2 :> "absent", price |-> [o \in MCOffer |-> 10],
     stock |-> o1 :> 2 @@ o2 :> 0, available |-> [o \in MCOffer |-> TRUE]] }

TwoLineCart == { <<Line(o1, 1, 10), Line(o2, 1, 10)>> }
OppositeCarts ==
  { <<Line(o1, 1, 10), Line(o2, 1, 10)>>, <<Line(o2, 1, 10), Line(o1, 1, 10)>> }
OneLineCart == { <<Line(o1, 2, 10)>> }
OneLineCarts == { <<Line(o2, 2, 20)>> }

\* A price rise with a restock, taking the offer off sale, and its reverse.
MixedPatches ==
  { Patch(20, 2, None), Patch(None, None, FALSE), Patch(10, 1, TRUE) }
NewOffer == { Patch(20, 2, None) }
NoPatch == {}

AnyCart == OppositeCarts \union OneLineCarts
EitherCatalogue == BothOnSale \union OneOnSale

\* Who is at work, so that each kind of race stays small: two checkouts and the
\* seller's edits, before any item moves; or one checkout, the requests about
\* its only item, and the seller, who creates, edits and deletes o2.
FewActors ==
  \/ /\ \A r \in ItemRequest : pc[r] = "idle"
     /\ \A i \in Item : moves[i] = {}
     /\ \A o \in Offer : offerState[o] # "absent"
     /\ \A c \in Checkout : cart[c] # <<>> => cart[c] \in OppositeCarts
  \/ /\ \A c \in Checkout : pc[c] # "idle" => c = buyer
     /\ cart[buyer] # <<>> => cart[buyer] \in OneLineCarts
     /\ offerState[o2] = "live" => price[o2] = 20

ItemSymmetry == Permutations(ItemRequest)

=============================================================================
