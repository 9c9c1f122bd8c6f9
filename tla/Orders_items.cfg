\* Buyer and seller ship and cancel the two items of one order, two requests at a time.
CONSTANTS
  None = None
  o1 = o1
  o2 = o2
  buyer = c1
  Offer <- MCOffer
  Price <- MCPrice
  Catalogue <- BothOnSale
  Cart <- TwoLineCart
  MaxLines = 2
  OfferPayload <- NoPatch
  Checkout = {c1}
  ItemRequest = {r1, r2}
  OfferRequest = {}
SPECIFICATION Spec
INVARIANTS RestockedOnce EventsAreTrue DeadlockNeedsCheckoutsOrDelete
PROPERTIES RefinesOrderBook
SYMMETRY ItemSymmetry
