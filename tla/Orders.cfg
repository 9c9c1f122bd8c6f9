\* Two checkouts that share both offers, then item requests and the edits of the offers; every request ends.
CONSTANTS
  None = None
  o1 = o1
  o2 = o2
  buyer = c1
  Offer <- MCOffer
  Price <- MCPrice
  Catalogue <- EitherCatalogue
  Cart <- AnyCart
  MaxLines = 2
  OfferPayload <- NewOffer
  Checkout = {c1, c2}
  ItemRequest = {r1}
  OfferRequest = {f1}
SPECIFICATION FairSpec
CONSTRAINT FewActors
INVARIANTS TypeOK PaidAsExpected NoOrphanItem StockConserved
PROPERTIES EveryRequestEnds
