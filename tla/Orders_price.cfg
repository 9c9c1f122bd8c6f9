\* The seller changes the price between the validation of a cart and the purchase.
CONSTANTS
  None = None
  o1 = o1
  o2 = o2
  buyer = c1
  Offer <- MCOffer
  Price <- MCPrice
  Catalogue <- BothOnSale
  Cart <- OneLineCart
  MaxLines = 1
  OfferPayload <- MixedPatches
  Checkout = {c1}
  ItemRequest = {}
  OfferRequest = {f1}
SPECIFICATION Spec
PROPERTIES PaidIsCurrentPrice
