SPECIFICATION Spec
CONSTANTS
  moved = moved
  raised = raised
  silent = silent
  buyer = buyer
  seller = seller
  ops = ops
  mail = mail
  Change = {raised}
  Alert = {raised}
  User = {seller, ops}
  Recipients <- Told
  SellerEmail <- Mail
  Extra = extra
  Slot = {s1, s2}
  Worker = {w1, w2}
  MaxReceive = 2
  MaxFailures = 1
  MaxLost = 1
  Reconcile = Reconcile
  Unknown = Unknown
  None = None
SYMMETRY Symmetry
INVARIANTS TypeOK AcceptedIsKept AlertsAreMailed
PROPERTIES KeepsPromise
CHECK_DEADLOCK FALSE
