SPECIFICATION FairSpec
CONSTANTS
  moved = moved
  raised = raised
  silent = silent
  buyer = buyer
  seller = seller
  ops = ops
  mail = mail
  Change = {silent}
  Alert = {silent}
  User = {seller, ops}
  Recipients <- Told
  SellerEmail <- Mail
  Extra = None
  Slot = {s1, s2, s3, s4}
  Worker = {w1}
  MaxReceive = 2
  MaxFailures = 1
  MaxLost = 0
  Reconcile = Reconcile
  Unknown = Unknown
  None = None
INVARIANTS AlertsAreMailed
PROPERTIES AcceptedIsTold ReconcilesForever
CHECK_DEADLOCK FALSE
