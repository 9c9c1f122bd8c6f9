SPECIFICATION FairSpec
CONSTANTS
  Item = {i1}
  Conversation = {c1}
  Thread = {t1, t2}
  Batch = {b1}
  Served <- Endpoint
  InactivityHours = 1
  MaxTime = 1
  MaxMessages = 1
  None = None
PROPERTIES EveryRequestEnds
CHECK_DEADLOCK FALSE
