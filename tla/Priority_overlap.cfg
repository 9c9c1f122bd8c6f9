SPECIFICATION Spec
CONSTANTS
  Conversation = {1}
  Reason <- Late
  Price <- Worth600
  Unstamped = {}
  Thread = {t1}
  Run = {r1, r2}
  Served <- JustMessages
  PageSize = 1
  Moments <- AroundTwelve
  MaxFailures = 0
  None = None
INVARIANTS FreshIsCurrent
CHECK_DEADLOCK FALSE
