SPECIFICATION FairSpec
CONSTANTS
  Conversation = {1, 2}
  Reason <- Late
  Price <- Worth99
  Unstamped = {1}
  Thread = {t1, t2}
  Run = {r1}
  Served <- OpsAndOthers
  PageSize = 1
  Moments <- AfterTwoDays
  MaxFailures = 1
  None = None
INVARIANTS TypeOK ClauseIsIsStale OverrideIsLastDecision
PROPERTIES EventsMatchRow ChangesAnnounced NeverEases StaleIsRepaired
CHECK_DEADLOCK FALSE
