SPECIFICATION Spec
CONSTANTS
  Item = {i1}
  Conversation = {c1, c2}
  Thread = {t1, t2}
  Batch = {b1}
  Served <- Endpoint
  InactivityHours = 2
  MaxTime = 2
  MaxMessages = 1
  None = None
SYMMETRY ThreadSymmetry
INVARIANTS TypeOK IndexNeverHit EventsAreTrue
PROPERTIES SaidWhileOpen ClosesWhatItSees
CHECK_DEADLOCK FALSE
