SPECIFICATION Spec
CONSTANTS
  Item = {i1}
  Conversation = {c1}
  Thread = {t1, t2}
  Batch = {}
  Served <- CreateAndList
  InactivityHours = 1
  MaxTime = 2
  MaxMessages = 1
  None = None
SYMMETRY ThreadSymmetry
INVARIANTS ClosedOnce
CHECK_DEADLOCK FALSE
