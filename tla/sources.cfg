CONSTANTS
  e1 = e1
  n1 = n1
  n2 = n2
  t1 = t1
  t2 = t2
  Events = {e1}
  Versions = {1, 2}
  Notes = {n1, n2}
  Texts = {t1, t2}
  None = None
  MaxMessages = 2
  MaxTime = 2
  MaxChanges = 3
  MaxFaults = 2
SPECIFICATION FairSpec
CHECK_DEADLOCK FALSE
CONSTRAINT Scenarios
INVARIANT NothingSkipped
PROPERTIES
  BookedIsLogged
  CancelledIsForgotten
