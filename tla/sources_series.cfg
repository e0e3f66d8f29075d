CONSTANTS
  e1 = e1
  n1 = n1
  n2 = n2
  t1 = t1
  t2 = t2
  Events = {e1}
  Versions = {1}
  Notes = {}
  Texts = {}
  None = None
  MaxMessages = 0
  MaxTime = 0
  MaxChanges = 2
  MaxFaults = 0
SPECIFICATION Spec
CHECK_DEADLOCK FALSE
INVARIANT SeriesSurvives
