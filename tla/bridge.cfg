CONSTANTS
  p1 = p1
  p2 = p2
  p3 = p3
  e1 = e1
  e2 = e2
  Proposals = {p1, p2, p3}
  Entities = {e1, e2}
  EntityOf <- EntityTable
  Due <- DueTable
  Chats = {c1, c2}
  DailyCap = 2
  GroupMax = 1
  MaxDays = 2
  MaxOthers = 1
  MaxTaps = 1
  MaxFails = 2
  MaxUnknown = 1
  MaxLost = 1
  MaxCrashes = 1
  MaxSlots = 2
SPECIFICATION BridgeSpec
CONSTRAINT Scenarios
CHECK_DEADLOCK FALSE
INVARIANTS
  RowsBacked
  PromptsAccounted
  RecordsTrue
PROPERTIES
  ClosedStays
  EventuallyPrompted
