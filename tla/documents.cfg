CONSTANTS
  Hub = hub
  subject = subject
  first = first
  second = second
  Subjects = {subject}
  Chapters = {first, second}
  Order <- Shelf
  SchemasOf <- Grouped
  Exhaust = {}
  Generators = {g1, g2}
  Nobody = Nobody
  Budget = 1
  MaxSurveys = 1
  MaxChanges = 2
  MaxClicks = 2
  MaxFails = 1
  MaxCrashes = 1
CONSTRAINT Scenarios
SPECIFICATION FairSpec
CHECK_DEADLOCK FALSE
INVARIANTS
  OneLivePerSlug
  GraphMatchesDocs
PROPERTIES
  TextStays
  MarkerHonoured
  StubsDrain
