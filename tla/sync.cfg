CONSTANTS
  p1 = p1
  p2 = p2
  entity = entity
  belief1 = belief1
  belief2 = belief2
  Proposals = {p1}
  Nodes = {belief1, entity}
  EntityOf <- Entities
  BeliefOf <- Beliefs
  Consumers = {s1, s2, human}
  Syncs = {s1, s2}
  Nobody = Nobody
  Sure = {p1}
  LocalIds = {1, 2, 3}
  MaxPasses = 2
  MaxTaps = 1
  MaxLosses = 1
  MaxCrashes = 1
  MaxStalls = 0
SPECIFICATION FairSpec
CHECK_DEADLOCK FALSE
CONSTRAINTS
  QuietDisplacement
  OneFault
  QuietSecondPass
INVARIANTS
  AckIsTrue
  LocalTruth
  OverlapOnlyByDisplacement
PROPERTIES
  ImplementsBoard
  ListedIsApprovable
  BegunIsFinished
