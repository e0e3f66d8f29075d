CONSTANTS
  alice = alice
  bob = bob
  deadline = deadline
  ItemList <- OneItem
  ChatList <- TwoChats
  MaxCards = 2
  MaxUpdates = 4
  MaxLapses = 1
  MaxFails = 1
  MaxCrashes = 1
SPECIFICATION CardSpec
CONSTRAINT Scenarios
CHECK_DEADLOCK FALSE
INVARIANTS
  OncePerCard
  ConfirmedFirst
  AllChatsTold
PROPERTIES
  NoDanglingCard
  NeverDropped
