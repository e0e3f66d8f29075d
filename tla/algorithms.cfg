CONSTANTS
  Backlogs <- SomeBacklogs
  Corpora <- SomeCorpora
  NoCorpus = NoCorpus
  NoTs = NoTs
  MaxRows = 4
  Times = {1, 2}
  Schemas = {11, 12, 13}
  TopK = 1
  Idf <- Thousandths
  Adjacency = 300
SPECIFICATION AlgorithmsSpec
INVARIANTS
  Descends
  Linked
PROPERTY ReplaysOldestFirst
