CONSTANTS
  serve1 = serve1
  serve2 = serve2
  sleep1 = sleep1
  ingest1 = ingest1
  serve = serve
  sleep = sleep
  ingest = ingest
  NoProc = NoProc
  NoFile = NoFile
  Attempts = 2
  MaxCrashes = 1
  MaxLapses = 1
  Tasks <- TwoProcTasks
  Procs <- TwoProcs
  ProcOf <- TwoProcOf
SPECIFICATION FairSpec
CHECK_DEADLOCK FALSE
INVARIANTS
  ExclusiveUnlessReclaimed
  HolderOwnsFile
PROPERTIES
  ImplementsWriterLock
  DeadLockReclaimed
