CONSTANTS
  serve1 = serve1
  serve2 = serve2
  sleep1 = sleep1
  ingest1 = ingest1
  serve = serve
  sleep = sleep
  ingest = ingest
  NoProc = NoProc
  NoFile = NoFile
  Attempts = 2
  MaxCrashes = 0
  MaxLapses = 0
  Tasks <- ThreeProcTasks
  Procs <- ThreeProcs
  ProcOf <- ThreeProcOf
SPECIFICATION Spec
CHECK_DEADLOCK FALSE
INVARIANT MutualExclusion
