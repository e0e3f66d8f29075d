------------------------------ MODULE Lockfile ------------------------------
(***************************************************************************)
(* The sleep-pass lock: src/adapter/lockfile.ts.                           *)
(*                                                                         *)
(* Every writer of the store (the sleep pass, the scheduler, ingest, the   *)
(* request handlers of serve and of the MCP server) brackets its work with *)
(* acquireLock() and releaseLock().  Both are synchronous, so two tasks of *)
(* one process never interleave inside them, but every system call in them *)
(* interleaves with the calls of other processes: an action is one system  *)
(* call.  The lock names its owner by process id, not by task.             *)
(***************************************************************************)
EXTENDS Naturals

CONSTANTS Tasks,      \* flows of control that take the lock
          Procs,      \* processes; a restart is another element of Procs
          ProcOf,     \* the process each task runs in
          NoProc,     \* an empty lock file names no process
          NoFile,     \* the lock path does not exist
          Attempts,   \* attempts of acquireLockWithRetry (8 in the code)
          MaxCrashes, \* bound: processes killed in the middle of their work
          MaxLapses   \* bound: times a live holder's lock turns 30 minutes old

ASSUME ConstantsAssumption ==
  /\ ProcOf \in [Tasks -> Procs]
  /\ NoProc \notin Procs
  /\ Attempts \in Nat \ {0}
  /\ MaxCrashes \in Nat /\ MaxLapses \in Nat

\* The lock file.  Its creator identifies the file (two files of the same path
\* have different creators or never exist together); the code sees only the
\* process id written in it and its age.
File == [creator : Tasks, owner : Procs \cup {NoProc}, old : BOOLEAN]

ASSUME NoFileAssumption == NoFile \notin File

VARIABLES
  file,     \* what the lock path holds
  pc,       \* where each task is
  seen,     \* the process id a task has read from the file and is about to probe
  tries,    \* attempts left of acquireLockWithRetry
  running,  \* the processes of this program that have not ended
  pids,     \* the process ids kill(pid, 0) finds: running ones and recycled ones
  crashes, lapses

vars == <<file, pc, seen, tries, running, pids, crashes, lapses>>

\* Inside one synchronous call of acquireLock or releaseLock.
AcquireSteps == {"exists", "stat", "read", "kill", "reap", "create", "write"}
ReleaseSteps == {"age", "unlink"}
MidCall      == AcquireSteps \cup ReleaseSteps
Rest         == {"idle", "waiting", "held", "gone"}

\* From the O_EXCL create to the unlink: the caller may write to the store.
HolderSteps  == {"write", "held"} \cup ReleaseSteps
Holder(t)    == pc[t] \in HolderSteps /\ ProcOf[t] \in running

TypeOK ==
  /\ file \in File \cup {NoFile}
  /\ pc \in [Tasks -> MidCall \cup Rest]
  /\ seen \in [Tasks -> Procs \cup {NoProc}]
  /\ tries \in [Tasks -> 0..Attempts]
  /\ running \subseteq Procs /\ pids \subseteq Procs /\ running \subseteq pids
  /\ crashes \in 0..MaxCrashes /\ lapses \in 0..MaxLapses

Init ==
  /\ file = NoFile
  /\ pc = [t \in Tasks |-> "idle"]
  /\ seen = [t \in Tasks |-> NoProc]
  /\ tries = [t \in Tasks |-> 0]
  /\ running = Procs /\ pids = Procs
  /\ crashes = 0 /\ lapses = 0

-----------------------------------------------------------------------------
Go(t, to) == pc' = [pc EXCEPT ![t] = to]

Same(v) == UNCHANGED <<v, running, pids, crashes, lapses>>

\* The event loop of t's process is free: no task of it is inside a call.
LoopFree(t) ==
  /\ ProcOf[t] \in running
  /\ \A u \in Tasks : ProcOf[u] = ProcOf[t] => pc[u] \notin MidCall

\* A caller asks for the lock once (acquireLock) or with retries.
CallAcquire(t) ==
  /\ pc[t] = "idle" /\ LoopFree(t)
  /\ Go(t, "exists")
  /\ \E n \in {1, Attempts} : tries' = [tries EXCEPT ![t] = n]
  /\ Same(<<file, seen>>)

\* acquireLockWithRetry comes back from its 150 ms sleep.
Retry(t) ==
  /\ pc[t] = "waiting" /\ LoopFree(t)
  /\ Go(t, "exists")
  /\ Same(<<file, seen, tries>>)

\* acquireLock returns false: the retry loop sleeps, or the caller gives up.
Refused(t) ==
  /\ Go(t, IF tries[t] > 1 THEN "waiting" ELSE "idle")
  /\ tries' = [tries EXCEPT ![t] = @ - 1]
  /\ seen' = [seen EXCEPT ![t] = NoProc]
  /\ Same(file)

Exists(t) ==
  /\ pc[t] = "exists"
  /\ Go(t, IF file = NoFile THEN "create" ELSE "stat")
  /\ Same(<<file, seen, tries>>)

\* Fault: the age of the file is not looked at, only its pid.
StatIgnoresAge(t) ==
  /\ pc[t] = "stat"
  /\ Go(t, IF file = NoFile THEN "create" ELSE "read")
  /\ Same(<<file, seen, tries>>)

\* Fault: the age comparison is the wrong way round.
StatReversed(t) ==
  /\ pc[t] = "stat"
  /\ Go(t, IF file = NoFile THEN "create" ELSE IF file.old THEN "read" ELSE "reap")
  /\ Same(<<file, seen, tries>>)

\* An ENOENT of statSync falls through to the create.
Stat(t) ==
  /\ pc[t] = "stat"
  /\ Go(t, IF file = NoFile THEN "create" ELSE IF file.old THEN "reap" ELSE "read")
  /\ Same(<<file, seen, tries>>)

\* A vanished file and an empty one both count as held.
ReadHeld(t) ==
  /\ pc[t] = "read"
  /\ file = NoFile \/ (file # NoFile /\ file.owner = NoProc)
  /\ Refused(t)

ReadPid(t) ==
  /\ pc[t] = "read"
  /\ file # NoFile /\ file.owner # NoProc
  /\ seen' = [seen EXCEPT ![t] = file.owner]
  /\ Go(t, "kill")
  /\ Same(<<file, tries>>)

\* kill(pid, 0): a pid that answers holds the lock, ESRCH makes it stale.
KillAlive(t) == pc[t] = "kill" /\ seen[t] \in pids /\ Refused(t)

\* Fault: a lock that names the caller's own process is taken for a leftover.
KillDeadOrOwn(t) ==
  /\ pc[t] = "kill" /\ (seen[t] \notin pids \/ seen[t] = ProcOf[t])
  /\ Go(t, "reap")
  /\ seen' = [seen EXCEPT ![t] = NoProc]
  /\ Same(<<file, tries>>)

KillDead(t) ==
  /\ pc[t] = "kill" /\ seen[t] \notin pids
  /\ Go(t, "reap")
  /\ seen' = [seen EXCEPT ![t] = NoProc]
  /\ Same(<<file, tries>>)

\* renameSync takes away whatever the path holds NOW, then the sentinel is
\* unlinked (its name is private to the process); ENOENT falls through.
Reap(t) ==
  /\ pc[t] = "reap"
  /\ file' = NoFile
  /\ Go(t, "create")
  /\ Same(<<seen, tries>>)

\* Fault: the file is opened with 'w', without O_EXCL.
CreateTruncating(t) ==
  /\ pc[t] = "create"
  /\ file' = [creator |-> t, owner |-> NoProc, old |-> FALSE]
  /\ Go(t, "write")
  /\ tries' = [tries EXCEPT ![t] = 0]
  /\ Same(seen)

\* openSync(path, 'wx') either creates the file, still empty, or gets EEXIST.
Create(t) ==
  /\ pc[t] = "create" /\ file = NoFile
  /\ file' = [creator |-> t, owner |-> NoProc, old |-> FALSE]
  /\ Go(t, "write")
  /\ tries' = [tries EXCEPT ![t] = 0]
  /\ Same(seen)

CreateLost(t) == pc[t] = "create" /\ file # NoFile /\ Refused(t)

\* writeSync goes to the descriptor: it reaches the path only while the path
\* still names the file this task created.
WritePid(t) ==
  /\ pc[t] = "write"
  /\ file' = IF file # NoFile /\ file.creator = t
             THEN [file EXCEPT !.owner = ProcOf[t]] ELSE file
  /\ Go(t, "held")
  /\ Same(<<seen, tries>>)

\* heartbeatLock touches the path whoever owns it.
Heartbeat(t) ==
  /\ pc[t] = "held" /\ LoopFree(t)
  /\ file # NoFile
  /\ file' = [file EXCEPT !.old = FALSE]
  /\ Same(<<pc, seen, tries>>)

-----------------------------------------------------------------------------
\* releaseLock, first half: read the owner and decide.
ReadOwner(t) ==
  /\ pc[t] = "held" /\ LoopFree(t)
  /\ Go(t, IF file # NoFile /\ file.owner \notin {ProcOf[t], NoProc} THEN "idle"
           ELSE IF file # NoFile /\ file.owner = NoProc THEN "age"
           ELSE "unlink")
  /\ Same(<<file, seen, tries>>)

\* An empty file is left alone while it is fresh.
Age(t) ==
  /\ pc[t] = "age"
  /\ Go(t, IF file # NoFile /\ ~file.old THEN "idle" ELSE "unlink")
  /\ Same(<<file, seen, tries>>)

\* unlinkSync removes whatever the path holds NOW; ENOENT is ignored.
Unlink(t) ==
  /\ pc[t] = "unlink"
  /\ file' = NoFile
  /\ Go(t, "idle")
  /\ Same(<<seen, tries>>)

-----------------------------------------------------------------------------
\* The process ends; what it wrote to the file system stays.
End(p) ==
  /\ p \in running
  /\ running' = running \ {p} /\ pids' = pids \ {p}
  /\ pc' = [t \in Tasks |-> IF ProcOf[t] = p THEN "gone" ELSE pc[t]]
  /\ seen' = [t \in Tasks |-> IF ProcOf[t] = p THEN NoProc ELSE seen[t]]
  /\ tries' = [t \in Tasks |-> IF ProcOf[t] = p THEN 0 ELSE tries[t]]
  /\ UNCHANGED <<file, lapses>>

\* A command-line process that has finished its work and exits.
Exit(p) ==
  /\ \A t \in Tasks : ProcOf[t] = p => pc[t] = "idle"
  /\ End(p) /\ UNCHANGED crashes

\* SIGKILL, power loss: at any point.
Crash(p) ==
  /\ crashes < MaxCrashes /\ crashes' = crashes + 1
  /\ End(p)

\* The kernel gives the id of an ended process to an unrelated program.
Recycle(p) ==
  /\ p \notin pids
  /\ pids' = pids \cup {p}
  /\ UNCHANGED <<file, pc, seen, tries, running, crashes, lapses>>

\* Thirty minutes pass without a heartbeat on the lock of an ended process.
Expire ==
  /\ file # NoFile /\ ~file.old /\ ProcOf[file.creator] \notin running
  /\ file' = [file EXCEPT !.old = TRUE]
  /\ UNCHANGED <<pc, seen, tries, running, pids, crashes, lapses>>

\* The same for a live holder: a suspended laptop, a holder without a heartbeat.
Lapse ==
  /\ file # NoFile /\ ~file.old /\ ProcOf[file.creator] \in running
  /\ lapses < MaxLapses /\ lapses' = lapses + 1
  /\ file' = [file EXCEPT !.old = TRUE]
  /\ UNCHANGED <<pc, seen, tries, running, pids, crashes>>

-----------------------------------------------------------------------------
Acquiring(t) ==
  \/ CallAcquire(t) \/ Retry(t) \/ Exists(t) \/ Stat(t)
  \/ ReadHeld(t) \/ ReadPid(t) \/ KillAlive(t) \/ KillDead(t)
  \/ Reap(t) \/ Create(t) \/ CreateLost(t) \/ WritePid(t)

Releasing(t) == ReadOwner(t) \/ Age(t) \/ Unlink(t)

Step(t) == Acquiring(t) \/ Heartbeat(t) \/ Releasing(t)

Ending(p) == Exit(p) \/ Crash(p) \/ Recycle(p)

Next ==
  \/ \E t \in Tasks : Step(t)
  \/ \E p \in Procs : Ending(p)
  \/ Expire \/ Lapse

Spec == Init /\ [][Next]_vars

\* Callers keep coming (the scheduler's timer, the watcher's tick), a running
\* process gets the processor, a holder finishes although other tasks take
\* turns on its event loop, which is first come first served, and time passes.
Fairness ==
  /\ \A t \in Tasks : WF_vars(Acquiring(t)) /\ SF_vars(Releasing(t))
  /\ WF_vars(Expire)

FairSpec == Spec /\ Fairness

-----------------------------------------------------------------------------
\* Two tasks never both believe they hold the lock.  (lockfile.ts, "Exactly one
\* winner".)  It does NOT hold in general: see ExclusiveUnlessReclaimed.
MutualExclusion == \A t, u \in Tasks : Holder(t) /\ Holder(u) => t = u

AtMostTwoProcs == \A p, q, r \in Procs : p = q \/ q = r \/ p = r

\* The conditions under which the code's protocol is enough: no live lock ever
\* aged out, and either no process has ended or only two processes ever exist.
Sheltered == lapses = 0 /\ (running = Procs \/ AtMostTwoProcs)

\* The exclusion acquireLock does give: it can only be lost after a live
\* holder's lock was allowed to age out, or after a process of at least three
\* ended.  A crash, a restart and a recycled process id with two processes, or
\* any number of processes contending while none ends, never admit two writers.
ExclusiveUnlessReclaimed == Sheltered => MutualExclusion

\* A holder's own lock file is at the path for as long as it holds the lock, so
\* its release removes its own lock and nobody else's (releaseLock, WR-02).
HolderOwnsFile ==
  Sheltered => \A t \in Tasks :
    Holder(t) => /\ file # NoFile
                 /\ file.creator = t
                 /\ pc[t] # "write" => file.owner = ProcOf[t]

\* A lock left behind by an ended process is reclaimed, even when the process
\* died before it wrote its id into the file or when its id was recycled.
DeadLockReclaimed ==
  \A t \in Tasks :
    file # NoFile /\ file.creator = t /\ pc[t] = "gone"
      ~> file = NoFile \/ (file # NoFile /\ file.creator # t) \/ running = {}

\* The refinement: the file protocol implements the abstract lock, over every
\* interleaving of its system calls with exits, crashes and recycled ids.
Abstract == INSTANCE WriterLock WITH
              writers <- {t \in Tasks : Holder(t)}, sound <- Sheltered

ImplementsWriterLock == Abstract!Spec
=============================================================================
