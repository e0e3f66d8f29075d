-------------------------- MODULE Lockfile_proofs --------------------------
(***************************************************************************)
(* Proofs about Lockfile, for every set of tasks and processes.            *)
(*                                                                         *)
(* The invariant has two layers.  Bookkeeping holds unconditionally.       *)
(* Ownership holds while the lock is Sheltered and is what makes mutual    *)
(* exclusion inductive: a verdict "stale" that is still pending (a task at *)
(* "reap", or at "kill" with a dead process id) means nobody holds the     *)
(* lock, because the verdict needs an ended process and then the only      *)
(* process left is the one that is busy with the verdict.                  *)
(***************************************************************************)
EXTENDS Lockfile, TLAPS

\* A task that may still be refused has an attempt left to count down.
AttemptsLeft ==
  \A t \in Tasks : pc[t] \in (AcquireSteps \ {"write"}) \cup {"waiting"} => tries[t] >= 1

Typing == TypeOK /\ AttemptsLeft

\* Tasks of ended processes, and only those, are gone; a process is inside at
\* most one call; a lock file names its creator's process or nobody.
Bookkeeping ==
  /\ \A t \in Tasks : pc[t] = "gone" <=> ProcOf[t] \notin running
  /\ \A t, u \in Tasks : /\ ProcOf[t] = ProcOf[u]
                         /\ pc[t] \in MidCall /\ pc[u] \in MidCall
                         => t = u
  /\ file # NoFile => file.owner \in {NoProc, ProcOf[file.creator]}
  /\ \A t \in Tasks : pc[t] = "kill" => seen[t] \in Procs

\* A pending verdict that the lock is stale.
Condemns(t) == pc[t] = "reap" \/ (pc[t] = "kill" /\ seen[t] \notin running)

Ownership ==
  /\ \A t \in Tasks : Holder(t) => /\ file # NoFile
                                   /\ file.creator = t
                                   /\ pc[t] # "age"
                                   /\ pc[t] # "write" => file.owner = ProcOf[t]
  /\ file # NoFile /\ file.old => ProcOf[file.creator] \notin running
  /\ \A t \in Tasks : Condemns(t) => /\ running # Procs
                                     /\ \A u \in Tasks : ~Holder(u)
  /\ \A t \in Tasks : pc[t] = "kill" /\ seen[t] # ProcOf[t]
                        => \A u \in Tasks : ProcOf[u] = ProcOf[t] => ~Holder(u)

Inv == Typing /\ Bookkeeping /\ (Sheltered => Ownership)

-----------------------------------------------------------------------------
LEMMA TypeStep == Typing /\ [Next]_vars => Typing'
<1> SUFFICES ASSUME Typing, [Next]_vars PROVE Typing'
  OBVIOUS
<1> USE ConstantsAssumption, NoFileAssumption
        DEF Typing, AttemptsLeft, TypeOK, File, MidCall, AcquireSteps, ReleaseSteps, Rest
<1>1. ASSUME NEW t \in Tasks, CallAcquire(t) PROVE Typing'
  BY <1>1 DEF CallAcquire, Go, Same, LoopFree
<1>2. ASSUME NEW t \in Tasks, Retry(t) PROVE Typing'
  BY <1>2 DEF Retry, Go, Same, LoopFree
<1>3. ASSUME NEW t \in Tasks, Exists(t) PROVE Typing'
  BY <1>3 DEF Exists, Go, Same
<1>4. ASSUME NEW t \in Tasks, Stat(t) PROVE Typing'
  BY <1>4 DEF Stat, Go, Same
<1>5. ASSUME NEW t \in Tasks, ReadHeld(t) PROVE Typing'
  BY <1>5 DEF ReadHeld, Go, Same, Refused
<1>6. ASSUME NEW t \in Tasks, ReadPid(t) PROVE Typing'
  BY <1>6 DEF ReadPid, Go, Same
<1>7. ASSUME NEW t \in Tasks, KillAlive(t) PROVE Typing'
  BY <1>7 DEF KillAlive, Go, Same, Refused
<1>8. ASSUME NEW t \in Tasks, KillDead(t) PROVE Typing'
  BY <1>8 DEF KillDead, Go, Same
<1>9. ASSUME NEW t \in Tasks, Reap(t) PROVE Typing'
  BY <1>9 DEF Reap, Go, Same
<1>10. ASSUME NEW t \in Tasks, Create(t) PROVE Typing'
  BY <1>10 DEF Create, Go, Same
<1>11. ASSUME NEW t \in Tasks, CreateLost(t) PROVE Typing'
  BY <1>11 DEF CreateLost, Go, Same, Refused
<1>12. ASSUME NEW t \in Tasks, WritePid(t) PROVE Typing'
  BY <1>12 DEF WritePid, Go, Same
<1>13. ASSUME NEW t \in Tasks, Heartbeat(t) PROVE Typing'
  BY <1>13 DEF Heartbeat, Go, Same, LoopFree
<1>14. ASSUME NEW t \in Tasks, ReadOwner(t) PROVE Typing'
  BY <1>14 DEF ReadOwner, Go, Same, LoopFree
<1>15. ASSUME NEW t \in Tasks, Age(t) PROVE Typing'
  BY <1>15 DEF Age, Go, Same
<1>16. ASSUME NEW t \in Tasks, Unlink(t) PROVE Typing'
  BY <1>16 DEF Unlink, Go, Same
<1>17. ASSUME NEW p \in Procs, Exit(p) PROVE Typing'
  BY <1>17 DEF Exit, End
<1>18. ASSUME NEW p \in Procs, Crash(p) PROVE Typing'
  BY <1>18 DEF Crash, End
<1>19. ASSUME NEW p \in Procs, Recycle(p) PROVE Typing'
  BY <1>19 DEF Recycle
<1>20. CASE Expire
  BY <1>20 DEF Expire
<1>21. CASE Lapse
  <2>1. lapses' \in 0..MaxLapses
    BY <1>21 DEF Lapse
  <2>2. file' \in File
    BY <1>21 DEF Lapse
  <2> QED
    BY <1>21, <2>1, <2>2 DEF Lapse
<1>22. CASE UNCHANGED vars
  BY <1>22 DEF vars
<1>23. QED
  BY <1>1, <1>2, <1>3, <1>4, <1>5, <1>6, <1>7, <1>8, <1>9, <1>10, <1>11, <1>12, <1>13, <1>14, <1>15, <1>16, <1>17, <1>18, <1>19, <1>20, <1>21, <1>22
  DEF Next, Step, Acquiring, Releasing, Ending

LEMMA BookkeepingStep == TypeOK /\ Bookkeeping /\ [Next]_vars => Bookkeeping'
<1> SUFFICES ASSUME TypeOK, Bookkeeping, [Next]_vars PROVE Bookkeeping'
  OBVIOUS
<1> USE ConstantsAssumption, NoFileAssumption
        DEF TypeOK, File, MidCall, AcquireSteps, ReleaseSteps, Rest, Bookkeeping
<1>1. ASSUME NEW t \in Tasks, CallAcquire(t) PROVE Bookkeeping'
  BY <1>1 DEF CallAcquire, Go, Same, LoopFree
<1>2. ASSUME NEW t \in Tasks, Retry(t) PROVE Bookkeeping'
  BY <1>2 DEF Retry, Go, Same, LoopFree
<1>3. ASSUME NEW t \in Tasks, Exists(t) PROVE Bookkeeping'
  BY <1>3 DEF Exists, Go, Same
<1>4. ASSUME NEW t \in Tasks, Stat(t) PROVE Bookkeeping'
  BY <1>4 DEF Stat, Go, Same
<1>5. ASSUME NEW t \in Tasks, ReadHeld(t) PROVE Bookkeeping'
  BY <1>5 DEF ReadHeld, Go, Same, Refused
<1>6. ASSUME NEW t \in Tasks, ReadPid(t) PROVE Bookkeeping'
  BY <1>6 DEF ReadPid, Go, Same
<1>7. ASSUME NEW t \in Tasks, KillAlive(t) PROVE Bookkeeping'
  BY <1>7 DEF KillAlive, Go, Same, Refused
<1>8. ASSUME NEW t \in Tasks, KillDead(t) PROVE Bookkeeping'
  BY <1>8 DEF KillDead, Go, Same
<1>9. ASSUME NEW t \in Tasks, Reap(t) PROVE Bookkeeping'
  BY <1>9 DEF Reap, Go, Same
<1>10. ASSUME NEW t \in Tasks, Create(t) PROVE Bookkeeping'
  BY <1>10 DEF Create, Go, Same
<1>11. ASSUME NEW t \in Tasks, CreateLost(t) PROVE Bookkeeping'
  BY <1>11 DEF CreateLost, Go, Same, Refused
<1>12. ASSUME NEW t \in Tasks, WritePid(t) PROVE Bookkeeping'
  BY <1>12 DEF WritePid, Go, Same
<1>13. ASSUME NEW t \in Tasks, Heartbeat(t) PROVE Bookkeeping'
  BY <1>13 DEF Heartbeat, Go, Same, LoopFree
<1>14. ASSUME NEW t \in Tasks, ReadOwner(t) PROVE Bookkeeping'
  BY <1>14 DEF ReadOwner, Go, Same, LoopFree
<1>15. ASSUME NEW t \in Tasks, Age(t) PROVE Bookkeeping'
  BY <1>15 DEF Age, Go, Same
<1>16. ASSUME NEW t \in Tasks, Unlink(t) PROVE Bookkeeping'
  BY <1>16 DEF Unlink, Go, Same
<1>17. ASSUME NEW p \in Procs, Exit(p) PROVE Bookkeeping'
  BY <1>17 DEF Exit, End
<1>18. ASSUME NEW p \in Procs, Crash(p) PROVE Bookkeeping'
  BY <1>18 DEF Crash, End
<1>19. ASSUME NEW p \in Procs, Recycle(p) PROVE Bookkeeping'
  BY <1>19 DEF Recycle
<1>20. CASE Expire
  BY <1>20 DEF Expire
<1>21. CASE Lapse
  BY <1>21 DEF Lapse
<1>22. CASE UNCHANGED vars
  BY <1>22 DEF vars
<1>23. QED
  BY <1>1, <1>2, <1>3, <1>4, <1>5, <1>6, <1>7, <1>8, <1>9, <1>10, <1>11, <1>12, <1>13, <1>14, <1>15, <1>16, <1>17, <1>18, <1>19, <1>20, <1>21, <1>22
  DEF Next, Step, Acquiring, Releasing, Ending

\* Processes only ever end, and lapses are only ever added: a state that is
\* Sheltered was always Sheltered.
LEMMA ShelterStep ==
  [Next]_vars =>
    running' \subseteq running /\ (lapses' = lapses \/ lapses' = lapses + 1)
<1> SUFFICES ASSUME [Next]_vars
             PROVE  running' \subseteq running /\ (lapses' = lapses \/ lapses' = lapses + 1)
  OBVIOUS
<1>1. ASSUME NEW t \in Tasks, Step(t) PROVE running' = running /\ lapses' = lapses
  BY <1>1 DEF Step, Acquiring, Releasing, CallAcquire, Retry, Exists, Stat, ReadHeld,
              ReadPid, KillAlive, KillDead, Reap, Create, CreateLost, WritePid,
              Heartbeat, ReadOwner, Age, Unlink, Refused, Same
<1>2. ASSUME NEW p \in Procs, Ending(p)
      PROVE running' \subseteq running /\ lapses' = lapses
  BY <1>2 DEF Ending, Exit, Crash, Recycle, End
<1>3. CASE Expire \/ Lapse
  BY <1>3 DEF Expire, Lapse
<1>4. QED
  BY <1>1, <1>2, <1>3 DEF Next, vars

LEMMA OwnershipStep ==
  Inv /\ [Next]_vars /\ Sheltered' => Ownership'
<1> SUFFICES ASSUME Inv, [Next]_vars, Sheltered' PROVE Ownership'
  OBVIOUS
<1> USE ConstantsAssumption, NoFileAssumption
        DEF Inv, Typing, TypeOK, File, MidCall, AcquireSteps, ReleaseSteps, Rest,
            Bookkeeping, Holder, HolderSteps, Condemns
<1>1. running' \subseteq running /\ (lapses' = lapses \/ lapses' = lapses + 1)
  BY ShelterStep
<1>2. Sheltered
  BY <1>1 DEF Sheltered
<1>3. Ownership
  BY <1>2
<1>4. ASSUME NEW t \in Tasks, CallAcquire(t) PROVE Ownership'
  BY <1>3, <1>4 DEF Ownership, CallAcquire, Go, Same, LoopFree
<1>5. ASSUME NEW t \in Tasks, Retry(t) PROVE Ownership'
  BY <1>3, <1>5 DEF Ownership, Retry, Go, Same, LoopFree
<1>6. ASSUME NEW t \in Tasks, Exists(t) PROVE Ownership'
  BY <1>3, <1>6 DEF Ownership, Exists, Go, Same
<1>7. ASSUME NEW t \in Tasks, Stat(t) PROVE Ownership'
  BY <1>3, <1>7 DEF Ownership, Stat, Go, Same
<1>8. ASSUME NEW t \in Tasks, ReadHeld(t) PROVE Ownership'
  BY <1>3, <1>8 DEF Ownership, ReadHeld, Go, Same, Refused
<1>9. ASSUME NEW t \in Tasks, ReadPid(t) PROVE Ownership'
  BY <1>3, <1>9 DEF Ownership, ReadPid, Go, Same
<1>10. ASSUME NEW t \in Tasks, KillAlive(t) PROVE Ownership'
  BY <1>3, <1>10 DEF Ownership, KillAlive, Go, Same, Refused
<1>11. ASSUME NEW t \in Tasks, KillDead(t) PROVE Ownership'
  BY <1>3, <1>11 DEF Ownership, KillDead, Go, Same
<1>12. ASSUME NEW t \in Tasks, Reap(t) PROVE Ownership'
  BY <1>3, <1>12 DEF Ownership, Reap, Go, Same
<1>13. ASSUME NEW t \in Tasks, Create(t) PROVE Ownership'
  <2>1. \A u \in Tasks : ~Holder(u)
    BY <1>3, <1>13 DEF Ownership, Create
  <2>2. /\ ProcOf[t] \in running
        /\ pc[t] = "create" /\ pc' = [pc EXCEPT ![t] = "write"]
        /\ UNCHANGED <<seen, running>>
    BY <1>13 DEF Create, Go, Same
  <2>3. \A u \in Tasks : Holder(u)' => u = t
    BY <2>1, <2>2
  <2>4. file' = [creator |-> t, owner |-> NoProc, old |-> FALSE]
    BY <1>13 DEF Create
  <2>5. /\ file' # NoFile /\ file'.creator = t /\ ~file'.old
        /\ pc'[t] = "write"
    <3>1. file' \in File
      BY <2>4
    <3> QED
      BY <2>2, <2>4, <3>1
  \* A verdict needs an ended process; t's process is then the only one left.
  <2>6. ASSUME NEW u \in Tasks, Condemns(u)' PROVE FALSE
    <3>1. Condemns(u) /\ ProcOf[u] \in running
      BY <2>2, <2>6
    <3>2. PICK p \in Procs : p \notin running
      BY <1>3, <3>1 DEF Ownership
    <3>3. AtMostTwoProcs
      BY <1>2, <3>2 DEF Sheltered
    <3>4. ProcOf[u] = ProcOf[t]
      BY <2>2, <3>1, <3>2, <3>3 DEF AtMostTwoProcs
    <3>5. u = t
      BY <2>2, <3>1, <3>4
    <3> QED
      BY <2>2, <3>1, <3>5
  <2>7. ASSUME NEW u \in Tasks, pc'[u] = "kill", ProcOf[u] = ProcOf[t] PROVE FALSE
    BY <2>2, <2>7
  <2> QED
    BY <2>2, <2>3, <2>5, <2>6, <2>7 DEF Ownership
<1>14. ASSUME NEW t \in Tasks, CreateLost(t) PROVE Ownership'
  BY <1>3, <1>14 DEF Ownership, CreateLost, Go, Same, Refused
<1>15. ASSUME NEW t \in Tasks, WritePid(t) PROVE Ownership'
  BY <1>3, <1>15 DEF Ownership, WritePid, Go, Same
<1>16. ASSUME NEW t \in Tasks, Heartbeat(t) PROVE Ownership'
  <2>1. UNCHANGED <<pc, seen, running>>
    BY <1>16 DEF Heartbeat, Same
  <2>2. file # NoFile /\ file' = [file EXCEPT !.old = FALSE]
    BY <1>16 DEF Heartbeat
  <2>3. file' \in File /\ file \in File
    BY <2>2
  <2>4. /\ file' # NoFile /\ ~file'.old
        /\ file'.creator = file.creator /\ file'.owner = file.owner
    BY <2>2, <2>3
  <2> QED
    BY <1>3, <2>1, <2>4 DEF Ownership
<1>17. ASSUME NEW t \in Tasks, ReadOwner(t) PROVE Ownership'
  BY <1>3, <1>17 DEF Ownership, ReadOwner, Go, Same, LoopFree
<1>18. ASSUME NEW t \in Tasks, Age(t) PROVE Ownership'
  BY <1>3, <1>18 DEF Ownership, Age, Go, Same
<1>19. ASSUME NEW t \in Tasks, Unlink(t) PROVE Ownership'
  BY <1>3, <1>19 DEF Ownership, Unlink, Go, Same
<1>20. ASSUME NEW p \in Procs, End(p) PROVE Ownership'
  <2>1. ASSUME NEW u \in Tasks, Holder(u)' PROVE Holder(u)
    BY <1>20, <2>1 DEF End
  <2>2. ASSUME NEW t \in Tasks, pc'[t] = "kill"
        PROVE  /\ pc[t] = "kill" /\ seen'[t] = seen[t]
               /\ ProcOf[t] \in running'
    BY <1>20, <2>2 DEF End
  <2>3. running' = running \ {p} /\ file' = file
    BY <1>20 DEF End
  <2>4. ASSUME NEW t \in Tasks, Condemns(t)'
        PROVE  \A u \in Tasks : ~Holder(u)'
    <3>1. CASE Condemns(t)
      BY <1>3, <2>1, <3>1 DEF Ownership
    \* t has read the id of p, which ends before it is probed: only t's process
    \* is left, and no task of it holds the lock.
    <3>2. CASE pc[t] = "kill" /\ seen[t] = p
      <4>1. seen[t] # ProcOf[t] /\ ProcOf[t] \in running'
        BY <1>20, <2>4, <3>2 DEF End
      <4>2. AtMostTwoProcs
        BY <2>3 DEF Sheltered
      <4> QED
        BY <1>3, <2>1, <2>3, <3>2, <4>1, <4>2 DEF Ownership, AtMostTwoProcs
    <3> QED
      BY <1>20, <2>3, <2>4, <3>1, <3>2 DEF End
  <2>5. running' # Procs
    BY <2>3
  <2> QED
    BY <1>3, <1>20, <2>1, <2>2, <2>3, <2>4, <2>5 DEF Ownership, End
<1>21. ASSUME NEW p \in Procs, Exit(p) \/ Crash(p) PROVE Ownership'
  BY <1>20, <1>21 DEF Exit, Crash
<1>22. ASSUME NEW p \in Procs, Recycle(p) PROVE Ownership'
  BY <1>3, <1>22 DEF Ownership, Recycle
<1>23. CASE Expire
  BY <1>3, <1>23 DEF Ownership, Expire, Sheltered
<1>24. CASE Lapse
  BY <1>3, <1>24 DEF Ownership, Lapse, Sheltered
<1>25. CASE UNCHANGED vars
  BY <1>3, <1>25 DEF Ownership, vars
<1>26. QED
  BY <1>4, <1>5, <1>6, <1>7, <1>8, <1>9, <1>10, <1>11, <1>12, <1>13, <1>14, <1>15, <1>16, <1>17, <1>18, <1>19, <1>21, <1>22, <1>23, <1>24, <1>25
  DEF Next, Step, Acquiring, Releasing, Ending

LEMMA InitInv == Init => Inv
BY ConstantsAssumption
DEF Init, Inv, Typing, TypeOK, AttemptsLeft, AcquireSteps, MidCall, Rest, Bookkeeping,
    Ownership, Holder, HolderSteps, ReleaseSteps, Condemns

LEMMA Invariance == Spec => []Inv
<1>1. Inv /\ [Next]_vars => Inv'
  BY TypeStep, BookkeepingStep, OwnershipStep DEF Inv, Typing
<1> QED
  BY <1>1, InitInv, PTL DEF Spec

-----------------------------------------------------------------------------
(***************************************************************************)
(* Every reachable state is well typed, for all tasks, processes and       *)
(* bounds; acquireLockWithRetry never counts below zero.                   *)
(***************************************************************************)
THEOREM TypeCorrect == Spec => []TypeOK
<1>1. Inv => TypeOK
  BY DEF Inv, Typing
<1> QED
  BY <1>1, Invariance, PTL

(***************************************************************************)
(* acquireLock admits one writer unless a live lock aged out or a process  *)
(* of three or more ended.                                                 *)
(***************************************************************************)
THEOREM Exclusion == Spec => []ExclusiveUnlessReclaimed
<1>1. Inv => ExclusiveUnlessReclaimed
  BY DEF Inv, Ownership, ExclusiveUnlessReclaimed, MutualExclusion
<1> QED
  BY <1>1, Invariance, PTL

(***************************************************************************)
(* Under the same conditions the file at the lock path is the holder's     *)
(* own from the create to the unlink, so releaseLock removes its own lock. *)
(***************************************************************************)
THEOREM OwnFile == Spec => []HolderOwnsFile
<1>1. Inv => HolderOwnsFile
  BY DEF Inv, Ownership, HolderOwnsFile
<1> QED
  BY <1>1, Invariance, PTL

-----------------------------------------------------------------------------
LEMMA AbstractStep == Inv /\ [Next]_vars => [Abstract!Next]_(Abstract!vars)
<1> SUFFICES ASSUME Inv, [Next]_vars PROVE [Abstract!Next]_(Abstract!vars)
  OBVIOUS
<1> USE ConstantsAssumption, NoFileAssumption
        DEF Inv, Typing, TypeOK, File, MidCall, AcquireSteps, ReleaseSteps, Rest,
            Bookkeeping, Holder, HolderSteps
<1> DEFINE Writers == {t \in Tasks : Holder(t)}
           Stutter == Writers' = Writers /\ running' = running /\ lapses' = lapses
<1>1. ASSUME UNCHANGED <<running, lapses>> PROVE Sheltered' = Sheltered
  BY <1>1 DEF Sheltered
<1>2. ASSUME NEW t \in Tasks, Create(t) PROVE Abstract!Acquire(t)
  <2>1. Sheltered => Writers = {}
    BY <1>2 DEF Ownership, Create
  <2>2. /\ ProcOf[t] \in running /\ UNCHANGED <<running, lapses>>
        /\ pc' = [pc EXCEPT ![t] = "write"]
    BY <1>2 DEF Create, Go, Same
  <2>3. Writers' = Writers \cup {t}
    BY <2>2
  <2> QED
    BY <1>1, <2>1, <2>2, <2>3 DEF Abstract!Acquire
<1>3. ASSUME NEW t \in Tasks, Holder(t), pc' = [pc EXCEPT ![t] = "idle"],
             UNCHANGED <<running, lapses>>
      PROVE Abstract!Release(t)
  <2>1. Writers' = Writers \ {t}
    BY <1>3
  <2> QED
    BY <1>1, <1>3, <2>1 DEF Abstract!Release
<1>4. ASSUME NEW t \in Tasks, Releasing(t) PROVE Stutter \/ Abstract!Release(t)
  <2>1. Holder(t) /\ UNCHANGED <<running, lapses>>
    BY <1>4 DEF Releasing, ReadOwner, Age, Unlink, LoopFree, Same
  <2>2. \/ pc' = [pc EXCEPT ![t] = "idle"]
        \/ pc' = [pc EXCEPT ![t] = "age"] \/ pc' = [pc EXCEPT ![t] = "unlink"]
    BY <1>4 DEF Releasing, ReadOwner, Age, Unlink, Go
  <2>3. CASE pc' = [pc EXCEPT ![t] = "idle"]
    BY <1>3, <2>1, <2>3
  <2>4. CASE pc' = [pc EXCEPT ![t] = "age"] \/ pc' = [pc EXCEPT ![t] = "unlink"]
    BY <2>1, <2>4
  <2> QED
    BY <2>2, <2>3, <2>4
<1>5. ASSUME NEW t \in Tasks, Acquiring(t) \/ Heartbeat(t), ~Create(t) PROVE Stutter
  BY <1>5 DEF Acquiring, CallAcquire, Retry, Exists, Stat, ReadHeld,
              ReadPid, KillAlive, KillDead, Reap, CreateLost, WritePid, Heartbeat,
              Refused, Go, Same, LoopFree
<1>6. ASSUME NEW p \in Procs, Exit(p) \/ Crash(p) PROVE Abstract!End(p)
  <2>1. /\ p \in running /\ running' = running \ {p} /\ lapses' = lapses
        /\ pc' = [t \in Tasks |-> IF ProcOf[t] = p THEN "gone" ELSE pc[t]]
    BY <1>6 DEF Exit, Crash, End
  <2>2. Writers' = {t \in Writers : ProcOf[t] # p}
    BY <2>1
  <2>3. Sheltered' <=> Sheltered /\ AtMostTwoProcs
    BY <2>1 DEF Sheltered
  <2>4. Abstract!AtMostTwo <=> AtMostTwoProcs
    BY DEF Abstract!AtMostTwo, AtMostTwoProcs
  <2>5. Sheltered' = (Sheltered /\ Abstract!AtMostTwo)
    BY <2>3, <2>4 DEF Sheltered, AtMostTwoProcs
  <2> QED
    BY <2>1, <2>2, <2>5 DEF Abstract!End
<1>7. ASSUME Lapse PROVE Abstract!Lapse
  <2>1. lapses' # 0 /\ UNCHANGED <<pc, running>>
    BY <1>7 DEF Lapse
  <2> QED
    BY <2>1 DEF Abstract!Lapse, Sheltered
<1>8. ASSUME Expire \/ UNCHANGED vars \/ \E p \in Procs : Recycle(p) PROVE Stutter
  BY <1>8 DEF Expire, vars, Recycle
<1>9. Stutter => UNCHANGED Abstract!vars
  BY <1>1 DEF Abstract!vars, Sheltered
<1> HIDE DEF Stutter, Inv
<1> QED
  BY <1>2, <1>4, <1>5, <1>6, <1>7, <1>8, <1>9
  DEF Next, Step, Ending, Abstract!Next

(***************************************************************************)
(* The file protocol, with every crash, exit, recycled process id and      *)
(* lapse, implements the abstract lock: it keeps the promise for as long   *)
(* as WriterLock says, for every set of tasks and processes.               *)
(***************************************************************************)
THEOREM Refinement == Spec => ImplementsWriterLock
<1>1. Init => Abstract!Init
  BY DEF Init, Abstract!Init, Holder, HolderSteps, ReleaseSteps, Sheltered
<1> QED
  BY <1>1, AbstractStep, Invariance, PTL DEF Spec, ImplementsWriterLock, Abstract!Spec
=============================================================================
