----------------------------- MODULE WriterLock -----------------------------
(***************************************************************************)
(* What the single-writer lock promises its callers: at any time at most   *)
(* one task of a running process is between a successful acquireLock() and *)
(* the end of its releaseLock().  A process may end at any time; a task of *)
(* an ended process writes nothing and so gives its place up.              *)
(*                                                                         *)
(* The promise holds while the lock is sound: until a live lock first ages *)
(* out, and, where three or more processes compete, until one of them ends.*)
(***************************************************************************)
CONSTANTS Tasks,   \* the concurrent flows of control that take the lock
          Procs,   \* the operating-system processes they run in
          ProcOf   \* the process of each task

VARIABLES writers, \* tasks of running processes that believe they hold the lock
          running, \* processes that have not ended
          sound    \* the lock keeps its promise

vars == <<writers, running, sound>>

AtMostTwo == \A p, q, r \in Procs : p = q \/ q = r \/ p = r

Init == writers = {} /\ running = Procs /\ sound = TRUE

\* A task becomes a writer only when there is no other.
Acquire(t) ==
  /\ ProcOf[t] \in running
  /\ sound => writers = {}
  /\ writers' = writers \cup {t} /\ UNCHANGED <<running, sound>>

Release(t) ==
  /\ t \in writers
  /\ writers' = writers \ {t} /\ UNCHANGED <<running, sound>>

End(p) ==
  /\ p \in running
  /\ running' = running \ {p}
  /\ writers' = {t \in writers : ProcOf[t] # p}
  /\ sound' = (sound /\ AtMostTwo)

Lapse == sound' = FALSE /\ UNCHANGED <<writers, running>>

Next == \/ \E t \in Tasks : Acquire(t) \/ Release(t)
        \/ \E p \in Procs : End(p)
        \/ Lapse

Spec == Init /\ [][Next]_vars
=============================================================================
