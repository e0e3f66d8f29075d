----------------------------- MODULE MCLockfile -----------------------------
(***************************************************************************)
(* Instances of Lockfile for TLC.                                          *)
(***************************************************************************)
EXTENDS Lockfile

CONSTANTS serve1, serve2,      \* two requests of the serve process
          sleep1, ingest1,     \* one-task command-line processes
          serve, sleep, ingest

TwoProcTasks == {serve1, serve2, sleep1}
TwoProcs     == {serve, sleep}

OneProcTasks == {serve1, serve2}
OneProcs     == {serve}

ThreeProcTasks == {serve1, sleep1, ingest1}
ThreeProcs     == {serve, sleep, ingest}

ProcessOf == [t \in {serve1, serve2, sleep1, ingest1} |->
                CASE t \in {serve1, serve2} -> serve
                  [] t = sleep1 -> sleep
                  [] OTHER -> ingest]

OneProcOf   == [t \in OneProcTasks |-> ProcessOf[t]]
TwoProcOf   == [t \in TwoProcTasks |-> ProcessOf[t]]
ThreeProcOf == [t \in ThreeProcTasks |-> ProcessOf[t]]
=============================================================================
