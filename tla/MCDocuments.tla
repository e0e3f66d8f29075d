---------------------------- MODULE MCDocuments -----------------------------
(***************************************************************************)
(* Instances of Documents for TLC: one project with a hub, one subject and *)
(* one or two chapters.                                                    *)
(***************************************************************************)
EXTENDS Documents, TLC

CONSTANTS subject, first, second

Grouped == [s \in Subjects |-> {first}]
Shelf == IF second \in Chapters THEN <<Hub, subject, first, second>> ELSE <<Hub, subject, first>>

\* Two chapters grow and are filled by passes alone; or readers and generators
\* meet the passes over one chapter that a survey brought or two clicks asked
\* for.  One thing fails in either case.
Untouched(c) == mass[c] = "none" /\ c \notin fed /\ \A g \in Generators : gen[g].slug # c

Scenarios ==
  /\ fails + crashes <= 1
  /\ \/ clicks = 0 /\ surveys + changes <= 2
     \/ clicks <= 1 /\ surveys + changes <= 1 /\ Untouched(second)
     \/ surveys = 0 /\ changes <= 1 /\ Untouched(second)
=============================================================================
