----------------------------- MODULE MCToolCards -----------------------------
(***************************************************************************)
(* Instances of ToolCards for TLC.                                         *)
(***************************************************************************)
EXTENDS ToolCards

CONSTANTS alice, bob, deadline

OneItem == <<deadline>>
TwoChats == <<alice, bob>>

Failures == faults.fail + faults.crash + Cardinality(lapsed)
BobWaits == visible[bob] = [cards |-> {}, plain |-> {}]

\* One failure, and one act of people, or two while the message to bob is on its
\* way; two acts in both chats; or alice alone acts up to four times, enough to
\* edit a destructive call, approve it and type its value.
Failing == Failures <= 1 /\ (faults.update <= 1 \/ (faults.update <= 2 /\ BobWaits))
Answering == Failures = 0 /\ faults.update <= 2
Editing == Failures = 0 /\ BobWaits /\ visible[alice].plain = {}
Scenarios == Failing \/ Answering \/ Editing
=============================================================================
