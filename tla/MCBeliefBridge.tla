--------------------------- MODULE MCBeliefBridge ---------------------------
(***************************************************************************)
(* Instances of BeliefBridge for TLC.                                      *)
(***************************************************************************)
EXTENDS BeliefBridge, TLC

CONSTANTS p1, p2, p3, e1, e2

\* p1 and p2 are about one entity.
EntityTable == [p \in Proposals |-> IF p = p3 THEN e2 ELSE e1]
DueTable == [p \in Proposals |-> CASE p = p1 -> 1 [] p = p2 -> 2 [] OTHER -> 3]

\* One failure of the client or the network in a behaviour; while nobody decides
\* the network may be down and fail the sends to both chats.
OneFault ==
  LET down == IF faults.fail = 2 /\ faults.tap + faults.other + slots = 0 THEN 1 ELSE faults.fail
  IN  faults.unknown + faults.lost + faults.crash + down <= 1

\* Two scenarios: people decide about two entities on one day, the host being
\* at fault or other surfaces deciding too; or the cap, the ledger and midnight
\* are met by proposals nobody has decided yet.
Deciding ==
  /\ slots = 0 /\ today = 1 /\ status[p2] = "none"
  /\ faults.other = 0 \/ faults.unknown + faults.fail = 0
Prompting ==
  /\ faults.tap = 0 /\ faults.other = 0
  /\ slots + today <= 3
Scenarios == OneFault /\ (Deciding \/ Prompting)

ChatSymmetry == Permutations(Chats)
=============================================================================
