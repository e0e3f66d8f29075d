--------------------------- MODULE MCProposalSync ---------------------------
(***************************************************************************)
(* Instances of ProposalSync for TLC: proposals about one entity, each     *)
(* naming a belief of its own.                                             *)
(***************************************************************************)
EXTENDS ProposalSync

CONSTANTS p1, p2, entity, belief1, belief2

Entities == [p \in Proposals |-> entity]
Beliefs  == [p \in Proposals |-> IF p = p1 THEN belief1 ELSE belief2]

\* The safety properties say nothing of what follows a displacement; nobody else
\* interferes then.
QuietDisplacement == displaced => taps + losses + crashes = 0 /\ passes <= 1

\* A lost answer or a killed sync, not both; people decide around a killed sync.
OneFault == losses + crashes <= 1 /\ (losses = 0 \/ taps = 0)

\* A second sleep pass comes when nobody else interferes.
QuietSecondPass == passes = 2 => taps + losses + crashes = 0
=============================================================================
