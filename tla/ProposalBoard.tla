--------------------------- MODULE ProposalBoard ---------------------------
(***************************************************************************)
(* What the server promises a consumer of action proposals: a board of     *)
(* proposals, each decided once.  ActionProposal implements it with        *)
(* requests, a lock and a sleep pass; a consumer sees only the board.      *)
(***************************************************************************)
EXTENDS Naturals, FiniteSets

CONSTANT Proposals

VARIABLES
  status,  \* action_proposal.status, "none" before the row exists
  gone,    \* proposals whose entity or belief is tombstoned
  lapsed   \* proposals past expires_at

boardVars == <<status, gone, lapsed>>

Decisions == {"approve", "reject"}
Outcomes == {"approved", "rejected", "superseded", "expired"}

BoardTypeOK ==
  /\ status \in [Proposals -> {"none", "pending"} \cup Outcomes]
  /\ gone \subseteq Proposals /\ lapsed \subseteq Proposals

BoardInit ==
  /\ status = [p \in Proposals |-> "none"]
  /\ gone = {} /\ lapsed = {}

\* The rows GET /v1/proposals returns.
Offered == {p \in Proposals \ (gone \cup lapsed) : status[p] = "pending"}

Publish(p) ==
  /\ status[p] = "none" /\ status' = [status EXCEPT ![p] = "pending"]
  /\ UNCHANGED <<gone, lapsed>>

\* One tombstoned node may take several proposals with it.
Withdraw(S) ==
  /\ gone' = gone \cup S
  /\ UNCHANGED <<status, lapsed>>

Lapse(p) ==
  /\ status[p] # "none" /\ p \notin lapsed /\ lapsed' = lapsed \cup {p}
  /\ UNCHANGED <<status, gone>>

\* The settled status of a decision: an approval that finds the proposal stale
\* settles it as such.
Settled(p, decision) ==
  CASE decision = "reject" -> "rejected"
    [] decision = "approve" /\ p \in gone -> "superseded"
    [] decision = "approve" /\ p \in lapsed \ gone -> "expired"
    [] OTHER -> "approved"

\* The answer is 200 if the proposal is now as asked for, and 409 otherwise.
Granted(p, decision) ==
  status[p] = "pending" /\ Settled(p, decision) \in {"approved", "rejected"}

Decide(p, decision) ==
  /\ status[p] = "pending"
  /\ status' = [status EXCEPT ![p] = Settled(p, decision)]
  /\ UNCHANGED <<gone, lapsed>>

BoardNext ==
  \/ \E p \in Proposals : Publish(p) \/ Lapse(p)
  \/ \E S \in SUBSET Proposals : Withdraw(S)
  \/ \E p \in Proposals, decision \in Decisions : Decide(p, decision)

BoardSpec == BoardInit /\ [][BoardNext]_boardVars
=============================================================================
