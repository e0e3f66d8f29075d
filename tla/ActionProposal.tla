--------------------------- MODULE ActionProposal ---------------------------
(***************************************************************************)
(* Action proposals on the server: ActionProposalStore                     *)
(* (src/db/action-proposal-store.ts), the sink the sleep pass emits them   *)
(* through (src/consolidation/action-proposal-sink.ts) and the operations  *)
(* approveProposal and rejectProposal (src/adapter/memory-ops.ts) behind   *)
(* POST /v1/proposals/:id (src/adapter/serve-cli.ts).                      *)
(*                                                                         *)
(* A proposal is pending until a consumer approves or rejects it or an     *)
(* approval finds it stale.  A request reads the row before it asks for    *)
(* the single-writer lock; between the two awaits anything may settle the  *)
(* row, and a sleep pass may retire the nodes it names.  Under the lock    *)
(* the handler runs to its end without an await, so its re-check and its   *)
(* compare-and-set are one action.                                         *)
(***************************************************************************)
EXTENDS Naturals, FiniteSets

CONSTANTS
  Proposals,   \* content hashes of the changes the pass may propose
  Nodes,       \* the nodes they name
  EntityOf,    \* entity_node_id
  BeliefOf,    \* belief_node_id
  Consumers,   \* clients of the server
  Nobody,
  MaxPasses    \* bound: sleep passes

ASSUME ServerAssumption ==
  /\ EntityOf \in [Proposals -> Nodes] /\ BeliefOf \in [Proposals -> Nodes]
  /\ Nobody \notin Consumers
  /\ MaxPasses \in Nat

VARIABLES
  status,      \* action_proposal.status, "none" before the row exists
  expired,     \* proposals past expires_at
  tombstoned,  \* nodes with tombstoned = 1
  inPass,      \* a sleep pass holds the single-writer lock
  passes,      \* passes started
  requests,    \* what became of the request of a consumer about a proposal
  winner       \* the consumer whose request settled the proposal

serverVars == <<status, expired, tombstoned, inPass, passes, requests, winner>>

Actions == {"approve", "reject"}
Terminal == {"approved", "rejected", "superseded", "expired"}
Answers == {"ok", "conflict", "not_found", "busy"}

NoRequest == [stage |-> "none"]
Request == [stage : {"sent", "waiting"} \cup Answers, action : Actions]
Requests == [Consumers -> [Proposals -> Request \cup {NoRequest}]]

ServerTypeOK ==
  /\ status \in [Proposals -> {"none", "pending"} \cup Terminal]
  /\ expired \subseteq Proposals /\ tombstoned \subseteq Nodes
  /\ inPass \in BOOLEAN /\ passes \in 0..MaxPasses
  /\ requests \in Requests
  /\ winner \in [Proposals -> Consumers \cup {Nobody}]
  /\ \A p \in Proposals : winner[p] # Nobody <=> status[p] \in {"approved", "rejected"}

ServerInit ==
  /\ status = [p \in Proposals |-> "none"]
  /\ expired = {} /\ tombstoned = {}
  /\ inPass = FALSE /\ passes = 0
  /\ requests = [c \in Consumers |-> [p \in Proposals |-> NoRequest]]
  /\ winner = [p \in Proposals |-> Nobody]

-----------------------------------------------------------------------------
(* The sleep pass and time. *)

PassStarts ==
  /\ ~inPass /\ passes < MaxPasses
  /\ inPass' = TRUE /\ passes' = passes + 1
  /\ UNCHANGED <<status, expired, tombstoned, requests, winner>>

PassEnds ==
  /\ inPass /\ inPass' = FALSE
  /\ UNCHANGED <<status, expired, tombstoned, passes, requests, winner>>

\* Fault: a replayed emission revives a refused row.
EmitRevives(p) ==
  /\ inPass /\ status[p] \in {"none", "superseded", "expired"}
  /\ status' = [status EXCEPT ![p] = "pending"]
  /\ UNCHANGED <<expired, tombstoned, inPass, passes, requests, winner>>

\* INSERT OR IGNORE on the content hash: a replayed emission changes nothing.
Emit(p) ==
  /\ inPass /\ status[p] = "none"
  /\ status' = [status EXCEPT ![p] = "pending"]
  /\ UNCHANGED <<expired, tombstoned, inPass, passes, requests, winner>>

\* The belief node of a proposal is minted in the transaction that emits it.
Minted == {EntityOf[p] : p \in Proposals} \cup {BeliefOf[p] : p \in {q \in Proposals : status[q] # "none"}}

\* A contradiction or a merge tombstones a node.
Retire(n) ==
  /\ inPass /\ n \in Minted \ tombstoned
  /\ tombstoned' = tombstoned \cup {n}
  /\ UNCHANGED <<status, expired, inPass, passes, requests, winner>>

Expire(p) ==
  /\ status[p] # "none" /\ p \notin expired
  /\ expired' = expired \cup {p}
  /\ UNCHANGED <<status, tombstoned, inPass, passes, requests, winner>>

-----------------------------------------------------------------------------
(* Reads. *)

\* classifyProposalStaleness.
Staleness(p) ==
  IF EntityOf[p] \in tombstoned THEN "entity_gone"
  ELSE IF BeliefOf[p] \in tombstoned THEN "superseded"
  ELSE IF p \in expired THEN "expired"
  ELSE "ok"

\* Fault: only expiry is filtered, as before CR-01.
UnexpiredPending == {p \in Proposals : status[p] = "pending" /\ p \notin expired}

\* Proposals that name a tombstoned node.
Gone == {p \in Proposals : {EntityOf[p], BeliefOf[p]} \cap tombstoned # {}}

\* GET /v1/proposals: the rows of stmtListPending.  The limit of 100 is not
\* reached by the instances.
Listed == {p \in Proposals \ (expired \cup Gone) : status[p] = "pending"}

-----------------------------------------------------------------------------
(* POST /v1/proposals/:id/approve and /reject. *)

Transition(c, p, stage) ==
  requests' = [requests EXCEPT ![c][p] = [stage |-> stage, action |-> @.action]]

Send(c, p, action) ==
  /\ requests[c][p] = NoRequest
  /\ requests' = [requests EXCEPT ![c][p] = [stage |-> "sent", action |-> action]]
  /\ UNCHANGED <<status, expired, tombstoned, inPass, passes, winner>>

\* Reads before the lock.
Preflight(c, p) ==
  /\ requests[c][p].stage = "sent"
  /\ Transition(c, p, CASE status[p] = "none"    -> "not_found"
                        [] status[p] = "pending" -> "waiting"
                        [] OTHER                 -> "conflict")
  /\ UNCHANGED <<status, expired, tombstoned, inPass, passes, winner>>

\* acquireLockWithRetry gave up: 503.
Busy(c, p) ==
  /\ requests[c][p].stage = "waiting" /\ inPass
  /\ Transition(c, p, "busy")
  /\ UNCHANGED <<status, expired, tombstoned, inPass, passes, winner>>

Settle(c, p, outcome) ==
  /\ status' = [status EXCEPT ![p] = outcome]
  /\ winner' = [winner EXCEPT ![p] = c]
  /\ Transition(c, p, "ok")

Refuse(c, p) == Transition(c, p, "conflict")

Locked(c, p) == requests[c][p].stage = "waiting" /\ ~inPass

\* Fault: staleness is not looked at again.
ApproveStale(c, p) ==
  /\ Locked(c, p) /\ requests[c][p].action = "approve"
  /\ \/ status[p] = "pending" /\ Settle(c, p, "approved")
     \/ status[p] # "pending" /\ Refuse(c, p) /\ UNCHANGED <<status, winner>>
  /\ UNCHANGED <<expired, tombstoned, inPass, passes>>

\* A stale proposal is refused and the refusal is recorded in the row.
Approve(c, p) ==
  /\ Locked(c, p) /\ requests[c][p].action = "approve"
  /\ \/ status[p] = "pending" /\ Staleness(p) = "ok" /\ Settle(c, p, "approved")
     \/ /\ status[p] = "pending" /\ Staleness(p) # "ok"
        /\ status' = [status EXCEPT
                        ![p] = IF Staleness(p) = "expired" THEN "expired" ELSE "superseded"]
        /\ Refuse(c, p)
        /\ UNCHANGED winner
     \/ status[p] # "pending" /\ Refuse(c, p) /\ UNCHANGED <<status, winner>>
  /\ UNCHANGED <<expired, tombstoned, inPass, passes>>

\* Fault: the reads before the lock are trusted.
RejectUnchecked(c, p) ==
  /\ Locked(c, p) /\ requests[c][p].action = "reject"
  /\ Settle(c, p, "rejected")
  /\ UNCHANGED <<expired, tombstoned, inPass, passes>>

\* A rejection leaves the belief alone, so it need not be current.
Reject(c, p) ==
  /\ Locked(c, p) /\ requests[c][p].action = "reject"
  /\ \/ status[p] = "pending" /\ Settle(c, p, "rejected")
     \/ status[p] # "pending" /\ Refuse(c, p) /\ UNCHANGED <<status, winner>>
  /\ UNCHANGED <<expired, tombstoned, inPass, passes>>

\* The answer reaches the consumer, or nobody waits for it any more.
Answered(c, p) == requests[c][p].stage \in Answers
Take(c, p) ==
  /\ Answered(c, p)
  /\ requests' = [requests EXCEPT ![c][p] = NoRequest]
  /\ UNCHANGED <<status, expired, tombstoned, inPass, passes, winner>>

Serve(c, p) == Preflight(c, p) \/ Busy(c, p) \/ Approve(c, p) \/ Reject(c, p)

World ==
  \/ PassStarts \/ PassEnds
  \/ \E p \in Proposals : Emit(p) \/ Expire(p)
  \/ \E n \in Nodes : Retire(n)

ServerNext ==
  \/ World
  \/ \E c \in Consumers, p \in Proposals :
       \/ Serve(c, p) \/ Take(c, p)
       \/ \E action \in Actions : Send(c, p, action)

ServerSpec == ServerInit /\ [][ServerNext]_serverVars

-----------------------------------------------------------------------------
(* Properties. *)

\* What was decided about a proposal is never changed: not by a racing or
\* repeated request, a replayed emission or a refusal (CR-01, D-10, EMIT-04).
SettledOnce ==
  [][\A p \in Proposals : status[p] \in Terminal => status'[p] = status[p]]_serverVars

\* A consumer that is told ok is the one that settled the proposal, the way it
\* asked for; of two consumers that race, one is told of the conflict.
AckIsTrue ==
  \A c \in Consumers, p \in Proposals :
    requests[c][p].stage = "ok" =>
      /\ winner[p] = c
      /\ status[p] = IF requests[c][p].action = "approve" THEN "approved" ELSE "rejected"

\* A change is approved only while the entity and the belief it names stand and
\* its time is not up, whatever was true when the request came in (EMIT-07).
ApprovedWhileCurrent ==
  [][\A p \in Proposals :
       status[p] # "approved" /\ status'[p] = "approved" => Staleness(p) = "ok"]_serverVars

\* The list and the classifier agree (CR-01): whoever approves a proposal that
\* was listed when the request got the lock is not refused.
ListedIsApprovable ==
  [][\A c \in Consumers, p \in Listed :
       Approve(c, p) => requests'[c][p].stage = "ok"]_serverVars

\* What a consumer may rely on: whatever requests overlap, the rows behave as a
\* board of proposals on which each is decided once, in one step, by the rule
\* that held at that step.
Board == INSTANCE ProposalBoard WITH gone <- Gone, lapsed <- expired
ImplementsBoard == Board!BoardSpec
=============================================================================
