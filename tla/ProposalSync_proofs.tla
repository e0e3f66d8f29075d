------------------------- MODULE ProposalSync_proofs -------------------------
(***************************************************************************)
(* Proofs about ActionProposal and ProposalSync, for every set of          *)
(* proposals, nodes and consumers and any number of passes.                *)
(*                                                                         *)
(* First the server.  Type correctness and AckIsTrue are inductive         *)
(* together: the action that settles a row finds it pending, and no        *)
(* request about a pending row has been told ok.  SettledOnce needs no     *)
(* more than the guards.                                                   *)
(*                                                                         *)
(* Then the composition of server and client, which behaves, towards the   *)
(* server, as any set of consumers may: every step of ProposalSync is a    *)
(* step of ServerNext or leaves the server alone.  What is proved of the   *)
(* server therefore holds while syncs die, retry and lose answers.         *)
(***************************************************************************)
EXTENDS ProposalSync, FiniteSetTheorems, TLAPS

-----------------------------------------------------------------------------
(* The server. *)

IInv == ServerTypeOK /\ AckIsTrue

\* A request that is being served has an action, and its stage can be written.
LEMMA StageStep ==
  ASSUME ServerTypeOK,
         NEW c \in Consumers, NEW p \in Proposals,
         requests[c][p].stage \in {"sent", "waiting"},
         NEW stage \in {"waiting"} \cup Answers,
         Transition(c, p, stage)
  PROVE  /\ requests' \in Requests
         /\ requests'[c][p] = [stage |-> stage, action |-> requests[c][p].action]
         /\ \A d \in Consumers, q \in Proposals :
              d # c \/ q # p => requests'[d][q] = requests[d][q]
PROOF
<1>1. requests \in Requests
  BY DEF ServerTypeOK
<1>2. requests[c] \in [Proposals -> Request \cup {NoRequest}]
  BY <1>1 DEF Requests
<1>3. requests[c][p] \in Request
  BY <1>2 DEF NoRequest
<1>4. requests' = [requests EXCEPT ![c][p] =
                     [stage |-> stage, action |-> requests[c][p].action]]
  BY DEF Transition
<1>5. [stage |-> stage, action |-> requests[c][p].action] \in Request
  BY <1>3 DEF Request
<1> QED
  BY <1>1, <1>2, <1>4, <1>5 DEF Requests

\* A row is settled by the request that finds it pending.
LEMMA SettleStep ==
  ASSUME IInv,
         NEW c \in Consumers, NEW p \in Proposals,
         requests[c][p].stage = "waiting",
         status[p] = "pending",
         NEW outcome \in {"approved", "rejected"},
         outcome = (IF requests[c][p].action = "approve" THEN "approved" ELSE "rejected"),
         Settle(c, p, outcome),
         UNCHANGED <<expired, tombstoned, inPass, passes>>
  PROVE  IInv'
PROOF
<1>1. /\ requests' \in Requests
      /\ requests'[c][p] = [stage |-> "ok", action |-> requests[c][p].action]
      /\ \A d \in Consumers, q \in Proposals :
           d # c \/ q # p => requests'[d][q] = requests[d][q]
  BY StageStep DEF IInv, Settle, Answers
<1>2. /\ status' \in [Proposals -> {"none", "pending"} \cup Terminal]
      /\ status'[p] = outcome
      /\ \A q \in Proposals : q # p => status'[q] = status[q]
  BY DEF IInv, ServerTypeOK, Settle, Terminal
<1>3. /\ winner' \in [Proposals -> Consumers \cup {Nobody}]
      /\ winner'[p] = c
      /\ \A q \in Proposals : q # p => winner'[q] = winner[q]
  BY DEF IInv, ServerTypeOK, Settle
<1>4. ServerTypeOK'
  BY <1>1, <1>2, <1>3, ServerAssumption DEF ServerAssumption, IInv, ServerTypeOK
<1>5. ASSUME NEW d \in Consumers, NEW q \in Proposals, requests'[d][q].stage = "ok"
      PROVE  /\ winner'[q] = d
             /\ status'[q] = IF requests'[d][q].action = "approve" THEN "approved" ELSE "rejected"
  <2>1. CASE d = c /\ q = p
    BY <1>1, <1>2, <1>3, <2>1
  <2>2. CASE d # c /\ q = p
    <3>1. requests[d][p].stage = "ok"
      BY <1>1, <1>5, <2>2
    <3>2. status[p] # "pending"
      BY <3>1 DEF IInv, AckIsTrue
    <3> QED
      BY <3>2
  <2>3. CASE q # p
    <3>1. requests'[d][q] = requests[d][q]
      BY <1>1, <2>3
    <3> QED
      BY <1>2, <1>3, <1>5, <2>3, <3>1 DEF IInv, AckIsTrue
  <2> QED
    BY <2>1, <2>2, <2>3
<1> QED
  BY <1>4, <1>5 DEF IInv, AckIsTrue

\* A request is answered otherwise, and no row becomes or ceases to be settled.
LEMMA RefuseStep ==
  ASSUME IInv,
         NEW c \in Consumers, NEW p \in Proposals,
         requests[c][p].stage \in {"sent", "waiting"},
         NEW stage \in {"waiting"} \cup (Answers \ {"ok"}),
         Transition(c, p, stage),
         UNCHANGED <<expired, tombstoned, inPass, passes, winner>>,
         \/ UNCHANGED status
         \/ /\ status[p] = "pending"
            /\ \E outcome \in {"expired", "superseded"} :
                 status' = [status EXCEPT ![p] = outcome]
  PROVE  IInv'
PROOF
<1>1. /\ requests' \in Requests
      /\ requests'[c][p] = [stage |-> stage, action |-> requests[c][p].action]
      /\ \A d \in Consumers, q \in Proposals :
           d # c \/ q # p => requests'[d][q] = requests[d][q]
  BY StageStep DEF IInv
<1>2. /\ status' \in [Proposals -> {"none", "pending"} \cup Terminal]
      /\ \A q \in Proposals :
           \/ status'[q] = status[q]
           \/ status[q] = "pending" /\ status'[q] \in {"expired", "superseded"}
  BY DEF IInv, ServerTypeOK, Terminal
<1>3. ServerTypeOK'
  <2>1. \A q \in Proposals : winner'[q] # Nobody <=> status'[q] \in {"approved", "rejected"}
    BY <1>2 DEF IInv, ServerTypeOK
  <2> QED
    BY <1>1, <1>2, <2>1 DEF IInv, ServerTypeOK
<1>4. ASSUME NEW d \in Consumers, NEW q \in Proposals, requests'[d][q].stage = "ok"
      PROVE  /\ winner'[q] = d
             /\ status'[q] = IF requests'[d][q].action = "approve" THEN "approved" ELSE "rejected"
  <2>1. d # c \/ q # p
    BY <1>1, <1>4 DEF Answers
  <2>2. requests'[d][q] = requests[d][q]
    BY <1>1, <2>1
  <2>3. status[q] # "pending"
    BY <1>4, <2>2 DEF IInv, AckIsTrue
  <2> QED
    BY <1>2, <1>4, <2>2, <2>3 DEF IInv, AckIsTrue
<1> QED
  BY <1>3, <1>4 DEF IInv, AckIsTrue

\* A request comes in, or its answer is taken.
LEMMA ClientStep ==
  ASSUME IInv,
         NEW c \in Consumers, NEW p \in Proposals,
         NEW rq \in Request \cup {NoRequest}, rq.stage # "ok",
         requests' = [requests EXCEPT ![c][p] = rq],
         UNCHANGED <<status, expired, tombstoned, inPass, passes, winner>>
  PROVE  IInv'
PROOF
<1>1. requests' \in Requests
  BY DEF IInv, ServerTypeOK, Requests
<1>2. ServerTypeOK'
  BY <1>1 DEF IInv, ServerTypeOK
<1>3. \A d \in Consumers, q \in Proposals :
        requests'[d][q] = IF d = c /\ q = p THEN rq ELSE requests[d][q]
  BY DEF IInv, ServerTypeOK, Requests
<1> QED
  BY <1>2, <1>3 DEF IInv, AckIsTrue

LEMMA InitServer ==
  ASSUME ServerInit
  PROVE  IInv
PROOF
<1>1. requests \in Requests /\ \A c \in Consumers, p \in Proposals : requests[c][p].stage # "ok"
  BY DEF ServerInit, Requests, NoRequest
<1>2. passes \in 0..MaxPasses
  BY ServerAssumption DEF ServerInit, ServerAssumption
<1>3. /\ status \in [Proposals -> {"none", "pending"} \cup Terminal]
      /\ winner \in [Proposals -> Consumers \cup {Nobody}]
      /\ \A p \in Proposals : winner[p] = Nobody /\ status[p] = "none"
  BY DEF ServerInit
<1>4. expired \subseteq Proposals /\ tombstoned \subseteq Nodes /\ inPass \in BOOLEAN
  BY DEF ServerInit
<1> QED
  BY <1>1, <1>2, <1>3, <1>4 DEF IInv, ServerTypeOK, AckIsTrue

LEMMA ServerInvStep ==
  ASSUME IInv, [ServerNext]_serverVars
  PROVE  IInv'
PROOF
<1>1. CASE PassStarts
  <2>1. passes \in 0..MaxPasses /\ MaxPasses \in Nat
    BY ServerAssumption DEF ServerAssumption, IInv, ServerTypeOK
  <2>2. passes < MaxPasses /\ passes' = passes + 1
    BY <1>1 DEF PassStarts
  <2>3. passes' \in 0..MaxPasses
    BY <2>1, <2>2
  <2> QED
    BY <1>1, <2>3 DEF PassStarts, IInv, ServerTypeOK, AckIsTrue
<1>2. CASE PassEnds
  BY <1>2 DEF PassEnds, IInv, ServerTypeOK, AckIsTrue
<1>3. ASSUME NEW p \in Proposals, Emit(p)
      PROVE  IInv'
  <2>1. /\ status' \in [Proposals -> {"none", "pending"} \cup Terminal]
        /\ status[p] = "none" /\ status'[p] = "pending"
        /\ \A q \in Proposals : q # p => status'[q] = status[q]
    BY <1>3 DEF Emit, IInv, ServerTypeOK
  <2>2. \A q \in Proposals : winner'[q] # Nobody <=> status'[q] \in {"approved", "rejected"}
    BY <1>3, <2>1 DEF Emit, IInv, ServerTypeOK
  <2>3. ServerTypeOK'
    BY <1>3, <2>1, <2>2 DEF Emit, IInv, ServerTypeOK
  <2>4. AckIsTrue'
    BY <1>3, <2>1 DEF Emit, IInv, AckIsTrue
  <2> QED
    BY <2>3, <2>4 DEF IInv
<1>4. ASSUME NEW p \in Proposals, Expire(p)
      PROVE  IInv'
  BY <1>4 DEF Expire, IInv, ServerTypeOK, AckIsTrue
<1>5. ASSUME NEW n \in Nodes, Retire(n)
      PROVE  IInv'
  BY <1>5 DEF Retire, IInv, ServerTypeOK, AckIsTrue
<1>6. ASSUME NEW c \in Consumers, NEW p \in Proposals, NEW action \in Actions,
             Send(c, p, action)
      PROVE  IInv'
  <2> DEFINE rq == [stage |-> "sent", action |-> action]
  <2>1. rq \in Request \cup {NoRequest} /\ rq.stage # "ok"
    BY DEF Request
  <2>2. /\ requests' = [requests EXCEPT ![c][p] = rq]
        /\ UNCHANGED <<status, expired, tombstoned, inPass, passes, winner>>
    BY <1>6 DEF Send
  <2> HIDE DEF rq
  <2> QED
    BY <2>1, <2>2, ClientStep
<1>7. ASSUME NEW c \in Consumers, NEW p \in Proposals, Take(c, p)
      PROVE  IInv'
  <2>1. NoRequest \in Request \cup {NoRequest} /\ NoRequest.stage # "ok"
    BY DEF NoRequest
  <2>2. /\ requests' = [requests EXCEPT ![c][p] = NoRequest]
        /\ UNCHANGED <<status, expired, tombstoned, inPass, passes, winner>>
    BY <1>7 DEF Take
  <2> QED
    BY <2>1, <2>2, ClientStep
<1>8. ASSUME NEW c \in Consumers, NEW p \in Proposals, Preflight(c, p)
      PROVE  IInv'
  <2>1. PICK stage \in {"waiting"} \cup (Answers \ {"ok"}) : Transition(c, p, stage)
    BY <1>8 DEF Preflight, Answers
  <2> QED
    BY <1>8, <2>1, RefuseStep DEF Preflight
<1>9. ASSUME NEW c \in Consumers, NEW p \in Proposals, Busy(c, p)
      PROVE  IInv'
  BY <1>9, RefuseStep DEF Busy, Answers
<1>10. ASSUME NEW c \in Consumers, NEW p \in Proposals, Approve(c, p)
       PROVE  IInv'
  <2>1. CASE status[p] = "pending" /\ Staleness(p) = "ok"
    <3>1. Settle(c, p, "approved")
      BY <1>10, <2>1 DEF Approve
    <3> QED
      BY <1>10, <2>1, <3>1, SettleStep DEF Approve, Locked
  <2>2. CASE status[p] = "pending" /\ Staleness(p) # "ok"
    <3>1. \E outcome \in {"expired", "superseded"} : status' = [status EXCEPT ![p] = outcome]
      BY <1>10, <2>2 DEF Approve
    <3>2. Transition(c, p, "conflict") /\ UNCHANGED winner
      BY <1>10, <2>2 DEF Approve, Refuse
    <3> QED
      BY <1>10, <2>2, <3>1, <3>2, RefuseStep DEF Approve, Locked, Answers
  <2>3. CASE status[p] # "pending"
    <3>1. Transition(c, p, "conflict") /\ UNCHANGED <<status, winner>>
      BY <1>10, <2>3 DEF Approve, Refuse
    <3> QED
      BY <1>10, <3>1, RefuseStep DEF Approve, Locked, Answers
  <2> QED
    BY <2>1, <2>2, <2>3
<1>11. ASSUME NEW c \in Consumers, NEW p \in Proposals, Reject(c, p)
       PROVE  IInv'
  <2>1. CASE status[p] = "pending"
    <3>1. Settle(c, p, "rejected") /\ requests[c][p].action # "approve"
      BY <1>11, <2>1 DEF Reject
    <3> QED
      BY <1>11, <2>1, <3>1, SettleStep DEF Reject, Locked
  <2>2. CASE status[p] # "pending"
    <3>1. Transition(c, p, "conflict") /\ UNCHANGED <<status, winner>>
      BY <1>11, <2>2 DEF Reject, Refuse
    <3> QED
      BY <1>11, <3>1, RefuseStep DEF Reject, Locked, Answers
  <2> QED
    BY <2>1, <2>2
<1>12. CASE UNCHANGED serverVars
  BY <1>12 DEF serverVars, IInv, ServerTypeOK, AckIsTrue
<1> QED
  BY <1>1, <1>2, <1>3, <1>4, <1>5, <1>6, <1>7, <1>8, <1>9, <1>10, <1>11, <1>12
     DEF ServerNext, World, Serve

LEMMA Invariance == ServerSpec => []IInv
BY InitServer, ServerInvStep, PTL DEF ServerSpec

\* The variables of the server keep their types, and a row has a winner exactly
\* when a consumer settled it.
THEOREM TypeCorrect == ServerSpec => []ServerTypeOK
PROOF
<1>1. IInv => ServerTypeOK
  BY DEF IInv
<1> QED
  BY <1>1, Invariance, PTL

\* A consumer that is told ok settled the proposal the way it asked for.
THEOREM TruthfulAck == ServerSpec => []AckIsTrue
PROOF
<1>1. IInv => AckIsTrue
  BY DEF IInv
<1> QED
  BY <1>1, Invariance, PTL

\* What was decided about a proposal is never changed.
THEOREM Settled == ServerSpec => SettledOnce
PROOF
<1>1. ASSUME IInv, [ServerNext]_serverVars
      PROVE  [\A p \in Proposals : status[p] \in Terminal => status'[p] = status[p]]_serverVars
  <2> SUFFICES ASSUME NEW p \in Proposals, status[p] \in Terminal, ServerNext
               PROVE  status'[p] = status[p]
    BY <1>1
  <2>1. status[p] \notin {"none", "pending"}
    BY DEF Terminal
  <2>2. status \in [Proposals -> {"none", "pending"} \cup Terminal]
    BY <1>1 DEF IInv, ServerTypeOK
  <2>3. CASE World
    BY <2>1, <2>2, <2>3 DEF World, PassStarts, PassEnds, Emit, Expire, Retire
  <2>4. ASSUME NEW c \in Consumers, NEW q \in Proposals,
               \/ Preflight(c, q) \/ Busy(c, q) \/ Take(c, q)
               \/ \E action \in Actions : Send(c, q, action)
        PROVE  status'[p] = status[p]
    BY <2>4 DEF Preflight, Busy, Take, Send
  <2>5. ASSUME NEW c \in Consumers, NEW q \in Proposals, Approve(c, q) \/ Reject(c, q)
        PROVE  status'[p] = status[p]
    BY <2>1, <2>2, <2>5 DEF Approve, Reject, Settle
  <2> QED
    BY <2>3, <2>4, <2>5 DEF ServerNext, Serve
<1> QED
  BY <1>1, Invariance, PTL DEF ServerSpec, SettledOnce

\* A change is approved only while the nodes it names stand and its time is
\* not up.
THEOREM Current == ServerSpec => ApprovedWhileCurrent
PROOF
<1>1. ASSUME IInv, [ServerNext]_serverVars
      PROVE  [\A p \in Proposals :
                status[p] # "approved" /\ status'[p] = "approved" => Staleness(p) = "ok"]_serverVars
  <2> SUFFICES ASSUME NEW p \in Proposals, ServerNext,
                      status[p] # "approved", status'[p] = "approved"
               PROVE  Staleness(p) = "ok"
    BY <1>1
  <2>1. status \in [Proposals -> {"none", "pending"} \cup Terminal]
    BY <1>1 DEF IInv, ServerTypeOK
  <2>2. ~World
    BY <2>1 DEF World, PassStarts, PassEnds, Emit, Expire, Retire
  <2>3. PICK c \in Consumers, q \in Proposals : Approve(c, q) \/ Reject(c, q)
    BY <2>2 DEF ServerNext, Serve, Preflight, Busy, Take, Send
  <2>4. CASE Reject(c, q)
    BY <2>1, <2>4 DEF Reject, Settle
  <2>5. CASE Approve(c, q)
    <3>1. CASE status[q] = "pending" /\ Staleness(q) = "ok"
      <4>1. status' = [status EXCEPT ![q] = "approved"]
        BY <2>5, <3>1 DEF Approve, Settle
      <4> QED
        BY <2>1, <3>1, <4>1
    <3>2. CASE ~(status[q] = "pending" /\ Staleness(q) = "ok")
      <4>1. \/ UNCHANGED status
            \/ \E outcome \in {"expired", "superseded"} : status' = [status EXCEPT ![q] = outcome]
        BY <2>5, <3>2 DEF Approve
      <4> QED
        BY <2>1, <4>1
    <3> QED
      BY <3>1, <3>2
  <2> QED
    BY <2>3, <2>4, <2>5
<1> QED
  BY <1>1, Invariance, PTL DEF ServerSpec, ApprovedWhileCurrent
\* Whatever requests overlap, the rows behave as a board on which each proposal
\* is decided once, in one step, by the rule that held at that step.
THEOREM Refinement == ServerSpec => ImplementsBoard
PROOF
<1>1. ServerInit => Board!BoardInit
  BY DEF ServerInit, Board!BoardInit, Gone
<1>2. ASSUME IInv, [ServerNext]_serverVars
      PROVE  [Board!BoardNext]_(Board!boardVars)
  <2>1. CASE UNCHANGED <<status, expired, tombstoned>>
    BY <2>1 DEF Board!boardVars, Gone
  <2>2. ASSUME NEW p \in Proposals, Emit(p) \/ Expire(p)
        PROVE  Board!BoardNext
    <3>1. Gone' = Gone
      BY <2>2 DEF Emit, Expire, Gone
    <3>2. Board!Publish(p) \/ Board!Lapse(p)
      BY <2>2, <3>1 DEF Emit, Expire, Board!Publish, Board!Lapse
    <3> QED
      BY <3>2 DEF Board!BoardNext
  <2>3. ASSUME NEW n \in Nodes, Retire(n)
        PROVE  Board!BoardNext
    <3> DEFINE S == {p \in Proposals : n \in {EntityOf[p], BeliefOf[p]}}
    <3>1. tombstoned' = tombstoned \cup {n} /\ UNCHANGED <<status, expired>>
      BY <2>3 DEF Retire
    <3>2. Gone' = Gone \cup S
      BY <3>1 DEF Gone
    <3>3. Board!Withdraw(S)
      BY <3>1, <3>2 DEF Board!Withdraw
    <3>4. S \in SUBSET Proposals
      OBVIOUS
    <3> QED
      BY <3>3, <3>4 DEF Board!BoardNext
  <2>4. ASSUME NEW c \in Consumers, NEW p \in Proposals, Approve(c, p)
        PROVE  [Board!BoardNext]_(Board!boardVars)
    <3>1. UNCHANGED <<expired, tombstoned>> /\ Gone' = Gone
      BY <2>4 DEF Approve, Gone
    <3>2. CASE status[p] # "pending"
      BY <2>4, <3>1, <3>2 DEF Approve, Board!boardVars
    <3>3. CASE status[p] = "pending"
      <4>1. status' = [status EXCEPT ![p] = Board!Settled(p, "approve")]
        BY <2>4, <3>3 DEF Approve, Settle, Staleness, Board!Settled, Gone
      <4>2. Board!Decide(p, "approve")
        BY <3>1, <3>3, <4>1 DEF Board!Decide
      <4> QED
        BY <4>2 DEF Board!BoardNext, Board!Decisions
    <3> QED
      BY <3>2, <3>3
  <2>5. ASSUME NEW c \in Consumers, NEW p \in Proposals, Reject(c, p)
        PROVE  [Board!BoardNext]_(Board!boardVars)
    <3>1. UNCHANGED <<expired, tombstoned>> /\ Gone' = Gone
      BY <2>5 DEF Reject, Gone
    <3>2. CASE status[p] # "pending"
      BY <2>5, <3>1, <3>2 DEF Reject, Board!boardVars
    <3>3. CASE status[p] = "pending"
      <4>1. Board!Decide(p, "reject")
        BY <2>5, <3>1, <3>3 DEF Reject, Settle, Board!Decide, Board!Settled
      <4> QED
        BY <4>1 DEF Board!BoardNext, Board!Decisions
    <3> QED
      BY <3>2, <3>3
  <2>6. ASSUME NEW c \in Consumers, NEW p \in Proposals,
               \/ Preflight(c, p) \/ Busy(c, p) \/ Take(c, p)
               \/ \E action \in Actions : Send(c, p, action)
        PROVE  UNCHANGED <<status, expired, tombstoned>>
    BY <2>6 DEF Preflight, Busy, Take, Send
  <2>7. CASE PassStarts \/ PassEnds
    BY <2>1, <2>7 DEF PassStarts, PassEnds
  <2>8. CASE UNCHANGED serverVars
    BY <2>1, <2>8 DEF serverVars
  <2> QED
    BY <1>2, <2>1, <2>2, <2>3, <2>4, <2>5, <2>6, <2>7, <2>8 DEF ServerNext, World, Serve
<1> QED
  BY <1>1, <1>2, Invariance, PTL DEF ServerSpec, ImplementsBoard, Board!BoardSpec

\* Whoever approves a proposal that is listed when the lock is obtained is not
\* refused.
THEOREM ListTells == ServerSpec => ListedIsApprovable
PROOF
<1>1. ASSUME IInv, [ServerNext]_serverVars
      PROVE  [\A c \in Consumers, p \in Listed :
                Approve(c, p) => requests'[c][p].stage = "ok"]_serverVars
  <2> SUFFICES ASSUME NEW c \in Consumers, NEW p \in Listed, Approve(c, p)
               PROVE  requests'[c][p].stage = "ok"
    OBVIOUS
  <2>1. p \in Proposals /\ status[p] = "pending" /\ Staleness(p) = "ok"
    BY DEF Listed, Gone, Staleness
  <2>2. Settle(c, p, "approved") /\ requests[c][p].stage = "waiting"
    BY <2>1 DEF Approve, Locked
  <2>3. Transition(c, p, "ok") /\ "ok" \in {"waiting"} \cup Answers
    BY <2>2 DEF Settle, Answers
  <2>4. requests[c][p].stage \in {"sent", "waiting"} /\ ServerTypeOK
    BY <1>1, <2>2 DEF IInv
  <2>5. requests'[c][p] = [stage |-> "ok", action |-> requests[c][p].action]
    BY <2>1, <2>3, <2>4, StageStep
  <2> QED
    BY <2>5
<1> QED
  BY <1>1, Invariance, PTL DEF ServerSpec, ListedIsApprovable

-----------------------------------------------------------------------------
(* The server and its clients. *)

\* A sync that sends or waits has a row in hand, and the row is about a proposal.
InHand ==
  /\ DOMAIN pc = Syncs
  /\ DOMAIN current = Syncs
  /\ \A s \in Syncs : pc[s] \in {"post", "wait"} => current[s].row.proposal \in Proposals

LEMMA InitInHand == Init => InHand
BY DEF Init, InHand

\* A sync that stands anywhere else after the step needs no row in hand.
LEMMA MoveStep ==
  ASSUME InHand, NEW s \in Syncs, NEW to, to \notin {"post", "wait"}, Goto(s, to),
         current' = current \/ current' = [current EXCEPT ![s] = None]
  PROVE  InHand'
BY DEF InHand, Goto

\* A sync that gets a row in hand claims it, and one that waits has posted.
LEMMA Moves ==
  ASSUME [Next]_vars
  PROVE  \/ UNCHANGED <<pc, current>>
         \/ \E s \in Syncs : \E to :
              /\ to \notin {"post", "wait"} /\ Goto(s, to)
              /\ current' = current \/ current' = [current EXCEPT ![s] = None]
         \/ \E s \in Syncs : Post(s) \/ \E p \in Proposals : Claim(s, p)
PROOF
<1>1. ASSUME NEW s \in Syncs,
             \/ Start(s) \/ Create(s) \/ Stat(s) \/ Unlink(s) \/ List(s) \/ ListFails(s)
             \/ Receive(s) \/ GiveUp(s) \/ End(s) \/ Crash(s)
      PROVE  \E to : /\ to \notin {"post", "wait"} /\ Goto(s, to)
                     /\ current' = current \/ current' = [current EXCEPT ![s] = None]
  <2>1. CASE Start(s)
    BY <2>1 DEF Start, jobVars
  <2>2. CASE Create(s)
    BY <2>2 DEF Create, jobVars
  <2>3. CASE Stat(s)
    BY <2>3 DEF Stat, jobVars
  <2>4. CASE Unlink(s)
    BY <2>4 DEF Unlink, jobVars
  <2>5. CASE List(s)
    BY <2>5 DEF List
  <2>6. CASE ListFails(s)
    BY <2>6 DEF ListFails, Finish
  <2>7. CASE Receive(s)
    BY <2>7 DEF Receive
  <2>8. CASE GiveUp(s)
    BY <2>8 DEF GiveUp
  <2>9. CASE End(s)
    BY <2>9 DEF End, Finish
  <2>10. CASE Crash(s)
    BY <2>10 DEF Crash
  <2> QED
    BY <1>1, <2>1, <2>2, <2>3, <2>4, <2>5, <2>6, <2>7, <2>8, <2>9, <2>10
<1>2. ASSUME NEW s \in Syncs, NEW p \in Proposals, Skip(s, p) \/ Dropped(s, p)
      PROVE  UNCHANGED <<pc, current>>
  BY <1>2 DEF Skip, Dropped, localVars
<1>3. ASSUME Server \/ Age \/ UNCHANGED vars PROVE UNCHANGED <<pc, current>>
  BY <1>3 DEF Server, Age, jobVars, localVars, vars
<1>4. ASSUME NEW h \in People, NEW p \in Proposals, Tap(h, p) PROVE UNCHANGED <<pc, current>>
  BY <1>4 DEF Tap, localVars
<1> QED
  BY <1>1, <1>2, <1>3, <1>4 DEF Next, Step

LEMMA InHandStep == InHand /\ [Next]_vars => InHand'
PROOF
<1> SUFFICES ASSUME InHand, [Next]_vars PROVE InHand'
  OBVIOUS
<1>1. ASSUME UNCHANGED <<pc, current>> PROVE InHand'
  BY <1>1 DEF InHand
<1>2. ASSUME NEW s \in Syncs, Post(s) PROVE InHand'
  BY <1>2 DEF Post, Goto, InHand
<1>3. ASSUME NEW s \in Syncs, NEW p \in Proposals, Claim(s, p) PROVE InHand'
  <2>1. PICK id, resumed : Claims(s, p, id, resumed)
    BY <1>3 DEF Claim
  <2>2. PICK row : /\ row.proposal = p
                   /\ current' = [current EXCEPT ![s] = [row |-> row, resumed |-> resumed]]
    BY <2>1 DEF Claims
  <2>3. pc' = [pc EXCEPT ![s] = "post"]
    BY <2>1 DEF Claims, Goto
  <2>4. ASSUME NEW t \in Syncs, pc'[t] \in {"post", "wait"}
        PROVE  current'[t].row.proposal \in Proposals
    <3>1. CASE t = s
      <4>1. current'[s] = [row |-> row, resumed |-> resumed]
        BY <2>2 DEF InHand
      <4> QED
        BY <2>2, <3>1, <4>1
    <3>2. CASE t # s
      BY <2>2, <2>3, <2>4, <3>2 DEF InHand
    <3> QED
      BY <3>1, <3>2
  <2>5. DOMAIN pc' = Syncs /\ DOMAIN current' = Syncs
    BY <2>2, <2>3 DEF InHand
  <2> QED
    BY <2>4, <2>5 DEF InHand
<1> QED
  BY <1>1, <1>2, <1>3, Moves, MoveStep

LEMMA ServerStep == InHand /\ [Next]_vars => [ServerNext]_serverVars
PROOF
<1> SUFFICES ASSUME InHand, [Next]_vars PROVE [ServerNext]_serverVars
  OBVIOUS
<1> USE SyncAssumption
<1>1. ASSUME Server PROVE ServerNext
  BY <1>1 DEF Server, ServerNext, People
<1>2. ASSUME NEW s \in Syncs, Post(s) PROVE ServerNext
  <2>1. current[s].row.proposal \in Proposals
    BY <1>2 DEF Post, InHand
  <2>2. DecideOutcome(current[s].row.proposal) \in Actions
    BY DEF DecideOutcome, Actions
  <2> QED
    BY <1>2, <2>1, <2>2 DEF Post, ServerNext
<1>3. ASSUME NEW s \in Syncs, Receive(s) PROVE ServerNext
  <2>1. current[s].row.proposal \in Proposals
    BY <1>3 DEF Receive, InHand
  <2> QED
    BY <1>3, <2>1 DEF Receive, ServerNext
<1>4. ASSUME NEW s \in Syncs, NEW p \in Proposals, Dropped(s, p) PROVE ServerNext
  BY <1>4 DEF Dropped, ServerNext
<1>5. ASSUME NEW h \in People, NEW p \in Proposals, Tap(h, p) PROVE ServerNext
  BY <1>5 DEF Tap, ServerNext, People
<1>6. ASSUME NEW s \in Syncs,
             \/ Start(s) \/ Create(s) \/ Stat(s) \/ Unlink(s) \/ List(s) \/ ListFails(s)
             \/ GiveUp(s) \/ End(s) \/ Crash(s)
             \/ \E p \in Proposals : Skip(s, p) \/ Claim(s, p)
      PROVE  UNCHANGED serverVars
  BY <1>6 DEF Start, Create, Stat, Unlink, List, ListFails, GiveUp, End, Crash, Skip,
              Claim, Claims
<1>7. ASSUME Age \/ UNCHANGED vars PROVE UNCHANGED serverVars
  BY <1>7 DEF Age, vars
<1> QED
  BY <1>1, <1>2, <1>3, <1>4, <1>5, <1>6, <1>7 DEF Next, Step

-----------------------------------------------------------------------------
\* Whatever the syncs and the people do, to the server they are consumers.
THEOREM ServerRefinement == Spec => ServerSpec
PROOF
<1>1. Init => ServerInit
  BY DEF Init
<1> QED
  BY <1>1, InitInHand, InHandStep, ServerStep, PTL DEF Spec, ServerSpec

\* In the composed system, too, ok is only said to the consumer that settled
\* the proposal as it asked for, and no decision is changed or made on a stale
\* proposal: a sync that dies, retries or is answered late cannot bring it about.
THEOREM ServerPromises == Spec => []AckIsTrue /\ SettledOnce /\ ApprovedWhileCurrent
BY ServerRefinement, TruthfulAck, Settled, Current, PTL
-----------------------------------------------------------------------------
(* What the server does to a row and to a request, seen from the consumer. *)

\* Only proposals that exist are asked about, so not_found is never said, and a
\* conflict is only said of a proposal that is no longer pending.
Asked ==
  /\ \A c \in Consumers, p \in Proposals :
       /\ requests[c][p].stage # "none" => status[p] # "none"
       /\ requests[c][p].stage # "not_found"
       /\ requests[c][p].stage = "conflict" => status[p] # "pending"
  /\ DOMAIN todo = Syncs
  /\ \A s \in Syncs : todo[s] \subseteq Proposals /\ \A p \in todo[s] : status[p] # "none"
  /\ \A s \in Syncs : pc[s] \in {"post", "wait"} => status[current[s].row.proposal] # "none"

\* A row goes from none to pending to settled and no further, and it is won by
\* a request, which is told so in the same step.
Onward ==
  \A p \in Proposals :
    /\ status[p] # "none" => status'[p] # "none"
    /\ status[p] \notin {"none", "pending"} => status'[p] = status[p]
    /\ winner'[p] # winner[p] =>
         \E c \in Consumers :
           /\ winner'[p] = c /\ status[p] = "pending"
           /\ requests[c][p].stage # "none" /\ requests'[c][p].stage = "ok"

\* The request of c about p is the only one the step touches.
OnlyRequest(c, p) ==
  \A d \in Consumers, q \in Proposals : d # c \/ q # p => requests'[d][q] = requests[d][q]

LEMMA WorldEffect ==
  ASSUME IInv, World
  PROVE  Onward /\ UNCHANGED requests
PROOF
<1>1. ASSUME NEW p \in Proposals, Emit(p) PROVE Onward /\ UNCHANGED requests
  BY <1>1 DEF Emit, Onward, IInv, ServerTypeOK
<1>2. ASSUME UNCHANGED <<status, requests, winner>> PROVE Onward /\ UNCHANGED requests
  BY <1>2 DEF Onward
<1> QED
  BY <1>1, <1>2 DEF World, PassStarts, PassEnds, Expire, Retire

LEMMA SettleEffect ==
  ASSUME IInv, NEW c \in Consumers, NEW p \in Proposals,
         requests[c][p].stage = "waiting", status[p] = "pending",
         NEW outcome \in {"approved", "rejected"}, Settle(c, p, outcome)
  PROVE  /\ Onward /\ OnlyRequest(c, p)
         /\ requests'[c][p].stage = "ok"
PROOF
<1>1. /\ requests'[c][p] = [stage |-> "ok", action |-> requests[c][p].action]
      /\ OnlyRequest(c, p)
  BY StageStep DEF IInv, Settle, Answers, OnlyRequest
<1>2. /\ status'[p] = outcome
      /\ \A q \in Proposals : q # p => status'[q] = status[q]
  BY DEF IInv, ServerTypeOK, Settle
<1>3. winner'[p] = c /\ \A q \in Proposals : q # p => winner'[q] = winner[q]
  BY DEF IInv, ServerTypeOK, Settle
<1> QED
  BY <1>1, <1>2, <1>3 DEF Onward

LEMMA RefuseEffect ==
  ASSUME IInv, NEW c \in Consumers, NEW p \in Proposals,
         requests[c][p].stage \in {"sent", "waiting"},
         NEW stage \in {"waiting"} \cup Answers, Transition(c, p, stage),
         UNCHANGED winner,
         \/ UNCHANGED status
         \/ /\ status[p] = "pending"
            /\ \E outcome \in {"expired", "superseded"} :
                 status' = [status EXCEPT ![p] = outcome]
  PROVE  Onward /\ OnlyRequest(c, p) /\ requests'[c][p].stage = stage
PROOF
<1>1. /\ requests'[c][p] = [stage |-> stage, action |-> requests[c][p].action]
      /\ OnlyRequest(c, p)
  BY StageStep DEF IInv, OnlyRequest
<1>2. Onward
  BY DEF IInv, ServerTypeOK, Onward
<1> QED
  BY <1>1, <1>2

\* Serving a request keeps it a request and never says not_found.
LEMMA ServeEffect ==
  ASSUME IInv, Asked, NEW c \in Consumers, NEW p \in Proposals, Serve(c, p)
  PROVE  /\ Onward /\ OnlyRequest(c, p)
         /\ requests[c][p].stage \in {"sent", "waiting"}
         /\ requests'[c][p].stage \notin {"none", "not_found"}
         /\ requests'[c][p].stage = "conflict" => status'[p] # "pending"
PROOF
<1>1. CASE Preflight(c, p)
  <2>1. status[p] # "none"
    BY <1>1 DEF Preflight, Asked
  <2>2. CASE status[p] = "pending"
    <3>1. Transition(c, p, "waiting") /\ UNCHANGED <<status, winner>>
      BY <1>1, <2>2 DEF Preflight
    <3> QED
      BY <1>1, <3>1, RefuseEffect DEF Preflight
  <2>3. CASE status[p] # "pending"
    <3>1. Transition(c, p, "conflict") /\ UNCHANGED <<status, winner>>
      BY <1>1, <2>1, <2>3 DEF Preflight
    <3> QED
      BY <1>1, <2>3, <3>1, RefuseEffect DEF Preflight, Answers
  <2> QED
    BY <2>2, <2>3
<1>2. CASE Busy(c, p)
  BY <1>2, RefuseEffect DEF Busy, Answers
<1>3. CASE Approve(c, p)
  <2>1. CASE status[p] = "pending" /\ Staleness(p) = "ok"
    <3>1. Settle(c, p, "approved")
      BY <1>3, <2>1 DEF Approve
    <3> QED
      BY <1>3, <2>1, <3>1, SettleEffect DEF Approve, Locked
  <2>2. CASE status[p] = "pending" /\ Staleness(p) # "ok"
    <3>1. PICK outcome \in {"expired", "superseded"} : status' = [status EXCEPT ![p] = outcome]
      BY <1>3, <2>2 DEF Approve
    <3>2. Transition(c, p, "conflict") /\ UNCHANGED winner
      BY <1>3, <2>2 DEF Approve, Refuse
    <3>3. status'[p] # "pending"
      BY <3>1 DEF IInv, ServerTypeOK
    <3>4. requests[c][p].stage \in {"sent", "waiting"}
      BY <1>3 DEF Approve, Locked
    <3>5. "conflict" \in {"waiting"} \cup Answers
      BY DEF Answers
    <3>6. Onward /\ OnlyRequest(c, p) /\ requests'[c][p].stage = "conflict"
      BY <2>2, <3>1, <3>2, <3>4, <3>5, RefuseEffect
    <3> QED
      BY <3>3, <3>4, <3>6
  <2>3. CASE status[p] # "pending"
    <3>1. Transition(c, p, "conflict") /\ UNCHANGED <<status, winner>>
      BY <1>3, <2>3 DEF Approve, Refuse
    <3> QED
      BY <1>3, <2>3, <3>1, RefuseEffect DEF Approve, Locked, Answers
  <2> QED
    BY <2>1, <2>2, <2>3
<1>4. CASE Reject(c, p)
  <2>1. CASE status[p] = "pending"
    <3>1. Settle(c, p, "rejected")
      BY <1>4, <2>1 DEF Reject
    <3> QED
      BY <1>4, <2>1, <3>1, SettleEffect DEF Reject, Locked
  <2>2. CASE status[p] # "pending"
    <3>1. Transition(c, p, "conflict") /\ UNCHANGED <<status, winner>>
      BY <1>4, <2>2 DEF Reject, Refuse
    <3> QED
      BY <1>4, <2>2, <3>1, RefuseEffect DEF Reject, Locked, Answers
  <2> QED
    BY <2>1, <2>2
<1> QED
  BY <1>1, <1>2, <1>3, <1>4 DEF Serve

LEMMA TakeEffect ==
  ASSUME IInv, NEW c \in Consumers, NEW p \in Proposals, Take(c, p)
  PROVE  Onward /\ OnlyRequest(c, p) /\ requests'[c][p].stage = "none" /\ UNCHANGED status
BY DEF Take, NoRequest, Onward, OnlyRequest, IInv, ServerTypeOK, Requests

LEMMA SendEffect ==
  ASSUME IInv, NEW c \in Consumers, NEW p \in Proposals, NEW action, Send(c, p, action)
  PROVE  /\ Onward /\ OnlyRequest(c, p) /\ UNCHANGED status
         /\ requests[c][p].stage = "none" /\ requests'[c][p].stage = "sent"
BY DEF Send, NoRequest, Onward, OnlyRequest, IInv, ServerTypeOK, Requests

\* A request is about a proposal that exists, whoever moves.
LEMMA InitAsked == Init => Asked
BY SyncAssumption DEF SyncAssumption, Init, ServerInit, Asked, NoRequest

\* No request is sent about a proposal that does not exist, nor answered as if
\* it did not.
SentOnlyKnown ==
  \/ UNCHANGED requests
  \/ \E c \in Consumers, p \in Proposals :
       /\ OnlyRequest(c, p)
       /\ requests'[c][p].stage # "none" => status[p] # "none"
       /\ requests'[c][p].stage # "not_found"
       /\ requests'[c][p].stage = "conflict" => status'[p] # "pending"

\* The requests keep what Asked says of them.
LEMMA AskedServer ==
  ASSUME IInv, Asked, Onward, SentOnlyKnown
  PROVE  \A c \in Consumers, p \in Proposals :
           /\ requests'[c][p].stage # "none" => status'[p] # "none"
           /\ requests'[c][p].stage # "not_found"
           /\ requests'[c][p].stage = "conflict" => status'[p] # "pending"
PROOF
<1>1. ASSUME NEW d \in Consumers, NEW q \in Proposals, requests'[d][q] = requests[d][q]
      PROVE  /\ requests'[d][q].stage # "none" => status'[q] # "none"
             /\ requests'[d][q].stage # "not_found"
             /\ requests'[d][q].stage = "conflict" => status'[q] # "pending"
  <2>1. requests[d][q].stage = "conflict" => status[q] \notin {"none", "pending"}
    BY DEF Asked
  <2> QED
    BY <1>1, <2>1 DEF Asked, Onward
<1>2. CASE UNCHANGED requests
  BY <1>1, <1>2
<1>3. ASSUME NEW c \in Consumers, NEW p \in Proposals, OnlyRequest(c, p),
             requests'[c][p].stage # "none" => status[p] # "none",
             requests'[c][p].stage # "not_found",
             requests'[c][p].stage = "conflict" => status'[p] # "pending",
             NEW d \in Consumers, NEW q \in Proposals
      PROVE  /\ requests'[d][q].stage # "none" => status'[q] # "none"
             /\ requests'[d][q].stage # "not_found"
             /\ requests'[d][q].stage = "conflict" => status'[q] # "pending"
  <2>1. CASE d = c /\ q = p
    BY <1>3, <2>1 DEF Onward
  <2>2. CASE d # c \/ q # p
    BY <1>1, <1>3, <2>2 DEF OnlyRequest
  <2> QED
    BY <2>1, <2>2
<1> QED
  BY <1>2, <1>3 DEF SentOnlyKnown

LEMMA ServerEffect ==
  ASSUME IInv, InHand, Asked, [Next]_vars
  PROVE  Onward /\ SentOnlyKnown
PROOF
<1> USE SyncAssumption DEF SyncAssumption
<1>1. CASE UNCHANGED serverVars
  BY <1>1 DEF serverVars, Onward, SentOnlyKnown
<1>2. CASE World
  BY <1>2, WorldEffect DEF SentOnlyKnown
<1>3. ASSUME NEW c \in Consumers, NEW p \in Proposals, Serve(c, p)
      PROVE  Onward /\ SentOnlyKnown
  <2>1. status[p] # "none"
    BY <1>3, ServeEffect DEF Asked
  <2> QED
    BY <1>3, <2>1, ServeEffect DEF SentOnlyKnown
<1>4. ASSUME NEW c \in Consumers, NEW p \in Proposals, Take(c, p)
      PROVE  Onward /\ SentOnlyKnown
  BY <1>4, TakeEffect DEF SentOnlyKnown
<1>5. ASSUME NEW c \in Consumers, NEW p \in Proposals, NEW action, Send(c, p, action),
             status[p] # "none"
      PROVE  Onward /\ SentOnlyKnown
  BY <1>5, SendEffect DEF SentOnlyKnown
<1>6. ASSUME NEW s \in Syncs, Post(s) PROVE Onward /\ SentOnlyKnown
  <2>1. current[s].row.proposal \in Proposals /\ status[current[s].row.proposal] # "none"
    BY <1>6 DEF Post, InHand, Asked
  <2> QED
    BY <1>5, <1>6, <2>1 DEF Post
<1>7. ASSUME NEW s \in Syncs, Receive(s) PROVE Onward /\ SentOnlyKnown
  <2>1. current[s].row.proposal \in Proposals
    BY <1>7 DEF Receive, InHand
  <2> QED
    BY <1>4, <1>7, <2>1 DEF Receive
<1>8. ASSUME NEW s \in Syncs, NEW p \in Proposals, Dropped(s, p) PROVE Onward /\ SentOnlyKnown
  BY <1>4, <1>8 DEF Dropped
<1>9. ASSUME NEW h \in People, NEW p \in Proposals, Tap(h, p) PROVE Onward /\ SentOnlyKnown
  BY <1>5, <1>9 DEF Tap, People
<1>10. CASE Server
  BY <1>2, <1>3, <1>4, <1>10 DEF Server, People
<1>11. ASSUME NEW s \in Syncs,
              \/ Start(s) \/ Create(s) \/ Stat(s) \/ Unlink(s) \/ List(s) \/ ListFails(s)
              \/ GiveUp(s) \/ End(s) \/ Crash(s)
              \/ \E p \in Proposals : Skip(s, p) \/ Claim(s, p)
       PROVE  UNCHANGED serverVars
  BY <1>11 DEF Start, Create, Stat, Unlink, List, ListFails, GiveUp, End, Crash, Skip,
               Claim, Claims
<1>12. CASE Age \/ UNCHANGED vars
  BY <1>1, <1>12 DEF Age, vars
<1> QED
  BY <1>1, <1>6, <1>7, <1>8, <1>9, <1>10, <1>11, <1>12 DEF Next, Step

LEMMA AskedStep ==
  ASSUME IInv, InHand, Asked, [Next]_vars
  PROVE  Asked'
PROOF
<1>1. Onward /\ SentOnlyKnown
  BY ServerEffect
<1>2. \A c \in Consumers, p \in Proposals :
        /\ requests'[c][p].stage # "none" => status'[p] # "none"
        /\ requests'[c][p].stage # "not_found"
        /\ requests'[c][p].stage = "conflict" => status'[p] # "pending"
  BY <1>1, AskedServer
\* Proposals on the list and in hand exist already.
<1>3. /\ DOMAIN todo' = Syncs
      /\ \A s \in Syncs :
           todo'[s] \subseteq Proposals /\ \A p \in todo'[s] : status[p] # "none"
  <2>1. CASE UNCHANGED todo
    BY <2>1 DEF Asked
  <2>2. ASSUME NEW s \in Syncs, List(s) PROVE <1>3
    BY <2>2 DEF List, Listed, Asked
  <2>3. ASSUME NEW s \in Syncs, todo' = [todo EXCEPT ![s] = {}] PROVE <1>3
    BY <2>3 DEF Asked
  <2>4. ASSUME NEW s \in Syncs, NEW p, todo' = [todo EXCEPT ![s] = @ \ {p}] PROVE <1>3
    BY <2>4 DEF Asked
  <2>5. ASSUME NEW s \in Syncs, NEW p \in Proposals, Claim(s, p)
        PROVE  todo' = [todo EXCEPT ![s] = @ \ {p}]
    BY <2>5 DEF Claim, Claims
  <2>6. \/ UNCHANGED todo
        \/ \E s \in Syncs : \/ List(s) \/ todo' = [todo EXCEPT ![s] = {}]
                            \/ \E p \in Proposals : todo' = [todo EXCEPT ![s] = @ \ {p}]
    BY <2>5 DEF Next, Step, Server, Age, Start, Create, Stat, Unlink, ListFails, Finish, Skip,
                Post, Receive, GiveUp, End, Crash, Dropped, Tap, jobVars, localVars, vars
  <2> QED
    BY <2>1, <2>2, <2>3, <2>4, <2>6
<1>4. \A s \in Syncs : pc'[s] \in {"post", "wait"} => status[current'[s].row.proposal] # "none"
  <2>1. ASSUME UNCHANGED <<pc, current>> PROVE <1>4
    BY <2>1 DEF Asked
  <2>2. ASSUME NEW s \in Syncs, NEW to, to \notin {"post", "wait"}, Goto(s, to),
               current' = current \/ current' = [current EXCEPT ![s] = None]
        PROVE  <1>4
    BY <2>2 DEF Asked, Goto, InHand
  <2>3. ASSUME NEW s \in Syncs, Post(s) PROVE <1>4
    BY <2>3 DEF Post, Goto, Asked, InHand
  <2>4. ASSUME NEW s \in Syncs, NEW p \in Proposals, Claim(s, p) PROVE <1>4
    <3>1. PICK id, resumed : Claims(s, p, id, resumed)
      BY <2>4 DEF Claim
    <3>2. PICK row : /\ row.proposal = p
                     /\ current' = [current EXCEPT ![s] = [row |-> row, resumed |-> resumed]]
      BY <3>1 DEF Claims
    <3>3. current'[s].row.proposal = p /\ status[p] # "none"
      <4>1. current'[s] = [row |-> row, resumed |-> resumed]
        BY <3>2 DEF InHand
      <4> QED
        BY <3>1, <3>2, <4>1 DEF Claims, Asked
    <3>4. \A t \in Syncs : t # s => pc'[t] = pc[t] /\ current'[t] = current[t]
      BY <3>1, <3>2 DEF Claims, Goto, InHand
    <3> QED
      BY <3>3, <3>4 DEF Asked
  <2>5. \/ UNCHANGED <<pc, current>>
        \/ \E s \in Syncs : \E to : /\ to \notin {"post", "wait"} /\ Goto(s, to)
                                    /\ current' = current \/ current' = [current EXCEPT ![s] = None]
        \/ \E s \in Syncs : Post(s) \/ \E p \in Proposals : Claim(s, p)
    BY Moves
  <2> QED
    BY <2>1, <2>2, <2>3, <2>4, <2>5
<1>5. \A s \in Syncs : pc'[s] \in {"post", "wait"} => current'[s].row.proposal \in Proposals
  BY InHandStep DEF InHand
<1> QED
  BY <1>1, <1>2, <1>3, <1>4, <1>5 DEF Asked, Onward

-----------------------------------------------------------------------------
(* The local store, as long as no lock file was taken from a sync that runs. *)

\* The lock file names the one sync that works.
Alone == \A s \in Syncs : pc[s] \in Holding => fileLock = s

\* One row per id and one per proposal.
Store ==
  /\ rows \subseteq Row
  /\ \A r, q \in rows : r.localId = q.localId \/ r.proposal = q.proposal => r = q

\* Whatever a sync has asked for or won has left a row: it is written first.
Traced ==
  \A s \in Syncs, p \in Proposals :
    requests[s][p].stage # "none" \/ winner[p] \in Syncs => RowsOf(p) # {}

\* What a row says of its proposal is so and cannot change any more.
Told ==
  \A r \in rows :
    /\ r.localStatus = "applied" => winner[r.proposal] \in Syncs
    /\ r.localStatus = "refused" =>
         winner[r.proposal] \notin Syncs /\ status[r.proposal] \notin {"none", "pending"}

\* The row in hand is in the store, pending.
Hand ==
  \A s \in Syncs : pc[s] \in {"post", "wait"} =>
    current[s].row \in rows /\ current[s].row.localStatus = "pending"

\* A proposal whose row was not there before has not been asked about by any
\* sync: if this consumer has won it, it is with the request that is out, which
\* has been told ok.  A conflict is then the decision of somebody else.
First ==
  \A s \in Syncs : \A p \in Proposals :
    pc[s] \in {"post", "wait"} /\ ~current[s].resumed /\ current[s].row.proposal = p =>
      /\ \A t \in Syncs \ {s} : requests[t][p].stage = "none"
      /\ pc[s] = "post" => requests[s][p].stage = "none"
      /\ winner[p] \in Syncs => pc[s] = "wait" /\ requests[s][p].stage = "ok"

Tidy == Alone /\ Store /\ Traced /\ Told /\ Hand /\ First

SyncInv == IInv /\ InHand /\ Asked /\ (~displaced => Tidy)

\* newLocalId finds an id: every row has one of its own and a proposal of its own.
LEMMA FreshIds ==
  ASSUME Store
  PROVE  FreshId \in LocalIds /\ \A r \in rows : r.localId # FreshId
PROOF
<1> SUFFICES \E i \in LocalIds : \A r \in rows : r.localId # i
  BY DEF FreshId
<1>1. SUFFICES ASSUME \A i \in LocalIds : \E r \in rows : r.localId = i
               PROVE  FALSE
  OBVIOUS
<1> DEFINE holder(i) == CHOOSE r \in rows : r.localId = i
           f == [i \in LocalIds |-> holder(i).proposal]
<1>2. \A i \in LocalIds : holder(i) \in rows /\ holder(i).localId = i
  BY <1>1
<1> HIDE DEF holder
<1>3. f \in [LocalIds -> Proposals]
  BY <1>2 DEF Store, Row
<1>4. ASSUME NEW i \in LocalIds, NEW j \in LocalIds, f[i] = f[j]
      PROVE  i = j
  <2>1. holder(i).proposal = holder(j).proposal
    BY <1>4
  <2> QED
    BY <1>2, <2>1 DEF Store
<1> HIDE DEF f
<1> QED
  BY <1>3, <1>4, IdAssumption DEF IdAssumption

\* A row that is won stays won by the same consumer.
LEMMA WonForGood ==
  ASSUME IInv, Onward, NEW p \in Proposals, winner[p] \in Syncs
  PROVE  winner'[p] = winner[p]
PROOF
<1>1. winner[p] # Nobody
  BY SyncAssumption, ServerAssumption DEF SyncAssumption, ServerAssumption
<1> QED
  BY <1>1 DEF IInv, ServerTypeOK, Onward

\* The server moves, or a request nobody waits for is dropped: no request of a
\* sync appears, and an ok that is waited for stays.
LEMMA TidyServer ==
  ASSUME IInv, Tidy, Onward,
         UNCHANGED <<rows, fileLock, pc, current>>,
         \A s \in Syncs, p \in Proposals :
           /\ requests'[s][p].stage # "none" => requests[s][p].stage # "none"
           /\ /\ pc[s] = "wait" /\ current[s].row.proposal = p
              /\ requests[s][p].stage = "ok"
              => requests'[s][p].stage = "ok"
  PROVE  Tidy'
PROOF
<1> USE SyncAssumption DEF SyncAssumption
<1>1. Alone' /\ Store' /\ Hand'
  BY DEF Tidy, Alone, Store, Hand
<1>2. \A p \in Proposals : RowsOf(p)' = RowsOf(p)
  BY DEF RowsOf
<1>3. Traced'
  <2> SUFFICES ASSUME NEW s \in Syncs, NEW p \in Proposals,
                      requests'[s][p].stage # "none" \/ winner'[p] \in Syncs
               PROVE  RowsOf(p) # {}
    BY <1>2 DEF Traced
  <2>1. CASE requests'[s][p].stage # "none" \/ winner'[p] = winner[p]
    BY <2>1 DEF Tidy, Traced
  <2>2. CASE winner'[p] # winner[p] /\ winner'[p] \in Syncs
    BY <2>2 DEF Tidy, Traced, Onward
  <2> QED
    BY <2>1, <2>2
<1>4. Told'
  <2> SUFFICES ASSUME NEW r \in rows
               PROVE  /\ r.localStatus = "applied" => winner'[r.proposal] \in Syncs
                      /\ r.localStatus = "refused" =>
                           /\ winner'[r.proposal] \notin Syncs
                           /\ status'[r.proposal] \notin {"none", "pending"}
    BY DEF Told
  <2>1. r.proposal \in Proposals
    BY DEF Tidy, Store, Row
  <2>2. CASE r.localStatus = "applied"
    BY <2>1, <2>2, WonForGood DEF Tidy, Told
  <2>3. CASE r.localStatus = "refused"
    BY <2>1, <2>3 DEF Tidy, Told, Onward
  <2> QED
    BY <2>2, <2>3
<1>5. First'
  <2> SUFFICES ASSUME NEW s \in Syncs, NEW p \in Proposals,
                      pc[s] \in {"post", "wait"}, ~current[s].resumed,
                      current[s].row.proposal = p
               PROVE  /\ \A t \in Syncs \ {s} : requests'[t][p].stage = "none"
                      /\ pc[s] = "post" => requests'[s][p].stage = "none"
                      /\ winner'[p] \in Syncs => pc[s] = "wait" /\ requests'[s][p].stage = "ok"
    BY DEF First
  <2>1. /\ \A t \in Syncs \ {s} : requests[t][p].stage = "none"
        /\ pc[s] = "post" => requests[s][p].stage = "none"
        /\ winner[p] \in Syncs => pc[s] = "wait" /\ requests[s][p].stage = "ok"
    BY DEF Tidy, First
  <2>2. CASE winner'[p] = winner[p]
    BY <2>1, <2>2
  <2>3. CASE winner'[p] # winner[p]
    <3>1. PICK c \in Consumers : /\ winner'[p] = c
                                 /\ requests[c][p].stage # "none" /\ requests'[c][p].stage = "ok"
      BY <2>3 DEF Onward
    <3> QED
      BY <2>1, <3>1
  <2> QED
    BY <2>2, <2>3
<1> QED
  BY <1>1, <1>3, <1>4, <1>5 DEF Tidy

\* A sync comes, goes or looks on: rows and requests stay.
LEMMA TidyMove ==
  ASSUME InHand, Tidy, UNCHANGED <<status, requests, winner, rows>>,
         Alone',
         \/ UNCHANGED <<pc, current>>
         \/ \E s \in Syncs : \E to :
              /\ to \notin {"post", "wait"} /\ Goto(s, to)
              /\ current' = current \/ current' = [current EXCEPT ![s] = None]
  PROVE  Tidy'
PROOF
<1>1. \A t \in Syncs : pc'[t] \in {"post", "wait"} => pc'[t] = pc[t] /\ current'[t] = current[t]
  BY DEF Goto, InHand
<1>2. Store' /\ Told'
  BY DEF Tidy, Store, Told
<1>3. Traced'
  BY DEF Tidy, Traced, RowsOf
<1>4. Hand' /\ First'
  BY <1>1 DEF Tidy, Hand, First
<1> QED
  BY <1>2, <1>3, <1>4 DEF Tidy

\* A sync writes the row of the proposal it begins: a new one, or again the row
\* that was there.
LEMMA TidyClaim ==
  ASSUME IInv, InHand, Tidy, NEW s \in Syncs, NEW p \in Proposals, Claim(s, p)
  PROVE  Tidy'
PROOF
<1> USE SyncAssumption DEF SyncAssumption
<1>1. PICK id \in LocalIds, resumed \in BOOLEAN :
        /\ Claims(s, p, id, resumed)
        /\ \/ RowsOf(p) = {} /\ ~resumed /\ \A r \in rows : r.localId # id
           \/ resumed /\ \E r \in RowsOf(p) : r.localId = id
  <2>1. CASE RowsOf(p) = {}
    BY <2>1, FreshIds DEF Claim, Tidy
  <2>2. ASSUME NEW r \in RowsOf(p), Claims(s, p, r.localId, TRUE)
        PROVE  r.localId \in LocalIds
    BY DEF RowsOf, Tidy, Store, Row
  <2> QED
    BY <2>1, <2>2 DEF Claim
<1> DEFINE row == [localId |-> id, proposal |-> p, localStatus |-> "pending"]
<1>2. /\ pc[s] = "next" /\ ~SettledHere(p)
      /\ rows' = {r \in rows : r.localId # id} \cup {row}
      /\ current'[s] = [row |-> row, resumed |-> resumed]
      /\ pc'[s] = "post"
      /\ \A t \in Syncs : t # s => pc'[t] = pc[t] /\ current'[t] = current[t]
      /\ UNCHANGED <<status, requests, winner, fileLock>>
  BY <1>1 DEF Claims, Put, Goto, InHand, serverVars, lockVars
<1>3. row \in Row /\ row.localId = id /\ row.proposal = p /\ row.localStatus = "pending"
  BY DEF Row
<1> HIDE DEF row
<1>4. \A t \in Syncs \ {s} : pc[t] \notin Holding
  BY <1>2 DEF Tidy, Alone, Holding
<1>5. \A r \in rows : r.localId # id => r.proposal # p
  BY <1>1 DEF RowsOf, Tidy, Store
<1>6. Alone'
  BY <1>2, <1>4 DEF Tidy, Alone, Holding
<1>7. Store'
  BY <1>2, <1>3, <1>5 DEF Tidy, Store
<1>8. Traced'
  <2> SUFFICES ASSUME NEW t \in Syncs, NEW q \in Proposals,
                      requests[t][q].stage # "none" \/ winner[q] \in Syncs
               PROVE  \E r \in rows' : r.proposal = q
    BY <1>2 DEF Traced, RowsOf
  <2>1. PICK r \in rows : r.proposal = q
    BY DEF Tidy, Traced, RowsOf
  <2>2. CASE r.localId # id
    BY <1>2, <2>1, <2>2
  <2>3. CASE r.localId = id
    <3>1. r.proposal = p
      BY <1>1, <2>3 DEF RowsOf, Tidy, Store
    <3> QED
      BY <1>2, <1>3, <2>1, <3>1
  <2> QED
    BY <2>2, <2>3
<1>9. Told'
  BY <1>2, <1>3 DEF Tidy, Told
<1>10. ASSUME NEW t \in Syncs, pc'[t] \in {"post", "wait"} PROVE t = s
  BY <1>2, <1>4, <1>10 DEF Holding
<1>11. Hand'
  BY <1>2, <1>3, <1>10 DEF Hand
<1>12. First'
  <2> SUFFICES ASSUME ~resumed
               PROVE  /\ \A t \in Syncs : requests[t][p].stage = "none"
                      /\ winner[p] \notin Syncs
    BY <1>2, <1>3, <1>10 DEF First
  <2> QED
    BY <1>1 DEF Tidy, Traced
<1> QED
  BY <1>6, <1>7, <1>8, <1>9, <1>11, <1>12 DEF Tidy

LEMMA TidyPost ==
  ASSUME IInv, InHand, Tidy, NEW s \in Syncs, Post(s)
  PROVE  Tidy'
PROOF
<1> USE SyncAssumption DEF SyncAssumption
<1> DEFINE p == current[s].row.proposal
<1>1. /\ pc[s] = "post" /\ pc'[s] = "wait"
      /\ \A t \in Syncs : t # s => pc'[t] = pc[t]
      /\ UNCHANGED <<rows, fileLock, current>>
      /\ p \in Proposals
  BY DEF Post, Goto, InHand, lockVars
<1>2. /\ OnlyRequest(s, p)
      /\ requests[s][p].stage = "none" /\ requests'[s][p].stage = "sent"
      /\ UNCHANGED <<status, winner>>
  <2>1. Send(s, p, DecideOutcome(p))
    BY DEF Post
  <2>2. UNCHANGED winner
    BY <2>1 DEF Send
  <2> HIDE DEF p
  <2> QED
    BY <1>1, <2>1, <2>2, SendEffect
<1> HIDE DEF p
<1>3. \A t \in Syncs \ {s} : pc[t] \notin Holding
  BY <1>1 DEF Tidy, Alone, Holding
<1>4. Alone' /\ Store' /\ Told'
  BY <1>1, <1>2 DEF Tidy, Alone, Store, Told, Holding
<1>5. Hand'
  BY <1>1 DEF Tidy, Hand
<1>6. Traced'
  <2> SUFFICES ASSUME NEW t \in Syncs, NEW q \in Proposals,
                      requests'[t][q].stage # "none" \/ winner[q] \in Syncs
               PROVE  RowsOf(q) # {}
    BY <1>1, <1>2 DEF Traced, RowsOf
  <2>1. CASE t = s /\ q = p
    BY <1>1, <2>1 DEF p, Tidy, Hand, RowsOf
  <2>2. CASE t # s \/ q # p
    BY <1>2, <2>2 DEF OnlyRequest, Tidy, Traced
  <2> QED
    BY <2>1, <2>2
<1>7. First'
  <2> SUFFICES ASSUME ~current[s].resumed
               PROVE  /\ \A t \in Syncs \ {s} : requests'[t][p].stage = "none"
                      /\ winner[p] \notin Syncs
    BY <1>1, <1>2, <1>3 DEF First, Holding, p
  <2>1. /\ \A t \in Syncs \ {s} : requests[t][p].stage = "none"
        /\ winner[p] \notin Syncs
    BY <1>1, <1>2 DEF Tidy, First, p
  <2> QED
    BY <1>1, <1>2, <2>1 DEF OnlyRequest
<1> QED
  BY <1>4, <1>5, <1>6, <1>7 DEF Tidy

\* The sync that waited has its answer: what remains to see is the store.
LEMMA TidyAnswered ==
  ASSUME InHand, Tidy, NEW s \in Syncs, pc[s] = "wait",
         pc'[s] = "next", \A t \in Syncs : t # s => pc'[t] = pc[t],
         UNCHANGED <<status, winner, fileLock, current>>,
         OnlyRequest(s, current[s].row.proposal),
         requests'[s][current[s].row.proposal].stage = "none",
         Store', Told',
         \A q \in Proposals : RowsOf(q) # {} => RowsOf(q)' # {}
  PROVE  Tidy'
PROOF
<1> USE SyncAssumption DEF SyncAssumption
<1>1. \A t \in Syncs \ {s} : pc[t] \notin Holding
  BY DEF Tidy, Alone, Holding
<1>2. Alone' /\ Hand' /\ First'
  BY <1>1 DEF Tidy, Alone, Hand, First, Holding
<1>3. Traced'
  BY DEF Tidy, Traced, OnlyRequest
<1> QED
  BY <1>2, <1>3 DEF Tidy

\* The answer settles the row, and the row says what happened.
LEMMA TidyReceive ==
  ASSUME IInv, InHand, Asked, Tidy, NEW s \in Syncs, Receive(s)
  PROVE  Tidy'
PROOF
<1> USE SyncAssumption DEF SyncAssumption
<1> DEFINE p == current[s].row.proposal
           old == current[s].row
           answer == requests[s][p].stage
<1>1. /\ pc[s] = "wait" /\ pc'[s] = "next"
      /\ \A t \in Syncs : t # s => pc'[t] = pc[t]
      /\ UNCHANGED <<fileLock, current>>
      /\ p \in Proposals
  BY DEF Receive, Goto, InHand, lockVars
<1>2. /\ OnlyRequest(s, p) /\ requests'[s][p].stage = "none"
      /\ UNCHANGED <<status, winner>>
  BY <1>1, TakeEffect DEF Receive, Take
<1>3. old \in rows /\ old.localStatus = "pending" /\ old.proposal = p /\ old \in Row
  BY <1>1 DEF Tidy, Hand, Store
<1>4. \/ UNCHANGED rows
      \/ \E outcome \in {"applied", "refused", "needs_reconciliation"} :
           /\ Record(s, outcome)
           /\ outcome = "applied" => winner[p] \in Syncs
           /\ outcome = "refused" => winner[p] \notin Syncs /\ status[p] \notin {"none", "pending"}
  <2>1. CASE answer = "ok"
    <3>1. winner[p] = s
      BY <1>1, <2>1 DEF IInv, AckIsTrue
    <3>2. Record(s, "applied")
      BY <2>1 DEF Receive
    <3> QED
      BY <3>1, <3>2
  <2>2. CASE answer = "conflict" /\ ~current[s].resumed
    <3>1. status[p] \notin {"none", "pending"}
      BY <1>1, <2>2 DEF Asked
    <3>2. winner[p] \notin Syncs
      BY <1>1, <2>2 DEF Tidy, First
    <3>3. Record(s, "refused")
      BY <2>2 DEF Receive
    <3> QED
      BY <3>1, <3>2, <3>3
  <2>3. CASE answer = "conflict" /\ current[s].resumed
    BY <2>3 DEF Receive
  <2>4. CASE answer = "busy"
    BY <2>4 DEF Receive
  <2>5. CASE answer = "not_found"
    BY <1>1, <2>5 DEF Asked
  <2> QED
    BY <2>1, <2>2, <2>3, <2>4, <2>5 DEF Receive
<1>5. CASE UNCHANGED rows
  <2>1. Store' /\ Told' /\ \A q \in Proposals : RowsOf(q)' = RowsOf(q)
    BY <1>2, <1>5 DEF Tidy, Store, Told, RowsOf
  <2> QED
    BY <1>1, <1>2, <2>1, TidyAnswered
<1>6. ASSUME NEW outcome \in {"applied", "refused", "needs_reconciliation"},
             Record(s, outcome),
             outcome = "applied" => winner[p] \in Syncs,
             outcome = "refused" => winner[p] \notin Syncs /\ status[p] \notin {"none", "pending"}
      PROVE  Tidy'
  <2> DEFINE new == [old EXCEPT !.localStatus = outcome]
  <2>1. /\ new \in Row /\ new.localId = old.localId /\ new.proposal = p
        /\ new.localStatus = outcome
    BY <1>3 DEF Row
  <2>2. rows' = {r \in rows : r.localId # old.localId} \cup {new}
    BY <1>6, <2>1 DEF Record, Put
  <2> HIDE DEF new, old, p
  <2>3. Store'
    BY <1>3, <2>1, <2>2 DEF Tidy, Store
  <2>4. \A q \in Proposals : RowsOf(q) # {} => RowsOf(q)' # {}
    <3> SUFFICES ASSUME NEW q \in Proposals, NEW r \in rows, r.proposal = q
                 PROVE  \E x \in rows' : x.proposal = q
      BY DEF RowsOf
    <3>1. CASE r.localId = old.localId
      BY <1>3, <2>1, <2>2, <3>1 DEF Tidy, Store
    <3>2. CASE r.localId # old.localId
      BY <2>2, <3>2
    <3> QED
      BY <3>1, <3>2
  <2>5. Told'
    BY <1>2, <1>6, <2>1, <2>2 DEF Tidy, Told
  <2> QED
    BY <1>1, <1>2, <2>3, <2>4, <2>5, TidyAnswered DEF p
<1> QED
  BY <1>4, <1>5, <1>6

\* The file goes to a sync only when nobody works, or from one that works: that
\* is a displacement.
LEMMA AloneStep ==
  ASSUME InHand, Alone, ~displaced', [Next]_vars
  PROVE  Alone'
PROOF
<1> USE SyncAssumption, ServerAssumption DEF SyncAssumption, ServerAssumption
<1>1. CASE UNCHANGED <<fileLock, pc>>
  BY <1>1 DEF Alone
<1>2. ASSUME NEW s \in Syncs, NEW to, Goto(s, to), UNCHANGED fileLock,
             to \notin Holding \/ pc[s] \in Holding
      PROVE  Alone'
  BY <1>2 DEF Alone, Goto, InHand
<1>3. ASSUME NEW s \in Syncs, pc[s] \in Holding, Finish(s) PROVE Alone'
  BY <1>3 DEF Finish, Goto, Alone, InHand, Holding
<1>4. ASSUME NEW s \in Syncs, Create(s) PROVE Alone'
  <2>1. CASE fileLock = Nobody /\ fileLock' = s /\ Goto(s, "list")
    <3>1. \A t \in Syncs : pc[t] \notin Holding
      BY <2>1 DEF Alone
    <3> QED
      BY <2>1, <3>1 DEF Alone, Goto, InHand
  <2>2. CASE UNCHANGED fileLock /\ \E to \in {"stat", "idle"} : Goto(s, to)
    BY <1>2, <2>2 DEF Holding
  <2> QED
    BY <1>4, <2>1, <2>2 DEF Create
<1>5. ASSUME NEW s \in Syncs, Unlink(s) PROVE Alone'
  <2>1. \A t \in Syncs : pc[t] \notin Holding
    BY <1>5 DEF Unlink, Alone, Holding
  <2> QED
    BY <1>5, <2>1 DEF Unlink, Goto, Alone, InHand, Holding
<1>6. ASSUME NEW s \in Syncs, Stat(s) PROVE Alone'
  BY <1>2, <1>6 DEF Stat, lockVars, Holding
<1>7. ASSUME NEW s \in Syncs,
             \/ List(s) \/ Post(s) \/ Receive(s) \/ GiveUp(s)
             \/ \E p \in Proposals : Claim(s, p)
      PROVE  Alone'
  <2>1. pc[s] \in Holding /\ UNCHANGED fileLock /\ \E to : Goto(s, to)
    BY <1>7 DEF List, Post, Receive, GiveUp, Claim, Claims, lockVars, Holding
  <2> QED
    BY <1>2, <2>1
<1>8. ASSUME NEW s \in Syncs, Start(s) \/ Crash(s) PROVE Alone'
  BY <1>2, <1>8 DEF Start, Crash, lockVars, Holding
<1>9. ASSUME NEW s \in Syncs, End(s) \/ ListFails(s) PROVE Alone'
  BY <1>3, <1>9 DEF End, ListFails, Holding
<1>10. ASSUME NEW s \in Syncs, NEW p \in Proposals, Skip(s, p) \/ Dropped(s, p) PROVE Alone'
  BY <1>1, <1>10 DEF Skip, Dropped, lockVars, localVars
<1>11. ASSUME NEW h \in People, NEW p \in Proposals, Tap(h, p) PROVE Alone'
  BY <1>1, <1>11 DEF Tap, localVars
<1>12. CASE Server \/ Age \/ UNCHANGED vars
  BY <1>1, <1>12 DEF Server, Age, localVars, vars
<1> QED
  BY <1>4, <1>5, <1>6, <1>7, <1>8, <1>9, <1>10, <1>11, <1>12 DEF Next, Step

\* Once displaced, always displaced.
LEMMA DisplacedStays ==
  ASSUME [Next]_vars, ~displaced'
  PROVE  ~displaced
BY DEF Next, Step, Server, Age, Start, Create, Stat, Unlink, List, ListFails, Finish, Skip, Claim,
       Claims, Post, Receive, GiveUp, End, Crash, Dropped, Tap, lockVars, localVars, vars

LEMMA TidyStep ==
  ASSUME IInv, InHand, Asked, Tidy, ~displaced', [Next]_vars
  PROVE  Tidy'
PROOF
<1> USE SyncAssumption DEF SyncAssumption
<1>1. Onward
  BY ServerEffect
<1>2. Alone'
  BY AloneStep DEF Tidy
\* The server and the people.
<1>3. ASSUME UNCHANGED requests, UNCHANGED localVars PROVE Tidy'
  BY <1>1, <1>3, TidyServer DEF localVars
<1>4. ASSUME NEW c \in Consumers, NEW p \in Proposals, OnlyRequest(c, p), UNCHANGED localVars,
             c \in Syncs =>
               /\ requests'[c][p].stage # "none" => requests[c][p].stage # "none"
               /\ /\ pc[c] = "wait" /\ current[c].row.proposal = p
                  /\ requests[c][p].stage = "ok"
                  => requests'[c][p].stage = "ok"
      PROVE  Tidy'
  <2>1. \A s \in Syncs, q \in Proposals :
           /\ requests'[s][q].stage # "none" => requests[s][q].stage # "none"
           /\ /\ pc[s] = "wait" /\ current[s].row.proposal = q
              /\ requests[s][q].stage = "ok"
              => requests'[s][q].stage = "ok"
    BY <1>4 DEF OnlyRequest
  <2> QED
    BY <1>1, <1>4, <2>1, TidyServer DEF localVars
<1>5. CASE Server
  <2>1. CASE World
    BY <1>3, <1>5, <2>1, WorldEffect DEF Server
  <2>2. ASSUME NEW c \in Consumers, NEW p \in Proposals, Serve(c, p) PROVE Tidy'
    BY <1>4, <1>5, <2>2, ServeEffect DEF Server
  <2>3. ASSUME NEW h \in People, NEW p \in Proposals, Take(h, p) PROVE Tidy'
    BY <1>4, <1>5, <2>3, TakeEffect DEF Server, People
  <2> QED
    BY <1>5, <2>1, <2>2, <2>3 DEF Server
<1>6. ASSUME NEW h \in People, NEW p \in Proposals, Tap(h, p) PROVE Tidy'
  BY <1>4, <1>6, SendEffect DEF Tap, People
<1>7. ASSUME NEW s \in Syncs, NEW p \in Proposals, Dropped(s, p) PROVE Tidy'
  BY <1>4, <1>7, TakeEffect DEF Dropped
\* A sync that leaves the rows and the server alone.
<1>8. ASSUME UNCHANGED serverVars, UNCHANGED rows,
             \/ UNCHANGED <<pc, current>>
             \/ \E s \in Syncs : \E to :
                  /\ to \notin {"post", "wait"} /\ Goto(s, to)
                  /\ current' = current \/ current' = [current EXCEPT ![s] = None]
      PROVE  Tidy'
  BY <1>2, <1>8, TidyMove DEF serverVars
<1>9. ASSUME NEW s \in Syncs,
             \/ Start(s) \/ Create(s) \/ Stat(s) \/ Unlink(s) \/ List(s) \/ ListFails(s)
             \/ GiveUp(s) \/ End(s) \/ Crash(s)
      PROVE  Tidy'
  <2>1. /\ UNCHANGED serverVars /\ UNCHANGED rows
        /\ \E to : /\ to \notin {"post", "wait"} /\ Goto(s, to)
                   /\ current' = current \/ current' = [current EXCEPT ![s] = None]
    <3>1. CASE Start(s)
      BY <3>1 DEF Start, jobVars
    <3>2. CASE Create(s)
      BY <3>2 DEF Create, jobVars
    <3>3. CASE Stat(s)
      BY <3>3 DEF Stat, jobVars
    <3>4. CASE Unlink(s)
      BY <3>4 DEF Unlink, jobVars
    <3>5. CASE List(s)
      BY <3>5 DEF List
    <3>6. CASE ListFails(s)
      BY <3>6 DEF ListFails, Finish
    <3>7. CASE GiveUp(s)
      BY <3>7 DEF GiveUp
    <3>8. CASE End(s)
      BY <3>8 DEF End, Finish
    <3>9. CASE Crash(s)
      BY <3>9 DEF Crash
    <3> QED
      BY <1>9, <3>1, <3>2, <3>3, <3>4, <3>5, <3>6, <3>7, <3>8, <3>9
  <2> QED
    BY <1>8, <2>1
<1>10. ASSUME NEW s \in Syncs, NEW p \in Proposals, Skip(s, p) PROVE Tidy'
  BY <1>8, <1>10 DEF Skip
<1>11. CASE Age \/ UNCHANGED vars
  BY <1>8, <1>11 DEF Age, jobVars, vars, localVars
<1> QED
  BY <1>5, <1>6, <1>7, <1>9, <1>10, <1>11, TidyClaim, TidyPost, TidyReceive DEF Next, Step

LEMMA InitSync == Init => SyncInv
PROOF
<1> SUFFICES ASSUME Init PROVE SyncInv
  OBVIOUS
<1> USE SyncAssumption, ServerAssumption DEF SyncAssumption, ServerAssumption
<1>1. IInv
  BY InitServer DEF Init
<1>2. \A s \in Syncs, p \in Proposals :
        requests[s][p].stage = "none" /\ winner[p] \notin Syncs /\ pc[s] = "idle"
  BY DEF Init, ServerInit, NoRequest
<1>3. Tidy
  BY <1>2 DEF Init, Tidy, Alone, Store, Traced, Told, Hand, First, Holding
<1> QED
  BY <1>1, <1>3, InitInHand, InitAsked DEF SyncInv

LEMMA SyncInvariance == Spec => []SyncInv
PROOF
<1>1. SyncInv /\ [Next]_vars => SyncInv'
  <2> SUFFICES ASSUME SyncInv, [Next]_vars PROVE SyncInv'
    OBVIOUS
  <2>1. IInv'
    BY ServerStep, ServerInvStep DEF SyncInv
  <2>2. InHand' /\ Asked'
    BY InHandStep, AskedStep DEF SyncInv
  <2>3. ~displaced' => Tidy'
    BY DisplacedStays, TidyStep DEF SyncInv
  <2> QED
    BY <2>1, <2>2, <2>3 DEF SyncInv
<1> QED
  BY <1>1, InitSync, PTL DEF Spec

-----------------------------------------------------------------------------
\* Two syncs work at once only if one took the lock file of the other while it
\* ran, however many there are and whatever they die of.
THEOREM Overlap == Spec => []OverlapOnlyByDisplacement
PROOF
<1>1. SyncInv => OverlapOnlyByDisplacement
  BY DEF SyncInv, Tidy, Alone, OverlapOnlyByDisplacement, SingleFlight
<1> QED
  BY <1>1, SyncInvariance, PTL

\* Short of that the local store is true: one row for each proposal, applied
\* only if this consumer settled it, refused only if it did not.
THEOREM TruthfulRows == Spec => []LocalTruth
PROOF
<1>1. ASSUME SyncInv PROVE LocalTruth
  <2> SUFFICES ASSUME Tidy PROVE LocalTruth!2
    BY <1>1 DEF SyncInv, LocalTruth
  <2>1. ASSUME NEW p \in Proposals PROVE Cardinality(RowsOf(p)) <= 1
    <3>1. CASE RowsOf(p) = {}
      BY <3>1, FS_EmptySet
    <3>2. ASSUME NEW r \in RowsOf(p) PROVE Cardinality(RowsOf(p)) = 1
      <4>1. RowsOf(p) = {r}
        BY <3>2 DEF RowsOf, Tidy, Store
      <4> QED
        BY <4>1, FS_Singleton
    <3> QED
      BY <3>1, <3>2
  <2> QED
    BY <2>1 DEF Tidy, Told
<1> QED
  BY <1>1, SyncInvariance, PTL
=============================================================================
