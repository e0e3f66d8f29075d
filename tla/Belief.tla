------------------------------- MODULE Belief -------------------------------
(***************************************************************************)
(* How a claim changes the semantic graph: Consolidator.applyDecision and  *)
(* applySecondaryContradiction (src/consolidation/consolidator.ts) with    *)
(* the prediction-error gate (update-decision.ts), the status-drift guard  *)
(* (status-drift.ts) and the node rows they write (db/semantic-store.ts).  *)
(*                                                                         *)
(* One episode is consolidated at a time.  All its claims are judged       *)
(* against the nodes that were live when the episode was opened (seen);    *)
(* the decisions are then applied one after the other, so a later claim    *)
(* may name a node an earlier one has superseded.  The language model that *)
(* judges is an oracle: any relation, any candidate, any magnitude.        *)
(* Origins, echoes and approved actions never get this far: see SleepPass. *)
(***************************************************************************)
EXTENDS Integers, Sequences, FiniteSets

CONSTANTS
  Values,       \* normalized values a claim may assert
  NoValue,      \* prev_value = null
  Sessions,     \* session_id of the episodes
  Times,        \* event_ts of the episodes, 0 for null
  Magnitudes,   \* prediction error of a verdict, in hundredths
  Confidences,  \* intent_confidence of a mail claim
  Damping,      \* statusDriftConfidenceDamping, in hundredths
  NoIntent,     \* claim without intent fields: the drift guard ignores it
  Resistance,   \* effective strength times confidence at each level, in hundredths
  BandLow,      \* peReconcileBandLow, in hundredths
  BandHigh,     \* peReconcileBandHigh
  MinResistance,\* peAppendNewMinResistance
  N,            \* contradictionN
  MaxClaims,    \* bound: claims of one episode
  MaxNodes      \* bound: nodes ever minted

ASSUME ConstantsAssumption ==
  /\ IsFiniteSet(Values) /\ NoValue \notin Values
  /\ IsFiniteSet(Sessions)
  /\ Times \subseteq Nat
  /\ Magnitudes \subseteq 0..100
  /\ Damping \in [Confidences -> 0..100] /\ NoIntent \notin Confidences
  /\ Resistance \in Seq(Nat \ {0}) /\ Resistance # <<>>
  /\ BandLow \in Nat /\ BandHigh \in Nat /\ MinResistance \in Nat
  /\ N \in Nat \ {0} /\ MaxClaims \in Nat \ {0} /\ MaxNodes \in Nat

VARIABLES
  nodes,    \* the node table, in the order the nodes were minted
  episode,  \* the episode being consolidated, or NoEpisode
  claim     \* its decision to apply next, or NoClaim

vars == <<nodes, episode, claim>>

NoEpisode == [open |-> FALSE]
NoClaim == [relation |-> "none"]

Node ==
  [value    : Values,
   prev     : Values \cup {NoValue},   \* prev_value
   live     : BOOLEAN,                 \* tombstoned = 0
   level    : DOMAIN Resistance,
   against  : SUBSET Sessions,         \* sessions in pending_contradictions
   horizon  : Times \cup {0},          \* newest supporting consolidation_event
   support  : Times \cup {0},          \* newest episode that asserted the value
   replaces : 0..MaxNodes]             \* node whose tombstone this one was minted with

Episode ==
  [open : {TRUE}, session : Sessions, ts : Times,
   seen : SUBSET (1..MaxNodes), left : 0..MaxClaims]

TypeOK ==
  /\ nodes \in Seq(Node) /\ Len(nodes) \in 0..MaxNodes
  /\ \/ episode = NoEpisode
     \/ episode \in Episode /\ episode.seen \subseteq DOMAIN nodes
  /\ \/ claim = NoClaim
     \/ /\ episode # NoEpisode
        /\ claim.relation \in {"confirm", "extend", "unrelated", "contradict"}
        /\ claim.value \in Values
        /\ claim.best \in episode.seen \cup {0}
        /\ claim.relation = "confirm" => claim.best # 0
        /\ claim.contradicted \subseteq episode.seen
        /\ claim.magnitude \in Magnitudes
        /\ claim.confidence \in Confidences \cup {NoIntent}

Init == nodes = <<>> /\ episode = NoEpisode /\ claim = NoClaim

-----------------------------------------------------------------------------
(* Phase A: the claims of an episode are judged against one snapshot. *)

\* Fault: the node minted last is embedded by the next pass only.
OpenUnembedded(s, t) ==
  /\ episode = NoEpisode
  /\ episode' = [open |-> TRUE, session |-> s, ts |-> t, left |-> MaxClaims,
                 seen |-> {n \in DOMAIN nodes : nodes[n].live /\ n < Len(nodes)}]
  /\ UNCHANGED <<nodes, claim>>

\* Every live node is a candidate: it was embedded when it was minted (DEDUP-01).
Open(s, t) ==
  /\ episode = NoEpisode
  /\ episode' = [open |-> TRUE, session |-> s, ts |-> t, left |-> MaxClaims,
                 seen |-> {n \in DOMAIN nodes : nodes[n].live}]
  /\ UNCHANGED <<nodes, claim>>

Close ==
  /\ episode # NoEpisode /\ claim = NoClaim
  /\ episode' = NoEpisode
  /\ UNCHANGED <<nodes, claim>>

Decide(decision) ==
  /\ episode # NoEpisode /\ claim = NoClaim /\ episode.left > 0
  /\ claim' = decision
  /\ episode' = [episode EXCEPT !.left = @ - 1]
  /\ UNCHANGED nodes

Decision(relation, value, best, contradicted, magnitude, confidence) ==
  [relation |-> relation, value |-> value, best |-> best,
   contradicted |-> contradicted, magnitude |-> magnitude, confidence |-> confidence]

\* The ids a verdict keeps: those of the candidates the judge was shown.
Candidates == IF episode = NoEpisode THEN {} ELSE episode.seen

Known(value) == {n \in Candidates : nodes[n].value = value}

\* Neither the magnitude nor the intent of a quiet verdict is ever read.
Quiet(relation, value, best) ==
  \E m \in Magnitudes :
    /\ \A k \in Magnitudes : m <= k
    /\ Decide(Decision(relation, value, best, {}, m, NoIntent))

\* A live node with the claim's own text has its embedding and is among the
\* nearest candidates: the claim confirms it without a judge.
FastPath(value) == \E n \in Known(value) : Quiet("confirm", value, n)

\* A verdict that is no contradiction.  One that confirms no candidate has no
\* effect and is left out.
JudgeQuiet(relation, value, best) ==
  /\ Known(value) = {}
  /\ relation = "confirm" => best # 0
  /\ relation = "unrelated" => best = 0
  /\ Quiet(relation, value, best)

\* The parser fills an empty list of contradicted ids with the best candidate.
JudgeContradict(value, best, contradicted, magnitude, confidence) ==
  /\ Known(value) = {}
  /\ contradicted = {} => best = 0
  /\ Decide(Decision("contradict", value, best, contradicted, magnitude, confidence))

Judge ==
  \E v \in Values :
    \/ FastPath(v)
    \/ \E best \in Candidates \cup {0} :
         \/ \E r \in {"confirm", "extend", "unrelated"} : JudgeQuiet(r, v, best)
         \/ \E C \in SUBSET Candidates, m \in Magnitudes, i \in Confidences \cup {NoIntent} :
              JudgeContradict(v, best, C, m, i)

-----------------------------------------------------------------------------
(* The gates. *)

Later(t, u) == IF t > u THEN t ELSE u

\* Fault: 'unrelated' is no supporting event, as before DRIFT-04 / WR-02.
ConfirmedOnly(t) == 0

\* Newest event_ts among the supporting events of a node minted at t: its
\* founding event is one of SUPPORTING_EVENT_TYPES.
Founding(t) == t

Mint(value, prev, replaced) ==
  [value |-> value, prev |-> prev, live |-> TRUE, level |-> 1, against |-> {},
   horizon |-> Founding(episode.ts), support |-> episode.ts, replaces |-> replaced]

\* Fault: confidence is not consulted.
Undamped(c) == c.magnitude

Damped(c) ==
  IF c.confidence = NoIntent THEN c.magnitude
  ELSE (c.magnitude * Damping[c.confidence]) \div 100

\* Fault: an old mail is held back instead of dropped.
NeverStale(n) == FALSE

\* Both timestamps are known and the claim is older than the node's support.
Stale(n) ==
  /\ claim.confidence # NoIntent
  /\ episode.ts # 0 /\ episode.ts < nodes[n].horizon

Route(n) ==
  LET mag == Damped(claim)
      res == Resistance[nodes[n].level]
  IN IF mag * 100 < BandLow * res THEN "hold"
     ELSE IF mag * 100 < BandHigh * res \/ res < MinResistance THEN "reconcile"
     ELSE "append-new"

\* Fault: no breadcrumb is consulted.
NeverOscillates(n) == FALSE

IsOscillation(n) == claim.value = nodes[n].prev

AgainstNow(n) == nodes[n].against \cup {episode.session}

\* Fault: one session too few.
EnoughSessionsButOne(n) == Cardinality(AgainstNow(n)) >= N - 1
\* Fault: one session too many.
MoreThanEnough(n) == Cardinality(AgainstNow(n)) > N

EnoughSessions(n) == Cardinality(AgainstNow(n)) >= N

-----------------------------------------------------------------------------
(* Secondary contradicted nodes: routed one by one, never minting and with no *)
(* look at the breadcrumb.                                                    *)

\* consolidation_event with node_id = n of a type in SUPPORTING_EVENT_TYPES.
Recorded(n) == [nodes[n] EXCEPT !.horizon = Later(@, episode.ts)]

Secondary(n) ==
  CASE ~nodes[n].live \/ Stale(n) -> nodes[n]
    [] nodes[n].live /\ ~Stale(n) /\ Route(n) = "reconcile" ->
         [Recorded(n) EXCEPT !.live = FALSE]
    [] nodes[n].live /\ ~Stale(n) /\ Route(n) = "append-new" -> Recorded(n)
    [] nodes[n].live /\ ~Stale(n) /\ Route(n) = "hold" ->
         IF EnoughSessions(n)
           THEN [Recorded(n) EXCEPT !.against = AgainstNow(n), !.live = FALSE]
           ELSE [nodes[n] EXCEPT !.against = AgainstNow(n)]

AfterSecondaries ==
  [n \in DOMAIN nodes |->
     IF n \in claim.contradicted \ {claim.best} THEN Secondary(n) ELSE nodes[n]]

-----------------------------------------------------------------------------
(* Phase B: the decisions of the episode are applied in order. *)

Applied ==
  /\ claim' = NoClaim
  /\ UNCHANGED episode

Adds(table, node) ==
  /\ Len(nodes) < MaxNodes
  /\ nodes' = Append(table, node)

\* The value is believed again: unless an assistant said so the node grows
\* stronger, by an amount that may leave it at its level.
Believed(n, level) ==
  [nodes[n] EXCEPT !.level = level, !.horizon = Later(@, episode.ts),
                   !.support = Later(@, episode.ts)]

Confirm ==
  /\ claim.relation = "confirm"
  /\ \E higher \in {nodes[claim.best].level, nodes[claim.best].level + 1} \cap DOMAIN Resistance :
       nodes' = [nodes EXCEPT ![claim.best] = Believed(claim.best, higher)]
  /\ Applied

\* extend and unrelated mint a node that stands alone.
StandAlone ==
  /\ claim.relation \in {"extend", "unrelated"}
  /\ Adds(nodes, Mint(claim.value, NoValue, 0))
  /\ Applied

Contradicts == claim.relation = "contradict"
Named == Contradicts /\ claim.best # 0

\* A claim older than the belief has no effect, not even on other nodes.
DropStale ==
  /\ Named /\ Stale(claim.best)
  /\ UNCHANGED nodes
  /\ Applied

Challenges(route) ==
  /\ Named /\ ~Stale(claim.best)
  /\ Route(claim.best) = route

SecondariesOnly ==
  /\ Contradicts /\ claim.best = 0
  /\ nodes' = AfterSecondaries
  /\ Applied

\* Both values coexist: the challenge is extreme or would flip the node back.
Coexist == Adds(AfterSecondaries, Mint(claim.value, NoValue, 0))

\* Fault: the new node carries no breadcrumb.
ReplaceUnmarked(against) ==
  Adds([AfterSecondaries EXCEPT
          ![claim.best] = [@ EXCEPT !.live = FALSE, !.against = against]],
       Mint(claim.value, NoValue, claim.best))

\* The node is tombstoned; its value is the breadcrumb of the new one.
Replace(against) ==
  Adds([AfterSecondaries EXCEPT
          ![claim.best] = [@ EXCEPT !.live = FALSE, !.against = against]],
       Mint(claim.value, nodes[claim.best].value, claim.best))

Reconcile ==
  /\ Challenges("reconcile")
  /\ IF IsOscillation(claim.best) THEN Coexist ELSE Replace(nodes[claim.best].against)
  /\ Applied

AppendNew ==
  /\ Challenges("append-new")
  /\ Coexist
  /\ Applied

Held == [AfterSecondaries EXCEPT
           ![claim.best] = [@ EXCEPT !.against = AgainstNow(claim.best)]]

Hold ==
  /\ Challenges("hold") /\ ~EnoughSessions(claim.best)
  /\ nodes' = Held
  /\ Applied

ForceDestabilize ==
  /\ Challenges("hold") /\ EnoughSessions(claim.best)
  /\ IF IsOscillation(claim.best)
       THEN Adds(Held, Mint(claim.value, NoValue, 0))
       ELSE Replace(AgainstNow(claim.best))
  /\ Applied

\* Time passes between episodes: effective strength decays.
Fade(n) ==
  /\ episode = NoEpisode
  /\ nodes[n].live /\ nodes[n].level > 1
  /\ nodes' = [nodes EXCEPT ![n].level = @ - 1]
  /\ UNCHANGED <<episode, claim>>

Apply ==
  \/ Confirm \/ StandAlone \/ DropStale \/ SecondariesOnly
  \/ Reconcile \/ AppendNew \/ Hold \/ ForceDestabilize

Next ==
  \/ \E s \in Sessions, t \in Times : Open(s, t)
  \/ Close
  \/ Judge
  \/ Apply
  \/ \E n \in DOMAIN nodes : Fade(n)

Spec == Init /\ [][Next]_vars

-----------------------------------------------------------------------------
(* Properties. *)

\* No succession of beliefs goes round in a circle of two (D-20): of three nodes
\* that replaced one another the third never restores the value of the first.
\* It takes three contradictions, of any episodes, routes and sessions.  A
\* secondary has no successor: it may fall to the value it once replaced.
NoTwoCycle ==
  \A n \in DOMAIN nodes :
    LET former == nodes[n].replaces IN
      former # 0 /\ nodes[former].replaces # 0 =>
        nodes[n].value # nodes[nodes[former].replaces].value

\* A value that is stated again and again stays one belief (D-17, DEDUP-01):
\* duplicates come only from the claims of one episode, judged before any of
\* them was applied; later episodes, of the same pass or another, add none.
NoTwins ==
  \A v \in Values :
    Cardinality({n \in DOMAIN nodes : nodes[n].live /\ nodes[n].value = v}) <= MaxClaims

\* Lock-in is broken (D-19): once contradictions of N different sessions were
\* held against a node it is gone, or the value they argued for, its former
\* one, stands beside it.
LockInBroken ==
  \A n \in DOMAIN nodes :
    nodes[n].live /\ Cardinality(nodes[n].against) >= N =>
      \E m \in n+1..Len(nodes) :
        nodes[m].value = nodes[n].prev /\ nodes[m].replaces = 0

\* A node is tombstoned only by a challenge that beats its resistance or by
\* contradictions of N different sessions; one session may repeat itself.
OverturnedFairly ==
  [][\A n \in DOMAIN nodes :
       nodes[n].live /\ ~nodes'[n].live =>
         \/ (IF claim.confidence = NoIntent THEN claim.magnitude * 100
             ELSE claim.magnitude * Damping[claim.confidence])
              >= BandLow * Resistance[nodes[n].level]
         \/ Cardinality(nodes'[n].against) >= N]_vars

\* A dated mail that is older than the newest evidence for a node's value does
\* nothing to that node: a backfilled rejection is dropped, not held (DRIFT-04).
StaleNeverHeard ==
  [][\A n \in DOMAIN nodes :
       (/\ Contradicts /\ claim' = NoClaim
        /\ n \in claim.contradicted \cup {claim.best}
        /\ claim.confidence # NoIntent
        /\ episode.ts # 0 /\ episode.ts < nodes[n].support)
       => nodes'[n] = nodes[n]]_vars

-----------------------------------------------------------------------------
(* What the comments of the code promise beyond this. *)

\* What status-drift.ts says of the events it counts, "evidence FOR the
\* candidate node's current value": a dated mail that is not older than such
\* evidence, from a session not yet heard, is not dropped as stale.
FreshEvidenceHeard ==
  [][(/\ Named /\ claim' = NoClaim
      /\ nodes[claim.best].live /\ episode.session \notin nodes[claim.best].against
      /\ episode.ts >= nodes[claim.best].support)
     => nodes' # nodes]_vars

\* What consolidator.ts says of secondaries, "the primary already minted the
\* single new current value for this claim": a step that tombstones mints.
SupersededHasSuccessor ==
  [][(\E n \in DOMAIN nodes : nodes[n].live /\ ~nodes'[n].live)
     => Len(nodes') > Len(nodes)]_vars
=============================================================================
