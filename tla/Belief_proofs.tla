---------------------------- MODULE Belief_proofs ----------------------------
(***************************************************************************)
(* Proofs about Belief: types, NoTwoCycle, NoTwins, LockInBroken,          *)
(* OverturnedFairly and StaleNeverHeard.                                   *)
(*                                                                         *)
(* Every step either rewrites the rows of the node table in place, keeping *)
(* what each row asserts, or does so and appends one node (Grows).  The    *)
(* two lemmas StayStep and GrowStep say what the rewriting and the new     *)
(* node must satisfy for the invariant to survive; each action then only   *)
(* has to supply its table.                                                *)
(***************************************************************************)
EXTENDS Belief, FiniteSetTheorems, TLAPS

\* The rows a node names as replaced are older rows of the table.
Rooted == \A n \in DOMAIN nodes : nodes[n].replaces \in (DOMAIN nodes) \cup {0}

\* A successor names what it replaced, and is not what that one had replaced.
Breadcrumbs ==
  \A n \in DOMAIN nodes :
    LET former == nodes[n].replaces IN
      former # 0 =>
        nodes[n].prev = nodes[former].value /\ nodes[n].value # nodes[former].prev

Inv == TypeOK /\ Rooted /\ Breadcrumbs /\ LockInBroken

\* What a row asserts never changes.
Same(a, b) == a.value = b.value /\ a.prev = b.prev /\ a.replaces = b.replaces

Evolves(table) ==
  /\ table \in Seq(Node) /\ Len(table) = Len(nodes)
  /\ \A n \in DOMAIN nodes : Same(table[n], nodes[n])

LockedIn(node) == node.live /\ Cardinality(node.against) >= N

Rows == nodes \in Seq(Node) /\ Len(nodes) \in 0..MaxNodes

\* A table whose rows assert the same and are locked in only if they were.
LEMMA StayStep ==
  ASSUME NEW table, Rows, Rooted, Breadcrumbs, LockInBroken,
         Evolves(table), nodes' = table,
         \A n \in DOMAIN nodes : LockedIn(table[n]) => LockedIn(nodes[n])
  PROVE  /\ Rows' /\ Rooted' /\ Breadcrumbs' /\ LockInBroken'
         /\ DOMAIN nodes \subseteq DOMAIN nodes'
<1>1. /\ Len(nodes') = Len(nodes) /\ DOMAIN nodes' = DOMAIN nodes
      /\ DOMAIN nodes = 1..Len(nodes) /\ Len(nodes) \in Nat
  BY DEF Evolves, Rows
<1>2. \A n \in DOMAIN nodes : Same(nodes'[n], nodes[n])
  BY DEF Evolves
<1>3. Rows'
  BY <1>1 DEF Evolves, Rows
<1>4. Rooted'
  BY <1>1, <1>2 DEF Rooted, Same
<1>5. Breadcrumbs'
  <2> SUFFICES ASSUME NEW n \in DOMAIN nodes, nodes'[n].replaces # 0
               PROVE  /\ nodes'[n].prev = nodes'[nodes'[n].replaces].value
                      /\ nodes'[n].value # nodes'[nodes'[n].replaces].prev
    BY <1>1 DEF Breadcrumbs
  <2>1. nodes[n].replaces \in DOMAIN nodes /\ nodes'[n].replaces = nodes[n].replaces
    BY <1>2 DEF Same, Rooted
  <2> QED  BY <2>1, <1>2 DEF Breadcrumbs, Same
<1>6. LockInBroken'
  <2> SUFFICES ASSUME NEW n \in DOMAIN nodes, LockedIn(nodes'[n])
               PROVE  \E m \in n+1..Len(nodes) :
                        nodes'[m].value = nodes'[n].prev /\ nodes'[m].replaces = 0
    BY <1>1 DEF LockInBroken, LockedIn
  <2>1. PICK m \in n+1..Len(nodes) : nodes[m].value = nodes[n].prev /\ nodes[m].replaces = 0
    BY DEF LockInBroken, LockedIn
  <2>2. m \in DOMAIN nodes
    BY <1>1
  <2> QED  BY <2>1, <2>2, <1>2 DEF Same
<1> QED  BY <1>1, <1>3, <1>4, <1>5, <1>6

\* The same with a new node at the end: it does not restore the former value
\* of the node it replaces, and it stands for the rows that are locked in now.
LEMMA GrowStep ==
  ASSUME NEW table, NEW node \in Node, ConstantsAssumption,
         Rows, Rooted, Breadcrumbs, LockInBroken,
         Evolves(table), Adds(table, node),
         node.against = {},
         \/ node.replaces = 0
         \/ /\ node.replaces \in DOMAIN nodes /\ node.value # nodes[node.replaces].prev
            /\ node.prev = nodes[node.replaces].value,
         \A n \in DOMAIN nodes : LockedIn(table[n]) =>
            \/ LockedIn(nodes[n])
            \/ node.value = nodes[n].prev /\ node.replaces = 0
  PROVE  /\ Rows' /\ Rooted' /\ Breadcrumbs' /\ LockInBroken'
         /\ DOMAIN nodes \subseteq DOMAIN nodes'
<1>1. /\ Len(nodes) \in Nat /\ MaxNodes \in Nat /\ Len(nodes) < MaxNodes
      /\ DOMAIN nodes = 1..Len(nodes)
  BY DEF Rows, Adds, ConstantsAssumption
<1>2. /\ nodes' \in Seq(Node) /\ Len(nodes') = Len(nodes) + 1
      /\ DOMAIN nodes' = 1..Len(nodes) + 1
      /\ nodes'[Len(nodes) + 1] = node
      /\ \A n \in 1..Len(nodes) : nodes'[n] = table[n]
  <2>1. table \in Seq(Node) /\ Len(table) = Len(nodes) /\ nodes' = Append(table, node)
    BY DEF Evolves, Adds
  <2> HIDE DEF Node
  <2> QED  BY <2>1, <1>1
<1>3. \A n \in DOMAIN nodes : Same(nodes'[n], nodes[n])
  BY <1>1, <1>2 DEF Evolves
<1>4. Rows'
  BY <1>1, <1>2 DEF Rows
<1>5. Rooted'
  <2> SUFFICES ASSUME NEW n \in DOMAIN nodes'
               PROVE  nodes'[n].replaces \in (DOMAIN nodes') \cup {0}
    BY DEF Rooted
  <2>1. DOMAIN nodes \subseteq DOMAIN nodes'
    BY <1>1, <1>2
  <2>2. CASE n \in DOMAIN nodes
    BY <2>1, <2>2, <1>3 DEF Rooted, Same
  <2>3. CASE n \notin DOMAIN nodes
    <3>1. nodes'[n] = node
      BY <2>3, <1>1, <1>2
    <3> QED  BY <3>1, <2>1
  <2> QED  BY <2>2, <2>3
<1>6. Breadcrumbs'
  <2> SUFFICES ASSUME NEW n \in DOMAIN nodes', nodes'[n].replaces # 0
               PROVE  /\ nodes'[n].prev = nodes'[nodes'[n].replaces].value
                      /\ nodes'[n].value # nodes'[nodes'[n].replaces].prev
    BY DEF Breadcrumbs
  <2>1. CASE n \in DOMAIN nodes
    <3>1. nodes[n].replaces \in DOMAIN nodes /\ nodes'[n].replaces = nodes[n].replaces
      BY <2>1, <1>3 DEF Same, Rooted
    <3> QED  BY <2>1, <3>1, <1>3 DEF Breadcrumbs, Same
  <2>2. CASE n \notin DOMAIN nodes
    <3>1. nodes'[n] = node
      BY <2>2, <1>1, <1>2
    <3> QED  BY <3>1, <1>3 DEF Same
  <2> QED  BY <2>1, <2>2
<1>7. LockInBroken'
  <2> SUFFICES ASSUME NEW n \in DOMAIN nodes', LockedIn(nodes'[n])
               PROVE  \E m \in n+1..Len(nodes') :
                        nodes'[m].value = nodes'[n].prev /\ nodes'[m].replaces = 0
    BY DEF LockInBroken, LockedIn
  <2>1. n \in DOMAIN nodes
    <3> SUFFICES ASSUME n \notin DOMAIN nodes PROVE FALSE  OBVIOUS
    <3>1. nodes'[n] = node
      BY <1>1, <1>2
    <3>2. Cardinality(node.against) = 0 /\ N \in Nat \ {0}
      BY FS_EmptySet DEF ConstantsAssumption
    <3>3. ~(0 >= N)
      BY <3>2
    <3>4. Cardinality(nodes'[n].against) = 0
      BY <3>1, <3>2
    <3> QED  BY <3>3, <3>4 DEF LockedIn
  <2>2. n \in 1..Len(nodes) /\ nodes'[n] = table[n]
    BY <2>1, <1>1, <1>2
  <2>3. CASE LockedIn(nodes[n])
    <3>1. PICK m \in n+1..Len(nodes) : nodes[m].value = nodes[n].prev /\ nodes[m].replaces = 0
      BY <2>1, <2>3 DEF LockInBroken, LockedIn
    <3>2. m \in DOMAIN nodes /\ m \in n+1..Len(nodes')
      BY <2>2, <1>1, <1>2
    <3> QED  BY <3>1, <3>2, <2>1, <1>3 DEF Same
  <2>4. CASE node.value = nodes[n].prev /\ node.replaces = 0
    <3>1. Len(nodes) + 1 \in n+1..Len(nodes')
      BY <2>2, <1>1, <1>2
    <3> QED  BY <3>1, <2>4, <2>1, <1>2, <1>3 DEF Same
  <2> QED  BY <2>1, <2>2, <2>3, <2>4
<1> QED  BY <1>1, <1>2, <1>4, <1>5, <1>6, <1>7

-----------------------------------------------------------------------------
(* The rows the operators of Belief write. *)

\* Rewriting the mutable columns of a row keeps it a row that asserts the same.
LEMMA MintType ==
  ASSUME ConstantsAssumption, episode \in Episode,
         NEW v \in Values, NEW p \in Values \cup {NoValue}, NEW r \in 0..MaxNodes
  PROVE  /\ Mint(v, p, r) \in Node
         /\ Mint(v, p, r).against = {} /\ Mint(v, p, r).replaces = r
         /\ Mint(v, p, r).value = v /\ Mint(v, p, r).prev = p
<1>1. 1 \in DOMAIN Resistance
  BY DEF ConstantsAssumption
<1>2. episode.ts \in Times
  BY DEF Episode
<1> QED  BY <1>1, <1>2 DEF Mint, Founding, Node

LEMMA SecondaryType ==
  ASSUME ConstantsAssumption, Rows, episode \in Episode, NEW n \in DOMAIN nodes
  PROVE  /\ Secondary(n) \in Node /\ Same(Secondary(n), nodes[n])
         /\ LockedIn(Secondary(n)) => LockedIn(nodes[n])
<1> DEFINE new == Secondary(n)
<1>1. nodes[n] \in Node /\ episode.session \in Sessions /\ episode.ts \in Times
  BY DEF Rows, Episode
<1>2. Later(nodes[n].horizon, episode.ts) \in Times \cup {0}
  BY <1>1 DEF Later, Node
<1>3. AgainstNow(n) \in SUBSET Sessions
  BY <1>1 DEF AgainstNow, Node
<1>4. Recorded(n) \in Node /\ Same(Recorded(n), nodes[n])
      /\ Recorded(n).live = nodes[n].live /\ Recorded(n).against = nodes[n].against
  BY <1>1, <1>2 DEF Recorded, Node, Same
<1>5. Route(n) \in {"hold", "reconcile", "append-new"}
  BY DEF Route
<1>6. \/ new = nodes[n]
      \/ new = [Recorded(n) EXCEPT !.live = FALSE]
      \/ new = Recorded(n)
      \/ new = [Recorded(n) EXCEPT !.against = AgainstNow(n), !.live = FALSE]
      \/ new = [nodes[n] EXCEPT !.against = AgainstNow(n)] /\ ~EnoughSessions(n)
  BY <1>5 DEF Secondary
<1> HIDE DEF new
<1>7. CASE new = nodes[n]
  BY <1>7, <1>1 DEF Same, new
<1>8. CASE new = [Recorded(n) EXCEPT !.live = FALSE]
  <2>1. new \in Node /\ Same(new, nodes[n]) /\ ~new.live
    BY <1>8, <1>4 DEF Node, Same
  <2> QED  BY <2>1 DEF new, LockedIn
<1>9. CASE new = Recorded(n)
  BY <1>9, <1>4 DEF new, LockedIn
<1>10. CASE new = [Recorded(n) EXCEPT !.against = AgainstNow(n), !.live = FALSE]
  <2>1. new \in Node /\ Same(new, nodes[n]) /\ ~new.live
    BY <1>10, <1>3, <1>4 DEF Node, Same
  <2> QED  BY <2>1 DEF new, LockedIn
<1>11. CASE new = [nodes[n] EXCEPT !.against = AgainstNow(n)] /\ ~EnoughSessions(n)
  <2>1. new \in Node /\ Same(new, nodes[n]) /\ new.against = AgainstNow(n)
    BY <1>11, <1>1, <1>3 DEF Node, Same
  <2>2. ~LockedIn(new)
    BY <2>1, <1>11 DEF EnoughSessions, LockedIn
  <2> QED  BY <2>1, <2>2 DEF new
<1> QED  BY <1>6, <1>7, <1>8, <1>9, <1>10, <1>11

\* The table after the secondaries, with the primary's row still to come.
LEMMA SecondariesTable ==
  ASSUME ConstantsAssumption, Rows, episode \in Episode
  PROVE  /\ Evolves(AfterSecondaries)
         /\ AfterSecondaries[claim.best] = nodes[claim.best] \/ claim.best \notin DOMAIN nodes
         /\ \A n \in DOMAIN nodes : LockedIn(AfterSecondaries[n]) => LockedIn(nodes[n])
<1>1. nodes \in Seq(Node) /\ Len(nodes) \in Nat /\ DOMAIN nodes = 1..Len(nodes)
  BY DEF Rows
<1>2. ASSUME NEW n \in DOMAIN nodes
      PROVE  /\ AfterSecondaries[n] \in Node /\ Same(AfterSecondaries[n], nodes[n])
             /\ LockedIn(AfterSecondaries[n]) => LockedIn(nodes[n])
  <2>1. nodes[n] \in Node /\ Same(nodes[n], nodes[n])
    BY <1>1 DEF Same
  <2>2. AfterSecondaries[n] = Secondary(n) \/ AfterSecondaries[n] = nodes[n]
    BY DEF AfterSecondaries
  <2> QED  BY <2>1, <2>2, SecondaryType
<1>3. AfterSecondaries \in [1..Len(nodes) -> Node]
  <2> HIDE DEF Node
  <2> QED  BY <1>1, <1>2 DEF AfterSecondaries
<1>4. AfterSecondaries \in Seq(Node) /\ Len(AfterSecondaries) = Len(nodes)
  <2> HIDE DEF AfterSecondaries
  <2> QED  BY <1>1, <1>3
<1> QED  BY <1>2, <1>4 DEF Evolves, AfterSecondaries

\* A table stays one when a row is rewritten without changing what it asserts.
LEMMA RewriteRow ==
  ASSUME Rows, NEW table, Evolves(table), NEW b \in DOMAIN nodes,
         NEW row \in Node, Same(row, nodes[b])
  PROVE  /\ Evolves([table EXCEPT ![b] = row])
         /\ [table EXCEPT ![b] = row][b] = row
         /\ \A n \in (DOMAIN nodes) \ {b} : [table EXCEPT ![b] = row][n] = table[n]
<1> HIDE DEF Node
<1>1. table \in Seq(Node) /\ Len(table) = Len(nodes) /\ DOMAIN table = DOMAIN nodes
  BY DEF Evolves, Rows
<1>2. [table EXCEPT ![b] = row] \in Seq(Node) /\ Len([table EXCEPT ![b] = row]) = Len(nodes)
  BY <1>1
<1> QED  BY <1>1, <1>2 DEF Evolves, Same

-----------------------------------------------------------------------------
(* The steps. *)

LEMMA ClaimFacts ==
  ASSUME TypeOK, claim.relation # "none"
  PROVE  /\ episode \in Episode /\ claim.value \in Values
         /\ claim.best \in (DOMAIN nodes) \cup {0}
         /\ claim.relation = "confirm" => claim.best \in DOMAIN nodes
<1>1. claim # NoClaim
  BY DEF NoClaim
<1>2. /\ episode # NoEpisode /\ claim.value \in Values
      /\ claim.best \in episode.seen \cup {0}
      /\ claim.relation = "confirm" => claim.best # 0
  BY <1>1 DEF TypeOK
<1>3. episode \in Episode /\ episode.seen \subseteq DOMAIN nodes
  BY <1>2 DEF TypeOK
<1> QED  BY <1>2, <1>3

\* What a decision leaves of the invariant when its table is as required.
LEMMA AppliedStep ==
  ASSUME TypeOK, claim.relation # "none", Applied,
         Rows', Rooted', Breadcrumbs', LockInBroken', DOMAIN nodes \subseteq DOMAIN nodes'
  PROVE  Inv'
BY ClaimFacts DEF Inv, TypeOK, Rows, Applied

LEMMA InvRows ==
  ASSUME Inv
  PROVE  TypeOK /\ Rows /\ Rooted /\ Breadcrumbs /\ LockInBroken
BY DEF Inv, TypeOK, Rows

LEMMA ConfirmStep ==
  ASSUME ConstantsAssumption, Inv, Confirm
  PROVE  Inv'
<1> DEFINE b == claim.best
<1>1. TypeOK /\ Rows /\ Rooted /\ Breadcrumbs /\ LockInBroken /\ claim.relation # "none" /\ Applied
  BY InvRows DEF Confirm
<1>2. b \in DOMAIN nodes /\ episode.ts \in Times
  BY <1>1, ClaimFacts DEF Episode, Confirm
<1>3. PICK higher \in {nodes[b].level, nodes[b].level + 1} \cap DOMAIN Resistance :
        nodes' = [nodes EXCEPT ![b] = Believed(b, higher)]
  BY DEF Confirm
<1> DEFINE row == Believed(b, higher)
<1>4. nodes[b] \in Node
  BY <1>1, <1>2 DEF Rows
<1>5. Later(nodes[b].horizon, episode.ts) \in Times \cup {0}
      /\ Later(nodes[b].support, episode.ts) \in Times \cup {0}
  BY <1>2, <1>4 DEF Later, Node
<1>6. row \in Node /\ Same(row, nodes[b]) /\ row.live = nodes[b].live /\ row.against = nodes[b].against
  BY <1>3, <1>4, <1>5 DEF Believed, Node, Same
<1>7. nodes' = [nodes EXCEPT ![b] = row]
  BY <1>3
<1> HIDE DEF row
<1>8. Evolves(nodes)
  BY <1>1 DEF Evolves, Rows, Same
<1>9. Evolves(nodes') /\ \A n \in DOMAIN nodes : LockedIn(nodes'[n]) => LockedIn(nodes[n])
  BY <1>1, <1>2, <1>6, <1>7, <1>8, RewriteRow DEF LockedIn
<1>10. Rows' /\ Rooted' /\ Breadcrumbs' /\ LockInBroken' /\ DOMAIN nodes \subseteq DOMAIN nodes'
  BY <1>1, <1>9, StayStep
<1> QED  BY <1>1, <1>10, AppliedStep

LEMMA StandAloneStep ==
  ASSUME ConstantsAssumption, Inv, StandAlone
  PROVE  Inv'
<1>1. TypeOK /\ Rows /\ Rooted /\ Breadcrumbs /\ LockInBroken /\ claim.relation # "none" /\ Applied
  BY InvRows DEF StandAlone
<1> DEFINE new == Mint(claim.value, NoValue, 0)
<1>2. new \in Node /\ new.against = {} /\ new.replaces = 0
  <2>1. 0 \in 0..MaxNodes
    BY DEF ConstantsAssumption
  <2> QED  BY <1>1, <2>1, ClaimFacts, MintType
<1>3. Adds(nodes, new)
  BY DEF StandAlone
<1> HIDE DEF new
<1>4. Evolves(nodes)
  BY <1>1 DEF Evolves, Rows, Same
<1>5. Rows' /\ Rooted' /\ Breadcrumbs' /\ LockInBroken' /\ DOMAIN nodes \subseteq DOMAIN nodes'
  BY <1>1, <1>2, <1>3, <1>4, GrowStep
<1> QED  BY <1>1, <1>5, AppliedStep

\* The steps that mint nothing and leave the primary's row alone.
LEMMA QuietStep ==
  ASSUME ConstantsAssumption, Inv, DropStale \/ SecondariesOnly
  PROVE  Inv'
<1>1. /\ TypeOK /\ Rows /\ Rooted /\ Breadcrumbs /\ LockInBroken
      /\ claim.relation # "none" /\ Applied /\ episode \in Episode
  BY InvRows, ClaimFacts DEF DropStale, SecondariesOnly, Named, Contradicts
<1>2. Evolves(nodes') /\ \A n \in DOMAIN nodes : LockedIn(nodes'[n]) => LockedIn(nodes[n])
  <2>1. CASE DropStale
    BY <2>1, <1>1 DEF DropStale, Evolves, Rows, Same
  <2>2. CASE SecondariesOnly
    BY <2>2, <1>1, SecondariesTable DEF SecondariesOnly
  <2> QED  BY <2>1, <2>2
<1>3. Rows' /\ Rooted' /\ Breadcrumbs' /\ LockInBroken' /\ DOMAIN nodes \subseteq DOMAIN nodes'
  BY <1>1, <1>2, StayStep
<1> QED  BY <1>1, <1>3, AppliedStep

\* The primary is reached: what every challenge knows.
LEMMA ChallengeFacts ==
  ASSUME ConstantsAssumption, Inv, Named
  PROVE  /\ TypeOK /\ Rows /\ Rooted /\ Breadcrumbs /\ LockInBroken
         /\ claim.relation # "none" /\ claim.value \in Values
         /\ claim.best \in DOMAIN nodes /\ claim.best \in 0..MaxNodes
         /\ nodes[claim.best] \in Node
         /\ episode \in Episode /\ episode.session \in Sessions
         /\ Evolves(AfterSecondaries)
         /\ AfterSecondaries[claim.best] = nodes[claim.best]
         /\ \A n \in DOMAIN nodes : LockedIn(AfterSecondaries[n]) => LockedIn(nodes[n])
<1>1. TypeOK /\ Rows /\ Rooted /\ Breadcrumbs /\ LockInBroken /\ claim.relation # "none"
  BY InvRows DEF Named, Contradicts
<1>2. claim.best \in DOMAIN nodes /\ episode \in Episode /\ claim.value \in Values
  BY <1>1, ClaimFacts DEF Named
<1>3. nodes[claim.best] \in Node /\ episode.session \in Sessions
  BY <1>1, <1>2 DEF Rows, Episode
<1>4. claim.best \in 0..MaxNodes
  BY <1>1, <1>2 DEF Rows, ConstantsAssumption
<1> QED  BY <1>1, <1>2, <1>3, <1>4, SecondariesTable

LEMMA CoexistStep ==
  ASSUME ConstantsAssumption, Inv, Named, Coexist, Applied
  PROVE  Inv'
<1> DEFINE new == Mint(claim.value, NoValue, 0)
<1>1. new \in Node /\ new.against = {} /\ new.replaces = 0
  <2>1. 0 \in 0..MaxNodes
    BY DEF ConstantsAssumption
  <2> QED  BY <2>1, ChallengeFacts, MintType
<1>2. Adds(AfterSecondaries, new)
  BY DEF Coexist
<1> HIDE DEF new
<1>3. Rows' /\ Rooted' /\ Breadcrumbs' /\ LockInBroken' /\ DOMAIN nodes \subseteq DOMAIN nodes'
  BY <1>1, <1>2, ChallengeFacts, GrowStep
<1> QED  BY <1>3, ChallengeFacts, AppliedStep

LEMMA ReplaceStep ==
  ASSUME ConstantsAssumption, Inv, Named, NEW A \in SUBSET Sessions, Replace(A),
         ~IsOscillation(claim.best), Applied
  PROVE  Inv'
<1> DEFINE b == claim.best
           row == [nodes[b] EXCEPT !.live = FALSE, !.against = A]
           table == [AfterSecondaries EXCEPT ![b] = row]
           new == Mint(claim.value, nodes[b].value, b)
<1>1. row \in Node /\ Same(row, nodes[b]) /\ ~row.live
  BY ChallengeFacts DEF Node, Same
<1>2. /\ new \in Node /\ new.against = {} /\ new.replaces = b
      /\ new.value # nodes[b].prev /\ new.prev = nodes[b].value
  <2>1. nodes[b].value \in Values \cup {NoValue}
    BY ChallengeFacts DEF Node
  <2>2. new.value = claim.value
    BY <2>1, ChallengeFacts, MintType
  <2> QED  BY <2>1, <2>2, ChallengeFacts, MintType DEF IsOscillation
<1>3. Adds(table, new)
  BY ChallengeFacts DEF Replace
<1> HIDE DEF row
<1>4. Evolves(table) /\ \A n \in DOMAIN nodes : LockedIn(table[n]) => LockedIn(nodes[n])
  BY <1>1, ChallengeFacts, RewriteRow DEF LockedIn
<1> HIDE DEF table, new
<1>5. Rows' /\ Rooted' /\ Breadcrumbs' /\ LockInBroken' /\ DOMAIN nodes \subseteq DOMAIN nodes'
  BY <1>2, <1>3, <1>4, ChallengeFacts, GrowStep
<1> QED  BY <1>5, ChallengeFacts, AppliedStep

\* The primary's row with the episode's session among its contradictions.
LEMMA HeldTable ==
  ASSUME ConstantsAssumption, Inv, Named
  PROVE  /\ AgainstNow(claim.best) \in SUBSET Sessions
         /\ Evolves(Held) /\ Held[claim.best].against = AgainstNow(claim.best)
         /\ \A n \in (DOMAIN nodes) \ {claim.best} : LockedIn(Held[n]) => LockedIn(nodes[n])
<1> DEFINE b == claim.best
           row == [nodes[b] EXCEPT !.against = AgainstNow(b)]
<1>1. AgainstNow(b) \in SUBSET Sessions
  BY ChallengeFacts DEF AgainstNow, Node
<1>2. row \in Node /\ Same(row, nodes[b]) /\ row.against = AgainstNow(b)
  BY <1>1, ChallengeFacts DEF Node, Same
<1>3. Held = [AfterSecondaries EXCEPT ![b] = row]
  BY ChallengeFacts DEF Held
<1> HIDE DEF row
<1>4. Rows /\ Evolves(AfterSecondaries) /\ b \in DOMAIN nodes
      /\ \A n \in DOMAIN nodes : LockedIn(AfterSecondaries[n]) => LockedIn(nodes[n])
  BY ChallengeFacts
<1> DEFINE table == [AfterSecondaries EXCEPT ![b] = row]
<1>5. /\ Evolves(Held) /\ Held[b] = row
      /\ \A n \in (DOMAIN nodes) \ {b} : Held[n] = AfterSecondaries[n]
  <2>1. /\ Evolves(table) /\ table[b] = row
        /\ \A n \in (DOMAIN nodes) \ {b} : table[n] = AfterSecondaries[n]
    BY <1>2, <1>4, RewriteRow
  <2> HIDE DEF table
  <2>2. Held = table
    BY <1>3 DEF table
  <2> QED  BY <2>1, <2>2
<1>6. \A n \in (DOMAIN nodes) \ {b} : LockedIn(Held[n]) => LockedIn(nodes[n])
  BY <1>4, <1>5
<1> QED  BY <1>1, <1>2, <1>5, <1>6

LEMMA HoldStep ==
  ASSUME ConstantsAssumption, Inv, Hold
  PROVE  Inv'
<1>1. Named /\ ~EnoughSessions(claim.best) /\ nodes' = Held /\ Applied
  BY DEF Hold, Challenges
<1>2. ~LockedIn(Held[claim.best])
  BY <1>1, HeldTable DEF EnoughSessions, LockedIn
<1>3. Evolves(nodes') /\ \A n \in DOMAIN nodes : LockedIn(nodes'[n]) => LockedIn(nodes[n])
  BY <1>1, <1>2, HeldTable
<1>4. Rows' /\ Rooted' /\ Breadcrumbs' /\ LockInBroken' /\ DOMAIN nodes \subseteq DOMAIN nodes'
  BY <1>1, <1>3, ChallengeFacts, StayStep
<1> QED  BY <1>1, <1>4, ChallengeFacts, AppliedStep

LEMMA ForceStep ==
  ASSUME ConstantsAssumption, Inv, ForceDestabilize
  PROVE  Inv'
<1>1. Named /\ Applied
  BY DEF ForceDestabilize, Challenges
<1>2. CASE ~IsOscillation(claim.best)
  BY <1>1, <1>2, HeldTable, ReplaceStep DEF ForceDestabilize
<1>3. CASE IsOscillation(claim.best)
  <2> DEFINE new == Mint(claim.value, NoValue, 0)
  <2>1. /\ new \in Node /\ new.against = {} /\ new.replaces = 0
        /\ new.value = nodes[claim.best].prev
    <3>1. 0 \in 0..MaxNodes
      BY DEF ConstantsAssumption
    <3> QED  BY <1>1, <1>3, <3>1, ChallengeFacts, MintType DEF IsOscillation
  <2>2. Adds(Held, new)
    BY <1>3 DEF ForceDestabilize
  <2> HIDE DEF new
  <2>3. \A n \in DOMAIN nodes : LockedIn(Held[n]) =>
           LockedIn(nodes[n]) \/ (new.value = nodes[n].prev /\ new.replaces = 0)
    BY <1>1, <2>1, HeldTable
  <2>4. Rows' /\ Rooted' /\ Breadcrumbs' /\ LockInBroken' /\ DOMAIN nodes \subseteq DOMAIN nodes'
    BY <1>1, <2>1, <2>2, <2>3, HeldTable, ChallengeFacts, GrowStep
  <2> QED  BY <1>1, <2>4, ChallengeFacts, AppliedStep
<1> QED  BY <1>2, <1>3

LEMMA FadeStep ==
  ASSUME ConstantsAssumption, Inv, NEW b \in DOMAIN nodes, Fade(b)
  PROVE  Inv'
<1> DEFINE row == [nodes[b] EXCEPT !.level = nodes[b].level - 1]
<1>1. TypeOK /\ Rows /\ Rooted /\ Breadcrumbs /\ LockInBroken
  BY InvRows
<1>2. nodes[b] \in Node
  BY <1>1 DEF Rows
<1>3. nodes[b].level - 1 \in DOMAIN Resistance
  <2>1. DOMAIN Resistance = 1..Len(Resistance) /\ Len(Resistance) \in Nat
    BY DEF ConstantsAssumption
  <2>2. nodes[b].level \in DOMAIN Resistance
    BY <1>2 DEF Node
  <2> QED  BY <2>1, <2>2 DEF Fade
<1>4. row \in Node /\ Same(row, nodes[b]) /\ row.live = nodes[b].live /\ row.against = nodes[b].against
  BY <1>2, <1>3 DEF Node, Same
<1>5. nodes' = [nodes EXCEPT ![b] = row]
  BY DEF Fade
<1> HIDE DEF row
<1>6. Evolves(nodes)
  BY <1>1 DEF Evolves, Rows, Same
<1>7. Evolves(nodes') /\ \A n \in DOMAIN nodes : LockedIn(nodes'[n]) => LockedIn(nodes[n])
  BY <1>1, <1>4, <1>5, <1>6, RewriteRow DEF LockedIn
<1>8. Rows' /\ Rooted' /\ Breadcrumbs' /\ LockInBroken' /\ DOMAIN nodes \subseteq DOMAIN nodes'
  BY <1>1, <1>7, StayStep
<1> QED  BY <1>1, <1>8 DEF Inv, TypeOK, Rows, Fade

\* Opening, closing and judging leave the table alone.
LEMMA JudgementStep ==
  ASSUME ConstantsAssumption, Inv,
         \/ \E s \in Sessions, t \in Times : Open(s, t)
         \/ Close
         \/ Judge
  PROVE  Inv'
<1>1. TypeOK /\ Rows /\ Rooted /\ Breadcrumbs /\ LockInBroken /\ UNCHANGED nodes
  BY InvRows DEF Open, Close, Judge, FastPath, JudgeQuiet, Quiet, JudgeContradict, Decide
<1>2. Rows' /\ Rooted' /\ Breadcrumbs' /\ LockInBroken'
  BY <1>1 DEF Rows, Rooted, Breadcrumbs, LockInBroken
<1>3. CASE \E s \in Sessions, t \in Times : Open(s, t)
  <2> PICK s \in Sessions, t \in Times : Open(s, t)
    BY <1>3
  <2>1. {n \in DOMAIN nodes : nodes[n].live} \subseteq 1..MaxNodes
    BY <1>1 DEF Rows, ConstantsAssumption
  <2>2. claim = NoClaim /\ MaxClaims \in 0..MaxClaims
    BY <1>1 DEF Open, TypeOK, ConstantsAssumption
  <2>3. episode' \in Episode /\ episode'.seen \subseteq DOMAIN nodes'
    BY <1>1, <2>1, <2>2 DEF Open, Episode
  <2> QED  BY <1>1, <1>2, <2>2, <2>3 DEF Inv, TypeOK, Rows, Open
<1>4. CASE Close
  BY <1>1, <1>2, <1>4 DEF Inv, TypeOK, Rows, Close
<1>5. CASE Judge
  <2>1. PICK r \in {"confirm", "extend", "unrelated", "contradict"}, v \in Values,
             best \in Candidates \cup {0}, C \in SUBSET Candidates,
             m \in Magnitudes, i \in Confidences \cup {NoIntent} :
          /\ r = "confirm" => best # 0
          /\ Decide(Decision(r, v, best, C, m, i))
    <3>1. PICK v \in Values :
            \/ FastPath(v)
            \/ \E best \in Candidates \cup {0} :
                 \/ \E r \in {"confirm", "extend", "unrelated"} : JudgeQuiet(r, v, best)
                 \/ \E C \in SUBSET Candidates, m \in Magnitudes, i \in Confidences \cup {NoIntent} :
                      JudgeContradict(v, best, C, m, i)
      BY <1>5 DEF Judge
    <3>2. CASE FastPath(v)
      <4>1. PICK n \in Known(v), m \in Magnitudes : Decide(Decision("confirm", v, n, {}, m, NoIntent))
        BY <3>2 DEF FastPath, Quiet
      <4>2. n \in Candidates /\ n # 0
        BY <1>1 DEF Known, Candidates, TypeOK, Rows, NoEpisode
      <4> QED  BY <4>1, <4>2
    <3>3. CASE \E best \in Candidates \cup {0}, r \in {"confirm", "extend", "unrelated"} :
                 JudgeQuiet(r, v, best)
      BY <3>3 DEF JudgeQuiet, Quiet
    <3>4. CASE \E best \in Candidates \cup {0}, C \in SUBSET Candidates, m \in Magnitudes,
                   i \in Confidences \cup {NoIntent} : JudgeContradict(v, best, C, m, i)
      BY <3>4 DEF JudgeContradict
    <3> QED  BY <3>1, <3>2, <3>3, <3>4
  <2>2. /\ episode # NoEpisode /\ episode.left > 0
        /\ claim' = Decision(r, v, best, C, m, i)
        /\ episode' = [episode EXCEPT !.left = @ - 1]
    BY <2>1 DEF Decide
  <2>3. episode \in Episode /\ episode.seen \subseteq DOMAIN nodes /\ Candidates = episode.seen
    BY <1>1, <2>2 DEF TypeOK, Candidates
  <2>4. episode' \in Episode /\ episode'.seen = episode.seen
    <3>1. episode.left - 1 \in 0..MaxClaims
      BY <2>2, <2>3 DEF Episode, ConstantsAssumption
    <3> QED  BY <2>2, <2>3, <3>1 DEF Episode
  <2>5. episode' # NoEpisode
    <3>1. episode'.open = TRUE /\ NoEpisode.open = FALSE
      BY <2>4 DEF Episode, NoEpisode
    <3> QED  BY <3>1
  <2>6. /\ claim'.relation = r /\ claim'.value = v /\ claim'.best = best
        /\ claim'.contradicted = C /\ claim'.magnitude = m /\ claim'.confidence = i
    BY <2>2 DEF Decision
  <2> HIDE DEF Node, Episode
  <2>7. TypeOK'
    BY <1>1, <1>2, <2>1, <2>3, <2>4, <2>5, <2>6 DEF TypeOK, Rows
  <2> QED  BY <1>2, <2>7 DEF Inv
<1> QED  BY <1>3, <1>4, <1>5

LEMMA NextStep ==
  ASSUME ConstantsAssumption, Inv, [Next]_vars
  PROVE  Inv'
<1>1. CASE UNCHANGED vars
  BY <1>1 DEF vars, Inv, TypeOK, Rooted, Breadcrumbs, LockInBroken
<1>2. CASE Next
  <2>1. CASE Reconcile
    <3>1. Named /\ Applied
      BY <2>1 DEF Reconcile, Challenges
    <3>2. nodes[claim.best].against \in SUBSET Sessions
      BY <3>1, ChallengeFacts DEF Node
    <3>3. CASE IsOscillation(claim.best)
      BY <2>1, <3>1, <3>3, CoexistStep DEF Reconcile
    <3>4. CASE ~IsOscillation(claim.best)
      BY <2>1, <3>1, <3>2, <3>4, ReplaceStep DEF Reconcile
    <3> QED  BY <3>3, <3>4
  <2>2. CASE AppendNew
    BY <2>2, CoexistStep DEF AppendNew, Challenges
  <2>3. CASE Apply
    BY <2>1, <2>2, <2>3, ConfirmStep, StandAloneStep, QuietStep, HoldStep, ForceStep DEF Apply
  <2>4. CASE \E n \in DOMAIN nodes : Fade(n)
    BY <2>4, FadeStep
  <2> QED  BY <1>2, <2>3, <2>4, JudgementStep DEF Next
<1> QED  BY <1>1, <1>2

-----------------------------------------------------------------------------
(* What a step does to one row. *)

\* The rewritings of a row, with the conditions under which they happen.
Rewrites(n) ==
  \/ nodes'[n] = nodes[n]
  \/ claim.relation = "confirm" /\ \E l \in DOMAIN Resistance : nodes'[n] = Believed(n, l)
  \/ UNCHANGED claim /\ \E l \in Int : nodes'[n] = [nodes[n] EXCEPT !.level = l]
  \/ Contradicts /\ n \in claim.contradicted \ {claim.best} /\ nodes'[n] = Secondary(n)
  \/ /\ Named /\ n = claim.best /\ ~Stale(n)
     /\ \/ /\ Route(n) = "reconcile"
           /\ \E A \in SUBSET Sessions : nodes'[n] = [nodes[n] EXCEPT !.live = FALSE, !.against = A]
        \/ /\ EnoughSessions(n)
           /\ nodes'[n] = [nodes[n] EXCEPT !.live = FALSE, !.against = AgainstNow(n)]
        \/ nodes'[n] = [nodes[n] EXCEPT !.against = AgainstNow(n)]

\* A minted node, the last of the table, has the value of the claim and owes
\* both of its dates to the episode.
Minted(n) ==
  /\ claim.relation \notin {"none", "confirm"}
  /\ n = Len(nodes) + 1 /\ nodes'[n].value = claim.value
  /\ nodes'[n].support = episode.ts /\ nodes'[n].horizon = episode.ts

LEMMA AddedRow ==
  ASSUME Rows, NEW table, Evolves(table), NEW node, Adds(table, node)
  PROVE  /\ DOMAIN nodes' = DOMAIN nodes \cup {Len(nodes) + 1}
         /\ nodes'[Len(nodes) + 1] = node
         /\ \A n \in DOMAIN nodes : nodes'[n] = table[n]
<1>1. /\ nodes' = Append(table, node) /\ table \in Seq(Node) /\ Len(table) = Len(nodes)
      /\ Len(nodes) \in Nat /\ DOMAIN nodes = 1..Len(nodes)
  BY DEF Adds, Evolves, Rows
<1> HIDE DEF Node
<1>2. \A n \in DOMAIN nodes : nodes'[n] = table[n]
  BY <1>1
<1>3. DOMAIN nodes' = 1..Len(nodes) + 1 /\ nodes'[Len(nodes) + 1] = node
  BY <1>1
<1> QED  BY <1>1, <1>2, <1>3

LEMMA MintedNode ==
  ASSUME NEW v, NEW p, NEW r
  PROVE  /\ Mint(v, p, r).support = episode.ts /\ Mint(v, p, r).horizon = episode.ts
         /\ Mint(v, p, r).value = v
BY DEF Mint, Founding

\* Every decision about a primary rewrites its row, and the secondaries' rows.
LEMMA ChallengeRewrites ==
  ASSUME ConstantsAssumption, Inv, Reconcile \/ AppendNew \/ Hold \/ ForceDestabilize
  PROVE  /\ \A n \in DOMAIN nodes : Rewrites(n)
         /\ \A n \in DOMAIN nodes' : n \in DOMAIN nodes \/ Minted(n)
<1> DEFINE b == claim.best
<1>1. Named /\ ~Stale(b) /\ Rows /\ claim.relation \notin {"none", "confirm"}
  BY InvRows DEF Reconcile, AppendNew, Hold, ForceDestabilize, Challenges, Named, Contradicts
<1>2. /\ b \in DOMAIN nodes /\ Evolves(AfterSecondaries) /\ AfterSecondaries[b] = nodes[b]
      /\ nodes[b] \in Node
  BY <1>1, ChallengeFacts
<1>3. ASSUME NEW n \in (DOMAIN nodes) \ {b}, nodes'[n] = AfterSecondaries[n]
      PROVE  Rewrites(n)
  BY <1>1, <1>3 DEF Rewrites, AfterSecondaries, Named
<1>4. CASE nodes' = Held
  <2>1. nodes'[b] = [nodes[b] EXCEPT !.against = AgainstNow(b)]
        /\ \A n \in (DOMAIN nodes) \ {b} : nodes'[n] = AfterSecondaries[n]
    BY <1>2, <1>4 DEF Held, AfterSecondaries
  <2>2. DOMAIN nodes' = DOMAIN nodes
    BY <1>4 DEF Held, AfterSecondaries
  <2> QED  BY <1>1, <1>3, <2>1, <2>2 DEF Rewrites
<1>5. CASE Adds(Held, Mint(claim.value, NoValue, 0))
  <2>1. Adds(Held, Mint(claim.value, NoValue, 0))
    BY <1>5
  <2>2. Evolves(Held)
    BY <1>1, HeldTable
  <2>3. /\ DOMAIN nodes' = DOMAIN nodes \cup {Len(nodes) + 1}
        /\ nodes'[Len(nodes) + 1] = Mint(claim.value, NoValue, 0)
        /\ \A n \in DOMAIN nodes : nodes'[n] = Held[n]
    BY <1>1, <2>1, <2>2, AddedRow
  <2>4. nodes'[b] = [nodes[b] EXCEPT !.against = AgainstNow(b)]
        /\ \A n \in (DOMAIN nodes) \ {b} : nodes'[n] = AfterSecondaries[n]
    BY <1>2, <2>3 DEF Held, AfterSecondaries
  <2>5. \A n \in DOMAIN nodes : Rewrites(n)
    BY <1>1, <1>3, <2>4 DEF Rewrites
  <2> QED  BY <1>1, <2>3, <2>5, MintedNode DEF Minted
<1>6. CASE Coexist
  <2>1. /\ DOMAIN nodes' = DOMAIN nodes \cup {Len(nodes) + 1}
        /\ nodes'[Len(nodes) + 1] = Mint(claim.value, NoValue, 0)
        /\ \A n \in DOMAIN nodes : nodes'[n] = AfterSecondaries[n]
    BY <1>1, <1>2, <1>6, AddedRow DEF Coexist
  <2>2. Rewrites(b)
    BY <1>2, <2>1 DEF Rewrites
  <2> QED  BY <1>1, <1>3, <2>1, <2>2, MintedNode DEF Minted
<1>7. ASSUME NEW A, Replace(A),
             \/ Route(b) = "reconcile" /\ A \in SUBSET Sessions
             \/ EnoughSessions(b) /\ A = AgainstNow(b)
      PROVE  /\ \A n \in DOMAIN nodes : Rewrites(n)
             /\ \A n \in DOMAIN nodes' : n \in DOMAIN nodes \/ Minted(n)
  <2> DEFINE row == [nodes[b] EXCEPT !.live = FALSE, !.against = A]
             table == [AfterSecondaries EXCEPT ![b] = row]
             new == Mint(claim.value, nodes[b].value, b)
  <2>1. Adds(table, new)
    BY <1>2, <1>7 DEF Replace
  <2>2. A \in SUBSET Sessions
    BY <1>1, <1>7, HeldTable
  <2>3. row \in Node /\ Same(row, nodes[b])
    BY <1>2, <2>2 DEF Node, Same
  <2> HIDE DEF row
  <2>4. Evolves(table) /\ table[b] = row
        /\ \A n \in (DOMAIN nodes) \ {b} : table[n] = AfterSecondaries[n]
    BY <1>1, <1>2, <2>3, RewriteRow
  <2> HIDE DEF table, new
  <2>5. /\ DOMAIN nodes' = DOMAIN nodes \cup {Len(nodes) + 1}
        /\ nodes'[Len(nodes) + 1] = new
        /\ \A n \in DOMAIN nodes : nodes'[n] = table[n]
    BY <1>1, <2>1, <2>4, AddedRow
  <2>6. Rewrites(b)
    BY <1>1, <1>2, <1>7, <2>2, <2>4, <2>5 DEF Rewrites, row
  <2>7. \A n \in DOMAIN nodes : Rewrites(n)
    BY <1>3, <2>4, <2>5, <2>6
  <2>8. new.support = episode.ts /\ new.horizon = episode.ts /\ new.value = claim.value
    BY MintedNode DEF new
  <2> QED  BY <1>1, <2>5, <2>7, <2>8 DEF Minted
<1>8. nodes[b].against \in SUBSET Sessions
  BY <1>2 DEF Node
<1>9. CASE Reconcile
  BY <1>6, <1>7, <1>8, <1>9 DEF Reconcile, Challenges
<1>10. CASE ForceDestabilize
  BY <1>5, <1>7, <1>10 DEF ForceDestabilize
<1> QED  BY <1>4, <1>6, <1>9, <1>10 DEF AppendNew, Hold

LEMMA StepRewrites ==
  ASSUME ConstantsAssumption, Inv, [Next]_vars
  PROVE  /\ \A n \in DOMAIN nodes : Rewrites(n)
         /\ \A n \in DOMAIN nodes' : n \in DOMAIN nodes \/ Minted(n)
<1> USE ConstantsAssumption
<1>1. TypeOK /\ Rows
  BY InvRows
<1>2. CASE UNCHANGED nodes
  BY <1>2 DEF Rewrites
<1>3. CASE Confirm
  <2>1. claim.relation = "confirm" /\ claim.best \in DOMAIN nodes
    BY <1>1, <1>3, ClaimFacts DEF Confirm
  <2>2. PICK l \in DOMAIN Resistance :
          nodes' = [nodes EXCEPT ![claim.best] = Believed(claim.best, l)]
    BY <1>3 DEF Confirm
  <2>3. DOMAIN nodes' = DOMAIN nodes
    BY <2>2
  <2> QED  BY <2>1, <2>2, <2>3 DEF Rewrites
<1>4. CASE StandAlone
  <2>1. Evolves(nodes)
    BY <1>1 DEF Evolves, Rows, Same
  <2>2. /\ DOMAIN nodes' = DOMAIN nodes \cup {Len(nodes) + 1}
        /\ nodes'[Len(nodes) + 1] = Mint(claim.value, NoValue, 0)
        /\ \A n \in DOMAIN nodes : nodes'[n] = nodes[n]
    BY <1>1, <1>4, <2>1, AddedRow DEF StandAlone
  <2>3. \A n \in DOMAIN nodes : Rewrites(n)
    BY <2>2 DEF Rewrites
  <2>4. Minted(Len(nodes) + 1)
    BY <1>4, <2>2, MintedNode DEF Minted, StandAlone
  <2> QED  BY <2>2, <2>3, <2>4
<1>5. CASE SecondariesOnly
  <2>1. Contradicts /\ nodes' = AfterSecondaries /\ DOMAIN nodes' = DOMAIN nodes
    BY <1>5 DEF SecondariesOnly, AfterSecondaries
  <2> QED  BY <2>1 DEF Rewrites, AfterSecondaries
<1>6. CASE \E n \in DOMAIN nodes : Fade(n)
  <2>1. PICK b \in DOMAIN nodes : Fade(b)
    BY <1>6
  <2>2. UNCHANGED claim /\ nodes' = [nodes EXCEPT ![b].level = nodes[b].level - 1]
    BY <2>1 DEF Fade
  <2>3. nodes[b].level - 1 \in Int
    <3>1. nodes[b] \in Node
      BY <1>1 DEF Rows
    <3>2. nodes[b].level \in DOMAIN Resistance /\ DOMAIN Resistance \subseteq Int
      BY <3>1 DEF Node, ConstantsAssumption
    <3> QED  BY <3>2
  <2>4. nodes'[b] = [nodes[b] EXCEPT !.level = nodes[b].level - 1]
        /\ DOMAIN nodes' = DOMAIN nodes
        /\ \A n \in (DOMAIN nodes) \ {b} : nodes'[n] = nodes[n]
    BY <2>2
  <2> QED  BY <2>2, <2>3, <2>4 DEF Rewrites
<1>7. CASE \/ \E s \in Sessions, t \in Times : Open(s, t)
           \/ Close \/ Judge \/ DropStale \/ UNCHANGED vars
  BY <1>2, <1>7 DEF Open, Close, Judge, FastPath, JudgeQuiet, Quiet, JudgeContradict,
                    Decide, DropStale, vars
<1> QED  BY <1>3, <1>4, <1>5, <1>6, <1>7, ChallengeRewrites DEF Next, Apply

-----------------------------------------------------------------------------
(* Old mail and fair overturns. *)

\* The newest supporting event is no older than the newest assertion.
Dated == \A n \in DOMAIN nodes : nodes[n].support <= nodes[n].horizon

LEMMA RowDates ==
  ASSUME ConstantsAssumption, Inv, NEW n \in DOMAIN nodes
  PROVE  /\ nodes[n] \in Node /\ nodes[n].support \in Nat /\ nodes[n].horizon \in Nat
<1>1. nodes[n] \in Node
  BY InvRows DEF Rows
<1>2. nodes[n].support \in Times \cup {0} /\ nodes[n].horizon \in Times \cup {0}
  BY <1>1 DEF Node
<1>3. Times \cup {0} \subseteq Nat
  BY DEF ConstantsAssumption
<1> QED  BY <1>1, <1>2, <1>3

\* What a rewriting of a row leaves alone.
LEMMA RowFields ==
  ASSUME NEW n, nodes[n] \in Node
  PROVE  /\ Recorded(n).live = nodes[n].live
         /\ [Recorded(n) EXCEPT !.against = AgainstNow(n), !.live = FALSE].against = AgainstNow(n)
         /\ [nodes[n] EXCEPT !.against = AgainstNow(n)].live = nodes[n].live
         /\ [nodes[n] EXCEPT !.live = FALSE, !.against = AgainstNow(n)].against = AgainstNow(n)
         /\ \A l : [nodes[n] EXCEPT !.level = l].live = nodes[n].live
         /\ \A l : Believed(n, l).live = nodes[n].live
<1>1. /\ Recorded(n).live = nodes[n].live
      /\ [nodes[n] EXCEPT !.against = AgainstNow(n)].live = nodes[n].live
  BY DEF Recorded, Node
<1>2. [Recorded(n) EXCEPT !.against = AgainstNow(n), !.live = FALSE].against = AgainstNow(n)
  BY DEF Recorded, Node
<1>3. [nodes[n] EXCEPT !.live = FALSE, !.against = AgainstNow(n)].against = AgainstNow(n)
  BY DEF Node
<1>4. \A l : [nodes[n] EXCEPT !.level = l].live = nodes[n].live
  BY DEF Node
<1>5. \A l : Believed(n, l).live = nodes[n].live
  BY DEF Believed, Node
<1> QED  BY <1>1, <1>2, <1>3, <1>4, <1>5

\* The branches a secondary's row can take.
LEMMA SecondaryCases ==
  ASSUME NEW n
  PROVE  \/ Secondary(n) = nodes[n]
         \/ /\ nodes[n].live /\ ~Stale(n) /\ Route(n) = "reconcile"
            /\ Secondary(n) = [Recorded(n) EXCEPT !.live = FALSE]
         \/ /\ ~Stale(n) /\ Secondary(n) = Recorded(n)
         \/ /\ ~Stale(n) /\ EnoughSessions(n)
            /\ Secondary(n) = [Recorded(n) EXCEPT !.against = AgainstNow(n), !.live = FALSE]
         \/ /\ ~Stale(n)
            /\ Secondary(n) = [nodes[n] EXCEPT !.against = AgainstNow(n)]
<1>1. Route(n) \in {"hold", "reconcile", "append-new"}
  BY DEF Route
<1> QED  BY <1>1 DEF Secondary

LEMMA DatedStep ==
  ASSUME ConstantsAssumption, Inv, Dated, [Next]_vars
  PROVE  Dated'
<1> SUFFICES ASSUME NEW n \in DOMAIN nodes' PROVE nodes'[n].support <= nodes'[n].horizon
  BY DEF Dated
<1>1. CASE n \notin DOMAIN nodes
  <2>1. nodes'[n].support = nodes'[n].horizon /\ nodes'[n].support = episode.ts
    BY <1>1, StepRewrites DEF Minted
  <2>2. nodes' \in Seq(Node)
    BY NextStep DEF Inv, TypeOK
  <2>3. nodes'[n] \in Node
    <3> HIDE DEF Node
    <3> QED  BY <2>2
  <2>4. nodes'[n].support \in Times \cup {0}
    BY <2>3 DEF Node
  <2>5. Times \cup {0} \subseteq Nat
    BY DEF ConstantsAssumption
  <2>6. nodes'[n].support \in Nat
    BY <2>4, <2>5
  <2>7. \A t \in Nat : t <= t
    OBVIOUS
  <2> QED  BY <2>1, <2>6, <2>7
<1>2. CASE n \in DOMAIN nodes
  <2>1. /\ nodes[n].support \in Nat /\ nodes[n].horizon \in Nat
        /\ nodes[n].support <= nodes[n].horizon
        /\ nodes[n] \in Node
    BY <1>2, RowDates DEF Dated
  <2>2. CASE claim.relation = "none"
    <3>1. \/ nodes'[n] = nodes[n]
          \/ \E l \in Int : nodes'[n] = [nodes[n] EXCEPT !.level = l]
      BY <1>2, <2>2, StepRewrites DEF Rewrites, Named, Contradicts
    <3> QED  BY <2>1, <3>1 DEF Node
  <2>3. CASE claim.relation # "none"
    <3>1. episode.ts \in Nat
      BY <2>3, InvRows, ClaimFacts DEF Episode, ConstantsAssumption
    <3>2. /\ Later(nodes[n].horizon, episode.ts) \in Nat
          /\ Later(nodes[n].horizon, episode.ts) >= nodes[n].support
          /\ Later(nodes[n].horizon, episode.ts) >= Later(nodes[n].support, episode.ts)
      BY <2>1, <3>1 DEF Later
    <3>3. /\ Recorded(n).support = nodes[n].support
          /\ Recorded(n).horizon = Later(nodes[n].horizon, episode.ts)
          /\ [Recorded(n) EXCEPT !.live = FALSE].support = nodes[n].support
          /\ [Recorded(n) EXCEPT !.live = FALSE].horizon = Later(nodes[n].horizon, episode.ts)
          /\ [Recorded(n) EXCEPT !.against = AgainstNow(n), !.live = FALSE].support = nodes[n].support
          /\ [Recorded(n) EXCEPT !.against = AgainstNow(n), !.live = FALSE].horizon
               = Later(nodes[n].horizon, episode.ts)
      BY <2>1 DEF Recorded, Node
    <3>4. /\ [nodes[n] EXCEPT !.against = AgainstNow(n)].support = nodes[n].support
          /\ [nodes[n] EXCEPT !.against = AgainstNow(n)].horizon = nodes[n].horizon
      BY <2>1 DEF Node
    <3>5. CASE nodes'[n] = Secondary(n)
      BY <2>1, <3>2, <3>3, <3>4, <3>5, SecondaryCases
    <3>6. CASE \E l \in DOMAIN Resistance : nodes'[n] = Believed(n, l)
      BY <2>1, <3>2, <3>6 DEF Believed, Node
    <3>7. CASE \/ nodes'[n] = nodes[n]
               \/ \E l \in Int : nodes'[n] = [nodes[n] EXCEPT !.level = l]
               \/ \E A : nodes'[n] = [nodes[n] EXCEPT !.live = FALSE, !.against = A]
               \/ nodes'[n] = [nodes[n] EXCEPT !.against = AgainstNow(n)]
      BY <2>1, <3>7 DEF Node
    <3> QED  BY <1>2, <3>5, <3>6, <3>7, StepRewrites DEF Rewrites
  <2> QED  BY <2>2, <2>3
<1> QED  BY <1>1, <1>2

\* A challenge that is neither held nor extreme beats the node's resistance.
LEMMA RouteBeats ==
  ASSUME ConstantsAssumption, Inv, NEW n \in DOMAIN nodes, Contradicts, Route(n) = "reconcile"
  PROVE  (IF claim.confidence = NoIntent THEN claim.magnitude * 100
          ELSE claim.magnitude * Damping[claim.confidence])
           >= BandLow * Resistance[nodes[n].level]
<1> DEFINE res == Resistance[nodes[n].level]
           mag == claim.magnitude
           damp == Damping[claim.confidence]
<1>1. claim # NoClaim
  BY DEF Contradicts, NoClaim
<1>2. mag \in Nat /\ (claim.confidence # NoIntent => damp \in Nat)
  <2>1. mag \in Magnitudes /\ claim.confidence \in Confidences \cup {NoIntent}
    BY <1>1, InvRows DEF TypeOK
  <2>2. Magnitudes \subseteq 0..100 /\ Damping \in [Confidences -> 0..100]
    BY DEF ConstantsAssumption
  <2>3. 0..100 \subseteq Nat
    OBVIOUS
  <2>4. ASSUME claim.confidence # NoIntent PROVE damp \in 0..100
    BY <2>1, <2>2, <2>4
  <2> QED  BY <2>1, <2>2, <2>3, <2>4
<1>3. res \in Nat /\ BandLow \in Nat
  <2>1. nodes[n].level \in DOMAIN Resistance
    BY RowDates DEF Node
  <2> QED  BY <2>1 DEF ConstantsAssumption
<1>4. ~(Damped(claim) * 100 < BandLow * res)
  BY DEF Route
<1>5. BandLow * res \in Nat
  BY <1>3
<1> HIDE DEF res, mag, damp
<1>6. CASE claim.confidence = NoIntent
  <2>1. Damped(claim) = mag
    BY <1>6 DEF Damped, mag
  <2>2. mag * 100 \in Nat
    BY <1>2
  <2>3. mag * 100 >= BandLow * res
    BY <1>4, <1>5, <2>1, <2>2
  <2> QED  BY <1>6, <2>3 DEF res, mag
<1>7. CASE claim.confidence # NoIntent
  <2> DEFINE x == mag * damp
  <2>1. x \in Nat
    BY <1>2, <1>7
  <2>2. Damped(claim) = x \div 100
    BY <1>7 DEF Damped, mag, damp
  <2> HIDE DEF x
  <2>3. (x \div 100) * 100 <= x /\ (x \div 100) * 100 \in Nat
    BY <2>1
  <2>4. x >= BandLow * res
    BY <1>4, <1>5, <2>1, <2>2, <2>3
  <2> QED  BY <1>7, <2>4 DEF x, res, mag, damp
<1> QED  BY <1>6, <1>7

-----------------------------------------------------------------------------
(* How many nodes hold one value. *)

Alive(v) == {n \in DOMAIN nodes : nodes[n].live /\ nodes[n].value = v}

\* The claims of the open episode that may still mint v, the pending one included.
MayMint(v) == episode.left + (IF claim # NoClaim /\ claim.value = v THEN 1 ELSE 0)

\* An episode that found no candidate with the value has room for all its claims.
TwinsInv ==
  /\ claim.relation \notin {"none", "confirm"} => Known(claim.value) = {}
  /\ \A v \in Values :
       /\ Cardinality(Alive(v)) <= MaxClaims
       /\ episode # NoEpisode /\ Known(v) = {} =>
            Cardinality(Alive(v)) + MayMint(v) <= MaxClaims

\* A row never changes its value and never comes back to life.
LEMMA RowKept ==
  ASSUME ConstantsAssumption, Inv, NEW n \in DOMAIN nodes, Rewrites(n)
  PROVE  nodes'[n].value = nodes[n].value /\ (nodes'[n].live => nodes[n].live)
<1>1. nodes[n] \in Node
  BY RowDates
<1> DEFINE Kept(row) == row.value = nodes[n].value /\ (row.live => nodes[n].live)
<1>2. \A l : Kept(Believed(n, l)) /\ Kept([nodes[n] EXCEPT !.level = l])
  BY <1>1 DEF Believed, Node
<1>3. \A A : /\ Kept([nodes[n] EXCEPT !.live = FALSE, !.against = A])
             /\ Kept([nodes[n] EXCEPT !.against = A])
  BY <1>1 DEF Node
<1>4. /\ Kept(Recorded(n)) /\ Kept([Recorded(n) EXCEPT !.live = FALSE])
      /\ Kept([Recorded(n) EXCEPT !.against = AgainstNow(n), !.live = FALSE])
  BY <1>1 DEF Recorded, Node
<1>5. Kept(nodes[n])
  OBVIOUS
<1> HIDE DEF Kept
<1>6. Kept([nodes[n] EXCEPT !.against = AgainstNow(n)])
  BY <1>3
<1>7. Kept(Secondary(n))
  BY <1>4, <1>5, <1>6, SecondaryCases, Zenon
<1>8. Kept([nodes[n] EXCEPT !.live = FALSE, !.against = AgainstNow(n)])
  BY <1>3
<1>9. Kept(nodes'[n])
  <2>1. CASE \E l : nodes'[n] = Believed(n, l) \/ nodes'[n] = [nodes[n] EXCEPT !.level = l]
    <3>1. PICK l : nodes'[n] = Believed(n, l) \/ nodes'[n] = [nodes[n] EXCEPT !.level = l]
      BY <2>1
    <3> QED  BY <3>1, <1>2
  <2>2. CASE \E A : nodes'[n] = [nodes[n] EXCEPT !.live = FALSE, !.against = A]
    <3>1. PICK A : nodes'[n] = [nodes[n] EXCEPT !.live = FALSE, !.against = A]
      BY <2>2
    <3> QED  BY <3>1, <1>3
  <2>3. CASE nodes'[n] \in {nodes[n], Secondary(n), [nodes[n] EXCEPT !.against = AgainstNow(n)]}
    BY <2>3, <1>5, <1>6, <1>7
  <2> QED  BY <2>1, <2>2, <2>3 DEF Rewrites
<1> QED  BY <1>9 DEF Kept

\* The live nodes of a value after a step: some of those before it, and at most
\* one more, when the claim that was applied asserted the value.
LEMMA AliveAfter ==
  ASSUME ConstantsAssumption, Inv, Inv', [Next]_vars, NEW v \in Values
  PROVE  /\ IsFiniteSet(Alive(v)) /\ IsFiniteSet(Alive(v)')
         /\ Cardinality(Alive(v)) \in Nat /\ Cardinality(Alive(v)') \in Nat
         /\ \/ Cardinality(Alive(v)') <= Cardinality(Alive(v))
            \/ /\ claim.relation \notin {"none", "confirm"} /\ claim.value = v
               /\ nodes' # nodes
               /\ Cardinality(Alive(v)') <= Cardinality(Alive(v)) + 1
<1>1. /\ DOMAIN nodes = 1..Len(nodes) /\ Len(nodes) \in Nat
      /\ DOMAIN nodes' = 1..Len(nodes') /\ Len(nodes') \in Nat
  BY DEF Inv, TypeOK
<1>2. IsFiniteSet(1..Len(nodes)) /\ IsFiniteSet(1..Len(nodes'))
  BY <1>1, FS_Interval
<1>3. Alive(v) \subseteq 1..Len(nodes) /\ Alive(v)' \subseteq 1..Len(nodes')
  BY <1>1 DEF Alive
<1>4. /\ IsFiniteSet(Alive(v)) /\ IsFiniteSet(Alive(v)')
      /\ Cardinality(Alive(v)) \in Nat /\ Cardinality(Alive(v)') \in Nat
  BY <1>2, <1>3, FS_Subset, FS_CardinalityType
<1>5. \A n \in DOMAIN nodes :
        nodes'[n].value = nodes[n].value /\ (nodes'[n].live => nodes[n].live)
  BY StepRewrites, RowKept
<1> DEFINE new == Len(nodes) + 1
<1>6. \A n \in DOMAIN nodes' : n \in DOMAIN nodes \/ Minted(n)
  BY StepRewrites
<1>7. CASE new \in Alive(v)'
  <2>1. Minted(new) /\ nodes'[new].value = v
    BY <1>1, <1>6, <1>7 DEF Alive
  <2>2. Alive(v)' \subseteq Alive(v) \cup {new} /\ new \notin Alive(v)
    BY <1>1, <1>5, <1>6 DEF Alive, Minted
  <2>3. /\ IsFiniteSet(Alive(v) \cup {new})
        /\ Cardinality(Alive(v) \cup {new}) = Cardinality(Alive(v)) + 1
    BY <1>4, <2>2, FS_AddElement
  <2>4. Cardinality(Alive(v)') <= Cardinality(Alive(v)) + 1
    BY <2>2, <2>3, FS_Subset
  <2>5. nodes' # nodes
    BY <1>1, <1>7 DEF Alive
  <2> QED  BY <1>4, <2>1, <2>4, <2>5 DEF Minted
<1>8. CASE new \notin Alive(v)'
  <2>1. Alive(v)' \subseteq Alive(v)
    BY <1>5, <1>6, <1>8 DEF Alive, Minted
  <2> QED  BY <1>4, <2>1, FS_Subset
<1> QED  BY <1>7, <1>8

\* A claim that may mint was compared with the candidates first.
LEMMA JudgedUnknown ==
  ASSUME Judge, TypeOK
  PROVE  /\ UNCHANGED nodes /\ claim = NoClaim /\ episode # NoEpisode /\ episode' # NoEpisode
         /\ episode'.left = episode.left - 1 /\ episode'.seen = episode.seen
         /\ claim'.relation \notin {"none", "confirm"} => Known(claim'.value) = {}
<1>1. ASSUME NEW r, NEW v, NEW best, NEW C, NEW m, NEW i,
             r = "confirm" \/ Known(v) = {}, Decide(Decision(r, v, best, C, m, i))
      PROVE  /\ UNCHANGED nodes /\ claim = NoClaim /\ episode # NoEpisode /\ episode' # NoEpisode
             /\ episode'.left = episode.left - 1 /\ episode'.seen = episode.seen
             /\ claim'.relation \notin {"none", "confirm"} => Known(claim'.value) = {}
  <2>1. episode \in Episode
    BY <1>1 DEF TypeOK, Decide
  <2>2. /\ episode'.left = episode.left - 1 /\ episode'.seen = episode.seen
        /\ episode'.open = TRUE
    BY <1>1, <2>1 DEF Decide, Episode
  <2>3. claim'.relation = r /\ claim'.value = v
    BY <1>1 DEF Decide, Decision
  <2> QED  BY <1>1, <2>2, <2>3 DEF Decide, NoEpisode
<1>2. PICK v \in Values :
        \/ FastPath(v)
        \/ \E best \in Candidates \cup {0} :
             \/ \E r \in {"confirm", "extend", "unrelated"} : JudgeQuiet(r, v, best)
             \/ \E C \in SUBSET Candidates, m \in Magnitudes, i \in Confidences \cup {NoIntent} :
                  JudgeContradict(v, best, C, m, i)
  BY DEF Judge
<1>3. CASE FastPath(v)
  BY <1>1, <1>3 DEF FastPath, Quiet
<1>4. CASE \E best \in Candidates \cup {0}, r \in {"confirm", "extend", "unrelated"} :
             JudgeQuiet(r, v, best)
  BY <1>1, <1>4 DEF JudgeQuiet, Quiet
<1>5. CASE \E best \in Candidates \cup {0}, C \in SUBSET Candidates, m \in Magnitudes,
               i \in Confidences \cup {NoIntent} : JudgeContradict(v, best, C, m, i)
  BY <1>1, <1>5 DEF JudgeContradict
<1> QED  BY <1>2, <1>3, <1>4, <1>5

\* What an episode knows does not change while it is open.
LEMMA KnownKept ==
  ASSUME ConstantsAssumption, Inv, [Next]_vars, episode # NoEpisode, episode' # NoEpisode,
         episode'.seen = episode.seen, NEW v
  PROVE  Known(v)' = Known(v)
<1>1. episode.seen \subseteq DOMAIN nodes
  BY DEF Inv, TypeOK
<1>2. \A n \in episode.seen : nodes'[n].value = nodes[n].value
  BY <1>1, StepRewrites, RowKept
<1> QED  BY <1>2 DEF Known, Candidates

LEMMA TwinsStep ==
  ASSUME ConstantsAssumption, Inv, Inv', TwinsInv, [Next]_vars
  PROVE  TwinsInv'
<1>1. /\ TypeOK /\ MaxClaims \in Nat
      /\ episode # NoEpisode => episode.left \in 0..MaxClaims
      /\ claim # NoClaim => claim.relation # "none"
      /\ claim = NoClaim => claim.relation = "none"
      /\ claim # NoClaim => episode # NoEpisode /\ claim.value \in Values
  <2>1. TypeOK /\ MaxClaims \in Nat
    BY DEF Inv, ConstantsAssumption
  <2>2. episode # NoEpisode => episode.left \in 0..MaxClaims
    <3>1. episode # NoEpisode => episode \in Episode
      BY <2>1 DEF TypeOK
    <3> QED  BY <3>1 DEF Episode
  <2>3. claim = NoClaim => claim.relation = "none"
    BY DEF NoClaim
  <2>4. claim # NoClaim =>
          /\ episode # NoEpisode /\ claim.value \in Values
          /\ claim.relation \in {"confirm", "extend", "unrelated", "contradict"}
    BY <2>1, Zenon DEF TypeOK
  <2> QED  BY <2>1, <2>2, <2>3, <2>4
<1>2. CASE \E s \in Sessions, t \in Times : Open(s, t)
  <2>1. /\ UNCHANGED nodes /\ claim' = NoClaim /\ episode = NoEpisode
        /\ episode' # NoEpisode /\ episode'.left = MaxClaims
        /\ episode'.seen = {n \in DOMAIN nodes : nodes[n].live}
    BY <1>1, <1>2 DEF Open, NoEpisode
  <2>2. ASSUME NEW v \in Values
        PROVE  /\ Cardinality(Alive(v)') <= MaxClaims
               /\ Known(v)' = {} => Cardinality(Alive(v)') + MayMint(v)' <= MaxClaims
    <3>1. Alive(v)' = Alive(v) /\ Known(v)' = Alive(v)
      BY <2>1 DEF Alive, Known, Candidates
    <3>2. MayMint(v)' = MaxClaims
      BY <1>1, <2>1 DEF MayMint
    <3>3. Cardinality({}) = 0
      BY FS_EmptySet
    <3>4. Cardinality(Alive(v)) <= MaxClaims
      BY DEF TwinsInv
    <3>5. ASSUME Known(v)' = {} PROVE Cardinality(Alive(v)') + MayMint(v)' <= MaxClaims
      BY <1>1, <3>1, <3>2, <3>3, <3>5
    <3> QED  BY <3>1, <3>4, <3>5
  <2>3. claim'.relation = "none"
    BY <2>1 DEF NoClaim
  <2> QED  BY <2>2, <2>3 DEF TwinsInv
<1>3. CASE Close
  <2>1. UNCHANGED <<nodes, claim>> /\ claim = NoClaim /\ episode' = NoEpisode
    BY <1>3 DEF Close
  <2>2. \A v : Alive(v)' = Alive(v)
    BY <2>1 DEF Alive
  <2> QED  BY <1>1, <2>1, <2>2 DEF TwinsInv
<1>4. CASE Judge
  <2>1. /\ UNCHANGED nodes /\ claim = NoClaim /\ episode # NoEpisode /\ episode' # NoEpisode
        /\ episode'.left = episode.left - 1 /\ episode'.seen = episode.seen
        /\ claim'.relation \notin {"none", "confirm"} => Known(claim'.value) = {}
    BY <1>1, <1>4, JudgedUnknown
  <2>2. ASSUME NEW v PROVE Alive(v)' = Alive(v) /\ Known(v)' = Known(v)
    BY <2>1, KnownKept DEF Alive
  <2>3. ASSUME NEW v \in Values, Known(v) = {}
        PROVE  Cardinality(Alive(v)) + MayMint(v)' <= MaxClaims
    <3>1. Cardinality(Alive(v)) + MayMint(v) <= MaxClaims /\ MayMint(v) = episode.left
      BY <1>1, <2>1, <2>3 DEF TwinsInv, MayMint
    <3>2. MayMint(v)' <= episode.left /\ MayMint(v)' \in Nat
      <4>1. episode.left \in Nat
        BY <1>1, <2>1
      <4>2. episode' \in Episode
        BY <2>1 DEF Inv, TypeOK
      <4>3. episode'.left \in Nat
        BY <1>1, <4>2 DEF Episode
      <4> QED  BY <4>1, <4>3, <2>1 DEF MayMint
    <3> QED  BY <1>1, <2>1, <3>1, <3>2, AliveAfter
  <2> QED  BY <2>1, <2>2, <2>3 DEF TwinsInv
<1>5. CASE Apply
  <2>1. claim # NoClaim /\ claim' = NoClaim /\ UNCHANGED episode
    BY <1>5 DEF Apply, Confirm, StandAlone, DropStale, SecondariesOnly, Reconcile, AppendNew,
                Hold, ForceDestabilize, Challenges, Named, Contradicts, Applied, NoClaim
  <2>2. \A v : Known(v)' = Known(v)
    BY <1>1, <2>1, KnownKept
  <2>3. ASSUME NEW v \in Values, Known(v) = {}
        PROVE  Cardinality(Alive(v)') + MayMint(v)' <= MaxClaims
    <3>1. Cardinality(Alive(v)) + MayMint(v) <= MaxClaims
      BY <1>1, <2>1, <2>3 DEF TwinsInv
    <3>2. MayMint(v)' = episode.left /\ episode.left \in Nat
      BY <1>1, <2>1 DEF MayMint
    <3>3. claim.value = v => MayMint(v) = episode.left + 1
      BY <2>1 DEF MayMint
    <3>4. claim.value # v => MayMint(v) = episode.left
      BY <3>2 DEF MayMint
    <3> QED  BY <1>1, <3>1, <3>2, <3>3, <3>4, AliveAfter
  <2>4. ASSUME NEW v \in Values PROVE Cardinality(Alive(v)') <= MaxClaims
    <3>1. CASE Known(v) = {}
      <4>1. MayMint(v)' \in Nat
        BY <1>1, <2>1 DEF MayMint
      <4> QED  BY <1>1, <2>3, <3>1, <4>1, AliveAfter
    <3>2. CASE Known(v) # {}
      <4>1. ~(claim.relation \notin {"none", "confirm"} /\ claim.value = v)
        BY <3>2 DEF TwinsInv
      <4> QED  BY <1>1, <4>1, AliveAfter DEF TwinsInv
    <3> QED  BY <3>1, <3>2
  <2>5. claim'.relation = "none"
    BY <2>1 DEF NoClaim
  <2> QED  BY <2>2, <2>3, <2>4, <2>5 DEF TwinsInv
<1>6. CASE \E n \in DOMAIN nodes : Fade(n)
  <2>1. UNCHANGED <<episode, claim>> /\ episode = NoEpisode
    BY <1>6 DEF Fade
  <2>2. claim.relation = "none"
    BY <1>1, <2>1
  <2>3. ASSUME NEW v \in Values PROVE Cardinality(Alive(v)') <= MaxClaims
    BY <1>1, <2>2, AliveAfter DEF TwinsInv
  <2> QED  BY <2>1, <2>2, <2>3 DEF TwinsInv
<1>7. CASE UNCHANGED vars
  BY <1>7 DEF TwinsInv, Alive, Known, Candidates, MayMint, vars
<1> QED  BY <1>2, <1>3, <1>4, <1>5, <1>6, <1>7 DEF Next

-----------------------------------------------------------------------------
(* The theorems. *)

\* Inv is inductive: it is the reason the three theorems below hold.
THEOREM Invariance == Spec => []Inv
<1> USE ConstantsAssumption
<1>1. Init => Inv
  <2> SUFFICES ASSUME Init PROVE Inv  OBVIOUS
  <2>1. nodes \in Seq(Node) /\ Len(nodes) = 0 /\ DOMAIN nodes = {}
    BY DEF Init
  <2>2. 0 \in 0..MaxNodes
    BY DEF ConstantsAssumption
  <2> QED  BY <2>1, <2>2 DEF Init, Inv, TypeOK, Rooted, Breadcrumbs, LockInBroken
<1>2. Inv /\ [Next]_vars => Inv'
  BY NextStep
<1> QED  BY <1>1, <1>2, PTL DEF Spec

\* The node table, the open episode and the decision under way are well typed:
\* a decision never names a node that its judge was not shown.
THEOREM TypeCorrect == Spec => []TypeOK
<1>1. Inv => TypeOK
  BY DEF Inv
<1> QED  BY <1>1, Invariance, PTL

\* However many contradictions follow one another, in whatever episodes and on
\* whatever routes, the third belief of a succession is not the first (D-20).
THEOREM NoCircle == Spec => []NoTwoCycle
<1>1. Inv => NoTwoCycle
  <2> SUFFICES ASSUME Inv, NEW n \in DOMAIN nodes, nodes[n].replaces # 0,
                      nodes[nodes[n].replaces].replaces # 0
               PROVE  nodes[n].value # nodes[nodes[nodes[n].replaces].replaces].value
    BY DEF NoTwoCycle
  <2>1. nodes[n].replaces \in DOMAIN nodes
    BY DEF Inv, Rooted
  <2> QED  BY <2>1 DEF Inv, Breadcrumbs
<1> QED  BY <1>1, Invariance, PTL

\* A value that is asserted in any number of episodes is held by no more nodes
\* than one episode can mint (D-17, DEDUP-01).
THEOREM NeverTwinned == Spec => []NoTwins
<1> USE ConstantsAssumption
<1>1. Init => TwinsInv
  <2> SUFFICES ASSUME Init PROVE TwinsInv  OBVIOUS
  <2>1. \A v : Alive(v) = {}
    BY DEF Init, Alive
  <2>2. Cardinality({}) = 0 /\ MaxClaims \in Nat
    BY FS_EmptySet DEF ConstantsAssumption
  <2>3. claim.relation = "none" /\ episode = NoEpisode
    BY DEF Init, NoClaim
  <2>4. \A v \in Values : Cardinality(Alive(v)) <= MaxClaims
    <3> SUFFICES ASSUME NEW v \in Values PROVE Cardinality(Alive(v)) <= MaxClaims  OBVIOUS
    <3>1. Cardinality(Alive(v)) = 0
      BY <2>1, <2>2
    <3> QED  BY <3>1, <2>2
  <2> QED  BY <2>3, <2>4, Zenon DEF TwinsInv
<1>2. Inv /\ Inv' /\ TwinsInv /\ [Next]_vars => TwinsInv'
  BY TwinsStep
<1>3. TwinsInv => NoTwins
  BY DEF TwinsInv, NoTwins, Alive
<1> QED  BY <1>1, <1>2, <1>3, Invariance, PTL DEF Spec

\* N independent contradictions always break a belief's monopoly (D-19).
THEOREM NeverLockedIn == Spec => []LockInBroken
<1>1. Inv => LockInBroken
  BY DEF Inv
<1> QED  BY <1>1, Invariance, PTL
\* No belief falls to a weak challenge, nor to one voice that repeats itself: a
\* tombstone has a challenge above the band or N sessions behind it (D-13, D-19).
THEOREM FairlyOverturned == Spec => OverturnedFairly
<1> USE ConstantsAssumption
<1> DEFINE Fair(n) ==
      nodes[n].live /\ ~nodes'[n].live =>
         \/ (IF claim.confidence = NoIntent THEN claim.magnitude * 100
             ELSE claim.magnitude * Damping[claim.confidence])
              >= BandLow * Resistance[nodes[n].level]
         \/ Cardinality(nodes'[n].against) >= N
<1>1. ASSUME Inv, [Next]_vars PROVE [\A n \in DOMAIN nodes : Fair(n)]_vars
  <2> SUFFICES ASSUME NEW n \in DOMAIN nodes, nodes[n].live, ~nodes'[n].live
               PROVE  Fair(n)
    OBVIOUS
  <2>1. nodes[n] \in Node
    BY <1>1, RowDates
  <2>2. CASE Contradicts /\ Route(n) = "reconcile"
    BY <1>1, <2>2, RouteBeats
  <2>3. CASE EnoughSessions(n) /\ nodes'[n].against = AgainstNow(n)
    BY <2>3 DEF EnoughSessions
  <2>4. CASE Contradicts /\ nodes'[n] = Secondary(n)
    <3>1. \/ Route(n) = "reconcile"
          \/ EnoughSessions(n) /\ nodes'[n].against = AgainstNow(n)
      BY <2>1, <2>4, SecondaryCases, RowFields
    <3> QED  BY <2>2, <2>3, <2>4, <3>1
  <2>5. CASE /\ Named
             /\ \/ Route(n) = "reconcile"
                \/ /\ EnoughSessions(n)
                   /\ nodes'[n] = [nodes[n] EXCEPT !.live = FALSE, !.against = AgainstNow(n)]
                \/ nodes'[n] = [nodes[n] EXCEPT !.against = AgainstNow(n)]
    <3>1. \/ Route(n) = "reconcile"
          \/ EnoughSessions(n) /\ nodes'[n].against = AgainstNow(n)
      BY <2>1, <2>5, RowFields
    <3> QED  BY <2>2, <2>3, <2>5, <3>1 DEF Named
  <2>6. Rewrites(n)
    BY <1>1, StepRewrites
  <2>7. ~(nodes'[n] = nodes[n])
    OBVIOUS
  <2>8. \A l : nodes'[n] # Believed(n, l) /\ nodes'[n] # [nodes[n] EXCEPT !.level = l]
    <3> TAKE l
    <3>1. Believed(n, l).live /\ [nodes[n] EXCEPT !.level = l].live
      BY <2>1, RowFields
    <3> QED  BY <3>1
  <2>9. \/ Contradicts /\ nodes'[n] = Secondary(n)
        \/ /\ Named
           /\ \/ Route(n) = "reconcile"
              \/ /\ EnoughSessions(n)
                 /\ nodes'[n] = [nodes[n] EXCEPT !.live = FALSE, !.against = AgainstNow(n)]
              \/ nodes'[n] = [nodes[n] EXCEPT !.against = AgainstNow(n)]
    BY <2>6, <2>7, <2>8 DEF Rewrites
  <2> QED  BY <2>4, <2>5, <2>9
<1> QED  BY <1>1, Invariance, PTL DEF Spec, OverturnedFairly

\* A backfilled rejection that predates what a belief rests on does nothing to
\* it, as the primary or as a secondary (DRIFT-04).
THEOREM StaleIgnored == Spec => StaleNeverHeard
<1> USE ConstantsAssumption
<1> DEFINE Deaf(n) ==
      (/\ Contradicts /\ claim' = NoClaim
       /\ n \in claim.contradicted \cup {claim.best}
       /\ claim.confidence # NoIntent
       /\ episode.ts # 0 /\ episode.ts < nodes[n].support)
      => nodes'[n] = nodes[n]
<1>1. Init => Dated
  BY DEF Init, Dated
<1>2. Inv /\ Dated /\ [Next]_vars => Dated'
  BY DatedStep
<1>3. ASSUME Inv, Dated, [Next]_vars PROVE [\A n \in DOMAIN nodes : Deaf(n)]_vars
  <2> SUFFICES ASSUME NEW n \in DOMAIN nodes, Contradicts, claim' = NoClaim,
                      n \in claim.contradicted \cup {claim.best},
                      claim.confidence # NoIntent,
                      episode.ts # 0, episode.ts < nodes[n].support
               PROVE  nodes'[n] = nodes[n]
    OBVIOUS
  <2>1. episode.ts \in Nat
    BY <1>3, InvRows, ClaimFacts DEF Contradicts, Episode, ConstantsAssumption
  <2>2. nodes[n].support \in Nat /\ nodes[n].horizon \in Nat /\ nodes[n].support <= nodes[n].horizon
    BY <1>3, RowDates DEF Dated
  <2>3. Stale(n)
    BY <2>1, <2>2 DEF Stale
  <2>4. claim # claim' /\ claim.relation = "contradict"
    BY DEF Contradicts, NoClaim
  <2>5. Secondary(n) = nodes[n]
    BY <2>3 DEF Secondary
  <2> QED  BY <1>3, <2>3, <2>4, <2>5, StepRewrites DEF Rewrites
<1> QED  BY <1>1, <1>2, <1>3, Invariance, PTL DEF Spec, StaleNeverHeard
=============================================================================
