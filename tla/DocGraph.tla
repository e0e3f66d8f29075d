----------------------------- MODULE DocGraph -------------------------------
(***************************************************************************)
(* The edges among documents as DocGraphDeriver.deriveDocGraph computes    *)
(* them from scratch (src/consolidation/doc-graph-deriver.ts).             *)
(*                                                                         *)
(* Subject documents are numbered in the order the query returns them.  A  *)
(* corpus c is a record: the schemas grouped under each subject (schemas), *)
(* the facts and entities of each schema (members), the abstracts edges    *)
(* among schemas (ladder), their schema_rel edges (related), the project   *)
(* of each subject (scope), the projects that have a hub (hubs) and the    *)
(* schemas that have a chapter (chapters).  Names of entities shared by    *)
(* two projects count like a shared member and are left out.               *)
(***************************************************************************)
EXTENDS Integers, FiniteSets, FiniteSetsExt

CONSTANTS
  Schemas,
  TopK,      \* TOP_K
  Idf,       \* ln(number of subjects / document frequency), in thousandths
  Adjacency  \* ADJACENCY_WEIGHT, in thousandths

ASSUME TopKAssumption == TopK \in Nat \ {0}

SubjectsOf(c) == DOMAIN c.schemas

\* "hub is not a subject", "chapter docs are never subjects themselves".
IsCorpus(c) ==
  /\ SubjectsOf(c) \subseteq Int
  /\ c.schemas \in [SubjectsOf(c) -> SUBSET Schemas]
  /\ (c.hubs \cup c.chapters) \cap SubjectsOf(c) = {}

\* The schemas that abstract s.
Parents(c, s) == {r \in Schemas : <<r, s>> \in c.ladder}

-----------------------------------------------------------------------------
(* Containment. *)

\* What a walk up the ladder from s reaches: its parents, their parents, and so on.
Ancestors(c, s) ==
  {r \in Schemas :
     \A T \in SUBSET Schemas :
       Parents(c, s) \subseteq T /\ (\A t \in T : Parents(c, t) \subseteq T) => r \in T}

\* The walk remembers what it has visited and never lists where it starts.
Above(c) == [s \in Schemas |-> Ancestors(c, s) \ {s}]

Acyclic(c) == \A s \in Schemas : s \notin Ancestors(c, s)

\* Fault: one schema below is enough.
CoversSome(c, above, a, b) ==
  /\ a # b
  /\ \E s \in c.schemas[b] : above[s] \cap c.schemas[a] # {}

\* Every schema of b has an ancestor among those of a (D-06, strict all).
Covers(c, above, a, b) ==
  /\ a # b /\ c.schemas[b] # {}
  /\ \A s \in c.schemas[b] : above[s] \cap c.schemas[a] # {}

\* Of two subjects that contain each other the first one does (D-09).
Nested(c) ==
  LET above == Above(c)
  IN {p \in SubjectsOf(c) \X SubjectsOf(c) :
        /\ Covers(c, above, p[1], p[2])
        /\ Covers(c, above, p[2], p[1]) => p[1] < p[2]}

HubEdges(c) ==
  {<<c.scope[b], b>> : b \in {b \in SubjectsOf(c) : c.scope[b] \in c.hubs}}

ChapterEdges(c) ==
  UNION {{<<a, s>> : s \in c.schemas[a] \cap c.chapters} : a \in SubjectsOf(c)}

Containment(c) == Nested(c) \cup HubEdges(c) \cup ChapterEdges(c)

-----------------------------------------------------------------------------
(* References. *)

MembersOf(c, a) == UNION {c.members[s] : s \in c.schemas[a]}

Frequency(c, m) == Cardinality({a \in SubjectsOf(c) : m \in MembersOf(c, a)})

\* Related schemas, and schemas abstracted by the same one (D-02).
Adjacent(c, s, t) ==
  /\ s # t
  /\ \/ {<<s, t>>, <<t, s>>} \cap c.related # {}
     \/ \E r \in Schemas : {<<r, s>>, <<r, t>>} \subseteq c.ladder

\* Rare shared members weigh most, what all subjects share weighs nothing.
Evidence(c, a, b) ==
  MapThenSumSet(LAMBDA m : Idf[Frequency(c, m)], MembersOf(c, a) \cap MembersOf(c, b))
  + IF \E s \in c.schemas[a], t \in c.schemas[b] : Adjacent(c, s, t) THEN Adjacency ELSE 0

Scores(c) ==
  [p \in {{i, j} : i, j \in SubjectsOf(c)} |->
     Evidence(c, CHOOSE a \in p : \A b \in p : a <= b, CHOOSE b \in p : \A a \in p : a <= b)]

\* Partners of i that come before j in i's ranking: more evidence, then the
\* order in which the pairs were scored.
Better(c, score, i, j) ==
  {k \in SubjectsOf(c) \ {i} :
     score[{i, k}] > score[{i, j}] \/ (score[{i, k}] = score[{i, j}] /\ k < j)}

Keeps(c, score, i, j) ==
  score[{i, j}] > 0 /\ Cardinality(Better(c, score, i, j)) < TopK

\* Fault: both have to keep each other.
KeptByBoth(c, score) ==
  {p \in SubjectsOf(c) \X SubjectsOf(c) :
     p[1] < p[2] /\ Keeps(c, score, p[1], p[2]) /\ Keeps(c, score, p[2], p[1])}

\* One of the two keeps the other (D-05).
Kept(c, score) ==
  {p \in SubjectsOf(c) \X SubjectsOf(c) :
     p[1] < p[2] /\ (Keeps(c, score, p[1], p[2]) \/ Keeps(c, score, p[2], p[1]))}

\* Fault: only the direction that was written is looked up.
ReferenceOneWay(c) == Kept(c, Scores(c)) \ Containment(c)

\* A pair that is nested already is not referenced as well.
Reference(c) ==
  LET contained == Containment(c)
  IN {p \in Kept(c, Scores(c)) : p \notin contained /\ <<p[2], p[1]>> \notin contained}

-----------------------------------------------------------------------------
(* What the reader and the graph view rely on. *)

\* An order a reader can descend: of two subjects at most one is above the other,
\* and over a ladder without cycles what is under a subject is under whatever that
\* subject is under.
DescendsWell(c) ==
  LET nested == Nested(c)
  IN /\ \A a, b \in SubjectsOf(c) : <<a, b>> \in nested => <<b, a>> \notin nested
     /\ Acyclic(c) =>
          \A a, b, d \in SubjectsOf(c) :
            <<a, b>> \in nested /\ <<b, d>> \in nested => <<a, d>> \in nested

\* Two documents are linked in one way at most, and nobody's closest relative is
\* out of reach, however many relatives that one has.
LinkedOnce(c) ==
  LET links == Containment(c) \cup Reference(c)
      score == Scores(c)
  IN /\ \A a, b \in SubjectsOf(c) :
          Cardinality({e \in links : e \in {<<a, b>>, <<b, a>>}}) <= 1
     /\ \A i, j \in SubjectsOf(c) :
          i # j /\ score[{i, j}] > 0 /\ Better(c, score, i, j) = {} =>
            {<<i, j>>, <<j, i>>} \cap links # {}
=============================================================================
