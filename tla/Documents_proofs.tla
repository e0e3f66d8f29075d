-------------------------- MODULE Documents_proofs --------------------------
(***************************************************************************)
(* The safety of Documents for any project, order of filling, budget and   *)
(* number of generators.  The invariant says who holds the write lock, and *)
(* what the holder has still to do: derive the edges, or clear the marker  *)
(* of a scope it has promoted.                                             *)
(***************************************************************************)
EXTENDS Documents, FiniteSetTheorems, TLAPS

-----------------------------------------------------------------------------
(* The inductive invariant. *)

\* The lock is held by whoever is between its acquisition and its end.
Working(g) == gen[g].at \in {"check", "make", "write", "derive"}

OneWriter ==
  /\ writer = "pass" <=> pass.at # "off"
  /\ \A g \in Generators : writer = g <=> Working(g)

\* A generator leaves the edges behind only between write and derivation, and
\* only when its document got a new id.
Behind == \E g \in Generators : At(g, "derive") /\ gen[g].moved

EdgesFollow == writer # "pass" /\ ~loose /\ ~Behind => edges = Contained

\* What a promotion of the scope has established.
ScopePromoted == (\A c \in Induced : LiveDocs(c) # {}) /\ LiveIn(Hub) # {}

MarkerReady == pass.at = "drop" => ScopePromoted

Inv ==
  /\ TypeOK /\ IsFiniteSet(docs)
  /\ OneLivePerSlug /\ OneWriter /\ EdgesFollow /\ MarkerReady

-----------------------------------------------------------------------------
(* The doc table. *)

LEMMA FiniteImage ==
  ASSUME NEW S, IsFiniteSet(S), NEW f, DOMAIN f = S
  PROVE  IsFiniteSet({f[x] : x \in S})
<1> DEFINE T == {f[x] : x \in S}
           h == [x \in S |-> f[x]]
<1>1. h \in [S -> T]
  OBVIOUS
<1>2. \A t \in T : \E x \in S : h[x] = t
  OBVIOUS
<1>3. h \in Surjection(S, T)
  BY <1>1, <1>2 DEF Surjection
<1> QED  BY <1>3, FS_Surjection

LEMMA FreshDoc ==
  ASSUME IsFiniteSet(docs), NEW s \in Slugs, NEW text \in BOOLEAN
  PROVE  /\ Fresh(s, text) \in Doc
         /\ Fresh(s, text).slug = s /\ Fresh(s, text).live /\ Fresh(s, text).filled = text
<1> DEFINE named == {d \in docs : d.slug = s}
<1>1. IsFiniteSet(named)
  BY FS_Subset
<1>2. Cardinality(named) \in Nat
  BY <1>1, FS_CardinalityType
<1>3. Cardinality(named) + 1 \in Nat \ {0}
  BY <1>2
<1> QED  BY <1>3 DEF Fresh, Doc

LEMMA StubDocs ==
  ASSUME IsFiniteSet(docs), NEW S \in SUBSET Slugs, IsFiniteSet(S)
  PROVE  /\ WithStubs(S) \subseteq Doc /\ IsFiniteSet(WithStubs(S))
         /\ \A d \in WithStubs(S) : d.live /\ d.slug \in S /\ d = Fresh(d.slug, FALSE)
         /\ \A s \in S : \E d \in WithStubs(S) : d.live /\ d.slug = s
<1>1. \A s \in S : /\ Fresh(s, FALSE) \in Doc
                   /\ Fresh(s, FALSE).slug = s /\ Fresh(s, FALSE).live
  BY FreshDoc
<1>2. IsFiniteSet(WithStubs(S))
  <2> DEFINE f == [s \in S |-> Fresh(s, FALSE)]
  <2>1. IsFiniteSet({f[s] : s \in S})
    BY FiniteImage
  <2>2. WithStubs(S) = {f[s] : s \in S}
    BY DEF WithStubs
  <2> QED  BY <2>1, <2>2
<1> QED  BY <1>1, <1>2 DEF WithStubs

LEMMA RetiredDocs ==
  ASSUME docs \subseteq Doc, IsFiniteSet(docs), NEW D \in SUBSET docs
  PROVE  /\ Retired(D) \subseteq Doc /\ IsFiniteSet(Retired(D))
         /\ \A d \in Retired(D) : d.live => d \in docs \ D
         /\ docs \ D \subseteq Retired(D)
<1>1. \A d \in D : /\ [d EXCEPT !.live = FALSE] \in Doc
                   /\ [d EXCEPT !.live = FALSE].live = FALSE
  BY DEF Doc
<1>2. IsFiniteSet(D) /\ IsFiniteSet(docs \ D)
  BY FS_Subset
<1>3. IsFiniteSet({[d EXCEPT !.live = FALSE] : d \in D})
  <2> DEFINE f == [d \in D |-> [d EXCEPT !.live = FALSE]]
  <2>1. DOMAIN f = D /\ {[d EXCEPT !.live = FALSE] : d \in D} = {f[d] : d \in D}
    OBVIOUS
  <2> HIDE DEF f
  <2>2. IsFiniteSet({f[d] : d \in D})
    BY <1>2, <2>1, FiniteImage
  <2> QED  BY <2>1, <2>2
<1>4. IsFiniteSet(Retired(D))
  BY <1>2, <1>3, FS_Union DEF Retired
<1> QED  BY <1>1, <1>4 DEF Retired

\* Documents are retired, and slugs without a live one get a stub.
LEMMA StubbedTable ==
  ASSUME docs \subseteq Doc, IsFiniteSet(docs), OneLivePerSlug,
         NEW T \in SUBSET Doc, IsFiniteSet(T), \A d \in T : d.live => d \in docs,
         NEW S \in SUBSET Slugs, IsFiniteSet(S), \A s \in S : LiveDocs(s) = {},
         docs' = T \cup WithStubs(S)
  PROVE  /\ docs' \subseteq Doc /\ IsFiniteSet(docs') /\ OneLivePerSlug'
         /\ \A s \in S : LiveDocs(s)' # {}
<1>1. /\ WithStubs(S) \subseteq Doc /\ IsFiniteSet(WithStubs(S))
      /\ \A d \in WithStubs(S) : d.live /\ d.slug \in S /\ d = Fresh(d.slug, FALSE)
      /\ \A s \in S : \E d \in WithStubs(S) : d.live /\ d.slug = s
  BY StubDocs
<1>2. docs' \subseteq Doc /\ IsFiniteSet(docs')
  BY <1>1, FS_Union
<1>3. OneLivePerSlug'
  <2> SUFFICES ASSUME NEW d \in docs', NEW e \in docs', d.live, e.live, d.slug = e.slug
               PROVE  d = e
    BY DEF OneLivePerSlug
  <2>1. CASE d \in WithStubs(S) /\ e \in WithStubs(S)
    BY <1>1, <2>1
  <2>2. ASSUME NEW x \in T, x.live PROVE x.slug \notin S
    BY <2>2 DEF LiveDocs
  <2>3. CASE d \in T /\ e \in T
    BY <2>3 DEF OneLivePerSlug
  <2> QED  BY <1>1, <2>1, <2>2, <2>3
<1>4. \A s \in S : LiveDocs(s)' # {}
  BY <1>1 DEF LiveDocs
<1> QED  BY <1>2, <1>3, <1>4

\* The ids of the live documents of a slug.
Ids(s) == {Id(d) : d \in LiveDocs(s)}

\* A write leaves one live text behind, touches no other slug, and keeps the id
\* of a stub.
LEMMA Written ==
  ASSUME docs \subseteq Doc, IsFiniteSet(docs), OneLivePerSlug,
         NEW s \in Slugs, WriteDoc(s)
  PROVE  /\ docs' \subseteq Doc /\ IsFiniteSet(docs') /\ OneLivePerSlug'
         /\ \E d \in docs' : d.live /\ d.filled /\ d.slug = s
         /\ \A d \in docs : d.slug # s => d \in docs'
         /\ Stubs(s) # {} => \A t : Ids(t)' = Ids(t)
<1> DEFINE new == Fresh(s, TRUE)
<1>1. new \in Doc /\ new.slug = s /\ new.live /\ new.filled
  BY FreshDoc
<1> HIDE DEF new
<1>2. CASE LiveDocs(s) = {} /\ docs' = docs \cup {new}
  <2>1. docs' \subseteq Doc /\ IsFiniteSet(docs')
    BY <1>1, <1>2, FS_AddElement
  <2>2. \A d \in docs : d.live => d.slug # s
    BY <1>2 DEF LiveDocs
  <2>3. OneLivePerSlug'
    BY <1>1, <1>2, <2>2 DEF OneLivePerSlug
  <2>4. Stubs(s) = {}
    BY <1>2 DEF Stubs
  <2> QED  BY <1>1, <1>2, <2>1, <2>3, <2>4
<1>3. ASSUME NEW d \in LiveDocs(s), ~d.filled, docs' = (docs \ {d}) \cup {[d EXCEPT !.filled = TRUE]}
      PROVE  /\ docs' \subseteq Doc /\ IsFiniteSet(docs') /\ OneLivePerSlug'
             /\ \E e \in docs' : e.live /\ e.filled /\ e.slug = s
             /\ \A e \in docs : e.slug # s => e \in docs'
             /\ \A t : Ids(t)' = Ids(t)
  <2> DEFINE text == [d EXCEPT !.filled = TRUE]
  <2>1. d \in docs /\ d \in Doc /\ d.live /\ d.slug = s
    BY DEF LiveDocs
  <2>2. text \in Doc /\ text.slug = s /\ text.live /\ text.filled /\ text.n = d.n
    BY <2>1 DEF Doc
  <2> HIDE DEF text
  <2>3. docs' = (docs \ {d}) \cup {text}
    BY <1>3 DEF text
  <2>4. IsFiniteSet(docs \ {d})
    BY FS_RemoveElement
  <2>5. docs' \subseteq Doc /\ IsFiniteSet(docs')
    BY <2>2, <2>3, <2>4, FS_AddElement
  <2>6. \A e \in docs \ {d} : e.live => e.slug # s
    BY <2>1 DEF OneLivePerSlug
  <2>7. OneLivePerSlug'
    BY <2>2, <2>3, <2>6 DEF OneLivePerSlug
  <2>8. ASSUME NEW t PROVE Ids(t)' = Ids(t)
    <3>1. Id(text) = Id(d)
      BY <2>1, <2>2 DEF Id
    <3>2. CASE t = s
      <4>1. LiveDocs(s) = {d} /\ LiveDocs(s)' = {text}
        BY <2>1, <2>2, <2>3, <2>6 DEF LiveDocs
      <4> QED  BY <3>1, <3>2, <4>1 DEF Ids
    <3>3. CASE t # s
      <4>1. LiveDocs(t)' = LiveDocs(t)
        BY <2>1, <2>2, <2>3, <3>3 DEF LiveDocs
      <4> QED  BY <4>1 DEF Ids, Id
    <3> QED  BY <3>2, <3>3
  <2> QED  BY <2>1, <2>2, <2>3, <2>5, <2>7, <2>8
<1>4. ASSUME NEW d \in LiveDocs(s), d.filled, docs' = Retired({d}) \cup {new}
      PROVE  /\ docs' \subseteq Doc /\ IsFiniteSet(docs') /\ OneLivePerSlug'
             /\ \E e \in docs' : e.live /\ e.filled /\ e.slug = s
             /\ \A e \in docs : e.slug # s => e \in docs'
             /\ Stubs(s) = {}
  <2>1. d \in docs /\ d.live /\ d.slug = s
    BY DEF LiveDocs
  <2>2. /\ Retired({d}) \subseteq Doc /\ IsFiniteSet(Retired({d}))
        /\ \A e \in Retired({d}) : e.live => e \in docs \ {d}
        /\ docs \ {d} \subseteq Retired({d})
    BY <2>1, RetiredDocs
  <2>3. docs' \subseteq Doc /\ IsFiniteSet(docs')
    BY <1>1, <1>4, <2>2, FS_AddElement
  <2>4. \A e \in docs \ {d} : e.live => e.slug # s
    BY <2>1 DEF OneLivePerSlug
  <2>5. OneLivePerSlug'
    BY <1>1, <1>4, <2>2, <2>4 DEF OneLivePerSlug
  <2>6. Stubs(s) = {}
    BY <1>4, <2>1, <2>4 DEF Stubs, LiveDocs
  <2> QED  BY <1>1, <1>4, <2>1, <2>2, <2>3, <2>5, <2>6
<1> QED  BY <1>2, <1>3, <1>4 DEF WriteDoc, new

\* The edges depend on the ids of the live documents only.
LEMMA SameEdges ==
  ASSUME \A t : Ids(t)' = Ids(t), UNCHANGED meta
  PROVE  Contained' = Contained
<1>1. \A x : x \in Contained <=>
        \/ \E a \in Ids(Hub), t \in meta : \E b \in Ids(t) : x = <<a, b>>
        \/ \E s \in meta : \E a \in Ids(s), c \in SchemasOf[s] : \E b \in Ids(c) : x = <<a, b>>
  BY DEF Contained, Pairs, Ids
<1>2. \A x : x \in Contained' <=>
        \/ \E a \in Ids(Hub)', t \in meta' : \E b \in Ids(t)' : x = <<a, b>>
        \/ \E s \in meta' : \E a \in Ids(s)', c \in SchemasOf[s] : \E b \in Ids(c)' : x = <<a, b>>
  BY DEF Contained, Pairs, Ids
<1>3. \A x : x \in Contained' <=> x \in Contained
  BY <1>1, <1>2
<1> QED  BY <1>3

LEMMA SameTable ==
  ASSUME UNCHANGED docs
  PROVE  /\ OneLivePerSlug' = OneLivePerSlug
         /\ UNCHANGED meta => Contained' = Contained
         /\ UNCHANGED mass => ScopePromoted' = ScopePromoted
<1>1. \A t : Ids(t)' = Ids(t)
  BY DEF Ids, LiveDocs, Id
<1> QED  BY <1>1, SameEdges DEF OneLivePerSlug, ScopePromoted, Induced, LiveDocs, LiveIn, Scope

LEMMA ContainedType ==
  ASSUME ConstantsAssumption, docs \subseteq Doc
  PROVE  Contained \subseteq (Slugs \X Nat) \X (Slugs \X Nat)
<1>1. \A d \in docs : Id(d) \in Slugs \X Nat
  BY DEF Id, Doc
<1> QED  BY <1>1 DEF Contained, Pairs, LiveDocs

-----------------------------------------------------------------------------
(* Steps that leave the documents alone. *)

LEMMA Kept ==
  ASSUME Inv, TypeOK', UNCHANGED <<docs, mass>>, OneWriter', EdgesFollow',
         pass'.at = "drop" => pass.at = "drop"
  PROVE  Inv'
BY SameTable DEF Inv, MarkerReady

LEMMA EdgesKept ==
  ASSUME EdgesFollow, UNCHANGED <<docs, edges, meta>>,
         writer' # "pass" /\ ~loose' /\ ~Behind' => writer # "pass" /\ ~loose /\ ~Behind
  PROVE  EdgesFollow'
BY SameTable DEF EdgesFollow

LEMMA EdgesDerived ==
  ASSUME UNCHANGED <<docs, meta>>, edges' = Contained
  PROVE  EdgesFollow'
BY SameTable DEF EdgesFollow

\* While the pass works it alone holds the lock and the edges may lag.
LEMMA PassWorks ==
  ASSUME Inv, pass.at # "off", UNCHANGED <<gen, writer>>, pass'.at # "off"
  PROVE  OneWriter' /\ EdgesFollow'
BY DEF Inv, OneWriter, EdgesFollow, Working

LEMMA Typing ==
  ASSUME ConstantsAssumption
  PROVE  Off \in Generator /\ Idle \in Pass /\ Hub \in Slugs
BY DEF Off, Idle, Generator, Pass, Slugs

\* A survey, or the server that forgets.
LEMMA OutsideStep ==
  ASSUME Inv, TypeOK', UNCHANGED <<docs, edges, meta, loose, mass, pass, gen, writer>>
  PROVE  Inv'
<1>1. OneWriter'
  BY DEF Inv, OneWriter, Working
<1>2. EdgesFollow'
  BY EdgesKept DEF Inv, Behind, At
<1> QED  BY <1>1, <1>2, Kept

LEMMA QueueStep ==
  ASSUME ConstantsAssumption, Inv, NEW s \in Slugs, NEW force \in BOOLEAN, Runs(s, force),
         UNCHANGED <<graphVars, passVars, surveyVars, faultVars, mass, writer, changes>>,
         flight' \in [Slugs -> Generators \cup {Nobody}]
  PROVE  Inv'
<1> DEFINE p == NewProcess
           st == [at |-> "queued", slug |-> s, force |-> force, moved |-> FALSE]
<1>1. p \in Generators /\ gen[p] = Off
  BY DEF Runs, NewProcess, Free
<1>2. gen \in [Generators -> Generator] /\ st \in Generator
  BY DEF Inv, TypeOK, Generator
<1>3. gen' = [gen EXCEPT ![p] = st]
  BY DEF Runs
<1> HIDE DEF p, st
<1>4. /\ gen' \in [Generators -> Generator] /\ gen'[p] = st
      /\ \A g \in Generators \ {p} : gen'[g] = gen[g]
  BY <1>1, <1>2, <1>3
<1>5. TypeOK'
  BY <1>4 DEF Inv, TypeOK, graphVars, passVars, surveyVars
<1>6. /\ \A g \in Generators : Working(g)' = Working(g)
      /\ Behind' = Behind
  BY <1>1, <1>4 DEF Working, Behind, At, Off, st
<1>7. OneWriter'
  BY <1>6 DEF Inv, OneWriter, passVars
<1>8. EdgesFollow'
  BY <1>6, EdgesKept DEF Inv, graphVars
<1> QED  BY <1>5, <1>7, <1>8, Kept DEF graphVars, passVars

\* A generator goes on, ends or dies; the edges are as they were or derived.
LEMMA ProcessStep ==
  ASSUME ConstantsAssumption, Inv, NEW g \in Generators, NEW st \in Generator,
         gen' = [gen EXCEPT ![g] = st],
         flight' \in [Slugs -> Generators \cup {Nobody}],
         UNCHANGED <<docs, meta, mass, passVars, surveyVars>>, loose' \in BOOLEAN,
         st.at \in {"check", "make", "write"} => writer' = g /\ writer \in {Nobody, g},
         st.at \notin {"check", "make", "write"} =>
           st.at # "derive" /\ writer' = IF writer = g THEN Nobody ELSE writer,
         \/ edges' = Contained
         \/ UNCHANGED edges /\ (loose \/ (At(g, "derive") /\ gen[g].moved) => loose')
  PROVE  Inv'
<1>1. gen \in [Generators -> Generator]
  BY DEF Inv, TypeOK
<1>2. /\ gen' \in [Generators -> Generator] /\ gen'[g] = st
      /\ \A h \in Generators \ {g} : gen'[h] = gen[h]
  BY <1>1
<1>3. writer' \in Generators \cup {"pass", Nobody}
  BY DEF Inv, TypeOK
<1>4. edges' \subseteq (Slugs \X Nat) \X (Slugs \X Nat)
  BY ContainedType DEF Inv, TypeOK
<1>5. TypeOK'
  BY <1>2, <1>3, <1>4 DEF Inv, TypeOK, passVars, surveyVars
<1>6. "pass" \notin Generators /\ Nobody \notin Generators \cup {"pass"}
  BY DEF ConstantsAssumption
<1>7. OneWriter'
  <2>1. /\ writer = "pass" <=> pass.at # "off"
        /\ \A h \in Generators : writer = h <=> Working(h)
    BY DEF Inv, OneWriter
  <2>2. \A h \in Generators \ {g} : Working(h)' = Working(h)
    BY <1>2 DEF Working
  <2>3. Working(g)' <=> st.at \in {"check", "make", "write"}
    BY <1>2 DEF Working
  <2>4. UNCHANGED pass
    BY DEF passVars
  <2> QED  BY <1>6, <2>1, <2>2, <2>3, <2>4 DEF OneWriter
<1>8. EdgesFollow'
  <2>1. CASE edges' = Contained
    BY <2>1, EdgesDerived
  <2>2. CASE UNCHANGED edges /\ (loose \/ (At(g, "derive") /\ gen[g].moved) => loose')
    <3>1. Behind /\ ~Behind' => At(g, "derive") /\ gen[g].moved
      BY <1>2 DEF Behind, At
    <3>2. writer' # "pass" => writer # "pass"
      BY <1>6
    <3> QED  BY <2>2, <3>1, <3>2, EdgesKept DEF Inv
  <2> QED  BY <2>1, <2>2
<1> QED  BY <1>5, <1>7, <1>8, Kept DEF passVars

LEMMA GeneratorStep ==
  ASSUME ConstantsAssumption, Inv, NEW g \in Generators,
         \/ Acquire(g) \/ Cached(g) \/ Uncached(g) \/ Make(g) \/ Derive(g)
         \/ GiveUp(g) \/ MakeFails(g) \/ DeriveFails(g) \/ GeneratorCrash(g)
  PROVE  Inv'
<1>1. /\ gen \in [Generators -> Generator] /\ gen[g] \in Generator /\ Off \in Generator
      /\ flight \in [Slugs -> Generators \cup {Nobody}] /\ loose \in BOOLEAN
  BY Typing DEF Inv, TypeOK
<1>2. /\ writer = g <=> Working(g)
      /\ Off.at = "off"
  BY DEF Inv, OneWriter, Off
<1>3. [s \in Slugs |-> IF flight[s] = g THEN Nobody ELSE flight[s]]
        \in [Slugs -> Generators \cup {Nobody}]
  BY <1>1
<1>4. ASSUME NEW label \in {"check", "make", "write"}
      PROVE  /\ [gen[g] EXCEPT !.at = label] \in Generator
             /\ [gen[g] EXCEPT !.at = label].at = label
             /\ [gen EXCEPT ![g].at = label] = [gen EXCEPT ![g] = [gen[g] EXCEPT !.at = label]]
  BY <1>1 DEF Generator
<1>5. CASE Acquire(g)
  BY <1>1, <1>2, <1>4, <1>5, ProcessStep DEF Acquire, Advance, At, graphVars
<1>6. CASE Cached(g)
  BY <1>1, <1>2, <1>3, <1>6, ProcessStep DEF Cached, Exits, At, Working, graphVars
<1>7. CASE Uncached(g)
  BY <1>1, <1>2, <1>4, <1>7, ProcessStep DEF Uncached, Advance, At, Working, graphVars
<1>8. CASE Make(g)
  BY <1>1, <1>2, <1>4, <1>8, ProcessStep DEF Make, Advance, At, Working, graphVars
<1>9. CASE Derive(g)
  BY <1>1, <1>2, <1>3, <1>9, ProcessStep DEF Derive, DeriveDocGraph, Exits, At, Working
<1>10. CASE GiveUp(g)
  BY <1>1, <1>2, <1>3, <1>10, ProcessStep DEF GiveUp, Exits, At, Working, graphVars
<1>11. CASE MakeFails(g)
  BY <1>1, <1>2, <1>3, <1>11, ProcessStep DEF MakeFails, Exits, At, Working, graphVars
<1>12. CASE DeriveFails(g)
  <2>1. gen[g].moved \in BOOLEAN
    BY <1>1 DEF Generator
  <2> QED  BY <1>1, <1>2, <1>3, <1>12, <2>1, ProcessStep DEF DeriveFails, Exits, At, Working
<1>13. CASE GeneratorCrash(g)
  <2>1. gen[g].moved \in BOOLEAN
    BY <1>1 DEF Generator
  <2> QED  BY <1>1, <1>2, <1>3, <1>13, <2>1, ProcessStep DEF GeneratorCrash, Exits, At
<1> QED  BY <1>5, <1>6, <1>7, <1>8, <1>9, <1>10, <1>11, <1>12, <1>13

LEMMA WriteStep ==
  ASSUME ConstantsAssumption, Inv, NEW g \in Generators, Write(g)
  PROVE  Inv'
<1> DEFINE s == gen[g].slug
           st == [gen[g] EXCEPT !.at = "derive", !.moved = Stubs(s) = {}]
<1>1. gen \in [Generators -> Generator] /\ gen[g] \in Generator
  BY DEF Inv, TypeOK
<1>2. s \in Slugs /\ gen[g].at = "write"
  BY <1>1 DEF Generator, Write, At
<1>3. (Stubs(s) = {}) \in BOOLEAN
  OBVIOUS
<1>4. st \in Generator /\ st.at = "derive" /\ (st.moved <=> Stubs(s) = {})
  BY <1>1, <1>3 DEF Generator
<1>5. gen' = [gen EXCEPT ![g] = st]
  BY <1>1 DEF Write
<1> HIDE DEF st
<1>6. /\ gen' \in [Generators -> Generator] /\ gen'[g] = st
      /\ \A h \in Generators \ {g} : gen'[h] = gen[h]
  BY <1>1, <1>4, <1>5
<1>7. docs \subseteq Doc /\ IsFiniteSet(docs) /\ OneLivePerSlug
  BY DEF Inv, TypeOK
<1>8. WriteDoc(s)
  BY DEF Write
<1> HIDE DEF s
<1>9. /\ docs' \subseteq Doc /\ IsFiniteSet(docs') /\ OneLivePerSlug'
      /\ Stubs(s) # {} => \A t : Ids(t)' = Ids(t)
  BY <1>2, <1>7, <1>8, Written
<1>10. UNCHANGED <<edges, meta, loose, mass, writer, pass, hashed, deferred, surveyVars, flight>>
  BY DEF Write, passVars
<1>11. TypeOK'
  BY <1>6, <1>9, <1>10 DEF Inv, TypeOK, surveyVars
<1>12. Working(g) /\ \A h \in Generators : Working(h)' = Working(h)
  BY <1>2, <1>4, <1>6 DEF Working
<1>13. writer = g /\ writer # "pass" /\ pass.at # "drop"
  BY <1>12 DEF Inv, OneWriter, ConstantsAssumption
<1>14. OneWriter'
  BY <1>10, <1>12 DEF Inv, OneWriter
<1>15. EdgesFollow'
  <2>1. ASSUME ~loose, ~Behind' PROVE edges' = Contained'
    <3>1. Stubs(s) # {}
      BY <1>4, <1>6, <2>1 DEF Behind, At
    <3>2. Contained' = Contained
      BY <1>9, <1>10, <3>1, SameEdges
    <3>3. ~Behind
      <4>1. \A h \in Generators : At(h, "derive") => Working(h)
        BY DEF At, Working
      <4>2. \A h \in Generators \ {g} : ~Working(h)
        BY <1>13 DEF Inv, OneWriter
      <4> QED  BY <1>2, <4>1, <4>2 DEF Behind, At
    <3>4. edges = Contained
      BY <1>13, <2>1, <3>3 DEF Inv, EdgesFollow
    <3> QED  BY <1>10, <3>2, <3>4
  <2> QED  BY <1>10, <2>1 DEF EdgesFollow
<1>16. MarkerReady'
  BY <1>10, <1>13 DEF MarkerReady
<1> QED  BY <1>9, <1>11, <1>14, <1>15, <1>16 DEF Inv

-----------------------------------------------------------------------------
(* The steps of the pass. *)

LEMMA GotoType ==
  ASSUME pass \in Pass,
         NEW label \in {"induce", "promote", "derive", "marker", "drop",
                        "subjects", "stubs", "list", "fill", "rederive"},
         Goto(label)
  PROVE  pass' \in Pass /\ pass'.at = label /\ pass'.proposed = pass.proposed
BY DEF Goto, Pass

\* The pass goes on and holds the lock; what it leaves behind it derives later.
LEMMA PassGoesOn ==
  ASSUME Inv, pass.at # "off", UNCHANGED <<gen, writer>>, pass' \in Pass, pass'.at # "off",
         docs' \subseteq Doc, IsFiniteSet(docs'), OneLivePerSlug',
         edges' \subseteq (Slugs \X Nat) \X (Slugs \X Nat),
         mass' \in [Chapters -> {"none", "low", "band", "high", "gone"}],
         meta' \subseteq Subjects, hashed' \subseteq Chapters,
         marker' \in BOOLEAN, fed' \subseteq Chapters, UNCHANGED survey,
         deferred' \subseteq Slugs, UNCHANGED flight, loose' \in BOOLEAN,
         pass'.at = "drop" => ScopePromoted'
  PROVE  Inv'
<1>1. OneWriter' /\ EdgesFollow'
  BY PassWorks
<1>2. TypeOK'
  BY DEF Inv, TypeOK
<1> QED  BY <1>1, <1>2 DEF Inv, MarkerReady

LEMMA InduceStep ==
  ASSUME Inv, Induce
  PROVE  Inv'
<1> DEFINE Masses == {"none", "low", "band", "high", "gone"}
<1>1. pass \in Pass /\ mass \in [Chapters -> Masses]
  BY DEF Inv, TypeOK
<1>2. pass.reads \in SUBSET Chapters
  BY <1>1 DEF Pass
<1>3. mass' \in [Chapters -> Masses]
  <2> PICK born \in [pass.reads -> {"low", "high"}] :
        LET grown == [k \in Chapters |-> IF k \in pass.reads THEN born[k] ELSE mass[k]]
        IN \/ mass' = grown
           \/ \E c \in Chapters \ pass.reads, m \in {"low", "band", "high", "gone"} :
                mass' = [grown EXCEPT ![c] = m]
    BY DEF Induce
  <2> DEFINE grown == [k \in Chapters |-> IF k \in pass.reads THEN born[k] ELSE mass[k]]
  <2>1. grown \in [Chapters -> Masses]
    BY <1>1, <1>2
  <2>2. \/ mass' = grown
        \/ \E c \in Chapters \ pass.reads, m \in {"low", "band", "high", "gone"} :
             mass' = [grown EXCEPT ![c] = m]
    OBVIOUS
  <2> HIDE DEF grown
  <2> QED  BY <2>1, <2>2
<1>4. pass' \in Pass /\ pass'.at = "promote"
  BY <1>1, GotoType DEF Induce
<1>5. UNCHANGED docs /\ OneLivePerSlug'
  BY SameTable DEF Induce, graphVars, Inv
<1> QED
  BY <1>3, <1>4, <1>5, PassGoesOn
     DEF Induce, Inv, TypeOK, graphVars, serverVars, surveyVars

LEMMA PromoteStep ==
  ASSUME ConstantsAssumption, Inv, Promote
  PROVE  Inv'
<1>1. docs \subseteq Doc /\ IsFiniteSet(docs) /\ OneLivePerSlug /\ pass \in Pass
  BY DEF Inv, TypeOK
<1>2. Demoted \in SUBSET docs
  BY DEF Demoted
<1>3. /\ Retired(Demoted) \subseteq Doc /\ IsFiniteSet(Retired(Demoted))
      /\ \A d \in Retired(Demoted) : d.live => d \in docs
  BY <1>1, <1>2, RetiredDocs
<1>4. Promoted \in SUBSET Slugs /\ IsFiniteSet(Promoted) /\ \A s \in Promoted : LiveDocs(s) = {}
  BY FS_Subset DEF Promoted, Slugs, ConstantsAssumption
<1>5. docs' = Retired(Demoted) \cup WithStubs(Promoted)
  BY DEF Promote
<1>6. docs' \subseteq Doc /\ IsFiniteSet(docs') /\ OneLivePerSlug'
  BY <1>1, <1>3, <1>4, <1>5, StubbedTable
<1>7. pass' \in Pass /\ pass'.at = "derive"
  BY <1>1, GotoType DEF Promote
<1> QED
  BY <1>6, <1>7, PassGoesOn DEF Promote, Inv, TypeOK, serverVars, surveyVars

LEMMA FiniteSlugs ==
  ASSUME ConstantsAssumption
  PROVE  IsFiniteSet(Slugs)
<1>1. IsFiniteSet({Hub})
  BY FS_Singleton
<1> QED  BY <1>1, FS_Union DEF ConstantsAssumption, Slugs

LEMMA PromoteScopeStep ==
  ASSUME ConstantsAssumption, Inv, PromoteScope
  PROVE  Inv'
<1>1. docs \subseteq Doc /\ IsFiniteSet(docs) /\ OneLivePerSlug /\ pass \in Pass
  BY DEF Inv, TypeOK
<1>2. Hub \in Slugs /\ Induced \subseteq Slugs /\ Scope(Hub) = Hub
  BY DEF Slugs, Induced, Scope, ConstantsAssumption
<1>3. LiveIn(Hub) = {} => LiveDocs(Hub) = {}
  BY <1>2 DEF LiveIn, LiveDocs
<1>4. ForcePromoted \in SUBSET Slugs /\ \A s \in ForcePromoted : LiveDocs(s) = {}
  BY <1>2, <1>3 DEF ForcePromoted
<1>5. IsFiniteSet(ForcePromoted)
  BY <1>4, FiniteSlugs, FS_Subset
<1>6. docs' = docs \cup WithStubs(ForcePromoted)
  BY DEF PromoteScope
<1>7. /\ docs' \subseteq Doc /\ IsFiniteSet(docs') /\ OneLivePerSlug'
      /\ \A s \in ForcePromoted : LiveDocs(s)' # {}
  BY <1>1, <1>4, <1>5, <1>6, StubbedTable
<1>8. ScopePromoted'
  <2>1. \A d \in docs : d \in docs'
    BY <1>6
  <2>2. \A s : LiveDocs(s) # {} => LiveDocs(s)' # {}
    BY <2>1 DEF LiveDocs
  <2>3. UNCHANGED mass
    BY DEF PromoteScope
  <2>4. \A c \in Induced' : LiveDocs(c)' # {}
    BY <1>7, <2>2, <2>3 DEF ForcePromoted, Induced
  <2>5. LiveIn(Hub)' # {}
    <3>1. CASE LiveIn(Hub) = {}
      <4>1. LiveDocs(Hub)' # {}
        BY <1>7, <3>1 DEF ForcePromoted
      <4> QED  BY <1>2, <4>1 DEF LiveDocs, LiveIn
    <3>2. CASE LiveIn(Hub) # {}
      BY <2>1, <3>2 DEF LiveIn
    <3> QED  BY <3>1, <3>2
  <2> QED  BY <2>4, <2>5 DEF ScopePromoted
<1>9. pass' \in Pass /\ pass'.at = "drop"
  BY <1>1, GotoType DEF PromoteScope
<1> QED
  BY <1>7, <1>8, <1>9, PassGoesOn DEF PromoteScope, Inv, TypeOK, serverVars, surveyVars

LEMMA PromoteSubjectsStep ==
  ASSUME ConstantsAssumption, Inv, PromoteSubjects
  PROVE  Inv'
<1> DEFINE S == {s \in pass.proposed \cup {Hub} : LiveDocs(s) = {}}
<1>1. docs \subseteq Doc /\ IsFiniteSet(docs) /\ OneLivePerSlug /\ pass \in Pass
  BY DEF Inv, TypeOK
<1>2. pass.proposed \subseteq Subjects
  BY <1>1 DEF Pass
<1>3. S \in SUBSET Slugs /\ \A s \in S : LiveDocs(s) = {}
  BY <1>2 DEF Slugs
<1>4. IsFiniteSet(S)
  BY <1>3, FiniteSlugs, FS_Subset
<1>5. docs' = docs \cup WithStubs(S)
  BY DEF PromoteSubjects
<1> HIDE DEF S
<1>6. docs' \subseteq Doc /\ IsFiniteSet(docs') /\ OneLivePerSlug'
  BY <1>1, <1>3, <1>4, <1>5, StubbedTable
<1>7. pass' \in Pass /\ pass'.at = "list"
  BY <1>1, GotoType DEF PromoteSubjects
<1> QED
  BY <1>2, <1>6, <1>7, PassGoesOn
     DEF PromoteSubjects, Inv, TypeOK, serverVars, surveyVars

LEMMA FillStep ==
  ASSUME ConstantsAssumption, Inv, NEW i \in DOMAIN Order, Fill(i) \/ FillFails(i)
  PROVE  Inv'
<1>1. docs \subseteq Doc /\ IsFiniteSet(docs) /\ OneLivePerSlug /\ pass \in Pass
  BY DEF Inv, TypeOK
<1>2. Order[i] \in Slugs
  BY DEF ConstantsAssumption
<1>3. pass.at = "fill" /\ pass' \in Pass /\ pass'.at = "fill"
  BY <1>1 DEF Fill, FillFails, NextStub, Pass
<1>4. CASE Fill(i)
  <2>1. docs' \subseteq Doc /\ IsFiniteSet(docs') /\ OneLivePerSlug'
    BY <1>1, <1>2, <1>4, Written DEF Fill
  <2> QED
    BY <1>3, <1>4, <2>1, PassGoesOn DEF Fill, Inv, TypeOK, serverVars, surveyVars
<1>5. CASE FillFails(i)
  <2>1. UNCHANGED docs /\ OneLivePerSlug'
    BY <1>5, SameTable DEF FillFails, graphVars, Inv
  <2> QED
    BY <1>1, <1>3, <1>5, <2>1, PassGoesOn
       DEF FillFails, Inv, TypeOK, serverVars, surveyVars, graphVars
<1> QED  BY <1>4, <1>5

\* The steps that change no document and go on to a fixed place.
LEMMA ControlStep ==
  ASSUME ConstantsAssumption, Inv,
         PassDerive \/ NoMarker \/ PromoteScopeFails \/ DropMarker \/ NoProposal \/ Filled
  PROVE  Inv'
<1>1. docs \subseteq Doc /\ IsFiniteSet(docs) /\ pass \in Pass
  BY DEF Inv, TypeOK
<1>2. UNCHANGED <<docs, meta>> /\ OneLivePerSlug'
  BY SameTable DEF Inv, PassDerive, NoMarker, PromoteScopeFails, DropMarker, NoProposal, Filled, graphVars
<1>3. pass' \in Pass /\ pass.at # "off" /\ pass'.at \notin {"off", "drop"}
  BY <1>1, GotoType
     DEF PassDerive, NoMarker, PromoteScopeFails, DropMarker, NoProposal, Filled
<1>4. edges' \subseteq (Slugs \X Nat) \X (Slugs \X Nat) /\ loose' \in BOOLEAN
  BY ContainedType DEF Inv, TypeOK, PassDerive, DeriveDocGraph, NoMarker, PromoteScopeFails,
                       DropMarker, NoProposal, Filled, graphVars
<1>5. /\ UNCHANGED <<mass, hashed, deferred, fed, survey, gen, flight, writer>>
      /\ marker' \in BOOLEAN
  BY DEF Inv, TypeOK, PassDerive, NoMarker, PromoteScopeFails, DropMarker, NoProposal, Filled,
         surveyVars, serverVars
<1> QED
  BY <1>1, <1>2, <1>3, <1>4, <1>5, PassGoesOn DEF Inv, TypeOK

LEMMA ProposeStep ==
  ASSUME Inv, NEW S \in SUBSET Subjects, Propose(S)
  PROVE  Inv'
<1>1. pass \in Pass
  BY DEF Inv, TypeOK
<1>2. pass' \in Pass /\ pass'.at \notin {"off", "drop"} /\ pass.at # "off"
  BY <1>1 DEF Propose, Pass
<1>3. UNCHANGED docs /\ OneLivePerSlug' /\ hashed' \subseteq Chapters
  BY SameTable DEF Propose, graphVars, Inv, Induced
<1> QED
  BY <1>2, <1>3, PassGoesOn DEF Propose, Inv, TypeOK, graphVars, serverVars, surveyVars

LEMMA ListStep ==
  ASSUME ConstantsAssumption, Inv, ListStubs
  PROVE  Inv'
<1>1. pass \in Pass /\ deferred \subseteq Slugs
  BY DEF Inv, TypeOK
<1>2. \A i \in DOMAIN Order : Order[i] \in Slugs
  BY DEF ConstantsAssumption
<1>3. PICK waiting \in SUBSET DOMAIN Order, now \in SUBSET DOMAIN Order :
        /\ pass' = [pass EXCEPT !.at = "fill", !.queue = now]
        /\ deferred' = deferred \cup ({Order[i] : i \in waiting \ now} \ Chapters)
  <2> DEFINE waiting == {i \in DOMAIN Order : Stubs(Order[i]) # {}}
             now == {i \in waiting : Cardinality({j \in waiting : j < i}) < Budget}
  <2>1. /\ pass' = [pass EXCEPT !.at = "fill", !.queue = now]
        /\ deferred' = deferred \cup ({Order[i] : i \in waiting \ now} \ Chapters)
    BY DEF ListStubs
  <2>2. waiting \in SUBSET DOMAIN Order /\ now \in SUBSET DOMAIN Order
    OBVIOUS
  <2> HIDE DEF waiting, now
  <2> QED  BY <2>1, <2>2
<1>4. pass' \in Pass /\ pass'.at = "fill"
  BY <1>1, <1>3 DEF Pass
<1>5. deferred' \subseteq Slugs
  BY <1>1, <1>2, <1>3
<1>6. UNCHANGED docs /\ OneLivePerSlug'
  BY SameTable DEF ListStubs, graphVars, Inv
<1> QED
  BY <1>4, <1>5, <1>6, PassGoesOn DEF ListStubs, Inv, TypeOK, graphVars, serverVars, surveyVars

\* The pass takes the lock, releases it with the edges derived, or dies.
LEMMA PassStartStep ==
  ASSUME ConstantsAssumption, Inv, PassStart
  PROVE  Inv'
<1>1. Idle \in Pass /\ fed \subseteq Chapters /\ pass.at = "off" /\ writer = Nobody
  BY Typing DEF Inv, TypeOK, PassStart
<1>2. pass' \in Pass /\ pass'.at = "induce"
  BY <1>1 DEF PassStart, Pass, Idle
<1>3. TypeOK'
  BY <1>2 DEF PassStart, Inv, TypeOK, graphVars, surveyVars, serverVars
<1>4. OneWriter'
  BY <1>1, <1>2 DEF PassStart, Inv, OneWriter, Working, serverVars, ConstantsAssumption
<1>5. EdgesFollow'
  BY DEF PassStart, EdgesFollow
<1> QED  BY <1>2, <1>3, <1>4, <1>5, Kept DEF PassStart, graphVars

LEMMA PassStopStep ==
  ASSUME ConstantsAssumption, Inv, PassEnds \/ RederiveFails \/ PassCrash
  PROVE  Inv'
<1>1. Idle \in Pass /\ Idle.at = "off" /\ pass.at # "off"
  BY Typing DEF PassEnds, RederiveFails, PassCrash, Idle
<1>2. /\ writer' = Nobody /\ pass' = Idle
      /\ UNCHANGED <<docs, meta, hashed, deferred, marker, fed, survey, gen, flight, mass>>
  BY DEF PassEnds, RederiveFails, PassCrash, surveyVars, serverVars
<1>3. edges' \subseteq (Slugs \X Nat) \X (Slugs \X Nat) /\ loose' \in BOOLEAN
  BY ContainedType DEF PassEnds, RederiveFails, PassCrash, DeriveDocGraph, Inv, TypeOK
<1>4. TypeOK'
  BY <1>1, <1>2, <1>3 DEF Inv, TypeOK
<1>5. OneWriter'
  BY <1>1, <1>2 DEF Inv, OneWriter, Working, ConstantsAssumption
<1>6. EdgesFollow'
  BY <1>2, EdgesDerived DEF PassEnds, RederiveFails, PassCrash, DeriveDocGraph, EdgesFollow
<1> QED  BY <1>1, <1>2, <1>4, <1>5, <1>6, Kept

-----------------------------------------------------------------------------
(* The theorems. *)

LEMMA Initially ==
  ASSUME ConstantsAssumption, Init
  PROVE  Inv
<1>1. Off \in Generator /\ Idle \in Pass /\ Off.at = "off" /\ Idle.at = "off"
  BY Typing DEF Off, Idle
<1>2. TypeOK
  BY <1>1 DEF Init, TypeOK
<1>3. IsFiniteSet(docs)
  BY FS_EmptySet DEF Init
<1>4. OneLivePerSlug /\ MarkerReady
  BY <1>1 DEF Init, OneLivePerSlug, MarkerReady
<1>5. OneWriter
  BY <1>1 DEF Init, OneWriter, Working, ConstantsAssumption
<1>6. EdgesFollow
  BY DEF Init, EdgesFollow, Contained, Pairs, LiveDocs
<1> QED  BY <1>2, <1>3, <1>4, <1>5, <1>6 DEF Inv

LEMMA ServerStep ==
  ASSUME ConstantsAssumption, Inv, NEW s \in Slugs, Read(s) \/ Regenerate(s) \/ RunByHand(s)
  PROVE  Inv'
<1>1. flight \in [Slugs -> Generators \cup {Nobody}]
  BY DEF Inv, TypeOK
<1>2. PICK force \in BOOLEAN : Runs(s, force)
  BY DEF Read, Regenerate, RunByHand, Spawn
<1>3. NewProcess \in Generators
  BY <1>2 DEF Runs, NewProcess, Free
<1>4. flight' \in [Slugs -> Generators \cup {Nobody}]
  BY <1>1, <1>3 DEF Read, Regenerate, RunByHand, Spawn
<1> QED
  BY <1>2, <1>4, QueueStep DEF Read, Regenerate, RunByHand, Spawn

LEMMA SurveyStep ==
  ASSUME ConstantsAssumption, Inv,
         (\E c \in Chapters : Feed(c)) \/ WriteCorpusPendingMarker \/ ServerRestart
  PROVE  Inv'
<1>1. UNCHANGED <<docs, edges, meta, loose, mass, pass, gen, writer, hashed, deferred>>
  BY DEF Feed, WriteCorpusPendingMarker, ServerRestart, graphVars, passVars, serverVars
<1>2. /\ marker' \in BOOLEAN /\ fed' \subseteq Chapters /\ survey' \in BOOLEAN
      /\ flight' \in [Slugs -> Generators \cup {Nobody}]
  BY DEF Feed, WriteCorpusPendingMarker, ServerRestart, surveyVars, serverVars, Inv, TypeOK
<1>3. TypeOK'
  BY <1>1, <1>2 DEF Inv, TypeOK
<1> QED  BY <1>1, <1>3, OutsideStep

LEMMA StutterStep ==
  ASSUME Inv, UNCHANGED vars
  PROVE  Inv'
<1>1. UNCHANGED <<graphVars, passVars, surveyVars, serverVars, mass, writer>>
  BY DEF vars
<1>2. TypeOK'
  BY <1>1 DEF Inv, TypeOK, graphVars, passVars, surveyVars, serverVars
<1> QED  BY <1>1, <1>2, OutsideStep DEF graphVars, passVars, serverVars

LEMMA NextStep ==
  ASSUME ConstantsAssumption, Inv, [Next]_vars
  PROVE  Inv'
<1>1. CASE \E c \in Chapters : Feed(c)
  BY <1>1, SurveyStep
<1>2. CASE WriteCorpusPendingMarker \/ ServerRestart
  BY <1>2, SurveyStep
<1>3. CASE PassStart
  BY <1>3, PassStartStep
<1>4. CASE PassStep
  BY <1>4, InduceStep, PromoteStep, ControlStep, PromoteScopeStep, ProposeStep,
     PromoteSubjectsStep, ListStep, FillStep, PassStopStep DEF PassStep
<1>5. CASE PromoteScopeFails
  BY <1>5, ControlStep
<1>6. CASE RederiveFails \/ PassCrash
  BY <1>6, PassStopStep
<1>7. CASE \E s \in Slugs : Read(s) \/ Regenerate(s) \/ RunByHand(s)
  BY <1>7, ServerStep
<1>8. CASE \E g \in Generators :
             Generate(g) \/ GiveUp(g) \/ MakeFails(g) \/ DeriveFails(g) \/ GeneratorCrash(g)
  BY <1>8, GeneratorStep, WriteStep DEF Generate
<1>9. CASE UNCHANGED vars
  BY <1>9, StutterStep
<1> QED  BY <1>1, <1>2, <1>3, <1>4, <1>5, <1>6, <1>7, <1>8, <1>9 DEF Next

\* The invariant holds in every behaviour: who holds the lock, one live document
\* per slug, and edges that lag only while their writer is at work.
THEOREM Invariance == Spec => []Inv
<1>1. Init => Inv
  BY ConstantsAssumption, Initially
<1>2. Inv /\ [Next]_vars => Inv'
  BY ConstantsAssumption, NextStep
<1> QED  BY <1>1, <1>2, PTL DEF Spec

\* Every variable keeps its type.
THEOREM TypeCorrect == Spec => []TypeOK
<1>1. Inv => TypeOK
  BY DEF Inv
<1> QED  BY <1>1, Invariance, PTL

\* A slug never has two live documents (doc-writer.ts, corpus-promoter.ts).
THEOREM OneDocument == Spec => []OneLivePerSlug
<1>1. Inv => OneLivePerSlug
  BY DEF Inv
<1> QED  BY <1>1, Invariance, PTL

\* With the lock free and no writer lost, the edges are those of the live
\* documents (doc-graph.ts after every pass and every generate-doc).
THEOREM EdgesMatch == Spec => []GraphMatchesDocs
<1>1. Inv => GraphMatchesDocs
  <2> SUFFICES ASSUME Inv, writer = Nobody, ~loose PROVE edges = Contained
    BY DEF GraphMatchesDocs
  <2>1. writer # "pass" /\ \A g \in Generators : writer # g
    BY ConstantsAssumption DEF ConstantsAssumption
  <2>2. \A g \in Generators : ~Working(g)
    BY <2>1 DEF Inv, OneWriter
  <2>3. ~Behind
    BY <2>2 DEF Behind, At, Working
  <2> QED  BY <2>1, <2>3 DEF Inv, EdgesFollow
<1> QED  BY <1>1, Invariance, PTL

\* Which steps move the marker, and which move documents.
LEMMA MarkerSteps ==
  ASSUME [Next]_vars, marker, ~marker'
  PROVE  DropMarker
<1>1. CASE (\E c \in Chapters : Feed(c)) \/ WriteCorpusPendingMarker \/ ServerRestart
  BY <1>1 DEF Feed, WriteCorpusPendingMarker, ServerRestart, surveyVars
<1>2. CASE PassStart \/ PromoteScopeFails \/ RederiveFails \/ PassCrash
  BY <1>2 DEF PassStart, PromoteScopeFails, RederiveFails, PassCrash, surveyVars
<1>3. CASE PassStep
  BY <1>3 DEF PassStep, Induce, Promote, PassDerive, NoMarker, PromoteScope, NoProposal, Propose,
              PromoteSubjects, ListStubs, Fill, FillFails, Filled, PassEnds, surveyVars
<1>4. CASE \E s \in Slugs : Read(s) \/ Regenerate(s) \/ RunByHand(s)
  BY <1>4 DEF Read, Regenerate, RunByHand, Spawn, surveyVars
<1>5. CASE \E g \in Generators :
             Generate(g) \/ GiveUp(g) \/ MakeFails(g) \/ DeriveFails(g) \/ GeneratorCrash(g)
  BY <1>5 DEF Generate, Acquire, Cached, Uncached, Make, Write, Derive, GiveUp, MakeFails,
              DeriveFails, GeneratorCrash, surveyVars
<1>6. CASE UNCHANGED vars
  BY <1>6 DEF vars, surveyVars
<1> QED  BY <1>1, <1>2, <1>3, <1>4, <1>5, <1>6 DEF Next

LEMMA DocSteps ==
  ASSUME [Next]_vars
  PROVE  \/ UNCHANGED docs
         \/ Promote \/ PromoteScope \/ PromoteSubjects
         \/ \E i \in DOMAIN Order : Fill(i)
         \/ \E g \in Generators : Write(g)
<1>1. CASE (\E c \in Chapters : Feed(c)) \/ WriteCorpusPendingMarker \/ ServerRestart
  BY <1>1 DEF Feed, WriteCorpusPendingMarker, ServerRestart, graphVars
<1>2. CASE PassStart \/ PromoteScopeFails \/ RederiveFails \/ PassCrash
  BY <1>2 DEF PassStart, PromoteScopeFails, RederiveFails, PassCrash, graphVars
<1>3. CASE PassStep
  BY <1>3 DEF PassStep, Induce, PassDerive, NoMarker, DropMarker, NoProposal, Propose,
              ListStubs, FillFails, Filled, PassEnds, graphVars
<1>4. CASE \E s \in Slugs : Read(s) \/ Regenerate(s) \/ RunByHand(s)
  BY <1>4 DEF Read, Regenerate, RunByHand, Spawn, graphVars
<1>5. CASE \E g \in Generators :
             Generate(g) \/ GiveUp(g) \/ MakeFails(g) \/ DeriveFails(g) \/ GeneratorCrash(g)
  BY <1>5 DEF Generate, Acquire, Cached, Uncached, Make, Derive, GiveUp, MakeFails,
              DeriveFails, GeneratorCrash, graphVars
<1>6. CASE UNCHANGED vars
  BY <1>6 DEF vars, graphVars
<1> QED  BY <1>1, <1>2, <1>3, <1>4, <1>5, <1>6 DEF Next

\* Any write leaves a text of every slug that had one.
LEMMA TextWritten ==
  ASSUME Inv, NEW s \in Slugs, WriteDoc(s), NEW t \in Slugs, Readable(t)
  PROVE  \E d \in docs' : d.live /\ d.filled /\ d.slug = t
<1>1. /\ \E d \in docs' : d.live /\ d.filled /\ d.slug = s
      /\ \A d \in docs : d.slug # s => d \in docs'
  BY Written DEF Inv, TypeOK
<1>2. PICK d \in docs : d.live /\ d.filled /\ d.slug = t
  BY DEF Readable, LiveDocs
<1> QED  BY <1>1, <1>2

LEMMA TextKept ==
  ASSUME ConstantsAssumption, Inv, [Next]_vars, NEW s \in Slugs, Readable(s)
  PROVE  \/ \E d \in docs' : d.live /\ d.filled /\ d.slug = s
         \/ s \in Chapters /\ mass[s] = "low"
<1>1. PICK d \in docs : d.live /\ d.filled /\ d.slug = s
  BY DEF Readable, LiveDocs
<1>2. CASE UNCHANGED docs \/ PromoteScope \/ PromoteSubjects
  BY <1>1, <1>2 DEF PromoteScope, PromoteSubjects
<1>3. CASE Promote
  <2>1. docs \ Demoted \subseteq docs'
    BY <1>3 DEF Promote, Retired
  <2> QED  BY <1>1, <2>1 DEF Demoted
<1>4. CASE \E i \in DOMAIN Order : Fill(i)
  BY <1>4, TextWritten DEF Fill, ConstantsAssumption
<1>5. CASE \E g \in Generators : Write(g)
  <2>1. PICK g \in Generators : Write(g)
    BY <1>5
  <2>2. gen[g].slug \in Slugs
    BY DEF Inv, TypeOK, Generator
  <2> QED  BY <2>1, <2>2, TextWritten DEF Write
<1> QED  BY <1>2, <1>3, <1>4, <1>5, DocSteps

\* A text stays until its successor is there or its schema has sunk
\* (doc-writer.ts, corpus-promoter.ts).
THEOREM TextsStay == Spec => TextStays
<1>1. Inv /\ [Next]_vars =>
        [\A s \in Slugs :
           Readable(s) => \/ \E d \in docs' : d.live /\ d.filled /\ d.slug = s
                          \/ s \in Chapters /\ mass[s] = "low"]_vars
  BY ConstantsAssumption, TextKept
<1> QED  BY <1>1, Invariance, PTL DEF Spec, TextStays

\* The marker of a survey is cleared only over a promoted scope
\* (run-sleep-pass.ts, T-32-MARK).
THEOREM MarkerKept == Spec => MarkerHonoured
<1>1. Inv /\ [Next]_vars =>
        [marker /\ ~marker' =>
           /\ \A c \in Induced : LiveDocs(c) # {}
           /\ LiveIn(Hub) # {}]_vars
  BY MarkerSteps DEF Inv, MarkerReady, ScopePromoted, DropMarker
<1> QED  BY <1>1, Invariance, PTL DEF Spec, MarkerHonoured
=============================================================================
