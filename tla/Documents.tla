----------------------------- MODULE Documents ------------------------------
(***************************************************************************)
(* The generated documents of one project: its hub, its subjects and the   *)
(* chapters of its schemas.  A document is a node; it starts as an empty    *)
(* stub and is filled later.  Four kinds of process touch them:            *)
(*                                                                         *)
(*   - the sleep pass promotes schemas, honours the marker a survey left,  *)
(*     proposes subjects, fills some stubs and derives the edges           *)
(*     (run-sleep-pass.ts, corpus-promoter.ts, corpus-generator.ts);       *)
(*   - a generator, `recense generate-doc`, writes one document on demand  *)
(*     (generate-doc-cli.ts, doc-writer.ts);                               *)
(*   - the viz server spawns generators for readers (viz/server.ts);       *)
(*   - `recense ingest-project` feeds a survey and leaves the marker       *)
(*     without the write lock (ingest-project-cli.ts).                     *)
(*                                                                         *)
(* The write lock is the one Lockfile describes, exclusive here.           *)
(***************************************************************************)
EXTENDS Integers, Sequences, FiniteSets

CONSTANTS
  Hub,         \* slug of the hub, which is the project's scope
  Subjects,    \* slugs of the form scope:name
  Chapters,    \* slugs that are ids of schemas
  Order,       \* all slugs as the filling loop sorts them: hub, subjects, chapters
  SchemasOf,   \* the schemas the model groups under a subject
  Exhaust,     \* chapters whose label is an exhaust theme
  Generators,  \* generate-doc processes
  Nobody,
  Budget,      \* corpusGenMax
  MaxSurveys, MaxChanges, MaxClicks, MaxFails, MaxCrashes  \* bounds

Slugs == {Hub} \cup Subjects \cup Chapters

ASSUME ConstantsAssumption ==
  /\ IsFiniteSet(Subjects) /\ IsFiniteSet(Chapters)
  /\ Hub \notin Subjects \cup Chapters /\ Subjects \cap Chapters = {}
  /\ Order \in Seq(Slugs)
  /\ SchemasOf \in [Subjects -> SUBSET Chapters]
  /\ Exhaust \subseteq Chapters
  /\ "pass" \notin Generators /\ Nobody \notin Generators \cup {"pass"}
  /\ Budget \in Nat \ {0}

VARIABLES
  docs,     \* the doc nodes
  edges,    \* doc_containment, as pairs of node ids
  mass,     \* of each schema, against the water marks; noise counts as low
  meta,     \* subjects with a subject-schema-ids row
  hashed,   \* the schemas of the last successful proposal (its input hash)
  marker,   \* pending-corpus-promotion
  fed,      \* schemas whose facts a survey fed and no pass has digested
  survey,   \* ingest-project: fed its episodes, its marker to come
  deferred, \* pending-subject-doc-gen
  writer,   \* holder of the write lock
  pass,     \* the sleep pass
  gen,      \* each generator
  flight,   \* the server's inFlightSlugs
  loose,    \* history: a writer left ids changed and the edges not derived
  changes, clicks, fails, crashes, surveys

graphVars == <<docs, edges, meta, loose>>
passVars  == <<hashed, deferred, pass>>
surveyVars == <<marker, fed, survey, surveys>>
serverVars == <<gen, flight, clicks>>
faultVars == <<fails, crashes>>
vars == <<graphVars, passVars, surveyVars, serverVars, faultVars, mass, writer, changes>>

Doc == [slug : Slugs, n : Nat \ {0}, live : BOOLEAN, filled : BOOLEAN]

Pass ==
  [at : {"off", "induce", "promote", "derive", "marker", "drop",
         "subjects", "stubs", "list", "fill", "rederive"},
   reads : SUBSET Chapters, proposed : SUBSET Subjects, queue : SUBSET (DOMAIN Order)]

Generator ==
  [at : {"off", "queued", "check", "make", "write", "derive"},
   slug : Slugs, force : BOOLEAN, moved : BOOLEAN]

Induced == {c \in Chapters : mass[c] \in {"low", "band", "high"}}

TypeOK ==
  /\ docs \subseteq Doc
  /\ edges \subseteq (Slugs \X Nat) \X (Slugs \X Nat)
  /\ mass \in [Chapters -> {"none", "low", "band", "high", "gone"}]
  /\ meta \subseteq Subjects /\ hashed \subseteq Chapters
  /\ marker \in BOOLEAN /\ fed \subseteq Chapters /\ survey \in BOOLEAN
  /\ deferred \subseteq Slugs
  /\ writer \in Generators \cup {"pass", Nobody}
  /\ pass \in Pass
  /\ gen \in [Generators -> Generator]
  /\ flight \in [Slugs -> Generators \cup {Nobody}]
  /\ loose \in BOOLEAN

Off == [at |-> "off", slug |-> Hub, force |-> FALSE, moved |-> FALSE]
Idle == [at |-> "off", reads |-> {}, proposed |-> {}, queue |-> {}]

Init ==
  /\ docs = {} /\ edges = {} /\ meta = {} /\ loose = FALSE
  /\ mass = [c \in Chapters |-> "none"]
  /\ hashed = {} /\ deferred = {} /\ pass = Idle /\ writer = Nobody
  /\ marker = FALSE /\ fed = {} /\ survey = FALSE /\ surveys = 0
  /\ gen = [g \in Generators |-> Off]
  /\ flight = [s \in Slugs |-> Nobody]
  /\ changes = 0 /\ clicks = 0 /\ fails = 0 /\ crashes = 0

-----------------------------------------------------------------------------
(* The doc table. *)

LiveDocs(s) == {d \in docs : d.live /\ d.slug = s}
Stubs(s) == {d \in LiveDocs(s) : ~d.filled}
Readable(s) == \E d \in LiveDocs(s) : d.filled

\* node_scope.scope of a document: the project, or a chapter's own schema.
Scope(s) == IF s \in Chapters THEN s ELSE Hub

LiveIn(scope) == {d \in docs : d.live /\ Scope(d.slug) = scope}

Fresh(s, text) ==
  [slug |-> s, n |-> Cardinality({d \in docs : d.slug = s}) + 1, live |-> TRUE, filled |-> text]

WithStubs(S) == {Fresh(s, FALSE) : s \in S}

\* The table with the documents of D tombstoned.
Retired(D) == (docs \ D) \cup {[d EXCEPT !.live = FALSE] : d \in D}

\* Fault: a stub is retired and its text gets a node of its own (BUG-2c).
WriteDocAnew(s) ==
  docs' = Retired(LiveDocs(s)) \cup {Fresh(s, TRUE)}

\* Fault: the document that is there is not looked for.
WriteDocBlindly(s) == docs' = docs \cup {Fresh(s, TRUE)}

\* One transaction: a stub is filled in place, a text is retired for its
\* successor, and a slug without a document gets one.
WriteDoc(s) ==
  \/ LiveDocs(s) = {} /\ docs' = docs \cup {Fresh(s, TRUE)}
  \/ \E d \in LiveDocs(s) :
       \/ ~d.filled /\ docs' = (docs \ {d}) \cup {[d EXCEPT !.filled = TRUE]}
       \/ d.filled /\ docs' = Retired({d}) \cup {Fresh(s, TRUE)}

Id(d) == <<d.slug, d.n>>

Pairs(S, T) == {<<Id(d), Id(e)>> : d \in UNION {LiveDocs(s) : s \in S},
                                   e \in UNION {LiveDocs(t) : t \in T}}

\* What deriveDocGraph writes: hub over subjects, subject over chapters, for
\* subjects whose schemas are on record.
Contained ==
  Pairs({Hub}, meta) \cup UNION {Pairs({s}, SchemasOf[s]) : s \in meta}

DeriveDocGraph == edges' = Contained /\ loose' = FALSE

-----------------------------------------------------------------------------
(* A survey: the episodes first, the marker last, and no lock. *)

Feed(c) ==
  /\ ~survey /\ surveys < MaxSurveys /\ mass[c] = "none" /\ c \notin fed
  /\ fed' = fed \cup {c} /\ survey' = TRUE /\ surveys' = surveys + 1
  /\ UNCHANGED <<graphVars, passVars, serverVars, faultVars, mass, writer, changes, marker>>

WriteCorpusPendingMarker ==
  /\ survey
  /\ marker' = TRUE /\ survey' = FALSE
  /\ UNCHANGED <<graphVars, passVars, serverVars, faultVars, mass, writer, changes, fed, surveys>>

-----------------------------------------------------------------------------
(* The sleep pass. *)

Goto(label) == pass' = [pass EXCEPT !.at = label]

PassStart ==
  /\ writer = Nobody /\ pass.at = "off"
  /\ writer' = "pass"
  /\ pass' = [Idle EXCEPT !.at = "induce", !.reads = fed]
  /\ UNCHANGED <<graphVars, hashed, deferred, surveyVars, serverVars, faultVars, mass, changes>>

\* Induction: facts the pass has read give their schema members; other traffic
\* brings a schema, moves it across a water mark or erodes it to a tombstone.
Induce ==
  /\ pass.at = "induce"
  /\ \E born \in [pass.reads -> {"low", "high"}] :
       LET grown == [k \in Chapters |-> IF k \in pass.reads THEN born[k] ELSE mass[k]]
       IN \/ mass' = grown /\ UNCHANGED changes
          \/ \E c \in Chapters \ pass.reads, m \in {"low", "band", "high", "gone"} :
               /\ changes < MaxChanges /\ changes' = changes + 1
               /\ mass[c] \notin {m, "gone"} /\ (m = "gone" => c \in Induced)
               /\ mass' = [grown EXCEPT ![c] = m]
  /\ fed' = fed \ pass.reads
  /\ Goto("promote")
  /\ UNCHANGED <<graphVars, hashed, deferred, marker, survey, surveys, serverVars, faultVars, writer>>

\* CorpusPromoter.promote: below the low mark a chapter loses its document, at
\* the high mark it gets a stub; between them it keeps what it has.
Demoted == {d \in docs : d.live /\ d.slug \in Chapters /\ mass[d.slug] = "low"}

Promoted == {c \in Chapters \ Exhaust : mass[c] = "high" /\ LiveDocs(c) = {}}

Promote ==
  /\ pass.at = "promote"
  /\ docs' = Retired(Demoted) \cup WithStubs(Promoted)
  /\ Goto("derive")
  /\ UNCHANGED <<edges, meta, loose, hashed, deferred, surveyVars, serverVars, faultVars, mass, writer, changes>>

\* Phase C ends with the edges.
PassDerive ==
  /\ pass.at = "derive"
  /\ DeriveDocGraph
  /\ Goto("marker")
  /\ UNCHANGED <<docs, meta, hashed, deferred, surveyVars, serverVars, faultVars, mass, writer, changes>>

NoMarker ==
  /\ pass.at = "marker" /\ ~marker
  /\ Goto("subjects")
  /\ UNCHANGED <<graphVars, hashed, deferred, surveyVars, serverVars, faultVars, mass, writer, changes>>

\* promoteScope: every schema with a member in scope gets a stub whatever its
\* mass, and the hub does unless some document already has the scope.
ForcePromoted ==
  {c \in Induced : LiveDocs(c) = {}} \cup (IF LiveIn(Hub) = {} THEN {Hub} ELSE {})

PromoteScope ==
  /\ pass.at = "marker" /\ marker
  /\ docs' = docs \cup WithStubs(ForcePromoted)
  /\ Goto("drop")
  /\ UNCHANGED <<edges, meta, loose, hashed, deferred, surveyVars, serverVars, faultVars, mass, writer, changes>>

\* Fault: the marker is cleared although the promotion threw.
PromoteScopeFailsForGood ==
  /\ pass.at = "marker" /\ marker /\ fails < MaxFails
  /\ fails' = fails + 1
  /\ Goto("drop")
  /\ UNCHANGED <<graphVars, hashed, deferred, surveyVars, serverVars, crashes, mass, writer, changes>>

\* The promotion throws: the marker stays for the next pass.
PromoteScopeFails ==
  /\ pass.at = "marker" /\ marker /\ fails < MaxFails
  /\ fails' = fails + 1
  /\ Goto("subjects")
  /\ UNCHANGED <<graphVars, hashed, deferred, surveyVars, serverVars, crashes, mass, writer, changes>>

DropMarker ==
  /\ pass.at = "drop"
  /\ marker' = FALSE
  /\ Goto("subjects")
  /\ UNCHANGED <<graphVars, hashed, deferred, fed, survey, surveys, serverVars, faultVars, mass, writer, changes>>

\* promoteSubjects makes no call: no schema, gates closed, or the same schemas
\* as last time; a call that fails is logged.
NoProposal ==
  /\ pass.at = "subjects"
  /\ Goto("list")
  /\ UNCHANGED <<graphVars, hashed, deferred, surveyVars, serverVars, faultVars, mass, writer, changes>>

\* The hash is on disk before the stubs are.
Propose(S) ==
  /\ pass.at = "subjects" /\ Induced # {} /\ Induced # hashed
  /\ hashed' = Induced
  /\ pass' = [pass EXCEPT !.at = IF S = {} THEN "list" ELSE "stubs", !.proposed = S]
  /\ UNCHANGED <<graphVars, deferred, surveyVars, serverVars, faultVars, mass, writer, changes>>

PromoteSubjects ==
  /\ pass.at = "stubs"
  /\ docs' = docs \cup WithStubs({s \in pass.proposed \cup {Hub} : LiveDocs(s) = {}})
  /\ meta' = meta \cup pass.proposed
  /\ Goto("list")
  /\ UNCHANGED <<edges, loose, hashed, deferred, surveyVars, serverVars, faultVars, mass, writer, changes>>

\* generateCorpusDocs: the first stubs of the order are tried, hubs and
\* subjects among the others are marked as deferred.
ListStubs ==
  /\ pass.at = "list"
  /\ LET waiting == {i \in DOMAIN Order : Stubs(Order[i]) # {}}
         now == {i \in waiting : Cardinality({j \in waiting : j < i}) < Budget}
     IN /\ pass' = [pass EXCEPT !.at = "fill", !.queue = now]
        /\ deferred' = deferred \cup ({Order[i] : i \in waiting \ now} \ Chapters)
  /\ UNCHANGED <<graphVars, hashed, surveyVars, serverVars, faultVars, mass, writer, changes>>

\* The stub at place i of the order is the next to try.
NextStub(i) ==
  /\ pass.at = "fill" /\ i \in pass.queue /\ \A j \in pass.queue : i <= j
  /\ pass' = [pass EXCEPT !.queue = @ \ {i}]

\* Fault: a chapter whose schema has sunk a little is no longer filled.
FillableAbove(s) ==
  /\ s \in Chapters => mass[s] = "high"
  /\ s \in Subjects => s \in meta

\* A chapter needs its schema, a subject the record of its schemas.
Fillable(s) ==
  /\ s \in Chapters => mass[s] \in {"low", "band", "high"}
  /\ s \in Subjects => s \in meta

Fill(i) ==
  /\ NextStub(i) /\ Fillable(Order[i])
  /\ WriteDoc(Order[i])
  /\ deferred' = deferred \ {Order[i]}
  /\ UNCHANGED <<edges, meta, loose, hashed, surveyVars, serverVars, faultVars, mass, writer, changes>>

FillFails(i) ==
  /\ NextStub(i)
  /\ IF Fillable(Order[i]) THEN fails < MaxFails /\ fails' = fails + 1 ELSE UNCHANGED fails
  /\ UNCHANGED <<graphVars, hashed, deferred, surveyVars, serverVars, crashes, mass, writer, changes>>

Filled ==
  /\ pass.at = "fill" /\ pass.queue = {}
  /\ Goto("rederive")
  /\ UNCHANGED <<graphVars, hashed, deferred, surveyVars, serverVars, faultVars, mass, writer, changes>>

PassEnds ==
  /\ pass.at = "rederive"
  /\ DeriveDocGraph
  /\ writer' = Nobody /\ pass' = Idle
  /\ UNCHANGED <<docs, meta, hashed, deferred, surveyVars, serverVars, faultVars, mass, changes>>

\* The last derivation throws, which is logged: the edges lag until the next one.
RederiveFails ==
  /\ pass.at = "rederive" /\ fails < MaxFails
  /\ fails' = fails + 1 /\ loose' = TRUE
  /\ writer' = Nobody /\ pass' = Idle
  /\ UNCHANGED <<docs, edges, meta, hashed, deferred, surveyVars, serverVars, crashes, mass, changes>>

\* The machine sleeps, the process is killed: the lock is reclaimed later.
PassCrash ==
  /\ pass.at # "off" /\ crashes < MaxCrashes
  /\ crashes' = crashes + 1 /\ loose' = TRUE
  /\ writer' = Nobody /\ pass' = Idle
  /\ UNCHANGED <<docs, edges, meta, hashed, deferred, surveyVars, serverVars, fails, mass, changes>>

-----------------------------------------------------------------------------
(* The server and the generators it spawns. *)

\* A process that does not run yet; they are all alike.
Free == {g \in Generators : gen[g] = Off}
NewProcess == CHOOSE g \in Free : TRUE

Runs(s, force) ==
  /\ Free # {} /\ clicks < MaxClicks
  /\ gen' = [gen EXCEPT ![NewProcess] = [at |-> "queued", slug |-> s, force |-> force, moved |-> FALSE]]
  /\ clicks' = clicks + 1

Spawn(s, force) ==
  /\ flight[s] = Nobody
  /\ Runs(s, force)
  /\ flight' = [flight EXCEPT ![s] = NewProcess]
  /\ UNCHANGED <<graphVars, passVars, surveyVars, faultVars, mass, writer, changes>>

\* GET /doc: only a slug that has no text yet is generated.
Read(s) == ~Readable(s) /\ Spawn(s, FALSE)

\* POST /doc/generate.
Regenerate(s) == Spawn(s, TRUE)

\* From the command line, whatever the server has in flight.
RunByHand(s) ==
  /\ Runs(s, FALSE)
  /\ UNCHANGED <<graphVars, passVars, surveyVars, faultVars, mass, writer, changes, flight>>

\* The server forgets what is in flight; the detached generators go on.
ServerRestart ==
  /\ crashes < MaxCrashes /\ \E s \in Slugs : flight[s] # Nobody
  /\ crashes' = crashes + 1
  /\ flight' = [s \in Slugs |-> Nobody]
  /\ UNCHANGED <<graphVars, passVars, surveyVars, fails, gen, clicks, mass, writer, changes>>

At(g, label) == gen[g].at = label
Advance(g, label) == gen' = [gen EXCEPT ![g].at = label] /\ UNCHANGED flight

\* 'close' reaches the server that spawned the process.
Exits(g) ==
  /\ gen' = [gen EXCEPT ![g] = Off]
  /\ flight' = [s \in Slugs |-> IF flight[s] = g THEN Nobody ELSE flight[s]]

Acquire(g) ==
  /\ At(g, "queued") /\ writer = Nobody
  /\ writer' = g
  /\ Advance(g, "check")
  /\ UNCHANGED <<graphVars, passVars, surveyVars, faultVars, clicks, mass, changes>>

\* The lock stayed busy for ten minutes.
GiveUp(g) ==
  /\ At(g, "queued") /\ writer # Nobody
  /\ Exits(g)
  /\ UNCHANGED <<graphVars, passVars, surveyVars, faultVars, clicks, mass, writer, changes>>

\* The idempotency check looks for one document whose scope is the slug.
Found(g) == {d \in docs : d.live /\ Scope(d.slug) = gen[g].slug}

Cached(g) ==
  /\ At(g, "check") /\ ~gen[g].force
  /\ \E d \in Found(g) : d.filled
  /\ Exits(g) /\ writer' = Nobody
  /\ UNCHANGED <<graphVars, passVars, surveyVars, faultVars, clicks, mass, changes>>

Uncached(g) ==
  /\ At(g, "check")
  /\ gen[g].force \/ Found(g) = {} \/ \E d \in Found(g) : ~d.filled
  /\ Advance(g, "make")
  /\ UNCHANGED <<graphVars, passVars, surveyVars, faultVars, clicks, mass, writer, changes>>

\* Fault: a forced run retires the old text before it has the new one.
MakeRetiring(g) ==
  /\ At(g, "make")
  /\ docs' = Retired({d \in LiveDocs(gen[g].slug) : d.filled})
  /\ Advance(g, "write")
  /\ UNCHANGED <<edges, meta, loose, passVars, surveyVars, faultVars, clicks, mass, writer, changes>>

Make(g) ==
  /\ At(g, "make")
  /\ Advance(g, "write")
  /\ UNCHANGED <<graphVars, passVars, surveyVars, faultVars, clicks, mass, writer, changes>>

\* The model fails, or answers nothing: what was there stays.
MakeFails(g) ==
  /\ At(g, "make") /\ fails < MaxFails
  /\ fails' = fails + 1
  /\ Exits(g) /\ writer' = Nobody
  /\ UNCHANGED <<graphVars, passVars, surveyVars, crashes, clicks, mass, changes>>

Write(g) ==
  /\ At(g, "write")
  /\ WriteDoc(gen[g].slug)
  /\ gen' = [gen EXCEPT ![g].at = "derive", ![g].moved = Stubs(gen[g].slug) = {}]
  /\ UNCHANGED <<edges, meta, loose, passVars, surveyVars, faultVars, flight, clicks, mass, writer, changes>>

Derive(g) ==
  /\ At(g, "derive")
  /\ DeriveDocGraph
  /\ Exits(g) /\ writer' = Nobody
  /\ UNCHANGED <<docs, meta, passVars, surveyVars, faultVars, clicks, mass, changes>>

\* Not fatal: the next pass derives again.
DeriveFails(g) ==
  /\ At(g, "derive") /\ fails < MaxFails
  /\ fails' = fails + 1 /\ loose' = (loose \/ gen[g].moved)
  /\ Exits(g) /\ writer' = Nobody
  /\ UNCHANGED <<docs, edges, meta, passVars, surveyVars, crashes, clicks, mass, changes>>

GeneratorCrash(g) ==
  /\ gen[g].at # "off" /\ crashes < MaxCrashes
  /\ crashes' = crashes + 1
  /\ loose' = (loose \/ (At(g, "derive") /\ gen[g].moved))
  /\ Exits(g)
  /\ writer' = IF writer = g THEN Nobody ELSE writer
  /\ UNCHANGED <<docs, edges, meta, passVars, surveyVars, fails, clicks, mass, changes>>

-----------------------------------------------------------------------------

PassStep ==
  \/ Induce \/ Promote \/ PassDerive \/ NoMarker \/ PromoteScope \/ DropMarker
  \/ NoProposal \/ (\E S \in SUBSET Subjects : Propose(S)) \/ PromoteSubjects
  \/ ListStubs \/ (\E i \in DOMAIN Order : Fill(i) \/ FillFails(i)) \/ Filled \/ PassEnds

Generate(g) == Acquire(g) \/ Cached(g) \/ Uncached(g) \/ Make(g) \/ Write(g) \/ Derive(g)

Next ==
  \/ \E c \in Chapters : Feed(c)
  \/ WriteCorpusPendingMarker
  \/ PassStart \/ PassStep \/ PromoteScopeFails \/ RederiveFails \/ PassCrash
  \/ \E s \in Slugs : Read(s) \/ Regenerate(s) \/ RunByHand(s)
  \/ ServerRestart
  \/ \E g \in Generators :
       Generate(g) \/ GiveUp(g) \/ MakeFails(g) \/ DeriveFails(g) \/ GeneratorCrash(g)

Spec == Init /\ [][Next]_vars

\* A pass is scheduled every hour and is not shut out by generators for good;
\* what has begun goes on, and a survey leaves its marker.
Fairness ==
  /\ SF_vars(PassStart) /\ WF_vars(PassStep)
  /\ WF_vars(WriteCorpusPendingMarker)
  /\ \A g \in Generators : WF_vars(Generate(g))

FairSpec == Spec /\ Fairness

-----------------------------------------------------------------------------
(* Properties. *)

\* Whoever promotes, fills or regenerates, and whatever fails in between, a
\* slug has one live document: the writers find it by scope, by slug and by id.
OneLivePerSlug ==
  \A d, e \in docs : d.live /\ e.live /\ d.slug = e.slug => d = e

\* A text a reader can open stays, through failed, forced and killed runs,
\* until its successor is there or its schema has sunk below the low mark.
TextStays ==
  [][\A s \in Slugs :
       Readable(s) => \/ \E d \in docs' : d.live /\ d.filled /\ d.slug = s
                      \/ s \in Chapters /\ mass[s] = "low"]_vars

\* When nobody writes, the edges are those of the live documents, although ids
\* change: only a killed writer or a failed derivation leaves them behind, and
\* filling a stub never does (BUG-2c).
GraphMatchesDocs == writer = Nobody /\ ~loose => edges = Contained

\* The marker of a survey is cleared only once every schema in scope has its
\* document and the project one to land on (T-32-MARK).
MarkerHonoured ==
  [][marker /\ ~marker' =>
       /\ \A c \in Induced : LiveDocs(c) # {}
       /\ LiveIn(Hub) # {}]_vars

\* Stubs of schemas that were tombstoned: nothing fills or demotes them.
Dead == {c \in Chapters : mass[c] = "gone" /\ Stubs(c) # {}}

\* The last in line is served (D-07): the stub of a chapter is filled or
\* withdrawn in the end, behind hub and subjects, past failures and crashes and
\* with a budget of one, unless dead stubs use up the budget.
StubsDrain ==
  \A c \in Chapters :
    Stubs(c) # {} ~> (Stubs(c) = {} \/ Cardinality(Dead) >= Budget)

-----------------------------------------------------------------------------
(* What the comments of the code promise beyond this. *)

\* What ingest-project prints, "Corpus will be auto-promoted on the next sleep
\* pass": a schema of a survey gets a document, if it lives.
SurveyPromoted ==
  \A c \in Chapters : c \in fed ~> (LiveDocs(c) # {} \/ mass[c] = "gone")

\* What generate-doc-cli.ts says (D-02), "if a doc node already exists for the
\* slug, exit with the existing node data": an unforced run makes nothing anew.
GeneratedOnce ==
  [][\A g \in Generators :
       At(g, "check") /\ ~gen[g].force /\ Readable(gen[g].slug) => gen'[g].at # "make"]_vars
=============================================================================
