----------------------------- MODULE SleepPass ------------------------------
(***************************************************************************)
(* The episode log and the offline pass that consolidates it:              *)
(* EpisodicStore (src/db/episode-store.ts) and Consolidator.consolidate    *)
(* (src/consolidation/consolidator.ts), run under the single-writer lock   *)
(* by src/adapter/sleep-pass-cli.ts.                                       *)
(*                                                                         *)
(* Capture appends at any time, without the lock.  A pass snapshots the    *)
(* unconsolidated episodes, extracts claims chunk by chunk and replays the *)
(* snapshot one episode after the other: echo check, judgement against the *)
(* graph, one transaction with the effects and the consolidated flag.      *)
(* Every await of the code is a point between two actions.  What an        *)
(* episode does to the graph is abstracted to the fact that it was         *)
(* applied: graph is the sequence of episodes whose claims were committed. *)
(***************************************************************************)
EXTENDS Integers, Sequences, SequencesExt, FiniteSets

CONSTANTS
  Episodes,    \* rows that sources may append
  Inferred,    \* those with origin = 'inferred': the system's own conclusions
  Hitl,        \* those with source = 'hitl': records of approved actions
  Faint,       \* those under the salience threshold and not hard_keep
  Poison,      \* those whose extraction always fails
  Message,     \* (source, external_id); NoMessage for the rows without one
  NoMessage,
  NoEpisode,   \* source_inference_id = null
  Similar,     \* pairs whose embeddings are at least echoSimilarityThreshold close
  Window,      \* echoRecencyWindowMs, in appends
  Order(_),    \* replay order of a set of rows: see EpisodeOrder
  Passes,      \* processes that may run the pass
  ChunkSize,   \* RECENSE_PREFETCH_EPISODE_BATCH_SIZE
  MaxFailures, \* bound: provider or database errors other than those of Poison
  MaxCrashes,  \* bound: passes killed
  MaxLapses    \* bound: passes started while a stalled one has lost its lock

ASSUME ConstantsAssumption ==
  /\ IsFiniteSet(Episodes)
  /\ Inferred \cup Hitl \cup Faint \cup Poison \subseteq Episodes
  /\ NoEpisode \notin Episodes
  /\ Message \in [Episodes -> UNION {{Message[e]} : e \in Episodes}]
  /\ Similar \subseteq Episodes \X Episodes
  /\ Window \in Nat /\ ChunkSize \in Nat \ {0}
  /\ MaxFailures \in Nat /\ MaxCrashes \in Nat /\ MaxLapses \in Nat

\* The order loses no row and repeats none.
ASSUME OrderAssumption ==
  \A S \in SUBSET Episodes :
    /\ Order(S) \in Seq(S)
    /\ \A e \in S : \E i \in DOMAIN Order(S) : Order(S)[i] = e
    /\ \A i, j \in DOMAIN Order(S) : Order(S)[i] = Order(S)[j] => i = j

VARIABLES
  log,        \* the episode table, in the order of its ts
  done,       \* rows with consolidated = 1
  source,     \* source_inference_id of each row
  graph,      \* the episodes whose effects were committed, in commit order
  pc,         \* where each pass is
  queue,      \* its snapshot of the unconsolidated rows
  at,         \* index of the row it is replaying
  extracted,  \* rows of the snapshot whose extraction was attempted
  broken,     \* those of them whose extraction failed
  recent,     \* inferred rows it read for the echo check of the current row
  quarantine, \* rows it left for a later pass
  failures, crashes, lapses

store    == <<log, done, source, graph>>
volatile == <<queue, at, extracted, broken, recent, quarantine>>
bounds   == <<failures, crashes, lapses>>
vars     == <<store, pc, volatile, bounds>>

Steps == {"embed", "snapshot", "extract", "replay", "echo", "stop",
          "claims", "judge", "finish"}
InLoop == {"extract", "replay", "echo", "stop", "claims", "judge"}

Logged == ToSet(log)

TypeOK ==
  /\ log \in Seq(Episodes) /\ graph \in Seq(Episodes)
  /\ done \subseteq Episodes
  /\ source \in [Episodes -> Episodes \cup {NoEpisode}]
  /\ pc \in [Passes -> Steps \cup {"idle"}]
  /\ queue \in [Passes -> Seq(Episodes)]
  /\ at \in [Passes -> Nat \ {0}]
  /\ extracted \in [Passes -> SUBSET Episodes]
  /\ broken \in [Passes -> SUBSET Episodes]
  /\ recent \in [Passes -> SUBSET Episodes]
  /\ quarantine \in [Passes -> SUBSET Episodes]
  /\ failures \in 0..MaxFailures /\ crashes \in 0..MaxCrashes /\ lapses \in 0..MaxLapses
  /\ \A p \in Passes :
       /\ pc[p] \in InLoop => at[p] \in DOMAIN queue[p]
       /\ pc[p] \in {"idle", "embed", "snapshot"} => at[p] = 1

Init ==
  /\ log = <<>> /\ done = {} /\ graph = <<>>
  /\ source = [e \in Episodes |-> NoEpisode]
  /\ pc = [p \in Passes |-> "idle"]
  /\ queue = [p \in Passes |-> <<>>]
  /\ at = [p \in Passes |-> 1]
  /\ extracted = [p \in Passes |-> {}] /\ broken = [p \in Passes |-> {}]
  /\ recent = [p \in Passes |-> {}] /\ quarantine = [p \in Passes |-> {}]
  /\ failures = 0 /\ crashes = 0 /\ lapses = 0

-----------------------------------------------------------------------------
(* Capture. *)

SameMessage(d, e) == d = e \/ (Message[d] = Message[e] /\ Message[e] # NoMessage)

\* Fault: the unique index on (source, external_id) is missing.
AppendAnyway(e) ==
  /\ e \notin Logged
  /\ log' = Append(log, e)
  /\ UNCHANGED <<done, source, graph, pc, volatile, bounds>>

\* INSERT OR IGNORE: a message that is delivered again leaves the log as it is.
AppendRow(e) ==
  /\ \A d \in Logged : ~SameMessage(d, e)
  /\ log' = Append(log, e)
  /\ UNCHANGED <<done, source, graph, pc, volatile, bounds>>

-----------------------------------------------------------------------------
(* One pass. *)

Go(p, to)  == pc' = [pc EXCEPT ![p] = to]
Row(p)     == queue[p][at[p]]
Pending    == Logged \ done

\* Rows with no graph effects whatever they say, known without a provider call.
Barred == Inferred \cup Hitl

\* Fault: the records of approved actions are extracted like any other row.
EligibleWithHitl(e) == e \notin Faint /\ e \notin Inferred

Eligible(e) == e \notin Faint /\ e \notin Barred

Chunk(p) ==
  {queue[p][i] : i \in {k \in DOMAIN queue[p] : at[p] <= k /\ k < at[p] + ChunkSize}}

\* Fault: the pass ends with its first chunk.
FirstChunkOnly(p, i) ==
  IF i >= Len(queue[p]) \/ i % ChunkSize = 0 THEN "finish" ELSE "replay"

\* Where the loops stand once i rows have been replayed.
LoopHead(p, i) ==
  IF i >= Len(queue[p]) THEN "finish"
  ELSE IF i % ChunkSize = 0 THEN "extract" ELSE "replay"

Advance(p) ==
  /\ at' = [at EXCEPT ![p] = @ + 1]
  /\ Go(p, LoopHead(p, at[p]))

\* The lock admits one pass, or one more when the first has stalled past
\* LOCK_STALE_MS (Lockfile).
Start(p) ==
  /\ pc[p] = "idle"
  /\ \/ (\A q \in Passes : pc[q] = "idle") /\ UNCHANGED lapses
     \/ /\ \E q \in Passes : pc[q] # "idle"
        /\ lapses < MaxLapses /\ lapses' = lapses + 1
  /\ Go(p, "embed")
  /\ UNCHANGED <<store, volatile, failures, crashes>>

\* reembedDirty before the loop has returned.
Embedded(p) ==
  /\ pc[p] = "embed"
  /\ Go(p, "snapshot")
  /\ UNCHANGED <<store, volatile, bounds>>

\* The volatile state of p is gone: its process ends and the lock comes free.
Forget(p) ==
  /\ Go(p, "idle")
  /\ queue' = [queue EXCEPT ![p] = <<>>]
  /\ at' = [at EXCEPT ![p] = 1]
  /\ extracted' = [extracted EXCEPT ![p] = {}]
  /\ broken' = [broken EXCEPT ![p] = {}]
  /\ recent' = [recent EXCEPT ![p] = {}]
  /\ quarantine' = [quarantine EXCEPT ![p] = {}]
  /\ UNCHANGED store

\* An embed outside the per-episode try fails: the whole pass is abandoned.
EmbedFails(p) ==
  /\ pc[p] \in {"embed", "finish"}
  /\ failures < MaxFailures /\ failures' = failures + 1
  /\ Forget(p) /\ UNCHANGED <<crashes, lapses>>

Snapshot(p) ==
  /\ pc[p] = "snapshot"
  /\ queue' = [queue EXCEPT ![p] = Order(Pending)]
  /\ Go(p, IF Pending = {} THEN "finish" ELSE "extract")
  /\ UNCHANGED <<store, at, extracted, broken, recent, quarantine, bounds>>

\* prefetchExtractions has settled for every eligible row of the chunk.
Extract(p) ==
  /\ pc[p] = "extract"
  /\ LET rows == {e \in Chunk(p) : Eligible(e)} IN
     \E bad \in SUBSET rows :
       /\ rows \cap Poison \subseteq bad
       /\ failures + Cardinality(bad \ Poison) <= MaxFailures
       /\ failures' = failures + Cardinality(bad \ Poison)
       /\ broken' = [broken EXCEPT ![p] = @ \cup bad]
       /\ extracted' = [extracted EXCEPT ![p] = @ \cup rows]
  /\ Go(p, "replay")
  /\ UNCHANGED <<store, queue, at, recent, quarantine, crashes, lapses>>

\* CONSOL-01: a faint row is marked and skipped.
SkipFaint(p) ==
  /\ pc[p] = "replay" /\ Row(p) \in Faint
  /\ done' = done \cup {Row(p)}
  /\ Advance(p)
  /\ UNCHANGED <<log, source, graph, queue, extracted, broken, recent, quarantine, bounds>>

Position(e) == CHOOSE i \in DOMAIN log : log[i] = e

\* Fault: every inferred row of the window, those after the row included.
InferredAround(e) == {i \in Inferred \cap Logged : Position(i) >= Position(e) - Window}

\* Fault: the window ends at the newest row, not at the row being replayed.
InferredLately(e) ==
  {i \in Inferred \cap Logged :
     Position(i) >= Len(log) - Window /\ Position(i) <= Position(e)}

\* listRecentInferred(e.ts - window), without those after e.
RecentInferred(e) ==
  {i \in Inferred \cap Logged :
     Position(i) >= Position(e) - Window /\ Position(i) <= Position(e)}

\* detectEcho up to its await: the candidates are read, their embedding is asked for.
ReadRecent(p) ==
  /\ pc[p] = "replay" /\ Row(p) \notin Faint
  /\ LET found == IF Row(p) \in Inferred THEN {} ELSE RecentInferred(Row(p)) IN
       /\ recent' = [recent EXCEPT ![p] = found]
       /\ Go(p, IF found # {} THEN "echo"
                ELSE IF Row(p) \in Barred THEN "stop" ELSE "claims")
  /\ UNCHANGED <<store, queue, at, extracted, broken, quarantine, bounds>>

Sources(p) == {i \in recent[p] : <<i, Row(p)>> \in Similar}

\* Fault: an echo is recorded and then treated as evidence like any other row.
EchoIsEvidence(p) ==
  /\ pc[p] = "echo" /\ Sources(p) # {}
  /\ \E i \in Sources(p) : source' = [source EXCEPT ![Row(p)] = i]
  /\ Go(p, IF Row(p) \in Barred THEN "stop" ELSE "claims")
  /\ UNCHANGED <<log, done, graph, volatile, bounds>>

\* The row repeats one of the system's own conclusions: the source is backfilled
\* in a write of its own, before the row is marked.
EchoFound(p) ==
  /\ pc[p] = "echo" /\ Sources(p) # {}
  /\ \E i \in Sources(p) : source' = [source EXCEPT ![Row(p)] = i]
  /\ Go(p, "stop")
  /\ UNCHANGED <<log, done, graph, volatile, bounds>>

NoEcho(p) ==
  /\ pc[p] = "echo" /\ Sources(p) = {}
  /\ Go(p, IF Row(p) \in Barred THEN "stop" ELSE "claims")
  /\ UNCHANGED <<store, volatile, bounds>>

\* The hard stop: no effects for inferred, echo and hitl rows.
HardStop(p) ==
  /\ pc[p] = "stop"
  /\ done' = done \cup {Row(p)}
  /\ Advance(p)
  /\ UNCHANGED <<log, source, graph, queue, extracted, broken, recent, quarantine, bounds>>

\* The claims are embedded; candidates for them are read from the graph.
Nominate(p) ==
  /\ pc[p] = "claims" /\ Row(p) \notin broken[p]
  /\ Go(p, "judge")
  /\ UNCHANGED <<store, volatile, bounds>>

\* Fault: the flag is left to a later transaction.
CommitOnly(p) ==
  /\ pc[p] = "judge"
  /\ graph' = Append(graph, Row(p))
  /\ Go(p, "stop")
  /\ UNCHANGED <<log, done, source, volatile, bounds>>

\* The judge has answered.  Phase B: effects and flag in one transaction.
Commit(p) ==
  /\ pc[p] = "judge"
  /\ graph' = Append(graph, Row(p))
  /\ done' = done \cup {Row(p)}
  /\ Advance(p)
  /\ UNCHANGED <<log, source, queue, extracted, broken, recent, quarantine, bounds>>

\* An error in the try: extraction (known from the prefetch), embedding, judge,
\* a mark or the transaction.
Fails(p) ==
  \/ pc[p] = "claims" /\ Row(p) \in broken[p] /\ UNCHANGED failures
  \/ /\ pc[p] \in {"replay", "echo", "stop", "claims", "judge"}
     /\ failures < MaxFailures /\ failures' = failures + 1

\* Fault: the error leaves the loop and the pass is abandoned.
AbandonPass(p) == Fails(p) /\ Forget(p) /\ UNCHANGED <<crashes, lapses>>

\* Fault: a row that failed is marked like one that was skipped.
QuarantineMarks(p) ==
  /\ Fails(p)
  /\ quarantine' = [quarantine EXCEPT ![p] = @ \cup {Row(p)}]
  /\ done' = done \cup {Row(p)}
  /\ Advance(p)
  /\ UNCHANGED <<log, source, graph, queue, extracted, broken, recent, crashes, lapses>>

\* H-2: the row stays unconsolidated, the pass goes on with the next one.
Quarantine(p) ==
  /\ Fails(p)
  /\ quarantine' = [quarantine EXCEPT ![p] = @ \cup {Row(p)}]
  /\ Advance(p)
  /\ UNCHANGED <<store, queue, extracted, broken, recent, crashes, lapses>>

\* Phase C is over and main() releases the lock.
Finish(p) ==
  /\ pc[p] = "finish"
  /\ Forget(p) /\ UNCHANGED bounds

Crash(p) ==
  /\ pc[p] # "idle"
  /\ crashes < MaxCrashes /\ crashes' = crashes + 1
  /\ Forget(p) /\ UNCHANGED <<failures, lapses>>

PassStep(p) ==
  \/ Embedded(p) \/ Snapshot(p) \/ Extract(p) \/ SkipFaint(p)
  \/ ReadRecent(p) \/ EchoFound(p) \/ NoEcho(p) \/ HardStop(p)
  \/ Nominate(p) \/ Commit(p) \/ Quarantine(p) \/ Finish(p)

Next ==
  \/ \E e \in Episodes : AppendRow(e)
  \/ \E p \in Passes : Start(p) \/ PassStep(p) \/ EmbedFails(p) \/ Crash(p)

Spec == Init /\ [][Next]_vars

\* The scheduler starts a pass every hour and a pass keeps running; nothing
\* obliges a source to append, a provider to fail or a process to be killed.
FairSpec ==
  /\ Spec
  /\ WF_vars(\E p \in Passes : Start(p))
  /\ \A p \in Passes : WF_vars(PassStep(p))

-----------------------------------------------------------------------------
(* Properties. *)

\* How often the graph has seen a message.
Applications(e) == Cardinality({i \in DOMAIN graph : SameMessage(graph[i], e)})

\* A message is applied to the graph at most once, over every crash, retry and
\* redelivery, and at most once more for each time that a stalled pass lost its
\* lock and ran on beside its successor (consolidator.ts: "a crash between
\* episodes never double-applies").
AppliedOnce == \A e \in Episodes : Applications(e) <= 1 + lapses

\* e says what the inferred row i said, at most Window later.
Repeats(e, i) ==
  /\ <<i, e>> \in Similar
  /\ \E k, m \in DOMAIN log : log[k] = i /\ log[m] = e /\ k < m /\ m <= k + Window

\* The conclusions of the system, alone or repeated by a user within the window,
\* and its own records of approved actions never become evidence, not even
\* when two passes overlap; nor is a provider asked what they claim (WR-01,
\* CR-01, ACT-03).
NeverSelfConfirms ==
  /\ \A e \in ToSet(graph) :
       e \notin Barred /\ \A i \in Inferred \cap Logged : ~Repeats(e, i)
  /\ \A p \in Passes : extracted[p] \cap Barred = {}

\* The flag is set exactly for the rows that were applied and those that must
\* not be, over crashes between any two steps: no effect is lost, none repeated.
FlagMatchesEffects ==
  \A e \in Episodes :
    /\ e \in ToSet(graph) => e \in done
    /\ e \in done => \/ e \in ToSet(graph) /\ source[e] = NoEpisode
                     \/ e \in Faint \cup Barred
                     \/ source[e] # NoEpisode

\* The audit trail of an echo names a conclusion the row really repeats, one
\* that was in the log before it and no older than the window.
EchoAudited ==
  \A e \in Episodes :
    source[e] # NoEpisode => source[e] \in Inferred /\ Repeats(e, source[e])

\* The two marks a pass leaves on a row, consolidated and echo source, tell what
\* happened to it, whatever step the pass died between.
MarksTruthful == FlagMatchesEffects /\ EchoAudited

\* A pass that reaches its end has dealt with every row of its snapshot: it is
\* marked, or set aside after an error of its own.
SnapshotHandled ==
  \A p \in Passes :
    pc[p] = "finish" => ToSet(queue[p]) \subseteq done \cup quarantine[p]

\* A row that can be extracted at all is consolidated in the end: neither the
\* poison rows nor the errors and crashes around it block it for ever (H-2).
Drained == \A e \in Episodes \ Poison : e \in Logged ~> e \in done
=============================================================================
