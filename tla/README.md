# recense in TLA+

This directory holds the verification project of recense: TLA+ modules that
model the parts of the program where order, failure and concurrency matter,
TLC configurations that check them on small instances, and TLAPS proofs of the
properties that carry most weight for every value of the constants.
`PROJECT.json` is the index: components, runs, the code lines each definition
stands for, hazards, findings, mutants and theorems.

Paths below are relative to the repository root (`src/...` is the TypeScript
core, `clients/...` the consumers of its HTTP interface).

## 1. The system

recense is a memory for assistants. Everything heard is appended to an episode
log in SQLite. Offline, a *sleep pass* replays the log, extracts claims with a
language model, judges them against the nodes of a semantic graph and changes
the graph: a claim confirms a node, extends it, stands beside it, replaces it or
is held against it. The graph yields proposals for actions, which consumers
outside the process approve or reject over HTTP, and documents, which readers
open in a web view. Mail, calendar and notes come in through an hourly ingest
process.

Several operating-system processes share the database file: the scheduler that
starts passes, the `serve` process, the MCP server, ingest and hook commands.
SQLite serialises single transactions; what spans more than one is serialised
by a lock file or not at all.

### Inventory

| Component | State | Operations | Interacts with | Hard behaviour | Correct when |
|---|---|---|---|---|---|
| Single-writer lock (`src/adapter/lockfile.ts`) | one file: owner pid, mtime | acquire, acquire with retry, heartbeat, release | every writer | system calls of processes interleave; holder dies with an empty file; recycled pid; live lock turns stale | one writer; own file removed; a dead lock is reclaimed |
| Episode log (`src/db/episode-store.ts`) | rows, `consolidated` flag, `source_inference_id` | append, list, mark, skip, backfill | capture, sleep pass | redelivery; append during a pass | a message counts once |
| Replay order (`src/consolidation/episode-order.ts`) | none | SQL order, then mail by event time inside its slots | sleep pass | ties, rows without event time | older mail first, no slot changes its kind |
| Sleep pass (`src/consolidation/consolidator.ts`, `src/adapter/sleep-pass-cli.ts`) | snapshot, chunk, quarantine | prefetch, echo check, hard stop, nominate, judge, commit | log, graph, providers, lock | awaits between read and write, provider errors, crash, overlap after a lapse | applied once, and at most once more per takeover; no self-confirmation; marks tell the truth; drains |
| Belief update (`consolidator.ts`, `update-decision.ts`, `status-drift.ts`) | nodes: value, breadcrumb, strength, held contradictions, horizon | confirm, mint, reconcile, append-new, hold, force-destabilize | sleep pass, semantic store | chains over many episodes, several claims of one episode, mail in any order | no circle of successions, no pile of twins, no lock-in, no unfair overturning, no old news |
| Action proposals (`src/db/action-proposal-store.ts`, `action-proposal-sink.ts`, `src/adapter/memory-ops.ts`, `serve-cli.ts`) | rows with a status; the requests in flight | emit, list, approve, reject | sleep pass, consumers, lock | row read before an await for the lock; nodes retired in between; replayed emission | settled once, truthfully, while current |
| Reference client (`clients/proposal-reference`) | JSON rows, its own lock file | cron sync: list, claim, post, record | server | crash between request and answer, late answers, lock takeover | one row, no inverted outcome, begun is finished |
| Semantic store, schema (`src/db/semantic-store.ts`, `schema.ts`) | nodes, edges, events | upsert, tombstone, full text | all of the above | - | modelled as far as Belief and ActionProposal use it |
| Strength, decay, eviction (`src/strength/decay.ts`) | strength, last access | strengthen, lazy decay, eviction sweep | Belief, proposals | foreign keys pin dead nodes | nothing live or referenced is evicted |
| Ingestion and gate (`src/ingest`, `src/gate`) | none | score one event | log | - | - |
| Hooks, scheduler (`stop-cli.ts`, `turn-capture-cli.ts`, `recense-scheduler.ts`) | dirty sentinel, timers | capture, trigger a pass | log, lock | lost trigger | a captured turn is consolidated eventually |
| Other memory operations (`memory-ops.ts`, `mcp-cli.ts`) | none | remember, recall, surface, outcome | lock, log | same lock pattern as approve | - |
| Surface store (`src/db/surface-store.ts`) | surfaced events with outcome and snooze | list due, record outcome | Telegram push | an outcome recorded twice or late | an occurrence with an outcome is not offered again |
| Ingestion from sources (`src/adapter/ingest-cli.ts`, `src/source`, `src/consolidation/calendar-tombstone.ts`) | a cursor per source, the list of cancelled events | pull, append, commit cursor, digest, tombstone, clear the list | log, lock, services outside | the world moves during a pull; token expires; crash between append and cursor, between list and tombstone; one source fails | at least once, nothing skipped, one failure stops nothing else, cancelled is forgotten |
| Extraction, judge (`src/model`) | none | provider calls, retries | sleep pass | errors, arbitrary verdicts | nothing is assumed of them here |
| Schema induction, relations, insights | derived rows | wipe and rebuild | sleep pass, documents | - | rebuilt by the next pass |
| Entity and fact dedup | merged nodes | merge | graph, proposals | merge of a node a proposal names | proposals of a retired node are not offered (in ProposalBoard) |
| Corpus and documents (`corpus-promoter.ts`, `corpus-generator.ts`, `doc-writer.ts`, `doc-graph-deriver.ts`, `generate-doc-cli.ts`, `ingest-project-cli.ts`) | document nodes per slug, edges, marker of a survey | promote, propose subjects, fill stubs, generate on demand, derive edges | sleep pass, viz server, lock | a document gets a new id when regenerated; marker written without the lock; killed and failing generators; a budget per pass | one live document per slug, a text stays until its successor is there, edges follow, the marker is honoured, every stub is served |
| Viz server (`src/viz/server.ts`) | slugs in flight | read, spawn a generator | documents | restart forgets what is in flight | as documents |
| Retrieval (`src/retrieval`, `src/recall`) | none | ranking | graph | read-only | - |
| Telegram client, beliefs (`clients/telegram/belief-bridge.ts`) | rows, prompt ledger, daily cap, counters | poll, group, store, send, reserve, tap | server, Telegram | a crash or a failed send between any two writes, a send that times out after delivery, taps delivered twice, midnight | rows and prompts in step, prompted once a day, records tell the truth, every proposal prompted |
| Telegram client, tools (`clients/telegram/index.ts`, `proposal-store.ts`) | cards, typed confirmations, edits, update cursor | push, approve, confirm, edit, call, close | surface store, Telegram, tools | two ticks in one event loop; texts and buttons in one batch; crash between call and removal | called once and only as confirmed, nobody left out, no dead card |
| Tray (`apps/tray`) | server process handle | start, probe, restart | serve | restarts | - |
| Evaluation, seeding | none | - | - | - | - |

## 2. Modules and how they correspond to the code

```
WriterLock <--implements-- Lockfile              MCLockfile      Lockfile_proofs
EpisodeOrder --order of--> SleepPass             MCSleepPass     SleepPass_proofs
Belief                                           MCBelief        Belief_proofs

ProposalBoard <--implements-- ActionProposal
      ^                           ^
   EXTENDS                     EXTENDS
 BeliefBridge               ProposalSync         MCProposalSync  ProposalSync_proofs (and ActionProposal)
 MCBeliefBridge, BeliefBridge_proofs
ToolCards                                        MCToolCards     ToolCards_proofs
Documents                                        MCDocuments     Documents_proofs
Sources                                          MCSources       Sources_proofs
Algorithms (on EpisodeOrder and DocGraph)        MCAlgorithms    SleepPass_proofs
```

Operators whose comment starts with "Fault:" are not part of any specification.
Each is one definition as a plausible bug would have left it; `PROJECT.json`
pairs it with the property that notices.

**Lockfile.** A task is a flow of control that takes the lock; tasks of one
process share a process id and never interleave inside a synchronous call
(`LoopFree`). Every system call of `acquireLock` and `releaseLock` is an action:
`Exists`, `Stat`, `ReadHeld`/`ReadPid`, `KillAlive`/`KillDead`, `Reap` (the
rename), `Create`/`CreateLost`, `WritePid`; `ReadOwner`, `Age`, `Unlink`. Time is
the Boolean `old` of the file: `Expire` for the lock of an ended process, `Lapse`
(bounded) for a live one. `End` stands for exit and crash, `Recycle` for a pid
that the kernel gives away.

**WriterLock** is the promise: a set of writers, at most one of them while the
lock is `sound`; it is sound until a live lock first ages out and, where three or
more processes compete, until one of them ends. `Lockfile!ImplementsWriterLock`
maps writers to the tasks between create and unlink.

**EpisodeOrder** holds the SQL order and `orderEpisodesForConsolidation` as
operators with reference definitions beside them. **DocGraph** holds
`deriveDocGraph` as a function of the schemas: containment by strict cover,
references by shared evidence, the best `TopK` partners of each side. A sort is
the arrangement in which each element stands where the number of those before it
puts it, a walk up the ladder is the least set closed under it. **Algorithms** puts
both to work: a state is a backlog or a corpus, the step is the code's.

**SleepPass** models the log and `consolidate()`: a pass embeds, takes a
snapshot, extracts a chunk, and replays row by row; every `await` is a point
between two actions, every write to the database an action of its own
(`EchoFound` and `HardStop` are two, `Commit` is one). A claim's effect is
abstracted to its episode appearing in `graph`. Crashes clear the volatile state
of the pass and nothing else. `Order` is a parameter; the instances use
EpisodeOrder.

**Belief** models what a commit does: `applyDecision` and
`applySecondaryContradiction` with every route. The judge is an oracle: any
relation, any candidate, any magnitude. Strength times confidence is a small
number of levels; `Fade` is decay; thresholds, damping factors and bands are
constants with the values of `src/lib/config.ts` in the instances. `support`
is a history variable for the properties: the newest episode that really
asserted the value, which the code approximates with `horizon`.

**ProposalBoard** is what a consumer may rely on: a board of proposals, each of
which is published, withdrawn or lapsed by the server and decided once.

**ActionProposal** implements it. It has the rows, the listing, and a request as
the stages the code awaits between: sent, waiting for the lock, answered. Under
the lock the handler has no await, so re-check and compare-and-set are one action
(`Approve`, `Reject`). `World` is the sleep pass: it emits, retires nodes and
ends; the rows expire. `ImplementsBoard` forgets requests, lock and nodes.

**ProposalSync** puts the reference client on top of the server: each sync is a
consumer that crashes, times out, retries; people are other consumers. Its lock
file is taken in the steps of `tryAcquire` (`Create`, `Stat`, `Unlink`, `Create`
again) because another sync may come or go between any two of them. `displaced`
is a history variable: a sync has removed the lock file of another that runs.

**BeliefBridge** puts the belief bridge of the Telegram client on top of the
board. A poll pass lists, groups by entity, stores the rows (`Store`), sends to
one chat after the other, and then rolls back, or reserves a slot and writes the
ledger: each write of a file is an action. A reactive tick fetches a batch of
taps, posts each decision and writes the row, the counters and, at the end, the
update cursor. An answer closes the row or leaves it for another try; one that says
the proposal is unknown (it was evicted) closes it as refused. Sends fail, or time out
after delivery; answers are lost; the client dies between any two writes and is started again.

**ToolCards** models the push tick and the reactive tick of the same client for
tool calls. An occurrence is offered to each chat as a card or a plain reminder;
a card is approved, confirmed by a typed value, edited or rejected; the allowlist is
asked again before a call, and a card whose tool was revoked stays uncalled; `Call`,
`Close` and `Remove` are three steps with crashes between them. The id of a card
is its place in `issued`, which also keeps the `root` an edited card descends
from. Cards and the cursor are files, what a chat owes (confirmation, edit) is
memory.

**Documents** models promotion, subject proposals, the marker of a survey, the
filling of stubs with its budget, generators started by readers, by hand and
again after a restart of the server, and the re-derivation of edges, which may fail
and leave the edges as they were. A document
has an identity of its own beside its slug, because regeneration changes it and
edges name it. The lock is taken as exclusive here.

**Sources** models the hourly ingest process: three adapters with three kinds of
cursor (a position in a history, a token that may expire, the newest mtime of a
walk), one transaction of appends per adapter, the deferred cursor, the sleep
pass that follows and the tombstones of cancelled events. Mailbox, calendar and
vault change between any two requests. `missed`, `lost` and `unlucky` are history
variables that name what the design lets slip, so that nothing else may.

## 3. Runs

| Run | Checks | Instance |
|---|---|---|
| `lock_two_procs` | `ExclusiveUnlessReclaimed`, `HolderOwnsFile`, `ImplementsWriterLock`, `DeadLockReclaimed` | 2 processes, 3 tasks, 1 crash, 1 lapse, 2 attempts |
| `lock_one_winner` | `MutualExclusion` (violated) | 3 processes, no crash, no lapse |
| `algorithms` | `ReplaysOldestFirst`, `Descends`, `Linked` | every list of up to 4 rows, 2 event times or none; every grouping of 3 schemas under 3 subjects, ladders with and without a cycle |
| `sleep_mail` | `Drained` | turn, mail, its redelivery, a row that never extracts; chunk of 2; 1 error, 1 crash |
| `sleep_echo` | `AppliedOnce`, `NeverSelfConfirms`, `MarksTruthful` | a mail and its redelivery, a conclusion, its echo, a record of an approved action; 2 passes, one of which may take over from the other; window of 2; 1 error, 1 crash |
| `belief` | `NoTwoCycle`, `NoTwins`, `LockInBroken`, `OverturnedFairly`, `StaleNeverHeard` | 2 values, 2 sessions, 2 claims an episode, two levels, N = 2; conversations over 3 nodes or dated mail over 2 |
| `sync` | `ImplementsBoard`, `AckIsTrue`, `ListedIsApprovable`, `LocalTruth`, `OverlapOnlyByDisplacement`, `BegunIsFinished` | 2 syncs, 1 person, 1 proposal on 2 nodes, 2 passes, a lost answer or a crash |
| `bridge` | `RowsBacked`, `PromptsAccounted`, `RecordsTrue`, `ClosedStays`, `EventuallyPrompted` | 3 proposals about 2 entities, 2 chats, cap of 2, 2 days, one fault |
| `cards` | `OncePerCard`, `ConfirmedFirst`, `AllChatsTold`, `NoDanglingCard`, `NeverDropped` | 1 occurrence, 2 chats, 2 cards, up to 4 updates, destructive or not |
| `documents` | `OneLivePerSlug`, `GraphMatchesDocs`, `TextStays`, `MarkerHonoured`, `StubsDrain` | a hub, a subject, 2 chapters, 2 generators, budget of 1 |
| `sources` | `NothingSkipped`, `BookedIsLogged`, `CancelledIsForgotten` | 2 messages, 1 event with 2 versions and 3 changes, 2 notes with 2 texts, 2 faults |
| `sources_series` | `SeriesSurvives` (violated) | 1 event, 2 changes, no fault |

Why the bounds are enough to be worth something:

* *Lock.* Two processes with two tasks in one of them show both kinds of
  concurrency, between processes and between requests of one event loop. The
  second attempt is the retry. The theorems of `Lockfile_proofs` cover more.
* *Sleep.* Four rows in chunks of two give a full chunk, a chunk boundary and a
  short chunk; the mail and its redelivery may come on either side of a
  snapshot. In `sleep_echo` the window of two appends leaves room for an echo inside
  it and one outside, and a pass may stall before any step, be taken over and go on.
* *Belief.* Three nodes are the shortest chain in which a value can come back and,
  with two claims an episode, one more than an episode can duplicate;
  two sessions the smallest that reach N = 2, two claims the smallest episode in
  which one decision meets the result of another. Dates and the third node
  together exceed what TLC does in minutes, so `Scenarios` has either
  undated conversations over three nodes or dated mail over two.
* *Proposals.* All properties are about one row and those who race for it. A
  second pass replays an emission after the row was settled; it comes when nobody
  else interferes (`QuietSecondPass`). A run without stalls still meets displaced lock
  files; the safety properties promise nothing after one, so nobody else
  interferes from there on (`QuietDisplacement`). It has a lost
  answer, or a crash around which a person may decide (`OneFault`): each leaves a
  row for the next sync to resume.
  The limit of 100 listed rows is not reached.
* *Telegram.* `bridge` has one fault in a behaviour (the network may also fail
  the sends to both chats) and either people who decide on one day, or a cap, a
  ledger and a midnight met by proposals nobody has decided: up to two slots of
  the first day and one of the second go to tool cards. Other
  surfaces decide when the host's answers are clear. Two proposals of
  three share an entity, so that groups and the ledger matter. `cards` has one
  failure and one act of people in two chats, or two acts in one; two acts in
  both without a failure; or one person's four acts: an edit of a destructive
  call, the patch, an approval of the patched card and the typed value, for instance.
* *Documents.* Two chapters grow and are filled by passes alone, with a budget
  that one of them has to wait for; or readers, generators and a survey meet the
  passes over one chapter. One thing fails in either case.
* *Sources.* One source is busy (with up to two faults for the calendar), or the
  mailbox and the calendar have one event each, so that the failure of one may
  touch the other. A list of messages comes in one page or in several. The vault
  shares nothing with them but the loop.

`Scenarios`, `OneFault`, `QuietDisplacement` and `QuietSecondPass` are state
constraints. A safety property is checked in every state that satisfies them and
the states one step beyond. Liveness is checked for the behaviours that stay
inside: a step that leaves is cut off, never required. All of them count bounded
events of the surroundings (faults, taps, changes, displaced files), so that what
is cut off are further disturbances.

Symmetry is used in `belief` (values, sessions) and `sleep_echo` (passes), which
check no liveness. Types are proved for all modules with theorems and not
checked again by the runs.

`CHECK_DEADLOCK FALSE` stands in every cfg but that of `algorithms`: in the lock
run every process may end, in the others the budgets of faults, passes, claims,
changes, days or updates run out and nobody owes a further step.

### Fairness

* `Lockfile!FairSpec`: callers keep coming (scheduler timer, watcher tick), a
  task inside a call is given the processor, a dead file ages (`WF`). A holder
  finishes: `SF`, since its turn on the event loop comes and goes with other
  tasks and the loop serves callbacks in order of arrival. Nothing is assumed of
  crashes, exits or lapses.
* `SleepPass!FairSpec`: the scheduler starts a pass again and again
  (`recense-scheduler.ts`, hourly), a pass makes progress. Sources owe nothing,
  providers may fail `MaxFailures` times.
* `ProposalSync!FairSpec`: cron starts syncs, a sync that runs goes on (its
  requests end after 10 s), a left lock file ages, the server serves, a pass ends.
  Nobody has to tap, crash or emit.
* `BeliefBridge!BridgeSpec` and `ToolCards!CardSpec`: the timers of `main` start
  poll passes and push ticks, launchd restarts the client, and what has begun in
  the event loop goes on (`WF`). People and failures owe nothing.
* `Documents!FairSpec`: the scheduler finds the lock free now and then (`SF` for
  `PassStart`, since generators take the lock in between), a pass, a generator and
  a survey go on. Nobody has to open a document.
* `Sources!FairSpec`: the hourly job finds the lock free now and then (`SF`), a
  pass goes on. Services may fail `MaxFaults` times and the world may be still.

## 4. What the runs show

With two processes the lock file keeps one writer over every
interleaving of its system calls with a crash, an exit and a recycled pid, until
a live lock ages out, and the lock of a dead process is always reclaimed.
A message takes effect at most once over redelivery, errors and crashes, and at
most once more for each time a stalled pass is taken over; a row that always fails
stops neither its neighbours nor later passes; the system's own conclusions and their
echoes never become evidence, also when two passes overlap. No succession of
beliefs goes back and forth between two values, a value that is repeated in many
episodes stays one belief, no belief is locked in against N sessions, a
belief falls only to a strong challenge or to independent sessions, and old mail
does nothing to newer evidence. A proposal is decided once, by the rule that
holds at that step; `ok` is said to the one that settled it; the reference client
keeps one row per proposal and never records the opposite of what happened.

The Telegram client keeps its rows, its prompts, its ledger, its counters and the
board in step through a fault between any two of its writes, and prompts what the
board offers; it calls a tool once per card unless it dies between call and
removal, and only as confirmed. Documents are unique per slug, a text
survives failed and killed regeneration, edges follow the ids, a marker is
honoured before it is cleared and every stub is served. A cursor of a source
never passes what is not in the log, a booked event gets there although other
sources fail, and a cancelled event is forgotten whatever interrupts the passes.

Two statements of the code's comments do not hold, each with a run that TLC must
find violated:

1. `lock_one_winner`: "Exactly one winner" (`src/adapter/lockfile.ts:70-72`).
   The rename takes whatever is at the path, not the file that was judged stale.
   A holder that exits while another process is between reading its pid and
   probing it, with a third process creating its lock in between, gives two
   holders. Needs three processes; with two it is proved not to happen.
2. `sources_series`: a cancelled instance "must NOT tombstone the series"
   (`src/source/calendar-adapter.ts:13-14`). When the cancelled instance is all
   that changed since the last pull, the real fetcher makes it the representative
   of its series, with the id of the master and without `recurringEventId`, so
   that `pull()` notes the series as cancelled.

Further limits are stated as definitions at the end of the modules. No run lists
them; as invariant or property of the run of their module (with the change in
brackets) TLC refutes each in seconds to minutes.

* `Belief!FreshEvidenceHeard`: a secondary contradiction routed to append-new is
  recorded as an event that *supports* the contradicted node, so a later mail newer
  than all real evidence for the node is dropped as stale.
  `Belief!SupersededHasSuccessor`: a secondary is tombstoned although its claim's
  primary was held or absent and minted nothing. The comments above
  (`consolidator.ts:1734`, `:1797`) take for granted that the primary has minted and
  that secondaries "cannot oscillate"; the branch consults no breadcrumb, so a node
  may fall, as a secondary, to the very value it once replaced. `NoTwoCycle` is
  therefore about successions, which only the two guarded sites make.
* `ProposalSync!OwnSuccessRecorded`: after a crash between request and answer the
  settled proposal is not listed again, so the pending row is never resumed.
* `BeliefBridge!NeverSuppressed`: a crash between storing the row and sending
  leaves a row without a prompt until the proposal expires.
  `BeliefBridge!ClosedForGood` [`Chats = {c1}`]: a prompt whose send was reported
  as failed had arrived and was answered; the pass rolls the row back, closed or
  not, or a pass with an older list opens it again. (The proof of `ClosedStays`
  failed at this step, which gave the property its condition.)
  `BeliefBridge!ToolCardsWithinCap` [`DailyCap = 1`, below `MaxSlots`]: the
  reservation after midnight of a pass begun before it resets the cap's date, and
  the day's tool cards are counted anew.
* `ToolCards!NobodyLeftOut`: when the send to the second chat fails, the item is off
  the list already and that chat never hears of it.
  `ToolCards!OncePerOccurrence`: each chat gets a card of its own, so two people
  may approve the same call. `ToolCards!OneIntercept`: a chat may owe a
  confirmation and an edit at once.
* `Documents!SurveyPromoted`: the marker of a survey is written without the lock;
  a pass that read its episodes before the survey fed its own promotes without
  them and clears it. `Documents!GeneratedOnce`: an unforced generator
  looks a document up by scope, not by slug, so that it never finds that of a
  subject and makes it anew.
* `Sources!DueIsCurrent`: an event that returns to an earlier time or title has
  the external id of the old row and is ignored. `Sources!MailIsLogged`: a message
  deleted between history and fetch fails that pull and every later one.

Three limits are visible in the conditions of the passing properties.
`HolderOwnsFile` is promised only while no live lock has aged out: ownership is
compared by process id, so after a lapse a slow request deletes the lock that
another request of the same process has taken over. And
`OverlapOnlyByDisplacement` is conditional because the client's takeover unlinks
by path: a sync whose `stat` finds no file removes the file of the next one.
`ClosedStays` is promised as long as no send is reported as failed that arrived.
`AppliedOnce` allows one more effect per takeover: the stalled pass goes on with what
it nominated, and `markConsolidated` does not look whether the row is marked already.

## 5. What is proved

All theorems hold for every value of the constants that satisfies the `ASSUME`s
of the modules (functions have the right domains, model values are distinct,
bounds are natural numbers); TLC evaluates these assumptions in the runs.

* **`Lockfile_proofs`**: `TypeCorrect`, `Exclusion`, `OwnFile`, `Refinement`
  (`Spec => ImplementsWriterLock`), for any tasks and processes. Mutual
  exclusion is not inductive: a task that has judged the lock stale and not yet
  renamed it must be known not to endanger a holder. The invariant says so: a
  pending verdict (`Condemns`) implies that some process has ended and nobody
  holds the lock, because then the only other process is the one busy with the
  verdict. `Bookkeeping` (who is gone, one call per process, what a file may
  name) holds without conditions and feeds it.
* **`SleepPass_proofs`**: `TypeCorrect`, `Applied`, `Handled` (a pass
  that reaches its end has dealt with every row of its snapshot),
  `SelfConfirmation` and `Truthful`, for any rows, similarity, window,
  passes, chunk size and any replay order that loses and repeats nothing.
  The invariant adds what the pass knows of its snapshot: its rows are in the
  log, each once, those before the index dealt with (`QueueFacts`). One lemma per
  shape of step: append, advance, mark, quiet, forget, start, snapshot. All of them
  hold for overlapping passes too. `Applied` counts (`OverlapInv`): at most one pass
  and one more for each takeover is active, and a row's places in the graph and the
  passes that have yet to replay it are together at most as many: a commit moves one
  to the other, a snapshot gives a row to one more pass only if it is not applied
  yet. `EchoFacts` carries the check across
  the awaits: the window a pass has read is still what the log gives, since the log
  only grows behind it, and a row that reaches the judge is no conclusion, no record
  and no echo.
  Of the functions of a pass (`Algorithms`): `ReplayOldestFirst`, `OrderedOnce`
  (idempotence), `ReplayedOnce`, for backlogs of any length, and `EveryCorpusDescends`,
  `EveryCorpusLinked`, for corpora and ladders of any size and any `TopK`.
  `ReplayedOnce` is `OrderAssumption` of `SleepPass` for the order the code computes,
  given that ids are distinct. Sorting rests on `Ranks`: in a strict total order on n
  elements the counts of predecessors are those from 0 to n - 1, each once, so what
  stands at place k exists and is unique. That containment composes needs a ladder
  without cycles (on a cycle the walk never lists its start, and only the absence of
  mutual containment remains); the tie between subjects that cover each other then
  breaks the same way along a chain.
* **`Belief_proofs`**: `TypeCorrect`, `NoCircle`, `NeverTwinned`, `NeverLockedIn`,
  `FairlyOverturned`, `StaleIgnored`, for any values, sessions, thresholds, damping
  and verdicts. Each step rewrites the node table in place, keeping what rows
  assert, or does so and appends one node; `StayStep` and `GrowStep` say once what
  such a step must satisfy, and each action supplies its table. `Breadcrumbs` (a
  successor names the value it replaced, and never restores what that one had
  replaced) carries `NoCircle` over any number of episodes, since rows keep what they
  assert. `TwinsInv` counts the live nodes of a value together with the claims of the
  open episode that may still mint it. The two action properties follow from the
  actions and the types.
* **`ProposalSync_proofs`**, of the server: `TypeCorrect`, `TruthfulAck`, `Settled`,
  `Current`, `Refinement` (`ServerSpec => ImplementsBoard`) and `ListTells`, for any
  proposals, consumers and passes. Types and `AckIsTrue` are inductive together
  once the type invariant says that a row has a winner exactly when it is approved
  or rejected. For the refinement each action of the server is one of the board or
  none: the approval is a decision because its re-check, under the lock, is the
  rule of the board.
  Of the composition: `ServerRefinement` (`Spec => ServerSpec`), `ServerPromises`,
  which carries the server's theorems over, `Overlap` and `TruthfulRows`, for any
  number of syncs, people and faults. That the rows are true needs, while no lock
  file was taken from a running sync (`Tidy`): the file names the one that works
  (`Alone`); what was ever asked for or won has left a row, because the row is
  written first (`Traced`); and a proposal without an earlier row was asked about
  by nobody else of this client (`First`), so that a conflict is then another's
  decision, while a resumed row reads a conflict as unknown. `IdAssumption` (more ids than
  proposals) stands for `randomUUID`.
* **`BeliefBridge_proofs`**: `BridgeTypes`, `Backed`, `Accounted`, `Honest`, `Closed`
  and `OnTheBoard` (`BridgeSpec => BoardSpec`: to the server's promise the bridge
  is a consumer), for any proposals, entities, chats, cap, group size and numbers
  of faults and days. The invariant follows a prompt through its writes. Rows: a
  group is stored before its buttons (`StoredFirst`), what counts as delivered is
  on a screen and nothing else is (`OnScreen`, `NotYet`), and while a tap is served
  nobody changes its row (`Served`). Numbers: `PromptsCounted` gives every prompt
  its ledger entry, its place in the pass, or its excuse (a send of unknown
  outcome, a crash, a midnight that the pass has not yet used), which needs that
  a group is of one entity that the day has not seen (`Apart`) and that ledger, pass
  and day are in order (`Dated`); `CapCounted` does the same for the cap, where
  the prompt under way is still to be reserved. `Decided` and `StatsCounted` say
  what the tick holds between the server's answer and the counter.
* **`ToolCards_proofs`**: `CardTypes`, `AtMostOnce`, `TypedFirst`, `EveryChat` and
  `StoredFirst`, for any occurrences, chats, cards and faults. `Reached`: whatever
  refers to a card (an update, a chat's debt, the tick) got it from a screen, so
  that a card on its way is out of reach. `TickStocked`, `PushStocked`: what is
  about to be called or shown is stored, or lapsed. A count of calls is not
  inductive: `Once` counts, for each root, the cards called and those whose call is
  still possible, against one plus the crashes; an edit moves the possibility from
  a card to its successor, and only a crash between call and removal leaves both.
  `Rounds`: once the client has begun with an occurrence, each chat has been told
  or is still ahead in the running round.
* **`Documents_proofs`**: `TypeCorrect`, `OneDocument`, `EdgesMatch`, `TextsStay`,
  `MarkerKept`, for any project, order of filling, budget and number of generators.
  The invariant says who holds the lock (`OneWriter`), that edges are right unless
  the holder has still to derive them (`EdgesFollow`), and that a pass which is
  about to clear the marker has promoted the scope (`MarkerReady`).
* **`Sources_proofs`**: `TypeCorrect` and `Covered`
  (`Spec => []NothingSkipped`), for any messages, events, notes and failures. What a
  cursor stands for is logged follows at the commit from what the adapter has in
  hand before it: `MailReady`, `CalendarReady` and `NotesReady` say that all that the
  position about to be committed stands for is in the log or in the batch.

Only model-checked: liveness (`DeadLockReclaimed`, `Drained`, `BegunIsFinished`,
`EventuallyPrompted`, `NeverDropped`, `StubsDrain`, `BookedIsLogged`,
`CancelledIsForgotten`), which depends on fairness and is beyond the prover. Every
other property of a passing run is a theorem.

## 6. Abstractions

* Texts, embeddings and scores are values, pairs (`Similar`) or levels.
* Provider calls are oracles; retries inside them are one outcome.
* Phase C of a pass is one step in `SleepPass`; its promotion, filling and
  derivation are the steps of `Documents`.
* `SleepPass` nominates in one step: what candidates a claim has is in `Belief`. Rows of
  the same millisecond count as appended one after the other; `detectEcho`
  (`r.ts <= episode.ts`) takes either for the earlier one. Rows without an external id
  are never the same message.
* Time is ordinal: positions in the log, Booleans for ages, days by number.
* SQLite transactions are atomic, as are the synchronous file writes of the
  clients' stores; two overlapping syncs may also overwrite each other's store
  file, which is not modelled beyond `displaced`.
* `Documents` and `Sources` take the write lock as exclusive: what happens after a
  reclaimed live lock is the business of `Lockfile` and `SleepPass`.
* `Documents` assumes `corpusGen` and schema induction on: induction erodes what has
  fewer than `schemaMinSupport` members just before promotion, so that the schema
  without members which promotion skips is met only when induction is off.
  `ingest-project --consolidate`, a pass by another name, is left to the pass.
* `DocGraph` leaves out the bridge by names
  that two projects share, which counts like a shared member.
* `Sources` has one account per service and starts without history: the query of
  the backfill, the filter of past events and the migration of an old cursor name
  choose among records and are left out. A history id that the mail server no
  longer knows is left out too; it would fail the mailbox as `MailIsLogged` shows.
  Whether a later page of history lists what has come since the first is the server's
  business: the model lets it be missed (`GetPosition`, `missed`). A directory that
  cannot be listed is its notes, each out of reach (`Visit`).
* `BeliefBridge` and `ToolCards` share the daily cap only as slots that tool cards
  take; their chats are those of the allowlist.

## 7. Not modelled, and why

Much of the repository is not control but text, pictures, prompts and
arithmetic, and there is nothing in it for a state machine to get wrong: this is
why the modules stand for a small share of its lines.

* Extraction and judge prompts, provider clients, retries: any answer and any
  error is allowed where they are used.
* Retrieval, recall and ranking: read-only, over real numbers.
* Stripping of hidden text, redaction, chunking and parsing of mail and notes:
  pure functions on strings, with their own tests. The transcript adapter is the
  same walk as the vault's.
* Schema induction, relations, insights and deduplication: thresholds and
  clusters decide, in transactions under the lock. `Belief` keeps the duplicates a
  merge would remove, `Documents` takes the schemas as given.
* The eviction sweep: one transaction per node that skips what is referred to and
  tries again in a later pass; what it leaves behind is storage.
* `remember`, `recall`, `surface` over MCP and HTTP: one append or one upsert each,
  behind the lock pattern of `approveProposal`.
* Hooks, scheduler and tray: they decide when a pass or a server starts; the
  fairness above and the crashes of the models stand for them.
* The status files of generators, which feed a progress bar, and `retire-chapters`.
* Texts, attachments and nudges of the Telegram client, and the prompt of its
  proposal engine.
* The web view, evaluation harnesses and the one-off seeding.
