------------------------------ MODULE Sources -------------------------------
(***************************************************************************)
(* What `brain-ingest` (adapter/ingest-cli.ts) does under the write lock:  *)
(* it pulls from three kinds of source in turn, appends what they return   *)
(* to the episode log, advances a cursor for each, digests the log and     *)
(* forgets what a calendar cancelled.                                      *)
(*                                                                         *)
(*   - the mailbox (source/gmail-adapter.ts) is a history of messages; the *)
(*     cursor is a position in it, and there is none before the backfill;  *)
(*   - the calendar (source/calendar-adapter.ts) is a feed of changes; the *)
(*     cursor is a token that the server may stop to accept (410);         *)
(*   - the vault (source/obsidian-adapter.ts) is a folder of notes; the    *)
(*     cursor is the newest mtime a walk has met.                          *)
(*                                                                         *)
(* The lock is the one Lockfile describes, exclusive here.  Notes,         *)
(* versions of an event and messages stand for the records made of them.   *)
(***************************************************************************)
EXTENDS Naturals, Sequences, FiniteSets

CONSTANTS
  Events, Versions,    \* calendar events, and what one may say (time, title)
  Notes, Texts,        \* notes of the vault, and what one may say
  None,
  MaxMessages, MaxTime, MaxChanges, MaxFaults  \* bounds

ASSUME ConstantsAssumption ==
  /\ None \notin Versions \cup Texts \cup Nat
  /\ MaxMessages \in Nat /\ MaxTime \in Nat /\ MaxChanges \in Nat /\ MaxFaults \in Nat

VARIABLES
  arrived, removed,  \* mailbox: messages 1..arrived, and those deleted since
  cal, feed,         \* calendar: its events, and every change of one
  expired,           \* the server has dropped the token of the calendar cursor
  mtime, text,       \* vault
  log,               \* external ids in the episode log, per source
  cursor,            \* meta: cursor:<source>
  channel,           \* meta: calendar:cancelled
  queue,             \* calendar rows not digested yet
  due,               \* what the live node of an event says, None without one
  pc, enabled, ahead,  \* the ingest process: step, its sources, those still to pull
  batch, next,       \* records and cursor the current adapter returned
  todo,              \* notes the walk has still to visit
  faults,
  missed, lost, unlucky  \* history: what the design lets slip, see below

worldVars == <<arrived, removed, cal, feed, expired, mtime, text>>
storeVars == <<log, cursor, channel, queue, due>>
procVars  == <<pc, enabled, ahead, batch, next, todo>>
slipVars  == <<missed, lost, unlucky>>
vars == <<worldVars, storeVars, procVars, faults, slipVars>>

Sources == {"mail", "cal", "notes"}
Booked  == {e \in Events : cal[e] # None}
Changed(since) == {feed[i].event : i \in (since + 1)..Len(feed)}
Change == [event : Events, what : {"booked", "cancelled", "instance"}]

\* The adapter whose turn it is: enabledSources in the order of the config.
Source ==
  IF "mail" \in ahead THEN "mail" ELSE IF "cal" \in ahead THEN "cal" ELSE "notes"

Records ==
  [mail  |-> 1..MaxMessages, cal |-> Events \X Versions, notes |-> Notes \X Texts]

TypeOK ==
  /\ arrived \in 0..MaxMessages /\ removed \subseteq 1..arrived
  /\ cal \in [Events -> Versions \cup {None}] /\ feed \in Seq(Change)
  /\ expired \in BOOLEAN
  /\ mtime \in [Notes -> 0..MaxTime] /\ text \in [Notes -> Texts \cup {None}]
  /\ DOMAIN log = Sources /\ \A s \in Sources : log[s] \subseteq Records[s]
  /\ cursor \in [Sources -> Nat \cup {None}]
  /\ channel \subseteq Events /\ queue \subseteq Events \X Versions
  /\ due \in [Events -> Versions \cup {None}]
  /\ pc \in {"idle", "pull", "profile", "bodies", "walk", "append", "commit",
             "consolidate", "forget", "clear"}
  /\ enabled \subseteq Sources /\ ahead \subseteq enabled
  /\ next \in Nat \cup {None} /\ todo \subseteq Notes /\ faults \in 0..MaxFaults
  /\ missed \subseteq Nat /\ lost \subseteq Events /\ unlucky \subseteq Notes

Init ==
  /\ arrived = 0 /\ removed = {}
  /\ cal = [e \in Events |-> None] /\ feed = <<>> /\ expired = FALSE
  /\ mtime = [n \in Notes |-> 0] /\ text = [n \in Notes |-> None]
  /\ log = [s \in Sources |-> {}]
  /\ cursor = [s \in Sources |-> IF s = "notes" THEN 0 ELSE None]
  /\ channel = {} /\ queue = {} /\ due = [e \in Events |-> None]
  /\ pc = "idle" /\ enabled = {} /\ ahead = {} /\ batch = {} /\ next = None /\ todo = {}
  /\ faults = 0 /\ missed = {} /\ lost = {} /\ unlucky = {}

-----------------------------------------------------------------------------
\* The world outside.

Arrive ==
  /\ arrived < MaxMessages /\ arrived' = arrived + 1
  /\ UNCHANGED <<removed, cal, feed, expired, mtime, text>>

Remove(m) ==
  /\ m \in 1..arrived /\ removed' = removed \cup {m}
  /\ UNCHANGED <<arrived, cal, feed, expired, mtime, text>>

Happens(e, what) ==
  /\ Len(feed) < MaxChanges /\ feed' = Append(feed, [event |-> e, what |-> what])
  /\ UNCHANGED <<arrived, removed, expired, mtime, text>>

\* An event is entered, moved, renamed or restored.
Book(e, v) == cal[e] # v /\ cal' = [cal EXCEPT ![e] = v] /\ Happens(e, "booked")

Cancel(e) == cal[e] # None /\ cal' = [cal EXCEPT ![e] = None] /\ Happens(e, "cancelled")

\* One occurrence of a series is called off; the series goes on.
CancelInstance(e) == cal[e] # None /\ Happens(e, "instance") /\ UNCHANGED cal

Expire ==
  /\ cursor["cal"] # None /\ expired' = TRUE
  /\ UNCHANGED <<arrived, removed, cal, feed, mtime, text>>

\* A walk that has begun does not visit n any more.
Behind(n) == Source = "notes" /\ pc \in {"walk", "append", "commit"} /\ n \notin todo

\* A note is saved.  A tool that restores a file may give it an old mtime.
Save(n, x, t) ==
  /\ text[n] # x
  /\ text' = [text EXCEPT ![n] = x] /\ mtime' = [mtime EXCEPT ![n] = t]
  /\ unlucky' = IF t <= cursor["notes"] \/ Behind(n)
                THEN unlucky \cup {n} ELSE unlucky \ {n}
  /\ UNCHANGED <<arrived, removed, cal, feed, expired, missed, lost>>

World ==
  /\ \/ /\ \/ Arrive
           \/ \E m \in 1..MaxMessages : Remove(m)
           \/ \E e \in Events : (\E v \in Versions : Book(e, v)) \/ Cancel(e) \/ CancelInstance(e)
           \/ Expire
        /\ UNCHANGED slipVars
     \/ \E n \in Notes, x \in Texts, t \in 1..MaxTime : Save(n, x, t)
  /\ UNCHANGED <<storeVars, procVars, faults>>

-----------------------------------------------------------------------------
\* The pull phase.

Goto(step) == pc' = step /\ UNCHANGED <<enabled, ahead, batch, next, todo>>

EndPass ==
  /\ pc' = "idle" /\ enabled' = {} /\ ahead' = {}
  /\ batch' = {} /\ next' = None /\ todo' = {}

\* Every source (the hourly job), one by hand, or none: the pass of another
\* command, which digests the log like this one and stops there.
Start(S) ==
  /\ pc = "idle"
  /\ S = Sources \/ S = {} \/ \E s \in Sources : S = {s}
  /\ enabled' = S /\ ahead' = S /\ batch' = {} /\ next' = None /\ todo' = {}
  /\ pc' = IF S = {} THEN "consolidate" ELSE "pull"
  /\ UNCHANGED <<worldVars, storeVars, faults, slipVars>>

\* On to the next adapter, or to the consolidation after the last.
Proceed ==
  /\ ahead' = ahead \ {Source}
  /\ pc' = IF ahead' = {} THEN "consolidate" ELSE "pull"
  /\ batch' = {} /\ next' = None /\ todo' = {} /\ UNCHANGED enabled

\* Fault: the error ends the pull phase.
AdapterFailsForAll == EndPass

\* The current adapter throws: it is skipped, its cursor stays.
AdapterFails == Proceed

\* Fault: the cursor is written with the fetch.
FetchedAndCommitted(records, position) ==
  /\ batch' = records /\ next' = position /\ pc' = "append"
  /\ cursor' = [cursor EXCEPT ![Source] = position]
  /\ UNCHANGED <<enabled, ahead, todo>>

\* pull() resolves to records and the cursor that stands for them.
Fetched(records, position) ==
  /\ batch' = records /\ next' = position /\ pc' = "append"
  /\ UNCHANGED <<enabled, ahead, todo, cursor>>

\* Mail.  The messages after the cursor, or all there are, are listed in pages.
Unlisted == IF cursor["mail"] = None THEN 1..arrived ELSE (cursor["mail"] + 1)..arrived

\* One page of history carries its own position.
ListMessages ==
  /\ pc = "pull" /\ Source = "mail"
  /\ batch' = IF cursor["mail"] = None THEN Unlisted \ removed ELSE Unlisted
  /\ \/ cursor["mail"] # None /\ next' = arrived /\ pc' = "bodies"
     \/ pc' = "profile" /\ UNCHANGED next
  /\ UNCHANGED <<enabled, ahead, todo>>
  /\ UNCHANGED <<worldVars, storeVars, faults, slipVars>>

\* The position comes with the last of several pages, or is asked for after the
\* backfill (getProfile): it may be past what the pages list.
GetPosition ==
  /\ pc = "profile"
  /\ next' = arrived /\ pc' = "bodies"
  /\ missed' = missed \cup (Unlisted \ batch)
  /\ UNCHANGED <<enabled, ahead, batch, todo, lost, unlucky>>
  /\ UNCHANGED <<worldVars, storeVars, faults>>

\* messages.get, one by one: a message that is gone fails the adapter.
GetBodies ==
  /\ pc = "bodies"
  /\ IF batch \cap removed # {} THEN AdapterFails /\ UNCHANGED cursor
                                ELSE Fetched(batch, next)
  /\ UNCHANGED <<worldVars, log, channel, queue, due, faults, slipVars>>

\* Calendar.  A change is reported per event: a cancelled event as such, and a
\* series by its first instance, which is a cancelled one if nothing else of the
\* series changed (a cancelled instance has no start and sorts last).
Rebooked(since) == {feed[i].event : i \in {j \in (since + 1)..Len(feed) : feed[j].what = "booked"}}
Confirmed(since) == Booked \cap Rebooked(since)
CancelledSince(since) == Changed(since) \ Confirmed(since)
Rows(S) == {<<e, cal[e]>> : e \in S}

\* Fault: the list of this pull replaces the one in the store.
NotedAfresh(E) == E

\* Added to what earlier passes noted and no pass has carried out yet.
Noted(E) == channel \cup E

\* The store still holds something of e.
Remembered(e) == due[e] # None \/ \E v \in Versions : <<e, v>> \in queue

\* Without a token: what the calendar holds now, nothing of what it has dropped.
FetchAll ==
  /\ pc = "pull" /\ Source = "cal" /\ cursor["cal"] = None
  /\ Fetched(Rows(Booked), Len(feed))
  /\ lost' = lost \cup {e \in Events \ (Booked \cup channel) : Remembered(e)}
  /\ UNCHANGED <<worldVars, log, channel, queue, due, faults, missed, unlucky>>

\* 410: the token is wiped at once and the pull returns nothing.
FetchGone ==
  /\ pc = "pull" /\ Source = "cal" /\ cursor["cal"] # None /\ expired
  /\ cursor' = [cursor EXCEPT !["cal"] = None] /\ expired' = FALSE
  /\ Proceed
  /\ UNCHANGED <<arrived, removed, cal, feed, mtime, text>>
  /\ UNCHANGED <<log, channel, queue, due, faults, slipVars>>

\* The cancelled go to the channel while the pull runs, the others to the batch.
FetchChanges ==
  /\ pc = "pull" /\ Source = "cal" /\ cursor["cal"] # None /\ ~expired
  /\ Fetched(Rows(Confirmed(cursor["cal"])), Len(feed))
  /\ channel' = Noted(CancelledSince(cursor["cal"]))
  /\ lost' = lost \ CancelledSince(cursor["cal"])
  /\ UNCHANGED <<worldVars, log, queue, due, faults, missed, unlucky>>

\* Vault.
WalkStarts ==
  /\ pc = "pull" /\ Source = "notes"
  /\ todo' = Notes /\ next' = cursor["notes"] /\ pc' = "walk"
  /\ UNCHANGED <<enabled, ahead, batch>>
  /\ UNCHANGED <<worldVars, storeVars, faults, slipVars>>

Later(t) == IF t > next THEN t ELSE next

Visit(n) ==
  /\ pc = "walk" /\ n \in todo
  /\ todo' = todo \ {n}
  /\ \/ /\ mtime[n] <= cursor["notes"]
        /\ UNCHANGED <<batch, next, faults, unlucky>>
     \/ /\ mtime[n] > cursor["notes"]
        /\ next' = Later(mtime[n]) /\ batch' = batch \cup {<<n, text[n]>>}
        /\ unlucky' = unlucky \ {n} /\ UNCHANGED faults
     \/ \* The note cannot be read, and its mtime counts all the same; or it cannot
        \* be reached (realpath, stat, readdir), and any later note may pass it.
        /\ mtime[n] > cursor["notes"] /\ faults < MaxFaults
        /\ next' \in {next, Later(mtime[n])} /\ UNCHANGED batch
        /\ unlucky' = unlucky \cup {n} /\ faults' = faults + 1
  /\ UNCHANGED <<pc, enabled, ahead, worldVars, storeVars, missed, lost>>

WalkEnds ==
  /\ pc = "walk" /\ todo = {}
  /\ Fetched(batch, next)
  /\ UNCHANGED <<worldVars, log, channel, queue, due, faults, slipVars>>

\* Network or credentials: the mailbox or the calendar does not answer.
PullFails ==
  /\ pc \in {"pull", "profile", "bodies"} /\ Source # "notes"
  /\ faults < MaxFaults /\ faults' = faults + 1
  /\ AdapterFails
  /\ UNCHANGED <<worldVars, storeVars, slipVars>>

\* One transaction per adapter; a known external id is ignored.
AppendBatch ==
  /\ pc = "append"
  /\ log' = [log EXCEPT ![Source] = @ \cup batch]
  /\ queue' = IF Source = "cal" THEN queue \cup (batch \ log["cal"]) ELSE queue
  /\ Goto("commit")
  /\ UNCHANGED <<worldVars, cursor, channel, due, faults, slipVars>>

\* A mail or calendar server that named no position leaves the cursor as it was.
CommitCursor ==
  /\ pc = "commit"
  /\ \/ cursor' = [cursor EXCEPT ![Source] = next] /\ UNCHANGED faults
     \/ Source # "notes" /\ faults < MaxFaults /\ faults' = faults + 1 /\ UNCHANGED cursor
  /\ Proceed
  /\ UNCHANGED <<worldVars, log, channel, queue, due, slipVars>>

-----------------------------------------------------------------------------
\* The rest of the pass.

\* Rows that fail stay in the queue.  Salience decides the order, so of several
\* versions of one event any may be the last.
Consolidate ==
  /\ pc = "consolidate"
  /\ \E failed \in SUBSET queue :
       LET done == queue \ failed
           said(e) == {v \in Versions : <<e, v>> \in done}
       IN /\ failed # {} => faults < MaxFaults
          /\ faults' = IF failed = {} THEN faults ELSE faults + 1
          /\ due' \in [Events -> Versions \cup {None}]
          /\ \A e \in Events : due'[e] \in (IF said(e) = {} THEN {due[e]} ELSE said(e))
          /\ queue' = failed
  /\ IF "cal" \in enabled THEN Goto("forget") ELSE EndPass
  /\ UNCHANGED <<worldVars, log, cursor, channel, slipVars>>

\* Every node that carries the id of a cancelled event is tombstoned.
Forget ==
  /\ pc = "forget"
  /\ due' = [e \in Events |-> IF e \in channel THEN None ELSE due[e]]
  /\ Goto("clear")
  /\ UNCHANGED <<worldVars, log, cursor, channel, queue, faults, slipVars>>

Clear ==
  /\ pc = "clear"
  /\ channel' = {} /\ lost' = lost \cup {e \in channel : Remembered(e)}
  /\ EndPass
  /\ UNCHANGED <<worldVars, log, cursor, queue, due, faults, missed, unlucky>>

\* An append or the consolidation throws, or the process dies: what is in the
\* database stays, the next run starts over.
Interrupted ==
  /\ pc # "idle" /\ faults < MaxFaults /\ faults' = faults + 1
  /\ EndPass
  /\ UNCHANGED <<worldVars, storeVars, slipVars>>

PassStep ==
  \/ ListMessages \/ GetPosition \/ GetBodies
  \/ FetchAll \/ FetchGone \/ FetchChanges
  \/ WalkStarts \/ (\E n \in Notes : Visit(n)) \/ WalkEnds
  \/ AppendBatch \/ CommitCursor \/ Consolidate \/ Forget \/ Clear

Next ==
  \/ World
  \/ \E S \in SUBSET Sources : Start(S)
  \/ PassStep \/ PullFails \/ Interrupted

Spec == Init /\ [][Next]_vars

\* The hourly job is started again and again and finds the lock free in the end;
\* a process that runs goes on until it ends, is interrupted or dies.
FairSpec == Spec /\ SF_vars(Start(Sources)) /\ WF_vars(PassStep)

-----------------------------------------------------------------------------
\* What holds.

\* Whatever a cursor has passed is in the log, through any failure, crash or
\* wiped token (the fetch/commit split of ingest-cli.ts and of every adapter).
\* Three gaps are the design's own: messages that come while a list is paged,
\* notes that are saved behind a walk or with an old mtime, notes that could not
\* be reached or read.
MailLogged ==
  cursor["mail"] # None => \A m \in 1..cursor["mail"] : m \in log["mail"] \cup missed

CalendarLogged ==
  cursor["cal"] # None =>
    \A e \in Booked \ Rebooked(cursor["cal"]) : <<e, cal[e]>> \in log["cal"]

NotesLogged ==
  \A n \in Notes :
    mtime[n] \in 1..cursor["notes"] => <<n, text[n]>> \in log["notes"] \/ n \in unlucky

NothingSkipped == MailLogged /\ CalendarLogged /\ NotesLogged

\* What the calendar says of an event gets into the log unless it says something
\* else by then, though the mailbox may fail in every pass, the token expire and
\* passes die (isolation of adapters, recovery from 410).
BookedIsLogged ==
  \A e \in Events, v \in Versions :
    cal[e] = v ~> (cal[e] # v \/ <<e, v>> \in log["cal"])

\* An event that the calendar cancelled is forgotten unless it comes back,
\* whatever interrupts the passes between the pull that notes it and the step
\* that tombstones (calendar-tombstone.ts).  Two gaps are the design's own: a
\* cancellation that falls between an expired token and the fetch after it, and
\* a row of the event that is digested after the list was cleared.
CancelledIsForgotten ==
  \A e \in Events : cal[e] = None ~> (cal[e] # None \/ due[e] = None \/ e \in lost)

-----------------------------------------------------------------------------
\* What does not hold.

\* calendar-adapter.ts: a cancelled instance "must NOT tombstone the series".
SeriesSurvives ==
  \A e \in channel : \E i \in DOMAIN feed : feed[i] = [event |-> e, what |-> "cancelled"]

\* The store says in the end what the calendar says.  An event that returns to
\* an earlier version has the external id of the old row and is ignored; two
\* versions digested by one pass come in the order of their salience; an event
\* that is restored before its noted cancellation is carried out is forgotten.
DueIsCurrent ==
  \A e \in Events, v \in Versions : cal[e] = v ~> (cal[e] # v \/ due[e] = v)

\* A message that arrives is logged in the end: not after a message that the
\* history names was deleted, which fails every later pull of the mailbox.
MailIsLogged ==
  \A m \in 1..MaxMessages :
    arrived >= m ~> (m \in log["mail"] \cup removed \cup missed)
=============================================================================
