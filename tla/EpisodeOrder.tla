---------------------------- MODULE EpisodeOrder ----------------------------
(***************************************************************************)
(* The order in which a sleep pass replays the episode log:                *)
(* EpisodicStore.listUnconsolidated (src/db/episode-store.ts) refined by   *)
(* orderEpisodesForConsolidation (src/consolidation/episode-order.ts).     *)
(*                                                                         *)
(* A row is [id, hard_keep, salience, event_ts]; event_ts is NoTs when the *)
(* source asserts no event time, salience counts in thousandths.           *)
(***************************************************************************)
EXTENDS Integers, FiniteSets, SequencesExt

CONSTANT NoTs

ASSUME NoTsAssumption == NoTs \notin Int

LogRow == [id : Int, hard_keep : Int, salience : Int, event_ts : Int \cup {NoTs}]

\* id is the primary key of the episode table.
DistinctIds(S) == \A a, b \in S : a.id = b.id => a = b

\* A list of rows as the query returns one.
IsBacklog(rows) ==
  /\ rows \in Seq(LogRow)
  /\ \A i, j \in DOMAIN rows : rows[i].id = rows[j].id => i = j

\* The elements of the finite set S arranged by R, the pairs of an earlier and a
\* later one: each stands where the number of those before it puts it.
InOrder(S, R) ==
  [k \in 1..Cardinality(S) |->
     CHOOSE x \in S : Cardinality({y \in S : <<y, x>> \in R}) = k - 1]

\* ORDER BY hard_keep DESC, salience DESC; the id stands for the order SQLite
\* happens to give to equal rows.
Before(a, b) ==
  \/ a.hard_keep > b.hard_keep
  \/ a.hard_keep = b.hard_keep /\ a.salience > b.salience
  \/ a.hard_keep = b.hard_keep /\ a.salience = b.salience /\ a.id < b.id

ListUnconsolidated(S) == InOrder(S, {p \in S \X S : Before(p[1], p[2])})

Older(a, b) ==
  a.event_ts < b.event_ts \/ (a.event_ts = b.event_ts /\ a.id < b.id)

ByEventTime(S) == InOrder(S, {p \in S \X S : Older(p[1], p[2])})

\* The index slots of rows that carry an event time.
TimedSlots(rows) == {i \in DOMAIN rows : rows[i].event_ts # NoTs}

\* Fault: a plain sort by event time, rows without one going last.
SortGlobally(rows) ==
  LET inf == 1000
      key(r) == IF r.event_ts = NoTs THEN [r EXCEPT !.event_ts = inf] ELSE r
      all == ToSet(rows)
  IN InOrder(all, {p \in all \X all : Older(key(p[1]), key(p[2]))})

\* Fault: two adjacent slots are exchanged where needed, in one sweep.
SortOneSweep(rows) ==
  LET timed == TimedSlots(rows)
      slots == InOrder(timed, {p \in timed \X timed : p[1] < p[2]})
  IN [i \in DOMAIN rows |->
        IF Len(slots) >= 2 /\ i \in {slots[1], slots[2]} /\ Older(rows[slots[2]], rows[slots[1]])
        THEN rows[IF i = slots[1] THEN slots[2] ELSE slots[1]] ELSE rows[i]]

\* The timed rows are sorted and written back into exactly their slots.
OrderEpisodes(rows) ==
  LET slots  == TimedSlots(rows)
      sorted == ByEventTime({rows[i] : i \in slots})
  IN IF Cardinality(slots) < 2 THEN rows
     ELSE [i \in DOMAIN rows |->
             IF i \in slots THEN sorted[Cardinality({j \in slots : j <= i})] ELSE rows[i]]

\* The order in which a pass replays the episodes S, whose rows are those of row.
ReplayOrder(S, row) ==
  LET rows == OrderEpisodes(ListUnconsolidated({row[e] : e \in S}))
  IN [i \in DOMAIN rows |-> CHOOSE e \in S : row[e] = rows[i]]

-----------------------------------------------------------------------------
\* Reference definitions, over a list and its reordering.

\* Nothing is lost or repeated, and a row without an event time keeps its slot:
\* every prefix of a pass that is cut short holds the same untimed rows and the
\* same number of timed ones, so old mail cannot displace a salient episode.
SlotPreserving(rows, out) ==
  /\ DOMAIN out = DOMAIN rows
  /\ ToSet(out) = ToSet(rows)
  /\ \A i \in DOMAIN rows : i \notin TimedSlots(rows) => out[i] = rows[i]

\* Among rows with an event time the older one comes first, wherever both are.
OldestFirst(out) ==
  \A i, j \in TimedSlots(out) : i < j => Older(out[i], out[j])
=============================================================================
