----------------------------- MODULE Algorithms -----------------------------
(***************************************************************************)
(* The pure functions of a pass, at work: EpisodeOrder on a backlog and    *)
(* DocGraph on a corpus.  A state is an input, or the input after a step.  *)
(***************************************************************************)
EXTENDS EpisodeOrder, DocGraph

CONSTANTS
  Backlogs, \* lists of rows
  Corpora,  \* corpora, as DocGraph describes them
  NoCorpus

ASSUME InputAssumption ==
  /\ \A b \in Backlogs : IsBacklog(b)
  /\ \A c \in Corpora : IsCorpus(c)

VARIABLES rows, ordered, corpus

AlgorithmsInit ==
  /\ ordered = FALSE
  /\ \/ rows \in Backlogs /\ corpus = NoCorpus
     \/ rows = <<>> /\ corpus \in Corpora

\* A pass lists and reorders the backlog; reordering it once more changes nothing.
Reorder == rows' = OrderEpisodes(rows) /\ ordered' = TRUE /\ UNCHANGED corpus

AlgorithmsSpec == AlgorithmsInit /\ [][Reorder]_<<rows, ordered, corpus>>

\* A reordered list replays older events first (EMAIL-04), in the slots that rows
\* with an event time had before: the others are "NEVER moved" (episode-order.ts).
ReplaysOldestFirst ==
  [][SlotPreserving(rows, rows') /\ OldestFirst(rows')]_<<rows, ordered>>

\* Containment among the documents of every corpus is an order to descend by (D-09).
Descends == ordered /\ corpus # NoCorpus => DescendsWell(corpus)

\* References complement containment and strand nobody (D-05).
Linked == ordered /\ corpus # NoCorpus => LinkedOnce(corpus)
=============================================================================
