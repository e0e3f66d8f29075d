---------------------------- MODULE MCAlgorithms ----------------------------
(***************************************************************************)
(* Algorithms over small inputs: every list of at most MaxRows rows with   *)
(* every combination of event times, and every grouping of three schemas   *)
(* under three subjects, for ladders with and without a cycle.  11 to 13   *)
(* are schemas and chapters, 0 is the project and its hub.                 *)
(***************************************************************************)
EXTENDS Algorithms

CONSTANTS MaxRows, Times

Lists(n) == {[i \in 1..n |-> [id |-> p[i], hard_keep |-> 0, salience |-> 0, event_ts |-> t[i]]] :
               p \in {q \in [1..n -> 1..n] : IsInjective(q)},
               t \in [1..n -> Times \cup {NoTs}]}

SomeBacklogs == UNION {Lists(n) : n \in 0..MaxRows}

\* Chains, forks and joins, and two schemas that abstract each other.
Ladders == SUBSET {<<11, 12>>, <<11, 13>>, <<12, 13>>} \cup {{<<11, 12>>, <<12, 11>>, <<12, 13>>}}

\* A fact in every schema, one that two share, and none.
MemberTables ==
  {<<{"m"}, {"m", "n"}, {"n"}>>, <<{"m"}, {"m"}, {}>>, <<{"m"}, {"m"}, {"m"}>>}

Thousandths == <<1099, 405, 0>>

SomeCorpora ==
  {[schemas |-> g, members |-> [s \in Schemas |-> t[s - 10]], ladder |-> l, related |-> r,
    scope |-> [s \in 1..3 |-> 0], hubs |-> {0}, chapters |-> {11, 13}] :
     g \in [1..3 -> SUBSET Schemas], t \in MemberTables, l \in Ladders, r \in {{}, {<<11, 13>>}}}
=============================================================================
