----------------------------- MODULE MCBelief -------------------------------
(***************************************************************************)
(* Instances of Belief for TLC: a fresh and a well-established level of    *)
(* resistance, and one magnitude for each outcome of the gate.             *)
(***************************************************************************)
EXTENDS Belief, TLC

\* Fresh node (0.1 * 0.5) and one that was confirmed many times.
Levels == <<5, 50>>

\* The damping factors of src/lib/config.ts.
ConfigDamping == [i \in Confidences |-> CASE i = "high" -> 100 [] i = "medium" -> 60 [] OTHER -> 0]

TwoDates == {0, 1, 2}

\* Either conversations, without dates and intents, over three nodes; or dated
\* mail, with and without intents, over two.
Conversation ==
  /\ \A n \in DOMAIN nodes : nodes[n].support = 0
  /\ episode # NoEpisode => episode.ts = 0
  /\ claim # NoClaim => claim.confidence = NoIntent /\ claim.magnitude \in {30, 100}

Mail ==
  /\ Len(nodes) <= 2 /\ \A n \in DOMAIN nodes : nodes[n].support > 0
  /\ episode # NoEpisode => episode.ts > 0
  /\ claim # NoClaim => claim.magnitude \in {30, 60}

Scenarios == Conversation \/ Mail

Interchangeable == Permutations(Values) \cup Permutations(Sessions)
=============================================================================
