----------------------------- MODULE MCSources ------------------------------
(***************************************************************************)
(* Instances of Sources for TLC.                                           *)
(***************************************************************************)
EXTENDS Sources

CONSTANTS e1, n1, n2, t1, t2

Vault == \E n \in Notes : text[n] # None

\* Much happens in one of the sources, or little in the mailbox and the calendar.
Scenarios ==
  /\ Vault => /\ arrived = 0 /\ feed = <<>> /\ enabled \subseteq {"notes"}
              /\ cursor["mail"] = None /\ cursor["cal"] = None
  /\ arrived <= 1 \/ feed = <<>>
  /\ arrived = 0 \/ Len(feed) <= 1
  /\ faults <= 1 \/ (arrived = 0 /\ ~Vault)
=============================================================================
