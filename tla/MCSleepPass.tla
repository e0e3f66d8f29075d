---------------------------- MODULE MCSleepPass -----------------------------
(***************************************************************************)
(* Instances of SleepPass for TLC: a user turn, a mail delivered twice, a  *)
(* conclusion of the system, a turn that repeats it and a record of an     *)
(* approved action, replayed in the order of EpisodeOrder.                 *)
(***************************************************************************)
EXTENDS SleepPass, TLC

CONSTANTS turn, mail, mailAgain, conclusion, echo, approved, bad, NoTs, MailId

Rows == INSTANCE EpisodeOrder

\* hard_keep, salience and event_ts of each row.
RowOf(e) ==
  CASE e = mail       -> [id |-> 1, hard_keep |-> 0, salience |-> 2, event_ts |-> 7]
    [] e = mailAgain  -> [id |-> 2, hard_keep |-> 0, salience |-> 2, event_ts |-> 7]
    [] e = bad        -> [id |-> 3, hard_keep |-> 1, salience |-> 3, event_ts |-> 9]
    [] e = turn       -> [id |-> 4, hard_keep |-> 1, salience |-> 1, event_ts |-> NoTs]
    [] e = echo       -> [id |-> 5, hard_keep |-> 0, salience |-> 3, event_ts |-> NoTs]
    [] e = approved   -> [id |-> 6, hard_keep |-> 0, salience |-> 1, event_ts |-> NoTs]
    [] e = conclusion -> [id |-> 7, hard_keep |-> 0, salience |-> 0, event_ts |-> NoTs]
    [] OTHER          -> [id |-> 8, hard_keep |-> 0, salience |-> 0, event_ts |-> NoTs]

OrderTable ==
  [S \in SUBSET Episodes |-> Rows!ReplayOrder(S, [e \in S |-> RowOf(e)])]

OrderOf(S) == OrderTable[S]

MessageOf == [e \in Episodes |-> IF e \in {mail, mailAgain} THEN MailId ELSE NoMessage]

EchoPairs == {<<conclusion, echo>>} \cap (Episodes \X Episodes)

MailRows == {turn, mail, mailAgain, bad}
EchoRows == {mail, mailAgain, conclusion, echo, approved}

PassSymmetry == Permutations(Passes)
=============================================================================
