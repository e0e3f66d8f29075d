---------------------------- MODULE ProposalSync ----------------------------
(***************************************************************************)
(* The reference consumer of action proposals (clients/proposal-reference) *)
(* on top of the server of ActionProposal.                                 *)
(*                                                                         *)
(* A cron job runs a sync: it takes a lock file, lists the proposals and   *)
(* settles each one, keeping a row of its own per proposal in a JSON file. *)
(* The row is written before the request, so that a sync that dies or      *)
(* loses the answer leaves a trace; the next sync resumes the row.  Other  *)
(* consumers, people who tap a button, settle proposals at any time.       *)
(*                                                                         *)
(* The lock file is taken and judged in several system calls.  Between two *)
(* of them another sync may come or go.                                    *)
(***************************************************************************)
EXTENDS ActionProposal

CONSTANTS
  Syncs,       \* processes the cron job may run; each is a consumer
  Sure,        \* proposals with confidence high, which the sync approves
  LocalIds,    \* the ids newLocalId may return; it never runs out of them
  MaxTaps,     \* bound: requests of people
  MaxLosses,   \* bound: answers lost, late or never sent
  MaxCrashes,  \* bound: syncs killed
  MaxStalls    \* bound: syncs that run for over 15 minutes

ASSUME SyncAssumption ==
  /\ Syncs \subseteq Consumers
  /\ Sure \subseteq Proposals
  /\ MaxTaps \in Nat /\ MaxLosses \in Nat /\ MaxCrashes \in Nat /\ MaxStalls \in Nat

\* There are more ids than proposals: randomUUID does not return one twice.
ASSUME IdAssumption ==
  ~ \E f \in [LocalIds -> Proposals] : \A i, j \in LocalIds : f[i] = f[j] => i = j

People == Consumers \ Syncs

VARIABLES
  rows,      \* the local store
  fileLock,  \* the sync that made the lock file, or Nobody
  lockOld,   \* it is over 15 minutes old
  displaced, \* history: a sync removed the lock file of another that runs
  pc,        \* where each sync is
  todo,      \* listed proposals it has not looked at
  current,   \* the row it is settling, and whether it was there before
  taps, losses, crashes, stalls

localVars == <<rows, fileLock, lockOld, displaced, pc, todo, current>>
boundVars == <<taps, losses, crashes, stalls>>
vars == <<serverVars, localVars, boundVars>>

Row ==
  [localId : LocalIds, proposal : Proposals,
   localStatus : {"pending", "applied", "refused", "needs_reconciliation"}]

None == [resumed |-> FALSE]

\* A sync that has taken the lock.
Holding == {"list", "next", "post", "wait"}

TypeOK ==
  /\ rows \subseteq Row
  /\ \A r, q \in rows : r.localId = q.localId => r = q
  /\ fileLock \in Syncs \cup {Nobody}
  /\ lockOld \in BOOLEAN /\ displaced \in BOOLEAN
  /\ pc \in [Syncs -> {"idle", "create", "stat", "unlink", "retry"} \cup Holding]
  /\ todo \in [Syncs -> SUBSET Proposals]
  /\ current \in [Syncs -> [row : Row, resumed : BOOLEAN] \cup {None}]
  /\ \A s \in Syncs : pc[s] \in {"post", "wait"} =>
       current[s] # None /\ current[s].row.localStatus = "pending"

Init ==
  /\ ServerInit
  /\ rows = {} /\ fileLock = Nobody /\ lockOld = FALSE /\ displaced = FALSE
  /\ pc = [s \in Syncs |-> "idle"]
  /\ todo = [s \in Syncs |-> {}]
  /\ current = [s \in Syncs |-> None]
  /\ taps = 0 /\ losses = 0 /\ crashes = 0 /\ stalls = 0

-----------------------------------------------------------------------------
(* The local store and the lock file. *)

RowsOf(p) == {r \in rows : r.proposal = p}

Put(row) == rows' = {r \in rows : r.localId # row.localId} \cup {row}

FreshId == CHOOSE i \in LocalIds : \A r \in rows : r.localId # i

lockVars == <<fileLock, lockOld, displaced>>
jobVars == <<rows, todo, current>>

Goto(s, label) == pc' = [pc EXCEPT ![s] = label]

\* Whoever starts first has the file; the second refuses.
Start(s) ==
  /\ pc[s] = "idle" /\ Goto(s, "create")
  /\ UNCHANGED <<serverVars, jobVars, lockVars, boundVars>>

\* Fault: the file is written without O_EXCL.
CreateTruncating(s) ==
  /\ pc[s] \in {"create", "retry"}
  /\ fileLock' = s /\ lockOld' = FALSE /\ Goto(s, "list")
  /\ UNCHANGED <<serverVars, jobVars, displaced, boundVars>>

Create(s) ==
  /\ pc[s] \in {"create", "retry"}
  /\ \/ fileLock = Nobody /\ fileLock' = s /\ lockOld' = FALSE /\ Goto(s, "list")
     \/ /\ fileLock # Nobody
        /\ Goto(s, IF pc[s] = "create" THEN "stat" ELSE "idle")
        /\ UNCHANGED <<fileLock, lockOld>>
  /\ UNCHANGED <<serverVars, jobVars, displaced, boundVars>>

\* Fault: a lock file never ages.
StatIgnoresAge(s) ==
  /\ pc[s] = "stat"
  /\ Goto(s, IF fileLock = Nobody THEN "unlink" ELSE "idle")
  /\ UNCHANGED <<serverVars, jobVars, lockVars, boundVars>>

\* A file that has vanished counts as stale, too.
Stat(s) ==
  /\ pc[s] = "stat"
  /\ Goto(s, IF fileLock = Nobody \/ lockOld THEN "unlink" ELSE "idle")
  /\ UNCHANGED <<serverVars, jobVars, lockVars, boundVars>>

\* By path: the file may be another one by now.
Unlink(s) ==
  /\ pc[s] = "unlink" /\ Goto(s, "retry")
  /\ displaced' = (displaced \/ \E t \in Syncs \ {s} : fileLock = t /\ pc[t] \in Holding)
  /\ fileLock' = Nobody /\ lockOld' = FALSE
  /\ UNCHANGED <<serverVars, jobVars, boundVars>>

\* 15 minutes pass: a sync that died never removes its file; one that runs is
\* slow, a hundred proposals times a timeout of 10 s.
Age ==
  /\ fileLock # Nobody /\ ~lockOld /\ lockOld' = TRUE
  /\ IF pc[fileLock] \in Holding THEN stalls < MaxStalls /\ stalls' = stalls + 1
                                 ELSE UNCHANGED stalls
  /\ UNCHANGED <<serverVars, jobVars, fileLock, displaced, pc, taps, losses, crashes>>

\* Release unlinks the lock file whoever it names.
Finish(s) ==
  /\ fileLock' = Nobody /\ lockOld' = FALSE /\ UNCHANGED displaced
  /\ Goto(s, "idle")
  /\ todo' = [todo EXCEPT ![s] = {}]
  /\ current' = [current EXCEPT ![s] = None]

-----------------------------------------------------------------------------
(* One sync. *)

List(s) ==
  /\ pc[s] = "list"
  /\ todo' = [todo EXCEPT ![s] = Listed]
  /\ Goto(s, "next")
  /\ UNCHANGED <<serverVars, rows, lockVars, current, boundVars>>

\* An unanswered list, a malformed item or an unknown schema version: nothing
\* is applied.
ListFails(s) ==
  /\ pc[s] = "list" /\ losses < MaxLosses
  /\ losses' = losses + 1
  /\ Finish(s)
  /\ UNCHANGED <<serverVars, rows, taps, crashes, stalls>>

SettledHere(p) == \E r \in RowsOf(p) : r.localStatus # "pending"

Skip(s, p) ==
  /\ pc[s] = "next" /\ p \in todo[s] /\ SettledHere(p)
  /\ todo' = [todo EXCEPT ![s] = @ \ {p}]
  /\ UNCHANGED <<serverVars, rows, lockVars, pc, current, boundVars>>

Claims(s, p, id, resumed) ==
  LET row == [localId |-> id, proposal |-> p, localStatus |-> "pending"]
  IN /\ pc[s] = "next" /\ p \in todo[s] /\ ~SettledHere(p)
     /\ Put(row)
     /\ current' = [current EXCEPT ![s] = [row |-> row, resumed |-> resumed]]
     /\ todo' = [todo EXCEPT ![s] = @ \ {p}]
     /\ Goto(s, "post")
     /\ UNCHANGED <<serverVars, lockVars, boundVars>>

\* Fault: a resumed row gets a new local id.
ClaimAfresh(s, p) ==
  Claims(s, p, FreshId, RowsOf(p) # {})

\* Fault: a resumed row is not told from a new one, as before WR-01.
ClaimForgetful(s, p) ==
  \/ RowsOf(p) = {} /\ Claims(s, p, FreshId, FALSE)
  \/ \E r \in RowsOf(p) : Claims(s, p, r.localId, FALSE)

\* The row is on disk, pending, before the request leaves.
Claim(s, p) ==
  \/ RowsOf(p) = {} /\ Claims(s, p, FreshId, FALSE)
  \/ \E r \in RowsOf(p) : Claims(s, p, r.localId, TRUE)

DecideOutcome(p) == IF p \in Sure THEN "approve" ELSE "reject"

Post(s) ==
  /\ pc[s] = "post"
  /\ Send(s, current[s].row.proposal, DecideOutcome(current[s].row.proposal))
  /\ Goto(s, "wait")
  /\ UNCHANGED <<rows, lockVars, todo, current, boundVars>>

Record(s, outcome) == Put([current[s].row EXCEPT !.localStatus = outcome])

\* 503 leaves the row pending for a later sync.
Receive(s) ==
  LET p == current[s].row.proposal
      answer == requests[s][p].stage
  IN /\ pc[s] = "wait"
     /\ Take(s, p)
     /\ \/ answer = "ok" /\ Record(s, "applied")
        \/ answer = "busy" /\ UNCHANGED rows
        \/ answer = "conflict" /\ current[s].resumed /\ Record(s, "needs_reconciliation")
        \/ answer = "conflict" /\ ~current[s].resumed /\ Record(s, "refused")
        \/ answer = "not_found" /\ Record(s, "refused")
     /\ Goto(s, "next")
     /\ UNCHANGED <<lockVars, todo, current, boundVars>>

\* The answer is not there within 10 s, or the connection breaks: the error is
\* logged and the row stays pending.  The server may still serve the request.
GiveUp(s) ==
  /\ pc[s] = "wait" /\ losses < MaxLosses
  /\ losses' = losses + 1
  /\ Goto(s, "next")
  /\ UNCHANGED <<serverVars, rows, lockVars, todo, current, taps, crashes, stalls>>

End(s) ==
  /\ pc[s] = "next" /\ todo[s] = {}
  /\ Finish(s)
  /\ UNCHANGED <<serverVars, rows, boundVars>>

Crash(s) ==
  /\ pc[s] # "idle" /\ crashes < MaxCrashes
  /\ crashes' = crashes + 1
  /\ Goto(s, "idle")
  /\ todo' = [todo EXCEPT ![s] = {}]
  /\ current' = [current EXCEPT ![s] = None]
  /\ UNCHANGED <<serverVars, rows, lockVars, taps, losses, stalls>>

\* Nobody waits for the answer any more.
Dropped(s, p) ==
  /\ ~(pc[s] = "wait" /\ current[s].row.proposal = p)
  /\ Take(s, p)
  /\ UNCHANGED <<localVars, boundVars>>

-----------------------------------------------------------------------------

Tap(h, p) ==
  /\ status[p] # "none" /\ taps < MaxTaps
  /\ \E action \in Actions : Send(h, p, action)
  /\ taps' = taps + 1
  /\ UNCHANGED <<localVars, losses, crashes, stalls>>

Server ==
  /\ \/ World
     \/ \E c \in Consumers, p \in Proposals : Serve(c, p)
     \/ \E h \in People, p \in Proposals : Take(h, p)
  /\ UNCHANGED <<localVars, boundVars>>

Step(s) ==
  \/ Create(s) \/ Stat(s) \/ Unlink(s)
  \/ List(s) \/ Post(s) \/ Receive(s) \/ End(s)
  \/ \E p \in Proposals : Skip(s, p) \/ Claim(s, p)

Next ==
  \/ Server \/ Age
  \/ \E s \in Syncs :
       \/ Start(s) \/ Step(s)
       \/ ListFails(s) \/ GiveUp(s) \/ Crash(s)
       \/ \E p \in Proposals : Dropped(s, p)
  \/ \E h \in People, p \in Proposals : Tap(h, p)

Spec == Init /\ [][Next]_vars

\* Cron starts a sync again and again, a sync that runs goes on, a file that is
\* left ages, the server serves every request and a pass ends.  Nothing makes
\* anybody crash or tap.
Fairness ==
  /\ WF_vars(\E s \in Syncs : Start(s))
  /\ \A s \in Syncs : WF_vars(Step(s))
  /\ WF_vars(Age)
  /\ \A c \in Consumers, p \in Proposals :
       /\ WF_vars(Serve(c, p) /\ UNCHANGED <<localVars, boundVars>>)
       /\ c \in Syncs => WF_vars(Dropped(c, p))
  /\ WF_vars(PassEnds /\ UNCHANGED <<localVars, boundVars>>)

FairSpec == Spec /\ Fairness

-----------------------------------------------------------------------------
(* Properties. *)

\* One sync at a time: the second invocation must refuse (WR-06).
SingleFlight ==
  \A s, t \in Syncs : pc[s] \in Holding /\ pc[t] \in Holding => s = t

\* ... and it does, unless a sync has removed the file of another that runs.
OverlapOnlyByDisplacement == displaced \/ SingleFlight

\* However often a proposal is listed, resumed or answered late, it has one row,
\* and that row never inverts the truth (WR-01): applied means a sync of this
\* consumer settled the proposal, refused that none did.
LocalTruth ==
  displaced \/
    /\ \A p \in Proposals : Cardinality(RowsOf(p)) <= 1
    /\ \A r \in rows :
         /\ r.localStatus = "applied" => winner[r.proposal] \in Syncs
         /\ r.localStatus = "refused" => winner[r.proposal] \notin Syncs

\* A proposal the consumer has begun and that is still offered is settled or
\* withdrawn in the end, past busy passes, lost answers and crashes.
BegunIsFinished ==
  \A p \in Proposals :
    (RowsOf(p) # {} /\ p \in Listed) ~> (p \notin Listed)

-----------------------------------------------------------------------------
(* What the comments of the code promise beyond this. *)

\* index.ts and docs/reference-client.md say that the pending row makes a crash
\* resumable "rather than an invisible applied change": a proposal this
\* consumer settled does not stay pending in its store.
OwnSuccessRecorded ==
  \A p \in Proposals :
    (winner[p] \in Syncs) ~> (\A r \in RowsOf(p) : r.localStatus # "pending")
=============================================================================
