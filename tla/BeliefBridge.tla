---------------------------- MODULE BeliefBridge ----------------------------
(***************************************************************************)
(* The belief bridge of the Telegram client (clients/telegram/             *)
(* belief-bridge.ts) on top of ProposalBoard: a poll pass prompts people   *)
(* about proposals, and the reactive tick turns the buttons they tap into  *)
(* decisions.                                                              *)
(*                                                                         *)
(* Both run in one event loop.  Between two awaits a handler runs alone,   *)
(* but every write it makes is a file of its own, and the process may die  *)
(* between two of them.  A send may time out after the message arrived.    *)
(* Telegram delivers a tap again until the cursor is committed past it.    *)
(***************************************************************************)
EXTENDS ProposalBoard

CONSTANTS
  Entities,      \* entity_descriptor values
  EntityOf,
  Due,           \* expires_at, as a rank
  Chats,         \* the allowlist
  DailyCap,      \* proposalDailyCap
  GroupMax,      \* MAX_GROUP_CONSTITUENTS
  MaxOthers,     \* bound: proposals that lapse, or others retire or decide
  MaxDays,       \* bound: midnights
  MaxTaps,       \* bound: buttons tapped
  MaxFails,      \* bound: sends and requests that fail cleanly
  MaxUnknown,    \* bound: sends that fail after the message arrived
  MaxLost,       \* bound: decisions whose answer is lost
  MaxCrashes,    \* bound: crashes of the client
  MaxSlots       \* bound: tool cards generated in a day

ASSUME BridgeAssumption ==
  /\ EntityOf \in [Proposals -> Entities] /\ Due \in [Proposals -> Nat]
  /\ DailyCap \in Nat /\ GroupMax \in Nat \ {0}
  /\ MaxDays \in Nat \ {0}
  /\ {MaxOthers, MaxTaps, MaxFails, MaxUnknown, MaxLost, MaxCrashes, MaxSlots} \subseteq Nat

VARIABLES
  rows,      \* localStatus of the stored belief rows
  cap,       \* the daily cap of the store
  ledger,    \* the prompt ledger of the state file
  stats,     \* the decision counters of the state file, refusals included
  today,     \* local date
  pass,      \* the poll pass
  tick,      \* the reactive tick
  queue,     \* taps Telegram has not been told are done
  shown,     \* history: buttons on the screen of each chat
  prompts,   \* history: prompts that reached a chat since midnight, by entity
  slots,     \* history: tool cards granted since midnight
  taken,     \* history: decisions of the client the server accepted
  faults     \* history: what went wrong so far

bridgeVars ==
  <<boardVars, rows, cap, ledger, stats, today, pass, tick, queue,
    shown, prompts, slots, taken, faults>>

Dates == 0..MaxDays
Tap == [proposal : Proposals, decision : Decisions, nth : 1..MaxTaps]

\* Between two awaits a handler runs alone.
LoopFree ==
  /\ pass.pc \notin {"group", "store", "reserve", "ledger"}
  /\ tick.pc \notin {"terminal", "count", "park", "refuse", "tally"}

Idle == [pc |-> "idle"]

\* The pass waits for the list, has it, takes the groups one by one, stores the
\* rows of a group, sends its prompt and writes down that it did.
Storing ==
  [pc : {"store"}, date : Dates, entity : Entities, left : SUBSET Proposals,
   known : SUBSET Entities, group : SUBSET Proposals, todo : SUBSET Proposals]
Prompts ==
  [pc : {"send", "sent", "reserve", "ledger"}, date : Dates, entity : Entities,
   left : SUBSET Proposals, known : SUBSET Entities, group : SUBSET Proposals,
   chats : SUBSET Chats, delivered : Nat]
Passes ==
  {Idle} \cup Storing \cup Prompts
  \cup [pc : {"list"}, date : Dates]
  \cup [pc : {"listed"}, date : Dates, records : SUBSET Proposals]
  \cup [pc : {"group"}, date : Dates, left : SUBSET Proposals, known : SUBSET Entities]

\* The tick holds a batch of taps Telegram has not been told are done.
Ticks ==
  {Idle}
  \cup [pc : {"next"}, batch : SUBSET queue, left : SUBSET queue]
  \cup [pc : {"next", "post", "ok", "conflict", "missing", "none",
               "terminal", "count", "park", "refuse", "tally"},
        batch : SUBSET queue, left : SUBSET queue, tap : queue]

Counters == Decisions \cup {"refused"}
Counted == [other : Nat, fail : Nat, unknown : Nat, lost : Nat, crash : Nat, tap : Nat, midnight : BOOLEAN]

BridgeTypeOK ==
  /\ BoardTypeOK
  /\ rows \in [Proposals -> {"none", "pending", "terminal", "needs_reconciliation"}]
  /\ cap \in [date : Dates, count : 0..DailyCap]
  /\ ledger \in [date : Dates, entities : SUBSET Entities]
  /\ stats \in [Counters -> Nat] /\ taken \in [Decisions -> Nat]
  /\ today \in Dates /\ slots \in 0..MaxSlots
  /\ pass \in Passes /\ tick \in Ticks /\ queue \subseteq Tap
  /\ shown \in [Chats -> SUBSET Proposals]
  /\ prompts \in [Chats -> [Entities -> Nat]]
  /\ faults \in Counted

NoPrompts == [c \in Chats |-> [e \in Entities |-> 0]]

BridgeInit ==
  /\ BoardInit
  /\ rows = [p \in Proposals |-> "none"]
  /\ cap = [date |-> 0, count |-> 0]
  /\ ledger = [date |-> 0, entities |-> {}]
  /\ stats = [d \in Counters |-> 0]
  /\ today = 1 /\ pass = Idle /\ tick = Idle /\ queue = {}
  /\ shown = [c \in Chats |-> {}]
  /\ prompts = NoPrompts /\ slots = 0 /\ taken = [d \in Decisions |-> 0]
  /\ faults = [other |-> 0, fail |-> 0, unknown |-> 0, lost |-> 0, crash |-> 0, tap |-> 0, midnight |-> FALSE]

Spend(fault, bound) ==
  faults[fault] < bound /\ faults' = [faults EXCEPT ![fault] = @ + 1]

-----------------------------------------------------------------------------
(* The world: the server, the clock and the push tick. *)

\* The writes between two awaits commute with what others do, so others wait.
NotTheClient ==
  /\ LoopFree
  /\ UNCHANGED <<rows, cap, ledger, stats, today, pass, tick, queue, shown, prompts, slots, taken>>

Emitted(p) == Publish(p) /\ UNCHANGED faults /\ NotTheClient

\* Proposals lapse, beliefs are superseded and other consumers decide.
Others(p) ==
  /\ Lapse(p) \/ Withdraw({p}) \/ \E d \in Decisions : Decide(p, d)
  /\ Spend("other", MaxOthers) /\ NotTheClient

Midnight ==
  /\ LoopFree /\ today < MaxDays /\ today' = today + 1
  /\ faults' = [faults EXCEPT !.midnight = pass # Idle]
  /\ prompts' = NoPrompts /\ slots' = 0
  /\ UNCHANGED <<boardVars, rows, cap, ledger, stats, pass, tick, queue, shown, taken>>

\* Fault: the cap is never looked up.
UsedNever(date) == 0

\* tryReserveProposalSlot.
UsedOn(date) == IF cap.date = date THEN cap.count ELSE 0

Reserve(date) ==
  IF UsedOn(date) < DailyCap THEN [date |-> date, count |-> UsedOn(date) + 1] ELSE cap

\* The push tick takes a slot of the same cap for a tool card.
ToolCard ==
  /\ LoopFree /\ UsedOn(today) < DailyCap /\ slots < MaxSlots
  /\ cap' = Reserve(today)
  /\ slots' = slots + 1
  /\ UNCHANGED <<boardVars, rows, ledger, stats, today, pass, tick, queue, shown, prompts, taken, faults>>

-----------------------------------------------------------------------------
(* runBeliefBridgePass. *)

PassOnly ==
  UNCHANGED <<boardVars, stats, today, tick, queue, slots, taken>>

PollStart ==
  /\ LoopFree /\ pass = Idle
  /\ pass' = [pc |-> "list", date |-> today]
  /\ PassOnly /\ UNCHANGED <<rows, cap, ledger, shown, prompts, faults>>

\* Fault: after a failure the pass is in flight for good.
ListFailsForGood ==
  /\ pass.pc = "list" /\ pass' = [pc |-> "stuck"]
  /\ Spend("fail", MaxFails)
  /\ PassOnly /\ UNCHANGED <<rows, cap, ledger, shown, prompts>>

ListFails ==
  /\ pass.pc = "list" /\ pass' = Idle
  /\ Spend("fail", MaxFails)
  /\ PassOnly /\ UNCHANGED <<rows, cap, ledger, shown, prompts>>

\* The server reads the rows; the answer is handled later.  Without rows there
\* is nothing to handle.
ListRead ==
  /\ pass.pc = "list"
  /\ pass' = IF Offered = {} THEN Idle ELSE [pc |-> "listed", date |-> pass.date, records |-> Offered]
  /\ PassOnly /\ UNCHANGED <<rows, cap, ledger, shown, prompts, faults>>

\* The read of a row drops every expired one.
Live == [p \in Proposals |-> IF p \in lapsed THEN "none" ELSE rows[p]]
PromptedOn(date) == IF ledger.date = date THEN ledger.entities ELSE {}

\* A lookup drops every expired row, and returns the row it looks for as it was
\* before: only the first lookup of a pass still sees an expired one.
Seen(first) == [Live EXCEPT ![first] = rows[first]]

\* Fault: the ledger is not looked at.
CandidatesUngated(records, first, date) == {p \in records : Seen(first)[p] = "none"}

\* Dedup on the local id, then one prompt per entity and day.
Candidates(records, first, date) ==
  {p \in records : Seen(first)[p] = "none" /\ EntityOf[p] \notin PromptedOn(date)}

Listed ==
  /\ LoopFree /\ pass.pc = "listed"
  /\ rows' = Live
  /\ \E first \in pass.records :
       LET left == Candidates(pass.records, first, pass.date) IN
         pass' = IF left = {} THEN Idle
                 ELSE [pc |-> "group", date |-> pass.date, left |-> left, known |-> PromptedOn(pass.date)]
  /\ PassOnly /\ UNCHANGED <<cap, ledger, shown, prompts, faults>>

\* The earliest GroupMax rows of an entity.
Constituents(S) ==
  {p \in S : Cardinality({q \in S \ {p} : Due[q] < Due[p]}) < GroupMax}

\* The next group, if the cap leaves room for it; else the pass is over.
Group ==
  /\ pass.pc = "group"
  /\ \/ /\ pass.left = {} \/ UsedOn(pass.date) >= DailyCap
        /\ pass' = Idle
     \/ /\ UsedOn(pass.date) < DailyCap
        /\ \E p \in pass.left :
             LET all == {q \in pass.left : EntityOf[q] = EntityOf[p]} IN
             /\ \A q \in pass.left : Due[p] <= Due[q]
             /\ pass' = [pc |-> "store", date |-> pass.date, entity |-> EntityOf[p],
                         left |-> pass.left \ all, known |-> pass.known,
                         group |-> Constituents(all), todo |-> Constituents(all)]
  /\ PassOnly /\ UNCHANGED <<rows, cap, ledger, shown, prompts, faults>>

Sending == [pc |-> "send", date |-> pass.date, entity |-> pass.entity,
            left |-> pass.left, known |-> pass.known, group |-> pass.group,
            chats |-> Chats, delivered |-> 0]

\* Fault: the prompt is sent before its rows are stored.
StoreNothing ==
  /\ pass.pc = "store" /\ pass' = Sending
  /\ PassOnly /\ UNCHANGED <<rows, cap, ledger, shown, prompts, faults>>

\* Store-first: each row is a write of the store.
Store ==
  /\ pass.pc = "store"
  /\ \/ \E p \in pass.todo :
          /\ rows' = [rows EXCEPT ![p] = "pending"]
          /\ pass' = [pass EXCEPT !.todo = @ \ {p}]
     \/ pass.todo = {} /\ pass' = Sending /\ UNCHANGED rows
  /\ PassOnly /\ UNCHANGED <<cap, ledger, shown, prompts, faults>>

\* The message appears in a chat.
Appear(c) ==
  /\ shown' = [shown EXCEPT ![c] = @ \cup pass.group]
  /\ prompts' = [prompts EXCEPT ![c][pass.entity] = @ + 1]

\* The await of one sendMessage: the send returns, fails, or fails after the
\* message has arrived.
Send(c) ==
  /\ pass.pc = "send" /\ c \in pass.chats
  /\ \/ /\ pass' = [pass EXCEPT !.pc = "sent", !.delivered = @ + 1, !.chats = @ \ {c}]
        /\ Appear(c) /\ UNCHANGED faults
     \/ /\ pass' = [pass EXCEPT !.pc = "sent", !.chats = @ \ {c}]
        /\ \/ Spend("fail", MaxFails) /\ UNCHANGED <<shown, prompts>>
           \/ Spend("unknown", MaxUnknown) /\ Appear(c)
  /\ PassOnly /\ UNCHANGED <<rows, cap, ledger>>

NextGroup == [pc |-> "group", date |-> pass.date, left |-> pass.left, known |-> pass.known]
Removed(group) == [p \in Proposals |-> IF p \in group THEN "none" ELSE rows[p]]

\* Fault: the rows of a prompt nobody got are kept.
KeepRows(group) == rows

\* No chat got the prompt: the rows are removed and the next pass tries again.
Rollback(group) == Removed(group)

SendReturns ==
  /\ LoopFree /\ pass.pc = "sent"
  /\ \/ /\ pass.chats # {}
        /\ pass' = [pass EXCEPT !.pc = "send"] /\ UNCHANGED rows
     \/ /\ pass.chats = {} /\ pass.delivered = 0
        /\ rows' = Rollback(pass.group) /\ pass' = NextGroup
     \/ /\ pass.chats = {} /\ pass.delivered > 0
        /\ pass' = [pass EXCEPT !.pc = "reserve"] /\ UNCHANGED rows
  /\ PassOnly /\ UNCHANGED <<cap, ledger, shown, prompts, faults>>

ReserveSlot ==
  /\ pass.pc = "reserve"
  /\ cap' = Reserve(pass.date)
  /\ pass' = [pass EXCEPT !.pc = "ledger"]
  /\ PassOnly /\ UNCHANGED <<rows, ledger, shown, prompts, faults>>

\* The counts of the day were read when the pass began.
WriteLedger ==
  /\ pass.pc = "ledger"
  /\ LET entities == pass.known \cup {pass.entity}
     IN  /\ ledger' = [date |-> pass.date, entities |-> entities]
         /\ pass' = [NextGroup EXCEPT !.known = entities]
  /\ PassOnly /\ UNCHANGED <<rows, cap, shown, prompts, faults>>

PassStep ==
  \/ ListRead \/ Listed \/ Group \/ Store
  \/ (\E c \in Chats : Send(c)) \/ SendReturns \/ ReserveSlot \/ WriteLedger

-----------------------------------------------------------------------------
(* runClientTick: the taps, and handleBeliefProposalAction for each. *)

TickOnly == UNCHANGED <<gone, lapsed, cap, ledger, today, pass, shown, prompts, slots>>

\* A person taps a button; Telegram keeps the tap until it is confirmed.
Press(c, p, d) ==
  /\ LoopFree /\ p \in shown[c] /\ Spend("tap", MaxTaps)
  /\ queue' = queue \cup {[proposal |-> p, decision |-> d, nth |-> faults.tap + 1]}
  /\ UNCHANGED <<boardVars, rows, cap, ledger, stats, today, pass, tick, shown, prompts, slots, taken>>

Fetch ==
  /\ LoopFree /\ tick = Idle /\ queue # {}
  /\ tick' = [pc |-> "next", batch |-> queue, left |-> queue]
  /\ TickOnly /\ UNCHANGED <<status, rows, stats, queue, taken, faults>>

Goto(pc) == tick' = [tick EXCEPT !.pc = pc]

\* Fault: a row that is no longer pending leads to a request.
LoadSettled ==
  /\ LoopFree /\ tick.pc = "next"
  /\ \E t \in tick.left :
       /\ \A u \in tick.left : t.nth <= u.nth
       /\ rows' = [rows EXCEPT ![t.proposal] = Live[t.proposal]]
       /\ tick' = [pc |-> IF Live[t.proposal] = "none" THEN "next" ELSE "post",
                   batch |-> tick.batch, left |-> tick.left \ {t}, tap |-> t]
  /\ TickOnly /\ UNCHANGED <<status, stats, queue, taken, faults>>

\* loadExecutable drops an expired row; only a row that is pending leads to a
\* request.
Load ==
  /\ LoopFree /\ tick.pc = "next"
  /\ \E t \in tick.left :
       /\ \A u \in tick.left : t.nth <= u.nth
       /\ rows' = [rows EXCEPT ![t.proposal] = Live[t.proposal]]
       /\ tick' = [pc |-> IF Live[t.proposal] = "pending" THEN "post" ELSE "next",
                   batch |-> tick.batch, left |-> tick.left \ {t}, tap |-> t]
  /\ TickOnly /\ UNCHANGED <<status, stats, queue, taken, faults>>

\* The server decides; its 200 or 409 is on its way, or lost.  It answers 404
\* when it has evicted the settled row with one of its nodes.
Serve ==
  /\ tick.pc = "post"
  /\ LET p == tick.tap.proposal
         d == tick.tap.decision
     IN  /\ IF status[p] = "pending" THEN Decide(p, d) ELSE UNCHANGED boardVars
         /\ taken' = IF Granted(p, d) THEN [taken EXCEPT ![d] = @ + 1] ELSE taken
         /\ \/ Goto(IF Granted(p, d) THEN "ok" ELSE "conflict") /\ UNCHANGED faults
            \/ status[p] \in Outcomes /\ Goto("missing") /\ UNCHANGED faults
            \/ Goto("none") /\ Spend("lost", MaxLost)
  /\ UNCHANGED <<rows, cap, ledger, stats, today, pass, queue, shown, prompts, slots>>

\* 503, 401 or no connection: nothing was decided.
NotServed ==
  /\ tick.pc = "post" /\ Goto("none") /\ Spend("fail", MaxFails)
  /\ TickOnly /\ UNCHANGED <<status, rows, stats, queue, taken>>

\* Fault: a conflict is taken for the decision.
OnConflictCounted == IF tick.pc \in {"ok", "conflict"} THEN "terminal" ELSE "next"

\* Fault: an unknown outcome is taken for a success.
OnAnswerHopeful ==
  CASE tick.pc \in {"ok", "none"} -> "terminal" [] tick.pc = "conflict" -> "park"
    [] tick.pc = "missing" -> "refuse" [] OTHER -> "next"

\* The answer is mapped by its status alone.
OnAnswer ==
  CASE tick.pc = "ok" -> "terminal" [] tick.pc = "conflict" -> "park"
    [] tick.pc = "missing" -> "refuse" [] OTHER -> "next"

Answer ==
  /\ LoopFree /\ tick.pc \in {"ok", "conflict", "missing", "none"} /\ Goto(OnAnswer)
  /\ TickOnly /\ UNCHANGED <<status, rows, stats, queue, taken, faults>>

Put(localStatus, pc) ==
  /\ rows' = [rows EXCEPT ![tick.tap.proposal] = localStatus]
  /\ Goto(pc)
  /\ TickOnly /\ UNCHANGED <<status, stats, queue, taken, faults>>

\* A row that was rolled back meanwhile is back.
PutTerminal == tick.pc = "terminal" /\ Put("terminal", "count")
Park == tick.pc = "park" /\ Put("needs_reconciliation", "next")
PutRefused == tick.pc = "refuse" /\ Put("terminal", "tally")

\* The confirmation is sent and the next tap of the batch follows.
Count ==
  /\ tick.pc = "count" /\ Goto("next")
  /\ stats' = [stats EXCEPT ![tick.tap.decision] = @ + 1]
  /\ TickOnly /\ UNCHANGED <<status, rows, queue, taken, faults>>

Tally ==
  /\ tick.pc = "tally" /\ Goto("next")
  /\ stats' = [stats EXCEPT !["refused"] = @ + 1]
  /\ TickOnly /\ UNCHANGED <<status, rows, queue, taken, faults>>

\* The cursor is committed past the batch: Telegram drops the taps it holds.
Commit ==
  /\ LoopFree /\ tick.pc = "next" /\ tick.left = {}
  /\ tick' = Idle /\ queue' = queue \ tick.batch
  /\ TickOnly /\ UNCHANGED <<status, rows, stats, taken, faults>>

TickStep ==
  \/ Fetch \/ Load \/ Serve \/ NotServed \/ Answer
  \/ PutTerminal \/ Park \/ PutRefused \/ Count \/ Tally \/ Commit

-----------------------------------------------------------------------------

\* The client dies and starts again; what was in flight is forgotten.
Crash ==
  /\ pass # Idle \/ tick # Idle
  /\ Spend("crash", MaxCrashes)
  /\ pass' = Idle /\ tick' = Idle
  /\ UNCHANGED <<boardVars, rows, cap, ledger, stats, today, queue, shown, prompts, slots, taken>>

BridgeNext ==
  \/ (\E p \in Proposals : Emitted(p) \/ Others(p))
  \/ Midnight \/ ToolCard \/ Crash
  \/ PollStart \/ ListFails \/ PassStep
  \/ TickStep
  \/ \E c \in Chats, p \in Proposals, d \in Decisions : Press(c, p, d)

\* Timers fire, awaits end (every request has a timeout) and the loop runs on.
BridgeSpec ==
  /\ BridgeInit /\ [][BridgeNext]_bridgeVars
  /\ WF_bridgeVars(PollStart) /\ WF_bridgeVars(PassStep) /\ WF_bridgeVars(TickStep)

-----------------------------------------------------------------------------
(* Properties. *)

\* Store-first and roll back on failure (T-68-11): as long as the client does
\* not crash, a proposal whose row keeps it out of later passes is on somebody's
\* screen, or the pass is still busy with it.
NothingSuppressed ==
  faults.crash = 0 =>
    \A p \in Proposals : rows[p] = "pending" =>
      \/ \E c \in Chats : p \in shown[c]
      \/ pass.pc \in {"store", "send", "sent"} /\ p \in pass.group

\* A button on a screen has its row, unless the proposal expired or a send that
\* was reported as failed had arrived.
ButtonsBacked ==
  faults.unknown = 0 =>
    \A c \in Chats : \A p \in shown[c] : rows[p] # "none" \/ p \in lapsed

\* A row and the prompt it stands for come and go together.
RowsBacked == NothingSuppressed /\ ButtonsBacked

\* One prompt per entity and day in a chat (D-07); a further one has a send of
\* unknown outcome, a crash or a pass that spans midnight to explain it.
PromptsExplained ==
  \A c \in Chats, e \in Entities :
    prompts[c][e] <= 1 + faults.unknown + faults.crash + IF faults.midnight THEN 1 ELSE 0

\* The prompts and tool cards of a day exceed the cap by at most the prompt that
\* was being sent when a tool card took the last slot, as long as no pass spans
\* midnight and nothing was lost.
Prompted == {e \in Entities : \E c \in Chats : prompts[c][e] > 0}
CapKept ==
  ~faults.midnight /\ faults.unknown + faults.crash = 0 =>
    slots + Cardinality(Prompted) <= DailyCap + 1

\* Every prompt of a day is accounted for, in the ledger and in the cap.
PromptsAccounted == PromptsExplained /\ CapKept

\* The counters shown to the person who decides never claim a decision the
\* server did not accept (D-09), and lose one only to a crash or a lost answer.
StatsHonest ==
  /\ \A d \in Decisions : stats[d] <= taken[d]
  /\ tick = Idle /\ faults.crash + faults.lost = 0 => \A d \in Decisions : stats[d] = taken[d]

\* A row is closed only when the server has settled the proposal.
ClosedIsSettled ==
  \A p \in Proposals :
    rows[p] \in {"terminal", "needs_reconciliation"} => status[p] \in Outcomes

\* What the client has on record about decisions is what the server decided.
RecordsTrue == StatsHonest /\ ClosedIsSettled

\* A closed row stays closed until it expires, whatever taps are delivered again
\* and whatever a pass that listed the proposal earlier does (T-68-17), unless a
\* send that was reported as failed had arrived.
ClosedStays ==
  [][\A p \in Proposals \ lapsed :
       faults.unknown = 0 /\ rows[p] \in {"terminal", "needs_reconciliation"} =>
         rows'[p] = rows[p]]_bridgeVars

\* A proposal on the board appears on somebody's screen in the end, whatever
\* lists and sends fail, unless it leaves the board, its entity or the cap is
\* used up for the day, or the client has died between storing its row and
\* sending the prompt.
EventuallyPrompted ==
  \A p \in Proposals :
    p \in Offered ~>
      \/ p \notin Offered \/ \E c \in Chats : p \in shown[c]
      \/ EntityOf[p] \in PromptedOn(today) \/ UsedOn(today) >= DailyCap
      \/ faults.crash > 0 /\ pass = Idle /\ rows[p] = "pending"

-----------------------------------------------------------------------------
(* What the comments of the code promise beyond this. *)

\* "a lost message must never become a permanently suppressed proposal (T-68-11)".
NeverSuppressed ==
  \A p \in Proposals : rows[p] = "pending" =>
    (\E c \in Chats : p \in shown[c]) \/ pass # Idle

\* "a replayed/duplicate tap on a row already settled must never re-POST or
\* double-count": it needs the row.  A pass stores and rolls back without a second
\* look, so that the row of a prompt reported as failed, which had arrived and was
\* answered, is removed, or opened again by a pass with an old list.
ClosedForGood ==
  [][\A p \in Proposals \ lapsed :
       rows[p] \in {"terminal", "needs_reconciliation"} => rows'[p] = rows[p]]_bridgeVars

\* dailyCap is the "Maximum proposals allowed per local calendar day".
ToolCardsWithinCap == slots <= DailyCap
=============================================================================
