----------------------------- MODULE ToolCards -----------------------------
(***************************************************************************)
(* The proactive half of the Telegram client (clients/telegram/index.ts):  *)
(* the push tick offers urgent occurrences, as a card that proposes a tool *)
(* call or as a plain reminder, and the reactive tick handles the buttons  *)
(* and texts that answer, up to the call of the tool.                      *)
(*                                                                         *)
(* The two ticks run in one event loop and meet between awaits.  The store *)
(* of cards and the cursor are files and survive a crash; the confirmation *)
(* or the edit a chat owes is kept in memory and does not.  The outcomes   *)
(* of occurrences are rows of the server (surfaced_event).  The daily cap  *)
(* is modelled in BeliefBridge: here a slot is granted or not.             *)
(***************************************************************************)
EXTENDS Naturals, Sequences, FiniteSets

CONSTANTS
  ItemList,    \* occurrences of tier 0 (<<node_id, due_at>>), as ranked
  ChatList,    \* the allowlist, in order
  MaxCards,    \* bound: cards issued
  MaxUpdates,  \* bound: buttons tapped and texts typed
  MaxLapses,   \* bound: cards that lapse
  MaxFails,    \* bound: calls that fail
  MaxCrashes   \* bound: crashes of the client

ASSUME CardAssumption ==
  /\ Len(ItemList) \in Nat /\ Len(ChatList) \in Nat
  /\ MaxCards \in Nat /\ MaxUpdates \in Nat /\ MaxLapses \in Nat /\ MaxFails \in Nat /\ MaxCrashes \in Nat

Items == {ItemList[i] : i \in 1..Len(ItemList)}
Chats == {ChatList[i] : i \in 1..Len(ChatList)}
Ids == 1..MaxCards
NoCard == 0

VARIABLES
  outcome,   \* outcome of the surfaced_event row of each occurrence
  issued,    \* the cards made so far; the id of a card is its place
  cards,     \* ids of the cards in the store
  lapsed,    \* ids of the cards past their due date or time to live
  visible,   \* what each chat shows: ids of cards and plain reminders
  confirm,   \* pendingTypedConfirm: the card each chat must confirm
  edit,      \* pendingEdit: the card each chat may patch
  push,      \* the push tick
  tick,      \* the reactive tick
  queue,     \* updates Telegram has not been told are done
  calls,     \* history: calls of the tool of each card
  agreed,    \* history: ids whose typed confirmation matched
  faults     \* history: failures, crashes and updates so far

memoryVars == <<confirm, edit, push, tick>>
cardVars == <<outcome, issued, cards, lapsed, visible, memoryVars, queue, calls, agreed, faults>>

Idle == [pc |-> "idle"]
\* The root of a card is the card that edits have made it from.
Card == [item : Items, chat : Chats, destructive : BOOLEAN, root : Ids]
Closing == {"completed", "dismissed"}

Update ==
  [nth : 1..MaxUpdates, chat : Chats, kind : {"text"}, text : {"value", "patch"}]
  \cup [nth : 1..MaxUpdates, chat : Chats, kind : {"card"}, button : {"approve", "reject", "edit"}, id : Ids]
  \cup [nth : 1..MaxUpdates, chat : Chats, kind : {"plain"}, button : Closing \cup {"snoozed"}, item : Items]

\* The push tick has turns left, each an occurrence and a chat, and an offer on
\* its way; the reactive tick has updates left, and a card it is busy with.
Turns == (1..Len(ItemList)) \X (1..Len(ChatList))
Pushes ==
  {Idle} \cup [pc : {"next"}, left : SUBSET Turns]
  \cup [pc : {"generate", "send", "mark"}, left : SUBSET Turns,
        id : Ids \cup {NoCard}, item : Items, chat : Chats]
Ticks ==
  {Idle} \cup [pc : {"next"}, left : SUBSET queue]
  \cup [pc : {"next", "call", "close", "reject", "remove", "patch", "swap", "resend"},
        left : SUBSET queue, id : Ids \cup {NoCard}, at : queue]

CardTypeOK ==
  /\ outcome \in [Items -> {"none", "surfaced", "snoozed"} \cup Closing]
  /\ issued \in Seq(Card) /\ Len(issued) <= MaxCards
  /\ cards \subseteq 1..Len(issued) /\ lapsed \subseteq Ids
  /\ visible \in [Chats -> [cards : SUBSET Ids, plain : SUBSET Items]]
  /\ confirm \in [Chats -> Ids \cup {NoCard}] /\ edit \in [Chats -> Ids \cup {NoCard}]
  /\ queue \subseteq Update /\ push \in Pushes /\ tick \in Ticks
  /\ calls \in [Ids -> Nat] /\ agreed \subseteq Ids
  /\ faults \in [fail : Nat, crash : Nat, update : Nat]

CardInit ==
  /\ outcome = [i \in Items |-> "none"]
  /\ issued = <<>> /\ cards = {} /\ lapsed = {}
  /\ visible = [c \in Chats |-> [cards |-> {}, plain |-> {}]]
  /\ confirm = [c \in Chats |-> NoCard] /\ edit = [c \in Chats |-> NoCard]
  /\ push = Idle /\ tick = Idle /\ queue = {}
  /\ calls = [k \in Ids |-> 0] /\ agreed = {}
  /\ faults = [fail |-> 0, crash |-> 0, update |-> 0]

Fail == faults.fail < MaxFails /\ faults' = [faults EXCEPT !.fail = @ + 1]

\* surfaceSeen: an unconditional upsert.
Mark(i, value) == outcome' = [outcome EXCEPT ![i] = value]

-----------------------------------------------------------------------------
(* runPushTick: each occurrence is offered to each chat in turn. *)

PushOnly == UNCHANGED <<lapsed, confirm, edit, tick, queue, calls, agreed>>

\* isExcluded: only an occurrence nobody was shown, or whose snooze is over.
Due == {i \in Items : outcome[i] = "none"}

\* The tick is over when no turn is left.
Turn(left) == IF left = {} THEN Idle ELSE [pc |-> "next", left |-> left]

\* surface() answers; with nothing due the tick is over at once.
PushStart ==
  /\ push = Idle /\ Due # {}
  /\ push' = Turn({t \in Turns : ItemList[t[1]] \in Due})
  /\ PushOnly /\ UNCHANGED <<outcome, issued, cards, visible, faults>>

\* All chats of one occurrence, then the next occurrence.
Foremost(t) == \A u \in push.left : t[1] < u[1] \/ (t[1] = u[1] /\ t[2] <= u[2])

\* A slot is reserved and a proposal asked for, or the cap is used up.
NextOffer ==
  /\ push.pc = "next"
  /\ \E t \in push.left, pc \in {"generate", "send"} :
       /\ Foremost(t)
       /\ push' = [pc |-> pc, left |-> push.left \ {t}, id |-> NoCard,
                   item |-> ItemList[t[1]], chat |-> ChatList[t[2]]]
  /\ PushOnly /\ UNCHANGED <<outcome, issued, cards, visible, faults>>

NewCard(item, chat, destructive, root) ==
  /\ Len(issued) < MaxCards
  /\ issued' = Append(issued, [item |-> item, chat |-> chat, destructive |-> destructive, root |-> root])
  /\ cards' = cards \cup {Len(issued) + 1}

Proposed ==
  /\ \E d \in BOOLEAN : NewCard(push.item, push.chat, d, Len(issued) + 1)
  /\ push' = [push EXCEPT !.pc = "send", !.id = Len(issued) + 1]

\* Fault: without a proposal the occurrence is skipped.
GenerateOrSkip ==
  /\ push.pc = "generate"
  /\ Proposed \/ (push' = Turn(push.left) /\ UNCHANGED <<issued, cards>>)
  /\ PushOnly /\ UNCHANGED <<outcome, visible, faults>>

\* Fault: the card is not stored.
GenerateUnstored ==
  /\ push.pc = "generate" /\ Len(issued) < MaxCards
  /\ issued' = Append(issued, [item |-> push.item, chat |-> push.chat, destructive |-> FALSE, root |-> Len(issued) + 1])
  /\ push' = [push EXCEPT !.pc = "send", !.id = Len(issued) + 1]
  /\ PushOnly /\ UNCHANGED <<outcome, visible, faults, cards>>

\* tryGenerateProposal; the card is stored before it is sent.  Without a
\* proposal the occurrence is sent as a plain reminder.
Generate ==
  /\ push.pc = "generate"
  /\ Proposed \/ (push' = [push EXCEPT !.pc = "send"] /\ UNCHANGED <<issued, cards>>)
  /\ PushOnly /\ UNCHANGED <<outcome, visible, faults>>

Show(chat, id, item) ==
  visible' = IF id # NoCard THEN [visible EXCEPT ![chat].cards = @ \cup {id}]
             ELSE [visible EXCEPT ![chat].plain = @ \cup {item}]

\* A send that fails ends the whole tick; the message may be there all the same.
PushSend ==
  /\ push.pc = "send"
  /\ \/ Show(push.chat, push.id, push.item) /\ push' = [push EXCEPT !.pc = "mark"] /\ UNCHANGED faults
     \/ Show(push.chat, push.id, push.item) /\ push' = Idle /\ Fail
     \/ push' = Idle /\ Fail /\ UNCHANGED visible
  /\ PushOnly /\ UNCHANGED <<outcome, issued, cards>>

\* Fault: the other chats of a marked occurrence are skipped.
PushMarkOnce ==
  /\ push.pc = "mark" /\ Mark(push.item, "surfaced")
  /\ push' = Turn({t \in push.left : ItemList[t[1]] # push.item})
  /\ PushOnly /\ UNCHANGED <<issued, cards, visible, faults>>

PushMark ==
  /\ push.pc = "mark"
  /\ \/ Mark(push.item, "surfaced") /\ push' = Turn(push.left) /\ UNCHANGED faults
     \/ push' = Idle /\ Fail /\ UNCHANGED outcome
  /\ PushOnly /\ UNCHANGED <<issued, cards, visible>>

PushStep == NextOffer \/ Generate \/ PushSend \/ PushMark

-----------------------------------------------------------------------------
(* People and time. *)

Possible(u) ==
  CASE u.kind = "card"  -> u.id \in visible[u.chat].cards
    [] u.kind = "plain" -> u.item \in visible[u.chat].plain
    [] OTHER -> TRUE

\* A button that is on the screen, or a text; Telegram keeps it until it is
\* confirmed.  What arrives during a tick is fetched by the next, so it waits.
Act(u) ==
  /\ tick = Idle /\ u.nth = faults.update + 1 /\ Possible(u)
  /\ faults' = [faults EXCEPT !.update = @ + 1]
  /\ queue' = queue \cup {u}
  /\ UNCHANGED <<outcome, issued, cards, lapsed, visible, memoryVars, calls, agreed>>

LapseCard(k) ==
  /\ k <= Len(issued) /\ k \notin lapsed /\ Cardinality(lapsed) < MaxLapses /\ lapsed' = lapsed \cup {k}
  /\ UNCHANGED <<outcome, issued, cards, visible, memoryVars, queue, calls, agreed, faults>>

SnoozeEnds(i) ==
  /\ outcome[i] = "snoozed" /\ Mark(i, "none")
  /\ UNCHANGED <<issued, cards, lapsed, visible, memoryVars, queue, calls, agreed, faults>>

-----------------------------------------------------------------------------
(* runClientTick: texts first, then buttons, then the cursor. *)

TickOnly == UNCHANGED <<lapsed, push>>
Quiet == UNCHANGED <<outcome, issued, cards, visible, calls, agreed, faults>>

Fetch ==
  /\ tick = Idle /\ queue # {}
  /\ tick' = [pc |-> "next", left |-> queue]
  /\ TickOnly /\ Quiet /\ UNCHANGED <<confirm, edit, queue>>

Before(u, v) == IF (u.kind = "text") = (v.kind = "text") THEN u.nth <= v.nth ELSE u.kind = "text"
Earliest(u) == \A v \in tick.left : Before(u, v)
Rest(u, pc, id) == tick' = [pc |-> pc, left |-> tick.left \ {u}, id |-> id, at |-> u]
Skip(u) == Rest(u, "next", NoCard)
Step(pc) == tick' = [tick EXCEPT !.pc = pc]

\* loadExecutable: an expired card is dropped and does nothing.  A card whose
\* tool has been taken off the allowlist meanwhile stays and does nothing (H-04).
Run(u, k) ==
  \/ k \in cards \ lapsed /\ (Rest(u, "call", k) \/ Skip(u)) /\ UNCHANGED cards
  \/ k \notin cards \ lapsed /\ Skip(u) /\ cards' = cards \ {k}

\* A text is first taken for the confirmation the chat owes, then for its patch,
\* then for a question.  Either entry is consumed, in time or not.  A question
\* that is not answered ends the tick, and the cursor stays.
TextConfirm(u) ==
  /\ u.kind = "text" /\ confirm[u.chat] # NoCard
  /\ LET k == confirm[u.chat] IN
       \/ /\ u.text = "value" /\ agreed' = agreed \cup {k} /\ Run(u, k)
       \/ /\ Skip(u) /\ UNCHANGED <<agreed, cards>>
  /\ confirm' = [confirm EXCEPT ![u.chat] = NoCard]
  /\ TickOnly /\ UNCHANGED <<outcome, issued, visible, calls, faults, edit, queue>>

TextPatch(u) ==
  /\ u.kind = "text" /\ confirm[u.chat] = NoCard
  /\ LET k == edit[u.chat] IN
       /\ k # NoCard
       /\ \/ Skip(u) /\ UNCHANGED cards
          \/ /\ u.text = "patch" /\ cards' = cards \ lapsed
             /\ \/ k \in cards /\ Rest(u, "patch", k)
                \/ k \notin cards /\ Skip(u)
  /\ edit' = [edit EXCEPT ![u.chat] = NoCard]
  /\ TickOnly /\ UNCHANGED <<outcome, issued, visible, calls, agreed, faults, confirm, queue>>

TextQuestion(u) ==
  /\ u.kind = "text"
  /\ confirm[u.chat] = NoCard /\ edit[u.chat] = NoCard
  /\ (Skip(u) /\ UNCHANGED faults) \/ (tick' = Idle /\ Fail)
  /\ TickOnly /\ UNCHANGED <<outcome, issued, cards, visible, calls, agreed, confirm, edit, queue>>

\* Fault: a destructive call needs no confirmation.
ApproveAtOnce(u) ==
  /\ u.kind = "card" /\ u.button = "approve"
  /\ Run(u, u.id)
  /\ TickOnly /\ UNCHANGED <<outcome, issued, visible, calls, agreed, faults, confirm, edit, queue>>

\* Fault: the patched copy of a destructive call needs no confirmation.
ApproveEditedAtOnce(u) ==
  /\ u.kind = "card" /\ u.button = "approve"
  /\ LET k == u.id IN
       IF k \in cards \ lapsed /\ issued[k].destructive /\ issued[k].root = k
       THEN confirm' = [confirm EXCEPT ![u.chat] = k] /\ Skip(u) /\ UNCHANGED cards
       ELSE Run(u, k) /\ UNCHANGED confirm
  /\ TickOnly /\ UNCHANGED <<outcome, issued, visible, calls, agreed, faults, edit, queue>>

\* handleProposalAction.
Approve(u) ==
  /\ u.kind = "card" /\ u.button = "approve"
  /\ LET k == u.id IN
       IF k \in cards \ lapsed /\ issued[k].destructive
       THEN confirm' = [confirm EXCEPT ![u.chat] = k] /\ Skip(u) /\ UNCHANGED cards
       ELSE Run(u, k) /\ UNCHANGED confirm
  /\ TickOnly /\ UNCHANGED <<outcome, issued, visible, calls, agreed, faults, edit, queue>>

AskPatch(u) ==
  /\ u.kind = "card" /\ u.button = "edit"
  /\ Skip(u)
  /\ IF u.id \in cards \ lapsed
     THEN edit' = [edit EXCEPT ![u.chat] = u.id] /\ UNCHANGED cards
     ELSE cards' = cards \ {u.id} /\ UNCHANGED edit
  /\ TickOnly /\ UNCHANGED <<outcome, issued, visible, calls, agreed, faults, confirm, queue>>

\* The read of the card drops every expired one.
Reject(u) ==
  /\ u.kind = "card" /\ u.button = "reject"
  /\ IF u.id \in cards THEN Rest(u, "reject", u.id) ELSE Skip(u)
  /\ cards' = cards \ lapsed
  /\ TickOnly /\ UNCHANGED <<outcome, issued, visible, calls, agreed, faults, confirm, edit, queue>>

\* The buttons of a plain reminder; what fails is not tried again.
Plain(u) ==
  /\ u.kind = "plain" /\ Skip(u)
  /\ (Mark(u.item, u.button) /\ UNCHANGED faults) \/ (Fail /\ UNCHANGED outcome)
  /\ TickOnly /\ UNCHANGED <<issued, cards, visible, calls, agreed, confirm, edit, queue>>

Take(u) ==
  \/ TextConfirm(u) \/ TextPatch(u) \/ TextQuestion(u)
  \/ Approve(u) \/ AskPatch(u) \/ Reject(u) \/ Plain(u)

\* callServerTool: the tool runs, fails, or runs and its answer is lost.
Call ==
  /\ tick.pc = "call"
  /\ \/ calls' = [calls EXCEPT ![tick.id] = @ + 1] /\ Step("close") /\ UNCHANGED faults
     \/ calls' = [calls EXCEPT ![tick.id] = @ + 1] /\ Step("remove") /\ Fail
     \/ UNCHANGED calls /\ Step("remove") /\ Fail
  /\ TickOnly /\ UNCHANGED <<outcome, issued, cards, visible, agreed, confirm, edit, queue>>

\* surfaceSeen after a successful call or a rejection.
Close ==
  /\ tick.pc \in {"close", "reject"} /\ Step("remove")
  /\ \/ Mark(issued[tick.id].item, IF tick.pc = "close" THEN "completed" ELSE "dismissed") /\ UNCHANGED faults
     \/ Fail /\ UNCHANGED outcome
  /\ TickOnly /\ UNCHANGED <<issued, cards, visible, calls, agreed, confirm, edit, queue>>

\* Fault: the card stays in the store.
RemoveNothing ==
  /\ tick.pc = "remove" /\ Step("next")
  /\ TickOnly /\ Quiet /\ UNCHANGED <<confirm, edit, queue>>

Remove ==
  /\ tick.pc = "remove" /\ Step("next")
  /\ cards' = cards \ {tick.id}
  /\ TickOnly /\ UNCHANGED <<outcome, issued, visible, calls, agreed, faults, confirm, edit, queue>>

\* handleEditPatch: the patch is checked against the server's tools, then the
\* new card is stored, the old one removed and the new one sent.
Patch ==
  /\ tick.pc = "patch"
  /\ \/ Step("next") /\ UNCHANGED <<issued, cards>>
     \/ /\ NewCard(issued[tick.id].item, tick.at.chat, issued[tick.id].destructive, issued[tick.id].root)
        /\ Step("swap")
  /\ TickOnly /\ UNCHANGED <<outcome, visible, calls, agreed, faults, confirm, edit, queue>>

\* Between two awaits: the card stored last is the new one.
Swap ==
  /\ tick.pc = "swap" /\ tick' = [tick EXCEPT !.pc = "resend", !.id = Len(issued)]
  /\ cards' = cards \ {tick.id}
  /\ TickOnly /\ UNCHANGED <<outcome, issued, visible, calls, agreed, faults, confirm, edit, queue>>

Resend ==
  /\ tick.pc = "resend" /\ Step("next")
  /\ (Show(tick.at.chat, tick.id, issued[tick.id].item) /\ UNCHANGED faults) \/ (Fail /\ UNCHANGED visible)
  /\ TickOnly /\ UNCHANGED <<outcome, issued, cards, calls, agreed, confirm, edit, queue>>

Commit ==
  /\ tick.pc = "next" /\ tick.left = {}
  /\ tick' = Idle /\ queue' = {}
  /\ TickOnly /\ Quiet /\ UNCHANGED <<confirm, edit>>

Handle ==
  \/ tick.pc = "next" /\ \E u \in tick.left : Earliest(u) /\ Take(u)
  \/ Fetch \/ Call \/ Close \/ Remove \/ Patch \/ Swap \/ Resend \/ Commit

\* The two writes of an edit have no await between them.
LoopFree == tick.pc # "swap"
TickStep == Handle

Crash ==
  /\ push # Idle \/ tick # Idle
  /\ faults.crash < MaxCrashes /\ faults' = [faults EXCEPT !.crash = @ + 1]
  /\ push' = Idle /\ tick' = Idle
  /\ confirm' = [c \in Chats |-> NoCard] /\ edit' = [c \in Chats |-> NoCard]
  /\ UNCHANGED <<outcome, issued, cards, lapsed, visible, queue, calls, agreed>>

CardNext ==
  \/ LoopFree /\ (PushStart \/ PushStep)
  \/ TickStep \/ Crash
  \/ \E u \in Update : Act(u)
  \/ (\E k \in Ids : LapseCard(k)) \/ (\E i \in Items : SnoozeEnds(i))

\* Timers fire and awaits end.
CardSpec ==
  /\ CardInit /\ [][CardNext]_cardVars
  /\ WF_cardVars(PushStart) /\ WF_cardVars(LoopFree /\ PushStep) /\ WF_cardVars(TickStep)

-----------------------------------------------------------------------------
(* Properties. *)

\* Cards of one root whose call has been made.
Called(root) == {k \in 1..Len(issued) : issued[k].root = root /\ calls[k] > 0}

\* At most once: whatever is approved, confirmed, edited or delivered again, the
\* call a card proposes is made once, unless the client dies between the call
\* and the removal of the card.
OncePerCard ==
  \A k \in Ids :
    /\ calls[k] <= 1 + faults.crash
    /\ Cardinality(Called(k)) <= 1 + faults.crash

\* A destructive call is made only after the chat has typed the value of that
\* very card (D-09, H-08).
ConfirmedFirst ==
  \A k \in 1..Len(issued) : issued[k].destructive /\ calls[k] > 0 => k \in agreed

Told(c, i) == i \in visible[c].plain \/ \E k \in visible[c].cards : issued[k].item = i

\* As long as nothing fails, an occurrence that is taken off the list has been
\* shown in every chat, whatever its buttons did meanwhile.
AllChatsTold ==
  push = Idle /\ faults.fail + faults.crash = 0 =>
    \A i \in Items, c \in Chats : outcome[i] # "none" => Told(c, i)

\* A card is in the store when it appears (T-23-05-C).
NoDanglingCard ==
  [][\A c \in Chats : visible'[c].cards \ visible[c].cards \subseteq cards \cup lapsed]_cardVars

\* An urgent occurrence is shown in the end, with or without a proposal
\* (T-23-05-D), unless somebody closed it.
NeverDropped ==
  \A i \in Items : outcome[i] = "none" ~> (outcome[i] # "none" \/ \E c \in Chats : Told(c, i))

-----------------------------------------------------------------------------
(* What the comments of the code promise beyond this. *)

\* "the proposal is already removed (at-most-once) so duplicates are prevented".
OncePerOccurrence ==
  faults.crash = 0 =>
    \A i \in Items : Cardinality({k \in 1..Len(issued) : issued[k].item = i /\ calls[k] > 0}) <= 1

\* "the P0 is never silently dropped" (T-23-05-D), for every chat: a send that
\* fails after the first chat was told is not repeated, for the item is off the list.
NobodyLeftOut ==
  push = Idle /\ faults.crash = 0 =>
    \A i \in Items, c \in Chats : outcome[i] # "none" => Told(c, i)

\* "a sender cannot simultaneously have both open".
OneIntercept == \A c \in Chats : confirm[c] = NoCard \/ edit[c] = NoCard
=============================================================================
