-------------------------- MODULE ToolCards_proofs --------------------------
(***************************************************************************)
(* Proofs about ToolCards for any occurrences, chats and bounds, and for   *)
(* any mixture of people, failures and crashes.                            *)
(***************************************************************************)
EXTENDS ToolCards, FiniteSetTheorems, TLAPS

-----------------------------------------------------------------------------
(* Types. *)

Offering == {"generate", "send", "mark"}
Busy == {"call", "close", "reject", "remove", "patch", "swap", "resend"}

LEMMA PushFields ==
  ASSUME push \in Pushes
  PROVE  /\ push.pc \in {"idle", "next"} \cup Offering
         /\ push = Idle <=> push.pc = "idle"
         /\ push.pc # "idle" => push.left \subseteq Turns
         /\ push.pc \in Offering =>
              /\ push \in [pc : Offering, left : SUBSET Turns, id : Ids \cup {NoCard}, item : Items, chat : Chats]
              /\ push.id \in Ids \cup {NoCard} /\ push.item \in Items /\ push.chat \in Chats
BY DEF Pushes, Idle, Offering

LEMMA TickFields ==
  ASSUME tick \in Ticks
  PROVE  /\ tick.pc \in {"idle", "next"} \cup Busy
         /\ tick = Idle <=> tick.pc = "idle"
         /\ tick.pc # "idle" => tick.left \subseteq queue
         /\ tick.pc \in Busy =>
              /\ tick \in [pc : {"next"} \cup Busy, left : SUBSET queue, id : Ids \cup {NoCard}, at : queue]
              /\ tick.id \in Ids \cup {NoCard} /\ tick.at \in queue
BY DEF Ticks, Idle, Busy

LEMMA UpdateFields ==
  ASSUME NEW u \in Update
  PROVE  /\ u.kind \in {"text", "card", "plain"} /\ u.chat \in Chats
         /\ u.kind = "card" => u.id \in Ids
         /\ u.kind = "plain" => u.item \in Items /\ u.button \in Closing \cup {"snoozed"}
BY DEF Update

LEMMA StepFields ==
  ASSUME tick \in Ticks, tick.pc \in Busy, NEW pc \in {"next"} \cup Busy, Step(pc), UNCHANGED queue
  PROVE  /\ tick' \in Ticks' /\ tick'.pc = pc
         /\ tick'.left = tick.left /\ tick'.id = tick.id /\ tick'.at = tick.at
PROOF
<1>1. tick \in [pc : {"next"} \cup Busy, left : SUBSET queue, id : Ids \cup {NoCard}, at : queue]
  BY TickFields
<1> QED
  BY <1>1 DEF Step, Ticks, Busy

LEMMA RestFields ==
  ASSUME tick \in Ticks, tick.pc = "next", NEW u \in tick.left,
         NEW pc \in {"next"} \cup Busy, NEW id \in Ids \cup {NoCard}, Rest(u, pc, id), UNCHANGED queue
  PROVE  /\ tick' \in Ticks' /\ tick'.pc = pc /\ tick'.id = id /\ tick'.at = u
         /\ tick'.left = tick.left \ {u}
PROOF
<1>1. tick.left \subseteq queue
  BY TickFields
<1> QED
  BY <1>1 DEF Rest, Ticks, Busy

\* The stage of an offer changes, and with it perhaps its card.
LEMMA OfferFields ==
  ASSUME push \in Pushes, push.pc \in Offering, NEW pc \in Offering, NEW id \in Ids \cup {NoCard},
         push' = [push EXCEPT !.pc = pc, !.id = id] \/ (push' = [push EXCEPT !.pc = pc] /\ id = push.id)
  PROVE  /\ push' \in Pushes /\ push'.pc = pc /\ push'.id = id
         /\ push'.left = push.left /\ push'.item = push.item /\ push'.chat = push.chat
PROOF
<1>1. push \in [pc : Offering, left : SUBSET Turns, id : Ids \cup {NoCard}, item : Items, chat : Chats]
  BY PushFields
<1> QED
  BY <1>1 DEF Pushes, Offering

LEMMA FailType ==
  ASSUME CardTypeOK, Fail
  PROVE  /\ faults' \in [fail : Nat, crash : Nat, update : Nat]
         /\ faults'.fail = faults.fail + 1 /\ faults'.crash = faults.crash
PROOF
<1>1. faults \in [fail : Nat, crash : Nat, update : Nat] /\ faults' = [faults EXCEPT !.fail = faults.fail + 1]
  BY DEF Fail, CardTypeOK
<1>2. PICK n \in Nat : n = faults.fail + 1
  BY <1>1
<1>3. faults' = [faults EXCEPT !.fail = n]
  BY <1>1, <1>2
<1> QED
  BY <1>1, <1>2, <1>3

\* A new card comes last.
LEMMA NewCardType ==
  ASSUME CardTypeOK, NEW item \in Items, NEW chat \in Chats, NEW destructive \in BOOLEAN, NEW root \in Ids,
         NewCard(item, chat, destructive, root)
  PROVE  /\ issued' \in Seq(Card) /\ Len(issued) \in Nat
         /\ Len(issued') = Len(issued) + 1 /\ Len(issued') <= MaxCards
         /\ Len(issued) + 1 \in Ids
         /\ \A k \in 1..Len(issued) : issued'[k] = issued[k]
         /\ issued'[Len(issued) + 1] = [item |-> item, chat |-> chat, destructive |-> destructive, root |-> root]
         /\ cards' = cards \cup {Len(issued) + 1} /\ cards' \subseteq 1..Len(issued')
PROOF
<1>1. issued \in Seq(Card) /\ Len(issued) \in Nat /\ MaxCards \in Nat /\ cards \subseteq 1..Len(issued)
  BY CardAssumption DEF CardTypeOK, CardAssumption
<1>2. [item |-> item, chat |-> chat, destructive |-> destructive, root |-> root] \in Card
  BY DEF Card
<1>3. issued' = Append(issued, [item |-> item, chat |-> chat, destructive |-> destructive, root |-> root])
  BY DEF NewCard
<1>4. /\ issued' \in Seq(Card) /\ Len(issued') = Len(issued) + 1
      /\ \A k \in 1..Len(issued) : issued'[k] = issued[k]
      /\ issued'[Len(issued) + 1] = [item |-> item, chat |-> chat, destructive |-> destructive, root |-> root]
  BY <1>1, <1>2, <1>3
<1>5. Len(issued) < MaxCards /\ cards' = cards \cup {Len(issued) + 1}
  BY DEF NewCard
<1>6. Len(issued) + 1 \in Ids /\ Len(issued') <= MaxCards
  BY <1>1, <1>4, <1>5 DEF Ids
<1>7. cards' \subseteq 1..Len(issued')
  <2>1. ASSUME NEW n \in Nat, NEW S \in SUBSET (1..n) PROVE S \cup {n + 1} \subseteq 1..(n + 1)
    OBVIOUS
  <2>2. cards \cup {Len(issued) + 1} \subseteq 1..(Len(issued) + 1)
    BY <1>1, <2>1
  <2> QED
    BY <1>4, <1>5, <2>2
<1> QED
  BY <1>1, <1>4, <1>5, <1>6, <1>7

LEMMA ShowType ==
  ASSUME CardTypeOK, NEW chat \in Chats, NEW id \in Ids \cup {NoCard}, NEW item \in Items, Show(chat, id, item)
  PROVE  /\ visible' \in [Chats -> [cards : SUBSET Ids, plain : SUBSET Items]]
         /\ \A c \in Chats :
              /\ visible'[c].cards = IF c = chat /\ id # NoCard THEN visible[c].cards \cup {id} ELSE visible[c].cards
              /\ visible'[c].plain = IF c = chat /\ id = NoCard THEN visible[c].plain \cup {item} ELSE visible[c].plain
PROOF
<1>1. visible \in [Chats -> [cards : SUBSET Ids, plain : SUBSET Items]]
  BY DEF CardTypeOK
<1>2. CASE id # NoCard
  BY <1>1, <1>2 DEF Show
<1>3. CASE id = NoCard
  BY <1>1, <1>3 DEF Show
<1> QED
  BY <1>2, <1>3

LEMMA TurnType ==
  ASSUME NEW left \in SUBSET Turns
  PROVE  /\ Turn(left) \in Pushes /\ Turn(left).pc \in {"idle", "next"}
         /\ Turn(left).pc = "next" => Turn(left).left = left
         /\ Turn(left).pc = "idle" => left = {}
BY DEF Turn, Pushes, Idle

LEMMA MarkType ==
  ASSUME CardTypeOK, NEW i \in Items, NEW value \in {"none", "surfaced", "snoozed"} \cup Closing, Mark(i, value)
  PROVE  /\ outcome' \in [Items -> {"none", "surfaced", "snoozed"} \cup Closing]
         /\ \A j \in Items : outcome'[j] = IF j = i THEN value ELSE outcome[j]
BY DEF Mark, CardTypeOK

\* A card of the store is among those made.
LEMMA CardItems ==
  ASSUME CardTypeOK, NEW k \in 1..Len(issued)
  PROVE  /\ k \in Ids /\ issued[k] \in Card /\ issued[k].item \in Items /\ issued[k].destructive \in BOOLEAN
         /\ issued[k].root \in Ids
PROOF
<1>1. issued[k] \in Card
  BY DEF CardTypeOK
<1>2. k \in Ids
  BY CardAssumption DEF CardTypeOK, CardAssumption, Ids
<1> QED
  BY <1>1, <1>2 DEF Card

LEMMA CardInitTypes == CardInit => CardTypeOK
PROOF
<1> SUFFICES ASSUME CardInit PROVE CardTypeOK
  OBVIOUS
<1>1. issued \in Seq(Card) /\ Len(issued) = 0
  BY DEF CardInit
<1>2. push \in Pushes /\ tick \in Ticks
  BY DEF CardInit, Pushes, Ticks
<1>3. 0 <= MaxCards
  BY CardAssumption DEF CardAssumption
<1> QED
  BY <1>1, <1>2, <1>3 DEF CardInit, CardTypeOK

\* The steps of the push tick keep the types.
LEMMA PushTypes ==
  ASSUME CardTypeOK, PushStart \/ PushStep
  PROVE  CardTypeOK'
PROOF
<1>1. push \in Pushes /\ CardAssumption
  BY CardAssumption DEF CardTypeOK
<1>2. tick \in Ticks /\ UNCHANGED <<tick, queue>> => tick' \in Ticks'
  BY DEF Ticks
<1>3. CASE PushStart
  <2>1. push' \in Pushes
    BY <1>3, TurnType DEF PushStart
  <2> QED
    BY <1>2, <1>3, <2>1 DEF PushStart, PushOnly, CardTypeOK
<1>4. CASE NextOffer
  <2>1. PICK t \in push.left, pc \in {"generate", "send"} :
          push' = [pc |-> pc, left |-> push.left \ {t}, id |-> NoCard,
                   item |-> ItemList[t[1]], chat |-> ChatList[t[2]]]
    BY <1>4 DEF NextOffer
  <2>2. push.left \subseteq Turns
    BY <1>1, <1>4, PushFields DEF NextOffer
  <2>3. ItemList[t[1]] \in Items /\ ChatList[t[2]] \in Chats
    BY <2>2 DEF Turns, Items, Chats
  <2>4. push' \in Pushes
    BY <2>1, <2>2, <2>3 DEF Pushes
  <2> QED
    BY <1>2, <1>4, <2>4 DEF NextOffer, PushOnly, CardTypeOK
<1>5. CASE Generate
  <2>1. push.pc \in Offering /\ push.item \in Items /\ push.chat \in Chats /\ push.id \in Ids \cup {NoCard}
    BY <1>1, <1>5, PushFields DEF Generate, Offering
  <2>2. CASE push' = [push EXCEPT !.pc = "send"] /\ UNCHANGED <<issued, cards>>
    <3>1. push' \in Pushes
      BY <1>1, <2>1, <2>2, OfferFields DEF Offering
    <3> QED
      BY <1>2, <1>5, <2>2, <3>1 DEF Generate, PushOnly, CardTypeOK
  <2>3. CASE Proposed
    <3>1. PICK d \in BOOLEAN : NewCard(push.item, push.chat, d, Len(issued) + 1)
      BY <2>3 DEF Proposed
    <3>2. Len(issued) + 1 \in Ids
      BY <1>1, <3>1 DEF NewCard, CardTypeOK, Ids, CardAssumption
    <3>3. issued' \in Seq(Card) /\ Len(issued') <= MaxCards /\ cards' \subseteq 1..Len(issued')
      BY <2>1, <3>1, <3>2, NewCardType
    <3>4. push' \in Pushes
      BY <1>1, <2>1, <2>3, <3>2, OfferFields DEF Proposed, Offering
    <3> QED
      BY <1>2, <1>5, <3>3, <3>4 DEF Generate, PushOnly, CardTypeOK
  <2> QED
    BY <1>5, <2>2, <2>3 DEF Generate
<1>6. CASE PushSend
  <2>1. push.pc \in Offering /\ push.item \in Items /\ push.chat \in Chats /\ push.id \in Ids \cup {NoCard}
    BY <1>1, <1>6, PushFields DEF PushSend, Offering
  <2>2. push' \in Pushes
    <3>1. push' = Idle \/ push' = [push EXCEPT !.pc = "mark"]
      BY <1>6 DEF PushSend
    <3> QED
      BY <1>1, <2>1, <3>1, OfferFields DEF Pushes, Offering
  <2>3. visible' \in [Chats -> [cards : SUBSET Ids, plain : SUBSET Items]]
    BY <1>6, <2>1, ShowType DEF PushSend, CardTypeOK
  <2>4. faults' \in [fail : Nat, crash : Nat, update : Nat]
    BY <1>6, FailType DEF PushSend, CardTypeOK
  <2> QED
    BY <1>2, <1>6, <2>2, <2>3, <2>4 DEF PushSend, PushOnly, CardTypeOK
<1>7. CASE PushMark
  <2>1. push.item \in Items /\ push.left \in SUBSET Turns
    BY <1>1, <1>7, PushFields DEF PushMark, Offering
  <2>2. push' \in Pushes
    BY <1>7, <2>1, TurnType DEF PushMark, Pushes
  <2>3. outcome' \in [Items -> {"none", "surfaced", "snoozed"} \cup Closing]
    BY <1>7, <2>1, MarkType DEF PushMark, CardTypeOK
  <2>4. faults' \in [fail : Nat, crash : Nat, update : Nat]
    BY <1>7, FailType DEF PushMark, CardTypeOK
  <2> QED
    BY <1>2, <1>7, <2>2, <2>3, <2>4 DEF PushMark, PushOnly, CardTypeOK
<1> QED
  BY <1>3, <1>4, <1>5, <1>6, <1>7 DEF PushStep

-----------------------------------------------------------------------------
(* What the tick does with an update. *)

\* An update is passed over, or leads to the call, the patch or the rejection of
\* a card of the store.  Cards that leave the store have lapsed or are on screen.
TakeSkips(u) ==
  /\ Skip(u) /\ cards' \subseteq cards
  /\ cards \ cards' \subseteq lapsed \cup ({confirm[u.chat]} \cup IF u.kind = "card" THEN {u.id} ELSE {})
TakeCalls(u) ==
  /\ UNCHANGED cards
  /\ \E k \in cards \ lapsed :
       /\ Rest(u, "call", k)
       /\ k = confirm[u.chat] \/ (u.kind = "card" /\ k = u.id)
       /\ issued[k].destructive => k \in agreed'
TakePatches(u) ==
  /\ cards' = cards \ lapsed
  /\ edit[u.chat] \in cards /\ edit[u.chat] # NoCard /\ Rest(u, "patch", edit[u.chat])
TakeRejects(u) ==
  /\ cards' = cards \ lapsed
  /\ u.kind = "card" /\ u.id \in cards /\ Rest(u, "reject", u.id)
TakeEnds == UNCHANGED cards /\ tick' = Idle /\ Fail

LEMMA TakeMoves ==
  ASSUME CardTypeOK, tick.pc = "next", NEW u \in tick.left, Take(u)
  PROVE  /\ u \in queue /\ u \in Update
         /\ UNCHANGED <<issued, visible, calls, lapsed, push, queue>>
         /\ agreed \subseteq agreed'
         /\ TakeSkips(u) \/ TakeCalls(u) \/ TakePatches(u) \/ TakeRejects(u) \/ TakeEnds
         /\ UNCHANGED faults \/ Fail
         /\ \/ UNCHANGED outcome
            \/ u.kind = "plain" /\ Mark(u.item, u.button)
         /\ \/ UNCHANGED confirm
            \/ confirm' = [confirm EXCEPT ![u.chat] = NoCard]
            \/ u.kind = "card" /\ confirm' = [confirm EXCEPT ![u.chat] = u.id]
         /\ \/ UNCHANGED edit
            \/ edit' = [edit EXCEPT ![u.chat] = NoCard]
            \/ u.kind = "card" /\ edit' = [edit EXCEPT ![u.chat] = u.id]
         /\ \/ UNCHANGED agreed
            \/ confirm[u.chat] # NoCard /\ agreed' = agreed \cup {confirm[u.chat]}
PROOF
<1> USE DEF TakeSkips, TakeCalls, TakePatches, TakeRejects, TakeEnds
<1>1. u \in queue /\ u \in Update
  BY TickFields DEF CardTypeOK
<1>2. CASE TextConfirm(u)
  BY <1>1, <1>2 DEF TextConfirm, Run, TickOnly
<1>3. CASE TextPatch(u)
  BY <1>1, <1>3 DEF TextPatch, TickOnly
<1>4. CASE TextQuestion(u)
  BY <1>1, <1>4 DEF TextQuestion, TickOnly
<1>5. CASE Approve(u)
  BY <1>1, <1>5 DEF Approve, Run, TickOnly
<1>6. CASE AskPatch(u)
  BY <1>1, <1>6 DEF AskPatch, TickOnly
<1>7. CASE Reject(u)
  BY <1>1, <1>7 DEF Reject, TickOnly
<1>8. CASE Plain(u)
  BY <1>1, <1>8 DEF Plain, TickOnly
<1> QED
  BY <1>2, <1>3, <1>4, <1>5, <1>6, <1>7, <1>8 DEF Take

-----------------------------------------------------------------------------
(* Which cards can be touched. *)

On(k) == \E c \in Chats : k \in visible[c].cards

\* Whatever refers to a card got it from a button on a screen.
Reached ==
  /\ \A k \in Ids : On(k) => k \in 1..Len(issued)
  /\ \A u \in queue : Possible(u)
  /\ \A c \in Chats : (confirm[c] # NoCard => On(confirm[c])) /\ (edit[c] # NoCard => On(edit[c]))
  /\ tick.pc \in Busy \ {"resend"} => On(tick.id)
  /\ tick.pc \in Busy => tick.id \in 1..Len(issued)

LEMMA TakeTypes ==
  ASSUME CardTypeOK, tick.pc = "next", NEW u \in tick.left, Take(u)
  PROVE  CardTypeOK'
PROOF
<1>1. /\ u \in queue /\ u \in Update /\ UNCHANGED <<issued, visible, calls, lapsed, push, queue>>
      /\ TakeSkips(u) \/ TakeCalls(u) \/ TakePatches(u) \/ TakeRejects(u) \/ TakeEnds
  BY TakeMoves
<1>2. u.chat \in Chats /\ (u.kind = "card" => u.id \in Ids) /\ (u.kind = "plain" => u.item \in Items /\ u.button \in Closing \cup {"snoozed"})
  BY <1>1, UpdateFields
<1>3. tick \in Ticks /\ cards \subseteq Ids /\ edit[u.chat] \in Ids \cup {NoCard} /\ confirm[u.chat] \in Ids \cup {NoCard}
  BY <1>2, CardAssumption DEF CardTypeOK, CardAssumption, Ids
<1>4. tick' \in Ticks'
  <2>1. ASSUME NEW pc \in {"next"} \cup Busy, NEW id \in Ids \cup {NoCard}, Rest(u, pc, id)
        PROVE  tick' \in Ticks'
    BY <1>1, <1>3, <2>1, RestFields
  <2>2. CASE TakeEnds
    BY <2>2 DEF TakeEnds, Ticks
  <2>3. \A k \in cards : k \in Ids \cup {NoCard}
    BY <1>3
  <2> QED
    BY <1>1, <1>2, <1>3, <2>1, <2>2, <2>3 DEF TakeSkips, TakeCalls, TakePatches, TakeRejects, Skip, Busy
<1>5. cards' \subseteq cards
  BY <1>1 DEF TakeSkips, TakeCalls, TakePatches, TakeRejects, TakeEnds
<1>6. outcome' \in [Items -> {"none", "surfaced", "snoozed"} \cup Closing]
  <2>1. CASE UNCHANGED outcome
    BY <2>1 DEF CardTypeOK
  <2>2. CASE u.kind = "plain" /\ Mark(u.item, u.button)
    BY <1>2, <2>2, MarkType
  <2> QED
    BY <2>1, <2>2, TakeMoves
<1>7. /\ confirm' \in [Chats -> Ids \cup {NoCard}]
      /\ edit' \in [Chats -> Ids \cup {NoCard}]
  <2>1. confirm \in [Chats -> Ids \cup {NoCard}] /\ edit \in [Chats -> Ids \cup {NoCard}]
    BY DEF CardTypeOK
  <2>2. /\ \/ confirm' = confirm \/ confirm' = [confirm EXCEPT ![u.chat] = NoCard]
           \/ u.kind = "card" /\ confirm' = [confirm EXCEPT ![u.chat] = u.id]
        /\ \/ edit' = edit \/ edit' = [edit EXCEPT ![u.chat] = NoCard]
           \/ u.kind = "card" /\ edit' = [edit EXCEPT ![u.chat] = u.id]
    BY TakeMoves
  <2> QED
    BY <1>2, <2>1, <2>2
<1>8. agreed' \subseteq Ids
  BY <1>3, TakeMoves DEF CardTypeOK
<1>9. faults' \in [fail : Nat, crash : Nat, update : Nat]
  BY TakeMoves, FailType DEF CardTypeOK
<1> QED
  BY <1>1, <1>4, <1>5, <1>6, <1>7, <1>8, <1>9 DEF CardTypeOK

LEMMA HandleTypes ==
  ASSUME CardTypeOK, Reached,
         Fetch \/ Call \/ Close \/ Remove \/ Patch \/ Swap \/ Resend \/ Commit
  PROVE  /\ CardTypeOK'
         /\ tick' \in Ticks'
PROOF
<1>1. tick \in Ticks /\ calls \in [Ids -> Nat] /\ (tick.pc \in Busy => tick.id \in Ids /\ tick.at \in queue)
  BY TickFields, CardItems DEF CardTypeOK, Reached
<1>2. \A pc \in {"next"} \cup Busy : tick.pc \in Busy /\ Step(pc) /\ UNCHANGED queue => tick' \in Ticks'
  BY <1>1, StepFields
<1>3. CASE Fetch
  <2>1. tick' \in Ticks'
    BY <1>3 DEF Fetch, Ticks
  <2> QED
    BY <1>3, <2>1 DEF Fetch, TickOnly, Quiet, CardTypeOK
<1>4. CASE Call
  <2>1. tick' \in Ticks'
    BY <1>2, <1>4 DEF Call, Busy
  <2>2. calls' \in [Ids -> Nat]
    BY <1>1, <1>4 DEF Call, Busy
  <2>3. faults' \in [fail : Nat, crash : Nat, update : Nat]
    BY <1>4, FailType DEF Call, CardTypeOK
  <2> QED
    BY <1>4, <2>1, <2>2, <2>3 DEF Call, TickOnly, CardTypeOK
<1>5. CASE Close
  <2>1. tick' \in Ticks'
    BY <1>2, <1>5 DEF Close, Busy
  <2>2. issued[tick.id].item \in Items
    BY <1>5, CardItems DEF Close, Reached, Busy
  <2>3. outcome' \in [Items -> {"none", "surfaced", "snoozed"} \cup Closing]
    <3>1. CASE UNCHANGED outcome
      BY <3>1 DEF CardTypeOK
    <3>2. ASSUME NEW value \in {"completed", "dismissed"}, Mark(issued[tick.id].item, value)
          PROVE  outcome' \in [Items -> {"none", "surfaced", "snoozed"} \cup Closing]
      BY <2>2, <3>2, MarkType DEF Closing
    <3> QED
      BY <1>5, <3>1, <3>2 DEF Close
  <2>4. faults' \in [fail : Nat, crash : Nat, update : Nat]
    BY <1>5, FailType DEF Close, CardTypeOK
  <2> QED
    BY <1>5, <2>1, <2>3, <2>4 DEF Close, TickOnly, CardTypeOK
<1>6. CASE Remove
  <2>1. tick' \in Ticks'
    BY <1>2, <1>6 DEF Remove, Busy
  <2> QED
    BY <1>6, <2>1 DEF Remove, TickOnly, CardTypeOK
<1>7. CASE Patch
  <2>1. tick' \in Ticks'
    BY <1>2, <1>7 DEF Patch, Busy
  <2>2. CASE UNCHANGED <<issued, cards>>
    BY <1>7, <2>1, <2>2 DEF Patch, TickOnly, CardTypeOK
  <2>3. CASE NewCard(issued[tick.id].item, tick.at.chat, issued[tick.id].destructive, issued[tick.id].root)
    <3>1. tick.id \in 1..Len(issued) /\ tick.at.chat \in Chats
      BY <1>1, <1>7, UpdateFields DEF Patch, Reached, Busy, CardTypeOK
    <3>2. issued' \in Seq(Card) /\ Len(issued') <= MaxCards /\ cards' \subseteq 1..Len(issued')
      BY <2>3, <3>1, CardItems, NewCardType
    <3> QED
      BY <1>7, <2>1, <3>2 DEF Patch, TickOnly, CardTypeOK
  <2> QED
    BY <1>7, <2>2, <2>3 DEF Patch
<1>8. CASE Swap
  <2>1. tick' \in Ticks'
    <3>1. tick \in [pc : {"next"} \cup Busy, left : SUBSET queue, id : Ids \cup {NoCard}, at : queue]
      BY <1>1, <1>8, TickFields DEF Swap, Busy
    <3>2. Len(issued) \in Ids \cup {NoCard}
      BY CardAssumption DEF CardTypeOK, CardAssumption, Ids, NoCard
    <3> QED
      BY <1>8, <3>1, <3>2 DEF Swap, Ticks, Busy
  <2> QED
    BY <1>8, <2>1 DEF Swap, TickOnly, CardTypeOK
<1>9. CASE Resend
  <2>1. tick' \in Ticks'
    BY <1>2, <1>9 DEF Resend, Busy
  <2>2. visible' \in [Chats -> [cards : SUBSET Ids, plain : SUBSET Items]]
    <3>1. tick.at.chat \in Chats /\ issued[tick.id].item \in Items /\ tick.id \in Ids
      BY <1>1, <1>9, UpdateFields, CardItems DEF Resend, Reached, Busy, CardTypeOK
    <3> QED
      BY <1>9, <3>1, ShowType DEF Resend, CardTypeOK
  <2>3. faults' \in [fail : Nat, crash : Nat, update : Nat]
    BY <1>9, FailType DEF Resend, CardTypeOK
  <2> QED
    BY <1>9, <2>1, <2>2, <2>3 DEF Resend, TickOnly, CardTypeOK
<1>10. CASE Commit
  BY <1>10 DEF Commit, TickOnly, Quiet, CardTypeOK, Ticks
<1> QED
  BY <1>3, <1>4, <1>5, <1>6, <1>7, <1>8, <1>9, <1>10 DEF CardTypeOK

LEMMA OutsideTypes ==
  ASSUME CardTypeOK,
         \/ Crash \/ UNCHANGED cardVars \/ \E u \in Update : Act(u)
         \/ (\E k \in Ids : LapseCard(k)) \/ (\E i \in Items : SnoozeEnds(i))
  PROVE  CardTypeOK'
PROOF
<1>1. CASE Crash
  <2>1. faults' \in [fail : Nat, crash : Nat, update : Nat]
    <3>1. faults' = [faults EXCEPT !.crash = faults.crash + 1] /\ faults \in [fail : Nat, crash : Nat, update : Nat]
      BY <1>1 DEF Crash, CardTypeOK
    <3>2. PICK n \in Nat : n = faults.crash + 1
      BY <3>1
    <3> QED
      BY <3>1, <3>2
  <2>2. /\ push' \in Pushes /\ tick' \in Ticks'
        /\ confirm' \in [Chats -> Ids \cup {NoCard}] /\ edit' \in [Chats -> Ids \cup {NoCard}]
    BY <1>1 DEF Crash, Pushes, Ticks
  <2> QED
    BY <1>1, <2>1, <2>2 DEF Crash, CardTypeOK
<1>2. CASE UNCHANGED cardVars
  BY <1>2 DEF cardVars, memoryVars, CardTypeOK, Ticks
<1>3. ASSUME NEW u \in Update, Act(u) PROVE CardTypeOK'
  <2>1. faults' \in [fail : Nat, crash : Nat, update : Nat]
    <3>1. faults' = [faults EXCEPT !.update = faults.update + 1] /\ faults \in [fail : Nat, crash : Nat, update : Nat]
      BY <1>3 DEF Act, CardTypeOK
    <3>2. PICK n \in Nat : n = faults.update + 1
      BY <3>1
    <3> QED
      BY <3>1, <3>2
  <2>2. queue' \subseteq Update /\ tick' \in Ticks'
    BY <1>3 DEF Act, memoryVars, CardTypeOK, Ticks
  <2> QED
    BY <1>3, <2>1, <2>2 DEF Act, memoryVars, CardTypeOK
<1>4. ASSUME NEW k \in Ids, LapseCard(k) PROVE CardTypeOK'
  BY <1>4 DEF LapseCard, memoryVars, CardTypeOK, Ticks
<1>5. ASSUME NEW i \in Items, SnoozeEnds(i) PROVE CardTypeOK'
  <2>1. outcome' \in [Items -> {"none", "surfaced", "snoozed"} \cup Closing]
    BY <1>5, MarkType DEF SnoozeEnds
  <2> QED
    BY <1>5, <2>1 DEF SnoozeEnds, memoryVars, CardTypeOK, Ticks
<1> QED
  BY <1>1, <1>2, <1>3, <1>4, <1>5

LEMMA CardTypesStep ==
  ASSUME CardTypeOK, Reached, [CardNext]_cardVars
  PROVE  CardTypeOK'
BY PushTypes, TakeTypes, HandleTypes, OutsideTypes DEF CardNext, TickStep, Handle

-----------------------------------------------------------------------------
(* What never shrinks: the cards made, what is on the screens, the lapsed  *)
(* cards and the confirmations.                                            *)

Grown ==
  /\ Len(issued') \in Nat /\ Len(issued) <= Len(issued')
  /\ \A k \in 1..Len(issued) : k \in 1..Len(issued') /\ issued'[k] = issued[k]
  /\ \A c \in Chats : visible[c].cards \subseteq visible'[c].cards /\ visible[c].plain \subseteq visible'[c].plain
  /\ lapsed \subseteq lapsed' /\ agreed \subseteq agreed'

LEMMA Issuing ==
  ASSUME CardTypeOK, NEW item \in Items, NEW chat \in Chats, NEW destructive \in BOOLEAN, NEW root \in Ids,
         NewCard(item, chat, destructive, root)
  PROVE  /\ Len(issued') \in Nat /\ Len(issued) <= Len(issued')
         /\ \A k \in 1..Len(issued) : k \in 1..Len(issued') /\ issued'[k] = issued[k]
PROOF
<1>1. /\ Len(issued) \in Nat /\ Len(issued') = Len(issued) + 1
      /\ \A k \in 1..Len(issued) : issued'[k] = issued[k]
  BY NewCardType
<1> QED
  BY <1>1

LEMMA Still ==
  ASSUME CardTypeOK, UNCHANGED issued
  PROVE  /\ Len(issued') \in Nat /\ Len(issued) <= Len(issued')
         /\ \A k \in 1..Len(issued) : k \in 1..Len(issued') /\ issued'[k] = issued[k]
PROOF
<1>1. Len(issued) \in Nat /\ Len(issued') = Len(issued)
  BY DEF CardTypeOK
<1> QED
  BY <1>1

LEMMA ShowGrows ==
  ASSUME CardTypeOK, NEW chat \in Chats, NEW id \in Ids \cup {NoCard}, NEW item \in Items, Show(chat, id, item)
  PROVE  \A c \in Chats : visible[c].cards \subseteq visible'[c].cards /\ visible[c].plain \subseteq visible'[c].plain
BY ShowType

LEMMA PatchCard ==
  ASSUME CardTypeOK, Reached, tick.pc = "patch",
         NewCard(issued[tick.id].item, tick.at.chat, issued[tick.id].destructive, issued[tick.id].root)
  PROVE  /\ tick.id \in 1..Len(issued) /\ tick.at.chat \in Chats
         /\ issued[tick.id].item \in Items /\ issued[tick.id].destructive \in BOOLEAN /\ issued[tick.id].root \in Ids
PROOF
<1>1. tick.id \in 1..Len(issued) /\ tick.at \in Update
  BY TickFields DEF Reached, Busy, CardTypeOK
<1> QED
  BY <1>1, UpdateFields, CardItems

LEMMA PushOffer ==
  ASSUME CardTypeOK, push.pc \in Offering
  PROVE  push.item \in Items /\ push.chat \in Chats /\ push.id \in Ids \cup {NoCard}
BY PushFields DEF CardTypeOK

LEMMA ResendShow ==
  ASSUME CardTypeOK, Reached, tick.pc = "resend"
  PROVE  /\ tick.id \in 1..Len(issued) /\ tick.id \in Ids /\ tick.at.chat \in Chats /\ issued[tick.id].item \in Items
         /\ tick.at \in queue
PROOF
<1>1. tick.id \in 1..Len(issued) /\ tick.at \in Update /\ tick.at \in queue
  BY TickFields DEF Reached, Busy, CardTypeOK
<1> QED
  BY <1>1, UpdateFields, CardItems

LEMMA ProposedCard ==
  ASSUME CardTypeOK, push.pc \in Offering, Proposed
  PROVE  /\ Len(issued) + 1 \in Ids
         /\ \E d \in BOOLEAN : NewCard(push.item, push.chat, d, Len(issued) + 1)
PROOF
<1>1. PICK d \in BOOLEAN : NewCard(push.item, push.chat, d, Len(issued) + 1)
  BY DEF Proposed
<1> QED
  BY <1>1, CardAssumption DEF NewCard, CardTypeOK, Ids, CardAssumption

LEMMA CardsGrow ==
  ASSUME CardTypeOK, Reached, [CardNext]_cardVars
  PROVE  Grown
PROOF
<1>1. CASE UNCHANGED <<issued, visible>> /\ lapsed \subseteq lapsed' /\ agreed \subseteq agreed'
  BY <1>1, Still DEF Grown
<1>2. CASE Generate
  <2>1. CASE Proposed
    <3>1. push.pc \in Offering
      BY <1>2 DEF Generate, Offering
    <3> QED
      BY <1>2, <2>1, <3>1, ProposedCard, PushOffer, Issuing DEF Generate, PushOnly, Grown
  <2> QED
    BY <1>1, <1>2, <2>1 DEF Generate, PushOnly
<1>3. CASE PushSend
  <2>1. push.pc \in Offering
    BY <1>3 DEF PushSend, Offering
  <2> QED
    BY <1>1, <1>3, <2>1, PushOffer, ShowGrows, Still DEF PushSend, PushOnly, Grown
<1>4. CASE Patch
  <2>1. CASE NewCard(issued[tick.id].item, tick.at.chat, issued[tick.id].destructive, issued[tick.id].root)
    BY <1>4, <2>1, PatchCard, Issuing DEF Patch, TickOnly, Grown
  <2> QED
    BY <1>1, <1>4, <2>1 DEF Patch, TickOnly
<1>5. CASE Resend
  BY <1>1, <1>5, ResendShow, ShowGrows, Still DEF Resend, TickOnly, Grown
<1>6. ASSUME NEW u \in tick.left, tick.pc = "next", Take(u) PROVE Grown
  BY <1>1, <1>6, TakeMoves
<1>7. CASE PushStart \/ NextOffer \/ PushMark
  BY <1>1, <1>7 DEF PushStart, NextOffer, PushMark, PushOnly
<1>8. CASE Fetch \/ Call \/ Close \/ Remove \/ Swap \/ Commit
  BY <1>1, <1>8 DEF Fetch, Call, Close, Remove, Swap, Commit, TickOnly, Quiet
<1>9. CASE Crash \/ UNCHANGED cardVars
  BY <1>1, <1>9 DEF Crash, cardVars
<1>10. ASSUME NEW u \in Update, Act(u) PROVE Grown
  BY <1>1, <1>10 DEF Act
<1>11. ASSUME NEW k \in Ids, LapseCard(k) PROVE Grown
  BY <1>1, <1>11 DEF LapseCard
<1>12. ASSUME NEW i \in Items, SnoozeEnds(i) PROVE Grown
  BY <1>1, <1>12 DEF SnoozeEnds
<1> QED
  BY <1>2, <1>3, <1>4, <1>5, <1>6, <1>7, <1>8, <1>9, <1>10, <1>11, <1>12 DEF CardNext, PushStep, TickStep, Handle

LEMMA PossibleStays ==
  ASSUME CardTypeOK, Grown, NEW u \in Update, Possible(u)
  PROVE  Possible(u)'
BY UpdateFields DEF Grown, Possible

\* Reached after a step follows from what the step adds.
LEMMA Reaching ==
  ASSUME CardTypeOK, Reached, Grown,
         \A k \in Ids : On(k)' => On(k) \/ k \in 1..Len(issued'),
         queue' \subseteq queue \cup {u \in Update : Possible(u)},
         \A c \in Chats : (confirm'[c] # NoCard => On(confirm'[c])) /\ (edit'[c] # NoCard => On(edit'[c])),
         tick'.pc \in Busy \ {"resend"} => On(tick'.id),
         tick'.pc \in Busy => tick'.id \in 1..Len(issued')
  PROVE  Reached'
PROOF
<1>1. \A k : On(k) => \E c \in Chats : k \in visible'[c].cards
  BY DEF On, Grown
<1>2. \A k \in Ids : On(k)' => k \in 1..Len(issued')
  BY DEF Reached, Grown
<1>3. \A u \in queue' : Possible(u)'
  BY PossibleStays DEF Reached, CardTypeOK
<1> QED
  BY <1>1, <1>2, <1>3 DEF Reached, On

\* The parts of Reached that a step leaves alone.
LEMMA ReachedParts ==
  ASSUME CardTypeOK, Reached, Grown
  PROVE  /\ UNCHANGED visible => \A k \in Ids : On(k)' => On(k) \/ k \in 1..Len(issued')
         /\ UNCHANGED <<confirm, edit>> =>
              \A c \in Chats : (confirm'[c] # NoCard => On(confirm'[c])) /\ (edit'[c] # NoCard => On(edit'[c]))
         /\ UNCHANGED tick =>
              /\ tick'.pc \in Busy \ {"resend"} => On(tick'.id)
              /\ tick'.pc \in Busy => tick'.id \in 1..Len(issued')
         /\ \A k \in 1..Len(issued) : k \in 1..Len(issued')
BY DEF Reached, Grown, On

LEMMA ShowReaches ==
  ASSUME CardTypeOK, NEW chat \in Chats, NEW id \in Ids \cup {NoCard}, NEW item \in Items, Show(chat, id, item)
  PROVE  /\ \A k \in Ids : On(k)' => On(k) \/ k = id
         /\ \A k \in Ids : On(k) => On(k)'
PROOF
<1>1. \A c \in Chats : visible'[c].cards = IF c = chat /\ id # NoCard THEN visible[c].cards \cup {id} ELSE visible[c].cards
  BY ShowType
<1>2. ASSUME NEW k \in Ids, On(k)' PROVE On(k) \/ k = id
  BY <1>1, <1>2 DEF On
<1>3. ASSUME NEW k \in Ids, On(k) PROVE On(k)'
  BY <1>1, <1>3 DEF On
<1> QED
  BY <1>2, <1>3

LEMMA TakeReaches ==
  ASSUME CardTypeOK, Reached, tick.pc = "next", NEW u \in tick.left, Take(u)
  PROVE  /\ tick'.pc \in {"idle", "next", "call", "patch", "reject"}
         /\ tick'.pc \in Busy => tick'.id \in Ids /\ On(tick'.id)
         /\ \A c \in Chats : (confirm'[c] # NoCard => On(confirm'[c])) /\ (edit'[c] # NoCard => On(edit'[c]))
PROOF
<1>1. /\ u \in queue /\ u \in Update /\ UNCHANGED visible
      /\ TakeSkips(u) \/ TakeCalls(u) \/ TakePatches(u) \/ TakeRejects(u) \/ TakeEnds
  BY TakeMoves
<1>2. u.chat \in Chats /\ (u.kind = "card" => u.id \in Ids /\ On(u.id))
  BY <1>1, UpdateFields DEF Reached, Possible, On
<1>3. /\ confirm \in [Chats -> Ids \cup {NoCard}] /\ edit \in [Chats -> Ids \cup {NoCard}] /\ cards \subseteq Ids
      /\ NoCard \notin cards
  BY CardAssumption DEF CardTypeOK, CardAssumption, Ids, NoCard
<1>4. \A c \in Chats : (confirm[c] # NoCard => On(confirm[c])) /\ (edit[c] # NoCard => On(edit[c]))
  BY DEF Reached
<1>5. /\ \/ confirm' = confirm \/ confirm' = [confirm EXCEPT ![u.chat] = NoCard]
         \/ u.kind = "card" /\ confirm' = [confirm EXCEPT ![u.chat] = u.id]
      /\ \/ edit' = edit \/ edit' = [edit EXCEPT ![u.chat] = NoCard]
         \/ u.kind = "card" /\ edit' = [edit EXCEPT ![u.chat] = u.id]
  BY TakeMoves
<1>6. \A c \in Chats : (confirm'[c] # NoCard => On(confirm'[c])) /\ (edit'[c] # NoCard => On(edit'[c]))
  BY <1>2, <1>3, <1>4, <1>5
<1>7. /\ tick'.pc \in {"idle", "next", "call", "patch", "reject"}
      /\ tick'.pc \in Busy => tick'.id \in Ids /\ On(tick'.id)
  <2>1. CASE TakeSkips(u)
    BY <2>1 DEF TakeSkips, Skip, Rest, Busy
  <2>2. CASE TakeCalls(u)
    <3>1. PICK k \in cards : Rest(u, "call", k) /\ (k = confirm[u.chat] \/ (u.kind = "card" /\ k = u.id))
      BY <2>2 DEF TakeCalls
    <3>2. k \in Ids /\ k # NoCard
      BY <1>3
    <3>3. On(k)
      BY <1>2, <1>4, <3>1, <3>2
    <3>4. tick'.pc = "call" /\ tick'.id = k
      BY <3>1 DEF Rest
    <3> QED
      BY <3>2, <3>3, <3>4
  <2>3. CASE TakePatches(u)
    BY <1>2, <1>3, <1>4, <2>3 DEF TakePatches, Rest
  <2>4. CASE TakeRejects(u)
    BY <1>2, <2>4 DEF TakeRejects, Rest
  <2>5. CASE TakeEnds
    BY <2>5 DEF TakeEnds, Idle, Busy
  <2> QED
    BY <1>1, <2>1, <2>2, <2>3, <2>4, <2>5
<1> QED
  BY <1>6, <1>7

LEMMA ReachedStep ==
  ASSUME CardTypeOK, Reached, [CardNext]_cardVars,
         push.pc = "send" /\ push.id # NoCard => push.id \in 1..Len(issued)
  PROVE  Reached'
PROOF
<1>1. Grown
  BY CardsGrow
<1>2. CASE UNCHANGED <<visible, confirm, edit, tick, queue>>
  BY <1>1, <1>2, Reaching, ReachedParts
<1>3. CASE PushSend
  <2>1. push.pc \in Offering
    BY <1>3 DEF PushSend, Offering
  <2>2. UNCHANGED visible \/ Show(push.chat, push.id, push.item)
    BY <1>3 DEF PushSend
  <2>3. \A k \in Ids : On(k)' => On(k) \/ k \in 1..Len(issued')
    <3>1. CASE Show(push.chat, push.id, push.item)
      <4>1. push.item \in Items /\ push.chat \in Chats /\ push.id \in Ids \cup {NoCard}
        BY <2>1, PushOffer
      <4>2. \A k \in Ids : On(k)' => On(k) \/ k = push.id
        BY <3>1, <4>1, ShowReaches
      <4>3. NoCard \notin Ids
        BY DEF Ids, NoCard
      <4> QED
        BY <1>1, <1>3, <4>2, <4>3 DEF PushSend, Grown
    <3> QED
      BY <1>1, <2>2, <3>1, ReachedParts
  <2> QED
    BY <1>1, <1>3, <2>3, Reaching, ReachedParts DEF PushSend, PushOnly
<1>4. ASSUME NEW u \in tick.left, tick.pc = "next", Take(u) PROVE Reached'
  <2>1. UNCHANGED <<visible, queue, issued>>
    BY <1>4, TakeMoves
  <2>2. /\ tick'.pc \in {"idle", "next", "call", "patch", "reject"}
        /\ tick'.pc \in Busy => tick'.id \in Ids /\ On(tick'.id)
        /\ \A c \in Chats : (confirm'[c] # NoCard => On(confirm'[c])) /\ (edit'[c] # NoCard => On(edit'[c]))
    BY <1>4, TakeReaches
  <2>3. \A k \in Ids : On(k) => k \in 1..Len(issued')
    BY <2>1 DEF Reached
  <2> QED
    BY <1>1, <2>1, <2>2, <2>3, Reaching, ReachedParts
<1>5. CASE Call \/ Close \/ Remove \/ Patch
  <2>1. /\ tick'.pc \in Busy \cup {"next"} /\ (tick'.pc = "resend" => FALSE) /\ tick.pc \in Busy /\ tick.pc # "resend"
        /\ tick'.id = tick.id
        /\ UNCHANGED <<visible, queue, confirm, edit>>
    <3>1. /\ \E pc \in {"close", "remove", "next", "swap"} : Step(pc)
          /\ tick.pc \in Busy /\ tick.pc # "resend" /\ UNCHANGED <<visible, queue, confirm, edit>>
      BY <1>5 DEF Call, Close, Remove, Patch, Busy
    <3> QED
      BY <3>1, StepFields DEF CardTypeOK, Busy
  <2>2. On(tick'.id) /\ tick'.id \in 1..Len(issued')
    BY <1>1, <2>1 DEF Reached, Grown
  <2> QED
    BY <1>1, <2>1, <2>2, Reaching, ReachedParts
<1>6. CASE Swap
  <2>1. /\ tick'.pc = "resend" /\ tick'.id = Len(issued) /\ UNCHANGED <<visible, queue, confirm, edit, issued>>
    <3>1. tick \in [pc : {"next"} \cup Busy, left : SUBSET queue, id : Ids \cup {NoCard}, at : queue]
      BY <1>6, TickFields DEF Swap, Busy, CardTypeOK
    <3> QED
      BY <1>6, <3>1 DEF Swap
  <2>2. Len(issued) \in 1..Len(issued')
    <3>1. tick.id \in 1..Len(issued) /\ Len(issued) \in Nat
      BY <1>6 DEF Swap, Reached, Busy, CardTypeOK
    <3> QED
      BY <2>1, <3>1
  <2> QED
    BY <1>1, <2>1, <2>2, Reaching, ReachedParts
<1>7. CASE Resend
  <2>1. tick'.pc = "next" /\ UNCHANGED <<queue, confirm, edit>>
    BY <1>7, StepFields DEF Resend, CardTypeOK, Busy
  <2>2. \A k \in Ids : On(k)' => On(k) \/ k \in 1..Len(issued')
    <3>1. tick.id \in 1..Len(issued) /\ tick.id \in Ids /\ tick.at.chat \in Chats /\ issued[tick.id].item \in Items
      BY <1>7, ResendShow DEF Resend
    <3>2. CASE Show(tick.at.chat, tick.id, issued[tick.id].item)
      <4>1. \A k \in Ids : On(k)' => On(k) \/ k = tick.id
        BY <3>1, <3>2, ShowReaches
      <4> QED
        BY <1>1, <3>1, <4>1 DEF Grown
    <3> QED
      BY <1>1, <1>7, <3>2, ReachedParts DEF Resend
  <2> QED
    BY <1>1, <2>1, <2>2, Reaching, ReachedParts DEF Busy
<1>8. CASE Fetch \/ Commit
  <2>1. tick'.pc \in {"idle", "next"} /\ queue' \subseteq queue /\ UNCHANGED <<visible, confirm, edit>>
    BY <1>8 DEF Fetch, Commit, Quiet, Idle
  <2> QED
    BY <1>1, <2>1, Reaching, ReachedParts DEF Busy
<1>9. CASE Crash
  <2>1. tick'.pc = "idle" /\ UNCHANGED <<visible, queue>> /\ \A c \in Chats : confirm'[c] = NoCard /\ edit'[c] = NoCard
    BY <1>9 DEF Crash, Idle
  <2> QED
    BY <1>1, <2>1, Reaching, ReachedParts DEF Busy
<1>10. ASSUME NEW u \in Update, Act(u) PROVE Reached'
  <2>1. Possible(u) /\ queue' = queue \cup {u} /\ UNCHANGED <<visible, confirm, edit, tick>>
    BY <1>10 DEF Act, memoryVars
  <2> QED
    BY <1>1, <2>1, Reaching, ReachedParts
<1>11. CASE PushStart \/ NextOffer \/ Generate \/ PushMark
  BY <1>2, <1>11 DEF PushStart, NextOffer, Generate, PushMark, PushOnly
<1>12. CASE UNCHANGED cardVars
  BY <1>2, <1>12 DEF cardVars, memoryVars
<1>13. CASE \/ \E k \in Ids : LapseCard(k)
            \/ \E i \in Items : SnoozeEnds(i)
  BY <1>2, <1>13 DEF LapseCard, SnoozeEnds, memoryVars
<1> QED
  BY <1>3, <1>4, <1>5, <1>6, <1>7, <1>8, <1>9, <1>10, <1>11, <1>12, <1>13 DEF CardNext, PushStep, TickStep, Handle

-----------------------------------------------------------------------------
(* What is in the store. *)

\* The reactive tick: the card it calls, the card it has just stored (which is on
\* no screen yet) and the card it is about to show are in the store.
TickStocked ==
  /\ tick.pc = "call" => tick.id \in cards
  /\ tick.pc = "swap" => Len(issued) \in cards /\ ~On(Len(issued))
  /\ tick.pc = "resend" => tick.id \in cards

\* The push tick: the card on its way is in the store, or has lapsed; it is on no
\* screen, so that no button can have removed it, and it is not the card of an edit.
PushStocked ==
  /\ push.pc = "generate" => push.id = NoCard
  /\ push.pc = "send" /\ push.id # NoCard =>
       /\ push.id \in 1..Len(issued) /\ push.id \in cards \cup lapsed
       /\ ~On(push.id) /\ issued[push.id].item = push.item
       /\ tick.pc = "swap" => push.id # Len(issued)
       /\ tick.pc = "resend" => push.id # tick.id

\* What a step of the reactive tick does to the store and to the card it holds.
LEMMA TickMoves ==
  ASSUME CardTypeOK, Reached, TickStocked, TickStep
  PROVE  /\ UNCHANGED <<push, lapsed>>
         /\ \A k \in cards : k \in cards' \/ k \in lapsed \/ On(k)
         /\ tick'.pc = "call" => tick'.id \in cards'
         /\ tick'.pc = "swap" => /\ Len(issued') = Len(issued) + 1 /\ Len(issued') \in cards'
                                 /\ UNCHANGED visible
         /\ tick'.pc = "resend" => /\ tick.pc = "swap" /\ tick'.id = Len(issued) /\ tick'.id \in cards'
         /\ tick.pc = "resend" \/ UNCHANGED visible
PROOF
<1>1. ASSUME NEW u \in tick.left, tick.pc = "next", Take(u)
      PROVE  /\ UNCHANGED <<push, lapsed, visible>>
             /\ \A k \in cards : k \in cards' \/ k \in lapsed \/ On(k)
             /\ tick'.pc = "call" => tick'.id \in cards'
             /\ tick'.pc \notin {"swap", "resend"}
  <2>1. /\ u \in queue /\ u \in Update /\ UNCHANGED <<push, lapsed, visible>>
        /\ TakeSkips(u) \/ TakeCalls(u) \/ TakePatches(u) \/ TakeRejects(u) \/ TakeEnds
    BY <1>1, TakeMoves
  <2>2. tick'.pc \in {"idle", "next", "call", "patch", "reject"}
    BY <1>1, TakeReaches
  <2>3. u.chat \in Chats /\ (u.kind = "card" => On(u.id)) /\ (confirm[u.chat] # NoCard => On(confirm[u.chat]))
    BY <2>1, UpdateFields DEF Reached, Possible, On
  <2>4. \A k \in cards : k # NoCard
    BY CardAssumption DEF CardTypeOK, CardAssumption, Ids, NoCard
  <2>5. ASSUME NEW k \in cards PROVE k \in cards' \/ k \in lapsed \/ On(k)
    BY <2>1, <2>3, <2>4 DEF TakeSkips, TakeCalls, TakePatches, TakeRejects, TakeEnds
  <2>6. tick'.pc = "call" => tick'.id \in cards'
    BY <2>1 DEF TakeSkips, TakeCalls, TakePatches, TakeRejects, TakeEnds, Skip, Rest, Idle
  <2> QED
    BY <2>1, <2>2, <2>5, <2>6
<1>2. CASE Call \/ Close \/ Remove
  <2>1. \E pc \in {"close", "remove", "next"} : Step(pc)
    BY <1>2 DEF Call, Close, Remove
  <2>2. tick.pc \in Busy /\ tick.pc # "resend" /\ UNCHANGED <<push, lapsed, visible, queue>>
    BY <1>2 DEF Call, Close, Remove, TickOnly, Busy
  <2>3. tick'.pc \in {"close", "remove", "next"}
    BY <2>1, <2>2, StepFields DEF CardTypeOK, Busy
  <2>4. \A k \in cards : k \in cards' \/ On(k)
    BY <1>2, <2>2 DEF Call, Close, Remove, Reached
  <2> QED
    BY <2>2, <2>3, <2>4
<1>3. CASE Patch
  <2>1. UNCHANGED <<push, lapsed, visible, queue>> /\ tick.pc = "patch"
    BY <1>3 DEF Patch, TickOnly
  <2>2. CASE Step("next") /\ UNCHANGED <<issued, cards>>
    <3>1. tick'.pc = "next"
      BY <2>1, <2>2, StepFields DEF CardTypeOK, Busy
    <3> QED
      BY <2>1, <2>2, <3>1
  <2>3. CASE /\ NewCard(issued[tick.id].item, tick.at.chat, issued[tick.id].destructive, issued[tick.id].root)
             /\ Step("swap")
    <3>1. tick'.pc = "swap"
      BY <2>1, <2>3, StepFields DEF CardTypeOK, Busy
    <3>2. Len(issued') = Len(issued) + 1 /\ cards' = cards \cup {Len(issued) + 1}
      BY <2>1, <2>3, PatchCard, NewCardType
    <3> QED
      BY <2>1, <3>1, <3>2
  <2> QED
    BY <1>3, <2>2, <2>3 DEF Patch
<1>4. CASE Swap
  <2>1. tick'.pc = "resend" /\ tick'.id = Len(issued)
    <3>1. tick \in [pc : {"next"} \cup Busy, left : SUBSET queue, id : Ids \cup {NoCard}, at : queue]
      BY <1>4, TickFields DEF Swap, Busy, CardTypeOK
    <3> QED
      BY <1>4, <3>1 DEF Swap
  <2>2. tick.pc = "swap" /\ On(tick.id) /\ Len(issued) \in cards /\ ~On(Len(issued)) /\ cards' = cards \ {tick.id}
    BY <1>4 DEF Swap, Reached, Busy, TickStocked
  <2>3. UNCHANGED <<push, lapsed, visible>>
    BY <1>4 DEF Swap, TickOnly
  <2>4. tick'.id \in cards'
    BY <2>1, <2>2
  <2> QED
    BY <2>1, <2>2, <2>3, <2>4
<1>5. CASE Resend
  <2>1. UNCHANGED <<push, lapsed, cards>> /\ tick'.pc = "next" /\ tick.pc = "resend"
    BY <1>5, StepFields DEF Resend, TickOnly, CardTypeOK, Busy
  <2> QED
    BY <2>1
<1>6. CASE Fetch \/ Commit
  BY <1>6 DEF Fetch, Commit, TickOnly, Quiet, Idle
<1> QED
  BY <1>1, <1>2, <1>3, <1>4, <1>5, <1>6 DEF TickStep, Handle

\* Steps that are not the reactive tick's.
LEMMA OtherMoves ==
  ASSUME PushStart \/ PushStep \/ UNCHANGED cardVars \/ Crash
         \/ (\E u \in Update : Act(u)) \/ (\E k \in Ids : LapseCard(k)) \/ (\E i \in Items : SnoozeEnds(i))
  PROVE  /\ cards \subseteq cards'
         /\ UNCHANGED tick \/ (tick' = Idle /\ push' = Idle)
         /\ lapsed \subseteq lapsed'
BY DEF PushStart, PushStep, NextOffer, Generate, PushSend, PushMark, PushOnly, Proposed, NewCard, Crash, cardVars,
       memoryVars, Act, LapseCard, SnoozeEnds

LEMMA TickStockedStep ==
  ASSUME CardTypeOK, Reached, TickStocked, [CardNext]_cardVars
  PROVE  TickStocked'
PROOF
<1>1. CASE TickStep
  <2>1. tick'.pc = "swap" => ~On(Len(issued'))
    <3>1. \A k \in Ids : On(k) => k \in 1..Len(issued)
      BY DEF Reached
    <3>2. Len(issued) \in Nat /\ \A k \in cards' : tick'.pc = "swap" => k \in Ids
      <4>1. CardTypeOK'
        BY CardTypesStep
      <4>2. Len(issued') \in Nat /\ Len(issued') <= MaxCards /\ cards' \subseteq 1..Len(issued')
        BY <4>1 DEF CardTypeOK
      <4> QED
        BY <4>2, CardAssumption DEF CardTypeOK, CardAssumption, Ids
    <3> QED
      BY <1>1, <3>1, <3>2, TickMoves
  <2>2. tick'.pc = "swap" => ~(\E c \in Chats : Len(issued') \in visible'[c].cards)
    BY <1>1, <2>1, TickMoves DEF On
  <2> QED
    BY <1>1, <2>2, TickMoves DEF TickStocked, On
<1>2. CASE LoopFree /\ (PushStart \/ PushStep)
  <2>1. cards \subseteq cards' /\ UNCHANGED tick /\ tick.pc # "swap"
    BY <1>2, OtherMoves DEF LoopFree, PushStart, PushStep, NextOffer, Generate, PushSend, PushMark, PushOnly
  <2> QED
    BY <2>1 DEF TickStocked
<1>3. CASE Crash
  BY <1>3 DEF Crash, TickStocked, Idle
<1>4. CASE UNCHANGED <<cards, tick, issued, visible>>
  BY <1>4 DEF TickStocked, On
<1> QED
  BY <1>1, <1>2, <1>3, <1>4 DEF CardNext, cardVars, memoryVars, Act, LapseCard, SnoozeEnds

\* The offer on its way while somebody else moves.
LEMMA OfferWaits ==
  ASSUME CardTypeOK, Reached, PushStocked, Grown, UNCHANGED push,
         \A k \in cards : k \in cards' \/ k \in lapsed \/ On(k),
         push.pc = "send" /\ push.id # NoCard =>
           /\ ~On(push.id)'
           /\ tick'.pc = "swap" => push.id # Len(issued')
           /\ tick'.pc = "resend" => push.id # tick'.id
  PROVE  PushStocked'
PROOF
<1>1. push'.pc = "generate" => push'.id = NoCard
  BY DEF PushStocked
<1>2. ASSUME push'.pc = "send", push'.id # NoCard
      PROVE  /\ push'.id \in 1..Len(issued') /\ push'.id \in cards' \cup lapsed'
             /\ issued'[push'.id].item = push'.item
             /\ ~(\E c \in Chats : push'.id \in visible'[c].cards)
             /\ tick'.pc = "swap" => push'.id # Len(issued')
             /\ tick'.pc = "resend" => push'.id # tick'.id
  <2>1. /\ push.id \in 1..Len(issued) /\ push.id \in cards \cup lapsed
        /\ issued[push.id].item = push.item /\ ~On(push.id)
    BY <1>2 DEF PushStocked
  <2>2. ~(\E c \in Chats : push.id \in visible'[c].cards)
    BY <1>2 DEF On
  <2> QED
    BY <1>2, <2>1, <2>2 DEF Grown
<1> QED
  BY <1>1, <1>2 DEF PushStocked, On

LEMMA PushStockedStep ==
  ASSUME CardTypeOK, Reached, TickStocked, PushStocked, [CardNext]_cardVars
  PROVE  PushStocked'
PROOF
<1>1. Grown /\ push \in Pushes /\ Len(issued) \in Nat
  BY CardsGrow DEF CardTypeOK
<1>2. CASE TickStep
  <2>1. ASSUME push.pc = "send", push.id # NoCard
        PROVE  /\ ~(\E c \in Chats : push.id \in visible'[c].cards)
               /\ tick'.pc = "swap" => push.id # Len(issued')
               /\ tick'.pc = "resend" => push.id # tick'.id
    <3>1. /\ push.id \in 1..Len(issued) /\ ~On(push.id)
          /\ tick.pc = "swap" => push.id # Len(issued)
          /\ tick.pc = "resend" => push.id # tick.id
      BY <2>1 DEF PushStocked
    <3>2. ~(\E c \in Chats : push.id \in visible'[c].cards)
      <4>1. CASE UNCHANGED visible
        BY <3>1, <4>1 DEF On
      <4>2. CASE tick.pc = "resend" /\ Resend
        <5>1. tick.id \in Ids /\ tick.at.chat \in Chats /\ issued[tick.id].item \in Items /\ push.id \in Ids
          BY <3>1, <4>2, ResendShow, CardItems
        <5>2. CASE Show(tick.at.chat, tick.id, issued[tick.id].item)
          <6>1. \A k \in Ids : On(k)' => On(k) \/ k = tick.id
            BY <5>1, <5>2, ShowReaches
          <6> QED
            BY <3>1, <4>2, <5>1, <6>1 DEF On
        <5> QED
          BY <4>1, <4>2, <5>2 DEF Resend
      <4> QED
        <5>1. visible' = visible \/ tick.pc = "resend"
          BY <1>2, TickMoves
        <5>2. tick.pc = "resend" => Resend
          BY <1>2 DEF TickStep, Handle, Fetch, Call, Close, Remove, Patch, Swap, Commit, Idle
        <5> QED
          BY <4>1, <4>2, <5>1, <5>2
    <3>3. tick'.pc = "swap" => push.id # Len(issued')
      BY <1>1, <1>2, <3>1, TickMoves
    <3>4. tick'.pc = "resend" => push.id # tick'.id
      BY <1>2, <3>1, TickMoves
    <3> QED
      BY <3>2, <3>3, <3>4
  <2>2. push.pc = "send" /\ push.id # NoCard => ~On(push.id)'
    BY <1>2, <2>1, TickMoves DEF On
  <2> QED
    BY <1>1, <1>2, <2>1, <2>2, TickMoves, OfferWaits
<1>3. CASE push'.pc \notin {"generate", "send"}
  BY <1>3 DEF PushStocked
<1>4. CASE NextOffer
  <2>1. push'.id = NoCard
    BY <1>4 DEF NextOffer
  <2> QED
    BY <2>1 DEF PushStocked
<1>5. CASE LoopFree /\ Generate
  <2>1. push.pc \in Offering /\ push.id = NoCard
    BY <1>5 DEF Generate, PushStocked, Offering
  <2>2. CASE push' = [push EXCEPT !.pc = "send"] /\ UNCHANGED <<issued, cards>>
    <3>1. push'.id = NoCard
      BY <1>1, <2>1, <2>2, OfferFields DEF Offering
    <3> QED
      BY <3>1 DEF PushStocked
  <2>3. CASE Proposed
    <3>1. PICK d \in BOOLEAN : NewCard(push.item, push.chat, d, Len(issued) + 1)
      BY <2>3 DEF Proposed
    <3>2. push.item \in Items /\ push.chat \in Chats /\ Len(issued) + 1 \in Ids
      BY <2>1, <2>3, PushOffer, ProposedCard
    <3>3. /\ Len(issued') = Len(issued) + 1 /\ cards' = cards \cup {Len(issued) + 1}
          /\ issued'[Len(issued) + 1].item = push.item
      <4>1. /\ Len(issued') = Len(issued) + 1 /\ cards' = cards \cup {Len(issued) + 1}
            /\ issued'[Len(issued) + 1] =
                 [item |-> push.item, chat |-> push.chat, destructive |-> d, root |-> Len(issued) + 1]
        BY <3>1, <3>2, NewCardType
      <4> QED
        BY <4>1
    <3>4. push'.pc = "send" /\ push'.id = Len(issued) + 1 /\ push'.item = push.item
      BY <1>1, <2>1, <2>3, <3>2, OfferFields DEF Proposed, Offering
    <3>5. UNCHANGED <<visible, tick>> /\ tick.pc # "swap"
      BY <1>5 DEF Generate, PushOnly, LoopFree
    <3>6. ~(\E c \in Chats : Len(issued) + 1 \in visible'[c].cards)
      BY <1>1, <3>2, <3>5 DEF Reached, On
    <3>7. tick'.pc = "resend" => push'.id # tick'.id
      BY <1>1, <3>4, <3>5 DEF Reached, Busy
    <3>8. push'.id \in 1..Len(issued')
      BY <1>1, <3>3, <3>4
    <3> QED
      BY <3>3, <3>4, <3>5, <3>6, <3>7, <3>8 DEF PushStocked, On
  <2> QED
    BY <1>5, <2>2, <2>3 DEF Generate
<1>6. CASE PushStart \/ PushSend \/ PushMark
  <2>1. push'.pc \in {"idle", "next", "mark"}
    <3>1. CASE PushSend
      <4>1. push.pc \in Offering /\ (push' = Idle \/ push' = [push EXCEPT !.pc = "mark"])
        BY <3>1 DEF PushSend, Offering
      <4>2. push.id \in Ids \cup {NoCard}
        BY <1>1, <4>1, PushFields
      <4> QED
        <5>1. CASE push' = [push EXCEPT !.pc = "mark"]
          BY <1>1, <4>1, <4>2, <5>1, OfferFields DEF Offering
        <5> QED
          BY <4>1, <5>1 DEF Idle
    <3> QED
      BY <1>6, <3>1 DEF PushStart, PushMark, Turn, Idle
  <2> QED
    BY <1>3, <2>1
<1>7. CASE Crash
  BY <1>3, <1>7 DEF Crash, Idle
<1>8. CASE UNCHANGED <<push, cards, tick, issued, visible>>
  <2>1. push.pc = "send" /\ push.id # NoCard =>
           /\ ~On(push.id)'
           /\ tick'.pc = "swap" => push.id # Len(issued')
           /\ tick'.pc = "resend" => push.id # tick'.id
    BY <1>8 DEF PushStocked, On
  <2> QED
    BY <1>1, <1>8, <2>1, OfferWaits
<1> QED
  BY <1>2, <1>4, <1>5, <1>6, <1>7, <1>8 DEF CardNext, PushStep, cardVars, memoryVars, Act, LapseCard, SnoozeEnds

-----------------------------------------------------------------------------
(* Calls of destructive tools. *)

\* Calls are of cards that were made, and a destructive one, made or about to be
\* made, has been confirmed.
Confirmed ==
  /\ \A k \in Ids : calls[k] > 0 => k \in 1..Len(issued)
  /\ ConfirmedFirst
  /\ tick.pc = "call" => (issued[tick.id].destructive => tick.id \in agreed)

LEMMA CallsMove ==
  ASSUME CardTypeOK, Reached, [CardNext]_cardVars
  PROVE  \/ UNCHANGED calls
         \/ /\ Call /\ tick.pc = "call" /\ tick.id \in 1..Len(issued) /\ tick.id \in Ids
            /\ UNCHANGED <<issued, cards>>
            /\ \A k \in Ids : calls'[k] = IF k = tick.id THEN calls[k] + 1 ELSE calls[k]
PROOF
<1>1. CASE Call
  <2>1. tick.pc = "call" /\ tick.id \in 1..Len(issued) /\ UNCHANGED <<issued, cards>>
    BY <1>1 DEF Call, Reached, Busy
  <2>2. tick.id \in Ids
    BY <2>1, CardItems
  <2>3. CASE calls' = [calls EXCEPT ![tick.id] = calls[tick.id] + 1]
    <3>1. \A k \in Ids : calls'[k] = IF k = tick.id THEN calls[k] + 1 ELSE calls[k]
      BY <2>2, <2>3 DEF CardTypeOK
    <3> QED
      BY <1>1, <2>1, <2>2, <3>1
  <2> QED
    BY <1>1, <2>3 DEF Call
<1>2. ASSUME NEW u \in tick.left, tick.pc = "next", Take(u) PROVE UNCHANGED calls
  BY <1>2, TakeMoves
<1>3. CASE Fetch \/ Close \/ Remove \/ Patch \/ Swap \/ Resend \/ Commit
  BY <1>3 DEF Fetch, Close, Remove, Patch, Swap, Resend, Commit, Quiet
<1>4. CASE PushStart \/ PushStep
  BY <1>4 DEF PushStart, PushStep, NextOffer, Generate, PushSend, PushMark, PushOnly
<1> QED
  BY <1>1, <1>2, <1>3, <1>4
  DEF CardNext, TickStep, Handle, cardVars, Crash, Act, LapseCard, SnoozeEnds

LEMMA ConfirmedStep ==
  ASSUME CardTypeOK, Reached, Confirmed, [CardNext]_cardVars
  PROVE  Confirmed'
PROOF
<1>1. Grown /\ CardTypeOK'
  BY CardsGrow, CardTypesStep
<1>2. calls \in [Ids -> Nat] /\ Len(issued) \in Nat
  BY DEF CardTypeOK
<1>3. ASSUME NEW k \in Ids, calls'[k] > 0
      PROVE  k \in 1..Len(issued) /\ (issued[k].destructive => k \in agreed)
  <2>1. CASE UNCHANGED calls
    BY <1>3, <2>1 DEF Confirmed, ConfirmedFirst
  <2>2. CASE /\ Call /\ tick.pc = "call" /\ tick.id \in 1..Len(issued)
             /\ \A j \in Ids : calls'[j] = IF j = tick.id THEN calls[j] + 1 ELSE calls[j]
    <3>1. CASE k = tick.id
      BY <2>2, <3>1 DEF Confirmed
    <3>2. CASE k # tick.id
      BY <1>3, <2>2, <3>2 DEF Confirmed, ConfirmedFirst
    <3> QED
      BY <3>1, <3>2
  <2> QED
    BY <2>1, <2>2, CallsMove
<1>4. ASSUME NEW k \in Ids, calls'[k] > 0
      PROVE  k \in 1..Len(issued') /\ (issued'[k].destructive => k \in agreed')
  BY <1>1, <1>3, <1>4 DEF Grown
<1>5. \A k \in 1..Len(issued') : k \in Ids
  BY <1>1, CardAssumption DEF CardTypeOK, CardAssumption, Ids
<1>6. ASSUME tick'.pc = "call" PROVE issued'[tick'.id].destructive => tick'.id \in agreed'
  <2>1. CASE UNCHANGED tick
    <3>1. tick.id \in 1..Len(issued) /\ (issued[tick.id].destructive => tick.id \in agreed)
      BY <1>6, <2>1 DEF Reached, Busy, Confirmed
    <3> QED
      BY <1>1, <2>1, <3>1 DEF Grown
  <2>2. ASSUME NEW u \in tick.left, tick.pc = "next", Take(u)
        PROVE  issued'[tick'.id].destructive => tick'.id \in agreed'
    <3>1. TakeCalls(u) /\ UNCHANGED issued
      BY <1>6, <2>2, TakeMoves DEF TakeSkips, TakePatches, TakeRejects, TakeEnds, Skip, Rest, Idle
    <3> QED
      BY <3>1 DEF TakeCalls, Rest
  <2>3. CASE Call \/ Close \/ Remove \/ Patch \/ Resend
    <3>1. /\ tick.pc \in Busy /\ UNCHANGED queue
          /\ \E pc \in {"close", "remove", "next", "swap"} : Step(pc)
      BY <2>3 DEF Call, Close, Remove, Patch, Resend, Busy
    <3>2. tick'.pc \in {"close", "remove", "next", "swap"}
      BY <3>1, StepFields DEF CardTypeOK, Busy
    <3> QED
      BY <1>6, <3>2
  <2>4. CASE Swap
    <3>1. tick \in [pc : {"next"} \cup Busy, left : SUBSET queue, id : Ids \cup {NoCard}, at : queue]
      BY <2>4, TickFields DEF Swap, Busy, CardTypeOK
    <3> QED
      BY <1>6, <2>4, <3>1 DEF Swap
  <2>5. CASE Fetch \/ Commit \/ Crash
    BY <1>6, <2>5 DEF Fetch, Commit, Crash, Idle
  <2> QED
    BY <2>1, <2>2, <2>3, <2>4, <2>5
    DEF CardNext, TickStep, Handle, PushStart, PushStep, NextOffer, Generate, PushSend, PushMark, PushOnly,
        cardVars, memoryVars, Act, LapseCard, SnoozeEnds
<1> QED
  BY <1>4, <1>5, <1>6 DEF Confirmed, ConfirmedFirst

-----------------------------------------------------------------------------
(* At most one call. *)

\* A card that can still be called: it is in the store, and the tick is not about
\* to take it out, or its patch is being checked.
Leaving(k) == tick.pc \in {"close", "remove", "swap"} /\ tick.id = k
Held(k) == (k \in cards /\ ~Leaving(k)) \/ (tick.pc = "patch" /\ tick.id = k)
Open(root) == {k \in 1..Len(issued) : issued[k].root = root /\ Held(k)}

\* A call of a root, made or still possible, is the only one, but for crashes.
Balanced(r) == Cardinality(Called(r)) + Cardinality(Open(r)) <= 1 + faults.crash
Once ==
  /\ \A k \in Ids : calls[k] <= 1 + faults.crash /\ (Held(k) => calls[k] <= faults.crash)
  /\ \A k \in 1..Len(issued) : issued[k].root <= k
  /\ \A r \in Ids : Balanced(r)

\* A set that takes in at most one element, that loses one, or that swaps one.
LEMMA SetSizes ==
  ASSUME NEW S, NEW T, NEW x, NEW y, IsFiniteSet(S)
  PROVE  /\ Cardinality(S) \in Nat
         /\ T \subseteq S \cup {y} =>
              IsFiniteSet(T) /\ Cardinality(T) \in Nat /\ Cardinality(T) <= Cardinality(S) + 1
         /\ T \subseteq S => Cardinality(T) <= Cardinality(S)
         /\ x \in S /\ T \subseteq S \ {x} => Cardinality(T) + 1 <= Cardinality(S)
         /\ x \in S /\ T \subseteq (S \ {x}) \cup {y} => Cardinality(T) <= Cardinality(S)
PROOF
<1>1. Cardinality(S) \in Nat
  BY FS_CardinalityType
<1>2. /\ IsFiniteSet(S \ {x}) /\ Cardinality(S \ {x}) \in Nat
      /\ x \in S => Cardinality(S \ {x}) = Cardinality(S) - 1
  <2>1. IsFiniteSet(S \ {x}) /\ (x \in S => Cardinality(S \ {x}) = Cardinality(S) - 1)
    BY FS_RemoveElement
  <2> QED
    BY <2>1, FS_CardinalityType
<1>3. ASSUME NEW R, IsFiniteSet(R), T \subseteq R \cup {y}
      PROVE  IsFiniteSet(T) /\ Cardinality(T) \in Nat /\ Cardinality(T) <= Cardinality(R) + 1
  <2>1. /\ IsFiniteSet(R \cup {y})
        /\ Cardinality(R \cup {y}) = IF y \in R THEN Cardinality(R) ELSE Cardinality(R) + 1
    BY <1>3, FS_AddElement
  <2>2. Cardinality(R) \in Nat
    BY <1>3, FS_CardinalityType
  <2>3. IsFiniteSet(T) /\ Cardinality(T) <= Cardinality(R \cup {y})
    BY <1>3, <2>1, FS_Subset
  <2>4. Cardinality(T) \in Nat
    BY <2>3, FS_CardinalityType
  <2>5. Cardinality(R \cup {y}) <= Cardinality(R) + 1
    BY <2>1, <2>2
  <2>6. Cardinality(R \cup {y}) \in Nat
    BY <2>1, FS_CardinalityType
  <2> QED
    BY <2>2, <2>3, <2>4, <2>5, <2>6
<1>4. T \subseteq S => Cardinality(T) <= Cardinality(S)
  BY FS_Subset
<1>5. ASSUME x \in S, T \subseteq S \ {x} PROVE Cardinality(T) + 1 <= Cardinality(S)
  <2>1. Cardinality(T) <= Cardinality(S \ {x}) /\ IsFiniteSet(T)
    BY <1>2, <1>5, FS_Subset
  <2>2. Cardinality(T) \in Nat
    BY <2>1, FS_CardinalityType
  <2> QED
    BY <1>1, <1>2, <1>5, <2>1, <2>2
<1>6. ASSUME x \in S, T \subseteq (S \ {x}) \cup {y} PROVE Cardinality(T) <= Cardinality(S)
  <2>1. Cardinality(T) <= Cardinality(S \ {x}) + 1 /\ Cardinality(T) \in Nat
    BY <1>2, <1>3, <1>6
  <2> QED
    BY <1>1, <1>2, <1>6, <2>1
<1> QED
  BY <1>1, <1>3, <1>4, <1>5, <1>6

LEMMA CrashCount ==
  ASSUME CardTypeOK, [CardNext]_cardVars
  PROVE  /\ faults.crash \in Nat /\ faults.fail \in Nat /\ faults'.fail \in Nat
         /\ \/ faults'.crash = faults.crash
            \/ Crash /\ faults'.crash = faults.crash + 1
         /\ \/ faults'.fail = faults.fail
            \/ Fail /\ faults'.fail = faults.fail + 1
         /\ Fail => faults'.fail = faults.fail + 1
         /\ Crash => faults'.crash = faults.crash + 1 /\ faults'.fail = faults.fail
PROOF
<1>1. faults \in [fail : Nat, crash : Nat, update : Nat]
  BY DEF CardTypeOK
<1>2. Fail => faults'.crash = faults.crash /\ faults'.fail = faults.fail + 1
  BY FailType
<1>3. Crash => faults'.crash = faults.crash + 1 /\ faults'.fail = faults.fail
  BY <1>1 DEF Crash
<1>4. ASSUME NEW u \in Update, Act(u) PROVE faults'.crash = faults.crash /\ faults'.fail = faults.fail
  <2>1. faults' = [faults EXCEPT !.update = faults.update + 1]
    BY <1>4 DEF Act
  <2> QED
    BY <1>1, <2>1
<1>5. UNCHANGED faults \/ Fail \/ Crash \/ \E u \in Update : Act(u)
  <2>1. ASSUME NEW u \in tick.left, tick.pc = "next", Take(u) PROVE UNCHANGED faults \/ Fail
    BY <2>1, TakeMoves
  <2>2. CASE TickStep
    BY <2>1, <2>2 DEF TickStep, Handle, Fetch, Call, Close, Remove, Patch, Swap, Resend, Commit, Quiet
  <2> QED
    BY <2>2 DEF CardNext, PushStart, PushStep, NextOffer, Generate, PushSend, PushMark, cardVars, LapseCard, SnoozeEnds
<1> QED
  BY <1>1, <1>2, <1>3, <1>4, <1>5

\* Short of a crash, the only card that comes to be held is the one just made; the
\* tick holds no card it has called or replaced.
LEMMA HeldMoves ==
  ASSUME CardTypeOK, Reached, TickStocked, [CardNext]_cardVars, ~Crash
  PROVE  /\ \A k \in Ids : Held(k)' => Held(k) \/ (k = Len(issued) + 1 /\ ~UNCHANGED issued)
         /\ Call => Held(tick.id) /\ \A k \in Ids : k = tick.id => ~Held(k)'
         /\ Patch => Held(tick.id) /\ \A k \in Ids : k = tick.id /\ ~UNCHANGED issued => ~Held(k)'
PROOF
<1>1. CASE UNCHANGED <<cards, tick>> /\ ~Call /\ ~Patch
  BY <1>1 DEF Held, Leaving
<1>2. ASSUME NEW u \in tick.left, tick.pc = "next", Take(u), NEW k \in Ids, Held(k)'
      PROVE  Held(k)
  <2>1. cards' \subseteq cards /\ (k \in cards \/ (tick'.pc = "patch" /\ tick'.id = k))
    BY <1>2, TakeMoves DEF TakeSkips, TakeCalls, TakePatches, TakeRejects, TakeEnds, Held
  <2>2. tick'.pc = "patch" /\ tick'.id = k => k \in cards
    BY <1>2, TakeMoves DEF TakeSkips, TakeCalls, TakePatches, TakeRejects, TakeEnds, Skip, Rest, Idle
  <2> QED
    BY <1>2, <2>1, <2>2 DEF Held, Leaving
<1>3. CASE Generate /\ ~Call /\ ~Patch
  <2>1. UNCHANGED tick /\ (UNCHANGED cards \/ (~UNCHANGED issued /\ cards' = cards \cup {Len(issued) + 1}))
    <3>1. CASE Proposed
      <4>1. push.pc \in Offering
        BY <1>3 DEF Generate, Offering
      <4>2. PICK d \in BOOLEAN : NewCard(push.item, push.chat, d, Len(issued) + 1)
        BY <3>1 DEF Proposed
      <4>3. Len(issued') = Len(issued) + 1 /\ Len(issued) \in Nat /\ cards' = cards \cup {Len(issued) + 1}
        BY <3>1, <4>1, <4>2, ProposedCard, PushOffer, NewCardType
      <4> QED
        BY <1>3, <4>3 DEF Generate, PushOnly
    <3> QED
      BY <1>3, <3>1 DEF Generate, PushOnly
  <2>2. \A k \in Ids : Held(k)' => Held(k) \/ (k = Len(issued) + 1 /\ ~UNCHANGED issued)
    BY <2>1 DEF Held, Leaving
  <2> QED
    BY <1>3, <2>2
<1>4. CASE Call
  <2>1. /\ tick.pc = "call" /\ UNCHANGED <<cards, queue>> /\ tick.id \in cards
        /\ \E pc \in {"close", "remove"} : Step(pc)
    BY <1>4 DEF Call, TickStocked
  <2>2. tick'.pc \in {"close", "remove"} /\ tick'.id = tick.id
    BY <2>1, StepFields DEF CardTypeOK, Busy
  <2> QED
    BY <2>1, <2>2 DEF Held, Leaving, Patch
<1>5. CASE Close
  <2>1. /\ tick.pc \in {"close", "reject"} /\ UNCHANGED <<cards, queue>> /\ Step("remove")
    BY <1>5 DEF Close
  <2>2. tick'.pc = "remove" /\ tick'.id = tick.id
    BY <2>1, StepFields DEF CardTypeOK, Busy
  <2> QED
    BY <2>1, <2>2 DEF Held, Leaving, Patch, Call
<1>6. CASE Remove
  <2>1. /\ tick.pc = "remove" /\ UNCHANGED queue /\ Step("next") /\ cards' = cards \ {tick.id}
    BY <1>6 DEF Remove
  <2>2. tick'.pc = "next" /\ tick'.id = tick.id
    BY <2>1, StepFields DEF CardTypeOK, Busy
  <2> QED
    BY <2>1, <2>2 DEF Held, Leaving, Patch, Call
<1>7. CASE Patch
  <2>1. tick.pc = "patch" /\ UNCHANGED queue /\ Held(tick.id) /\ ~Call
    BY <1>7 DEF Patch, Held, Call
  <2>2. CASE Step("next") /\ UNCHANGED <<issued, cards>>
    <3>1. tick'.pc = "next" /\ tick'.id = tick.id
      BY <2>1, <2>2, StepFields DEF CardTypeOK, Busy
    <3> QED
      BY <2>1, <2>2, <3>1 DEF Held, Leaving
  <2>3. CASE /\ NewCard(issued[tick.id].item, tick.at.chat, issued[tick.id].destructive, issued[tick.id].root)
             /\ Step("swap")
    <3>1. tick'.pc = "swap" /\ tick'.id = tick.id
      BY <2>1, <2>3, StepFields DEF CardTypeOK, Busy
    <3>2. Len(issued') = Len(issued) + 1 /\ Len(issued) \in Nat /\ cards' = cards \cup {Len(issued) + 1}
      BY <2>1, <2>3, PatchCard, NewCardType
    <3>3. ~UNCHANGED issued
      BY <3>2
    <3> QED
      BY <2>1, <3>1, <3>2, <3>3 DEF Held, Leaving
  <2> QED
    BY <1>7, <2>2, <2>3 DEF Patch
<1>8. CASE Swap
  <2>1. tick.pc = "swap" /\ cards' = cards \ {tick.id} /\ tick'.pc = "resend"
    <3>1. tick \in [pc : {"next"} \cup Busy, left : SUBSET queue, id : Ids \cup {NoCard}, at : queue]
      BY <1>8, TickFields DEF Swap, Busy, CardTypeOK
    <3> QED
      BY <1>8, <3>1 DEF Swap
  <2> QED
    BY <2>1 DEF Held, Leaving, Patch, Call
<1>9. CASE Resend
  <2>1. tick.pc = "resend" /\ UNCHANGED <<cards, queue>> /\ tick'.pc = "next"
    BY <1>9, StepFields DEF Resend, CardTypeOK, Busy
  <2> QED
    BY <2>1 DEF Held, Leaving, Patch, Call
<1>10. CASE Fetch \/ Commit
  BY <1>10 DEF Fetch, Commit, Quiet, Idle, Held, Leaving, Patch, Call
<1>11. ASSUME NEW u \in tick.left, tick.pc = "next", Take(u) PROVE ~Call /\ ~Patch
  BY <1>11 DEF Call, Patch
<1> QED
  BY <1>1, <1>2, <1>3, <1>4, <1>5, <1>6, <1>7, <1>8, <1>9, <1>10, <1>11
  DEF CardNext, TickStep, Handle, PushStart, PushStep, NextOffer, PushSend, PushMark, PushOnly,
      cardVars, memoryVars, Act, LapseCard, SnoozeEnds

\* A new card is a root of its own or takes over the root of the card it patches.
LEMMA RootsStep ==
  ASSUME CardTypeOK, Reached, [CardNext]_cardVars
  PROVE  \/ UNCHANGED issued
         \/ /\ Len(issued') = Len(issued) + 1 /\ Len(issued) + 1 \in Ids
            /\ \A k \in 1..Len(issued) : issued'[k] = issued[k]
            /\ \/ ~Call /\ ~Crash /\ issued'[Len(issued) + 1].root = Len(issued) + 1
               \/ /\ Patch /\ ~Crash /\ tick.id \in 1..Len(issued) /\ tick.id \in Ids
                  /\ issued'[Len(issued) + 1].root = issued[tick.id].root
PROOF
<1>1. CASE Generate
  <2>1. CASE Proposed
    <3>1. push.pc \in Offering
      BY <1>1 DEF Generate, Offering
    <3>2. PICK d \in BOOLEAN : NewCard(push.item, push.chat, d, Len(issued) + 1)
      BY <2>1 DEF Proposed
    <3>3. push.item \in Items /\ push.chat \in Chats /\ Len(issued) + 1 \in Ids
      BY <2>1, <3>1, PushOffer, ProposedCard
    <3>4. /\ Len(issued') = Len(issued) + 1 /\ Len(issued) \in Nat
          /\ \A k \in 1..Len(issued) : issued'[k] = issued[k]
          /\ issued'[Len(issued) + 1] =
               [item |-> push.item, chat |-> push.chat, destructive |-> d, root |-> Len(issued) + 1]
      BY <3>2, <3>3, NewCardType
    <3>5. ~Call /\ ~Crash
      BY <3>4 DEF Call, Crash
    <3> QED
      BY <3>3, <3>4, <3>5
  <2> QED
    BY <1>1, <2>1 DEF Generate
<1>2. CASE Patch
  <2>1. CASE NewCard(issued[tick.id].item, tick.at.chat, issued[tick.id].destructive, issued[tick.id].root)
    <3>1. /\ tick.id \in 1..Len(issued) /\ tick.at.chat \in Chats
          /\ issued[tick.id].item \in Items /\ issued[tick.id].destructive \in BOOLEAN /\ issued[tick.id].root \in Ids
      BY <1>2, <2>1, PatchCard DEF Patch
    <3>2. /\ Len(issued') = Len(issued) + 1 /\ Len(issued) \in Nat /\ Len(issued) + 1 \in Ids
          /\ \A k \in 1..Len(issued) : issued'[k] = issued[k]
          /\ issued'[Len(issued) + 1] =
               [item |-> issued[tick.id].item, chat |-> tick.at.chat,
                destructive |-> issued[tick.id].destructive, root |-> issued[tick.id].root]
      BY <2>1, <3>1, NewCardType
    <3>3. issued'[Len(issued) + 1].root = issued[tick.id].root
      BY <3>2
    <3>4. ~Crash /\ tick.id \in Ids
      BY <3>1, <3>2, CardItems DEF Crash
    <3> QED
      BY <1>2, <3>1, <3>2, <3>3, <3>4
  <2> QED
    BY <1>2, <2>1 DEF Patch
<1>3. ASSUME NEW u \in tick.left, tick.pc = "next", Take(u) PROVE UNCHANGED issued
  BY <1>3, TakeMoves
<1> QED
  BY <1>1, <1>2, <1>3
  DEF CardNext, TickStep, Handle, Fetch, Call, Close, Remove, Swap, Resend, Commit, Quiet,
      PushStart, PushStep, NextOffer, PushSend, PushMark, cardVars, Crash, Act, LapseCard, SnoozeEnds

\* The calls made (C) and possible (O) before a step, and after it (D and P).
LEMMA BalanceMoves ==
  ASSUME NEW C, NEW O, NEW D, NEW P, IsFiniteSet(C), IsFiniteSet(O),
         NEW crash \in Nat, NEW crashes \in Nat, Cardinality(C) + Cardinality(O) <= 1 + crash,
         \/ D \subseteq C /\ P \subseteq O /\ crashes = crash
         \/ crashes = crash /\ \E x \in O : D \subseteq C \cup {x} /\ P \subseteq O \ {x}
         \/ crashes = crash /\ D \subseteq C /\ \E x \in O : \E y : P \subseteq (O \ {x}) \cup {y}
         \/ crashes = crash + 1 /\ D \subseteq C /\ \E y : P \subseteq O \cup {y}
         \/ D = {} /\ \E y : P \subseteq {y}
  PROVE  Cardinality(D) + Cardinality(P) <= 1 + crashes
PROOF
<1>1. /\ Cardinality(C) \in Nat
      /\ \A x : D \subseteq C \cup {x} =>
           IsFiniteSet(D) /\ Cardinality(D) \in Nat /\ Cardinality(D) <= Cardinality(C) + 1
      /\ D \subseteq C => Cardinality(D) <= Cardinality(C)
  BY SetSizes
<1>2. /\ Cardinality(O) \in Nat
      /\ \A y : P \subseteq O \cup {y} =>
           IsFiniteSet(P) /\ Cardinality(P) \in Nat /\ Cardinality(P) <= Cardinality(O) + 1
      /\ P \subseteq O => Cardinality(P) <= Cardinality(O)
      /\ \A x \in O : P \subseteq O \ {x} => Cardinality(P) + 1 <= Cardinality(O)
      /\ \A x \in O : \A y : P \subseteq (O \ {x}) \cup {y} => Cardinality(P) <= Cardinality(O)
  BY SetSizes
<1>3. CASE D \subseteq C /\ P \subseteq O /\ crashes = crash
  <2>1. D \subseteq C \cup {0} /\ P \subseteq O \cup {0}
    BY <1>3
  <2>2. /\ Cardinality(D) \in Nat /\ Cardinality(D) <= Cardinality(C)
        /\ Cardinality(P) \in Nat /\ Cardinality(P) <= Cardinality(O)
    BY <1>1, <1>2, <1>3, <2>1
  <2> QED
    BY <1>1, <1>2, <1>3, <2>2
<1>4. ASSUME NEW x \in O, D \subseteq C \cup {x}, P \subseteq O \ {x}, crashes = crash
      PROVE  Cardinality(D) + Cardinality(P) <= 1 + crashes
  <2>1. P \subseteq O \cup {0}
    BY <1>4
  <2>2. /\ Cardinality(D) \in Nat /\ Cardinality(D) <= Cardinality(C) + 1
        /\ Cardinality(P) \in Nat /\ Cardinality(P) + 1 <= Cardinality(O)
    BY <1>1, <1>2, <1>4, <2>1
  <2> QED
    BY <1>1, <1>2, <1>4, <2>2
<1>5. ASSUME NEW x \in O, NEW y, D \subseteq C, P \subseteq (O \ {x}) \cup {y}, crashes = crash
      PROVE  Cardinality(D) + Cardinality(P) <= 1 + crashes
  <2>1. D \subseteq C \cup {0} /\ P \subseteq O \cup {y}
    BY <1>5
  <2>2. /\ Cardinality(D) \in Nat /\ Cardinality(D) <= Cardinality(C)
        /\ Cardinality(P) \in Nat /\ Cardinality(P) <= Cardinality(O)
    BY <1>1, <1>2, <1>5, <2>1
  <2> QED
    BY <1>1, <1>2, <1>5, <2>2
<1>6. ASSUME NEW y, D \subseteq C, P \subseteq O \cup {y}, crashes = crash + 1
      PROVE  Cardinality(D) + Cardinality(P) <= 1 + crashes
  <2>1. D \subseteq C \cup {0}
    BY <1>6
  <2>2. /\ Cardinality(D) \in Nat /\ Cardinality(D) <= Cardinality(C)
        /\ Cardinality(P) \in Nat /\ Cardinality(P) <= Cardinality(O) + 1
    BY <1>1, <1>2, <1>6, <2>1
  <2> QED
    BY <1>1, <1>2, <1>6, <2>2
<1>7. ASSUME NEW y, D = {}, P \subseteq {y}
      PROVE  Cardinality(D) + Cardinality(P) <= 1 + crashes
  <2>1. /\ IsFiniteSet({}) /\ Cardinality({}) = 0
    BY FS_EmptySet
  <2>2. P \subseteq {} \cup {y}
    BY <1>7
  <2>3. Cardinality(P) \in Nat /\ Cardinality(P) <= Cardinality({}) + 1
    BY <2>1, <2>2, SetSizes
  <2> QED
    BY <1>7, <2>1, <2>3
<1> QED
  BY <1>3, <1>4, <1>5, <1>6, <1>7

LEMMA RootSets ==
  ASSUME CardTypeOK, NEW r \in Ids
  PROVE  IsFiniteSet(Called(r)) /\ IsFiniteSet(Open(r))
PROOF
<1>1. IsFiniteSet(1..Len(issued))
  BY FS_Interval DEF CardTypeOK
<1> QED
  BY <1>1, FS_Subset DEF Called, Open

LEMMA BalanceStep ==
  ASSUME CardTypeOK, Reached, TickStocked, Confirmed, Once, [CardNext]_cardVars, NEW r \in Ids
  PROVE  Balanced(r)'
PROOF
<1> DEFINE C == Called(r)
           O == Open(r)
           n == Len(issued) + 1
           D == {k \in 1..Len(issued') : issued'[k].root = r /\ calls'[k] > 0}
           P == {k \in 1..Len(issued') : issued'[k].root = r /\ Held(k)'}
<1>1. /\ Cardinality(C) + Cardinality(O) <= 1 + faults.crash
      /\ IsFiniteSet(C) /\ IsFiniteSet(O)
      /\ faults.crash \in Nat /\ Len(issued) \in Nat /\ calls \in [Ids -> Nat]
  BY RootSets, CrashCount DEF Once, Balanced, CardTypeOK
<1>2. faults'.crash \in Nat
  BY CrashCount
<1>3. SUFFICES Cardinality(D) + Cardinality(P) <= 1 + faults'.crash
  BY DEF Balanced, Called, Open
<1>4. \A k \in 1..Len(issued) : k \in Ids /\ k # n /\ k < n
  BY <1>1, CardItems
<1>5. \A k \in 1..Len(issued) : (k \in C <=> issued[k].root = r /\ calls[k] > 0) /\ (k \in O <=> issued[k].root = r /\ Held(k))
  BY DEF Called, Open
<1>6. \A k : (k \in D <=> k \in 1..Len(issued') /\ issued'[k].root = r /\ calls'[k] > 0)
          /\ (k \in P <=> k \in 1..Len(issued') /\ issued'[k].root = r /\ Held(k)')
  OBVIOUS
<1> HIDE DEF C, O, D, P
<1>7. CASE Crash
  <2>1. UNCHANGED <<issued, calls, cards>> /\ tick' = Idle /\ faults'.crash = faults.crash + 1
    BY <1>7, CrashCount DEF Crash
  <2>2. D \subseteq C
    BY <1>5, <1>6, <2>1
  <2>3. P \subseteq O \cup {tick.id}
    <3>1. \A k \in Ids : Held(k)' => Held(k) \/ k = tick.id
      BY <2>1 DEF Held, Leaving, Idle
    <3> QED
      BY <1>4, <1>5, <1>6, <2>1, <3>1
  <2> QED
    BY <1>1, <1>2, <2>1, <2>2, <2>3, BalanceMoves
<1>8. CASE ~Crash /\ UNCHANGED issued
  <2>1. faults'.crash = faults.crash /\ \A k \in Ids : Held(k)' => Held(k)
    BY <1>8, CrashCount, HeldMoves
  <2>2. P \subseteq O
    BY <1>4, <1>5, <1>6, <1>8, <2>1
  <2>3. CASE UNCHANGED calls
    <3>1. D \subseteq C
      BY <1>5, <1>6, <1>8, <2>3
    <3> QED
      BY <1>1, <1>2, <2>1, <2>2, <3>1, BalanceMoves
  <2>4. CASE /\ Call /\ tick.id \in 1..Len(issued) /\ tick.id \in Ids
             /\ \A k \in Ids : calls'[k] = IF k = tick.id THEN calls[k] + 1 ELSE calls[k]
    <3>1. Held(tick.id) /\ \A k \in Ids : k = tick.id => ~Held(k)'
      BY <1>8, <2>4, HeldMoves
    <3>2. D \subseteq C \cup {tick.id}
      BY <1>4, <1>5, <1>6, <1>8, <2>4
    <3>3. P \subseteq O \ {tick.id}
      BY <1>4, <1>6, <1>8, <2>2, <2>4, <3>1
    <3>4. CASE issued[tick.id].root = r
      <4>1. tick.id \in O
        BY <1>5, <1>6, <2>4, <3>1, <3>4
      <4> QED
        BY <1>1, <1>2, <2>1, <3>2, <3>3, <4>1, BalanceMoves
    <3>5. CASE issued[tick.id].root # r
      <4>1. D \subseteq C
        BY <1>4, <1>5, <1>6, <1>8, <2>4, <3>5
      <4> QED
        BY <1>1, <1>2, <2>1, <2>2, <4>1, BalanceMoves
    <3> QED
      BY <3>4, <3>5
  <2> QED
    BY <2>3, <2>4, CallsMove
<1>9. ASSUME Len(issued') = n, n \in Ids, \A k \in 1..Len(issued) : issued'[k] = issued[k],
             ~UNCHANGED issued, ~Crash,
             \/ ~Call /\ issued'[n].root = n
             \/ /\ Patch /\ tick.id \in 1..Len(issued) /\ tick.id \in Ids
                /\ issued'[n].root = issued[tick.id].root
      PROVE  Cardinality(D) + Cardinality(P) <= 1 + faults'.crash
  <2>1. faults'.crash = faults.crash /\ UNCHANGED calls
    BY <1>9, CrashCount, CallsMove
  <2>2. calls'[n] = 0
    BY <1>1, <1>9, <2>1 DEF Confirmed
  <2>3. \A k \in 1..Len(issued') : k \in 1..Len(issued) \/ k = n
    BY <1>1, <1>9
  <2>4. D \subseteq C
    BY <1>4, <1>5, <1>6, <1>9, <2>1, <2>2, <2>3
  <2>5. \A k \in 1..Len(issued) : Held(k)' => Held(k)
    BY <1>4, <1>6, <1>9, HeldMoves
  <2>6. CASE issued'[n].root # r
    <3>1. P \subseteq O
      BY <1>5, <1>6, <1>9, <2>3, <2>5, <2>6
    <3> QED
      BY <1>1, <1>2, <2>1, <2>4, <3>1, BalanceMoves
  <2>7. CASE issued'[n].root = r /\ n = r
    <3>1. \A k \in 1..Len(issued) : issued[k].root # r
      <4>1. ASSUME NEW k \in 1..Len(issued) PROVE issued[k].root # r
        <5>1. issued[k].root <= k /\ issued[k].root \in Ids /\ k < n
          BY <1>4, CardItems DEF Once
        <5> QED
          BY <1>1, <2>7, <5>1 DEF Ids
      <4> QED
        BY <4>1
    <3>2. D = {} /\ P \subseteq {n}
      BY <1>6, <1>9, <2>1, <2>2, <2>3, <3>1
    <3>3. \E y : P \subseteq {y}
      BY <3>2
    <3> QED
      BY <1>1, <1>2, <3>2, <3>3, BalanceMoves
  <2>8. CASE issued'[n].root = r /\ n # r
    <3>1. Patch /\ tick.id \in 1..Len(issued) /\ tick.id \in Ids /\ issued[tick.id].root = r
      BY <1>9, <2>8
    <3>2. Held(tick.id) /\ \A k \in Ids : k = tick.id => ~Held(k)'
      BY <1>9, <3>1, HeldMoves
    <3>3. tick.id \in O
      BY <1>5, <1>6, <3>1, <3>2
    <3>4. P \subseteq (O \ {tick.id}) \cup {n}
      BY <1>4, <1>5, <1>6, <1>9, <2>3, <2>5, <3>2
    <3>5. \E x \in O : \E y : P \subseteq (O \ {x}) \cup {y}
      BY <3>3, <3>4
    <3> QED
      BY <1>1, <1>2, <2>1, <2>4, <3>5, BalanceMoves
  <2> QED
    BY <2>6, <2>7, <2>8
<1> QED
  BY <1>7, <1>8, <1>9, RootsStep

LEMMA OnceStep ==
  ASSUME CardTypeOK, Reached, TickStocked, Confirmed, Once, [CardNext]_cardVars
  PROVE  Once'
PROOF
<1>1. /\ calls \in [Ids -> Nat] /\ faults.crash \in Nat /\ Len(issued) \in Nat
      /\ \A k \in Ids : calls[k] <= 1 + faults.crash /\ (Held(k) => calls[k] <= faults.crash)
  BY CrashCount DEF Once, CardTypeOK
<1>2. \A k \in Ids : calls'[k] <= 1 + faults'.crash /\ (Held(k)' => calls'[k] <= faults'.crash)
  <2>1. CASE Crash
    <3>1. UNCHANGED calls /\ faults'.crash = faults.crash + 1
      BY <2>1, CrashCount DEF Crash
    <3> QED
      BY <1>1, <3>1
  <2>2. CASE ~Crash
    <3>1. faults'.crash = faults.crash
      BY <2>2, CrashCount
    <3>2. CASE UNCHANGED calls
      <4>1. ASSUME NEW k \in Ids, Held(k)' PROVE calls[k] <= faults.crash
        <5>1. Held(k) \/ (k = Len(issued) + 1)
          BY <2>2, <4>1, HeldMoves
        <5>2. k = Len(issued) + 1 => calls[k] = 0
          BY <1>1 DEF Confirmed
        <5> QED
          BY <1>1, <5>1, <5>2
      <4> QED
        BY <1>1, <3>1, <3>2, <4>1
    <3>3. CASE /\ Call /\ tick.id \in 1..Len(issued) /\ tick.id \in Ids /\ UNCHANGED issued
               /\ \A k \in Ids : calls'[k] = IF k = tick.id THEN calls[k] + 1 ELSE calls[k]
      <4>1. Held(tick.id) /\ \A k \in Ids : Held(k)' => Held(k) /\ k # tick.id
        BY <2>2, <3>3, HeldMoves
      <4> QED
        BY <1>1, <3>1, <3>3, <4>1
    <3> QED
      BY <3>2, <3>3, CallsMove
  <2> QED
    BY <2>1, <2>2
<1>3. \A k \in 1..Len(issued') : issued'[k].root <= k
  <2>1. \A k \in 1..Len(issued) : issued[k].root <= k /\ issued[k].root \in Ids
    BY CardItems DEF Once
  <2>2. CASE UNCHANGED issued
    BY <2>1, <2>2
  <2>3. ASSUME Len(issued') = Len(issued) + 1, \A k \in 1..Len(issued) : issued'[k] = issued[k],
               \/ issued'[Len(issued) + 1].root = Len(issued) + 1
               \/ tick.id \in 1..Len(issued) /\ issued'[Len(issued) + 1].root = issued[tick.id].root
        PROVE  \A k \in 1..Len(issued') : issued'[k].root <= k
    <3>1. issued'[Len(issued) + 1].root <= Len(issued) + 1
      BY <1>1, <2>1, <2>3 DEF Ids
    <3>2. \A k \in 1..Len(issued') : k \in 1..Len(issued) \/ k = Len(issued) + 1
      BY <1>1, <2>3
    <3> QED
      BY <2>1, <2>3, <3>1, <3>2
  <2> QED
    BY <2>2, <2>3, RootsStep
<1>4. \A r \in Ids : Balanced(r)'
  BY BalanceStep
<1> QED
  BY <1>2, <1>3, <1>4 DEF Once

-----------------------------------------------------------------------------
(* Every chat is told. *)

\* The push tick still has to offer the occurrence to the chat.
Pending(c, i) ==
  \/ push.pc # "idle" /\ \E t \in push.left : ItemList[t[1]] = i /\ ChatList[t[2]] = c
  \/ push.pc \in {"generate", "send"} /\ push.item = i /\ push.chat = c

\* The client has begun with the occurrence.
Touched(i) ==
  \/ outcome[i] # "none" \/ \E k \in 1..Len(issued) : issued[k].item = i
  \/ \E c \in Chats : i \in visible[c].plain \/ Pending(c, i)
  \/ push.pc = "mark" /\ push.item = i

Rounds ==
  faults.fail + faults.crash = 0 =>
    \A i \in Items : Touched(i) => \A c \in Chats : Told(c, i) \/ Pending(c, i)

LEMMA ToldStays ==
  ASSUME CardTypeOK, Reached, Grown, NEW c \in Chats, NEW i \in Items, Told(c, i)
  PROVE  Told(c, i)'
PROOF
<1>1. \A k \in visible[c].cards : k \in 1..Len(issued)
  BY DEF CardTypeOK, Reached, On
<1> QED
  BY <1>1 DEF Told, Grown

LEMMA OfferKept ==
  ASSUME CardTypeOK, Generate
  PROVE  /\ push.pc = "generate" /\ push'.pc = "send"
         /\ push'.left = push.left /\ push'.item = push.item /\ push'.chat = push.chat
         /\ push.item \in Items /\ push.chat \in Chats
PROOF
<1>1. push \in Pushes /\ push.pc = "generate" /\ push.pc \in Offering
  BY DEF CardTypeOK, Generate, Offering
<1>2. push.item \in Items /\ push.chat \in Chats /\ push.id \in Ids \cup {NoCard}
  BY <1>1, PushOffer
<1>3. CASE Proposed
  <2>1. Len(issued) + 1 \in Ids /\ push' = [push EXCEPT !.pc = "send", !.id = Len(issued) + 1]
    BY <1>1, <1>3, ProposedCard DEF Proposed
  <2> QED
    BY <1>1, <1>2, <2>1, OfferFields DEF Offering
<1>4. CASE push' = [push EXCEPT !.pc = "send"]
  BY <1>1, <1>2, <1>4, OfferFields DEF Offering
<1> QED
  BY <1>3, <1>4 DEF Generate

LEMMA SendKept ==
  ASSUME CardTypeOK, PushSend, ~Fail
  PROVE  /\ push.pc = "send" /\ push'.pc = "mark" /\ Show(push.chat, push.id, push.item) /\ UNCHANGED issued
         /\ push'.left = push.left /\ push'.item = push.item /\ push'.chat = push.chat
         /\ push.item \in Items /\ push.chat \in Chats /\ push.id \in Ids \cup {NoCard}
PROOF
<1>1. push \in Pushes /\ push.pc = "send" /\ push.pc \in Offering /\ UNCHANGED issued
  BY DEF CardTypeOK, PushSend, Offering
<1>2. push.item \in Items /\ push.chat \in Chats /\ push.id \in Ids \cup {NoCard}
  BY <1>1, PushOffer
<1>3. push' = [push EXCEPT !.pc = "mark"] /\ Show(push.chat, push.id, push.item)
  BY DEF PushSend
<1> QED
  BY <1>1, <1>2, <1>3, OfferFields DEF Offering

LEMMA MarkKept ==
  ASSUME CardTypeOK, PushMark, ~Fail
  PROVE  /\ push.pc = "mark" /\ Mark(push.item, "surfaced") /\ push.item \in Items
         /\ push.left \in SUBSET Turns
         /\ \/ push'.pc = "idle" /\ push.left = {}
            \/ push'.pc = "next" /\ push'.left = push.left
PROOF
<1>1. push \in Pushes /\ push.pc = "mark" /\ push.pc \in Offering
  BY DEF CardTypeOK, PushMark, Offering
<1>2. Mark(push.item, "surfaced") /\ push' = Turn(push.left)
  BY DEF PushMark
<1>3. push.left \in SUBSET Turns /\ push.item \in Items
  BY <1>1, PushFields
<1> QED
  BY <1>1, <1>2, <1>3, TurnType

LEMMA PendingStays ==
  ASSUME CardTypeOK, Reached, TickStocked, PushStocked, [CardNext]_cardVars, ~Fail, ~Crash,
         NEW c \in Chats, NEW i \in Items, Pending(c, i)
  PROVE  Pending(c, i)' \/ Told(c, i)'
PROOF
<1>1. CASE UNCHANGED push
  BY <1>1 DEF Pending
<1>2. CASE PushStart
  BY <1>2 DEF PushStart, Idle, Pending
<1>3. CASE NextOffer
  <2>1. PICK t \in push.left, pc \in {"generate", "send"} :
          push' = [pc |-> pc, left |-> push.left \ {t}, id |-> NoCard,
                   item |-> ItemList[t[1]], chat |-> ChatList[t[2]]]
    BY <1>3 DEF NextOffer
  <2>2. PICK s \in push.left : ItemList[s[1]] = i /\ ChatList[s[2]] = c
    BY <1>3 DEF NextOffer, Pending
  <2>3. CASE s = t
    BY <2>1, <2>2, <2>3 DEF Pending
  <2>4. CASE s # t
    BY <2>1, <2>2, <2>4 DEF Pending
  <2> QED
    BY <2>3, <2>4
<1>4. CASE Generate
  BY <1>4, OfferKept DEF Pending
<1>5. CASE PushSend
  <2>1. /\ push.pc = "send" /\ push'.pc = "mark" /\ Show(push.chat, push.id, push.item) /\ UNCHANGED issued
        /\ push'.left = push.left
        /\ push.item \in Items /\ push.chat \in Chats /\ push.id \in Ids \cup {NoCard}
    BY <1>5, SendKept
  <2>2. CASE push.item = i /\ push.chat = c
    <3> DEFINE id == push.id
    <3>0. visible \in [Chats -> [cards : SUBSET Ids, plain : SUBSET Items]] /\ Show(c, id, i)
      BY <2>1, <2>2 DEF CardTypeOK
    <3> HIDE DEF id
    <3>1. CASE push.id = NoCard
      <4>1. i \in visible'[c].plain
        BY <3>0, <3>1 DEF Show, id
      <4> QED
        BY <4>1 DEF Told
    <3>2. CASE push.id # NoCard
      <4>1. push.id \in visible'[c].cards
        BY <3>0, <3>2 DEF Show, id
      <4>2. issued'[push.id].item = i
        BY <2>1, <2>2, <3>2 DEF PushStocked
      <4> QED
        BY <4>1, <4>2 DEF Told
    <3> QED
      BY <3>1, <3>2
  <2>3. CASE \E t \in push.left : ItemList[t[1]] = i /\ ChatList[t[2]] = c
    BY <2>1, <2>3 DEF Pending
  <2> QED
    BY <2>2, <2>3 DEF Pending
<1>6. CASE PushMark
  BY <1>6, MarkKept DEF Pending
<1>7. CASE TickStep
  BY <1>1, <1>7, TickMoves
<1> QED
  BY <1>1, <1>2, <1>3, <1>4, <1>5, <1>6, <1>7
  DEF CardNext, PushStep, cardVars, memoryVars, Act, LapseCard, SnoozeEnds

LEMMA ShowPlain ==
  ASSUME CardTypeOK, NEW chat \in Chats, NEW id \in Ids \cup {NoCard}, NEW item \in Items, Show(chat, id, item)
  PROVE  /\ \A c \in Chats, i \in Items : i \in visible'[c].plain => i \in visible[c].plain \/ i = item
         /\ id # NoCard => \A c \in Chats : visible'[c].plain = visible[c].plain
PROOF
<1>1. visible \in [Chats -> [cards : SUBSET Ids, plain : SUBSET Items]]
  BY DEF CardTypeOK
<1>2. CASE id # NoCard
  BY <1>1, <1>2 DEF Show
<1>3. CASE id = NoCard
  BY <1>1, <1>3 DEF Show
<1> QED
  BY <1>2, <1>3

LEMMA TouchedBefore ==
  ASSUME CardTypeOK, Reached, TickStocked, PushStocked, [CardNext]_cardVars, ~Fail, ~Crash,
         NEW i \in Items, Touched(i)'
  PROVE  Touched(i) \/ \A c \in Chats : Pending(c, i)'
PROOF
<1>1. CASE UNCHANGED <<outcome, issued, visible, push>>
  BY <1>1 DEF Touched, Pending
<1>2. ASSUME NEW c \in Chats, Told(c, i) PROVE Touched(i)
  <2>1. \A k \in visible[c].cards : k \in 1..Len(issued)
    BY DEF CardTypeOK, Reached, On
  <2> QED
    BY <1>2, <2>1 DEF Told, Touched
<1>3. CASE PushStart
  <2>1. CASE i \in Due
    <3>1. PICK j \in 1..Len(ItemList) : ItemList[j] = i
      BY DEF Items
    <3>2. ASSUME NEW c \in Chats PROVE Pending(c, i)'
      <4>1. PICK m \in 1..Len(ChatList) : ChatList[m] = c
        BY DEF Chats
      <4> DEFINE left == {t \in Turns : ItemList[t[1]] \in Due}
      <4>2. <<j, m>> \in left /\ push' = Turn(left)
        BY <1>3, <2>1, <3>1 DEF PushStart, Turns
      <4>3. push'.pc = "next" /\ push'.left = left
        BY <4>2 DEF Turn
      <4> HIDE DEF left
      <4> QED
        BY <3>1, <4>1, <4>2, <4>3 DEF Pending
    <3> QED
      BY <3>2
  <2>2. CASE i \notin Due
    BY <2>2 DEF Due, Touched
  <2> QED
    BY <2>1, <2>2
<1>4. CASE NextOffer
  <2>1. PICK t \in push.left, pc \in {"generate", "send"} :
          push' = [pc |-> pc, left |-> push.left \ {t}, id |-> NoCard,
                   item |-> ItemList[t[1]], chat |-> ChatList[t[2]]]
    BY <1>4 DEF NextOffer
  <2>2. push.pc = "next" /\ UNCHANGED <<outcome, issued, visible>> /\ ChatList[t[2]] \in Chats
    <3>1. push.left \subseteq Turns
      BY <1>4, PushFields DEF NextOffer, CardTypeOK
    <3> QED
      BY <1>4, <2>1, <3>1 DEF NextOffer, Turns, Chats
  <2>3. ASSUME NEW c \in Chats, Pending(c, i)' PROVE \E d \in Chats : Pending(d, i)
    BY <2>1, <2>2, <2>3 DEF Pending
  <2>4. push'.pc # "mark"
    BY <2>1
  <2> QED
    BY <2>2, <2>3, <2>4 DEF Touched
<1>5. CASE Generate
  <2>1. /\ push.pc = "generate" /\ push'.pc = "send"
        /\ push'.left = push.left /\ push'.item = push.item /\ push'.chat = push.chat
        /\ push.item \in Items /\ push.chat \in Chats
    BY <1>5, OfferKept
  <2>2. ASSUME NEW k \in 1..Len(issued'), issued'[k].item = i PROVE Touched(i)
    <3>1. CASE UNCHANGED issued
      BY <2>2, <3>1 DEF Touched
    <3>2. CASE Proposed
      <4>1. PICK d \in BOOLEAN : NewCard(push.item, push.chat, d, Len(issued) + 1)
        BY <3>2 DEF Proposed
      <4>2. Len(issued) + 1 \in Ids
        BY <2>1, <3>2, ProposedCard DEF Offering
      <4>3. /\ Len(issued') = Len(issued) + 1 /\ Len(issued) \in Nat
            /\ \A j \in 1..Len(issued) : issued'[j] = issued[j]
            /\ issued'[Len(issued) + 1] =
                 [item |-> push.item, chat |-> push.chat, destructive |-> d, root |-> Len(issued) + 1]
        BY <2>1, <4>1, <4>2, NewCardType
      <4>4. CASE k \in 1..Len(issued)
        BY <2>2, <4>3, <4>4 DEF Touched
      <4>5. CASE k = Len(issued) + 1
        <5>1. push.item = i
          BY <2>2, <4>3, <4>5
        <5> QED
          BY <2>1, <5>1 DEF Touched, Pending
      <4> QED
        BY <2>2, <4>3, <4>4, <4>5
    <3> QED
      BY <1>5, <3>1, <3>2 DEF Generate
  <2>3. \A c \in Chats : Pending(c, i)' => Pending(c, i)
    BY <2>1 DEF Pending
  <2> QED
    BY <1>5, <2>1, <2>2, <2>3 DEF Touched, Generate
<1>6. CASE PushSend
  <2>1. /\ push.pc = "send" /\ push'.pc = "mark" /\ Show(push.chat, push.id, push.item) /\ UNCHANGED issued
        /\ push'.left = push.left /\ push'.item = push.item
        /\ push.item \in Items /\ push.chat \in Chats /\ push.id \in Ids \cup {NoCard}
    BY <1>6, SendKept
  <2>2. push.item = i => Touched(i)
    BY <2>1 DEF Touched, Pending
  <2>3. \A c \in Chats : i \in visible'[c].plain => i \in visible[c].plain \/ push.item = i
    BY <2>1, ShowPlain
  <2>4. \A c \in Chats : Pending(c, i)' => Pending(c, i)
    BY <2>1 DEF Pending
  <2> QED
    BY <1>6, <2>1, <2>2, <2>3, <2>4 DEF Touched, PushSend
<1>7. CASE PushMark
  <2>1. /\ push.pc = "mark" /\ Mark(push.item, "surfaced") /\ push.item \in Items
        /\ \/ push'.pc = "idle" /\ push.left = {}
           \/ push'.pc = "next" /\ push'.left = push.left
    BY <1>7, MarkKept
  <2>2. outcome'[i] # "none" => outcome[i] # "none" \/ push.item = i
    BY <2>1, MarkType
  <2>3. \A c \in Chats : Pending(c, i)' => Pending(c, i)
    BY <2>1 DEF Pending
  <2> QED
    BY <1>7, <2>1, <2>2, <2>3 DEF Touched, PushMark
<1>8. ASSUME NEW u \in tick.left, tick.pc = "next", Take(u) PROVE Touched(i)
  <2>1. /\ u \in queue /\ u \in Update /\ UNCHANGED <<issued, visible, push>>
        /\ \/ UNCHANGED outcome
           \/ u.kind = "plain" /\ Mark(u.item, u.button)
    BY <1>8, TakeMoves
  <2>2. CASE UNCHANGED outcome
    BY <2>1, <2>2 DEF Touched, Pending
  <2>3. CASE u.kind = "plain" /\ Mark(u.item, u.button)
    <3>1. u.item \in Items /\ u.button \in Closing \cup {"snoozed"} /\ u.chat \in Chats
      BY <2>1, <2>3, UpdateFields
    <3>2. outcome'[i] = IF i = u.item THEN u.button ELSE outcome[i]
      BY <2>3, <3>1, MarkType
    <3>3. u.item \in visible[u.chat].plain
      BY <2>1, <2>3 DEF Reached, Possible
    <3>4. \A c \in Chats : Pending(c, i)' => Pending(c, i)
      BY <2>1 DEF Pending
    <3> QED
      BY <2>1, <3>1, <3>2, <3>3, <3>4 DEF Touched
  <2> QED
    BY <2>1, <2>2, <2>3
<1>9. CASE Close
  <2>1. UNCHANGED <<issued, visible, push>> /\ Mark(issued[tick.id].item, IF tick.pc = "close" THEN "completed" ELSE "dismissed")
    BY <1>9 DEF Close, TickOnly
  <2>2. tick.id \in 1..Len(issued) /\ issued[tick.id].item \in Items
    BY <1>9, CardItems DEF Close, Reached, Busy
  <2>3. outcome'[i] # "none" => outcome[i] # "none" \/ issued[tick.id].item = i
    BY <2>1, <2>2, MarkType DEF Closing
  <2>4. \A c \in Chats : Pending(c, i)' => Pending(c, i)
    BY <2>1 DEF Pending
  <2> QED
    BY <2>1, <2>2, <2>3, <2>4 DEF Touched
<1>10. CASE Patch
  <2>1. UNCHANGED <<outcome, visible, push>> /\ tick.pc = "patch"
    BY <1>10 DEF Patch, TickOnly
  <2>2. CASE NewCard(issued[tick.id].item, tick.at.chat, issued[tick.id].destructive, issued[tick.id].root)
    <3>1. /\ tick.id \in 1..Len(issued) /\ tick.at.chat \in Chats
          /\ issued[tick.id].item \in Items /\ issued[tick.id].destructive \in BOOLEAN /\ issued[tick.id].root \in Ids
      BY <2>1, <2>2, PatchCard
    <3>2. /\ Len(issued') = Len(issued) + 1 /\ Len(issued) \in Nat
          /\ \A k \in 1..Len(issued) : issued'[k] = issued[k]
          /\ issued'[Len(issued) + 1] =
               [item |-> issued[tick.id].item, chat |-> tick.at.chat,
                destructive |-> issued[tick.id].destructive, root |-> issued[tick.id].root]
      BY <2>2, <3>1, NewCardType
    <3>3. ASSUME NEW k \in 1..Len(issued'), issued'[k].item = i
          PROVE  \E j \in 1..Len(issued) : issued[j].item = i
      <4>1. CASE k \in 1..Len(issued)
        BY <3>2, <3>3, <4>1
      <4>2. CASE k = Len(issued) + 1
        BY <3>1, <3>2, <3>3, <4>2
      <4> QED
        BY <3>2, <3>3, <4>1, <4>2
    <3>4. \A c \in Chats : Pending(c, i)' => Pending(c, i)
      BY <2>1 DEF Pending
    <3> QED
      BY <2>1, <3>3, <3>4 DEF Touched
  <2> QED
    BY <1>1, <1>10, <2>1, <2>2 DEF Patch
<1>11. CASE Resend
  <2>1. /\ UNCHANGED <<outcome, issued, push>> /\ Show(tick.at.chat, tick.id, issued[tick.id].item)
        /\ tick.id \in 1..Len(issued) /\ tick.id \in Ids /\ tick.at.chat \in Chats /\ issued[tick.id].item \in Items
    BY <1>11, ResendShow DEF Resend, TickOnly
  <2>2. tick.id # NoCard
    BY <2>1 DEF NoCard, Ids
  <2>3. \A c \in Chats : visible'[c].plain = visible[c].plain
    BY <2>1, <2>2, ShowPlain
  <2>4. \A c \in Chats : Pending(c, i)' => Pending(c, i)
    BY <2>1 DEF Pending
  <2> QED
    BY <2>1, <2>3, <2>4 DEF Touched
<1>12. CASE Fetch \/ Call \/ Remove \/ Swap \/ Commit
  BY <1>1, <1>12 DEF Fetch, Call, Remove, Swap, Commit, TickOnly, Quiet
<1>13. ASSUME NEW j \in Items, SnoozeEnds(j) PROVE Touched(i)
  <2>1. UNCHANGED <<issued, visible, push>> /\ Mark(j, "none")
    BY <1>13 DEF SnoozeEnds, memoryVars
  <2>2. outcome'[i] # "none" => outcome[i] # "none"
    BY <2>1, MarkType
  <2>3. \A c \in Chats : Pending(c, i)' => Pending(c, i)
    BY <2>1 DEF Pending
  <2> QED
    BY <2>1, <2>2, <2>3 DEF Touched
<1> QED
  BY <1>1, <1>3, <1>4, <1>5, <1>6, <1>7, <1>8, <1>9, <1>10, <1>11, <1>12, <1>13
  DEF CardNext, PushStep, TickStep, Handle, cardVars, memoryVars, Act, LapseCard

LEMMA RoundsStep ==
  ASSUME CardTypeOK, Reached, TickStocked, PushStocked, Rounds, [CardNext]_cardVars
  PROVE  Rounds'
PROOF
<1>1. SUFFICES ASSUME faults'.fail + faults'.crash = 0, NEW i \in Items, Touched(i)', NEW c \in Chats
               PROVE  Told(c, i)' \/ Pending(c, i)'
  BY DEF Rounds
<1>2. faults.fail + faults.crash = 0 /\ ~Fail /\ ~Crash
  BY <1>1, CrashCount
<1>3. CASE Touched(i)
  <2>1. Told(c, i) \/ Pending(c, i)
    BY <1>2, <1>3 DEF Rounds
  <2>2. Grown
    BY CardsGrow
  <2> QED
    BY <1>2, <2>1, <2>2, ToldStays, PendingStays
<1> QED
  BY <1>1, <1>2, <1>3, TouchedBefore

-----------------------------------------------------------------------------
(* Theorems. *)

CardInv == CardTypeOK /\ Reached /\ TickStocked /\ PushStocked /\ Confirmed /\ Once /\ Rounds

LEMMA CardInitInv == CardInit => CardInv
PROOF
<1> SUFFICES ASSUME CardInit PROVE CardInv
  OBVIOUS
<1>1. CardTypeOK
  BY CardInitTypes
<1>2. /\ Len(issued) = 0 /\ \A k \in Ids : calls[k] = 0
      /\ \A c \in Chats : visible[c].cards = {} /\ visible[c].plain = {} /\ confirm[c] = NoCard /\ edit[c] = NoCard
      /\ cards = {} /\ queue = {} /\ push.pc = "idle" /\ tick.pc = "idle"
      /\ \A i \in Items : outcome[i] = "none"
      /\ faults.crash = 0
  BY DEF CardInit, Idle
<1>3. 1..Len(issued) = {}
  BY <1>2
<1>4. Reached /\ TickStocked /\ PushStocked /\ Confirmed
  BY <1>2, <1>3 DEF Reached, On, Busy, TickStocked, PushStocked, Confirmed, ConfirmedFirst
<1>5. Once
  <2>1. \A r \in Ids : Called(r) = {} /\ Open(r) = {}
    BY <1>3 DEF Called, Open
  <2>2. \A r \in Ids : Cardinality(Called(r)) = 0 /\ Cardinality(Open(r)) = 0
    <3>1. ASSUME NEW S, S = {} PROVE Cardinality(S) = 0
      BY <3>1, FS_EmptySet
    <3> QED
      BY <2>1, <3>1
  <2>3. \A r \in Ids : Balanced(r)
    BY <1>2, <2>2 DEF Balanced
  <2>4. \A k \in Ids : calls[k] <= 1 + faults.crash /\ calls[k] <= faults.crash
    BY <1>2
  <2> QED
    BY <1>3, <2>3, <2>4 DEF Once
<1>6. Rounds
  BY <1>2, <1>3 DEF Rounds, Touched, Pending
<1> QED
  BY <1>1, <1>4, <1>5, <1>6 DEF CardInv

LEMMA CardStepInv == CardInv /\ [CardNext]_cardVars => CardInv'
PROOF
<1> SUFFICES ASSUME CardInv, [CardNext]_cardVars PROVE CardInv'
  OBVIOUS
<1> USE DEF CardInv
<1>1. CardTypeOK'
  BY CardTypesStep
<1>2. Reached'
  BY ReachedStep DEF PushStocked
<1>3. TickStocked' /\ PushStocked'
  BY TickStockedStep, PushStockedStep
<1>4. Confirmed' /\ Once'
  BY ConfirmedStep, OnceStep
<1>5. Rounds'
  BY RoundsStep
<1> QED
  BY <1>1, <1>2, <1>3, <1>4, <1>5

LEMMA CardInvariant == CardSpec => []CardInv
PROOF
<1>1. CardInit => CardInv
  BY CardInitInv
<1>2. CardInv /\ [CardNext]_cardVars => CardInv'
  BY CardStepInv
<1> QED
  BY <1>1, <1>2, PTL DEF CardSpec

\* The store, the screens, the two ticks and the histories keep their types.
THEOREM CardTypes == CardSpec => []CardTypeOK
PROOF
<1>1. CardInv => CardTypeOK
  BY DEF CardInv
<1> QED
  BY <1>1, CardInvariant, PTL

\* Whatever is approved, confirmed, edited or delivered again, a card and the
\* edits made of it lead to one call, and to one more for each crash.
THEOREM AtMostOnce == CardSpec => []OncePerCard
PROOF
<1>1. CardInv => OncePerCard
  <2> SUFFICES ASSUME CardInv, NEW k \in Ids
               PROVE  calls[k] <= 1 + faults.crash /\ Cardinality(Called(k)) <= 1 + faults.crash
    BY DEF OncePerCard
  <2>1. /\ calls[k] <= 1 + faults.crash
        /\ Cardinality(Called(k)) + Cardinality(Open(k)) <= 1 + faults.crash
        /\ faults.crash \in Nat
    BY DEF CardInv, Once, Balanced, CardTypeOK
  <2>2. IsFiniteSet(Called(k)) /\ IsFiniteSet(Open(k))
    BY RootSets DEF CardInv
  <2>3. Cardinality(Called(k)) \in Nat /\ Cardinality(Open(k)) \in Nat
    BY <2>2, FS_CardinalityType
  <2> QED
    BY <2>1, <2>3
<1> QED
  BY <1>1, CardInvariant, PTL

\* A destructive call is made only after its typed confirmation (D-09, H-08).
THEOREM TypedFirst == CardSpec => []ConfirmedFirst
PROOF
<1>1. CardInv => ConfirmedFirst
  BY DEF CardInv, Confirmed
<1> QED
  BY <1>1, CardInvariant, PTL

\* Without a failure, an occurrence leaves the list of the client only when every
\* chat of the allowlist has been shown it.
THEOREM EveryChat == CardSpec => []AllChatsTold
PROOF
<1>1. CardInv => AllChatsTold
  <2> SUFFICES ASSUME CardInv, push = Idle, faults.fail + faults.crash = 0,
                      NEW i \in Items, NEW c \in Chats, outcome[i] # "none"
               PROVE  Told(c, i)
    BY DEF AllChatsTold
  <2>1. Told(c, i) \/ Pending(c, i)
    BY DEF CardInv, Rounds, Touched
  <2> QED
    BY <2>1 DEF Pending, Idle
<1> QED
  BY <1>1, CardInvariant, PTL

\* A card appears in a chat only when it is in the store, or past its time
\* (T-23-05-C).
THEOREM StoredFirst == CardSpec => NoDanglingCard
PROOF
<1>1. CardInv /\ [CardNext]_cardVars =>
        [\A c \in Chats : visible'[c].cards \ visible[c].cards \subseteq cards \cup lapsed]_cardVars
  <2> SUFFICES ASSUME CardInv, CardNext, NEW c \in Chats
               PROVE  visible'[c].cards \ visible[c].cards \subseteq cards \cup lapsed
    OBVIOUS
  <2> USE DEF CardInv
  <2>1. CASE PushSend
    <3>1. push.item \in Items /\ push.chat \in Chats /\ push.id \in Ids \cup {NoCard} /\ push.pc = "send"
      BY <2>1, PushOffer DEF PushSend, Offering
    <3>2. CASE Show(push.chat, push.id, push.item)
      <4>1. visible'[c].cards \subseteq visible[c].cards \cup (IF push.id # NoCard THEN {push.id} ELSE {})
        BY <3>1, <3>2 DEF Show, CardTypeOK
      <4> QED
        BY <3>1, <4>1 DEF PushStocked
    <3> QED
      BY <2>1, <3>2 DEF PushSend
  <2>2. CASE Resend
    <3>1. /\ tick.pc = "resend" /\ tick.id \in cards
          /\ tick.at.chat \in Chats /\ tick.id \in Ids /\ issued[tick.id].item \in Items
      BY <2>2, ResendShow DEF Resend, TickStocked
    <3>2. CASE Show(tick.at.chat, tick.id, issued[tick.id].item)
      <4>1. visible'[c].cards \subseteq visible[c].cards \cup {tick.id}
        BY <3>1, <3>2 DEF Show, CardTypeOK
      <4> QED
        BY <3>1, <4>1
    <3> QED
      BY <2>2, <3>2 DEF Resend
  <2>3. ASSUME NEW u \in tick.left, tick.pc = "next", Take(u) PROVE UNCHANGED visible
    BY <2>3, TakeMoves
  <2>4. CASE UNCHANGED visible
    BY <2>4
  <2> QED
    BY <2>1, <2>2, <2>3, <2>4
    DEF CardNext, PushStart, PushStep, NextOffer, Generate, PushMark, PushOnly, TickStep, Handle,
        Fetch, Call, Close, Remove, Patch, Swap, Commit, Quiet, Crash, Act, LapseCard, SnoozeEnds
<1> QED
  BY <1>1, CardInvariant, PTL DEF CardSpec, NoDanglingCard

=============================================================================
