------------------------ MODULE BeliefBridge_proofs ------------------------
(***************************************************************************)
(* Proofs about BeliefBridge for any proposals, entities, chats, caps and  *)
(* bounds, and for any mixture of its faults.                              *)
(***************************************************************************)
EXTENDS BeliefBridge, FiniteSetTheorems, TLAPS

-----------------------------------------------------------------------------
(* Types. *)

LEMMA PassFields ==
  ASSUME pass \in Passes
  PROVE  /\ pass.pc \in {"idle", "list", "listed", "group", "store", "send", "sent", "reserve", "ledger"}
         /\ pass = Idle <=> pass.pc = "idle"
         /\ pass.pc # "idle" => pass.date \in Dates
         /\ pass.pc = "listed" => pass.records \subseteq Proposals
         /\ pass.pc \in {"group", "store", "send", "sent", "reserve", "ledger"} =>
              pass.left \subseteq Proposals /\ pass.known \subseteq Entities
         /\ pass.pc \in {"store", "send", "sent", "reserve", "ledger"} =>
              pass.entity \in Entities /\ pass.group \subseteq Proposals
         /\ pass.pc = "store" => pass.todo \subseteq Proposals
         /\ pass.pc \in {"send", "sent", "reserve", "ledger"} =>
              pass.chats \subseteq Chats /\ pass.delivered \in Nat
BY DEF Passes, Storing, Prompts, Idle

LEMMA PassKinds ==
  ASSUME pass \in Passes
  PROVE  /\ pass.pc = "store" => pass \in Storing
         /\ pass.pc \in {"send", "sent", "reserve", "ledger"} => pass \in Prompts
BY DEF Passes, Storing, Prompts, Idle

LEMMA TickFields ==
  ASSUME tick \in Ticks
  PROVE  /\ tick.pc \in {"idle", "next", "post", "ok", "conflict", "missing", "none", "terminal", "count", "park", "refuse", "tally"}
         /\ tick = Idle <=> tick.pc = "idle"
         /\ tick.pc # "idle" => tick.batch \subseteq queue /\ tick.left \subseteq queue
         /\ tick.pc \in {"post", "ok", "conflict", "missing", "none", "terminal", "count", "park", "refuse", "tally"} =>
              tick.tap \in queue
BY DEF Ticks, Idle

\* A tap of the tick is served on: the stage changes and nothing else.
LEMMA TickGoto ==
  ASSUME tick \in Ticks, NEW pc \in {"next", "ok", "conflict", "missing", "none", "terminal", "count", "park", "refuse", "tally"},
         tick.pc \in {"post", "ok", "conflict", "missing", "none", "terminal", "count", "park", "refuse", "tally"},
         Goto(pc), UNCHANGED queue
  PROVE  /\ tick' \in Ticks'
         /\ tick'.pc = pc /\ tick'.tap = tick.tap /\ tick'.left = tick.left
BY DEF Ticks, Goto, Idle

LEMMA SpendType ==
  ASSUME faults \in Counted,
         NEW fault \in {"other", "fail", "unknown", "lost", "crash", "tap"}, NEW bound,
         Spend(fault, bound)
  PROVE  /\ faults' \in Counted /\ faults'.midnight = faults.midnight
         /\ \A other \in {"other", "fail", "unknown", "lost", "crash", "tap"} :
              faults'[other] = IF other = fault THEN faults[other] + 1 ELSE faults[other]
BY DEF Counted, Spend

LEMMA LiveType ==
  ASSUME BridgeTypeOK
  PROVE  Live \in [Proposals -> {"none", "pending", "terminal", "needs_reconciliation"}]
BY DEF Live, BridgeTypeOK

LEMMA ReserveType ==
  ASSUME BridgeTypeOK, NEW date \in Dates
  PROVE  /\ UsedOn(date) \in 0..DailyCap
         /\ Reserve(date) \in [date : Dates, count : 0..DailyCap]
         /\ UsedOn(date) < DailyCap => Reserve(date) = [date |-> date, count |-> UsedOn(date) + 1]
         /\ UsedOn(date) >= DailyCap => Reserve(date) = cap
BY BridgeAssumption DEF BridgeAssumption, BridgeTypeOK, UsedOn, Reserve, Dates

LEMMA InitTypes == BridgeInit => BridgeTypeOK
PROOF
<1> SUFFICES ASSUME BridgeInit PROVE BridgeTypeOK
  OBVIOUS
<1> USE BridgeAssumption DEF BridgeAssumption
<1>1. BoardTypeOK
  BY DEF BridgeInit, BoardInit, BoardTypeOK
<1>2. 0 \in Dates /\ 1 \in Dates /\ 0 \in 0..DailyCap /\ 0 \in 0..MaxSlots
  BY DEF Dates
<1>3. faults \in Counted
  BY DEF BridgeInit, Counted
<1>4. pass \in Passes /\ tick \in Ticks
  BY DEF BridgeInit, Passes, Ticks
<1> QED
  BY <1>1, <1>2, <1>3, <1>4 DEF BridgeInit, BridgeTypeOK, NoPrompts

LEMMA WorldTypes ==
  ASSUME BridgeTypeOK,
         \/ \E p \in Proposals : Emitted(p) \/ Others(p)
         \/ Midnight \/ ToolCard \/ Crash
  PROVE  BridgeTypeOK'
PROOF
<1> USE BridgeAssumption DEF BridgeAssumption
<1>1. ASSUME NEW p \in Proposals, Emitted(p) PROVE BridgeTypeOK'
  <2>1. BoardTypeOK'
    BY <1>1 DEF Emitted, Publish, BridgeTypeOK, BoardTypeOK
  <2> QED
    BY <1>1, <2>1 DEF Emitted, NotTheClient, BridgeTypeOK, Ticks
<1>2. ASSUME NEW p \in Proposals, Others(p) PROVE BridgeTypeOK'
  <2>1. BoardTypeOK'
    BY <1>2 DEF Others, Lapse, Withdraw, Decide, Settled, Outcomes, BridgeTypeOK, BoardTypeOK
  <2>2. faults' \in Counted
    BY <1>2, SpendType DEF Others, BridgeTypeOK
  <2> QED
    BY <1>2, <2>1, <2>2 DEF Others, NotTheClient, BridgeTypeOK, Ticks
<1>3. CASE Midnight
  <2>1. today' \in Dates
    BY <1>3 DEF Midnight, BridgeTypeOK, Dates
  <2>2. faults' \in Counted
    BY <1>3 DEF Midnight, BridgeTypeOK, Counted
  <2>3. prompts' \in [Chats -> [Entities -> Nat]] /\ slots' \in 0..MaxSlots
    BY <1>3 DEF Midnight, NoPrompts
  <2> QED
    BY <1>3, <2>1, <2>2, <2>3 DEF Midnight, BridgeTypeOK, BoardTypeOK, boardVars, Ticks
<1>4. CASE ToolCard
  <2>1. cap' \in [date : Dates, count : 0..DailyCap]
    BY <1>4, ReserveType DEF ToolCard, BridgeTypeOK
  <2>2. slots' \in 0..MaxSlots
    BY <1>4 DEF ToolCard, BridgeTypeOK
  <2> QED
    BY <1>4, <2>1, <2>2 DEF ToolCard, BridgeTypeOK, BoardTypeOK, boardVars, Ticks
<1>5. CASE Crash
  <2>1. faults' \in Counted
    BY <1>5, SpendType DEF Crash, BridgeTypeOK
  <2>2. pass' \in Passes /\ tick' \in Ticks'
    BY <1>5 DEF Crash, Passes, Ticks
  <2> QED
    BY <1>5, <2>1, <2>2 DEF Crash, BridgeTypeOK, BoardTypeOK, boardVars
<1> QED
  BY <1>1, <1>2, <1>3, <1>4, <1>5

\* What the fields of the pass are after a step that changes some of them.
LEMMA StoreFields ==
  ASSUME BridgeTypeOK, Store
  PROVE  /\ pass.pc = "store" /\ pass' \in Storing \cup Prompts
         /\ \/ \E p \in pass.todo :
                 /\ rows' = [rows EXCEPT ![p] = "pending"]
                 /\ pass'.pc = "store" /\ pass'.todo = pass.todo \ {p}
            \/ /\ pass.todo = {} /\ UNCHANGED rows
               /\ pass'.pc = "send" /\ pass'.chats = Chats /\ pass'.delivered = 0
         /\ pass'.date = pass.date /\ pass'.entity = pass.entity /\ pass'.left = pass.left
         /\ pass'.known = pass.known /\ pass'.group = pass.group
PROOF
<1>1. pass.pc = "store"
  BY DEF Store
<1>2. pass \in Storing
  BY <1>1, PassKinds DEF BridgeTypeOK
<1>3. CASE pass.todo = {} /\ pass' = Sending /\ UNCHANGED rows
  BY <1>1, <1>2, <1>3 DEF Sending, Storing, Prompts
<1>4. ASSUME NEW p \in pass.todo, pass' = [pass EXCEPT !.todo = @ \ {p}],
             rows' = [rows EXCEPT ![p] = "pending"]
      PROVE  /\ pass' \in Storing
             /\ pass'.pc = "store" /\ pass'.todo = pass.todo \ {p}
             /\ pass'.date = pass.date /\ pass'.entity = pass.entity /\ pass'.left = pass.left
             /\ pass'.known = pass.known /\ pass'.group = pass.group
  BY <1>2, <1>4 DEF Storing
<1> QED
  BY <1>1, <1>3, <1>4 DEF Store

LEMMA SendFields ==
  ASSUME BridgeTypeOK, NEW c \in Chats, Send(c)
  PROVE  /\ pass.pc = "send" /\ c \in pass.chats /\ pass' \in Prompts
         /\ pass'.pc = "sent" /\ pass'.chats = pass.chats \ {c}
         /\ \/ pass'.delivered = pass.delivered + 1 /\ Appear(c) /\ UNCHANGED faults
            \/ /\ pass'.delivered = pass.delivered
               /\ Spend("fail", MaxFails) /\ UNCHANGED <<shown, prompts>>
            \/ /\ pass'.delivered = pass.delivered
               /\ Spend("unknown", MaxUnknown) /\ Appear(c)
         /\ pass'.date = pass.date /\ pass'.entity = pass.entity /\ pass'.left = pass.left
         /\ pass'.known = pass.known /\ pass'.group = pass.group
PROOF
<1>1. pass.pc = "send" /\ c \in pass.chats
  BY DEF Send
<1>2. pass \in Prompts
  BY <1>1, PassKinds DEF BridgeTypeOK
<1>3. CASE pass' = [pass EXCEPT !.pc = "sent", !.delivered = @ + 1, !.chats = @ \ {c}]
           /\ Appear(c) /\ UNCHANGED faults
  <2>1. pass' \in Prompts /\ pass'.delivered = pass.delivered + 1
    <3>1. PICK n \in Nat : n = pass.delivered + 1
      BY <1>2 DEF Prompts
    <3>2. pass' = [pass EXCEPT !.pc = "sent", !.delivered = n, !.chats = @ \ {c}]
      BY <1>3, <3>1
    <3> QED
      BY <1>2, <3>1, <3>2 DEF Prompts
  <2> QED
    BY <1>1, <1>2, <1>3, <2>1 DEF Prompts
<1>4. CASE /\ pass' = [pass EXCEPT !.pc = "sent", !.chats = @ \ {c}]
           /\ \/ Spend("fail", MaxFails) /\ UNCHANGED <<shown, prompts>>
              \/ Spend("unknown", MaxUnknown) /\ Appear(c)
  <2>1. pass' \in Prompts /\ pass'.delivered = pass.delivered
    BY <1>2, <1>4 DEF Prompts
  <2>2. /\ pass'.pc = "sent" /\ pass'.chats = pass.chats \ {c}
        /\ pass'.date = pass.date /\ pass'.entity = pass.entity /\ pass'.left = pass.left
        /\ pass'.known = pass.known /\ pass'.group = pass.group
    BY <1>2, <1>4 DEF Prompts
  <2> QED
    BY <1>1, <1>4, <2>1, <2>2
<1> QED
  BY <1>3, <1>4 DEF Send

LEMMA SendReturnsFields ==
  ASSUME BridgeTypeOK, SendReturns
  PROVE  /\ pass.pc = "sent" /\ pass' \in Passes
         /\ \/ /\ pass.chats # {} /\ UNCHANGED rows
               /\ pass'.pc = "send" /\ pass' \in Prompts
               /\ pass'.entity = pass.entity /\ pass'.group = pass.group
               /\ pass'.chats = pass.chats /\ pass'.delivered = pass.delivered
            \/ /\ pass.chats = {} /\ pass.delivered = 0
               /\ rows' = Removed(pass.group) /\ pass'.pc = "group"
            \/ /\ pass.chats = {} /\ pass.delivered > 0 /\ UNCHANGED rows
               /\ pass'.pc = "reserve" /\ pass' \in Prompts
               /\ pass'.entity = pass.entity /\ pass'.group = pass.group
               /\ pass'.chats = pass.chats /\ pass'.delivered = pass.delivered
         /\ pass'.date = pass.date /\ pass'.left = pass.left /\ pass'.known = pass.known
PROOF
<1>1. pass.pc = "sent"
  BY DEF SendReturns
<1>2. pass \in Prompts
  BY <1>1, PassKinds DEF BridgeTypeOK
<1>3. ASSUME NEW pc \in {"send", "reserve"}, pass' = [pass EXCEPT !.pc = pc]
      PROVE  /\ pass' \in Prompts /\ pass'.pc = pc
             /\ pass'.entity = pass.entity /\ pass'.group = pass.group
             /\ pass'.chats = pass.chats /\ pass'.delivered = pass.delivered
             /\ pass'.date = pass.date /\ pass'.left = pass.left /\ pass'.known = pass.known
  BY <1>2, <1>3 DEF Prompts
<1>4. CASE pass' = NextGroup /\ rows' = Rollback(pass.group) /\ pass.chats = {} /\ pass.delivered = 0
  BY <1>1, <1>2, <1>4 DEF NextGroup, Rollback, Passes, Prompts
<1> QED
  BY <1>1, <1>3, <1>4 DEF SendReturns, Passes

LEMMA ReserveFields ==
  ASSUME BridgeTypeOK, ReserveSlot
  PROVE  /\ pass.pc = "reserve" /\ pass'.pc = "ledger" /\ pass' \in Prompts
         /\ pass'.date = pass.date /\ pass'.entity = pass.entity /\ pass'.left = pass.left
         /\ pass'.known = pass.known /\ pass'.group = pass.group
         /\ pass'.chats = pass.chats /\ pass'.delivered = pass.delivered
PROOF
<1>1. pass \in Prompts
  BY PassKinds DEF ReserveSlot, BridgeTypeOK
<1> QED
  BY <1>1 DEF ReserveSlot, Prompts

LEMMA WriteFields ==
  ASSUME BridgeTypeOK, WriteLedger
  PROVE  /\ pass.pc = "ledger" /\ pass'.pc = "group"
         /\ pass'.date = pass.date /\ pass'.left = pass.left
         /\ pass'.known = pass.known \cup {pass.entity}
         /\ ledger' = [date |-> pass.date, entities |-> pass.known \cup {pass.entity}]
BY DEF WriteLedger, NextGroup

\* A pass that takes a group takes one entity and leaves the others.
LEMMA GroupFields ==
  ASSUME BridgeTypeOK, Group, pass' # Idle
  PROVE  \E p \in pass.left :
           /\ pass.pc = "group" /\ UsedOn(pass.date) < DailyCap
           /\ pass'.pc = "store" /\ pass'.date = pass.date /\ pass'.entity = EntityOf[p]
           /\ pass'.known = pass.known
           /\ pass'.left = {q \in pass.left : EntityOf[q] # EntityOf[p]}
           /\ pass'.group \subseteq {q \in pass.left : EntityOf[q] = EntityOf[p]}
           /\ pass'.todo = pass'.group
PROOF
<1>1. PICK p \in pass.left :
        /\ UsedOn(pass.date) < DailyCap
        /\ pass' = [pc |-> "store", date |-> pass.date, entity |-> EntityOf[p],
                    left |-> pass.left \ {q \in pass.left : EntityOf[q] = EntityOf[p]},
                    known |-> pass.known,
                    group |-> Constituents({q \in pass.left : EntityOf[q] = EntityOf[p]}),
                    todo |-> Constituents({q \in pass.left : EntityOf[q] = EntityOf[p]})]
  BY DEF Group
<1>2. Constituents({q \in pass.left : EntityOf[q] = EntityOf[p]})
        \subseteq {q \in pass.left : EntityOf[q] = EntityOf[p]}
  BY DEF Constituents
<1>3. pass.left \ {q \in pass.left : EntityOf[q] = EntityOf[p]}
        = {q \in pass.left : EntityOf[q] # EntityOf[p]}
  OBVIOUS
<1> QED
  BY <1>1, <1>2, <1>3 DEF Group

LEMMA ListedFields ==
  ASSUME BridgeTypeOK, Listed, pass' # Idle
  PROVE  \E first \in pass.records :
           /\ pass.pc = "listed" /\ pass'.pc = "group" /\ pass'.date = pass.date
           /\ pass'.left = Candidates(pass.records, first, pass.date)
           /\ pass'.known = PromptedOn(pass.date)
BY DEF Listed

\* Every step of the pass leads to a pass.
LEMMA PassMoves ==
  ASSUME BridgeTypeOK
  PROVE  /\ PollStart => pass' = [pc |-> "list", date |-> today] /\ pass' \in Passes
         /\ ListFails => pass' = Idle /\ pass' \in Passes
         /\ ListRead => pass' \in Passes
         /\ Listed => pass' \in Passes
         /\ Group => pass' \in Passes
         /\ Store => pass' \in Passes
         /\ \A c \in Chats : Send(c) => pass' \in Passes
         /\ SendReturns => pass' \in Passes
         /\ ReserveSlot => pass' \in Passes
         /\ WriteLedger => pass' \in Passes
PROOF
<1>1. pass \in Passes /\ today \in Dates /\ ledger \in [date : Dates, entities : SUBSET Entities]
  BY DEF BridgeTypeOK
<1>2. PollStart => pass' = [pc |-> "list", date |-> today] /\ pass' \in Passes
  BY <1>1 DEF PollStart, Passes
<1>3. ListFails => pass' = Idle /\ pass' \in Passes
  BY DEF ListFails, Passes
<1>4. ListRead => pass' \in Passes
  BY <1>1, PassFields DEF ListRead, Offered, Passes
<1>5. ASSUME Listed PROVE pass' \in Passes
  <2>1. PICK first \in pass.records :
          pass' = IF Candidates(pass.records, first, pass.date) = {} THEN Idle
                  ELSE [pc |-> "group", date |-> pass.date,
                        left |-> Candidates(pass.records, first, pass.date),
                        known |-> PromptedOn(pass.date)]
    BY <1>5 DEF Listed
  <2>2. pass.pc = "listed" /\ pass.date \in Dates /\ pass.records \subseteq Proposals
    BY <1>1, <1>5, PassFields DEF Listed
  <2>3. /\ Candidates(pass.records, first, pass.date) \subseteq Proposals
        /\ PromptedOn(pass.date) \subseteq Entities
    BY <1>1, <2>2 DEF Candidates, PromptedOn
  <2> QED
    BY <2>1, <2>2, <2>3 DEF Passes
<1>6. ASSUME Group PROVE pass' \in Passes
  <2>1. /\ pass.pc = "group" /\ pass.date \in Dates /\ pass.left \subseteq Proposals
        /\ pass.known \subseteq Entities
    BY <1>1, <1>6, PassFields DEF Group
  <2>2. CASE pass' = Idle
    BY <2>2 DEF Passes
  <2>3. ASSUME NEW p \in pass.left, NEW all \in SUBSET pass.left,
               pass' = [pc |-> "store", date |-> pass.date, entity |-> EntityOf[p],
                        left |-> pass.left \ all, known |-> pass.known,
                        group |-> Constituents(all), todo |-> Constituents(all)]
        PROVE  pass' \in Passes
    <3>1. Constituents(all) \subseteq Proposals
      BY <2>1 DEF Constituents
    <3>2. EntityOf[p] \in Entities
      BY <2>1, BridgeAssumption DEF BridgeAssumption
    <3> QED
      BY <2>1, <2>3, <3>1, <3>2 DEF Passes, Storing
  <2> QED
    BY <1>6, <2>2, <2>3 DEF Group
<1>7. ASSUME Store PROVE pass' \in Passes
  BY <1>7, StoreFields DEF Passes
<1>8. ASSUME NEW c \in Chats, Send(c) PROVE pass' \in Passes
  BY <1>8, SendFields DEF Passes
<1>9. ASSUME SendReturns PROVE pass' \in Passes
  BY <1>9, SendReturnsFields DEF Passes
<1>10. ASSUME ReserveSlot PROVE pass' \in Passes
  BY <1>10, ReserveFields DEF Passes
<1>11. ASSUME WriteLedger PROVE pass' \in Passes
  <2>1. /\ pass.pc = "ledger" /\ pass.date \in Dates /\ pass.left \subseteq Proposals
        /\ pass.known \subseteq Entities /\ pass.entity \in Entities
    BY <1>1, <1>11, PassFields DEF WriteLedger
  <2>2. pass' = [pc |-> "group", date |-> pass.date, left |-> pass.left,
                 known |-> pass.known \cup {pass.entity}]
    BY <1>11 DEF WriteLedger, NextGroup
  <2> QED
    BY <2>1, <2>2 DEF Passes
<1> QED
  BY <1>2, <1>3, <1>4, <1>5, <1>6, <1>7, <1>8, <1>9, <1>10, <1>11

LEMMA PassTypes ==
  ASSUME BridgeTypeOK, PollStart \/ ListFails \/ PassStep
  PROVE  BridgeTypeOK'
PROOF
<1>1. pass' \in Passes
  BY PassMoves DEF PassStep
<1>2. faults' \in Counted
  BY SpendType DEF BridgeTypeOK, PollStart, ListFails, PassStep, ListRead, Listed, Group, Store, Send,
     SendReturns, ReserveSlot, WriteLedger
<1>3. rows' \in [Proposals -> {"none", "pending", "terminal", "needs_reconciliation"}]
  <2>1. CASE UNCHANGED rows
    BY <2>1 DEF BridgeTypeOK
  <2>2. CASE Listed
    BY <2>2, LiveType DEF Listed
  <2>3. CASE Store
    BY <2>3 DEF Store, BridgeTypeOK
  <2>4. CASE SendReturns
    BY <2>4 DEF SendReturns, Rollback, Removed, BridgeTypeOK
  <2> QED
    BY <2>1, <2>2, <2>3, <2>4 DEF PollStart, ListFails, PassStep, ListRead, Group, Send, ReserveSlot, WriteLedger
<1>4. cap' \in [date : Dates, count : 0..DailyCap]
  <2>1. CASE UNCHANGED cap
    BY <2>1 DEF BridgeTypeOK
  <2>2. CASE ReserveSlot
    <3>1. pass.date \in Dates
      BY <2>2, PassFields DEF ReserveSlot, BridgeTypeOK
    <3> QED
      BY <2>2, <3>1, ReserveType DEF ReserveSlot
  <2> QED
    BY <2>1, <2>2 DEF PollStart, ListFails, PassStep, ListRead, Listed, Group, Store, Send, SendReturns, WriteLedger
<1>5. ledger' \in [date : Dates, entities : SUBSET Entities]
  <2>1. CASE UNCHANGED ledger
    BY <2>1 DEF BridgeTypeOK
  <2>2. CASE WriteLedger
    <3>1. pass.date \in Dates /\ pass.known \cup {pass.entity} \subseteq Entities
      BY <2>2, PassFields DEF WriteLedger, BridgeTypeOK
    <3> QED
      BY <2>2, <3>1 DEF WriteLedger
  <2> QED
    BY <2>1, <2>2 DEF PollStart, ListFails, PassStep, ListRead, Listed, Group, Store, Send, SendReturns, ReserveSlot
<1>6. shown' \in [Chats -> SUBSET Proposals] /\ prompts' \in [Chats -> [Entities -> Nat]]
  <2>1. CASE UNCHANGED <<shown, prompts>>
    BY <2>1 DEF BridgeTypeOK
  <2>2. ASSUME NEW c \in Chats, pass.pc = "send", Appear(c)
        PROVE  shown' \in [Chats -> SUBSET Proposals] /\ prompts' \in [Chats -> [Entities -> Nat]]
    <3>1. pass.entity \in Entities /\ pass.group \subseteq Proposals
      BY <2>2, PassFields DEF BridgeTypeOK
    <3> QED
      BY <2>2, <3>1 DEF Appear, BridgeTypeOK
  <2> QED
    BY <2>1, <2>2 DEF PollStart, ListFails, PassStep, ListRead, Listed, Group, Store, Send, SendReturns, ReserveSlot, WriteLedger
<1>7. PassOnly
  BY DEF PollStart, ListFails, PassStep, ListRead, Listed, Group, Store, Send, SendReturns, ReserveSlot, WriteLedger
<1> QED
  BY <1>1, <1>2, <1>3, <1>4, <1>5, <1>6, <1>7 DEF PassOnly, boardVars, BridgeTypeOK, BoardTypeOK, Ticks

LEMMA TickTypes ==
  ASSUME BridgeTypeOK,
         TickStep \/ \E c \in Chats, p \in Proposals, d \in Decisions : Press(c, p, d)
  PROVE  BridgeTypeOK'
PROOF
<1> USE BridgeAssumption DEF BridgeAssumption
<1>1. ASSUME NEW c \in Chats, NEW p \in Proposals, NEW d \in Decisions, Press(c, p, d)
      PROVE  BridgeTypeOK'
  <2>1. faults' \in Counted
    BY <1>1, SpendType DEF Press, BridgeTypeOK
  <2>2. faults.tap + 1 \in 1..MaxTaps
    BY <1>1 DEF Press, Spend, BridgeTypeOK, Counted
  <2>3. queue' \subseteq Tap
    BY <1>1, <2>2 DEF Press, BridgeTypeOK, Tap
  <2>4. tick \in Ticks'
    BY <1>1 DEF Press, BridgeTypeOK, Ticks
  <2> QED
    BY <1>1, <2>1, <2>3, <2>4 DEF Press, BridgeTypeOK, BoardTypeOK, boardVars
<1>2. CASE Fetch
  <2>1. tick' \in Ticks'
    BY <1>2 DEF Fetch, Ticks
  <2> QED
    BY <1>2, <2>1 DEF Fetch, TickOnly, BridgeTypeOK, BoardTypeOK
<1>3. CASE Load
  <2>1. PICK t \in tick.left :
          /\ rows' = [rows EXCEPT ![t.proposal] = Live[t.proposal]]
          /\ tick' = [pc |-> IF Live[t.proposal] = "pending" THEN "post" ELSE "next",
                      batch |-> tick.batch, left |-> tick.left \ {t}, tap |-> t]
    BY <1>3 DEF Load
  <2>2. t \in queue /\ tick.left \subseteq queue /\ tick.batch \subseteq queue /\ t.proposal \in Proposals
    BY <1>3, <2>1, TickFields DEF Load, BridgeTypeOK, Tap
  <2>3. tick' \in Ticks'
    BY <1>3, <2>1, <2>2 DEF Load, Ticks
  <2>4. rows' \in [Proposals -> {"none", "pending", "terminal", "needs_reconciliation"}]
    BY <2>1, <2>2, LiveType DEF BridgeTypeOK
  <2> QED
    BY <1>3, <2>3, <2>4 DEF Load, TickOnly, BridgeTypeOK, BoardTypeOK
<1>4. CASE Serve
  <2>1. tick.tap \in queue /\ tick.tap.proposal \in Proposals /\ tick.tap.decision \in Decisions
    BY <1>4, TickFields DEF Serve, BridgeTypeOK, Tap
  <2>2. BoardTypeOK'
    BY <1>4, <2>1 DEF Serve, Decide, Settled, Outcomes, boardVars, BridgeTypeOK, BoardTypeOK
  <2>3. taken' \in [Decisions -> Nat]
    BY <1>4, <2>1 DEF Serve, BridgeTypeOK
  <2>4. faults' \in Counted
    BY <1>4, SpendType DEF Serve, BridgeTypeOK
  <2>5. tick' \in Ticks'
    BY <1>4, TickGoto DEF Serve, BridgeTypeOK
  <2> QED
    BY <1>4, <2>2, <2>3, <2>4, <2>5 DEF Serve, BridgeTypeOK
<1>5. CASE NotServed
  <2>1. tick' \in Ticks'
    BY <1>5, TickGoto DEF NotServed, BridgeTypeOK
  <2>2. faults' \in Counted
    BY <1>5, SpendType DEF NotServed, BridgeTypeOK
  <2> QED
    BY <1>5, <2>1, <2>2 DEF NotServed, TickOnly, BridgeTypeOK, BoardTypeOK
<1>6. CASE Answer
  <2>1. tick' \in Ticks'
    BY <1>6, TickGoto DEF Answer, OnAnswer, BridgeTypeOK
  <2> QED
    BY <1>6, <2>1 DEF Answer, TickOnly, BridgeTypeOK, BoardTypeOK
<1>7. CASE PutTerminal \/ Park \/ PutRefused
  <2>1. tick' \in Ticks'
    BY <1>7, TickGoto DEF PutTerminal, Park, PutRefused, Put, BridgeTypeOK
  <2>2. rows' \in [Proposals -> {"none", "pending", "terminal", "needs_reconciliation"}]
    BY <1>7 DEF PutTerminal, Park, PutRefused, Put, BridgeTypeOK
  <2> QED
    BY <1>7, <2>1, <2>2 DEF PutTerminal, Park, PutRefused, Put, TickOnly, BridgeTypeOK, BoardTypeOK
<1>8. CASE Count \/ Tally
  <2>1. tick' \in Ticks'
    BY <1>8, TickGoto DEF Count, Tally, BridgeTypeOK
  <2>2. stats' \in [Counters -> Nat]
    <3>1. tick.tap.decision \in Counters
      BY <1>8, TickFields DEF Count, Tally, BridgeTypeOK, Tap, Counters
    <3> QED
      BY <1>8, <3>1 DEF Count, Tally, BridgeTypeOK, Counters
  <2> QED
    BY <1>8, <2>1, <2>2 DEF Count, Tally, TickOnly, BridgeTypeOK, BoardTypeOK
<1>9. CASE Commit
  <2>1. tick' \in Ticks' /\ queue' \subseteq Tap
    BY <1>9 DEF Commit, Ticks, BridgeTypeOK
  <2> QED
    BY <1>9, <2>1 DEF Commit, TickOnly, BridgeTypeOK, BoardTypeOK
<1> QED
  BY <1>1, <1>2, <1>3, <1>4, <1>5, <1>6, <1>7, <1>8, <1>9 DEF TickStep

LEMMA TypeStep == BridgeTypeOK /\ [BridgeNext]_bridgeVars => BridgeTypeOK'
PROOF
<1> SUFFICES ASSUME BridgeTypeOK, [BridgeNext]_bridgeVars PROVE BridgeTypeOK'
  OBVIOUS
<1>1. CASE UNCHANGED bridgeVars
  BY <1>1 DEF bridgeVars, boardVars, BridgeTypeOK, BoardTypeOK, Ticks
<1> QED
  BY <1>1, WorldTypes, PassTypes, TickTypes DEF BridgeNext


-----------------------------------------------------------------------------
(* What the invariants need beside the types. *)

\* Where the pass stands.
Grouped == pass.pc \in {"group", "store", "send", "sent", "reserve", "ledger"}
Engaged == pass.pc \in {"store", "send", "sent", "reserve", "ledger"}
InSends == pass.pc \in {"send", "sent", "reserve", "ledger"}

\* The ledger is never ahead of the pass, nor the pass of the day; a pass that
\* is behind has seen midnight.
Dated ==
  /\ ledger.date <= today
  /\ pass # Idle =>
       /\ ledger.date <= pass.date /\ pass.date <= today
       /\ pass.date # today => faults.midnight

\* What is stored, listed or about to be prompted exists.
Known ==
  /\ \A p \in Proposals : rows[p] # "none" => status[p] # "none"
  /\ pass.pc = "listed" => \A p \in pass.records : status[p] # "none"
  /\ Grouped => \A p \in pass.left : status[p] # "none"
  /\ Engaged => \A p \in pass.group : status[p] # "none"

\* A group is about one entity, which the day has not seen, and the groups left
\* are about others.
Apart ==
  /\ Grouped =>
       /\ PromptedOn(pass.date) \subseteq pass.known
       /\ \A p \in pass.left : EntityOf[p] \notin pass.known
  /\ Engaged =>
       /\ pass.entity \notin pass.known
       /\ \A p \in pass.group : EntityOf[p] = pass.entity
       /\ \A p \in pass.left : EntityOf[p] # pass.entity
  /\ pass.pc = "store" => pass.todo \subseteq pass.group

\* Proposals the pass has yet to show, as far as it knows.
Unseen ==
  (IF Grouped THEN pass.left ELSE {}) \cup
  (IF pass.pc = "store" \/ (pass.pc \in {"send", "sent"} /\ pass.delivered = 0) THEN pass.group ELSE {})

\* Taps come from buttons.
Pressed == \A t \in queue : \E c \in Chats : t.proposal \in shown[c]

\* The rows of a group are there before its buttons.
StoredFirst ==
  /\ pass.pc = "store" => \A p \in pass.group \ pass.todo : rows[p] # "none" \/ p \in lapsed
  /\ pass.pc \in {"send", "sent"} => \A p \in pass.group : rows[p] # "none" \/ p \in lapsed

\* A prompt that counts as delivered is on a screen.
OnScreen ==
  /\ InSends /\ pass.delivered > 0 => \E c \in Chats : pass.group \subseteq shown[c]
  /\ pass.pc \in {"reserve", "ledger"} => pass.delivered > 0

\* Only a prompt that counts as delivered is on a screen.
NotYet == faults.unknown = 0 => \A p \in Unseen \ lapsed : \A c \in Chats : p \notin shown[c]

\* A pass that saw midnight and has yet to prompt the entity.
Ahead(e) ==
  /\ pass # Idle /\ pass.date # today
  /\ \/ pass.pc \in {"list", "listed"}
     \/ Grouped /\ \E p \in pass.left : EntityOf[p] = e
     \/ Engaged /\ pass.entity = e

\* The prompt has reached a chat and is not in the ledger yet.
Delivered(c, e) == InSends /\ pass.entity = e /\ pass.delivered > 0 /\ c \notin pass.chats

If(b) == IF b THEN 1 ELSE 0

\* Every prompt has its entry in the ledger or its excuse.
PromptsCounted ==
  \A c \in Chats, e \in Entities :
    prompts[c][e] <= faults.unknown + faults.crash
                     + If(faults.midnight /\ ~Ahead(e))
                     + If(e \in PromptedOn(today) \/ Delivered(c, e))

\* The cap stands for the prompts and cards of the day, but for the prompt on its
\* way and, once it is used up, one more.
CapCounted ==
  ~faults.midnight /\ faults.unknown + faults.crash = 0 =>
    /\ IsFiniteSet(Prompted)
    /\ pass.pc \in {"store", "send", "sent", "reserve"} =>
         slots + Cardinality(Prompted \ {pass.entity}) <= UsedOn(today)
    /\ pass.pc \notin {"store", "send", "sent", "reserve"} =>
         \/ slots + Cardinality(Prompted) <= UsedOn(today)
         \/ UsedOn(today) = DailyCap /\ slots + Cardinality(Prompted) <= DailyCap + 1

\* What the tick makes of a tap is what the server made of it.
Decided ==
  /\ tick.pc \in {"post", "ok", "conflict", "missing", "none", "terminal", "count", "park", "refuse", "tally"} =>
       status[tick.tap.proposal] # "none"
  /\ tick.pc \in {"ok", "terminal"} => status[tick.tap.proposal] \in {"approved", "rejected"}
  /\ tick.pc \in {"conflict", "missing", "park", "refuse"} => status[tick.tap.proposal] \in Outcomes

Unwritten(d) == If(tick.pc \in {"ok", "terminal", "count"} /\ tick.tap.decision = d)

StatsCounted ==
  \A d \in Decisions :
    /\ stats[d] + Unwritten(d) <= taken[d]
    /\ faults.crash + faults.lost = 0 => stats[d] + Unwritten(d) = taken[d]

\* A row is closed for a tap; while the tap is served its row stays as it was.
Served ==
  /\ \A p \in Proposals : rows[p] \in {"terminal", "needs_reconciliation"} =>
       \E c \in Chats : p \in shown[c]
  /\ tick.pc \in {"post", "ok", "conflict", "missing", "none", "terminal", "park", "refuse"} /\ faults.unknown = 0 =>
       rows[tick.tap.proposal] = "pending" \/ tick.tap.proposal \in lapsed

\* Everybody but the pass, midnight and a crash leaves the pass and what it has
\* counted alone.
Bystander ==
  \/ \E p \in Proposals : Emitted(p) \/ Others(p)
  \/ ToolCard \/ TickStep \/ UNCHANGED bridgeVars
  \/ \E c \in Chats, p \in Proposals, d \in Decisions : Press(c, p, d)

LEMMA BystanderMoves ==
  ASSUME BridgeTypeOK, Bystander
  PROVE  /\ UNCHANGED <<pass, ledger, today, shown, prompts>>
         /\ faults'.midnight = faults.midnight
         /\ faults'.crash = faults.crash /\ faults'.unknown = faults.unknown
         /\ ToolCard \/ UNCHANGED <<cap, slots>>
PROOF
<1>1. CASE UNCHANGED bridgeVars \/ ToolCard
  BY <1>1 DEF bridgeVars, ToolCard
<1>2. ASSUME NEW p \in Proposals, Emitted(p) \/ Others(p)
      PROVE  /\ UNCHANGED <<pass, ledger, today, shown, prompts, cap, slots>>
             /\ faults'.midnight = faults.midnight
             /\ faults'.crash = faults.crash /\ faults'.unknown = faults.unknown
  BY <1>2, SpendType DEF Emitted, Others, NotTheClient, BridgeTypeOK
<1>3. ASSUME NEW c \in Chats, NEW p \in Proposals, NEW d \in Decisions, Press(c, p, d)
      PROVE  /\ UNCHANGED <<pass, ledger, today, shown, prompts, cap, slots>>
             /\ faults'.midnight = faults.midnight
             /\ faults'.crash = faults.crash /\ faults'.unknown = faults.unknown
  BY <1>3, SpendType DEF Press, BridgeTypeOK
<1>4. CASE TickStep
  BY <1>4, SpendType DEF TickStep, Fetch, Load, Serve, NotServed, Answer, PutTerminal, Park, PutRefused, Put, Tally, Count,
     Commit, TickOnly, BridgeTypeOK
<1> QED
  BY <1>1, <1>2, <1>3, <1>4 DEF Bystander

LEMMA InitDated == BridgeInit => Dated /\ Apart
BY DEF BridgeInit, Dated, Apart, Grouped, Engaged, Idle

LEMMA DatedStep ==
  ASSUME BridgeTypeOK, Dated, [BridgeNext]_bridgeVars
  PROVE  Dated'
PROOF
<1> USE DEF Dated
<1>1. /\ pass' \in Passes => (pass' = Idle <=> pass'.pc = "idle")
      /\ pass \in Passes /\ (pass = Idle <=> pass.pc = "idle")
      /\ today \in Nat /\ ledger.date \in Nat /\ (pass # Idle => pass.date \in Nat)
  BY PassFields DEF BridgeTypeOK, Dates, Passes, Storing, Prompts, Idle
<1>2. CASE Bystander
  BY <1>2, BystanderMoves
<1>3. CASE Midnight
  <2>1. pass # Idle => faults'.midnight
    BY <1>3 DEF Midnight, BridgeTypeOK, Counted
  <2>2. today' = today + 1 /\ UNCHANGED <<pass, ledger>>
    BY <1>3 DEF Midnight
  <2> QED
    BY <1>1, <2>1, <2>2
<1>4. CASE Crash
  BY <1>4, SpendType DEF Crash, BridgeTypeOK
<1>5. CASE PollStart
  BY <1>1, <1>5 DEF PollStart, PassOnly
<1>6. CASE ListFails
  BY <1>6 DEF ListFails, PassOnly
<1>7. CASE ListRead
  BY <1>1, <1>7 DEF ListRead, PassOnly, Idle
<1>8. CASE Listed
  BY <1>1, <1>8, ListedFields DEF Listed, PassOnly, Idle
<1>9. CASE Group
  BY <1>1, <1>9, GroupFields DEF Group, PassOnly, Idle
<1>10. CASE Store
  BY <1>1, <1>10, StoreFields DEF Store, PassOnly
<1>11. ASSUME NEW c \in Chats, Send(c) PROVE Dated'
  <2>1. faults'.midnight = faults.midnight
    BY <1>11, SpendType DEF Send, BridgeTypeOK
  <2> QED
    BY <1>1, <1>11, <2>1, SendFields DEF Send, PassOnly
<1>12. CASE SendReturns
  BY <1>1, <1>12, SendReturnsFields DEF SendReturns, PassOnly
<1>13. CASE ReserveSlot
  BY <1>1, <1>13, ReserveFields DEF ReserveSlot, PassOnly
<1>14. CASE WriteLedger
  BY <1>1, <1>14, WriteFields DEF WriteLedger, PassOnly
<1> QED
  BY <1>2, <1>3, <1>4, <1>5, <1>6, <1>7, <1>8, <1>9, <1>10, <1>11, <1>12, <1>13, <1>14
     DEF BridgeNext, PassStep, Bystander

\* The groups of a pass concern entities the day has not seen.
LEMMA ApartStep ==
  ASSUME BridgeTypeOK, Apart, [BridgeNext]_bridgeVars
  PROVE  Apart'
PROOF
<1> USE DEF Apart, Grouped, Engaged
<1>1. /\ pass' = Idle => pass'.pc = "idle"
      /\ pass \in Passes /\ pass.pc = "idle" <=> pass = Idle
  BY PassFields DEF BridgeTypeOK, Idle
<1>2. CASE Bystander
  BY <1>2, BystanderMoves DEF PromptedOn
<1>3. CASE Midnight
  BY <1>3 DEF Midnight, PromptedOn
<1>4. CASE Crash \/ ListFails
  BY <1>1, <1>4 DEF Crash, ListFails
<1>5. CASE PollStart
  BY <1>5 DEF PollStart
<1>6. CASE ListRead
  BY <1>1, <1>6 DEF ListRead
<1>7. CASE Listed
  <2>1. ASSUME pass' # Idle PROVE Apart'
    <3>1. PICK first \in pass.records :
            /\ pass'.pc = "group" /\ pass'.date = pass.date
            /\ pass'.left = Candidates(pass.records, first, pass.date)
            /\ pass'.known = PromptedOn(pass.date)
      BY <1>7, <2>1, ListedFields
    <3>2. UNCHANGED ledger
      BY <1>7 DEF Listed
    <3> QED
      BY <3>1, <3>2 DEF Candidates, PromptedOn
  <2> QED
    BY <1>1, <2>1
<1>8. CASE Group
  <2>1. ASSUME pass' # Idle PROVE Apart'
    <3>1. UNCHANGED ledger
      BY <1>8 DEF Group
    <3> QED
      BY <1>8, <2>1, <3>1, GroupFields DEF PromptedOn
  <2> QED
    BY <1>1, <2>1
<1>9. CASE Store
  BY <1>9, StoreFields DEF Store, PromptedOn
<1>10. ASSUME NEW c \in Chats, Send(c) PROVE Apart'
  BY <1>10, SendFields DEF Send, PromptedOn
<1>11. CASE SendReturns
  BY <1>11, SendReturnsFields DEF SendReturns, PromptedOn
<1>12. CASE ReserveSlot
  BY <1>12, ReserveFields DEF ReserveSlot, PromptedOn
<1>13. CASE WriteLedger
  BY <1>13, WriteFields DEF PromptedOn
<1> QED
  BY <1>2, <1>3, <1>4, <1>5, <1>6, <1>7, <1>8, <1>9, <1>10, <1>11, <1>12, <1>13
     DEF BridgeNext, PassStep, Bystander

\* The stages of a tap, the row it may close and the counters it moves.
LEMMA TickMoves ==
  ASSUME BridgeTypeOK, TickStep
  PROVE  \/ UNCHANGED <<status, rows, stats, taken>> /\ tick'.pc \in {"idle", "next"} /\ tick.pc \in {"idle", "next"}
         \/ \E t \in queue :
              /\ t.proposal \in Proposals /\ tick.pc = "next"
              /\ rows' = [rows EXCEPT ![t.proposal] = Live[t.proposal]]
              /\ tick'.pc \in {"next", "post"} /\ tick'.tap = t
              /\ tick'.pc = "post" => Live[t.proposal] = "pending"
              /\ UNCHANGED <<status, stats, taken>>
         \/ /\ tick.pc \in {"post", "ok", "conflict", "missing", "none", "terminal", "count", "park", "refuse", "tally"}
            /\ tick'.tap = tick.tap /\ tick.tap \in queue
            /\ tick.tap.proposal \in Proposals /\ tick.tap.decision \in Decisions
            /\ \/ Serve /\ tick.pc = "post" /\ tick'.pc \in {"ok", "conflict", "missing", "none"}
               \/ NotServed /\ tick.pc = "post" /\ tick'.pc = "none"
               \/ Answer /\ tick'.pc = OnAnswer /\ tick.pc \in {"ok", "conflict", "missing", "none"}
               \/ PutTerminal /\ tick.pc = "terminal" /\ tick'.pc = "count"
               \/ Park /\ tick.pc = "park" /\ tick'.pc = "next"
               \/ PutRefused /\ tick.pc = "refuse" /\ tick'.pc = "tally"
               \/ Count /\ tick.pc = "count" /\ tick'.pc = "next"
               \/ Tally /\ tick.pc = "tally" /\ tick'.pc = "next"
PROOF
<1>1. /\ tick \in Ticks /\ queue \subseteq Tap
      /\ tick.pc \in {"post", "ok", "conflict", "missing", "none", "terminal", "count", "park", "refuse", "tally"} =>
           /\ tick.tap \in queue
           /\ tick.tap.proposal \in Proposals /\ tick.tap.decision \in Decisions
  BY TickFields DEF BridgeTypeOK, Tap
<1>2. CASE Fetch \/ Commit
  BY <1>2 DEF Fetch, Commit, Idle
<1>3. CASE Load
  <2>1. PICK t \in tick.left :
          /\ rows' = [rows EXCEPT ![t.proposal] = Live[t.proposal]]
          /\ tick' = [pc |-> IF Live[t.proposal] = "pending" THEN "post" ELSE "next",
                      batch |-> tick.batch, left |-> tick.left \ {t}, tap |-> t]
    BY <1>3 DEF Load
  <2>2. t \in queue /\ t.proposal \in Proposals /\ tick.pc = "next"
    BY <1>1, <1>3, <2>1, TickFields DEF Load, Tap
  <2>3. /\ tick'.pc \in {"next", "post"} /\ tick'.tap = t
        /\ tick'.pc = "post" => Live[t.proposal] = "pending"
    BY <2>1
  <2> QED
    BY <1>3, <2>1, <2>2, <2>3 DEF Load
<1>4. CASE Serve
  <2>1. PICK pc \in {"ok", "conflict", "missing", "none"} : Goto(pc)
    BY <1>4 DEF Serve
  <2> QED
    BY <1>1, <1>4, <2>1, TickGoto DEF Serve
<1>5. CASE NotServed
  BY <1>1, <1>5, TickGoto DEF NotServed, TickOnly
<1>6. CASE Answer
  <2>1. OnAnswer \in {"next", "terminal", "park", "refuse"} /\ Goto(OnAnswer) /\ UNCHANGED queue
    BY <1>6 DEF Answer, OnAnswer
  <2>2. tick'.pc = OnAnswer /\ tick'.tap = tick.tap
    BY <1>1, <1>6, <2>1, TickGoto DEF Answer
  <2> QED
    BY <1>1, <1>6, <2>2 DEF Answer
<1>7. CASE PutTerminal
  BY <1>1, <1>7, TickGoto DEF PutTerminal, Put
<1>8. CASE Park
  BY <1>1, <1>8, TickGoto DEF Park, Put
<1>9. CASE Count
  BY <1>1, <1>9, TickGoto DEF Count
<1>10. CASE PutRefused
  BY <1>1, <1>10, TickGoto DEF PutRefused, Put
<1>11. CASE Tally
  BY <1>1, <1>11, TickGoto DEF Tally
<1> QED
  BY <1>2, <1>3, <1>4, <1>5, <1>6, <1>7, <1>8, <1>9, <1>10, <1>11 DEF TickStep

\* A proposal stays on the board, and its outcome stands; what has lapsed has
\* lapsed, and what is on a screen stays there.
LEMMA BoardMoves ==
  ASSUME BridgeTypeOK, [BridgeNext]_bridgeVars
  PROVE  /\ lapsed \subseteq lapsed'
         /\ \A c \in Chats : shown[c] \subseteq shown'[c]
         /\ \A p \in Proposals :
              /\ status[p] # "none" => status'[p] # "none"
              /\ status[p] \in Outcomes => status'[p] = status[p]
PROOF
<1>1. CASE UNCHANGED <<boardVars, shown>>
  BY <1>1 DEF boardVars
<1>2. ASSUME NEW p \in Proposals, Emitted(p)
      PROVE  /\ UNCHANGED <<lapsed, shown>>
             /\ \A q \in Proposals :
                  /\ status[q] # "none" => status'[q] # "none"
                  /\ status[q] \in Outcomes => status'[q] = status[q]
  BY <1>2 DEF Emitted, Publish, NotTheClient, Outcomes, BridgeTypeOK, BoardTypeOK
<1>3. ASSUME NEW p \in Proposals, NEW d \in Decisions, Decide(p, d)
      PROVE  /\ UNCHANGED lapsed
             /\ \A q \in Proposals :
                  /\ status[q] # "none" => status'[q] # "none"
                  /\ status[q] \in Outcomes => status'[q] = status[q]
  BY <1>3 DEF Decide, Settled, Outcomes, BridgeTypeOK, BoardTypeOK
<1>4. ASSUME NEW p \in Proposals, Others(p)
      PROVE  /\ lapsed \subseteq lapsed' /\ UNCHANGED shown
             /\ \A q \in Proposals :
                  /\ status[q] # "none" => status'[q] # "none"
                  /\ status[q] \in Outcomes => status'[q] = status[q]
  BY <1>3, <1>4 DEF Others, Lapse, Withdraw, NotTheClient
<1>5. CASE Serve
  <2>1. tick.tap.proposal \in Proposals /\ tick.tap.decision \in Decisions
    BY <1>5, TickFields DEF Serve, BridgeTypeOK, Tap
  <2> QED
    BY <1>3, <1>5, <2>1 DEF Serve, boardVars
<1>6. ASSUME NEW c \in Chats, Send(c) PROVE UNCHANGED boardVars /\ \A b \in Chats : shown[b] \subseteq shown'[b]
  BY <1>6 DEF Send, PassOnly, Appear, BridgeTypeOK
<1>7. ASSUME NEW c \in Chats, NEW p \in Proposals, NEW d \in Decisions, Press(c, p, d)
      PROVE  UNCHANGED <<boardVars, shown>>
  BY <1>7 DEF Press
<1>8. CASE Midnight \/ ToolCard \/ Crash
  BY <1>1, <1>8 DEF Midnight, ToolCard, Crash
<1>9. CASE PollStart \/ ListFails \/ ListRead \/ Listed \/ Group \/ Store \/ SendReturns \/ ReserveSlot \/ WriteLedger
  BY <1>1, <1>9 DEF PollStart, ListFails, ListRead, Listed, Group, Store, SendReturns, ReserveSlot, WriteLedger, PassOnly
<1>10. CASE Fetch \/ Load \/ NotServed \/ Answer \/ PutTerminal \/ Park \/ PutRefused \/ Count \/ Tally \/ Commit
  BY <1>1, <1>10 DEF Fetch, Load, NotServed, Answer, PutTerminal, Park, PutRefused, Put, Count, Tally, Commit, TickOnly, boardVars
<1> QED
  BY <1>1, <1>2, <1>4, <1>5, <1>6, <1>7, <1>8, <1>9, <1>10
     DEF BridgeNext, PassStep, TickStep, bridgeVars, boardVars

\* Who changes a row, and to what.
LEMMA RowMoves ==
  ASSUME BridgeTypeOK, [BridgeNext]_bridgeVars, NEW p \in Proposals
  PROVE  \/ rows'[p] = rows[p]
         \/ rows'[p] = "none" /\ p \in lapsed
         \/ rows'[p] = "none" /\ p \in pass.group /\ pass.pc = "sent" /\ pass.delivered = 0
              /\ pass'.pc = "group"
         \/ rows'[p] = "pending" /\ pass.pc = "store" /\ p \in pass.todo
         \/ /\ rows'[p] = "terminal" /\ tick.pc = "terminal" /\ tick'.pc = "count"
            /\ tick.tap \in queue /\ p = tick.tap.proposal
         \/ /\ rows'[p] = "terminal" /\ tick.pc = "refuse" /\ tick'.pc = "tally"
            /\ tick.tap \in queue /\ p = tick.tap.proposal
         \/ /\ rows'[p] = "needs_reconciliation" /\ tick.pc = "park" /\ tick'.pc = "next"
            /\ tick.tap \in queue /\ p = tick.tap.proposal
PROOF
<1>1. rows \in [Proposals -> {"none", "pending", "terminal", "needs_reconciliation"}]
  BY DEF BridgeTypeOK
<1>2. CASE UNCHANGED rows
  BY <1>2
<1>3. CASE Listed
  BY <1>3 DEF Listed, Live
<1>4. CASE Store
  BY <1>1, <1>4 DEF Store
<1>5. CASE SendReturns
  BY <1>1, <1>5, SendReturnsFields DEF Removed
<1>6. CASE TickStep
  <2>1. CASE \E t \in queue : /\ t.proposal \in Proposals
                              /\ rows' = [rows EXCEPT ![t.proposal] = Live[t.proposal]]
    BY <1>1, <2>1 DEF Live
  <2>2. CASE PutTerminal
    BY <1>1, <1>6, <2>2, TickFields, TickMoves DEF PutTerminal, Put, BridgeTypeOK
  <2>3. CASE Park
    BY <1>1, <1>6, <2>3, TickFields, TickMoves DEF Park, Put, BridgeTypeOK
  <2>4. CASE PutRefused
    BY <1>1, <1>6, <2>4, TickFields, TickMoves DEF PutRefused, Put, BridgeTypeOK
  <2>5. CASE Serve \/ NotServed \/ Answer \/ Count \/ Tally
    BY <1>2, <2>5 DEF Serve, NotServed, Answer, Count, Tally
  <2> QED
    BY <1>2, <1>6, <2>1, <2>2, <2>3, <2>4, <2>5, TickMoves
<1> QED
  BY <1>2, <1>3, <1>4, <1>5, <1>6 DEF BridgeNext, PassStep, bridgeVars, Emitted, Others, NotTheClient, Midnight,
     ToolCard, Crash, PollStart, ListFails, ListRead, Group, Send, ReserveSlot, WriteLedger, Press

LEMMA KnownStep ==
  ASSUME BridgeTypeOK, Apart, Known, Decided, [BridgeNext]_bridgeVars
  PROVE  Known'
PROOF
<1>1. /\ pass' = Idle => pass'.pc = "idle"
      /\ pass \in Passes /\ (pass.pc = "idle" <=> pass = Idle)
  BY PassFields DEF BridgeTypeOK, Idle
<1>2. \A p \in Proposals : status[p] # "none" => status'[p] # "none"
  BY BoardMoves
<1>3. ASSUME NEW p \in Proposals, rows'[p] # "none" PROVE status'[p] # "none"
  <2>1. CASE rows'[p] = rows[p]
    BY <1>2, <1>3, <2>1 DEF Known
  <2>2. CASE pass.pc = "store" /\ p \in pass.todo
    BY <1>2, <2>2 DEF Known, Apart, Engaged
  <2>3. CASE tick.pc \in {"terminal", "park", "refuse"} /\ p = tick.tap.proposal
    BY <1>2, <2>3 DEF Decided
  <2> QED
    BY <1>3, <2>1, <2>2, <2>3, RowMoves
<1>4. ASSUME UNCHANGED pass
      PROVE  /\ pass'.pc = "listed" => \A p \in pass'.records : status'[p] # "none"
             /\ Grouped' => \A p \in pass'.left : status'[p] # "none"
             /\ Engaged' => \A p \in pass'.group : status'[p] # "none"
  BY <1>1, <1>2, <1>4, PassFields DEF Known, Grouped, Engaged
<1>5. ASSUME pass'.pc \notin {"idle", "list", "listed"}, Grouped,
             \A p \in pass'.left : p \in pass.left,
             Engaged' => \A p \in pass'.group : p \in pass.left \/ (Engaged /\ p \in pass.group)
      PROVE  /\ Grouped' => \A p \in pass'.left : status'[p] # "none"
             /\ Engaged' => \A p \in pass'.group : status'[p] # "none"
  BY <1>1, <1>2, <1>5, PassFields DEF Known, Grouped, Engaged
<1>6. CASE Bystander \/ Midnight
  BY <1>3, <1>4, <1>6, BystanderMoves DEF Known, Midnight
<1>7. CASE Crash \/ ListFails \/ PollStart
  BY <1>1, <1>3, <1>7 DEF Known, Crash, ListFails, PollStart, Grouped, Engaged
<1>8. CASE ListRead
  <2>1. Grouped' = FALSE /\ Engaged' = FALSE /\ UNCHANGED status
    BY <1>1, <1>8 DEF ListRead, PassOnly, boardVars, Grouped, Engaged
  <2>2. pass'.pc = "listed" => pass'.records = Offered
    BY <1>1, <1>8 DEF ListRead
  <2> QED
    BY <1>3, <2>1, <2>2 DEF Known, Offered
<1>9. CASE Listed
  <2>1. ASSUME pass' # Idle PROVE Known'
    <3>1. PICK first \in pass.records :
            /\ pass.pc = "listed" /\ pass'.pc = "group"
            /\ pass'.left = Candidates(pass.records, first, pass.date)
      BY <1>9, <2>1, ListedFields
    <3>2. \A p \in pass'.left : p \in pass.records
      BY <3>1 DEF Candidates
    <3> QED
      BY <1>1, <1>2, <1>3, <3>1, <3>2, PassFields DEF Known, Grouped, Engaged
  <2> QED
    BY <1>1, <1>3, <2>1 DEF Known, Grouped, Engaged
<1>10. CASE Group
  <2>1. ASSUME pass' # Idle PROVE Known'
    <3>1. PICK p \in pass.left :
            /\ pass.pc = "group" /\ pass'.pc = "store"
            /\ pass'.left = {q \in pass.left : EntityOf[q] # EntityOf[p]}
            /\ pass'.group \subseteq {q \in pass.left : EntityOf[q] = EntityOf[p]}
      BY <1>10, <2>1, GroupFields
    <3>2. \A q \in pass'.left \cup pass'.group : q \in pass.left
      BY <3>1
    <3> QED
      BY <1>3, <1>5, <3>1, <3>2 DEF Known, Grouped, Engaged
  <2> QED
    BY <1>1, <1>3, <2>1 DEF Known, Grouped, Engaged
<1>11. CASE Store
  BY <1>3, <1>5, <1>11, StoreFields DEF Known, Grouped, Engaged
<1>12. ASSUME NEW c \in Chats, Send(c) PROVE Known'
  BY <1>3, <1>5, <1>12, SendFields DEF Known, Grouped, Engaged
<1>13. CASE SendReturns
  BY <1>3, <1>5, <1>13, SendReturnsFields DEF Known, Grouped, Engaged
<1>14. CASE ReserveSlot
  BY <1>3, <1>5, <1>14, ReserveFields DEF Known, Grouped, Engaged
<1>15. CASE WriteLedger
  BY <1>3, <1>5, <1>15, WriteFields DEF Known, Grouped, Engaged
<1> QED
  BY <1>6, <1>7, <1>8, <1>9, <1>10, <1>11, <1>12, <1>13, <1>14, <1>15
     DEF BridgeNext, PassStep, Bystander

\* The tick is moved by its own steps and by a crash.
LEMMA OthersLeaveTick ==
  ASSUME [BridgeNext]_bridgeVars
  PROVE  \/ TickStep
         \/ Crash /\ tick' = Idle
         \/ UNCHANGED <<tick, taken, stats>>
BY DEF BridgeNext, PassStep, bridgeVars, Emitted, Others, NotTheClient, Midnight, ToolCard, Crash, PollStart,
   ListFails, ListRead, Listed, Group, Store, Send, SendReturns, ReserveSlot, WriteLedger, PassOnly, Press

\* What Serve leads to.
LEMMA Serves ==
  ASSUME BridgeTypeOK, Decided, Serve
  PROVE  LET p == tick.tap.proposal
             d == tick.tap.decision
         IN  /\ Granted(p, d) => status'[p] \in {"approved", "rejected"}
             /\ status'[p] \in Outcomes
             /\ tick'.pc = "ok" => Granted(p, d) /\ UNCHANGED faults
             /\ tick'.pc \in {"conflict", "missing"} => ~Granted(p, d) /\ UNCHANGED faults
             /\ tick'.pc = "none" => Spend("lost", MaxLost)
             /\ tick'.pc \in {"ok", "conflict", "missing", "none"} /\ tick'.tap = tick.tap
             /\ taken' = IF Granted(p, d) THEN [taken EXCEPT ![d] = @ + 1] ELSE taken
             /\ UNCHANGED <<rows, stats, queue>>
PROOF
<1> DEFINE p == tick.tap.proposal
           d == tick.tap.decision
<1>1. p \in Proposals /\ d \in Decisions /\ tick.pc = "post"
  BY TickFields DEF Serve, BridgeTypeOK, Tap
<1>2. /\ Granted(p, d) => status'[p] \in {"approved", "rejected"}
      /\ status'[p] \in Outcomes
  <2>1. CASE status[p] = "pending"
    <3>1. status' = [status EXCEPT ![p] = Settled(p, d)] /\ Settled(p, d) \in Outcomes
      BY <2>1 DEF Serve, Decide, Settled, Outcomes
    <3>2. status'[p] = Settled(p, d)
      BY <1>1, <3>1 DEF BridgeTypeOK, BoardTypeOK
    <3> QED
      BY <3>1, <3>2 DEF Granted
  <2>2. CASE status[p] # "pending"
    <3>1. status[p] \in Outcomes
      BY <1>1, <2>2 DEF Decided, BridgeTypeOK, BoardTypeOK
    <3> QED
      BY <2>2, <3>1 DEF Serve, boardVars, Granted
  <2> QED
    BY <2>1, <2>2
<1>3. CASE Goto(IF Granted(p, d) THEN "ok" ELSE "conflict") /\ UNCHANGED faults
  <2>1. PICK pc \in {"ok", "conflict"} : Goto(pc) /\ pc = IF Granted(p, d) THEN "ok" ELSE "conflict"
    BY <1>3
  <2>2. tick'.pc = pc /\ tick'.tap = tick.tap
    BY <1>1, <2>1, TickGoto DEF Serve, BridgeTypeOK
  <2> QED
    BY <1>2, <1>3, <2>1, <2>2 DEF Serve
<1>4. CASE Goto("none") /\ Spend("lost", MaxLost)
  <2>1. tick'.pc = "none" /\ tick'.tap = tick.tap
    BY <1>1, <1>4, TickGoto DEF Serve, BridgeTypeOK
  <2> QED
    BY <1>2, <1>4, <2>1 DEF Serve
<1>5. CASE status[p] \in Outcomes /\ Goto("missing") /\ UNCHANGED faults
  <2>1. tick'.pc = "missing" /\ tick'.tap = tick.tap
    BY <1>1, <1>5, TickGoto DEF Serve, BridgeTypeOK
  <2>2. ~Granted(p, d)
    BY <1>5 DEF Granted, Outcomes
  <2> QED
    BY <1>2, <1>5, <2>1, <2>2 DEF Serve
<1> QED
  BY <1>3, <1>4, <1>5 DEF Serve

LEMMA DecidedStep ==
  ASSUME BridgeTypeOK, Known, Decided, [BridgeNext]_bridgeVars
  PROVE  Decided'
PROOF
<1>1. /\ tick \in Ticks /\ queue \subseteq Tap
      /\ tick.pc \in {"post", "ok", "conflict", "missing", "none", "terminal", "count", "park", "refuse", "tally"} =>
           tick.tap.proposal \in Proposals
  BY TickFields DEF BridgeTypeOK, Tap
<1>2. \A p \in Proposals :
        /\ status[p] # "none" => status'[p] # "none"
        /\ status[p] \in Outcomes => status'[p] = status[p]
  BY BoardMoves
<1>3. CASE UNCHANGED tick
  BY <1>1, <1>2, <1>3 DEF Decided, Outcomes
<1>4. CASE Crash /\ tick' = Idle
  BY <1>4 DEF Decided, Idle
<1>5. CASE TickStep
  <2>1. CASE tick'.pc \in {"idle", "next"}
    BY <2>1 DEF Decided
  <2>2. ASSUME NEW t \in queue, t.proposal \in Proposals,
               rows' = [rows EXCEPT ![t.proposal] = Live[t.proposal]],
               tick'.pc \in {"next", "post"}, tick'.tap = t,
               tick'.pc = "post" => Live[t.proposal] = "pending"
        PROVE  Decided'
    BY <1>2, <2>2 DEF Decided, Known, Live
  <2>3. CASE Serve
    <3>1. /\ tick'.tap = tick.tap /\ status'[tick.tap.proposal] \in Outcomes
          /\ tick'.pc \in {"ok", "conflict", "missing", "none"}
          /\ tick'.pc = "ok" => status'[tick.tap.proposal] \in {"approved", "rejected"}
      BY <2>3, Serves
    <3> QED
      BY <3>1 DEF Decided, Outcomes
  <2>4. ASSUME tick.pc \in {"post", "ok", "conflict", "missing", "none", "terminal", "count", "park", "refuse", "tally"},
               tick'.tap = tick.tap,
               \/ NotServed /\ tick.pc = "post" /\ tick'.pc = "none"
               \/ Answer /\ tick'.pc = OnAnswer /\ tick.pc \in {"ok", "conflict", "missing", "none"}
               \/ PutTerminal /\ tick.pc = "terminal" /\ tick'.pc = "count"
               \/ PutRefused /\ tick.pc = "refuse" /\ tick'.pc = "tally"
        PROVE  Decided'
    BY <1>1, <1>2, <2>4 DEF Decided, OnAnswer, Outcomes
  <2> QED
    BY <1>5, <2>1, <2>2, <2>3, <2>4, TickMoves
<1> QED
  BY <1>3, <1>4, <1>5, OthersLeaveTick

LEMMA ClosedStep ==
  ASSUME BridgeTypeOK, Decided, ClosedIsSettled, [BridgeNext]_bridgeVars
  PROVE  ClosedIsSettled'
PROOF
<1>1. \A p \in Proposals : status[p] \in Outcomes => status'[p] = status[p]
  BY BoardMoves
<1>2. ASSUME NEW p \in Proposals
      PROVE  rows'[p] \in {"terminal", "needs_reconciliation"} => status'[p] \in Outcomes
  <2>1. CASE rows'[p] = rows[p]
    BY <1>1, <2>1 DEF ClosedIsSettled, Outcomes
  <2>2. CASE rows'[p] \in {"none", "pending"}
    BY <2>2
  <2>3. CASE rows'[p] = "terminal" /\ tick.pc = "terminal" /\ p = tick.tap.proposal
    BY <1>1, <2>3 DEF Decided, Outcomes
  <2>4. CASE tick.pc \in {"park", "refuse"} /\ p = tick.tap.proposal
    BY <1>1, <2>4 DEF Decided, Outcomes
  <2> QED
    BY <2>1, <2>2, <2>3, <2>4, RowMoves
<1> QED
  BY <1>2 DEF ClosedIsSettled

\* What went wrong stays counted.
LEMMA FaultsGrow ==
  ASSUME BridgeTypeOK, [BridgeNext]_bridgeVars,
         NEW fault \in {"other", "fail", "unknown", "lost", "crash", "tap"}
  PROVE  faults[fault] \in Nat /\ faults'[fault] \in Nat /\ faults[fault] <= faults'[fault]
PROOF
<1>1. faults \in Counted /\ faults[fault] \in Nat
  BY DEF BridgeTypeOK, Counted
<1>2. CASE UNCHANGED faults
  BY <1>1, <1>2
<1>3. CASE Midnight
  <2>1. faults'[fault] = faults[fault]
    BY <1>1, <1>3 DEF Midnight, Counted
  <2> QED
    BY <1>1, <2>1
<1>4. ASSUME NEW spent \in {"other", "fail", "unknown", "lost", "crash", "tap"}, NEW bound,
             Spend(spent, bound)
      PROVE  faults'[fault] \in Nat /\ faults[fault] <= faults'[fault]
  <2>1. faults'[fault] \in {faults[fault], faults[fault] + 1}
    BY <1>1, <1>4, SpendType
  <2> QED
    BY <1>1, <2>1
<1>5. \/ UNCHANGED faults \/ Midnight
      \/ \E spent \in {"other", "fail", "unknown", "lost", "crash", "tap"} : \E bound : Spend(spent, bound)
  BY DEF BridgeNext, PassStep, TickStep, bridgeVars, Emitted, Others, ToolCard, Crash, PollStart, ListFails,
     ListRead, Listed, Group, Store, Send, SendReturns, ReserveSlot, WriteLedger, Press, Fetch, Load, Serve,
     NotServed, Answer, PutTerminal, Park, PutRefused, Put, Count, Tally, Commit
<1> QED
  BY <1>1, <1>2, <1>3, <1>4, <1>5

LEMMA StatsStep ==
  ASSUME BridgeTypeOK, Decided, StatsCounted, [BridgeNext]_bridgeVars
  PROVE  StatsCounted'
PROOF
<1>1. /\ stats \in [Counters -> Nat] /\ taken \in [Decisions -> Nat]
      /\ faults.crash \in Nat /\ faults.lost \in Nat
      /\ faults'.crash \in Nat /\ faults'.lost \in Nat
      /\ faults.crash + faults.lost # 0 => faults'.crash + faults'.lost # 0
  <2>1. /\ stats \in [Counters -> Nat] /\ taken \in [Decisions -> Nat]
        /\ faults.crash \in Nat /\ faults'.crash \in Nat /\ faults.crash <= faults'.crash
        /\ faults.lost \in Nat /\ faults'.lost \in Nat /\ faults.lost <= faults'.lost
    BY FaultsGrow DEF BridgeTypeOK
  <2> QED
    BY <2>1
<1> USE DEF Counters
<1>2. ASSUME NEW d \in Decisions, stats'[d] + Unwritten(d)' = stats[d] + Unwritten(d), UNCHANGED taken
      PROVE  /\ stats'[d] + Unwritten(d)' <= taken'[d]
             /\ faults'.crash + faults'.lost = 0 => stats'[d] + Unwritten(d)' = taken'[d]
  BY <1>1, <1>2 DEF StatsCounted
<1>3. CASE UNCHANGED <<tick, taken, stats>>
  BY <1>2, <1>3 DEF StatsCounted, Unwritten
<1>4. CASE Crash /\ tick' = Idle
  <2>1. faults'.crash = faults.crash + 1 /\ UNCHANGED <<stats, taken>>
    BY <1>4, SpendType DEF Crash, BridgeTypeOK
  <2>2. \A d \in Decisions : Unwritten(d)' = 0 /\ Unwritten(d) \in {0, 1}
    BY <1>4 DEF Unwritten, If, Idle
  <2> QED
    BY <1>1, <2>1, <2>2 DEF StatsCounted
<1>5. CASE TickStep
  <2>1. ASSUME UNCHANGED <<stats, taken>>,
               tick.pc \notin {"ok", "terminal", "count"}, tick'.pc \notin {"ok", "terminal", "count"}
        PROVE  StatsCounted'
    BY <1>2, <2>1 DEF StatsCounted, Unwritten
  <2>2. ASSUME UNCHANGED <<stats, taken>>, tick'.tap = tick.tap,
               tick.pc \in {"ok", "terminal"}, tick'.pc \in {"terminal", "count"}
        PROVE  StatsCounted'
    BY <1>2, <2>2 DEF StatsCounted, Unwritten
  <2>3. CASE Serve
    <3> DEFINE p == tick.tap.proposal
               a == tick.tap.decision
    <3>1. a \in Decisions /\ tick.pc = "post"
      BY <2>3, TickFields DEF Serve, BridgeTypeOK, Tap
    <3>2. \A d \in Decisions : Unwritten(d) = 0
      BY <3>1 DEF Unwritten, If
    <3>3. CASE ~Granted(p, a)
      BY <1>2, <2>1, <2>3, <3>1, <3>3, Serves
    <3>4. ASSUME Granted(p, a), tick'.pc = "ok", NEW d \in Decisions
          PROVE  /\ stats'[d] + Unwritten(d)' <= taken'[d]
                 /\ faults'.crash + faults'.lost = 0 => stats'[d] + Unwritten(d)' = taken'[d]
      <4>1. taken' = [taken EXCEPT ![a] = @ + 1] /\ UNCHANGED stats /\ tick'.tap = tick.tap
        BY <2>3, <3>4, Serves
      <4>2. taken'[d] = (IF d = a THEN taken[d] + 1 ELSE taken[d]) /\ Unwritten(d)' = (IF d = a THEN 1 ELSE 0)
        BY <1>1, <3>1, <3>4, <4>1 DEF Unwritten, If
      <4> QED
        BY <1>1, <3>2, <4>1, <4>2 DEF StatsCounted
    <3>5. ASSUME Granted(p, a), tick'.pc = "none", NEW d \in Decisions
          PROVE  /\ stats'[d] + Unwritten(d)' <= taken'[d]
                 /\ faults'.crash + faults'.lost = 0 => stats'[d] + Unwritten(d)' = taken'[d]
      <4>1. taken' = [taken EXCEPT ![a] = @ + 1] /\ UNCHANGED stats /\ Spend("lost", MaxLost)
        BY <2>3, <3>5, Serves
      <4>2. taken'[d] \in {taken[d], taken[d] + 1} /\ Unwritten(d)' = 0 /\ faults'.lost = faults.lost + 1
        BY <1>1, <3>1, <3>5, <4>1, SpendType DEF Unwritten, If, BridgeTypeOK
      <4> QED
        BY <1>1, <3>2, <4>1, <4>2 DEF StatsCounted
    <3> QED
      BY <2>3, <3>3, <3>4, <3>5, Serves DEF StatsCounted
  <2>4. CASE Count
    <3>1. /\ stats' = [stats EXCEPT ![tick.tap.decision] = @ + 1] /\ UNCHANGED taken
          /\ tick.pc = "count" /\ tick'.pc = "next" /\ tick.tap.decision \in Decisions
      BY <1>5, <2>4, TickMoves DEF Count
    <3>2. ASSUME NEW d \in Decisions PROVE stats'[d] + Unwritten(d)' = stats[d] + Unwritten(d)
      BY <1>1, <3>1 DEF Unwritten, If
    <3> QED
      BY <1>2, <3>1, <3>2 DEF StatsCounted
  <2>5. CASE Tally
    <3>1. /\ stats' = [stats EXCEPT !["refused"] = @ + 1] /\ UNCHANGED taken
          /\ tick.pc = "tally" /\ tick'.pc = "next"
      BY <1>5, <2>5, TickMoves DEF Tally, TickOnly
    <3>2. ASSUME NEW d \in Decisions PROVE stats'[d] + Unwritten(d)' = stats[d] + Unwritten(d)
      <4>1. stats'[d] = stats[d]
        BY <1>1, <3>1 DEF Decisions
      <4> QED
        BY <1>1, <3>1, <4>1 DEF Unwritten, If
    <3> QED
      BY <1>2, <3>1, <3>2 DEF StatsCounted
  <2> QED
    BY <1>5, <2>1, <2>2, <2>3, <2>4, <2>5, TickMoves
       DEF OnAnswer, NotServed, Answer, PutTerminal, Park, PutRefused, Put, TickOnly
<1> QED
  BY <1>3, <1>4, <1>5, OthersLeaveTick

-----------------------------------------------------------------------------
(* Screens, buttons and rows. *)

LEMMA PressedStep ==
  ASSUME BridgeTypeOK, Pressed, [BridgeNext]_bridgeVars
  PROVE  Pressed'
PROOF
<1>1. \A c \in Chats : shown[c] \subseteq shown'[c]
  BY BoardMoves
<1>2. CASE queue' \subseteq queue
  BY <1>1, <1>2 DEF Pressed
<1>3. ASSUME NEW c \in Chats, NEW p \in Proposals, NEW d \in Decisions, Press(c, p, d) PROVE Pressed'
  <2>1. \A t \in queue' : t \in queue \/ t.proposal = p
    BY <1>3 DEF Press
  <2>2. p \in shown'[c]
    BY <1>1, <1>3 DEF Press
  <2> QED
    BY <1>1, <2>1, <2>2 DEF Pressed
<1> QED
  BY <1>2, <1>3 DEF BridgeNext, PassStep, TickStep, bridgeVars, Emitted, Others, NotTheClient, Midnight, ToolCard,
     Crash, PassOnly, PollStart, ListFails, ListRead, Listed, Group, Store, Send, SendReturns, ReserveSlot,
     WriteLedger, Fetch, Load, Serve, NotServed, Answer, PutTerminal, Park, PutRefused, Put, Count, Tally, Commit, TickOnly

LEMMA StoredFirstStep ==
  ASSUME BridgeTypeOK, StoredFirst, [BridgeNext]_bridgeVars
  PROVE  StoredFirst'
PROOF
<1>1. /\ pass' = Idle => pass'.pc = "idle"
      /\ pass.pc \in {"store", "send", "sent"} => pass.group \subseteq Proposals
      /\ pass.pc = "store" => pass.todo \subseteq Proposals
  BY PassFields DEF BridgeTypeOK, Idle
<1>2. lapsed \subseteq lapsed'
  BY BoardMoves
<1>3. CASE UNCHANGED pass
  <2>1. ASSUME NEW p \in Proposals, rows[p] # "none" \/ p \in lapsed, pass'.pc # "group"
        PROVE  rows'[p] # "none" \/ p \in lapsed'
    BY <1>2, <2>1, RowMoves
  <2> QED
    BY <1>1, <1>3, <2>1 DEF StoredFirst
<1>4. CASE pass'.pc \notin {"store", "send", "sent"}
  BY <1>4 DEF StoredFirst
<1>5. CASE Group
  <2>1. ASSUME pass' # Idle PROVE pass'.pc = "store" /\ pass'.todo = pass'.group
    BY <1>5, <2>1, GroupFields
  <2> QED
    BY <1>1, <2>1 DEF StoredFirst
<1>6. CASE Store
  <2>1. UNCHANGED <<lapsed>> /\ pass.pc = "store" /\ rows \in [Proposals -> {"none", "pending", "terminal", "needs_reconciliation"}]
    BY <1>6 DEF Store, PassOnly, boardVars, BridgeTypeOK
  <2>2. ASSUME NEW p \in pass.todo, rows' = [rows EXCEPT ![p] = "pending"],
               pass'.pc = "store", pass'.todo = pass.todo \ {p}, pass'.group = pass.group
        PROVE  StoredFirst'
    <3>1. \A q \in pass.group : rows'[q] = IF q = p THEN "pending" ELSE rows[q]
      BY <1>1, <2>1, <2>2
    <3> QED
      BY <2>1, <2>2, <3>1 DEF StoredFirst
  <2>3. ASSUME pass.todo = {}, UNCHANGED rows, pass'.pc = "send", pass'.group = pass.group
        PROVE  StoredFirst'
    BY <2>1, <2>3 DEF StoredFirst
  <2> QED
    BY <1>6, <2>2, <2>3, StoreFields
<1>7. ASSUME NEW c \in Chats, Send(c) PROVE StoredFirst'
  <2>1. UNCHANGED <<lapsed, rows>>
    BY <1>7 DEF Send, PassOnly, boardVars
  <2>2. pass.pc = "send" /\ pass'.pc = "sent" /\ pass'.group = pass.group
    BY <1>7, SendFields
  <2> QED
    BY <2>1, <2>2 DEF StoredFirst
<1>8. CASE SendReturns
  <2>1. UNCHANGED <<lapsed>>
    BY <1>8 DEF SendReturns, PassOnly, boardVars
  <2> QED
    BY <1>4, <1>8, <2>1, SendReturnsFields DEF StoredFirst
<1>9. CASE ReserveSlot \/ WriteLedger
  BY <1>4, <1>9, ReserveFields, WriteFields
<1>10. CASE Crash \/ ListFails \/ PollStart \/ ListRead \/ Listed
  BY <1>1, <1>4, <1>10 DEF Crash, ListFails, PollStart, ListRead, Listed
<1> QED
  BY <1>3, <1>5, <1>6, <1>7, <1>8, <1>9, <1>10, BystanderMoves DEF BridgeNext, PassStep, Bystander, Midnight

LEMMA OnScreenStep ==
  ASSUME BridgeTypeOK, OnScreen, [BridgeNext]_bridgeVars
  PROVE  OnScreen'
PROOF
<1>1. pass' = Idle => pass'.pc = "idle"
  BY DEF Idle
<1>2. \A c \in Chats : shown[c] \subseteq shown'[c]
  BY BoardMoves
<1>3. CASE UNCHANGED pass
  BY <1>2, <1>3 DEF OnScreen, InSends
<1>4. CASE pass'.pc \notin {"send", "sent", "reserve", "ledger"}
  BY <1>4 DEF OnScreen, InSends
<1>5. CASE Group
  BY <1>1, <1>4, <1>5, GroupFields
<1>6. CASE Store
  BY <1>4, <1>6, StoreFields DEF OnScreen
<1>7. ASSUME NEW c \in Chats, Send(c) PROVE OnScreen'
  <2>1. pass.pc = "send" /\ pass'.pc = "sent" /\ pass'.group = pass.group
    BY <1>7, SendFields
  <2>2. CASE pass'.delivered = pass.delivered
    BY <1>2, <2>1, <2>2 DEF OnScreen, InSends
  <2>3. CASE Appear(c)
    <3>1. pass'.group \subseteq shown'[c]
      BY <2>1, <2>3 DEF Appear, BridgeTypeOK
    <3> QED
      BY <2>1, <3>1 DEF OnScreen
  <2> QED
    BY <1>7, <2>2, <2>3, SendFields
<1>8. CASE SendReturns
  BY <1>2, <1>4, <1>8, SendReturnsFields DEF OnScreen, InSends
<1>9. CASE ReserveSlot
  BY <1>2, <1>9, ReserveFields DEF OnScreen, InSends
<1>10. CASE Crash \/ ListFails \/ PollStart \/ ListRead \/ Listed \/ WriteLedger
  BY <1>1, <1>4, <1>10, WriteFields DEF Crash, ListFails, PollStart, ListRead, Listed
<1> QED
  BY <1>3, <1>5, <1>6, <1>7, <1>8, <1>9, <1>10, BystanderMoves DEF BridgeNext, PassStep, Bystander, Midnight

LEMMA NotYetStep ==
  ASSUME BridgeTypeOK, Apart, NotYet, ButtonsBacked, [BridgeNext]_bridgeVars
  PROVE  NotYet'
PROOF
<1>1. /\ pass' = Idle => pass'.pc = "idle"
      /\ pass \in Passes
  BY DEF Idle, BridgeTypeOK
<1>2. faults'.unknown = 0 => faults.unknown = 0
  BY FaultsGrow
<1>3. lapsed \subseteq lapsed'
  BY BoardMoves
<1>4. ASSUME Unseen' \subseteq Unseen, UNCHANGED shown PROVE NotYet'
  BY <1>2, <1>3, <1>4 DEF NotYet
<1>5. CASE Bystander \/ Midnight
  <2>1. UNCHANGED <<pass, shown>>
    BY <1>5, BystanderMoves DEF Midnight
  <2> QED
    BY <1>4, <2>1 DEF Unseen, Grouped
<1>6. CASE Crash \/ ListFails \/ PollStart \/ ListRead
  <2>1. pass'.pc \in {"idle", "list", "listed"} /\ UNCHANGED shown
    BY <1>1, <1>6 DEF Crash, ListFails, PollStart, ListRead
  <2> QED
    BY <1>4, <2>1 DEF Unseen, Grouped
<1>7. CASE Listed
  <2>1. UNCHANGED <<shown, lapsed, faults>>
    BY <1>7 DEF Listed, PassOnly, boardVars
  <2>2. CASE pass' = Idle
    BY <1>1, <1>4, <2>1, <2>2 DEF Unseen, Grouped
  <2>3. ASSUME pass' # Idle PROVE NotYet'
    <3>1. PICK first \in pass.records :
            /\ pass.pc = "listed" /\ pass'.pc = "group"
            /\ pass'.left = Candidates(pass.records, first, pass.date)
      BY <1>7, <2>3, ListedFields
    <3>2. pass.records \subseteq Proposals
      BY <1>1, <3>1, PassFields
    <3>3. \A p \in pass'.left \ lapsed : p \in Proposals /\ rows[p] = "none"
      BY <3>1, <3>2 DEF Candidates, Seen, Live
    <3>4. Unseen' = pass'.left
      BY <3>1 DEF Unseen, Grouped
    <3> QED
      BY <2>1, <3>3, <3>4 DEF NotYet, ButtonsBacked
  <2> QED
    BY <2>2, <2>3
<1>8. CASE Group
  <2>1. UNCHANGED shown
    BY <1>8 DEF Group
  <2>2. CASE pass' = Idle
    BY <1>1, <1>4, <2>1, <2>2 DEF Unseen, Grouped
  <2>3. ASSUME pass' # Idle PROVE NotYet'
    <3>1. /\ pass.pc = "group" /\ pass'.pc = "store"
          /\ pass'.left \subseteq pass.left /\ pass'.group \subseteq pass.left
      BY <1>8, <2>3, GroupFields
    <3> QED
      BY <1>4, <2>1, <3>1 DEF Unseen, Grouped
  <2> QED
    BY <2>2, <2>3
<1>9. CASE Store
  <2>1. UNCHANGED shown
    BY <1>9 DEF Store
  <2> QED
    BY <1>4, <1>9, <2>1, StoreFields DEF Unseen, Grouped
<1>10. ASSUME NEW c \in Chats, Send(c) PROVE NotYet'
  <2>1. /\ pass.pc = "send" /\ pass'.pc = "sent"
        /\ pass'.group = pass.group /\ pass'.left = pass.left
        /\ pass.left \subseteq Proposals /\ pass.group \subseteq Proposals /\ pass.delivered \in Nat
    BY <1>1, <1>10, SendFields, PassFields
  <2>2. CASE pass'.delivered = pass.delivered /\ UNCHANGED shown
    BY <1>4, <2>1, <2>2 DEF Unseen, Grouped
  <2>3. CASE Spend("unknown", MaxUnknown)
    <3>1. faults'.unknown = faults.unknown + 1 /\ faults.unknown \in Nat
      BY <2>3, SpendType DEF BridgeTypeOK, Counted
    <3> QED
      BY <3>1 DEF NotYet
  <2>4. CASE pass'.delivered = pass.delivered + 1 /\ Appear(c)
    <3>1. Unseen' = pass.left /\ pass.left \subseteq Unseen
      BY <2>1, <2>4 DEF Unseen, Grouped
    <3>2. \A p \in pass.left : p \notin pass.group
      BY <2>1 DEF Apart, Engaged
    <3>3. \A b \in Chats : \A p \in shown'[b] : p \in shown[b] \/ p \in pass.group
      BY <2>4 DEF Appear, BridgeTypeOK
    <3> QED
      BY <1>2, <1>3, <3>1, <3>2, <3>3 DEF NotYet
  <2> QED
    BY <1>10, <2>2, <2>3, <2>4, SendFields
<1>11. CASE SendReturns
  <2>1. UNCHANGED shown
    BY <1>11 DEF SendReturns
  <2>2. pass.delivered \in Nat /\ pass.pc = "sent"
    BY <1>1, <1>11, PassFields DEF SendReturns
  <2> QED
    BY <1>4, <1>11, <2>1, <2>2, SendReturnsFields DEF Unseen, Grouped
<1>12. CASE ReserveSlot
  BY <1>4, <1>12, ReserveFields DEF Unseen, Grouped, ReserveSlot
<1>13. CASE WriteLedger
  BY <1>4, <1>13, WriteFields DEF Unseen, Grouped, WriteLedger
<1> QED
  BY <1>5, <1>6, <1>7, <1>8, <1>9, <1>10, <1>11, <1>12, <1>13 DEF BridgeNext, PassStep, Bystander

LEMMA ButtonsStep ==
  ASSUME BridgeTypeOK, StoredFirst, NotYet, ButtonsBacked, [BridgeNext]_bridgeVars
  PROVE  ButtonsBacked'
PROOF
<1>1. lapsed \subseteq lapsed'
  BY BoardMoves
<1> SUFFICES ASSUME faults'.unknown = 0, NEW c \in Chats, NEW p \in shown'[c]
             PROVE  rows'[p] # "none" \/ p \in lapsed'
  BY DEF ButtonsBacked
<1>2. faults.unknown = 0 /\ p \in Proposals
  BY FaultsGrow, TypeStep DEF BridgeTypeOK
<1>3. CASE p \in shown[c]
  <2>1. rows[p] # "none" \/ p \in lapsed
    BY <1>2, <1>3 DEF ButtonsBacked
  <2>2. pass.pc = "sent" /\ pass.delivered = 0 /\ p \in pass.group => p \in lapsed
    BY <1>2, <1>3 DEF NotYet, Unseen
  <2> QED
    BY <1>1, <1>2, <2>1, <2>2, RowMoves
<1>4. CASE p \notin shown[c]
  <2>1. shown' # shown
    BY <1>4
  <2>2. PICK b \in Chats : Send(b)
    BY <2>1, BystanderMoves DEF BridgeNext, PassStep, Bystander, bridgeVars, Midnight, Crash, PollStart, ListFails, ListRead,
       Listed, Group, Store, SendReturns, ReserveSlot, WriteLedger
  <2>3. p \in pass.group
    BY <1>4, <2>2 DEF Send, Appear, BridgeTypeOK
  <2> QED
    BY <1>1, <2>2, <2>3 DEF Send, StoredFirst
<1> QED
  BY <1>3, <1>4

LEMMA SuppressedStep ==
  ASSUME BridgeTypeOK, Apart, OnScreen, NothingSuppressed, [BridgeNext]_bridgeVars
  PROVE  NothingSuppressed'
PROOF
<1> SUFFICES ASSUME faults'.crash = 0, NEW p \in Proposals, rows'[p] = "pending"
             PROVE  \/ \E c \in Chats : p \in shown'[c]
                    \/ pass'.pc \in {"store", "send", "sent"} /\ p \in pass'.group
  BY DEF NothingSuppressed
<1>1. faults.crash \in Nat /\ faults.crash = 0
  BY FaultsGrow
<1>2. ~Crash
  <2>1. Crash => faults'.crash = faults.crash + 1
    BY SpendType DEF Crash, BridgeTypeOK
  <2> QED
    BY <1>1, <2>1
<1>3. CASE \E c \in Chats : p \in shown[c]
  BY <1>3, BoardMoves
<1>4. CASE pass.pc \in {"store", "send", "sent"} /\ p \in pass.group
  <2>1. CASE UNCHANGED pass
    BY <1>4, <2>1
  <2>2. CASE Store
    BY <1>4, <2>2, StoreFields
  <2>3. ASSUME NEW c \in Chats, Send(c) PROVE pass'.pc \in {"store", "send", "sent"} /\ p \in pass'.group
    BY <1>4, <2>3, SendFields
  <2>4. CASE SendReturns
    <3>1. ~(rows' = Removed(pass.group))
      BY <1>4 DEF Removed
    <3> QED
      BY <1>4, <2>4, <3>1, SendReturnsFields DEF OnScreen, InSends, SendReturns
  <2> QED
    BY <1>2, <1>4, <2>1, <2>2, <2>3, <2>4, BystanderMoves
       DEF BridgeNext, PassStep, Bystander, Midnight, PollStart, ListFails, ListRead, Listed, Group, ReserveSlot,
           WriteLedger, Idle
<1> QED
  BY <1>1, <1>3, <1>4, RowMoves DEF NothingSuppressed, Apart

LEMMA ServedStep ==
  ASSUME BridgeTypeOK, Pressed, NotYet, Served, [BridgeNext]_bridgeVars
  PROVE  Served'
PROOF
<1>1. /\ lapsed \subseteq lapsed'
      /\ \A c \in Chats : shown[c] \subseteq shown'[c]
  BY BoardMoves
<1>2. faults'.unknown = 0 => faults.unknown = 0
  BY FaultsGrow
<1>3. ASSUME NEW p \in Proposals, rows'[p] \in {"terminal", "needs_reconciliation"}
      PROVE  \E c \in Chats : p \in shown'[c]
  <2>1. CASE rows'[p] = rows[p]
    BY <1>1, <1>3, <2>1 DEF Served
  <2>2. CASE tick.tap \in queue /\ p = tick.tap.proposal
    BY <1>1, <2>2 DEF Pressed
  <2> QED
    BY <1>3, <2>1, <2>2, RowMoves
<1>4. ASSUME faults'.unknown = 0, tick'.tap = tick.tap,
             tick.pc \in {"post", "ok", "conflict", "missing", "none", "terminal", "park", "refuse"},
             tick'.pc \in {"post", "ok", "conflict", "missing", "none", "terminal", "park", "refuse"}
      PROVE  rows'[tick'.tap.proposal] = "pending" \/ tick'.tap.proposal \in lapsed'
  <2> DEFINE p == tick.tap.proposal
  <2>1. tick.tap \in queue /\ p \in Proposals
    BY <1>4, TickFields DEF BridgeTypeOK, Tap
  <2>2. rows[p] = "pending" \/ p \in lapsed
    BY <1>2, <1>4 DEF Served
  <2>3. pass.pc = "sent" /\ pass.delivered = 0 /\ p \in pass.group => p \in lapsed
    BY <1>2, <1>4, <2>1 DEF Pressed, NotYet, Unseen
  <2>4. rows'[p] = "pending" \/ p \in lapsed
    BY <1>4, <2>1, <2>2, <2>3, RowMoves
  <2> QED
    BY <1>1, <1>4, <2>4
<1>5. CASE UNCHANGED tick
  BY <1>3, <1>4, <1>5 DEF Served
<1>6. CASE Crash /\ tick' = Idle
  BY <1>3, <1>6 DEF Served, Idle
<1>7. CASE TickStep
  <2>1. CASE tick'.pc \in {"idle", "next", "count", "tally"}
    BY <1>3, <2>1 DEF Served
  <2>2. ASSUME NEW t \in queue, t.proposal \in Proposals,
               rows' = [rows EXCEPT ![t.proposal] = Live[t.proposal]],
               tick'.tap = t, tick'.pc = "post", Live[t.proposal] = "pending"
        PROVE  Served'
    BY <1>3, <2>2 DEF Served, BridgeTypeOK
  <2>3. ASSUME tick'.tap = tick.tap, tick.pc \in {"post", "ok", "conflict", "missing", "none"},
               tick'.pc \in {"ok", "conflict", "missing", "none", "terminal", "park", "refuse"}
        PROVE  Served'
    BY <1>3, <1>4, <2>3 DEF Served
  <2> QED
    BY <1>7, <2>1, <2>2, <2>3, TickMoves DEF OnAnswer
<1> QED
  BY <1>5, <1>6, <1>7, OthersLeaveTick

-----------------------------------------------------------------------------
(* Prompts, the ledger and the cap. *)

\* A group that is about to be prompted is not in the ledger of the day.
LEMMA Fresh ==
  ASSUME BridgeTypeOK, Dated, Apart, Engaged
  PROVE  pass.entity \notin PromptedOn(today)
PROOF
<1>1. /\ today \in Nat /\ ledger.date \in Nat /\ pass.date \in Nat /\ pass # Idle
      /\ ledger.date <= pass.date /\ pass.date <= today
  BY PassFields DEF BridgeTypeOK, Dates, Dated, Engaged, Idle
<1>2. CASE pass.date = today
  BY <1>2 DEF Apart, Grouped, Engaged
<1>3. CASE pass.date # today
  <2>1. ledger.date # today
    BY <1>1, <1>3
  <2> QED
    BY <2>1 DEF PromptedOn
<1> QED
  BY <1>2, <1>3

LEMMA PromptsStep ==
  ASSUME BridgeTypeOK, Dated, Apart, PromptsCounted, [BridgeNext]_bridgeVars
  PROVE  PromptsCounted'
PROOF
<1>1. /\ pass' = Idle => pass'.pc = "idle"
      /\ pass \in Passes /\ (pass.pc = "idle" <=> pass = Idle)
  BY PassFields DEF BridgeTypeOK, Idle
<1>2. /\ faults.unknown \in Nat /\ faults.crash \in Nat
      /\ faults'.unknown \in Nat /\ faults'.crash \in Nat
      /\ faults.unknown <= faults'.unknown /\ faults.crash <= faults'.crash
  BY FaultsGrow
<1>3. /\ prompts \in [Chats -> [Entities -> Nat]]
      /\ \A c \in Chats, e \in Entities : prompts[c][e] \in Nat
  BY DEF BridgeTypeOK
<1>4. ASSUME NEW c \in Chats, NEW e \in Entities, prompts'[c][e] = prompts[c][e],
             faults.midnight /\ ~Ahead(e) => faults'.midnight /\ ~Ahead(e)',
             e \in PromptedOn(today) \/ Delivered(c, e) => (e \in PromptedOn(today) \/ Delivered(c, e))'
      PROVE  prompts'[c][e] <= faults'.unknown + faults'.crash
                               + If(faults'.midnight /\ ~Ahead(e)')
                               + If((e \in PromptedOn(today) \/ Delivered(c, e))')
  <2>1. prompts[c][e] <= faults.unknown + faults.crash
                         + If(faults.midnight /\ ~Ahead(e))
                         + If(e \in PromptedOn(today) \/ Delivered(c, e))
    BY DEF PromptsCounted
  <2>2. /\ If(faults.midnight /\ ~Ahead(e)) \in {0, 1}
        /\ If(faults'.midnight /\ ~Ahead(e)') \in {0, 1}
        /\ If(faults.midnight /\ ~Ahead(e)) <= If(faults'.midnight /\ ~Ahead(e)')
    BY <1>4 DEF If
  <2>3. /\ If(e \in PromptedOn(today) \/ Delivered(c, e)) \in {0, 1}
        /\ If((e \in PromptedOn(today) \/ Delivered(c, e))') \in {0, 1}
        /\ If(e \in PromptedOn(today) \/ Delivered(c, e)) <= If((e \in PromptedOn(today) \/ Delivered(c, e))')
    BY <1>4 DEF If
  <2> QED
    BY <1>2, <1>3, <1>4, <2>1, <2>2, <2>3
<1>5. ASSUME UNCHANGED <<ledger, today, prompts>>, faults'.midnight = faults.midnight,
             \A e \in Entities : Ahead(e)' => Ahead(e),
             \A c \in Chats, e \in Entities : Delivered(c, e) => Delivered(c, e)'
      PROVE  PromptsCounted'
  <2>1. ASSUME NEW c \in Chats, NEW e \in Entities
        PROVE  prompts'[c][e] <= faults'.unknown + faults'.crash
                                 + If(faults'.midnight /\ ~Ahead(e)')
                                 + If((e \in PromptedOn(today) \/ Delivered(c, e))')
    BY <1>4, <1>5 DEF PromptedOn
  <2> QED
    BY <2>1 DEF PromptsCounted
<1>6. CASE Bystander
  <2>1. /\ UNCHANGED <<pass, ledger, today, prompts>> /\ faults'.midnight = faults.midnight
    BY <1>6, BystanderMoves
  <2> QED
    BY <1>5, <2>1 DEF Ahead, Delivered, Grouped, Engaged, InSends
<1>7. CASE Midnight
  <2>1. \A c \in Chats, e \in Entities : prompts'[c][e] = 0
    BY <1>7 DEF Midnight, NoPrompts
  <2>2. \A b \in BOOLEAN : If(b) \in {0, 1}
    BY DEF If
  <2>3. ASSUME NEW c \in Chats, NEW e \in Entities
        PROVE  /\ If(faults'.midnight /\ ~Ahead(e)') \in {0, 1}
               /\ If((e \in PromptedOn(today) \/ Delivered(c, e))') \in {0, 1}
    BY DEF If
  <2>4. ASSUME NEW c \in Chats, NEW e \in Entities
        PROVE  prompts'[c][e] <= faults'.unknown + faults'.crash
                                 + If(faults'.midnight /\ ~Ahead(e)')
                                 + If((e \in PromptedOn(today) \/ Delivered(c, e))')
    BY <1>2, <2>1, <2>3
  <2> QED
    BY <2>4 DEF PromptsCounted
<1>8. CASE Crash
  <2>1. /\ faults'.crash = faults.crash + 1 /\ faults'.unknown = faults.unknown
        /\ faults'.midnight = faults.midnight
        /\ pass' = Idle /\ UNCHANGED <<ledger, today, prompts>>
    BY <1>8, SpendType DEF Crash, BridgeTypeOK
  <2>2. ASSUME NEW c \in Chats, NEW e \in Entities
        PROVE  prompts'[c][e] <= faults'.unknown + faults'.crash
                                 + If(faults'.midnight /\ ~Ahead(e)')
                                 + If((e \in PromptedOn(today) \/ Delivered(c, e))')
    <3>1. prompts[c][e] <= faults.unknown + faults.crash
                           + If(faults.midnight /\ ~Ahead(e))
                           + If(e \in PromptedOn(today) \/ Delivered(c, e))
      BY DEF PromptsCounted
    <3>2. /\ If(faults.midnight /\ ~Ahead(e)) \in {0, 1}
          /\ If(faults'.midnight /\ ~Ahead(e)') \in {0, 1}
          /\ If(faults.midnight /\ ~Ahead(e)) <= If(faults'.midnight /\ ~Ahead(e)')
      BY <2>1 DEF If, Ahead
    <3>3. /\ If(e \in PromptedOn(today) \/ Delivered(c, e)) \in {0, 1}
          /\ If((e \in PromptedOn(today) \/ Delivered(c, e))') \in {0, 1}
      BY DEF If
    <3> QED
      BY <1>2, <1>3, <2>1, <3>1, <3>2, <3>3
  <2> QED
    BY <2>2 DEF PromptsCounted
<1>9. CASE PollStart \/ ListFails \/ ListRead
  <2>1. UNCHANGED <<ledger, today, prompts>> /\ faults'.midnight = faults.midnight
    BY <1>9, SpendType DEF PollStart, ListFails, ListRead, PassOnly, BridgeTypeOK
  <2>2. \A c \in Chats, e \in Entities : ~Delivered(c, e)
    BY <1>1, <1>9 DEF PollStart, ListFails, ListRead, Delivered, InSends
  <2>3. \A e \in Entities : Ahead(e)' => Ahead(e)
    BY <1>1, <1>9, <2>1 DEF PollStart, ListFails, ListRead, Ahead, Grouped, Engaged
  <2> QED
    BY <1>5, <2>1, <2>2, <2>3
<1>10. CASE Listed
  <2>1. UNCHANGED <<ledger, today, prompts, faults>> /\ pass.pc = "listed"
    BY <1>10 DEF Listed, PassOnly
  <2>2. \A e \in Entities : Ahead(e)' => Ahead(e)
    BY <1>1, <1>10, <2>1, ListedFields DEF Ahead, Grouped, Engaged
  <2> QED
    BY <1>5, <2>1, <2>2 DEF Delivered, InSends
<1>11. CASE Group
  <2>1. UNCHANGED <<ledger, today, prompts, faults>> /\ pass.pc = "group"
    BY <1>11 DEF Group, PassOnly
  <2>2. \A e \in Entities : Ahead(e)' => Ahead(e)
    BY <1>1, <1>11, <2>1, GroupFields DEF Ahead, Grouped, Engaged
  <2> QED
    BY <1>5, <2>1, <2>2 DEF Delivered, InSends
<1>12. CASE Store
  <2>1. UNCHANGED <<ledger, today, prompts, faults>> /\ pass.pc = "store"
    BY <1>12 DEF Store, PassOnly
  <2>2. \A e \in Entities : Ahead(e)' => Ahead(e)
    BY <1>1, <1>12, <2>1, StoreFields DEF Ahead, Grouped, Engaged
  <2> QED
    BY <1>5, <2>1, <2>2 DEF Delivered, InSends
<1>13. ASSUME NEW c \in Chats, Send(c) PROVE PromptsCounted'
  <2>1. /\ pass.pc = "send" /\ pass'.pc = "sent" /\ c \in pass.chats
        /\ pass'.chats = pass.chats \ {c} /\ pass.delivered \in Nat
        /\ pass'.entity = pass.entity /\ pass'.date = pass.date /\ pass'.left = pass.left
        /\ pass.entity \in Entities /\ UNCHANGED <<ledger, today>> /\ pass # Idle /\ pass' # Idle
    BY <1>1, <1>13, SendFields, PassFields DEF Send, PassOnly
  <2>2. \A e \in Entities : Ahead(e)' <=> Ahead(e)
    BY <2>1 DEF Ahead, Grouped, Engaged
  <2>3. CASE pass'.delivered = pass.delivered /\ Spend("fail", MaxFails) /\ UNCHANGED <<shown, prompts>>
    <3>1. faults'.midnight = faults.midnight
      BY <2>3, SpendType DEF BridgeTypeOK
    <3>2. \A b \in Chats, e \in Entities : Delivered(b, e) => Delivered(b, e)'
      BY <2>1, <2>3 DEF Delivered, InSends
    <3> QED
      BY <1>5, <2>1, <2>2, <2>3, <3>1, <3>2
  <2>4. CASE pass'.delivered = pass.delivered + 1 /\ Appear(c) /\ UNCHANGED faults
    <3>1. \A b \in Chats, e \in Entities : Delivered(b, e) => Delivered(b, e)'
      BY <2>1, <2>4 DEF Delivered, InSends
    <3>2. \A e \in Entities : e = pass.entity => ~Delivered(c, e) /\ Delivered(c, e)'
      BY <2>1, <2>4 DEF Delivered, InSends
    <3>3. pass.entity \notin PromptedOn(today)
      BY <2>1, Fresh DEF Engaged
    <3>4. ASSUME NEW b \in Chats, NEW e \in Entities
          PROVE  prompts'[b][e] <= faults'.unknown + faults'.crash
                                   + If(faults'.midnight /\ ~Ahead(e)')
                                   + If((e \in PromptedOn(today) \/ Delivered(b, e))')
      <4>1. CASE b = c /\ e = pass.entity
        <5>1. prompts'[b][e] = prompts[b][e] + 1
          BY <1>3, <2>1, <2>4, <4>1 DEF Appear
        <5>2. prompts[b][e] <= faults.unknown + faults.crash
                               + If(faults.midnight /\ ~Ahead(e))
                               + If(e \in PromptedOn(today) \/ Delivered(b, e))
          BY DEF PromptsCounted
        <5>3. /\ If(faults.midnight /\ ~Ahead(e)) \in {0, 1}
              /\ If(faults'.midnight /\ ~Ahead(e)') = If(faults.midnight /\ ~Ahead(e))
          BY <2>2, <2>4 DEF If
        <5>4. /\ If(e \in PromptedOn(today) \/ Delivered(b, e)) = 0
              /\ If((e \in PromptedOn(today) \/ Delivered(b, e))') = 1
          BY <3>2, <3>3, <4>1 DEF If
        <5> QED
          BY <1>2, <1>3, <2>4, <5>1, <5>2, <5>3, <5>4
      <4>2. CASE ~(b = c /\ e = pass.entity)
        <5>1. prompts'[b][e] = prompts[b][e]
          BY <1>3, <2>4, <4>2 DEF Appear
        <5>2. e \in PromptedOn(today) \/ Delivered(b, e) => (e \in PromptedOn(today) \/ Delivered(b, e))'
          BY <2>1, <3>1 DEF PromptedOn
        <5>3. faults.midnight /\ ~Ahead(e) => faults'.midnight /\ ~Ahead(e)'
          BY <2>2, <2>4
        <5> QED
          BY <1>4, <5>1, <5>2, <5>3
      <4> QED
        BY <4>1, <4>2
    <3> QED
      BY <3>4 DEF PromptsCounted
  <2>5. CASE pass'.delivered = pass.delivered /\ Spend("unknown", MaxUnknown) /\ Appear(c)
    <3>1. /\ faults'.unknown = faults.unknown + 1 /\ faults'.crash = faults.crash
          /\ faults'.midnight = faults.midnight
      BY <2>5, SpendType DEF BridgeTypeOK
    <3>2. \A b \in Chats, e \in Entities : Delivered(b, e) => Delivered(b, e)'
      BY <2>1, <2>5 DEF Delivered, InSends
    <3>3. ASSUME NEW b \in Chats, NEW e \in Entities
          PROVE  prompts'[b][e] <= faults'.unknown + faults'.crash
                                   + If(faults'.midnight /\ ~Ahead(e)')
                                   + If((e \in PromptedOn(today) \/ Delivered(b, e))')
      <4>1. prompts'[b][e] \in {prompts[b][e], prompts[b][e] + 1}
        BY <1>3, <2>1, <2>5 DEF Appear
      <4>2. prompts[b][e] <= faults.unknown + faults.crash
                             + If(faults.midnight /\ ~Ahead(e))
                             + If(e \in PromptedOn(today) \/ Delivered(b, e))
        BY DEF PromptsCounted
      <4>3. /\ If(faults.midnight /\ ~Ahead(e)) \in {0, 1}
            /\ If(faults'.midnight /\ ~Ahead(e)') = If(faults.midnight /\ ~Ahead(e))
        BY <2>2, <3>1 DEF If
      <4>4. /\ If(e \in PromptedOn(today) \/ Delivered(b, e)) \in {0, 1}
            /\ If((e \in PromptedOn(today) \/ Delivered(b, e))') \in {0, 1}
            /\ If(e \in PromptedOn(today) \/ Delivered(b, e)) <= If((e \in PromptedOn(today) \/ Delivered(b, e))')
        BY <2>1, <3>2 DEF If, PromptedOn
      <4> QED
        BY <1>2, <1>3, <3>1, <4>1, <4>2, <4>3, <4>4
    <3> QED
      BY <3>3 DEF PromptsCounted
  <2> QED
    BY <1>13, <2>3, <2>4, <2>5, SendFields
<1>14. CASE SendReturns
  <2>1. UNCHANGED <<ledger, today, prompts, faults>> /\ pass.pc = "sent" /\ pass # Idle
    BY <1>1, <1>14 DEF SendReturns, PassOnly
  <2>2. \A e \in Entities : Ahead(e)' => Ahead(e)
    BY <1>14, <2>1, SendReturnsFields DEF Ahead, Grouped, Engaged
  <2>3. \A b \in Chats, e \in Entities : Delivered(b, e) => Delivered(b, e)'
    BY <1>14, <2>1, SendReturnsFields DEF Delivered, InSends
  <2> QED
    BY <1>5, <2>1, <2>2, <2>3
<1>15. CASE ReserveSlot
  <2>1. UNCHANGED <<ledger, today, prompts, faults>> /\ pass.pc = "reserve" /\ pass # Idle
    BY <1>1, <1>15 DEF ReserveSlot, PassOnly
  <2>2. \A e \in Entities : Ahead(e)' => Ahead(e)
    BY <1>15, <2>1, ReserveFields DEF Ahead, Grouped, Engaged
  <2>3. \A b \in Chats, e \in Entities : Delivered(b, e) => Delivered(b, e)'
    BY <1>15, <2>1, ReserveFields DEF Delivered, InSends
  <2> QED
    BY <1>5, <2>1, <2>2, <2>3
<1>16. CASE WriteLedger
  <2>1. /\ UNCHANGED <<today, prompts, faults>> /\ pass # Idle
        /\ pass.pc = "ledger" /\ pass'.pc = "group"
        /\ pass'.date = pass.date /\ pass'.left = pass.left
        /\ ledger' = [date |-> pass.date, entities |-> pass.known \cup {pass.entity}]
    BY <1>1, <1>16, WriteFields DEF WriteLedger, PassOnly
  <2>2. \A e \in Entities : Ahead(e)' => Ahead(e)
    BY <2>1 DEF Ahead, Grouped, Engaged
  <2>3. CASE pass.date = today
    <3>1. PromptedOn(today)' = pass.known \cup {pass.entity} /\ PromptedOn(today) \subseteq pass.known
      BY <2>1, <2>3 DEF PromptedOn, Apart, Grouped
    <3>2. ASSUME NEW b \in Chats, NEW e \in Entities
          PROVE  e \in PromptedOn(today) \/ Delivered(b, e) => (e \in PromptedOn(today) \/ Delivered(b, e))'
      BY <3>1 DEF Delivered
    <3> QED
      BY <1>4, <2>1, <2>2, <3>2 DEF PromptsCounted
  <2>4. CASE pass.date # today
    <3>1. faults.midnight
      BY <2>1, <2>4 DEF Dated
    <3>2. ledger.date # today
      <4>1. ledger.date \in Nat /\ pass.date \in Nat /\ today \in Nat
        BY <1>1, <2>1, PassFields DEF BridgeTypeOK, Dates
      <4> QED
        BY <2>1, <2>4, <4>1 DEF Dated
    <3>3. PromptedOn(today) = {} /\ PromptedOn(today)' = {}
      BY <2>1, <2>4, <3>2 DEF PromptedOn
    <3>4. \A e \in Entities : e = pass.entity => ~Ahead(e)' /\ Ahead(e)
      BY <2>1, <2>4 DEF Ahead, Grouped, Engaged, Apart
    <3>5. ASSUME NEW b \in Chats, NEW e \in Entities
          PROVE  prompts'[b][e] <= faults'.unknown + faults'.crash
                                   + If(faults'.midnight /\ ~Ahead(e)')
                                   + If((e \in PromptedOn(today) \/ Delivered(b, e))')
      <4>1. CASE e = pass.entity
        <5>1. prompts[b][e] <= faults.unknown + faults.crash
                               + If(faults.midnight /\ ~Ahead(e))
                               + If(e \in PromptedOn(today) \/ Delivered(b, e))
          BY DEF PromptsCounted
        <5>2. If(faults.midnight /\ ~Ahead(e)) = 0 /\ If(faults'.midnight /\ ~Ahead(e)') = 1
          BY <2>1, <3>1, <3>4, <4>1 DEF If
        <5>3. /\ If(e \in PromptedOn(today) \/ Delivered(b, e)) \in {0, 1}
              /\ If((e \in PromptedOn(today) \/ Delivered(b, e))') \in {0, 1}
          BY DEF If
        <5> QED
          BY <1>2, <1>3, <2>1, <5>1, <5>2, <5>3
      <4>2. CASE e # pass.entity
        BY <1>4, <2>1, <2>2, <3>3, <4>2 DEF Delivered
      <4> QED
        BY <4>1, <4>2
    <3> QED
      BY <3>5 DEF PromptsCounted
  <2> QED
    BY <2>3, <2>4
<1> QED
  BY <1>6, <1>7, <1>8, <1>9, <1>10, <1>11, <1>12, <1>13, <1>14, <1>15, <1>16 DEF BridgeNext, PassStep, Bystander

LEMMA WithoutOne ==
  ASSUME NEW S, IsFiniteSet(S), NEW x
  PROVE  /\ IsFiniteSet(S \ {x})
         /\ Cardinality(S) \in Nat /\ Cardinality(S \ {x}) \in Nat
         /\ Cardinality(S \ {x}) <= Cardinality(S) /\ Cardinality(S) <= Cardinality(S \ {x}) + 1
         /\ x \notin S => Cardinality(S \ {x}) = Cardinality(S)
PROOF
<1>1. /\ IsFiniteSet(S \ {x})
      /\ Cardinality(S \ {x}) = IF x \in S THEN Cardinality(S) - 1 ELSE Cardinality(S)
  BY FS_RemoveElement
<1>2. Cardinality(S) \in Nat /\ Cardinality(S \ {x}) \in Nat
  BY <1>1, FS_CardinalityType
<1> QED
  BY <1>1, <1>2

\* What CapCounted says of a day on which nothing was lost.
Budget ==
  /\ IsFiniteSet(Prompted)
  /\ pass.pc \in {"store", "send", "sent", "reserve"} =>
       slots + Cardinality(Prompted \ {pass.entity}) <= UsedOn(today)
  /\ pass.pc \notin {"store", "send", "sent", "reserve"} =>
       \/ slots + Cardinality(Prompted) <= UsedOn(today)
       \/ UsedOn(today) = DailyCap /\ slots + Cardinality(Prompted) <= DailyCap + 1

LEMMA CapStep ==
  ASSUME BridgeTypeOK, Dated, Apart, PromptsCounted, CapCounted, [BridgeNext]_bridgeVars
  PROVE  CapCounted'
PROOF
<1> SUFFICES ASSUME ~faults'.midnight, faults'.unknown + faults'.crash = 0 PROVE Budget'
  BY DEF CapCounted, Budget
<1>1. /\ pass \in Passes /\ (pass.pc = "idle" <=> pass = Idle)
      /\ pass' = Idle => pass'.pc = "idle"
  BY PassFields DEF BridgeTypeOK, Idle
<1>2. faults.unknown = 0 /\ faults.crash = 0 /\ faults'.unknown = 0 /\ faults'.crash = 0
  <2>1. /\ faults.unknown \in Nat /\ faults'.unknown \in Nat /\ faults.unknown <= faults'.unknown
        /\ faults.crash \in Nat /\ faults'.crash \in Nat /\ faults.crash <= faults'.crash
    BY FaultsGrow
  <2> QED
    BY <2>1
<1>3. /\ slots \in Nat /\ today \in Dates /\ DailyCap \in Nat
      /\ UsedOn(today) \in 0..DailyCap
  BY ReserveType, BridgeAssumption DEF BridgeTypeOK, BridgeAssumption
<1>4. CASE Midnight
  <2>1. prompts' = NoPrompts /\ slots' = 0 /\ today' \in Dates /\ UNCHANGED <<pass, cap>>
    BY <1>4, TypeStep DEF Midnight, BridgeTypeOK
  <2>2. Prompted' = {}
    BY <2>1 DEF Prompted, NoPrompts
  <2>3. pass.pc = "idle"
    BY <1>1, <1>4 DEF Midnight, BridgeTypeOK, Counted
  <2>4. UsedOn(today)' \in 0..DailyCap
    BY <1>3, <2>1 DEF UsedOn, BridgeTypeOK
  <2> QED
    BY <1>3, <2>1, <2>2, <2>3, <2>4, FS_EmptySet DEF Budget
<1>5. ~Crash
  BY <1>2, SpendType DEF Crash, BridgeTypeOK
<1>6. ASSUME ~Midnight
      PROVE  /\ ~faults.midnight /\ Budget
             /\ pass # Idle => pass.date = today
  <2>1. faults'.midnight = faults.midnight
    <3>1. CASE PollStart \/ ListFails \/ PassStep
      BY <3>1, SpendType DEF PassStep, PollStart, ListFails, ListRead, Listed, Group, Store, Send, SendReturns,
         ReserveSlot, WriteLedger, BridgeTypeOK
    <3> QED
      BY <1>5, <1>6, <3>1, BystanderMoves DEF BridgeNext, Bystander
  <2> QED
    BY <1>2, <2>1 DEF CapCounted, Budget, Dated
<1>7. CASE Bystander
  <2>1. /\ UNCHANGED <<pass, today, prompts>>
        /\ ToolCard \/ UNCHANGED <<cap, slots>>
        /\ faults'.midnight = faults.midnight
    BY <1>7, BystanderMoves
  <2>2. Budget
    BY <1>2, <2>1 DEF CapCounted, Budget
  <2>3. CASE UNCHANGED <<cap, slots>>
    BY <2>1, <2>2, <2>3 DEF Budget, Prompted, UsedOn
  <2>4. CASE ToolCard
    <3>1. UsedOn(today) < DailyCap /\ cap' = [date |-> today, count |-> UsedOn(today) + 1] /\ slots' = slots + 1
      BY <1>3, <2>4, ReserveType DEF ToolCard
    <3>2. UsedOn(today)' = UsedOn(today) + 1
      BY <2>1, <3>1 DEF UsedOn
    <3>3. Prompted' = Prompted /\ pass'.pc = pass.pc /\ pass'.entity = pass.entity
      BY <2>1 DEF Prompted
    <3>4. /\ Cardinality(Prompted) \in Nat
          /\ Cardinality(Prompted \ {pass.entity}) \in Nat
      BY <2>2, WithoutOne DEF Budget
    <3>5. CASE pass.pc \in {"store", "send", "sent", "reserve"}
      BY <1>3, <2>2, <3>1, <3>2, <3>3, <3>4, <3>5 DEF Budget
    <3>6. CASE pass.pc \notin {"store", "send", "sent", "reserve"}
      BY <1>3, <2>2, <3>1, <3>2, <3>3, <3>4, <3>6 DEF Budget
    <3> QED
      BY <3>5, <3>6
  <2> QED
    BY <2>1, <2>3, <2>4
<1>8. ASSUME ~Midnight, UNCHANGED <<cap, today, prompts, slots>>,
             pass.pc \notin {"store", "send", "sent", "reserve"},
             pass'.pc \notin {"store", "send", "sent", "reserve"}
      PROVE  Budget'
  BY <1>6, <1>8 DEF Budget, Prompted, UsedOn
<1>9. ASSUME ~Midnight, UNCHANGED <<cap, today, slots>>,
             pass.pc \in {"store", "send", "sent", "reserve"}, pass'.entity = pass.entity,
             pass'.pc \in {"store", "send", "sent", "reserve"},
             IsFiniteSet(Prompted'),
             Prompted' \ {pass.entity} = Prompted \ {pass.entity}
      PROVE  Budget'
  BY <1>6, <1>9 DEF Budget, UsedOn
<1>10. CASE PollStart \/ ListFails \/ ListRead \/ Listed
  <2>1. pass.pc \in {"idle", "list", "listed"} /\ pass'.pc \in {"idle", "list", "listed", "group"} /\ ~Midnight
        /\ UNCHANGED <<cap, today, prompts, slots>>
    BY <1>1, <1>10, ListedFields DEF PollStart, ListFails, ListRead, Listed, PassOnly, Midnight, BridgeTypeOK, Idle
  <2> QED
    BY <1>8, <2>1
<1>11. CASE Group
  <2>1. pass.pc = "group" /\ pass # Idle /\ UNCHANGED <<cap, today, prompts, slots>>
    BY <1>1, <1>11 DEF Group, PassOnly
  <2>2. ~Midnight
    BY <1>3, <2>1 DEF Midnight, Dates
  <2>3. CASE pass' = Idle
    BY <1>1, <1>8, <2>1, <2>2, <2>3
  <2>4. ASSUME pass' # Idle PROVE Budget'
    <3>1. pass'.pc = "store" /\ UsedOn(today) < DailyCap
      BY <1>6, <1>11, <2>1, <2>2, <2>4, GroupFields
    <3>2. IsFiniteSet(Prompted) /\ slots + Cardinality(Prompted) <= UsedOn(today)
      BY <1>3, <1>6, <2>1, <2>2, <3>1 DEF Budget
    <3>3. /\ Cardinality(Prompted \ {pass'.entity}) \in Nat /\ Cardinality(Prompted) \in Nat
          /\ Cardinality(Prompted \ {pass'.entity}) <= Cardinality(Prompted)
      BY <3>2, WithoutOne
    <3>4. slots + Cardinality(Prompted \ {pass'.entity}) <= UsedOn(today)
      BY <1>3, <3>2, <3>3
    <3>5. Prompted' = Prompted /\ UsedOn(today)' = UsedOn(today)
      BY <2>1 DEF Prompted, UsedOn
    <3> QED
      BY <2>1, <3>1, <3>2, <3>4, <3>5 DEF Budget
  <2> QED
    BY <2>3, <2>4
<1>12. CASE Store
  <2>1. UNCHANGED <<cap, today, prompts, slots>> /\ Prompted' = Prompted
    BY <1>12 DEF Store, PassOnly, Prompted
  <2>2. ~Midnight
    BY <1>3, <2>1 DEF Midnight, Dates
  <2> QED
    BY <1>6, <1>9, <1>12, <2>1, <2>2, StoreFields DEF Budget
<1>13. ASSUME NEW c \in Chats, Send(c) PROVE Budget'
  <2>1. /\ pass.pc = "send" /\ pass'.pc = "sent" /\ pass'.entity = pass.entity
        /\ UNCHANGED <<cap, today, slots>> /\ pass.entity \in Entities
        /\ Appear(c) \/ UNCHANGED prompts
    BY <1>1, <1>13, SendFields, PassFields DEF Send, PassOnly
  <2>2. ~Midnight
    BY <1>3, <2>1 DEF Midnight, Dates
  <2>3. \A e \in Entities : e # pass.entity => (e \in Prompted' <=> e \in Prompted)
    <3>1. \A b \in Chats, e \in Entities : e # pass.entity => prompts'[b][e] = prompts[b][e]
      BY <2>1 DEF Appear, BridgeTypeOK
    <3> QED
      BY <3>1 DEF Prompted
  <2>4. Prompted' \ {pass.entity} = Prompted \ {pass.entity} /\ Prompted' \subseteq Prompted \cup {pass.entity}
    BY <2>3 DEF Prompted
  <2>5. IsFiniteSet(Prompted \cup {pass.entity})
    BY <1>6, <2>2, FS_AddElement DEF Budget
  <2>6. IsFiniteSet(Prompted')
    BY <2>4, <2>5, FS_Subset
  <2> QED
    BY <1>9, <2>1, <2>2, <2>4, <2>6
<1>14. CASE SendReturns
  <2>1. UNCHANGED <<cap, today, prompts, slots>> /\ Prompted' = Prompted /\ pass.pc = "sent"
    BY <1>14 DEF SendReturns, PassOnly, Prompted
  <2>2. ~Midnight
    BY <1>3, <2>1 DEF Midnight, Dates
  <2>3. CASE pass'.pc \in {"send", "reserve"} /\ pass'.entity = pass.entity
    BY <1>6, <1>9, <2>1, <2>2, <2>3 DEF Budget
  <2>4. CASE pass'.pc = "group" /\ pass.delivered = 0
    <3>1. pass.entity \notin PromptedOn(today) /\ pass.entity \in Entities
      BY <1>1, <2>1, Fresh, PassFields DEF Engaged
    <3>2. ASSUME NEW b \in Chats PROVE prompts[b][pass.entity] = 0
      <4>1. /\ If(faults.midnight /\ ~Ahead(pass.entity)) = 0
            /\ If(pass.entity \in PromptedOn(today) \/ Delivered(b, pass.entity)) = 0
        BY <1>6, <2>2, <2>4, <3>1 DEF If, Delivered
      <4>2. prompts[b][pass.entity] <= faults.unknown + faults.crash
              + If(faults.midnight /\ ~Ahead(pass.entity))
              + If(pass.entity \in PromptedOn(today) \/ Delivered(b, pass.entity))
        BY <3>1 DEF PromptsCounted
      <4>3. prompts[b][pass.entity] \in Nat
        BY <3>1 DEF BridgeTypeOK
      <4> QED
        BY <1>2, <4>1, <4>2, <4>3
    <3>3. pass.entity \notin Prompted
      BY <3>2 DEF Prompted
    <3>4. IsFiniteSet(Prompted) /\ slots + Cardinality(Prompted) <= UsedOn(today)
      BY <1>6, <2>1, <2>2, <3>3, WithoutOne DEF Budget
    <3>5. UsedOn(today)' = UsedOn(today)
      BY <2>1 DEF UsedOn
    <3> QED
      BY <2>1, <2>4, <3>4, <3>5 DEF Budget
  <2> QED
    BY <1>14, <2>3, <2>4, SendReturnsFields
<1>15. CASE ReserveSlot
  <2>1. /\ UNCHANGED <<today, prompts, slots>> /\ Prompted' = Prompted
        /\ pass.pc = "reserve" /\ pass'.pc = "ledger" /\ pass # Idle
        /\ cap' = Reserve(pass.date)
    BY <1>1, <1>15, ReserveFields DEF ReserveSlot, PassOnly, Prompted
  <2>2. ~Midnight
    BY <1>3, <2>1 DEF Midnight, Dates
  <2>3. /\ IsFiniteSet(Prompted) /\ slots + Cardinality(Prompted \ {pass.entity}) <= UsedOn(today)
        /\ pass.date = today
    BY <1>6, <2>1, <2>2 DEF Budget
  <2>4. /\ Cardinality(Prompted) \in Nat /\ Cardinality(Prompted \ {pass.entity}) \in Nat
        /\ Cardinality(Prompted) <= Cardinality(Prompted \ {pass.entity}) + 1
    BY <2>3, WithoutOne
  <2>5. CASE UsedOn(today) < DailyCap
    <3>1. cap' = [date |-> today, count |-> UsedOn(today) + 1]
      BY <1>3, <2>1, <2>3, <2>5, ReserveType
    <3>2. UsedOn(today)' = UsedOn(today) + 1
      BY <2>1, <3>1 DEF UsedOn
    <3>3. slots + Cardinality(Prompted) <= UsedOn(today) + 1
      BY <1>3, <2>3, <2>4
    <3> QED
      BY <2>1, <2>3, <3>2, <3>3 DEF Budget
  <2>6. CASE UsedOn(today) >= DailyCap
    <3>1. UsedOn(today)' = UsedOn(today) /\ UsedOn(today) = DailyCap
      BY <1>3, <2>1, <2>3, <2>6, ReserveType DEF UsedOn
    <3>2. slots + Cardinality(Prompted) <= DailyCap + 1
      BY <1>3, <2>3, <2>4, <3>1
    <3> QED
      BY <2>1, <2>3, <3>1, <3>2 DEF Budget
  <2> QED
    BY <1>3, <2>5, <2>6
<1>16. CASE WriteLedger
  <2>1. pass.pc = "ledger" /\ pass'.pc = "group" /\ UNCHANGED <<cap, today, prompts, slots>>
    BY <1>16, WriteFields DEF WriteLedger, PassOnly
  <2>2. ~Midnight
    BY <1>3, <2>1 DEF Midnight, Dates
  <2> QED
    BY <1>8, <2>1, <2>2
<1> QED
  BY <1>4, <1>5, <1>7, <1>10, <1>11, <1>12, <1>13, <1>14, <1>15, <1>16 DEF BridgeNext, PassStep, Bystander

-----------------------------------------------------------------------------
(* The invariant and what it says. *)

BridgeInv ==
  /\ BridgeTypeOK
  /\ Dated /\ Apart /\ Known
  /\ Pressed /\ StoredFirst /\ OnScreen /\ NotYet /\ Served /\ NothingSuppressed /\ ButtonsBacked
  /\ PromptsCounted /\ CapCounted
  /\ Decided /\ ClosedIsSettled /\ StatsCounted

LEMMA InitInv == BridgeInit => BridgeInv
PROOF
<1> SUFFICES ASSUME BridgeInit PROVE BridgeInv
  OBVIOUS
<1>1. BridgeTypeOK /\ pass.pc = "idle" /\ pass = Idle /\ tick.pc = "idle" /\ queue = {} /\ today = 1
  BY InitTypes DEF BridgeInit, Idle
<1>2. Dated /\ Apart
  BY InitDated
<1>3. Known /\ ClosedIsSettled /\ NothingSuppressed
  BY <1>1 DEF BridgeInit, Known, ClosedIsSettled, NothingSuppressed, Grouped, Engaged
<1>4. ButtonsBacked /\ Pressed /\ StoredFirst /\ OnScreen /\ NotYet /\ Served
  BY <1>1 DEF BridgeInit, ButtonsBacked, Pressed, StoredFirst, OnScreen, NotYet, Unseen, Served, Grouped, InSends
<1>5. PromptsCounted
  <2>1. ASSUME NEW c \in Chats, NEW e \in Entities
        PROVE  /\ prompts[c][e] = 0 /\ faults.unknown = 0 /\ faults.crash = 0
               /\ If(faults.midnight /\ ~Ahead(e)) \in {0, 1}
               /\ If(e \in PromptedOn(today) \/ Delivered(c, e)) \in {0, 1}
    BY DEF BridgeInit, NoPrompts, If
  <2>2. ASSUME NEW c \in Chats, NEW e \in Entities
        PROVE  prompts[c][e] <= faults.unknown + faults.crash
                                + If(faults.midnight /\ ~Ahead(e))
                                + If(e \in PromptedOn(today) \/ Delivered(c, e))
    BY <2>1
  <2> QED
    BY <2>2 DEF PromptsCounted
<1>6. CapCounted
  <2>1. Prompted = {}
    BY DEF BridgeInit, NoPrompts, Prompted
  <2>2. slots = 0 /\ UsedOn(today) = 0
    BY DEF BridgeInit, UsedOn
  <2> QED
    BY <1>1, <2>1, <2>2, FS_EmptySet DEF CapCounted
<1>7. Decided
  BY <1>1 DEF Decided
<1>8. StatsCounted
  <2>1. \A d \in Decisions : Unwritten(d) = 0 /\ stats[d] = 0 /\ taken[d] = 0
    BY <1>1 DEF Unwritten, If, BridgeInit, Counters
  <2> QED
    BY <2>1 DEF StatsCounted
<1> QED
  BY <1>1, <1>2, <1>3, <1>4, <1>5, <1>6, <1>7, <1>8 DEF BridgeInv

LEMMA StepInv == BridgeInv /\ [BridgeNext]_bridgeVars => BridgeInv'
PROOF
<1> SUFFICES ASSUME BridgeInv, [BridgeNext]_bridgeVars PROVE BridgeInv'
  OBVIOUS
<1>1. BridgeTypeOK' /\ Dated' /\ Apart' /\ Known'
  BY TypeStep, DatedStep, ApartStep, KnownStep DEF BridgeInv
<1>2. /\ Pressed' /\ StoredFirst' /\ OnScreen' /\ NotYet' /\ Served'
      /\ NothingSuppressed' /\ ButtonsBacked'
  BY PressedStep, StoredFirstStep, OnScreenStep, NotYetStep, ServedStep, SuppressedStep, ButtonsStep DEF BridgeInv
<1>3. PromptsCounted' /\ CapCounted'
  BY PromptsStep, CapStep DEF BridgeInv
<1>4. Decided' /\ ClosedIsSettled' /\ StatsCounted'
  BY DecidedStep, ClosedStep, StatsStep DEF BridgeInv
<1> QED
  BY <1>1, <1>2, <1>3, <1>4 DEF BridgeInv

LEMMA BridgeInvariance == BridgeSpec => []BridgeInv
BY InitInv, StepInv, PTL DEF BridgeSpec

\* In every run the variables of the bridge have their types.
THEOREM BridgeTypes == BridgeSpec => []BridgeTypeOK
PROOF
<1>1. BridgeInv => BridgeTypeOK
  BY DEF BridgeInv
<1> QED
  BY <1>1, BridgeInvariance, PTL

\* Store-first and the roll back of runBeliefBridgePass: without a crash no row
\* keeps a proposal out of later passes that nobody was shown, and without a send
\* of unknown outcome no button is without its row.
THEOREM Backed == BridgeSpec => []RowsBacked
PROOF
<1>1. BridgeInv => RowsBacked
  BY DEF BridgeInv, RowsBacked
<1> QED
  BY <1>1, BridgeInvariance, PTL

\* One prompt per entity and day in a chat, and the daily cap up to the prompt
\* that was on its way, whatever the interleaving with midnight and the push tick.
THEOREM Accounted == BridgeSpec => []PromptsAccounted
PROOF
<1>1. ASSUME BridgeInv PROVE PromptsExplained
  <2>1. ASSUME NEW c \in Chats, NEW e \in Entities
        PROVE  prompts[c][e] <= 1 + faults.unknown + faults.crash + IF faults.midnight THEN 1 ELSE 0
    <3>1. /\ prompts[c][e] \in Nat /\ faults.unknown \in Nat /\ faults.crash \in Nat
      BY <1>1 DEF BridgeInv, BridgeTypeOK, Counted
    <3>2. prompts[c][e] <= faults.unknown + faults.crash
            + If(faults.midnight /\ ~Ahead(e)) + If(e \in PromptedOn(today) \/ Delivered(c, e))
      BY <1>1 DEF BridgeInv, PromptsCounted
    <3>3. /\ If(faults.midnight /\ ~Ahead(e)) \in {0, 1}
          /\ If(faults.midnight /\ ~Ahead(e)) <= IF faults.midnight THEN 1 ELSE 0
          /\ If(e \in PromptedOn(today) \/ Delivered(c, e)) \in {0, 1}
      BY DEF If
    <3> QED
      BY <3>1, <3>2, <3>3
  <2> QED
    BY <2>1 DEF PromptsExplained
<1>2. ASSUME BridgeInv, ~faults.midnight, faults.unknown + faults.crash = 0
      PROVE  slots + Cardinality(Prompted) <= DailyCap + 1
  <2>1. slots \in Nat /\ DailyCap \in Nat /\ UsedOn(today) \in 0..DailyCap
    BY <1>2, ReserveType, BridgeAssumption DEF BridgeInv, BridgeTypeOK, BridgeAssumption
  <2>2. /\ IsFiniteSet(Prompted)
        /\ \/ slots + Cardinality(Prompted) <= UsedOn(today)
           \/ slots + Cardinality(Prompted \ {pass.entity}) <= UsedOn(today)
           \/ slots + Cardinality(Prompted) <= DailyCap + 1
    BY <1>2 DEF BridgeInv, CapCounted
  <2>3. /\ Cardinality(Prompted) \in Nat /\ Cardinality(Prompted \ {pass.entity}) \in Nat
        /\ Cardinality(Prompted) <= Cardinality(Prompted \ {pass.entity}) + 1
    BY <2>2, WithoutOne
  <2> QED
    BY <2>1, <2>2, <2>3
<1>3. BridgeInv => PromptsAccounted
  BY <1>1, <1>2 DEF PromptsAccounted, CapKept
<1> QED
  BY <1>3, BridgeInvariance, PTL

\* The counters never claim a decision the server did not accept, and a row is
\* closed only for a proposal the server has settled.
THEOREM Honest == BridgeSpec => []RecordsTrue
PROOF
<1>1. ASSUME BridgeInv PROVE StatsHonest
  <2>1. /\ stats \in [Counters -> Nat] /\ taken \in [Decisions -> Nat]
        /\ faults.crash \in Nat /\ faults.lost \in Nat
    BY <1>1 DEF BridgeInv, BridgeTypeOK, Counted
  <2>2. \A d \in Decisions :
          /\ stats[d] + Unwritten(d) <= taken[d]
          /\ faults.crash + faults.lost = 0 => stats[d] + Unwritten(d) = taken[d]
    BY <1>1 DEF BridgeInv, StatsCounted
  <2>3. \A d \in Decisions : Unwritten(d) \in {0, 1} /\ (tick = Idle => Unwritten(d) = 0)
    BY DEF Unwritten, If, Idle
  <2>4. \A d \in Decisions : stats[d] <= taken[d]
    BY <2>1, <2>2, <2>3 DEF Counters
  <2>5. ASSUME tick = Idle, faults.crash + faults.lost = 0, NEW d \in Decisions
        PROVE  stats[d] = taken[d]
    BY <2>1, <2>2, <2>3, <2>5 DEF Counters
  <2> QED
    BY <2>4, <2>5 DEF StatsHonest
<1>2. BridgeInv => RecordsTrue
  BY <1>1 DEF BridgeInv, RecordsTrue
<1> QED
  BY <1>2, BridgeInvariance, PTL

\* A closed row stays closed until it expires, as long as no send has an unknown
\* outcome: taps that come again find it closed, and passes do not touch it.
THEOREM Closed == BridgeSpec => ClosedStays
PROOF
<1> DEFINE Kept ==
      \A p \in Proposals \ lapsed :
        faults.unknown = 0 /\ rows[p] \in {"terminal", "needs_reconciliation"} => rows'[p] = rows[p]
<1>1. ASSUME BridgeInv, [BridgeNext]_bridgeVars PROVE Kept
  <2> SUFFICES ASSUME NEW p \in Proposals \ lapsed, faults.unknown = 0,
                      rows[p] \in {"terminal", "needs_reconciliation"}
               PROVE  rows'[p] = rows[p]
    OBVIOUS
  <2>1. p \notin Unseen
    BY <1>1 DEF BridgeInv, Served, NotYet
  <2>2. ~(pass.pc = "store" /\ p \in pass.todo)
    BY <1>1, <2>1 DEF BridgeInv, Apart, Unseen
  <2>3. ~(pass.pc = "sent" /\ pass.delivered = 0 /\ p \in pass.group)
    BY <2>1 DEF Unseen
  <2>4. ~(tick.pc \in {"terminal", "park", "refuse"} /\ p = tick.tap.proposal)
    BY <1>1 DEF BridgeInv, Served
  <2> QED
    BY <1>1, <2>2, <2>3, <2>4, RowMoves DEF BridgeInv
<1>2. BridgeInv /\ [BridgeNext]_bridgeVars => [Kept]_bridgeVars
  BY <1>1
<1>3. BridgeSpec => [][Kept]_bridgeVars
  BY <1>2, BridgeInvariance, PTL DEF BridgeSpec
<1> QED
  BY <1>3 DEF ClosedStays

\* The bridge and whoever else decides play by the rules of the board that the
\* server implements.
THEOREM OnTheBoard == BridgeSpec => BoardSpec
PROOF
<1>1. BridgeInit => BoardInit
  BY DEF BridgeInit
<1>2. ASSUME BridgeInv, [BridgeNext]_bridgeVars PROVE [BoardNext]_boardVars
  <2>1. ASSUME NEW p \in Proposals, Emitted(p) PROVE BoardNext
    BY <2>1 DEF Emitted, BoardNext
  <2>2. ASSUME NEW p \in Proposals, Others(p) PROVE BoardNext
    <3>1. {p} \in SUBSET Proposals
      OBVIOUS
    <3> QED
      BY <2>2, <3>1 DEF Others, BoardNext
  <2>3. CASE Serve
    <3>1. tick.tap.proposal \in Proposals /\ tick.tap.decision \in Decisions
      BY <1>2, <2>3, TickFields DEF Serve, BridgeInv, BridgeTypeOK, Tap
    <3> QED
      BY <2>3, <3>1 DEF Serve, BoardNext
  <2>4. CASE UNCHANGED boardVars
    BY <2>4
  <2> QED
    BY <1>2, <2>1, <2>2, <2>3, <2>4
       DEF BridgeNext, PassStep, TickStep, bridgeVars, Midnight, ToolCard, Crash, PassOnly, PollStart, ListFails,
           ListRead, Listed, Group, Store, Send, SendReturns, ReserveSlot, WriteLedger, Press, Fetch, Load,
           NotServed, Answer, PutTerminal, Park, PutRefused, Put, Count, Tally, Commit, TickOnly, boardVars
<1>3. BridgeInv /\ [BridgeNext]_bridgeVars => [BoardNext]_boardVars
  BY <1>2
<1> QED
  BY <1>1, <1>3, BridgeInvariance, PTL DEF BridgeSpec, BoardSpec

=============================================================================
