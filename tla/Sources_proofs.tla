--------------------------- MODULE Sources_proofs ---------------------------
(***************************************************************************)
(* No cursor runs ahead of the log, for any mailbox, calendar and vault    *)
(* and whatever fails.  The invariant says what an adapter has in hand     *)
(* between its fetch and the commit of its cursor: all that the position   *)
(* it is about to commit stands for is in the log or in the batch.         *)
(***************************************************************************)
EXTENDS Sources, TLAPS

-----------------------------------------------------------------------------
(* The inductive invariant. *)

Fetching == {"profile", "bodies", "walk", "append", "commit"}

\* Where the process is, and what it holds there.
InHand ==
  /\ pc \in {"profile", "bodies"} => Source = "mail"
  /\ pc = "walk" => Source = "notes"
  /\ pc \in {"bodies", "walk", "append", "commit"} => next \in Nat
  /\ pc # "walk" => todo = {}
  /\ IF pc \in Fetching THEN batch \subseteq Records[Source] ELSE batch = {}

\* A note without an mtime is not there; a cursor is a position of its source.
Placed ==
  /\ \A n \in Notes : mtime[n] # 0 => text[n] \in Texts
  /\ cursor["notes"] \in Nat
  /\ cursor["cal"] \in 0..Len(feed) \cup {None}
  /\ Source = "cal" /\ pc \in {"append", "commit"} => next \in 0..Len(feed)

\* What is logged, or will be before the cursor is committed.
Pending == IF pc \in {"bodies", "walk", "append"} THEN batch ELSE {}

MailReady ==
  pc \in {"bodies", "append", "commit"} /\ Source = "mail" =>
    \A m \in 1..next : m \in log["mail"] \cup missed \cup Pending

CalendarReady ==
  pc \in {"append", "commit"} /\ Source = "cal" =>
    \A e \in Booked \ Rebooked(next) : <<e, cal[e]>> \in log["cal"] \cup Pending

NotesReady ==
  pc \in {"walk", "append", "commit"} /\ Source = "notes" =>
    \A n \in Notes \ todo :
      mtime[n] # 0 => <<n, text[n]>> \in log["notes"] \cup Pending \/ n \in unlucky

Inv ==
  /\ TypeOK /\ InHand /\ Placed /\ NothingSkipped
  /\ MailReady /\ CalendarReady /\ NotesReady

-----------------------------------------------------------------------------
(* The feed. *)

\* A change that is appended is later than every position.
LEMMA FeedGrows ==
  ASSUME feed \in Seq(Change), NEW e \in Events,
         NEW what \in {"booked", "cancelled", "instance"},
         feed' = Append(feed, [event |-> e, what |-> what]),
         NEW since \in 0..Len(feed)
  PROVE  /\ Len(feed') = Len(feed) + 1
         /\ Rebooked(since) \subseteq Rebooked(since)'
         /\ what = "booked" => e \in Rebooked(since)'
<1>1. /\ Len(feed') = Len(feed) + 1
      /\ feed'[Len(feed) + 1] = [event |-> e, what |-> what]
      /\ \A i \in 1..Len(feed) : feed'[i] = feed[i]
  OBVIOUS
<1>2. ASSUME NEW d \in Rebooked(since) PROVE d \in Rebooked(since)'
  <2>1. PICK i \in (since + 1)..Len(feed) : feed[i].what = "booked" /\ feed[i].event = d
    BY DEF Rebooked
  <2>2. i \in (since + 1)..Len(feed') /\ feed'[i] = feed[i]
    BY <1>1, <2>1
  <2> QED  BY <2>1, <2>2 DEF Rebooked
<1>3. ASSUME what = "booked" PROVE e \in Rebooked(since)'
  <2>1. Len(feed) + 1 \in (since + 1)..Len(feed')
    BY <1>1
  <2> QED  BY <1>1, <1>3, <2>1 DEF Rebooked
<1> QED  BY <1>1, <1>2, <1>3

\* Nothing is later than the end of the feed.
LEMMA FeedEnd ==
  ASSUME feed \in Seq(Change)
  PROVE  Len(feed) \in 0..Len(feed) /\ Rebooked(Len(feed)) = {}
<1>1. Len(feed) \in Nat /\ (Len(feed) + 1)..Len(feed) = {}
  OBVIOUS
<1> QED  BY <1>1 DEF Rebooked

\* What the current adapter returns, in one of the three sources.
LEMMA RecordsOf ==
  /\ Source \in Sources
  /\ Records["mail"] = 1..MaxMessages
  /\ Records["cal"] = Events \X Versions
  /\ Records["notes"] = Notes \X Texts
BY DEF Source, Sources, Records

-----------------------------------------------------------------------------
(* The world outside. *)

LEMMA MailboxSteps ==
  ASSUME ConstantsAssumption, Inv, UNCHANGED <<storeVars, procVars, faults, slipVars>>,
         Arrive \/ \E m \in 1..MaxMessages : Remove(m)
  PROVE  Inv'
<1> USE DEF Inv, storeVars, procVars, slipVars, ConstantsAssumption
<1>0. UNCHANGED <<cal, feed, expired, mtime, text>>
  BY DEF Arrive, Remove
<1>1. TypeOK'
  BY <1>0 DEF TypeOK, Arrive, Remove
<1>2. InHand' /\ Placed'
  BY <1>0 DEF InHand, Placed, Source
<1>3. NothingSkipped'
  BY <1>0 DEF NothingSkipped, MailLogged, CalendarLogged, NotesLogged, Booked, Rebooked
<1>4. MailReady' /\ CalendarReady' /\ NotesReady'
  BY <1>0 DEF MailReady, CalendarReady, NotesReady, Pending, Source, Booked, Rebooked
<1> QED  BY <1>1, <1>2, <1>3, <1>4

LEMMA CalendarChanges ==
  ASSUME ConstantsAssumption, Inv, UNCHANGED <<storeVars, procVars, faults, slipVars>>,
         NEW e \in Events,
         (\E v \in Versions : Book(e, v)) \/ Cancel(e) \/ CancelInstance(e)
  PROVE  Inv'
<1>1. PICK what \in {"booked", "cancelled", "instance"} : Happens(e, what)
  BY DEF Book, Cancel, CancelInstance
<1>2. /\ UNCHANGED <<arrived, removed, expired, mtime, text>>
      /\ feed' = Append(feed, [event |-> e, what |-> what])
  BY <1>1 DEF Happens
<1>3. feed \in Seq(Change) /\ feed' \in Seq(Change) /\ Len(feed') = Len(feed) + 1
  BY <1>2 DEF Inv, TypeOK, Change
<1>4. cal \in [Events -> Versions \cup {None}] /\ cal' \in [Events -> Versions \cup {None}]
  BY DEF Inv, TypeOK, Book, Cancel, CancelInstance
<1>5. \A since \in 0..Len(feed) :
        /\ Rebooked(since) \subseteq Rebooked(since)'
        /\ \A d \in Booked' \ Rebooked(since)' :
             d \in Booked \ Rebooked(since) /\ cal'[d] = cal[d]
  <2> TAKE since \in 0..Len(feed)
  <2>1. CASE \E v \in Versions : Book(e, v)
    <3>1. feed' = Append(feed, [event |-> e, what |-> "booked"])
      BY <2>1 DEF Book, Happens
    <3>2. Rebooked(since) \subseteq Rebooked(since)' /\ e \in Rebooked(since)'
      BY <1>3, <3>1, FeedGrows
    <3>3. \A d \in Events : d # e => cal'[d] = cal[d]
      BY <1>4, <2>1 DEF Book
    <3> QED  BY <3>2, <3>3 DEF Booked
  <2>2. CASE Cancel(e) \/ CancelInstance(e)
    <3>1. Rebooked(since) \subseteq Rebooked(since)'
      BY <1>2, <1>3, FeedGrows
    <3>2. \A d \in Booked' : d \in Booked /\ cal'[d] = cal[d]
      BY <1>4, <2>2 DEF Cancel, CancelInstance, Booked
    <3> QED  BY <3>1, <3>2
  <2> QED  BY <2>1, <2>2
<1> USE DEF Inv, storeVars, procVars, slipVars, ConstantsAssumption
<1>6. TypeOK'
  BY <1>2, <1>3, <1>4 DEF TypeOK
<1>7. InHand'
  BY DEF InHand, Source
<1>8. Placed'
  BY <1>2, <1>3 DEF Placed, Source
<1>9. NothingSkipped'
  <2>1. CalendarLogged'
    <3>1. ASSUME cursor["cal"] # None
          PROVE  cursor["cal"] \in 0..Len(feed)
      BY <3>1 DEF Placed
    <3> QED  BY <1>5, <3>1 DEF NothingSkipped, CalendarLogged
  <2> QED  BY <1>2, <2>1 DEF NothingSkipped, MailLogged, NotesLogged
<1>10. CalendarReady'
  <2>1. ASSUME pc \in {"append", "commit"}, Source = "cal"
        PROVE  next \in 0..Len(feed)
    BY <2>1 DEF Placed
  <2> QED  BY <1>5, <2>1 DEF CalendarReady, Pending, Source
<1>11. MailReady' /\ NotesReady'
  BY <1>2 DEF MailReady, NotesReady, Pending, Source
<1> QED  BY <1>6, <1>7, <1>8, <1>9, <1>10, <1>11

LEMMA TokenExpires ==
  ASSUME ConstantsAssumption, Inv, UNCHANGED <<storeVars, procVars, faults, slipVars>>, Expire
  PROVE  Inv'
<1> USE DEF Inv, storeVars, procVars, slipVars, ConstantsAssumption
<1>0. UNCHANGED <<arrived, removed, cal, feed, mtime, text>> /\ expired' = TRUE
  BY DEF Expire
<1>1. TypeOK' /\ InHand' /\ Placed'
  BY <1>0 DEF TypeOK, InHand, Placed, Source
<1>2. NothingSkipped'
  BY <1>0 DEF NothingSkipped, MailLogged, CalendarLogged, NotesLogged, Booked, Rebooked
<1>3. MailReady' /\ CalendarReady' /\ NotesReady'
  BY <1>0 DEF MailReady, CalendarReady, NotesReady, Pending, Source, Booked, Rebooked
<1> QED  BY <1>1, <1>2, <1>3

LEMMA NoteSaved ==
  ASSUME ConstantsAssumption, Inv, UNCHANGED <<storeVars, procVars, faults>>,
         NEW n \in Notes, NEW x \in Texts, NEW t \in 1..MaxTime, Save(n, x, t)
  PROVE  Inv'
<1> USE DEF Inv, storeVars, procVars, ConstantsAssumption
<1>0. UNCHANGED <<arrived, removed, cal, feed, expired, missed, lost>>
  BY DEF Save
<1>1. /\ text' = [text EXCEPT ![n] = x] /\ mtime' = [mtime EXCEPT ![n] = t]
      /\ text \in [Notes -> Texts \cup {None}] /\ mtime \in [Notes -> 0..MaxTime]
      /\ unlucky \subseteq Notes /\ unlucky' \subseteq Notes
      /\ \A m \in Notes : m # n => /\ text'[m] = text[m] /\ mtime'[m] = mtime[m]
                                   /\ m \in unlucky' <=> m \in unlucky
      /\ text'[n] = x /\ mtime'[n] = t
  BY DEF Save, TypeOK
<1>2. TypeOK'
  BY <1>0, <1>1 DEF TypeOK
<1>3. InHand' /\ Placed'
  BY <1>0, <1>1 DEF InHand, Placed, Source
<1>4. NothingSkipped'
  <2>1. NotesLogged'
    <3> SUFFICES ASSUME NEW m \in Notes, mtime'[m] \in 1..cursor["notes"]
                 PROVE  <<m, text'[m]>> \in log["notes"] \/ m \in unlucky'
      BY DEF NotesLogged
    <3>1. CASE m = n
      <4>1. t <= cursor["notes"]
        BY <1>1, <3>1 DEF Placed
      <4> QED  BY <3>1, <4>1 DEF Save
    <3>2. CASE m # n
      BY <1>1, <3>2 DEF NothingSkipped, NotesLogged
    <3> QED  BY <3>1, <3>2
  <2> QED  BY <1>0, <2>1 DEF NothingSkipped, MailLogged, CalendarLogged, Booked, Rebooked
<1>5. NotesReady'
  <2> SUFFICES ASSUME pc \in {"walk", "append", "commit"}, Source = "notes",
                      NEW m \in Notes \ todo, mtime'[m] # 0
               PROVE  <<m, text'[m]>> \in log["notes"] \cup Pending \/ m \in unlucky'
    BY DEF NotesReady, Source, Pending
  <2>1. CASE m = n
    BY <2>1 DEF Save, Behind
  <2>2. CASE m # n
    BY <1>1, <2>2 DEF NotesReady
  <2> QED  BY <2>1, <2>2
<1>6. MailReady' /\ CalendarReady'
  BY <1>0 DEF MailReady, CalendarReady, Pending, Source, Booked, Rebooked
<1> QED  BY <1>2, <1>3, <1>4, <1>5, <1>6

-----------------------------------------------------------------------------
(* The process where it holds nothing. *)

LEMMA Resting ==
  ASSUME Inv, UNCHANGED worldVars, UNCHANGED <<log, cursor, missed, unlucky>>,
         pc' \notin Fetching, batch' = {}, todo' = {}
  PROVE  InHand' /\ Placed' /\ NothingSkipped' /\ MailReady' /\ CalendarReady' /\ NotesReady'
BY DEF Inv, worldVars, Fetching, InHand, Placed, NothingSkipped, MailLogged, CalendarLogged,
       NotesLogged, MailReady, CalendarReady, NotesReady, Booked, Rebooked

\* An adapter is left, a pass ends.
LEMMA MovesOn ==
  ASSUME Inv, UNCHANGED <<worldVars, storeVars, slipVars>>, faults' \in 0..MaxFaults,
         Proceed \/ EndPass
  PROVE  Inv'
<1>1. pc' \notin Fetching /\ batch' = {} /\ pc' \in {"pull", "consolidate", "idle"}
  BY DEF Proceed, EndPass, Fetching
<1>2. enabled' \subseteq Sources /\ ahead' \subseteq enabled' /\ next' = None /\ todo' = {}
  BY DEF Inv, TypeOK, Proceed, EndPass
<1>3. TypeOK'
  BY <1>1, <1>2 DEF Inv, TypeOK, worldVars, storeVars, slipVars
<1> QED  BY <1>1, <1>2, <1>3, Resting DEF Inv, storeVars, slipVars

LEMMA PassStarts ==
  ASSUME Inv, NEW S \in SUBSET Sources, Start(S)
  PROVE  Inv'
<1>1. pc' \in {"pull", "consolidate"} /\ batch' = {} /\ todo' = {}
  BY DEF Start
<1>2. UNCHANGED <<worldVars, storeVars, faults, slipVars>>
  BY DEF Start
<1>3. TypeOK'
  BY <1>1, <1>2 DEF Inv, TypeOK, Start, worldVars, storeVars, slipVars
<1> QED  BY <1>1, <1>2, <1>3, Resting DEF Inv, Fetching, storeVars, slipVars

LEMMA PassDigests ==
  ASSUME ConstantsAssumption, Inv, Consolidate \/ Forget \/ Clear
  PROVE  Inv'
<1>1. /\ UNCHANGED worldVars /\ UNCHANGED <<log, cursor, missed, unlucky>>
      /\ pc \in {"consolidate", "forget", "clear"}
  BY DEF Consolidate, Forget, Clear, slipVars
<1>2. pc' \in {"forget", "clear", "idle"} /\ batch' = {} /\ todo' = {}
  BY <1>1 DEF Consolidate, Forget, Clear, Goto, EndPass, Inv, InHand, Fetching
<1>3. /\ enabled' \subseteq Sources /\ ahead' \subseteq enabled'
      /\ next' \in Nat \cup {None} /\ todo' \subseteq Notes
  BY DEF Consolidate, Forget, Clear, Goto, EndPass, Inv, TypeOK
<1>4. queue' \subseteq Events \X Versions /\ due' \in [Events -> Versions \cup {None}]
  BY DEF Consolidate, Forget, Clear, Inv, TypeOK
<1>5. channel' \subseteq Events /\ lost' \subseteq Events
  BY DEF Consolidate, Forget, Clear, Inv, TypeOK, slipVars
<1>6. faults' \in 0..MaxFaults
  <2>1. CASE Consolidate
    <3>1. PICK failed \in SUBSET queue :
            /\ failed # {} => faults < MaxFaults
            /\ faults' = IF failed = {} THEN faults ELSE faults + 1
      BY <2>1 DEF Consolidate
    <3>2. faults \in 0..MaxFaults /\ MaxFaults \in Nat
      BY DEF Inv, TypeOK, ConstantsAssumption
    <3> QED  BY <3>1, <3>2
  <2>2. CASE Forget \/ Clear
    BY <2>2 DEF Forget, Clear, Inv, TypeOK
  <2> QED  BY <2>1, <2>2
<1>7. TypeOK'
  BY <1>1, <1>2, <1>3, <1>4, <1>5, <1>6 DEF Inv, TypeOK, worldVars
<1>8. pc' \notin Fetching
  BY <1>2 DEF Fetching
<1> QED  BY <1>1, <1>2, <1>7, <1>8, Resting DEF Inv

-----------------------------------------------------------------------------
(* The mailbox. *)

LEMMA MailSteps ==
  ASSUME ConstantsAssumption, Inv, ListMessages \/ GetPosition \/ GetBodies
  PROVE  Inv'
<1> USE DEF Inv
<1>0. /\ UNCHANGED <<worldVars, storeVars, faults>> /\ Source = "mail"
      /\ lost' = lost /\ unlucky' = unlucky
  BY DEF ListMessages, GetPosition, GetBodies, InHand, Fetched, AdapterFails, Proceed,
         storeVars, slipVars
<1>1. /\ arrived \in Nat /\ 1..arrived \subseteq 1..MaxMessages
      /\ cursor["mail"] # None => cursor["mail"] \in Nat
      /\ log["mail"] \subseteq 1..MaxMessages
  BY RecordsOf DEF TypeOK, ConstantsAssumption, Sources
<1>2. CASE ListMessages
  <2>1. /\ UNCHANGED <<enabled, ahead, todo, missed>> /\ Source' = "mail"
        /\ batch' \subseteq 1..arrived /\ next' \in Nat \cup {None}
        /\ pc' = "profile" \/ (pc' = "bodies" /\ next' = arrived)
    BY <1>0, <1>1, <1>2 DEF ListMessages, Unlisted, Source, slipVars, TypeOK
  <2>2. pc' = "bodies" =>
          \A m \in 1..next' : m \in log["mail"] \cup missed \cup batch'
    <3> SUFFICES ASSUME pc' = "bodies", NEW m \in 1..arrived, m \notin batch'
                 PROVE  m \in log["mail"] \cup missed
      BY <2>1
    <3>1. cursor["mail"] # None /\ batch' = (cursor["mail"] + 1)..arrived
      BY <1>2, <2>1 DEF ListMessages, Unlisted
    <3>2. m \in 1..cursor["mail"]
      BY <1>1, <3>1
    <3> QED  BY <3>1, <3>2 DEF NothingSkipped, MailLogged
  <2>3. TypeOK'
    BY <1>0, <2>1 DEF TypeOK, worldVars, storeVars
  <2>4. InHand' /\ Placed'
    BY <1>0, <1>1, <2>1, RecordsOf DEF InHand, Placed, Fetching, worldVars, storeVars
  <2>5. NothingSkipped'
    BY <1>0, <2>1 DEF NothingSkipped, MailLogged, CalendarLogged, NotesLogged, Booked,
                      Rebooked, worldVars, storeVars
  <2>6. MailReady' /\ CalendarReady' /\ NotesReady'
    BY <1>0, <2>1, <2>2 DEF MailReady, CalendarReady, NotesReady, Pending, storeVars
  <2> QED  BY <2>3, <2>4, <2>5, <2>6
<1>3. CASE GetPosition
  <2>1. /\ UNCHANGED <<enabled, ahead, batch, todo>> /\ Source' = "mail"
        /\ next' = arrived /\ pc' = "bodies" /\ pc = "profile"
        /\ missed' = missed \cup (Unlisted \ batch)
        /\ batch \subseteq 1..MaxMessages
    BY <1>0, <1>3, RecordsOf DEF GetPosition, Source, InHand, Fetching
  <2>2. Unlisted \subseteq 1..arrived
    BY <1>1 DEF Unlisted
  <2>3. \A m \in 1..arrived : m \in Unlisted \/ m \in log["mail"] \cup missed
    BY <1>1 DEF Unlisted, NothingSkipped, MailLogged
  <2>4. TypeOK'
    BY <1>0, <1>1, <2>1, <2>2 DEF TypeOK, worldVars, storeVars
  <2>5. InHand' /\ Placed'
    BY <1>0, <1>1, <2>1, RecordsOf DEF InHand, Placed, Fetching, worldVars, storeVars
  <2>6. NothingSkipped'
    BY <1>0, <2>1 DEF NothingSkipped, MailLogged, CalendarLogged, NotesLogged, Booked,
                      Rebooked, worldVars, storeVars
  <2>7. MailReady' /\ CalendarReady' /\ NotesReady'
    BY <1>0, <2>1, <2>3 DEF MailReady, CalendarReady, NotesReady, Pending, storeVars
  <2> QED  BY <2>4, <2>5, <2>6, <2>7
<1>4. CASE GetBodies
  <2>1. CASE batch \cap removed # {}
    <3>1. Proceed /\ UNCHANGED <<worldVars, storeVars, slipVars>> /\ faults' = faults
      BY <1>4, <2>1 DEF GetBodies, AdapterFails, storeVars
    <3>2. faults' \in 0..MaxFaults
      BY <3>1 DEF TypeOK
    <3> QED  BY <3>1, <3>2, MovesOn
  <2>2. CASE batch \cap removed = {}
    <3>1. /\ pc = "bodies" /\ pc' = "append" /\ batch' = batch /\ next' = next
          /\ UNCHANGED <<enabled, ahead, todo, slipVars>> /\ Source' = "mail"
      BY <1>0, <1>4, <2>2 DEF GetBodies, Fetched, Source
    <3>2. TypeOK'
      BY <1>0, <3>1 DEF TypeOK, worldVars, storeVars, slipVars
    <3>3. InHand' /\ Placed'
      BY <1>0, <3>1, RecordsOf DEF InHand, Placed, Fetching, worldVars, storeVars
    <3>4. NothingSkipped'
      BY <1>0, <3>1 DEF NothingSkipped, MailLogged, CalendarLogged, NotesLogged, Booked,
                        Rebooked, worldVars, storeVars, slipVars
    <3>5. MailReady' /\ CalendarReady' /\ NotesReady'
      BY <1>0, <3>1 DEF MailReady, CalendarReady, NotesReady, Pending, storeVars, slipVars
    <3> QED  BY <3>2, <3>3, <3>4, <3>5
  <2> QED  BY <2>1, <2>2
<1> QED  BY <1>2, <1>3, <1>4

-----------------------------------------------------------------------------
(* The calendar. *)

\* A fetch that returns a batch which, with the log, covers the whole feed.
LEMMA CalendarFetched ==
  ASSUME ConstantsAssumption, Inv, pc = "pull", Source = "cal",
         NEW S \in SUBSET Booked, Fetched(Rows(S), Len(feed)),
         \A e \in Booked \ S : <<e, cal[e]>> \in log["cal"],
         UNCHANGED <<worldVars, log, queue, due, faults, missed, unlucky>>,
         channel' \subseteq Events, lost' \subseteq Events
  PROVE  Inv'
<1> USE DEF Inv
<1>1. /\ batch' = Rows(S) /\ next' = Len(feed) /\ pc' = "append"
      /\ UNCHANGED <<enabled, ahead, todo, cursor>> /\ Source' = "cal"
  BY DEF Fetched, Source
<1>2. Rows(S) \subseteq Records["cal"]
  BY RecordsOf DEF Rows, Booked, TypeOK
<1>3. Len(feed) \in 0..Len(feed) /\ Rebooked(Len(feed)) = {}
  BY FeedEnd DEF TypeOK
<1>4. TypeOK'
  BY <1>1, <1>3 DEF TypeOK, worldVars
<1>5. InHand' /\ Placed'
  BY <1>1, <1>2, <1>3 DEF InHand, Placed, Fetching, worldVars
<1>6. NothingSkipped'
  BY <1>1 DEF NothingSkipped, MailLogged, CalendarLogged, NotesLogged, Booked, Rebooked,
              worldVars
<1>7. CalendarReady'
  BY <1>1 DEF CalendarReady, Pending, Rows, Booked, worldVars
<1>8. MailReady' /\ NotesReady'
  BY <1>1 DEF MailReady, NotesReady
<1> QED  BY <1>4, <1>5, <1>6, <1>7, <1>8

LEMMA CalendarSteps ==
  ASSUME ConstantsAssumption, Inv, FetchAll \/ FetchGone \/ FetchChanges
  PROVE  Inv'
<1>1. CASE FetchAll
  <2>1. lost' \subseteq Events /\ channel' \subseteq Events
    BY <1>1 DEF FetchAll, Inv, TypeOK
  <2> QED  BY <1>1, <2>1, CalendarFetched DEF FetchAll
<1>2. CASE FetchChanges
  <2> DEFINE S == Confirmed(cursor["cal"])
  <2>1. S \in SUBSET Booked /\ \A e \in Booked \ S : <<e, cal[e]>> \in log["cal"]
    BY <1>2 DEF FetchChanges, Confirmed, Inv, NothingSkipped, CalendarLogged
  <2>2. CancelledSince(cursor["cal"]) \subseteq Events
    <3>1. cursor["cal"] \in 0..Len(feed)
      BY <1>2 DEF FetchChanges, Inv, Placed
    <3>2. \A i \in (cursor["cal"] + 1)..Len(feed) : feed[i] \in Change
      BY <3>1 DEF Inv, TypeOK
    <3> QED  BY <3>2 DEF CancelledSince, Changed, Change
  <2>3. channel' \subseteq Events /\ lost' \subseteq Events
    BY <1>2, <2>2 DEF FetchChanges, Noted, Inv, TypeOK
  <2> HIDE DEF S
  <2>4. Fetched(Rows(S), Len(feed))
    BY <1>2 DEF FetchChanges, S
  <2> QED  BY <1>2, <2>1, <2>3, <2>4, CalendarFetched DEF FetchChanges
<1>3. CASE FetchGone
  <2>1. /\ UNCHANGED <<arrived, removed, cal, feed, mtime, text>> /\ expired' = FALSE
        /\ UNCHANGED <<log, channel, queue, due, faults, slipVars>>
        /\ cursor' = [cursor EXCEPT !["cal"] = None]
    BY <1>3 DEF FetchGone
  <2>2. /\ pc' \in {"pull", "consolidate"} /\ batch' = {} /\ next' = None /\ todo' = {}
        /\ enabled' \subseteq Sources /\ ahead' \subseteq enabled'
    BY <1>3 DEF FetchGone, Proceed, Inv, TypeOK
  <2>3. /\ cursor \in [Sources -> Nat \cup {None}] /\ cursor' \in [Sources -> Nat \cup {None}]
        /\ cursor'["cal"] = None /\ cursor'["mail"] = cursor["mail"]
        /\ cursor'["notes"] = cursor["notes"]
    BY <2>1 DEF Inv, TypeOK, Sources
  <2>4. TypeOK'
    BY <2>1, <2>2, <2>3 DEF Inv, TypeOK, slipVars
  <2>5. pc' \notin Fetching
    BY <2>2 DEF Fetching
  <2>6. InHand' /\ Placed' /\ MailReady' /\ CalendarReady' /\ NotesReady'
    BY <2>1, <2>2, <2>3, <2>5 DEF Inv, InHand, Placed, MailReady, CalendarReady, NotesReady,
                                 Fetching
  <2>7. NothingSkipped'
    BY <2>1, <2>3 DEF Inv, NothingSkipped, MailLogged, CalendarLogged, NotesLogged, slipVars
  <2> QED  BY <2>4, <2>6, <2>7 DEF Inv
<1> QED  BY <1>1, <1>2, <1>3

-----------------------------------------------------------------------------
(* The vault. *)

LEMMA WalkSteps ==
  ASSUME ConstantsAssumption, Inv, WalkStarts \/ WalkEnds
  PROVE  Inv'
<1> USE DEF Inv
<1>0. /\ UNCHANGED <<worldVars, storeVars, faults, slipVars>>
      /\ UNCHANGED <<enabled, ahead, batch>> /\ Source = "notes" /\ Source' = "notes"
      /\ next' \in Nat /\ todo' \subseteq Notes /\ pc' \in {"walk", "append"}
  BY DEF WalkStarts, WalkEnds, Fetched, storeVars, Source, InHand, Placed
<1>1. TypeOK'
  BY <1>0 DEF TypeOK, worldVars, storeVars, slipVars
<1>2. batch' \subseteq Records["notes"]
  BY <1>0 DEF WalkStarts, WalkEnds, InHand, Fetching
<1>3. InHand' /\ Placed'
  BY <1>0, <1>2 DEF InHand, Placed, Fetching, worldVars, storeVars, WalkStarts, WalkEnds, Fetched
<1>4. NothingSkipped'
  BY <1>0 DEF NothingSkipped, MailLogged, CalendarLogged, NotesLogged, Booked, Rebooked,
              worldVars, storeVars, slipVars
<1>5. NotesReady'
  BY <1>0 DEF NotesReady, Pending, WalkStarts, WalkEnds, Fetched, worldVars, storeVars, slipVars
<1>6. MailReady' /\ CalendarReady'
  BY <1>0 DEF MailReady, CalendarReady
<1> QED  BY <1>1, <1>3, <1>4, <1>5, <1>6

\* A note is visited: what is on disk is logged, in the batch, or excused.
LEMMA NoteVisited ==
  ASSUME ConstantsAssumption, Inv, NEW n \in Notes, Visit(n)
  PROVE  Inv'
<1> USE DEF Inv
<1>0. /\ UNCHANGED <<pc, enabled, ahead, worldVars, storeVars, missed, lost>>
      /\ pc = "walk" /\ Source = "notes" /\ Source' = "notes" /\ todo' = todo \ {n}
      /\ batch \subseteq Notes \X Texts /\ next \in Nat
  BY RecordsOf DEF Visit, InHand, Source, Fetching
<1>1. /\ cursor["notes"] \in Nat /\ mtime[n] \in 0..MaxTime
      /\ faults \in 0..MaxFaults /\ MaxFaults \in Nat /\ MaxTime \in Nat
  BY DEF Placed, TypeOK, ConstantsAssumption
<1>2. /\ next' \in Nat /\ faults' \in 0..MaxFaults
      /\ unlucky' \subseteq Notes /\ batch \subseteq batch'
      /\ \A m \in Notes : m # n => (m \in unlucky' <=> m \in unlucky)
  BY <1>0, <1>1 DEF Visit, Later, TypeOK
<1>3. batch' \subseteq Notes \X Texts
  <2>1. mtime[n] > cursor["notes"] => text[n] \in Texts
    BY <1>1 DEF Placed
  <2> QED  BY <1>0, <2>1 DEF Visit
<1>4. mtime[n] # 0 => <<n, text[n]>> \in log["notes"] \cup batch' \/ n \in unlucky'
  <2>1. CASE mtime[n] <= cursor["notes"]
    <3>1. unlucky' = unlucky
      BY <1>1, <2>1 DEF Visit
    <3>2. mtime[n] # 0 => mtime[n] \in 1..cursor["notes"]
      BY <1>1, <2>1
    <3> QED  BY <3>1, <3>2 DEF NothingSkipped, NotesLogged
  <2>2. CASE mtime[n] > cursor["notes"]
    BY <1>1, <2>2 DEF Visit
  <2> QED  BY <1>1, <2>1, <2>2
<1>5. mtime[n] \in 1..cursor["notes"] => unlucky' = unlucky
  BY <1>1 DEF Visit
<1>6. TypeOK'
  BY <1>0, <1>2 DEF TypeOK, worldVars, storeVars
<1>7. InHand' /\ Placed'
  BY <1>0, <1>2, <1>3, RecordsOf DEF InHand, Placed, Fetching, worldVars, storeVars
<1>8. NothingSkipped'
  BY <1>0, <1>2, <1>5 DEF NothingSkipped, MailLogged, CalendarLogged, NotesLogged, Booked,
                          Rebooked, worldVars, storeVars
<1>9. NotesReady'
  BY <1>0, <1>2, <1>4 DEF NotesReady, Pending, worldVars, storeVars
<1>10. MailReady' /\ CalendarReady'
  BY <1>0 DEF MailReady, CalendarReady
<1> QED  BY <1>6, <1>7, <1>8, <1>9, <1>10

-----------------------------------------------------------------------------
(* The log and the cursors. *)

LEMMA BatchAppended ==
  ASSUME ConstantsAssumption, Inv, AppendBatch
  PROVE  Inv'
<1> USE DEF Inv
<1>0. /\ UNCHANGED <<worldVars, cursor, channel, due, faults, slipVars>>
      /\ UNCHANGED <<enabled, ahead, batch, next, todo>> /\ Source' = Source
      /\ pc = "append" /\ pc' = "commit"
      /\ batch \subseteq Records[Source]
  BY DEF AppendBatch, Goto, Source, InHand, Fetching
<1>1. /\ DOMAIN log' = Sources
      /\ \A s \in Sources : log'[s] = IF s = Source THEN log[s] \cup batch ELSE log[s]
  BY RecordsOf DEF AppendBatch, TypeOK
<1>2. \A s \in Sources : log[s] \subseteq log'[s] /\ log'[s] \subseteq Records[s]
  BY <1>0, <1>1 DEF TypeOK
<1>3. queue' \subseteq Events \X Versions
  BY <1>0, RecordsOf DEF AppendBatch, TypeOK
<1>4. TypeOK'
  BY <1>0, <1>1, <1>2, <1>3 DEF TypeOK, worldVars, slipVars
<1>5. InHand' /\ Placed'
  BY <1>0 DEF InHand, Placed, Fetching, worldVars
<1>6. NothingSkipped'
  BY <1>0, <1>2 DEF NothingSkipped, MailLogged, CalendarLogged, NotesLogged, Booked, Rebooked,
                    worldVars, slipVars, Sources
<1>7. log'[Source] = log[Source] \cup batch
  BY <1>1, RecordsOf
<1>8. MailReady' /\ CalendarReady' /\ NotesReady'
  BY <1>0, <1>7 DEF MailReady, CalendarReady, NotesReady, Pending, Booked, Rebooked,
                    worldVars, slipVars
<1> QED  BY <1>4, <1>5, <1>6, <1>8

LEMMA CursorCommitted ==
  ASSUME ConstantsAssumption, Inv, CommitCursor
  PROVE  Inv'
<1> USE DEF Inv
<1>0. /\ UNCHANGED <<worldVars, log, channel, queue, due, slipVars>>
      /\ pc = "commit" /\ next \in Nat /\ todo = {}
      /\ pc' \in {"pull", "consolidate"} /\ batch' = {} /\ next' = None /\ todo' = {}
      /\ enabled' \subseteq Sources /\ ahead' \subseteq enabled'
  BY DEF CommitCursor, Proceed, InHand, TypeOK
<1>1. faults' \in 0..MaxFaults
  BY DEF CommitCursor, TypeOK, ConstantsAssumption
<1>2. pc' \notin Fetching
  BY <1>0 DEF Fetching
<1>3. \/ UNCHANGED cursor
      \/ /\ cursor' \in [Sources -> Nat \cup {None}]
         /\ \A s \in Sources : cursor'[s] = IF s = Source THEN next ELSE cursor[s]
  BY <1>0, RecordsOf DEF CommitCursor, TypeOK
<1>4. TypeOK'
  BY <1>0, <1>1, <1>3 DEF TypeOK, worldVars, slipVars
<1>5. Placed'
  BY <1>0, <1>3 DEF Placed, Sources, worldVars
<1>6. InHand' /\ MailReady' /\ CalendarReady' /\ NotesReady'
  BY <1>0, <1>2 DEF InHand, MailReady, CalendarReady, NotesReady, Fetching
<1>7. NothingSkipped'
  <2>1. CASE UNCHANGED cursor
    BY <1>0, <2>1 DEF NothingSkipped, MailLogged, CalendarLogged, NotesLogged, Booked, Rebooked,
                      worldVars, slipVars
  <2>2. CASE \A s \in Sources : cursor'[s] = IF s = Source THEN next ELSE cursor[s]
    <3>1. MailLogged'
      BY <1>0, <2>2 DEF MailReady, Pending, NothingSkipped, MailLogged, slipVars, Sources
    <3>2. CalendarLogged'
      BY <1>0, <2>2 DEF CalendarReady, Pending, NothingSkipped, CalendarLogged, Booked, Rebooked,
                        worldVars, Sources
    <3>3. NotesLogged'
      <4>1. CASE Source = "notes"
        <5>1. \A n \in Notes : mtime[n] # 0 => <<n, text[n]>> \in log["notes"] \/ n \in unlucky
          BY <1>0, <4>1 DEF NotesReady, Pending
        <5> QED  BY <1>0, <5>1 DEF NotesLogged, worldVars, slipVars
      <4>2. CASE Source # "notes"
        BY <1>0, <2>2, <4>2 DEF NothingSkipped, NotesLogged, worldVars, slipVars, Sources
      <4> QED  BY <4>1, <4>2
    <3> QED  BY <3>1, <3>2, <3>3 DEF NothingSkipped
  <2> QED  BY <1>3, <2>1, <2>2
<1> QED  BY <1>4, <1>5, <1>6, <1>7

-----------------------------------------------------------------------------
(* The theorems. *)

LEMMA Initially == ConstantsAssumption /\ Init => Inv
<1> SUFFICES ASSUME ConstantsAssumption, Init PROVE Inv
  OBVIOUS
<1> USE DEF Init, ConstantsAssumption
<1>1. TypeOK
  <2>1. 0 \in 0..MaxMessages /\ 0 \in 0..MaxFaults /\ 0 \in 0..MaxTime
    BY DEF ConstantsAssumption
  <2>2. feed \in Seq(Change)
    OBVIOUS
  <2>3. /\ cal \in [Events -> Versions \cup {None}] /\ due \in [Events -> Versions \cup {None}]
        /\ mtime \in [Notes -> 0..MaxTime] /\ text \in [Notes -> Texts \cup {None}]
    BY <2>1
  <2>4. /\ DOMAIN log = Sources /\ \A s \in Sources : log[s] \subseteq Records[s]
        /\ cursor \in [Sources -> Nat \cup {None}]
    OBVIOUS
  <2>5. /\ channel \subseteq Events /\ queue \subseteq Events \X Versions /\ pc = "idle"
        /\ enabled \subseteq Sources /\ ahead \subseteq enabled /\ next = None
        /\ todo \subseteq Notes /\ missed \subseteq Nat /\ lost \subseteq Events
        /\ unlucky \subseteq Notes
    OBVIOUS
  <2>6. /\ arrived \in 0..MaxMessages /\ removed \subseteq 1..arrived /\ expired \in BOOLEAN
        /\ faults \in 0..MaxFaults
    BY <2>1
  <2> QED  BY <2>2, <2>3, <2>4, <2>5, <2>6 DEF TypeOK
<1>2. InHand /\ Placed
  <2>1. pc = "idle" /\ batch = {} /\ todo = {}
    OBVIOUS
  <2>2. InHand
    BY <2>1 DEF InHand, Fetching
  <2>3. /\ cursor["notes"] \in Nat /\ cursor["cal"] = None
        /\ \A n \in Notes : mtime[n] = 0
    BY DEF Sources
  <2>4. Placed
    BY <2>1, <2>3 DEF Placed
  <2> QED  BY <2>2, <2>4
<1>3. NothingSkipped
  BY DEF NothingSkipped, MailLogged, CalendarLogged, NotesLogged, Sources
<1>4. MailReady /\ CalendarReady /\ NotesReady
  BY DEF MailReady, CalendarReady, NotesReady
<1> QED  BY <1>1, <1>2, <1>3, <1>4 DEF Inv

LEMMA Steps == ConstantsAssumption /\ Inv /\ [Next]_vars => Inv'
<1> SUFFICES ASSUME ConstantsAssumption, Inv, [Next]_vars PROVE Inv'
  OBVIOUS
<1>1. CASE World
  <2>1. UNCHANGED <<storeVars, procVars, faults>>
    BY <1>1 DEF World
  <2>2. CASE \E n \in Notes, x \in Texts, t \in 1..MaxTime : Save(n, x, t)
    BY <2>1, <2>2, NoteSaved
  <2>3. CASE ~ \E n \in Notes, x \in Texts, t \in 1..MaxTime : Save(n, x, t)
    <3>1. UNCHANGED <<storeVars, procVars, faults, slipVars>>
      BY <1>1, <2>1, <2>3 DEF World
    <3> QED  BY <1>1, <2>3, <3>1, MailboxSteps, CalendarChanges, TokenExpires DEF World
  <2> QED  BY <2>2, <2>3
<1>2. CASE \E S \in SUBSET Sources : Start(S)
  BY <1>2, PassStarts
<1>3. CASE PassStep
  BY <1>3, MailSteps, CalendarSteps, WalkSteps, NoteVisited, BatchAppended, CursorCommitted,
     PassDigests DEF PassStep
<1>4. CASE PullFails \/ Interrupted
  <2>1. faults' \in 0..MaxFaults
    BY <1>4 DEF PullFails, Interrupted, Inv, TypeOK, ConstantsAssumption
  <2> QED  BY <1>4, <2>1, MovesOn DEF PullFails, AdapterFails, Interrupted
<1>5. CASE UNCHANGED vars
  <2> USE <1>5 DEF Inv, vars, worldVars, storeVars, procVars, slipVars
  <2>1. TypeOK' /\ InHand' /\ Placed'
    BY DEF TypeOK, InHand, Placed, Source
  <2>2. NothingSkipped'
    BY DEF NothingSkipped, MailLogged, CalendarLogged, NotesLogged, Booked, Rebooked
  <2>3. MailReady' /\ CalendarReady' /\ NotesReady'
    BY DEF MailReady, CalendarReady, NotesReady, Pending, Source, Booked, Rebooked
  <2> QED  BY <2>1, <2>2, <2>3
<1> QED  BY <1>1, <1>2, <1>3, <1>4, <1>5 DEF Next

\* The invariant holds in every reachable state.
THEOREM Invariance == Spec => []Inv
BY ConstantsAssumption, Initially, Steps, PTL DEF Spec

\* The variables keep their types: in particular a cursor stays a position.
THEOREM TypeCorrect == Spec => []TypeOK
BY Invariance, PTL DEF Inv

\* Whatever a cursor has passed is in the log, but for the gaps of the design
\* (the fetch/commit split of ingest-cli.ts and the adapters).
THEOREM Covered == Spec => []NothingSkipped
BY Invariance, PTL DEF Inv
=============================================================================
