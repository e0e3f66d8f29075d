-------------------------- MODULE SleepPass_proofs --------------------------
(***************************************************************************)
(* Proofs about SleepPass, for every set of rows, every replay order that  *)
(* loses and repeats nothing, any number of passes, errors and crashes;    *)
(* then about the pure functions of a pass (Algorithms): the order of the  *)
(* replay, for every backlog, and the document graph, for every corpus.    *)
(***************************************************************************)
EXTENDS SleepPass, Algorithms, FiniteSetTheorems, TLAPS

\* The consolidated rows are logged, the applied ones consolidated, and the
\* log holds a message once.
LogFacts ==
  /\ ToSet(graph) \subseteq done
  /\ done \subseteq Logged
  /\ \A i, j \in DOMAIN log : SameMessage(log[i], log[j]) => i = j

\* What a pass knows of its snapshot: rows of the log, each of them once, the
\* ones before the current index dealt with.
QueueFacts ==
  \A p \in Passes : pc[p] \in InLoop =>
    /\ \A i \in DOMAIN queue[p] : queue[p][i] \in Logged
    /\ \A i, j \in DOMAIN queue[p] : queue[p][i] = queue[p][j] => i = j
    /\ \A i \in DOMAIN queue[p] : i < at[p] => queue[p][i] \in done \cup quarantine[p]

Inv == TypeOK /\ LogFacts /\ QueueFacts /\ SnapshotHandled

-----------------------------------------------------------------------------
\* The loop goes on only where there is a row to replay.
LEMMA AdvanceType ==
  ASSUME TypeOK, NEW p \in Passes, pc[p] \in InLoop, Advance(p), UNCHANGED queue
  PROVE  /\ pc' \in [Passes -> Steps \cup {"idle"}]
         /\ at' \in [Passes -> Nat \ {0}]
         /\ \A q \in Passes :
              /\ pc'[q] \in InLoop => at'[q] \in DOMAIN queue'[q]
              /\ pc'[q] \in {"idle", "embed", "snapshot"} => at'[q] = 1
         /\ pc'[p] \in {"finish", "extract", "replay"}
         /\ pc'[p] = "finish" => at[p] = Len(queue[p])
<1> DEFINE NextStop == LoopHead(p, at[p])
<1>1. at[p] \in Nat \ {0} /\ queue[p] \in Seq(Episodes) /\ at[p] \in 1..Len(queue[p])
  BY DEF TypeOK
<1>2. NextStop \in {"finish", "extract", "replay"}
  BY DEF LoopHead
<1>3. NextStop = "finish" => at[p] = Len(queue[p])
  BY <1>1 DEF LoopHead
<1>4. NextStop # "finish" => at[p] + 1 \in DOMAIN queue[p]
  BY <1>1 DEF LoopHead
<1>5. pc' = [pc EXCEPT ![p] = NextStop] /\ at' = [at EXCEPT ![p] = @ + 1]
  BY DEF Advance, Go
<1> QED
  BY <1>1, <1>2, <1>3, <1>4, <1>5 DEF TypeOK, Steps, InLoop

LEMMA ForgetType ==
  ASSUME TypeOK, NEW p \in Passes, Forget(p),
         failures' \in 0..MaxFailures, crashes' \in 0..MaxCrashes, lapses' \in 0..MaxLapses
  PROVE  TypeOK'
BY DEF TypeOK, Forget, Go, Steps, InLoop, store

\* The rows of the backlog are rows of the log, and the replay order of the
\* backlog is a sequence of rows.
LEMMA OrderType ==
  ASSUME TypeOK
  PROVE  /\ Pending \subseteq Episodes
         /\ Order(Pending) \in Seq(Pending) /\ Order(Pending) \in Seq(Episodes)
         /\ Pending # {} => 1 \in DOMAIN Order(Pending)
         /\ \A e \in Pending : \E i \in DOMAIN Order(Pending) : Order(Pending)[i] = e
         /\ \A i, j \in DOMAIN Order(Pending) :
              Order(Pending)[i] = Order(Pending)[j] => i = j
<1>1. Pending \in SUBSET Episodes
  BY DEF TypeOK, Pending, Logged, ToSet
<1> HIDE DEF Pending
<1>2. /\ Order(Pending) \in Seq(Pending)
      /\ \A e \in Pending : \E i \in DOMAIN Order(Pending) : Order(Pending)[i] = e
      /\ \A i, j \in DOMAIN Order(Pending) :
           Order(Pending)[i] = Order(Pending)[j] => i = j
  BY <1>1, OrderAssumption
<1>3. Order(Pending) \in Seq(Episodes)
  BY <1>1, <1>2
<1>4. Pending # {} => 1 \in DOMAIN Order(Pending)
  BY <1>2
<1> QED
  BY <1>1, <1>2, <1>3, <1>4

LEMMA TypeStep == TypeOK /\ [Next]_vars => TypeOK'
<1> SUFFICES ASSUME TypeOK, [Next]_vars PROVE TypeOK'
  OBVIOUS
<1> USE ConstantsAssumption DEF ConstantsAssumption
<1>1. ASSUME NEW e \in Episodes, AppendRow(e) PROVE TypeOK'
  BY <1>1 DEF TypeOK, AppendRow, volatile, bounds
<1>2. ASSUME NEW p \in Passes, Start(p) PROVE TypeOK'
  <2>1. lapses' \in 0..MaxLapses
    BY <1>2 DEF TypeOK, Start
  <2> QED
    BY <1>2, <2>1 DEF TypeOK, Start, Go, store, volatile, Steps, InLoop
<1>3. ASSUME NEW p \in Passes, Embedded(p) PROVE TypeOK'
  BY <1>3 DEF TypeOK, Embedded, Go, store, volatile, bounds, Steps, InLoop
<1>4. ASSUME NEW p \in Passes, EmbedFails(p) PROVE TypeOK'
  <2>1. /\ failures' \in 0..MaxFailures
        /\ crashes' \in 0..MaxCrashes
        /\ lapses' \in 0..MaxLapses
    BY <1>4 DEF TypeOK, EmbedFails
  <2> QED
    BY <1>4, <2>1, ForgetType DEF EmbedFails
<1>5. ASSUME NEW p \in Passes, Snapshot(p) PROVE TypeOK'
  <2>1. /\ Order(Pending) \in Seq(Episodes)
        /\ Pending # {} => 1 \in DOMAIN Order(Pending)
    BY OrderType
  <2>2. /\ queue' = [queue EXCEPT ![p] = Order(Pending)]
        /\ pc' = [pc EXCEPT ![p] = IF Pending = {} THEN "finish" ELSE "extract"]
        /\ pc[p] = "snapshot" /\ at' = at
        /\ UNCHANGED <<store, at, extracted, broken, recent, quarantine, bounds>>
    BY <1>5 DEF Snapshot, Go
  <2> HIDE DEF Pending
  <2> QED
    BY <2>1, <2>2 DEF TypeOK, store, bounds, Steps, InLoop
<1>6. ASSUME NEW p \in Passes, Extract(p) PROVE TypeOK'
  <2>1. {e \in Chunk(p) : Eligible(e)} \subseteq Episodes
    BY DEF TypeOK, Chunk
  <2>2. PICK bad \in SUBSET {e \in Chunk(p) : Eligible(e)} :
          /\ failures + Cardinality(bad \ Poison) <= MaxFailures
          /\ failures' = failures + Cardinality(bad \ Poison)
          /\ broken' = [broken EXCEPT ![p] = @ \cup bad]
          /\ extracted' = [extracted EXCEPT ![p] = @ \cup {e \in Chunk(p) : Eligible(e)}]
    BY <1>6 DEF Extract
  <2>3. Cardinality(bad \ Poison) \in Nat
    BY <2>1, FS_Subset, FS_CardinalityType
  <2>4. failures' \in 0..MaxFailures
    BY <2>2, <2>3 DEF TypeOK
  <2>5. /\ broken' \in [Passes -> SUBSET Episodes]
        /\ extracted' \in [Passes -> SUBSET Episodes]
    BY <2>1, <2>2 DEF TypeOK
  <2> QED
    BY <1>6, <2>4, <2>5 DEF TypeOK, Extract, Go, store, Steps, InLoop
<1>7. ASSUME NEW p \in Passes, pc[p] \in InLoop, Advance(p), UNCHANGED queue,
             log' = log, graph' \in Seq(Episodes), done' \subseteq Episodes,
             UNCHANGED <<source, extracted, broken, recent>>,
             quarantine' \in [Passes -> SUBSET Episodes],
             failures' \in 0..MaxFailures, UNCHANGED <<crashes, lapses>>
      PROVE  TypeOK'
  BY <1>7, AdvanceType DEF TypeOK
<1>8. ASSUME NEW p \in Passes, pc[p] \in InLoop PROVE Row(p) \in Episodes
  BY <1>8 DEF TypeOK, Row
<1>9. ASSUME NEW p \in Passes, SkipFaint(p) PROVE TypeOK'
  BY <1>9, <1>7, <1>8 DEF TypeOK, SkipFaint, InLoop, bounds
<1>10. ASSUME NEW p \in Passes, ReadRecent(p) PROVE TypeOK'
  <2>1. RecentInferred(Row(p)) \subseteq Episodes
    BY DEF RecentInferred
  <2> QED
    BY <1>10, <2>1 DEF TypeOK, ReadRecent, Go, store, bounds, Steps, InLoop
<1>11. ASSUME NEW p \in Passes, EchoFound(p) PROVE TypeOK'
  BY <1>11, <1>8 DEF TypeOK, EchoFound, Sources, Go, volatile, bounds, Steps, InLoop
<1>12. ASSUME NEW p \in Passes, NoEcho(p) PROVE TypeOK'
  BY <1>12 DEF TypeOK, NoEcho, Go, store, volatile, bounds, Steps, InLoop
<1>13. ASSUME NEW p \in Passes, HardStop(p) PROVE TypeOK'
  BY <1>13, <1>7, <1>8 DEF TypeOK, HardStop, InLoop, bounds
<1>14. ASSUME NEW p \in Passes, Nominate(p) PROVE TypeOK'
  BY <1>14 DEF TypeOK, Nominate, Go, store, volatile, bounds, Steps, InLoop
<1>15. ASSUME NEW p \in Passes, Commit(p) PROVE TypeOK'
  <2>1. pc[p] \in InLoop /\ Advance(p) /\ Row(p) \in Episodes
    BY <1>15, <1>8 DEF Commit, InLoop
  <2>2. graph' \in Seq(Episodes) /\ done' \subseteq Episodes
    BY <1>15, <2>1 DEF TypeOK, Commit
  <2>3. /\ UNCHANGED <<log, source, queue, extracted, broken, recent, crashes, lapses>>
        /\ failures' \in 0..MaxFailures
        /\ quarantine' \in [Passes -> SUBSET Episodes]
    BY <1>15 DEF TypeOK, Commit, bounds
  <2> QED
    BY <2>1, <2>2, <2>3, <1>7
<1>16. ASSUME NEW p \in Passes, Quarantine(p) PROVE TypeOK'
  <2>1. pc[p] \in InLoop
    BY <1>16 DEF Quarantine, Fails, InLoop
  <2>2. failures' \in 0..MaxFailures
    BY <1>16 DEF TypeOK, Quarantine, Fails
  <2> QED
    BY <1>16, <2>1, <2>2, <1>7, <1>8 DEF TypeOK, Quarantine, store
<1>17. ASSUME NEW p \in Passes, Finish(p) PROVE TypeOK'
  BY <1>17, ForgetType DEF TypeOK, Finish, bounds
<1>18. ASSUME NEW p \in Passes, Crash(p) PROVE TypeOK'
  <2>1. /\ failures' \in 0..MaxFailures
        /\ crashes' \in 0..MaxCrashes
        /\ lapses' \in 0..MaxLapses
    BY <1>18 DEF TypeOK, Crash
  <2> QED
    BY <1>18, <2>1, ForgetType DEF Crash
<1>19. CASE UNCHANGED vars
  BY <1>19 DEF TypeOK, vars, store, volatile, bounds
<1> QED
  BY <1>1, <1>2, <1>3, <1>4, <1>5, <1>6, <1>9, <1>10, <1>11, <1>12, <1>13, <1>14,
     <1>15, <1>16, <1>17, <1>18, <1>19 DEF Next, PassStep

LEMMA InitType == Init => TypeOK
BY ConstantsAssumption DEF Init, TypeOK, Steps, InLoop, ConstantsAssumption

\* The state of a pass is well typed, its index inside its snapshot while it loops.
THEOREM TypeCorrect == Spec => []TypeOK
BY InitType, TypeStep, PTL DEF Spec

-----------------------------------------------------------------------------
\* A row that joins the log is a new message; what the log holds stays.
LEMMA AppendStep ==
  ASSUME Inv, NEW e \in Episodes, AppendRow(e)
  PROVE  Inv'
<1> USE DEF Logged, ToSet
<1>1. TypeOK'
  BY TypeStep DEF Inv, Next
<1>2. /\ log' = Append(log, e) /\ log \in Seq(Episodes)
      /\ UNCHANGED <<done, source, graph, pc, volatile, bounds>>
  BY DEF Inv, TypeOK, AppendRow
<1>3. /\ DOMAIN log' = 1..Len(log) + 1 /\ log'[Len(log) + 1] = e
      /\ \A i \in DOMAIN log : i \in DOMAIN log' /\ log'[i] = log[i]
      /\ DOMAIN log = 1..Len(log)
  BY <1>2
<1>4. Logged \subseteq Logged'
  BY <1>3
<1>5. \A i \in DOMAIN log : ~SameMessage(log[i], e) /\ ~SameMessage(e, log[i])
  BY DEF AppendRow, SameMessage
<1>6. LogFacts'
  <2>1. \A i, j \in DOMAIN log' : SameMessage(log'[i], log'[j]) => i = j
    BY <1>3, <1>5 DEF Inv, LogFacts
  <2>2. SameMessage(log[1], log[1])' <=> SameMessage(log'[1], log'[1])
    BY DEF SameMessage
  <2> QED
    BY <1>2, <1>4, <2>1 DEF Inv, LogFacts, SameMessage
<1>7. QueueFacts'
  BY <1>2, <1>4 DEF Inv, QueueFacts, volatile
<1>8. SnapshotHandled'
  BY <1>2 DEF Inv, SnapshotHandled, volatile, bounds
<1> QED
  BY <1>1, <1>6, <1>7, <1>8 DEF Inv

\* The row a pass is replaying is a row of the log.
LEMMA CurrentRow ==
  ASSUME Inv, NEW p \in Passes, pc[p] \in InLoop
  PROVE  at[p] \in DOMAIN queue[p] /\ Row(p) \in Logged
BY DEF Inv, TypeOK, QueueFacts, Row

\* Going on to the next row keeps what is known of the snapshots, when the row
\* left behind is marked or set aside and no other row is marked.
LEMMA AdvanceStep ==
  ASSUME Inv, NEW p \in Passes, pc[p] \in InLoop, Advance(p),
         UNCHANGED <<log, queue>>, done \subseteq done',
         \A q \in Passes : quarantine[q] \subseteq quarantine'[q],
         Row(p) \in done' \cup quarantine'[p]
  PROVE  QueueFacts' /\ SnapshotHandled'
<1>1. /\ pc' = [pc EXCEPT ![p] = LoopHead(p, at[p])]
      /\ at' = [at EXCEPT ![p] = @ + 1]
      /\ pc'[p] \in {"finish", "extract", "replay"}
      /\ pc'[p] = "finish" => at[p] = Len(queue[p])
  BY AdvanceType DEF Inv, Advance, Go
<1>2. /\ pc \in [Passes -> Steps \cup {"idle"}] /\ at \in [Passes -> Nat \ {0}]
      /\ queue[p] \in Seq(Episodes) /\ DOMAIN queue[p] = 1..Len(queue[p])
      /\ at[p] \in DOMAIN queue[p]
  BY DEF Inv, TypeOK
<1>3. \A q \in Passes \ {p} : pc'[q] = pc[q] /\ at'[q] = at[q]
  BY <1>1, <1>2
<1>4. at'[p] = at[p] + 1
  BY <1>1, <1>2
<1>5. \A i \in DOMAIN queue[p] : i < at'[p] => queue[p][i] \in done' \cup quarantine'[p]
  <2> SUFFICES ASSUME NEW i \in DOMAIN queue[p], i < at'[p]
               PROVE  queue[p][i] \in done' \cup quarantine'[p]
    OBVIOUS
  <2>1. CASE i = at[p]
    BY <2>1 DEF Row
  <2>2. CASE i < at[p]
    BY <2>2 DEF Inv, QueueFacts
  <2> QED
    BY <2>1, <2>2, <1>2, <1>4
<1>6. QueueFacts'
  <2> SUFFICES ASSUME NEW q \in Passes, pc'[q] \in InLoop
               PROVE  /\ \A i \in DOMAIN queue[q] : queue[q][i] \in Logged'
                      /\ \A i, j \in DOMAIN queue[q] : queue[q][i] = queue[q][j] => i = j
                      /\ \A i \in DOMAIN queue[q] :
                           i < at'[q] => queue[q][i] \in done' \cup quarantine'[q]
    BY DEF QueueFacts
  <2>1. pc[q] \in InLoop
    BY <1>3
  <2>2. Logged' = Logged
    BY DEF Logged
  <2> QED
    BY <1>3, <1>5, <2>1, <2>2 DEF Inv, QueueFacts
<1>7. SnapshotHandled'
  <2> SUFFICES ASSUME NEW q \in Passes, pc'[q] = "finish"
               PROVE  ToSet(queue[q]) \subseteq done' \cup quarantine'[q]
    BY DEF SnapshotHandled
  <2>1. CASE q = p
    <3>1. \A i \in DOMAIN queue[p] : i < at'[p]
      BY <2>1, <1>1, <1>2, <1>4
    <3> QED
      BY <3>1, <2>1, <1>5 DEF ToSet
  <2>2. CASE q # p
    BY <2>2, <1>3 DEF Inv, SnapshotHandled
  <2> QED
    BY <2>1, <2>2
<1> QED
  BY <1>6, <1>7

\* SkipFaint, HardStop and Commit: the row is marked, its effects, if any, are
\* the last of the graph.
LEMMA MarkStep ==
  ASSUME Inv, TypeOK', NEW p \in Passes, pc[p] \in InLoop, Advance(p),
         UNCHANGED <<log, queue, quarantine>>,
         done' = done \cup {Row(p)},
         graph' = graph \/ graph' = Append(graph, Row(p))
  PROVE  Inv'
<1>1. QueueFacts' /\ SnapshotHandled'
  BY AdvanceStep
<1>2. graph \in Seq(Episodes) /\ Row(p) \in Episodes /\ Row(p) \in Logged
  BY CurrentRow DEF Inv, TypeOK, Row
<1>3. \A i \in DOMAIN graph' :
        \/ i \in DOMAIN graph /\ graph'[i] = graph[i]
        \/ i = Len(graph) + 1 /\ graph'[i] = Row(p)
  <2> SUFFICES ASSUME NEW i \in DOMAIN graph'
               PROVE  \/ i \in DOMAIN graph /\ graph'[i] = graph[i]
                      \/ i = Len(graph) + 1 /\ graph'[i] = Row(p)
    OBVIOUS
  <2> DEFINE row == Row(p)
  <2>1. CASE graph' = graph
    BY <2>1
  <2>2. CASE graph' = Append(graph, row)
    <3>1. row \in Episodes /\ graph \in Seq(Episodes)
      BY <1>2
    <3> HIDE DEF row
    <3>2. DOMAIN graph' = 1..Len(graph) + 1 /\ DOMAIN graph = 1..Len(graph)
      BY <3>1, <2>2
    <3>3. \A k \in 1..Len(graph) : Append(graph, row)[k] = graph[k]
      BY <3>1
    <3>4. Append(graph, row)[Len(graph) + 1] = row
      BY <3>1
    <3> QED
      BY <3>1, <3>2, <3>3, <3>4, <2>2 DEF row
  <2> QED
    BY <2>1, <2>2
<1>4. LogFacts'
  <2>1. \A i \in DOMAIN graph : graph[i] \in done
    BY DEF Inv, LogFacts, ToSet
  <2>2. ToSet(graph') \subseteq done'
    BY <1>3, <2>1 DEF ToSet
  <2>3. done' \subseteq Logged'
    BY <1>2 DEF Inv, LogFacts, Logged
  <2>4. \A i, j \in DOMAIN log' : SameMessage(log'[i], log'[j]) => i = j
    BY DEF Inv, LogFacts
  <2> QED
    BY <2>2, <2>3, <2>4 DEF LogFacts, ToSet, SameMessage
<1> QED
  BY <1>1, <1>4 DEF Inv

\* The other steps inside the loop move one pass and leave the rows alone.
LEMMA QuietStep ==
  ASSUME Inv, TypeOK', NEW p \in Passes, pc[p] \in InLoop,
         NEW to \in InLoop, pc' = [pc EXCEPT ![p] = to],
         UNCHANGED <<log, done, graph, queue, at, quarantine>>
  PROVE  Inv'
<1>1. \A q \in Passes \ {p} : pc'[q] = pc[q]
  BY DEF Inv, TypeOK
<1>2. pc'[p] = to
  BY DEF Inv, TypeOK
<1>3. LogFacts'
  BY DEF Inv, LogFacts, Logged, ToSet, SameMessage
<1>4. QueueFacts'
  BY <1>1, <1>2 DEF Inv, QueueFacts, Logged, ToSet
<1>5. SnapshotHandled'
  BY <1>1, <1>2 DEF Inv, SnapshotHandled, InLoop
<1> QED
  BY <1>3, <1>4, <1>5 DEF Inv

\* A pass that ends, in whatever way, leaves the store as it is.
LEMMA ForgetStep ==
  ASSUME Inv, TypeOK', NEW p \in Passes, Forget(p)
  PROVE  Inv'
<1>1. /\ UNCHANGED <<log, done, graph>>
      /\ pc'[p] = "idle"
      /\ \A q \in Passes \ {p} : /\ pc'[q] = pc[q] /\ at'[q] = at[q] /\ queue'[q] = queue[q]
                                 /\ quarantine'[q] = quarantine[q]
  BY DEF Inv, TypeOK, Forget, Go, store
<1>2. LogFacts'
  BY <1>1 DEF Inv, LogFacts, Logged, ToSet, SameMessage
<1>3. QueueFacts'
  BY <1>1 DEF Inv, QueueFacts, Logged, ToSet, InLoop
<1>4. SnapshotHandled'
  BY <1>1 DEF Inv, SnapshotHandled
<1> QED
  BY <1>2, <1>3, <1>4 DEF Inv

LEMMA StartStep ==
  ASSUME Inv, TypeOK', NEW p \in Passes, Start(p)
  PROVE  Inv'
<1>1. /\ UNCHANGED <<log, done, graph, queue, at, quarantine>>
      /\ pc'[p] = "embed"
      /\ \A q \in Passes \ {p} : pc'[q] = pc[q]
  BY DEF Inv, TypeOK, Start, Go, store, volatile
<1>2. LogFacts'
  BY <1>1 DEF Inv, LogFacts, Logged, ToSet, SameMessage
<1>3. QueueFacts'
  BY <1>1 DEF Inv, QueueFacts, Logged, ToSet, InLoop
<1>4. SnapshotHandled'
  BY <1>1 DEF Inv, SnapshotHandled
<1> QED
  BY <1>2, <1>3, <1>4 DEF Inv

\* The snapshot holds what is logged and not consolidated.
LEMMA SnapshotStep ==
  ASSUME Inv, TypeOK', NEW p \in Passes, Snapshot(p)
  PROVE  Inv'
<1>1. /\ UNCHANGED <<log, done, graph, at, quarantine, lapses>>
      /\ pc[p] = "snapshot" /\ at[p] = 1
      /\ pc'[p] = IF Pending = {} THEN "finish" ELSE "extract"
      /\ queue'[p] = Order(Pending)
      /\ \A q \in Passes \ {p} : pc'[q] = pc[q] /\ queue'[q] = queue[q]
  BY DEF Inv, TypeOK, Snapshot, Go, store, bounds
<1>2. /\ Order(Pending) \in Seq(Pending)
      /\ \A i, j \in DOMAIN Order(Pending) : Order(Pending)[i] = Order(Pending)[j] => i = j
  BY OrderType DEF Inv
<1>3. \A i \in DOMAIN Order(Pending) : i >= 1 /\ Order(Pending)[i] \in Pending
  BY <1>2
<1>4. LogFacts'
  BY <1>1 DEF Inv, LogFacts, Logged, ToSet, SameMessage
<1>5. QueueFacts'
  <2> SUFFICES ASSUME NEW q \in Passes, pc'[q] \in InLoop
               PROVE  /\ \A i \in DOMAIN queue'[q] : queue'[q][i] \in Logged
                      /\ \A i, j \in DOMAIN queue'[q] : queue'[q][i] = queue'[q][j] => i = j
                      /\ \A i \in DOMAIN queue'[q] :
                           i < at[q] => queue'[q][i] \in done \cup quarantine[q]
    BY <1>1 DEF QueueFacts, Logged, ToSet
  <2>1. CASE q = p
    <3>1. Pending \subseteq Logged
      BY DEF Pending
    <3> QED
      BY <2>1, <3>1, <1>1, <1>2, <1>3
  <2>2. CASE q # p
    BY <2>2, <1>1 DEF Inv, QueueFacts
  <2> QED
    BY <2>1, <2>2
<1>6. SnapshotHandled'
  <2>1. Pending = {} => ToSet(Order(Pending)) = {}
    BY <1>3 DEF ToSet
  <2> QED
    BY <2>1, <1>1 DEF Inv, SnapshotHandled
<1> QED
  BY <1>4, <1>5, <1>6 DEF Inv

LEMMA Invariance == Inv /\ [Next]_vars => Inv'
<1> SUFFICES ASSUME Inv, [Next]_vars PROVE Inv'
  OBVIOUS
<1>1. TypeOK' /\ TypeOK
  BY TypeStep DEF Inv
<1>2. ASSUME NEW e \in Episodes, AppendRow(e) PROVE Inv'
  BY <1>2, AppendStep
<1>3. ASSUME NEW p \in Passes, Start(p) PROVE Inv'
  BY <1>1, <1>3, StartStep
<1>4. ASSUME NEW p \in Passes, Embedded(p) PROVE Inv'
  <2>1. /\ UNCHANGED <<log, done, graph, queue, at, quarantine, lapses>>
        /\ pc[p] = "embed" /\ pc'[p] = "snapshot"
        /\ \A q \in Passes \ {p} : pc'[q] = pc[q]
    BY <1>1, <1>4 DEF TypeOK, Embedded, Go, store, volatile, bounds
  <2>2. LogFacts'
    BY <2>1 DEF Inv, LogFacts, Logged, ToSet, SameMessage
  <2>3. QueueFacts'
    BY <2>1 DEF Inv, QueueFacts, Logged, ToSet, InLoop
  <2>4. SnapshotHandled'
    BY <2>1 DEF Inv, SnapshotHandled
  <2> QED
    BY <1>1, <2>2, <2>3, <2>4 DEF Inv
<1>5. ASSUME NEW p \in Passes, EmbedFails(p) PROVE Inv'
  BY <1>1, <1>5, ForgetStep DEF EmbedFails
<1>6. ASSUME NEW p \in Passes, Snapshot(p) PROVE Inv'
  BY <1>1, <1>6, SnapshotStep
<1>7. ASSUME NEW p \in Passes, Extract(p) PROVE Inv'
  BY <1>1, <1>7, QuietStep DEF Extract, Go, store, InLoop
<1>8. ASSUME NEW p \in Passes, SkipFaint(p) PROVE Inv'
  BY <1>1, <1>8, MarkStep DEF SkipFaint, bounds, InLoop
<1>9. ASSUME NEW p \in Passes, ReadRecent(p) PROVE Inv'
  BY <1>1, <1>9, QuietStep DEF ReadRecent, Go, store, bounds, InLoop
<1>10. ASSUME NEW p \in Passes, EchoFound(p) PROVE Inv'
  BY <1>1, <1>10, QuietStep DEF EchoFound, Go, volatile, bounds, InLoop
<1>11. ASSUME NEW p \in Passes, NoEcho(p) PROVE Inv'
  BY <1>1, <1>11, QuietStep DEF NoEcho, Go, store, volatile, bounds, InLoop
<1>12. ASSUME NEW p \in Passes, HardStop(p) PROVE Inv'
  BY <1>1, <1>12, MarkStep DEF HardStop, bounds, InLoop
<1>13. ASSUME NEW p \in Passes, Nominate(p) PROVE Inv'
  BY <1>1, <1>13, QuietStep DEF Nominate, Go, store, volatile, bounds, InLoop
<1>14. ASSUME NEW p \in Passes, Commit(p) PROVE Inv'
  BY <1>1, <1>14, MarkStep DEF Commit, bounds, InLoop
<1>15. ASSUME NEW p \in Passes, Quarantine(p) PROVE Inv'
  <2>1. /\ pc[p] \in InLoop /\ Advance(p)
        /\ UNCHANGED <<log, done, graph, queue, lapses>>
        /\ Row(p) \in quarantine'[p]
        /\ \A q \in Passes : quarantine[q] \subseteq quarantine'[q]
    BY <1>1, <1>15 DEF Quarantine, Fails, TypeOK, store, InLoop
  <2>2. QueueFacts' /\ SnapshotHandled'
    BY <2>1, AdvanceStep
  <2>3. LogFacts'
    BY <2>1 DEF Inv, LogFacts, Logged, ToSet, SameMessage
  <2> QED
    BY <1>1, <2>2, <2>3 DEF Inv
<1>16. ASSUME NEW p \in Passes, Finish(p) PROVE Inv'
  BY <1>1, <1>16, ForgetStep DEF Finish, bounds
<1>17. ASSUME NEW p \in Passes, Crash(p) PROVE Inv'
  BY <1>1, <1>17, ForgetStep DEF Crash
<1>18. CASE UNCHANGED vars
  <2>1. LogFacts' /\ QueueFacts'
    BY <1>18 DEF Inv, LogFacts, QueueFacts, Logged, ToSet, SameMessage,
                 vars, store, volatile, bounds
  <2>2. SnapshotHandled'
    BY <1>18 DEF Inv, SnapshotHandled, ToSet, vars, store, volatile, bounds
  <2> QED
    BY <1>1, <2>1, <2>2 DEF Inv
<1> QED
  BY <1>2, <1>3, <1>4, <1>5, <1>6, <1>7, <1>8, <1>9, <1>10, <1>11, <1>12, <1>13,
     <1>14, <1>15, <1>16, <1>17, <1>18 DEF Next, PassStep

LEMMA InitInv == Init => Inv
<1> SUFFICES ASSUME Init PROVE Inv
  OBVIOUS
<1>1. TypeOK
  BY InitType
<1> QED
  BY <1>1 DEF Inv, Init, LogFacts, QueueFacts, SnapshotHandled, ToSet, InLoop

-----------------------------------------------------------------------------
(* How often a message is applied. *)

\* The passes that run, those of them that have e yet to replay, and the places
\* of e in the graph.
Active == {p \in Passes : pc[p] # "idle"}
Waits(p, e) ==
  pc[p] \in InLoop /\ \E i \in DOMAIN queue[p] : i >= at[p] /\ queue[p][i] = e
Holders(e) == {p \in Active : Waits(p, e)}
Copies(e) == {i \in DOMAIN graph : graph[i] = e}

\* Every pass but one took the lock from a stalled one, and a row is in the
\* graph or in the hands of at most as many passes.
OverlapInv ==
  /\ IsFiniteSet(Active) /\ Cardinality(Active) <= 1 + lapses
  /\ \A e \in Episodes : Cardinality(Copies(e)) + Cardinality(Holders(e)) <= 1 + lapses

LEMMA FiniteSets ==
  ASSUME TypeOK, OverlapInv, NEW e
  PROVE  /\ IsFiniteSet(Copies(e)) /\ Cardinality(Copies(e)) \in Nat
         /\ IsFiniteSet(Holders(e)) /\ Cardinality(Holders(e)) \in Nat
         /\ Cardinality(Active) \in Nat /\ lapses \in Nat
<1>1. IsFiniteSet(1..Len(graph))
  BY FS_Interval DEF TypeOK
<1>2. Copies(e) \subseteq 1..Len(graph) /\ Holders(e) \subseteq Active
  BY DEF TypeOK, Copies, Holders
<1>3. IsFiniteSet(Copies(e)) /\ IsFiniteSet(Holders(e)) /\ IsFiniteSet(Active)
  BY <1>1, <1>2, FS_Subset DEF OverlapInv
<1>4. lapses \in Nat
  BY ConstantsAssumption DEF TypeOK, ConstantsAssumption
<1> QED
  BY <1>3, <1>4, FS_CardinalityType

\* A step after which no more passes run and no pass has taken on a row.
LEMMA NoNewHolder ==
  ASSUME TypeOK, OverlapInv, UNCHANGED <<graph, lapses>>, Active' \subseteq Active,
         \A e \in Episodes : Holders(e)' \subseteq Holders(e)
  PROVE  OverlapInv'
<1>1. /\ IsFiniteSet(Active') /\ Cardinality(Active') \in Nat
      /\ Cardinality(Active') <= Cardinality(Active)
  BY FS_Subset, FS_CardinalityType DEF OverlapInv
<1>2. IsFiniteSet(Active') /\ Cardinality(Active') <= 1 + lapses
  BY <1>1, FiniteSets DEF OverlapInv
<1>3. ASSUME NEW e \in Episodes
      PROVE  Cardinality(Copies(e))' + Cardinality(Holders(e))' <= 1 + lapses'
  <2>1. Copies(e)' = Copies(e)
    BY DEF Copies
  <2>2. /\ Cardinality(Holders(e)') \in Nat
        /\ Cardinality(Holders(e)') <= Cardinality(Holders(e))
    BY <1>3, FiniteSets, FS_Subset, FS_CardinalityType
  <2>3. Cardinality(Copies(e)) + Cardinality(Holders(e)) <= 1 + lapses
    BY <1>3 DEF OverlapInv
  <2> QED
    BY <2>1, <2>2, <2>3, FiniteSets
<1> QED
  BY <1>2, <1>3 DEF OverlapInv

\* Going on to the next row: the pass has let go of the row it leaves.
LEMMA AdvanceHolders ==
  ASSUME Inv, Inv', NEW p \in Passes, pc[p] \in InLoop, Advance(p), UNCHANGED queue,
         NEW row, row = Row(p)
  PROVE  /\ Active' \subseteq Active
         /\ \A e \in Episodes : Holders(e)' \subseteq Holders(e)
         /\ p \in Holders(row) /\ p \notin Holders(row)'
<1>1. /\ at[p] \in Nat /\ at[p] \in DOMAIN queue[p] /\ DOMAIN queue[p] \subseteq Nat
      /\ pc'[p] # "idle"
      /\ at'[p] = at[p] + 1
      /\ \A q \in Passes \ {p} : pc'[q] = pc[q] /\ at'[q] = at[q]
  BY AdvanceType DEF Inv, TypeOK, Advance, Go
<1>2. Active' = Active
  BY <1>1 DEF Active, InLoop
<1>3. \A e, q : q \in Passes => (Waits(q, e)' => Waits(q, e))
  BY <1>1 DEF Waits
<1>4. Waits(p, row) /\ p \in Active
  BY <1>1 DEF Waits, Row, Active, InLoop
<1>5. \A i \in DOMAIN queue[p] : queue[p][i] = row => i = at[p]
  BY <1>1 DEF Inv, QueueFacts, Row
<1>6. ~Waits(p, row)'
  BY <1>1, <1>5 DEF Waits
<1> QED
  BY <1>2, <1>3, <1>4, <1>6 DEF Holders, Active

LEMMA CommitOverlap ==
  ASSUME Inv, Inv', OverlapInv, NEW p \in Passes, Commit(p)
  PROVE  OverlapInv'
<1> PICK row : row = Row(p)
  OBVIOUS
<1> DEFINE last == Len(graph) + 1
<1>1. /\ pc[p] \in InLoop /\ Advance(p) /\ UNCHANGED <<queue, lapses>>
      /\ graph' = Append(graph, row) /\ graph \in Seq(Episodes) /\ TypeOK
  BY DEF Commit, InLoop, bounds, Inv, TypeOK
<1>2. row \in Episodes
  BY <1>1, CurrentRow DEF Inv, TypeOK, Logged, ToSet
<1>3. /\ DOMAIN graph = 1..Len(graph) /\ DOMAIN graph' = 1..last /\ Len(graph) \in Nat
      /\ graph'[last] = row /\ \A i \in DOMAIN graph : graph'[i] = graph[i]
  BY <1>1, <1>2
<1>4. /\ Active' \subseteq Active
      /\ \A e \in Episodes : Holders(e)' \subseteq Holders(e)
      /\ p \in Holders(row) /\ p \notin Holders(row)'
  BY <1>1, AdvanceHolders
<1>5. IsFiniteSet(Active') /\ Cardinality(Active') <= 1 + lapses'
  <2>1. /\ IsFiniteSet(Active') /\ Cardinality(Active') \in Nat
        /\ Cardinality(Active') <= Cardinality(Active)
    BY <1>4, FS_Subset, FS_CardinalityType DEF OverlapInv
  <2> QED
    BY <2>1, <1>1, FiniteSets DEF OverlapInv
<1>6. ASSUME NEW e \in Episodes
      PROVE  Cardinality(Copies(e))' + Cardinality(Holders(e))' <= 1 + lapses'
  <2>1. Cardinality(Copies(e)) + Cardinality(Holders(e)) <= 1 + lapses
    BY <1>6 DEF OverlapInv
  <2>2. /\ IsFiniteSet(Copies(e)) /\ Cardinality(Copies(e)) \in Nat
        /\ IsFiniteSet(Holders(e)) /\ Cardinality(Holders(e)) \in Nat /\ lapses \in Nat
    BY <1>1, FiniteSets
  <2>3. CASE e = row
    <3>1. Copies(e)' = Copies(e) \cup {last} /\ last \notin Copies(e)
      BY <2>3, <1>3 DEF Copies
    <3>2. Cardinality(Copies(e)') = Cardinality(Copies(e)) + 1
      BY <3>1, <2>2, FS_AddElement
    <3>3. Holders(e)' \subseteq Holders(e) \ {p} /\ p \in Holders(e)
      BY <2>3, <1>4
    <3>4. /\ IsFiniteSet(Holders(e) \ {p})
          /\ Cardinality(Holders(e) \ {p}) = Cardinality(Holders(e)) - 1
      BY <3>3, <2>2, FS_RemoveElement
    <3>5. /\ Cardinality(Holders(e)') <= Cardinality(Holders(e) \ {p})
          /\ Cardinality(Holders(e)') \in Nat
      BY <3>3, <3>4, FS_Subset, FS_CardinalityType
    <3> QED
      BY <2>1, <2>2, <3>2, <3>4, <3>5, <1>1
  <2>4. CASE e # row
    <3>1. Copies(e)' = Copies(e)
      BY <2>4, <1>3 DEF Copies
    <3>2. /\ Cardinality(Holders(e)') <= Cardinality(Holders(e))
          /\ Cardinality(Holders(e)') \in Nat
      BY <1>4, <2>2, FS_Subset, FS_CardinalityType
    <3> QED
      BY <2>1, <2>2, <3>1, <3>2, <1>1
  <2> QED
    BY <2>3, <2>4
<1> QED
  BY <1>5, <1>6 DEF OverlapInv

\* A snapshot takes on only rows that no transaction has reached.
LEMMA SnapshotOverlap ==
  ASSUME Inv, Inv', OverlapInv, NEW p \in Passes, Snapshot(p)
  PROVE  OverlapInv'
<1>1. /\ UNCHANGED <<graph, lapses, at>> /\ pc[p] = "snapshot" /\ pc'[p] # "idle"
      /\ pc'[p] \in InLoop => queue'[p] = Order(Pending)
      /\ \A q \in Passes \ {p} : pc'[q] = pc[q] /\ queue'[q] = queue[q]
      /\ TypeOK
  BY DEF Inv, TypeOK, Snapshot, Go, store, bounds
<1>2. Active' = Active
  BY <1>1 DEF Active
<1>3. ASSUME NEW e \in Episodes
      PROVE  Cardinality(Copies(e))' + Cardinality(Holders(e))' <= 1 + lapses'
  <2>1. /\ Cardinality(Copies(e)) + Cardinality(Holders(e)) <= 1 + lapses
        /\ Cardinality(Active) <= 1 + lapses /\ IsFiniteSet(Active)
    BY <1>3 DEF OverlapInv
  <2>2. /\ IsFiniteSet(Copies(e)) /\ Cardinality(Copies(e)) \in Nat
        /\ IsFiniteSet(Holders(e)) /\ Cardinality(Holders(e)) \in Nat
        /\ Cardinality(Active) \in Nat /\ lapses \in Nat
    BY <1>1, FiniteSets
  <2>3. Copies(e)' = Copies(e)
    BY <1>1 DEF Copies
  <2>4. CASE e \in Pending
    <3>1. Copies(e) = {}
      BY <2>4 DEF Copies, Pending, Inv, LogFacts, ToSet
    <3>2. Holders(e)' \subseteq Active
      BY <1>2 DEF Holders
    <3>3. /\ Cardinality(Holders(e)') <= Cardinality(Active)
          /\ Cardinality(Holders(e)') \in Nat
      BY <3>2, <2>1, FS_Subset, FS_CardinalityType
    <3>4. Cardinality(Copies(e)) = 0
      BY <3>1, FS_EmptySet
    <3> QED
      BY <1>1, <2>1, <2>2, <2>3, <3>3, <3>4
  <2>5. CASE e \notin Pending
    <3>1. \A i \in DOMAIN Order(Pending) : Order(Pending)[i] \in Pending
      BY <1>1, OrderType
    <3>2. ~Waits(p, e)'
      BY <1>1, <2>5, <3>1 DEF Waits
    <3>3. \A q \in Passes \ {p} : Waits(q, e)' => Waits(q, e)
      BY <1>1 DEF Waits
    <3>4. Holders(e)' \subseteq Holders(e)
      BY <1>2, <3>2, <3>3 DEF Holders, Active
    <3>5. /\ Cardinality(Holders(e)') <= Cardinality(Holders(e))
          /\ Cardinality(Holders(e)') \in Nat
      BY <3>4, <2>2, FS_Subset, FS_CardinalityType
    <3> QED
      BY <1>1, <2>1, <2>2, <2>3, <3>5
  <2> QED
    BY <2>4, <2>5
<1> QED
  BY <1>1, <1>2, <1>3 DEF OverlapInv

\* A pass starts alone, or its lapse is counted; it holds no row yet.
LEMMA StartOverlap ==
  ASSUME Inv, Inv', OverlapInv, NEW p \in Passes, Start(p)
  PROVE  OverlapInv'
<1>1. /\ UNCHANGED <<graph, queue, at>> /\ pc[p] = "idle" /\ pc'[p] = "embed"
      /\ \A q \in Passes \ {p} : pc'[q] = pc[q]
      /\ TypeOK
  BY DEF Inv, TypeOK, Start, Go, store, volatile
<1>2. Active' = Active \cup {p} /\ p \notin Active
  BY <1>1 DEF Active
<1>3. \/ Active = {} /\ lapses' = lapses
      \/ lapses' = lapses + 1
  BY DEF Start, Active
<1>4. /\ IsFiniteSet(Active') /\ Cardinality(Active') = Cardinality(Active) + 1
      /\ Cardinality(Active) \in Nat /\ lapses \in Nat /\ Cardinality(Active) <= 1 + lapses
  BY <1>1, <1>2, FiniteSets, FS_AddElement DEF OverlapInv
<1>5. Cardinality({}) = 0
  BY FS_EmptySet
<1>6. Cardinality(Active') <= 1 + lapses'
  BY <1>3, <1>4, <1>5
<1>7. ASSUME NEW e \in Episodes
      PROVE  Cardinality(Copies(e))' + Cardinality(Holders(e))' <= 1 + lapses'
  <2>1. ~Waits(p, e)' /\ \A q \in Passes \ {p} : Waits(q, e)' <=> Waits(q, e)
    BY <1>1 DEF Waits, InLoop
  <2>2. Holders(e)' = Holders(e)
    <3>1. ~Waits(p, e)
      BY <1>1 DEF Waits, InLoop
    <3>2. \A q \in Passes : Waits(q, e)' <=> Waits(q, e)
      BY <2>1, <3>1
    <3>3. Active \subseteq Passes /\ p \in Passes
      BY DEF Active
    <3> HIDE DEF Waits
    <3>4. \A q : q \in Holders(e)' <=> q \in Holders(e)
      BY <1>2, <3>1, <3>2, <3>3 DEF Holders
    <3> QED
      BY <3>4 DEF Holders
  <2>3. Copies(e)' = Copies(e)
    BY <1>1 DEF Copies
  <2>4. Cardinality(Copies(e)) + Cardinality(Holders(e)) <= 1 + lapses
    BY <1>7 DEF OverlapInv
  <2>5. lapses <= lapses' /\ lapses' \in Nat
    BY <1>3, <1>4
  <2> QED
    BY <1>1, <1>4, <2>2, <2>3, <2>4, <2>5, FiniteSets
<1> QED
  BY <1>4, <1>6, <1>7 DEF OverlapInv

\* A pass moves on without a new row, or ends.
LEMMA QuietOverlap ==
  ASSUME Inv, OverlapInv, NEW p \in Passes, pc[p] # "idle", UNCHANGED <<graph, lapses>>,
         \A q \in Passes \ {p} : pc'[q] = pc[q] /\ queue'[q] = queue[q] /\ at'[q] = at[q],
         \/ pc'[p] \notin InLoop
         \/ pc[p] \in InLoop /\ queue'[p] = queue[p] /\ at'[p] = at[p]
  PROVE  OverlapInv'
<1>1. Active' \subseteq Active
  BY DEF Active
<1>2. \A e, q : q \in Passes => (Waits(q, e)' => Waits(q, e))
  BY DEF Waits
<1>3. \A e \in Episodes : Holders(e)' \subseteq Holders(e)
  BY <1>1, <1>2 DEF Holders, Active
<1> QED
  BY <1>1, <1>3, NoNewHolder DEF Inv

LEMMA OverlapStep == Inv /\ Inv' /\ OverlapInv /\ [Next]_vars => OverlapInv'
<1> SUFFICES ASSUME Inv, Inv', OverlapInv, [Next]_vars PROVE OverlapInv'
  OBVIOUS
<1>1. TypeOK /\ TypeOK'
  BY DEF Inv
<1>2. ASSUME NEW e \in Episodes, AppendRow(e) PROVE OverlapInv'
  BY <1>1, <1>2, NoNewHolder DEF AppendRow, Active, Holders, Waits, volatile, bounds
<1>3. ASSUME NEW p \in Passes, Start(p) PROVE OverlapInv'
  BY <1>3, StartOverlap
<1>4. ASSUME NEW p \in Passes, Embedded(p) PROVE OverlapInv'
  BY <1>1, <1>4, QuietOverlap DEF TypeOK, Embedded, Go, store, volatile, bounds, InLoop
<1>5. ASSUME NEW p \in Passes, pc[p] # "idle", Forget(p), UNCHANGED lapses PROVE OverlapInv'
  BY <1>1, <1>5, QuietOverlap DEF TypeOK, Forget, Go, store, InLoop
<1>6. ASSUME NEW p \in Passes, EmbedFails(p) \/ Finish(p) \/ Crash(p) PROVE OverlapInv'
  BY <1>5, <1>6 DEF EmbedFails, Finish, Crash, bounds
<1>7. ASSUME NEW p \in Passes, Snapshot(p) PROVE OverlapInv'
  BY <1>7, SnapshotOverlap
<1>8. ASSUME NEW p \in Passes, Extract(p) PROVE OverlapInv'
  BY <1>1, <1>8, QuietOverlap DEF TypeOK, Extract, Go, store, InLoop
<1>9. ASSUME NEW p \in Passes, ReadRecent(p) \/ EchoFound(p) \/ NoEcho(p) \/ Nominate(p)
      PROVE  OverlapInv'
  BY <1>1, <1>9, QuietOverlap
     DEF TypeOK, ReadRecent, EchoFound, NoEcho, Nominate, Go, store, volatile, bounds, InLoop
<1>10. ASSUME NEW p \in Passes, SkipFaint(p) \/ HardStop(p) \/ Quarantine(p)
       PROVE  OverlapInv'
  <2>1. pc[p] \in InLoop /\ Advance(p) /\ UNCHANGED <<queue, graph, lapses>>
    BY <1>10 DEF SkipFaint, HardStop, Quarantine, Fails, InLoop, store, bounds
  <2> QED
    BY <1>1, <2>1, AdvanceHolders, NoNewHolder
<1>11. ASSUME NEW p \in Passes, Commit(p) PROVE OverlapInv'
  BY <1>11, CommitOverlap
<1>12. CASE UNCHANGED vars
  BY <1>1, <1>12, NoNewHolder DEF Active, Holders, Waits, vars, store, volatile, bounds
<1> QED
  BY <1>2, <1>3, <1>4, <1>6, <1>7, <1>8, <1>9, <1>10, <1>11, <1>12 DEF Next, PassStep

LEMMA InitOverlap == Init => OverlapInv
<1> SUFFICES ASSUME Init PROVE OverlapInv
  OBVIOUS
<1>1. Active = {} /\ \A e : Holders(e) = {} /\ Copies(e) = {}
  BY DEF Init, Active, Holders, Copies
<1>2. IsFiniteSet({}) /\ Cardinality({}) = 0 /\ lapses = 0
  BY FS_EmptySet DEF Init
<1> QED
  BY <1>1, <1>2 DEF OverlapInv

\* A message has one row, so its places in the graph are those of that row.
LEMMA InvApplied == Inv /\ OverlapInv => AppliedOnce
<1> SUFFICES ASSUME Inv, OverlapInv, NEW e \in Episodes
             PROVE  Applications(e) <= 1 + lapses
  BY DEF AppliedOnce
<1> DEFINE places == {i \in DOMAIN graph : SameMessage(graph[i], e)}
<1>1. \A i \in DOMAIN graph : graph[i] \in Logged
  BY DEF Inv, LogFacts, ToSet
<1>2. \A a, b \in Logged : SameMessage(a, b) => a = b
  BY DEF Inv, LogFacts, Logged, ToSet
<1>3. \A i, j \in places : graph[i] = graph[j]
  BY <1>1, <1>2 DEF SameMessage
<1>4. CASE places = {}
  <2>1. Cardinality(places) = 0
    BY <1>4, FS_EmptySet
  <2> QED
    BY <2>1, FiniteSets DEF Applications, Inv
<1>5. CASE places # {}
  <2>1. PICK k \in DOMAIN graph : k \in places
    BY <1>5
  <2>2. graph[k] \in Episodes
    BY DEF Inv, TypeOK
  <2>3. places \subseteq Copies(graph[k])
    BY <1>3, <2>1 DEF Copies
  <2>4. /\ IsFiniteSet(Copies(graph[k])) /\ Cardinality(Copies(graph[k])) \in Nat
        /\ Cardinality(Holders(graph[k])) \in Nat /\ lapses \in Nat
    BY FiniteSets DEF Inv
  <2> HIDE DEF places
  <2>5. Cardinality(places) <= Cardinality(Copies(graph[k])) /\ Cardinality(places) \in Nat
    BY <2>3, <2>4, FS_Subset, FS_CardinalityType
  <2>6. Cardinality(Copies(graph[k])) + Cardinality(Holders(graph[k])) <= 1 + lapses
    BY <2>2 DEF OverlapInv
  <2>7. Cardinality(places) <= 1 + lapses
    BY <2>4, <2>5, <2>6
  <2> QED
    BY <2>7 DEF Applications, places
<1> QED
  BY <1>4, <1>5

\* No message takes effect twice, whatever crashes, fails and is delivered
\* again; and where passes overlap, not more often than one and a lapse for
\* each of them.
THEOREM Applied == Spec => []AppliedOnce
BY InitInv, Invariance, InitOverlap, OverlapStep, InvApplied, PTL DEF Spec

\* A pass that reaches its end has dealt with every row of its snapshot, also
\* when it overlapped with another.
THEOREM Handled == Spec => []SnapshotHandled
<1>1. Inv => SnapshotHandled
  BY DEF Inv
<1> QED
  BY <1>1, InitInv, Invariance, PTL DEF Spec

-----------------------------------------------------------------------------
\* No conclusion of the system that is in the log is what e repeats.
Original(e) == \A i \in Inferred \cap Logged : ~Repeats(e, i)

\* What a pass knows of the row it has looked up: the conclusions of its window
\* as they still are, then that it must stop here, or that the row may speak.
EchoFacts ==
  \A p \in Passes :
    /\ pc[p] = "echo" => Row(p) \notin Inferred /\ recent[p] = RecentInferred(Row(p))
    /\ pc[p] = "stop" => Row(p) \in Barred \/ source[Row(p)] # NoEpisode
    /\ pc[p] \in {"claims", "judge"} => Row(p) \notin Barred /\ Original(Row(p))

EvidenceInv == EchoFacts /\ NeverSelfConfirms /\ MarksTruthful

\* Where a row stands in a log that holds it once.
LEMMA OnePlace ==
  ASSUME NEW s, \A i, j \in DOMAIN s : s[i] = s[j] => i = j, NEW k \in DOMAIN s
  PROVE  (CHOOSE i \in DOMAIN s : s[i] = s[k]) = k
OBVIOUS

LEMMA LoggedOnce ==
  ASSUME Inv
  PROVE  /\ \A i, j \in DOMAIN log : log[i] = log[j] => i = j
         /\ \A k \in DOMAIN log : Position(log[k]) = k
         /\ log \in Seq(Episodes) /\ DOMAIN log = 1..Len(log)
<1>1. \A i, j \in DOMAIN log : log[i] = log[j] => i = j
  BY DEF Inv, LogFacts, SameMessage
<1>2. \A k \in DOMAIN log : Position(log[k]) = k
  BY <1>1, OnePlace DEF Position
<1> QED
  BY <1>1, <1>2 DEF Inv, TypeOK

\* The window of the echo check holds every conclusion the row can repeat.
LEMMA WindowHolds ==
  ASSUME Inv, NEW e, e \notin Inferred, e \in Logged, NEW i \in Inferred \cap Logged
  PROVE  Repeats(e, i) <=> i \in RecentInferred(e) /\ <<i, e>> \in Similar
<1>1. PICK k, m \in DOMAIN log : log[k] = i /\ log[m] = e
  BY DEF Logged, ToSet
<1>2. Position(i) = k /\ Position(e) = m /\ k # m /\ k \in Nat /\ m \in Nat
  BY <1>1, LoggedOnce
<1>3. \A a, b \in DOMAIN log : log[a] = i /\ log[b] = e => a = k /\ b = m
  BY <1>1, LoggedOnce
<1>4. i \in RecentInferred(e) <=> k >= m - Window /\ k <= m
  BY <1>2 DEF RecentInferred
<1>5. Repeats(e, i) <=> <<i, e>> \in Similar /\ k < m /\ m <= k + Window
  BY <1>1, <1>3 DEF Repeats
<1> QED
  BY <1>2, <1>4, <1>5, ConstantsAssumption DEF ConstantsAssumption

\* Capture adds rows behind those that are there: nothing that was said of a
\* logged row and the conclusions before it changes.
LEMMA LogGrows ==
  ASSUME Inv, Inv', NEW d \in Episodes, AppendRow(d), NEW e \in Logged
  PROVE  /\ e \in Logged'
         /\ RecentInferred(e)' = RecentInferred(e)
         /\ \A i : Repeats(e, i)' <=> Repeats(e, i)
<1>1. /\ log' = Append(log, d) /\ log \in Seq(Episodes) /\ DOMAIN log = 1..Len(log)
      /\ DOMAIN log' = 1..Len(log) + 1 /\ Len(log) \in Nat
      /\ \A k \in DOMAIN log : k \in DOMAIN log' /\ log'[k] = log[k]
      /\ log'[Len(log) + 1] = d
  BY LoggedOnce DEF AppendRow
<1>2. \A i, j \in DOMAIN log' : log'[i] = log'[j] => i = j
  BY DEF Inv, LogFacts, SameMessage
<1>3. \A k \in DOMAIN log' : Position(log[k])' = k
  BY <1>2, OnePlace DEF Position
<1>4. \A f \in Logged : f \in Logged' /\ Position(f)' = Position(f) /\ Position(f) \in DOMAIN log
  <2> SUFFICES ASSUME NEW f \in Logged
               PROVE  f \in Logged' /\ Position(f)' = Position(f) /\ Position(f) \in DOMAIN log
    OBVIOUS
  <2>1. PICK k \in DOMAIN log : log[k] = f
    BY DEF Logged, ToSet
  <2>2. Position(f) = k
    BY <2>1, LoggedOnce
  <2>3. k \in DOMAIN log' /\ log'[k] = f
    BY <1>1, <2>1
  <2>4. Position(f)' = k
    BY <1>3, <2>3
  <2> QED
    BY <2>1, <2>2, <2>3, <2>4 DEF Logged, ToSet
<1>5. Logged' = Logged \cup {d} /\ (d \notin Logged => Position(d)' = Len(log) + 1)
  <2>1. Logged' = Logged \cup {d}
    BY <1>1 DEF Logged, ToSet
  <2>2. Position(d)' = Len(log) + 1
    BY <1>1, <1>3
  <2> QED
    BY <2>1, <2>2
<1>6. RecentInferred(e)' = RecentInferred(e)
  <2>1. \A i \in Logged : i \in RecentInferred(e)' <=> i \in RecentInferred(e)
    BY <1>4, <1>5 DEF RecentInferred
  <2>2. d \notin Logged => d \notin RecentInferred(e)'
    BY <1>1, <1>4, <1>5 DEF RecentInferred
  <2>3. /\ RecentInferred(e) \subseteq Logged
        /\ RecentInferred(e)' \subseteq Logged \cup {d}
    BY <1>5 DEF RecentInferred
  <2> HIDE DEF RecentInferred
  <2> QED
    BY <2>1, <2>2, <2>3
<1>7. ASSUME NEW i PROVE Repeats(e, i)' <=> Repeats(e, i)
  <2>1. PICK m \in DOMAIN log : log[m] = e
    BY DEF Logged, ToSet
  <2>2. m \in DOMAIN log' /\ log'[m] = e
    BY <1>1, <2>1
  <2>3. \A b \in DOMAIN log' : log'[b] = e => b = m
    BY <1>2, <2>2
  <2>4. \A a \in DOMAIN log' : a < m => a \in DOMAIN log /\ log'[a] = log[a]
    BY <1>1, <2>1
  <2>5. \A b \in DOMAIN log : log[b] = e => b = m
    BY <2>1, LoggedOnce
  <2> QED
    BY <1>1, <2>1, <2>2, <2>3, <2>4, <2>5 DEF Repeats
<1> QED
  BY <1>4, <1>6, <1>7

\* Both depend on the log alone.
LEMMA SameLog ==
  ASSUME log' = log, NEW q \in Passes
  PROVE  /\ RecentInferred(Row(q))' = RecentInferred(Row(q)')
         /\ Original(Row(q))' <=> Original(Row(q)')
BY DEF RecentInferred, Position, Logged, ToSet, Original, Repeats

LEMMA InitEvidence == Init => EvidenceInv
BY DEF Init, EvidenceInv, EchoFacts, NeverSelfConfirms, MarksTruthful, FlagMatchesEffects,
       EchoAudited, ToSet

LEMMA AppendEvidence ==
  ASSUME Inv, Inv', EvidenceInv, NEW d \in Episodes, AppendRow(d)
  PROVE  EvidenceInv'
<1>1. UNCHANGED <<done, source, graph, pc, volatile, bounds>>
  BY DEF AppendRow
<1>2. ASSUME NEW e \in Logged
      PROVE  /\ RecentInferred(e)' = RecentInferred(e)
             /\ Original(e) => Original(e)'
             /\ \A i : Repeats(e, i) => Repeats(e, i)'
  <2>1. /\ RecentInferred(e)' = RecentInferred(e)
        /\ \A i : Repeats(e, i)' <=> Repeats(e, i)
    BY LogGrows
  <2>2. ASSUME Original(e), NEW i \in Inferred \cap Logged' PROVE ~Repeats(e, i)'
    <3>1. ASSUME Repeats(e, i)' PROVE i \in Logged
      BY <2>1, <3>1 DEF Repeats, Logged, ToSet
    <3> QED
      BY <2>1, <2>2, <3>1 DEF Original
  <2> QED
    BY <2>1, <2>2 DEF Original
<1>3. \A p \in Passes : pc[p] \in InLoop => Row(p) \in Logged /\ Row(p)' = Row(p)
  BY <1>1, CurrentRow DEF Row, volatile
<1>4. ToSet(graph) \subseteq Logged /\ ToSet(graph)' = ToSet(graph)
  BY <1>1 DEF Inv, LogFacts, ToSet
<1>5. EchoFacts'
  BY <1>1, <1>2, <1>3 DEF EvidenceInv, EchoFacts, InLoop, volatile
<1>6. NeverSelfConfirms'
  <2>1. \A e \in ToSet(graph) : e \notin Barred /\ Original(e)
    BY DEF EvidenceInv, NeverSelfConfirms, Original
  <2>2. \A e \in ToSet(graph) : e \notin Barred /\ Original(e)'
    BY <2>1, <1>2, <1>4
  <2>3. \A p \in Passes : extracted'[p] \cap Barred = {}
    BY <1>1 DEF EvidenceInv, NeverSelfConfirms, volatile
  <2> QED
    BY <2>2, <2>3, <1>4 DEF NeverSelfConfirms, Original
<1>7. MarksTruthful'
  <2>1. ASSUME NEW e \in Episodes, NEW i, source[e] = i, i # NoEpisode PROVE Repeats(e, i)'
    <3>1. Repeats(e, i)
      BY <2>1 DEF EvidenceInv, MarksTruthful, EchoAudited
    <3>2. e \in Logged
      BY <3>1 DEF Repeats, Logged, ToSet
    <3> QED
      BY <3>1, <3>2, <1>2
  <2>2. \A e \in Episodes : \A i : Repeats(e, i)' /\ source[e] = i => Repeats(e, source[e])'
    BY <1>1 DEF Repeats
  <2>3. EchoAudited'
    BY <1>1, <2>1, <2>2 DEF EvidenceInv, MarksTruthful, EchoAudited
  <2> QED
    BY <1>1, <1>4, <2>3 DEF EvidenceInv, MarksTruthful, FlagMatchesEffects
<1> QED
  BY <1>5, <1>6, <1>7 DEF EvidenceInv

\* The steps of a pass that leave the log alone, the row of p included.
LEMMA StayEvidence ==
  ASSUME Inv, EvidenceInv, NEW p \in Passes, UNCHANGED <<log, done, source, graph>>,
         \A q \in Passes \ {p} : pc'[q] = pc[q] /\ Row(q)' = Row(q) /\ recent'[q] = recent[q],
         pc'[p] = "echo" => Row(p)' \notin Inferred /\ recent'[p] = RecentInferred(Row(p)'),
         pc'[p] = "stop" => Row(p)' \in Barred \/ source[Row(p)'] # NoEpisode,
         pc'[p] \in {"claims", "judge"} => Row(p)' \notin Barred /\ Original(Row(p)'),
         \A q \in Passes : extracted'[q] \cap Barred = {}
  PROVE  EvidenceInv'
<1>1. \A q \in Passes : /\ RecentInferred(Row(q))' = RecentInferred(Row(q)')
                        /\ Original(Row(q))' <=> Original(Row(q)')
  BY SameLog
<1>2. EchoFacts'
  <2>1. ASSUME NEW q \in Passes \ {p}
        PROVE  /\ pc'[q] = "echo" => Row(q)' \notin Inferred /\ recent'[q] = RecentInferred(Row(q)')
               /\ pc'[q] = "stop" => Row(q)' \in Barred \/ source'[Row(q)'] # NoEpisode
               /\ pc'[q] \in {"claims", "judge"} => Row(q)' \notin Barred /\ Original(Row(q)')
    BY <2>1 DEF EvidenceInv, EchoFacts
  <2> QED
    BY <1>1, <2>1 DEF EchoFacts, Barred
<1>3. NeverSelfConfirms'
  BY DEF EvidenceInv, NeverSelfConfirms, Repeats, Logged, ToSet
<1>4. MarksTruthful'
  BY DEF EvidenceInv, MarksTruthful, FlagMatchesEffects, EchoAudited, Repeats, ToSet
<1> QED
  BY <1>2, <1>3, <1>4 DEF EvidenceInv

\* A row is marked: it was applied, having no part in what the system concluded,
\* or it may not be applied at all.
LEMMA MarkEvidence ==
  ASSUME Inv, Inv', EvidenceInv, NEW p \in Passes, pc[p] \in InLoop, Advance(p),
         UNCHANGED <<log, source, queue, extracted, recent>>,
         done' = done \cup {Row(p)},
         \/ graph' = graph /\ (Row(p) \in Faint \cup Barred \/ source[Row(p)] # NoEpisode)
         \/ graph' = Append(graph, Row(p)) /\ Row(p) \notin Barred /\ Original(Row(p))
  PROVE  EvidenceInv'
<1>1. /\ pc'[p] \in {"finish", "extract", "replay"}
      /\ \A q \in Passes \ {p} : pc'[q] = pc[q] /\ at'[q] = at[q]
  BY AdvanceType DEF Inv, TypeOK, Advance, Go
<1>2. \A e, i : Repeats(e, i)' <=> Repeats(e, i)
  BY DEF Repeats
<1>3. \/ ToSet(graph)' = ToSet(graph)
      \/ ToSet(graph)' = ToSet(graph) \cup {Row(p)} /\ Row(p) \notin Barred /\ Original(Row(p))
  <2>1. CASE graph' = graph
    BY <2>1 DEF ToSet
  <2>2. CASE graph' # graph
    <3> DEFINE row == Row(p)
    <3>1. row \in Episodes /\ graph \in Seq(Episodes) /\ graph' = Append(graph, row)
      BY <2>2 DEF Inv, TypeOK, Row
    <3> HIDE DEF row
    <3>2. ToSet(graph)' = ToSet(graph) \cup {row}
      BY <3>1 DEF ToSet
    <3> QED
      BY <3>2, <2>2 DEF row
  <2> QED
    BY <2>1, <2>2
<1>4. EchoFacts'
  <2>1. \A q \in Passes \ {p} : Row(q)' = Row(q) /\ recent'[q] = recent[q]
    BY <1>1 DEF Row
  <2>2. \A q \in Passes \ {p} : /\ RecentInferred(Row(q))' = RecentInferred(Row(q))
                                /\ Original(Row(q))' <=> Original(Row(q))
    BY <2>1, SameLog
  <2> QED
    BY <1>1, <2>1, <2>2 DEF EvidenceInv, EchoFacts, Barred
<1>5. NeverSelfConfirms'
  <2>1. \A e \in ToSet(graph)' : e \notin Barred /\ Original(e)
    BY <1>3 DEF EvidenceInv, NeverSelfConfirms, Original
  <2>2. Logged' = Logged
    BY DEF Logged
  <2> QED
    BY <1>2, <2>1, <2>2 DEF EvidenceInv, NeverSelfConfirms, Original
<1>6. MarksTruthful'
  <2>1. EchoAudited'
    BY DEF EvidenceInv, MarksTruthful, EchoAudited, Repeats
  <2>2. ToSet(graph)' \subseteq done'
    BY DEF Inv, LogFacts
  <2>3. \A e \in Episodes : e \in done' /\ source'[e] = NoEpisode /\ e \notin Faint \cup Barred
                              => e \in ToSet(graph)'
    <3> SUFFICES ASSUME NEW e \in Episodes, e \in done', source[e] = NoEpisode,
                        e \notin Faint \cup Barred
                 PROVE  e \in ToSet(graph)'
      OBVIOUS
    <3>1. CASE e \in done
      BY <3>1, <1>3 DEF EvidenceInv, MarksTruthful, FlagMatchesEffects
    <3>2. CASE e = Row(p)
      <4>1. graph' = Append(graph, Row(p))
        BY <3>2
      <4>2. Row(p) \in Episodes /\ graph \in Seq(Episodes)
        BY <3>2 DEF Inv, TypeOK
      <4>3. e \in Episodes /\ graph' = Append(graph, e)
        BY <4>1, <3>2
      <4>4. Len(graph) + 1 \in DOMAIN graph' /\ graph'[Len(graph) + 1] = e
        BY <4>2, <4>3
      <4> QED
        BY <4>4 DEF ToSet
    <3> QED
      BY <3>1, <3>2
  <2> QED
    BY <2>1, <2>2, <2>3 DEF MarksTruthful, FlagMatchesEffects, Barred
<1> QED
  BY <1>4, <1>5, <1>6 DEF EvidenceInv

\* The source of an echo is written: a conclusion of the window that it repeats.
LEMMA EchoEvidence ==
  ASSUME Inv, EvidenceInv, NEW p \in Passes, EchoFound(p)
  PROVE  EvidenceInv'
<1>1. PICK i \in Sources(p) : source' = [source EXCEPT ![Row(p)] = i]
  BY DEF EchoFound
<1>2. /\ pc[p] = "echo" /\ pc' = [pc EXCEPT ![p] = "stop"]
      /\ UNCHANGED <<log, done, graph, volatile, bounds>>
  BY DEF EchoFound, Go
<1>3. /\ Row(p) \in Episodes /\ Row(p) \in Logged /\ pc[p] \in InLoop
      /\ Row(p) \notin Inferred /\ recent[p] = RecentInferred(Row(p))
  <2>1. pc[p] \in InLoop
    BY <1>2 DEF InLoop
  <2> QED
    BY <1>2, <2>1, CurrentRow DEF EvidenceInv, EchoFacts, Inv, TypeOK, Row
<1>4. i \in Inferred \cap Logged /\ i \in RecentInferred(Row(p)) /\ <<i, Row(p)>> \in Similar
  BY <1>1, <1>3 DEF Sources, RecentInferred
<1>5. Repeats(Row(p), i)
  BY <1>3, <1>4, WindowHolds
<1>6. i # NoEpisode /\ i \in Episodes
  BY <1>4, ConstantsAssumption DEF ConstantsAssumption
<1>7. \A e \in Episodes : source'[e] = IF e = Row(p) THEN i ELSE source[e]
  BY <1>1, <1>3 DEF Inv, TypeOK
<1>8. EchoFacts'
  <2>1. \A q \in Passes : Row(q)' = Row(q)
    BY <1>2 DEF Row, volatile
  <2>2. \A q \in Passes : /\ RecentInferred(Row(q))' = RecentInferred(Row(q))
                          /\ Original(Row(q))' <=> Original(Row(q))
    BY <1>2, <2>1, SameLog
  <2>3. \A q \in Passes : pc'[q] = "stop" => Row(q) \in Barred \/ source'[Row(q)] # NoEpisode
    <3> SUFFICES ASSUME NEW q \in Passes, pc'[q] = "stop"
                 PROVE  Row(q) \in Barred \/ source'[Row(q)] # NoEpisode
      OBVIOUS
    <3>1. CASE q = p
      BY <3>1, <1>3, <1>6, <1>7
    <3>2. CASE q # p
      <4>1. pc[q] = "stop" /\ Row(q) \in Episodes
        BY <1>2, <3>2 DEF Inv, TypeOK, Row, InLoop
      <4> QED
        BY <4>1, <1>6, <1>7 DEF EvidenceInv, EchoFacts
    <3> QED
      BY <3>1, <3>2
  <2>4. \A q \in Passes : pc'[q] # "stop" => pc'[q] = pc[q] /\ recent'[q] = recent[q]
    BY <1>2 DEF Inv, TypeOK, volatile
  <2> QED
    BY <2>1, <2>2, <2>3, <2>4 DEF EvidenceInv, EchoFacts, Barred
<1>9. NeverSelfConfirms'
  BY <1>2 DEF EvidenceInv, NeverSelfConfirms, Repeats, Logged, ToSet, volatile
<1>10. MarksTruthful'
  <2>1. \A e, c : Repeats(e, c)' <=> Repeats(e, c)
    BY <1>2 DEF Repeats
  <2>2. \A e \in Episodes : source'[e] # NoEpisode =>
          source'[e] \in Inferred /\ Repeats(e, source'[e])
    BY <1>4, <1>5, <1>7 DEF EvidenceInv, MarksTruthful, EchoAudited
  <2>3. EchoAudited'
    BY <1>2, <2>2 DEF EchoAudited, Repeats
  <2>4. \A e \in Episodes :
          /\ e \in ToSet(graph)' => e \in done'
          /\ e \in done' => \/ e \in ToSet(graph)' /\ source'[e] = NoEpisode
                            \/ e \in Faint \cup Barred
                            \/ source'[e] # NoEpisode
    <3>1. ToSet(graph)' = ToSet(graph) /\ done' = done
      BY <1>2 DEF ToSet
    <3> QED
      BY <3>1, <1>6, <1>7 DEF EvidenceInv, MarksTruthful, FlagMatchesEffects
  <2> QED
    BY <2>3, <2>4 DEF MarksTruthful, FlagMatchesEffects, Barred
<1> QED
  BY <1>8, <1>9, <1>10 DEF EvidenceInv

LEMMA EvidenceStep == Inv /\ Inv' /\ EvidenceInv /\ [Next]_vars => EvidenceInv'
<1> SUFFICES ASSUME Inv, Inv', EvidenceInv, [Next]_vars PROVE EvidenceInv'
  OBVIOUS
<1> USE DEF InLoop
<1>1. TypeOK
  BY DEF Inv
<1>2. \A q \in Passes : extracted[q] \cap Barred = {}
  BY DEF EvidenceInv, NeverSelfConfirms
<1>3. ASSUME NEW e \in Episodes, AppendRow(e) PROVE EvidenceInv'
  BY <1>3, AppendEvidence
\* The row is not looked up in the state the pass goes to.
<1>4. ASSUME NEW p \in Passes, UNCHANGED store, NEW to, to \notin {"echo", "stop", "claims", "judge"},
             pc' = [pc EXCEPT ![p] = to],
             \A q \in Passes \ {p} : queue'[q] = queue[q] /\ at'[q] = at[q] /\ recent'[q] = recent[q],
             \A q \in Passes : extracted'[q] \cap Barred = {}
      PROVE  EvidenceInv'
  <2>1. /\ pc'[p] \notin {"echo", "stop", "claims", "judge"}
        /\ \A q \in Passes \ {p} : pc'[q] = pc[q] /\ Row(q)' = Row(q)
    BY <1>1, <1>4 DEF TypeOK, Row
  <2> QED
    BY <1>4, <2>1, StayEvidence DEF store
<1>5. ASSUME NEW p \in Passes, Forget(p) PROVE EvidenceInv'
  <2>1. /\ \A q \in Passes \ {p} : queue'[q] = queue[q] /\ at'[q] = at[q] /\ recent'[q] = recent[q]
        /\ \A q \in Passes : extracted'[q] \cap Barred = {}
    BY <1>1, <1>2, <1>5 DEF Forget, TypeOK
  <2> QED
    BY <1>4, <1>5, <2>1 DEF Forget, Go
<1>6. ASSUME NEW p \in Passes, Start(p) \/ Embedded(p) PROVE EvidenceInv'
  BY <1>2, <1>4, <1>6 DEF Start, Embedded, Go, volatile
<1>7. ASSUME NEW p \in Passes, Snapshot(p) PROVE EvidenceInv'
  <2>1. \A q \in Passes \ {p} : queue'[q] = queue[q]
    BY <1>1, <1>7 DEF Snapshot, TypeOK
  <2>2. PICK to : to \notin {"echo", "stop", "claims", "judge"} /\ pc' = [pc EXCEPT ![p] = to]
    BY <1>7 DEF Snapshot, Go
  <2> QED
    BY <1>2, <1>4, <1>7, <2>1, <2>2 DEF Snapshot
<1>8. ASSUME NEW p \in Passes, Extract(p) PROVE EvidenceInv'
  <2> DEFINE chunk == {e \in Chunk(p) : Eligible(e)}
  <2>1. chunk \cap Barred = {}
    BY DEF Eligible
  <2>2. extracted' = [extracted EXCEPT ![p] = @ \cup chunk]
    BY <1>8 DEF Extract
  <2> HIDE DEF chunk
  <2>3. \A q \in Passes : extracted'[q] \cap Barred = {}
    BY <1>1, <1>2, <2>1, <2>2 DEF TypeOK
  <2> QED
    BY <1>4, <1>8, <2>3 DEF Extract, Go
<1>9. ASSUME NEW p \in Passes, SkipFaint(p) PROVE EvidenceInv'
  BY <1>9, MarkEvidence DEF SkipFaint, bounds
<1>10. ASSUME NEW p \in Passes, HardStop(p) PROVE EvidenceInv'
  <2>1. Row(p) \in Barred \/ source[Row(p)] # NoEpisode
    BY <1>10 DEF HardStop, EvidenceInv, EchoFacts
  <2> QED
    BY <1>10, <2>1, MarkEvidence DEF HardStop, bounds
<1>11. ASSUME NEW p \in Passes, Commit(p) PROVE EvidenceInv'
  <2>1. Row(p) \notin Barred /\ Original(Row(p))
    BY <1>11 DEF Commit, EvidenceInv, EchoFacts
  <2> QED
    BY <1>11, <2>1, MarkEvidence DEF Commit, bounds
<1>12. ASSUME NEW p \in Passes, Quarantine(p) PROVE EvidenceInv'
  <2>1. /\ pc[p] \in InLoop /\ Advance(p)
        /\ UNCHANGED <<store, queue, extracted, recent>>
    BY <1>12 DEF Quarantine, Fails
  <2>2. /\ pc' = [pc EXCEPT ![p] = LoopHead(p, at[p])]
        /\ pc'[p] \in {"finish", "extract", "replay"}
        /\ \A q \in Passes \ {p} : at'[q] = at[q]
    BY <1>1, <2>1, AdvanceType DEF Advance, Go, TypeOK
  <2>3. LoopHead(p, at[p]) \notin {"echo", "stop", "claims", "judge"}
    BY DEF LoopHead
  <2> QED
    BY <1>2, <1>4, <2>1, <2>2, <2>3
<1>13. ASSUME NEW p \in Passes, ReadRecent(p) PROVE EvidenceInv'
  <2> DEFINE found == IF Row(p) \in Inferred THEN {} ELSE RecentInferred(Row(p))
             to == IF found # {} THEN "echo" ELSE IF Row(p) \in Barred THEN "stop" ELSE "claims"
  <2>1. /\ pc[p] \in InLoop
        /\ recent' = [recent EXCEPT ![p] = found] /\ pc' = [pc EXCEPT ![p] = to]
        /\ UNCHANGED <<store, queue, at, extracted>>
    BY <1>13 DEF ReadRecent, Go
  <2>2. /\ \A q \in Passes : Row(q)' = Row(q)
        /\ \A q \in Passes \ {p} : pc'[q] = pc[q] /\ recent'[q] = recent[q]
        /\ pc'[p] = to /\ recent'[p] = found
    BY <1>1, <2>1 DEF TypeOK, Row
  <2>3. Row(p) \in Logged
    BY <2>1, CurrentRow
  <2>4. to = "claims" => Row(p) \notin Barred /\ RecentInferred(Row(p)) = {}
    BY DEF Barred
  <2>5. to = "claims" => Original(Row(p))
    BY <2>3, <2>4, WindowHolds DEF Original, Barred
  <2>6. to = "echo" => Row(p) \notin Inferred /\ found = RecentInferred(Row(p))
    OBVIOUS
  <2>7. to = "stop" => Row(p) \in Barred
    OBVIOUS
  <2>8. to # "judge"
    OBVIOUS
  <2> HIDE DEF found, to
  <2> QED
    BY <1>2, <2>1, <2>2, <2>4, <2>5, <2>6, <2>7, <2>8, StayEvidence DEF store
<1>14. ASSUME NEW p \in Passes, EchoFound(p) PROVE EvidenceInv'
  BY <1>14, EchoEvidence
<1>15. ASSUME NEW p \in Passes, NoEcho(p) PROVE EvidenceInv'
  <2>1. /\ pc[p] \in InLoop
        /\ Row(p) \notin Inferred /\ recent[p] = RecentInferred(Row(p))
        /\ \A i \in recent[p] : <<i, Row(p)>> \notin Similar
    BY <1>15 DEF NoEcho, Sources, EvidenceInv, EchoFacts
  <2>2. Original(Row(p))
    BY <2>1, CurrentRow, WindowHolds DEF Original
  <2>3. /\ \A q \in Passes : Row(q)' = Row(q)
        /\ \A q \in Passes \ {p} : pc'[q] = pc[q]
        /\ pc'[p] = IF Row(p) \in Barred THEN "stop" ELSE "claims"
        /\ UNCHANGED <<log, done, source, graph, recent, extracted>>
    BY <1>1, <1>15 DEF NoEcho, Go, TypeOK, Row, store, volatile
  <2> QED
    BY <1>2, <2>2, <2>3, StayEvidence
<1>16. ASSUME NEW p \in Passes, Nominate(p) PROVE EvidenceInv'
  <2>1. Row(p) \notin Barred /\ Original(Row(p))
    BY <1>16 DEF Nominate, EvidenceInv, EchoFacts
  <2>2. /\ \A q \in Passes : Row(q)' = Row(q)
        /\ \A q \in Passes \ {p} : pc'[q] = pc[q]
        /\ pc'[p] = "judge"
        /\ UNCHANGED <<log, done, source, graph, recent, extracted>>
    BY <1>1, <1>16 DEF Nominate, Go, TypeOK, Row, store, volatile
  <2> QED
    BY <1>2, <2>1, <2>2, StayEvidence
<1>17. ASSUME NEW p \in Passes, Finish(p) \/ Crash(p) \/ EmbedFails(p) PROVE EvidenceInv'
  BY <1>5, <1>17 DEF Finish, Crash, EmbedFails
<1>18. CASE UNCHANGED vars
  <2>1. \A q \in Passes : Row(q)' = Row(q)
    BY <1>18 DEF Row, vars, volatile
  <2>2. EchoFacts'
    BY <1>18, <2>1, SameLog DEF EvidenceInv, EchoFacts, vars, store, volatile, Barred
  <2>3. NeverSelfConfirms'
    BY <1>18 DEF EvidenceInv, NeverSelfConfirms, Repeats, Logged, ToSet, vars, store, volatile
  <2>4. MarksTruthful'
    BY <1>18 DEF EvidenceInv, MarksTruthful, FlagMatchesEffects, EchoAudited, Repeats, ToSet,
                 vars, store
  <2> QED
    BY <2>2, <2>3, <2>4 DEF EvidenceInv
<1> QED
  BY <1>3, <1>6, <1>7, <1>8, <1>9, <1>10, <1>11, <1>12, <1>13, <1>14, <1>15, <1>16, <1>17, <1>18
     DEF Next, PassStep

LEMMA EvidenceHolds == Spec => [](Inv /\ EvidenceInv)
<1>1. Inv /\ EvidenceInv /\ [Next]_vars => Inv' /\ EvidenceInv'
  BY Invariance, EvidenceStep
<1> QED
  BY <1>1, InitInv, InitEvidence, PTL DEF Spec

\* The system's conclusions, what repeats them within the window and its records
\* of approved actions never become evidence, however many passes overlap, crash
\* and fail, for any similarity relation and any window.
THEOREM SelfConfirmation == Spec => []NeverSelfConfirms
<1>1. EvidenceInv => NeverSelfConfirms
  BY DEF EvidenceInv
<1> QED
  BY <1>1, EvidenceHolds, PTL

\* A row is marked consolidated exactly when it was applied or must not be, and
\* an echo's source is a conclusion it really repeats.
THEOREM Truthful == Spec => []MarksTruthful
<1>1. EvidenceInv => MarksTruthful
  BY DEF EvidenceInv
<1> QED
  BY <1>1, EvidenceHolds, PTL

-----------------------------------------------------------------------------
(* The replay order. *)

\* R arranges S in one way only.
Arranges(R, S) ==
  /\ \A x \in S : <<x, x>> \notin R
  /\ \A x, y \in S : x # y => <<x, y>> \in R \/ <<y, x>> \in R
  /\ \A x, y, z \in S : <<x, y>> \in R /\ <<y, z>> \in R => <<x, z>> \in R

\* How many elements of S come before each.
Rank(S, R) == [x \in S |-> Cardinality({y \in S : <<y, x>> \in R})]

\* The ranks are those from 0 on, each of one element, the lower of the earlier.
LEMMA Ranks ==
  ASSUME NEW S, IsFiniteSet(S), NEW R, Arranges(R, S)
  PROVE  /\ Cardinality(S) \in Nat
         /\ Rank(S, R) \in [S -> 0..(Cardinality(S) - 1)]
         /\ \A k \in 0..(Cardinality(S) - 1) : \E x \in S : Rank(S, R)[x] = k
         /\ \A x, y \in S : Rank(S, R)[x] = Rank(S, R)[y] => x = y
         /\ \A x, y \in S : <<x, y>> \in R <=> Rank(S, R)[x] < Rank(S, R)[y]
PROOF
<1> DEFINE n       == Cardinality(S)
           pre(x)  == {y \in S : <<y, x>> \in R}
           rank(x) == Cardinality(pre(x))
           r       == Rank(S, R)
           f       == [x \in S |-> rank(x) + 1]
<1>1. n \in Nat
  BY FS_CardinalityType
<1>2. ASSUME NEW x \in S
      PROVE  IsFiniteSet(pre(x)) /\ rank(x) \in Nat /\ rank(x) < n
  <2>1. IsFiniteSet(S \ {x}) /\ Cardinality(S \ {x}) = n - 1
    BY FS_RemoveElement
  <2>2. pre(x) \in SUBSET (S \ {x})
    BY DEF Arranges
  <2>3. IsFiniteSet(pre(x)) /\ Cardinality(pre(x)) <= Cardinality(S \ {x})
    BY <2>1, <2>2, FS_Subset
  <2>4. Cardinality(pre(x)) \in Nat
    BY <2>3, FS_CardinalityType
  <2> QED
    BY <1>1, <2>1, <2>3, <2>4
<1>3. ASSUME NEW x \in S, NEW y \in S, <<x, y>> \in R
      PROVE  rank(x) < rank(y)
  <2>1. pre(x) \in SUBSET pre(y) /\ pre(x) # pre(y)
    <3>1. \A z \in pre(x) : z \in pre(y)
      BY <1>3 DEF Arranges
    <3>2. x \in pre(y) /\ x \notin pre(x)
      BY <1>3 DEF Arranges
    <3> QED
      BY <3>1, <3>2
  <2> HIDE DEF pre
  <2>2. IsFiniteSet(pre(y)) /\ Cardinality(pre(x)) \in Nat /\ Cardinality(pre(y)) \in Nat
    BY <1>2
  <2>3. /\ Cardinality(pre(x)) <= Cardinality(pre(y))
        /\ Cardinality(pre(y)) = Cardinality(pre(x)) => pre(y) = pre(x)
    BY <2>1, <2>2, FS_Subset
  <2> QED
    BY <2>1, <2>2, <2>3
<1>4. r = [x \in S |-> rank(x)]
  BY DEF Rank
<1> HIDE DEF pre, rank, r, n
<1>5. ASSUME NEW x \in S, NEW y \in S, rank(x) = rank(y)
      PROVE  x = y
  <2>1. <<x, y>> \notin R /\ <<y, x>> \notin R
    BY <1>2, <1>3, <1>5
  <2> QED
    BY <2>1 DEF Arranges
<1>6. f \in Injection(S, 1..n)
  <2>1. \A x \in S : f[x] = rank(x) + 1 /\ f[x] \in 1..n
    BY <1>1, <1>2
  <2>2. \A x, y \in S : f[x] = f[y] => x = y
    BY <1>2, <1>5, <2>1
  <2>3. f \in [S -> 1..n]
    BY <2>1
  <2> QED
    BY <2>2, <2>3 DEF Injection, IsInjective
<1>7. f \in Surjection(S, 1..n)
  <2>1. IsFiniteSet(1..n) /\ Cardinality(1..n) = n
    BY <1>1, FS_Interval
  <2>2. Cardinality(S) = Cardinality(1..n)
    BY <2>1 DEF n
  <2> QED
    BY <1>6, <2>1, <2>2, FS_Injection
<1>8. ASSUME NEW k \in 0..(n - 1) PROVE \E x \in S : r[x] = k
  <2>1. k + 1 \in 1..n
    BY <1>1
  <2>2. PICK x \in S : f[x] = k + 1
    BY <1>7, <2>1 DEF Surjection
  <2> QED
    BY <1>2, <1>4, <2>2
<1>9. r \in [S -> 0..(n - 1)]
  BY <1>1, <1>2, <1>4
<1>10. ASSUME NEW x \in S, NEW y \in S, r[x] < r[y] PROVE <<x, y>> \in R
  <2>1. rank(x) < rank(y) /\ rank(x) \in Nat /\ rank(y) \in Nat
    BY <1>2, <1>4, <1>10
  <2>2. <<y, x>> \notin R /\ x # y
    BY <1>3, <2>1
  <2> QED
    BY <2>2 DEF Arranges
<1>11. /\ \A x, y \in S : r[x] = r[y] => x = y
       /\ \A x, y \in S : <<x, y>> \in R <=> r[x] < r[y]
  BY <1>3, <1>4, <1>5, <1>10
<1> QED
  BY <1>1, <1>8, <1>9, <1>11 DEF n, r

\* InOrder lists every element once, the earlier before the later one.
LEMMA InOrderLists ==
  ASSUME NEW S, IsFiniteSet(S), NEW R, Arranges(R, S)
  PROVE  /\ InOrder(S, R) \in [1..Cardinality(S) -> S]
         /\ \A x \in S : \E k \in 1..Cardinality(S) : InOrder(S, R)[k] = x
         /\ \A j, k \in 1..Cardinality(S) :
              j < k => <<InOrder(S, R)[j], InOrder(S, R)[k]>> \in R
PROOF
<1> DEFINE n      == Cardinality(S)
           r      == Rank(S, R)
           o      == InOrder(S, R)
           kth(k) == CHOOSE x \in S : r[x] = k - 1
<1>1. o = [k \in 1..n |-> kth(k)]
  <2>1. \A x \in S : r[x] = Cardinality({y \in S : <<y, x>> \in R})
    BY DEF Rank
  <2>2. \A k : kth(k) = CHOOSE x \in S : Cardinality({y \in S : <<y, x>> \in R}) = k - 1
    BY <2>1
  <2> HIDE DEF kth
  <2> QED
    BY <2>2 DEF InOrder
<1> HIDE DEF n, r, o
<1>2. /\ n \in Nat /\ r \in [S -> 0..(n - 1)]
      /\ \A k \in 0..(n - 1) : \E x \in S : r[x] = k
      /\ \A x, y \in S : r[x] = r[y] => x = y
      /\ \A x, y \in S : <<x, y>> \in R <=> r[x] < r[y]
  BY Ranks DEF n, r
<1>3. \A k \in 1..n : kth(k) \in S /\ r[kth(k)] = k - 1
  <2> SUFFICES ASSUME NEW k \in 1..n PROVE kth(k) \in S /\ r[kth(k)] = k - 1
    OBVIOUS
  <2>1. k - 1 \in 0..(n - 1)
    BY <1>2
  <2>2. \E x \in S : r[x] = k - 1
    BY <1>2, <2>1
  <2> QED
    BY <2>2
<1> HIDE DEF kth
<1>4. \A k \in 1..n : o[k] \in S /\ r[o[k]] = k - 1
  BY <1>1, <1>3
<1>5. o \in [1..n -> S]
  BY <1>1, <1>3
<1>6. ASSUME NEW x \in S PROVE \E k \in 1..n : o[k] = x
  <2>1. r[x] + 1 \in 1..n /\ r[x] \in Nat
    BY <1>2
  <2>2. o[r[x] + 1] \in S /\ r[o[r[x] + 1]] = r[x]
    BY <1>4, <2>1
  <2> QED
    BY <1>2, <2>1, <2>2
<1>7. \A j, k \in 1..n : j < k => <<o[j], o[k]>> \in R
  BY <1>2, <1>4
<1> QED
  BY <1>5, <1>6, <1>7 DEF n, o

LEMMA TimesArrange ==
  ASSUME NEW S \in SUBSET LogRow, DistinctIds(S), \A a \in S : a.event_ts # NoTs
  PROVE  Arranges({p \in S \X S : Older(p[1], p[2])}, S)
PROOF
<1>1. \A a \in S : a.id \in Int /\ a.event_ts \in Int
  BY DEF LogRow
<1>2. \A a, b : <<a, b>> \in {p \in S \X S : Older(p[1], p[2])} <=> a \in S /\ b \in S /\ Older(a, b)
  OBVIOUS
<1>3. \A a, b \in S : a # b => a.id # b.id
  BY DEF DistinctIds
<1>4. /\ \A a \in S : ~Older(a, a)
      /\ \A a, b \in S : a # b => Older(a, b) \/ Older(b, a)
      /\ \A a, b, c \in S : Older(a, b) /\ Older(b, c) => Older(a, c)
  BY <1>1, <1>3 DEF Older
<1> QED
  BY <1>2, <1>4 DEF Arranges

LEMMA PrioritiesArrange ==
  ASSUME NEW S \in SUBSET LogRow, DistinctIds(S)
  PROVE  Arranges({p \in S \X S : Before(p[1], p[2])}, S)
PROOF
<1>1. \A a \in S : a.id \in Int /\ a.hard_keep \in Int /\ a.salience \in Int
  BY DEF LogRow
<1>2. \A a, b : <<a, b>> \in {p \in S \X S : Before(p[1], p[2])} <=> a \in S /\ b \in S /\ Before(a, b)
  OBVIOUS
<1>3. \A a, b \in S : a # b => a.id # b.id
  BY DEF DistinctIds
<1>4. /\ \A a \in S : ~Before(a, a)
      /\ \A a, b \in S : a # b => Before(a, b) \/ Before(b, a)
      /\ \A a, b, c \in S : Before(a, b) /\ Before(b, c) => Before(a, c)
  BY <1>1, <1>3 DEF Before
<1> QED
  BY <1>2, <1>4 DEF Arranges

Slots(T) == T \subseteq Nat /\ IsFiniteSet(T)

\* The place of each slot among the slots: the k-th gets the k-th place.
LEMMA Places ==
  ASSUME NEW T, Slots(T)
  PROVE  /\ Cardinality(T) \in Nat
         /\ \A i \in T : Cardinality({j \in T : j <= i}) \in 1..Cardinality(T)
         /\ \A k \in 1..Cardinality(T) : \E i \in T : Cardinality({j \in T : j <= i}) = k
         /\ \A i, j \in T : i < j => Cardinality({k \in T : k <= i}) < Cardinality({k \in T : k <= j})
PROOF
<1>1. PICK R : \A i, j : <<i, j>> \in R <=> i \in T /\ j \in T /\ i < j
  <2> DEFINE Q == {p \in T \X T : p[1] < p[2]}
  <2>1. \A i, j : <<i, j>> \in Q <=> i \in T /\ j \in T /\ i < j
    OBVIOUS
  <2> HIDE DEF Q
  <2> QED
    BY <2>1
<1>0. IsFiniteSet(T)
  BY DEF Slots
<1> DEFINE r        == Rank(T, R)
           n        == Cardinality(T)
           place(i) == Cardinality({j \in T : j <= i})
<1>2. Arranges(R, T)
  <2>1. \A i \in T : i \in Nat
    BY DEF Slots
  <2>2. \A i \in T : ~(i < i)
    BY <2>1
  <2>3. \A i, j \in T : i # j => i < j \/ j < i
    BY <2>1
  <2>4. \A i, j, k \in T : i < j /\ j < k => i < k
    BY <2>1
  <2> QED
    BY <1>1, <2>2, <2>3, <2>4 DEF Arranges
<1>3. ASSUME NEW i \in T PROVE place(i) = r[i] + 1
  <2> DEFINE below == {j \in T : <<j, i>> \in R}
  <2>1. r[i] = Cardinality(below)
    BY DEF Rank
  <2>2. {j \in T : j <= i} = below \cup {i} /\ i \notin below
    <3>1. \A j \in T : j \in Nat
      BY DEF Slots
    <3>2. \A j \in T : j <= i <=> j < i \/ j = i
      BY <3>1
    <3>3. \A j \in T : j \in below <=> j < i
      BY <1>1
    <3>4. i \notin below
      BY <3>1, <3>3
    <3>5. \A j : j \in {k \in T : k <= i} <=> j \in below \cup {i}
      BY <3>2, <3>3
    <3> QED
      BY <3>4, <3>5
  <2> HIDE DEF below
  <2>3. below \in SUBSET T
    BY DEF below
  <2>4. IsFiniteSet(below)
    BY <1>0, <2>3, FS_Subset
  <2>5. Cardinality(below \cup {i}) = Cardinality(below) + 1
    BY <2>2, <2>4, FS_AddElement
  <2> QED
    BY <2>1, <2>2, <2>5
<1> HIDE DEF r, n, place
<1>4. /\ n \in Nat /\ r \in [T -> 0..(n - 1)]
      /\ \A k \in 0..(n - 1) : \E i \in T : r[i] = k
      /\ \A i, j \in T : <<i, j>> \in R <=> r[i] < r[j]
  <2>1. /\ Cardinality(T) \in Nat /\ Rank(T, R) \in [T -> 0..(Cardinality(T) - 1)]
        /\ \A k \in 0..(Cardinality(T) - 1) : \E i \in T : Rank(T, R)[i] = k
        /\ \A i, j \in T : <<i, j>> \in R <=> Rank(T, R)[i] < Rank(T, R)[j]
    BY <1>0, <1>2, Ranks
  <2> QED
    BY <2>1 DEF n, r
<1>5. \A i \in T : r[i] \in 0..(n - 1) /\ place(i) = r[i] + 1
  BY <1>3, <1>4
<1>6. \A i \in T : place(i) \in 1..n
  BY <1>4, <1>5
<1>7. ASSUME NEW k \in 1..n PROVE \E i \in T : place(i) = k
  <2>1. k - 1 \in 0..(n - 1)
    BY <1>4
  <2>2. PICK i \in T : r[i] = k - 1
    BY <1>4, <2>1
  <2> QED
    BY <1>5, <2>2
<1>8. ASSUME NEW i \in T, NEW j \in T, i < j PROVE place(i) < place(j)
  <2>1. r[i] < r[j]
    BY <1>1, <1>4, <1>8
  <2> QED
    BY <1>5, <2>1
<1> QED
  BY <1>4, <1>6, <1>7, <1>8 DEF n, place

Times(b) == {b[i] : i \in TimedSlots(b)}

LEMMA BacklogFacts ==
  ASSUME NEW b, IsBacklog(b)
  PROVE  /\ Len(b) \in Nat /\ DOMAIN b = 1..Len(b) /\ \A i \in DOMAIN b : b[i] \in LogRow
         /\ Slots(TimedSlots(b)) /\ TimedSlots(b) \subseteq DOMAIN b
         /\ Times(b) \in SUBSET LogRow /\ DistinctIds(Times(b)) /\ \A a \in Times(b) : a.event_ts # NoTs
         /\ IsFiniteSet(Times(b)) /\ Cardinality(Times(b)) = Cardinality(TimedSlots(b))
PROOF
<1> DEFINE slots == TimedSlots(b)
<1>1. Len(b) \in Nat /\ DOMAIN b = 1..Len(b) /\ \A i \in DOMAIN b : b[i] \in LogRow
  BY DEF IsBacklog
<1>2. slots \subseteq DOMAIN b /\ \A i \in slots : b[i].event_ts # NoTs
  BY DEF TimedSlots
<1>3. IsFiniteSet(slots)
  <2>1. IsFiniteSet(1..Len(b))
    BY <1>1, FS_Interval
  <2> QED
    BY <1>1, <1>2, <2>1, FS_Subset
<1>4. Slots(slots)
  BY <1>1, <1>2, <1>3 DEF Slots
<1> HIDE DEF slots
<1>5. Times(b) = {b[i] : i \in slots}
  BY DEF Times, slots
<1>6. Times(b) \in SUBSET LogRow /\ \A a \in Times(b) : a.event_ts # NoTs
  BY <1>1, <1>2, <1>5
<1>7. \A i, j \in slots : b[i].id = b[j].id => i = j
  BY <1>2 DEF IsBacklog
<1>8. DistinctIds(Times(b))
  BY <1>5, <1>7 DEF DistinctIds
<1>9. IsFiniteSet(Times(b)) /\ Cardinality(Times(b)) = Cardinality(slots)
  <2> DEFINE f == [i \in slots |-> b[i]]
  <2>1. f \in [slots -> Times(b)] /\ \A i, j \in slots : f[i] = f[j] => i = j
    BY <1>5, <1>7
  <2>2. \A a \in Times(b) : \E i \in slots : f[i] = a
    BY <1>5
  <2> HIDE DEF f
  <2>3. f \in Bijection(slots, Times(b))
    BY <2>1, <2>2 DEF Bijection, Injection, IsInjective, Surjection
  <2> QED
    BY <1>3, <2>3, FS_Bijection DEF ExistsBijection
<1> QED
  BY <1>1, <1>2, <1>4, <1>6, <1>8, <1>9 DEF slots

\* What orderEpisodesForConsolidation returns: the timed rows from the oldest on
\* in the slots of timed rows, everything else where it was.
LEMMA Ordering ==
  ASSUME NEW b, IsBacklog(b)
  PROVE  LET out == OrderEpisodes(b) IN
         /\ out \in [DOMAIN b -> LogRow]
         /\ \A i \in TimedSlots(b) : out[i] \in Times(b)
         /\ \A a \in Times(b) : \E i \in TimedSlots(b) : out[i] = a
         /\ \A i, j \in TimedSlots(b) : i < j => Older(out[i], out[j])
         /\ \A i \in DOMAIN b \ TimedSlots(b) : out[i] = b[i]
PROOF
<1> DEFINE slots    == TimedSlots(b)
           timed    == Times(b)
           sorted   == ByEventTime(timed)
           m        == Cardinality(slots)
           place(i) == Cardinality({j \in slots : j <= i})
           out      == OrderEpisodes(b)
<1>1. /\ DOMAIN b = 1..Len(b) /\ \A i \in DOMAIN b : b[i] \in LogRow
      /\ Slots(slots) /\ slots \subseteq DOMAIN b /\ IsFiniteSet(slots)
      /\ timed \in SUBSET LogRow /\ IsFiniteSet(timed) /\ Cardinality(timed) = m
  BY BacklogFacts DEF Slots
<1>2. b = [i \in DOMAIN b |-> b[i]]
  BY DEF IsBacklog
<1>3. timed = {b[i] : i \in slots}
  BY DEF Times
<1>4. out = IF m < 2 THEN b ELSE [i \in DOMAIN b |-> IF i \in slots THEN sorted[place(i)] ELSE b[i]]
  BY DEF OrderEpisodes, Times
<1>5. /\ sorted \in [1..m -> timed]
      /\ \A a \in timed : \E k \in 1..m : sorted[k] = a
      /\ \A j, k \in 1..m : j < k => Older(sorted[j], sorted[k])
  <2> DEFINE R == {p \in timed \X timed : Older(p[1], p[2])}
  <2>1. Arranges(R, timed)
    BY BacklogFacts, TimesArrange
  <2>2. sorted = InOrder(timed, R)
    BY DEF ByEventTime
  <2>3. \A x, y : <<x, y>> \in R => Older(x, y)
    OBVIOUS
  <2> HIDE DEF R, timed, m
  <2>4. /\ InOrder(timed, R) \in [1..Cardinality(timed) -> timed]
        /\ \A x \in timed : \E k \in 1..Cardinality(timed) : InOrder(timed, R)[k] = x
        /\ \A j, k \in 1..Cardinality(timed) :
             j < k => <<InOrder(timed, R)[j], InOrder(timed, R)[k]>> \in R
    BY <1>1, <2>1, InOrderLists
  <2> QED
    BY <1>1, <2>2, <2>3, <2>4
<1>6. /\ m \in Nat /\ \A i \in slots : place(i) \in 1..m
      /\ \A k \in 1..m : \E i \in slots : place(i) = k
      /\ \A i, j \in slots : i < j => place(i) < place(j)
  BY <1>1, Places
<1> HIDE DEF slots, timed, sorted, m, place, out
<1>7. CASE m < 2
  <2>1. out = b
    BY <1>4, <1>7
  <2>2. slots = {} \/ \E i : slots = {i}
    <3>1. m = 0 \/ m = 1
      BY <1>6, <1>7
    <3>2. IsFiniteSet(slots) /\ (Cardinality(slots) = 0 \/ Cardinality(slots) = 1)
      BY <1>1, <3>1 DEF m
    <3> QED
      BY <3>2, FS_EmptySet, FS_Singleton
  <2>3. \A i, j \in slots : ~(i < j)
    <3>1. \A i \in slots : i \in Nat
      BY <1>1 DEF Slots
    <3> QED
      BY <2>2, <3>1
  <2>4. out \in [DOMAIN b -> LogRow]
    BY <1>1, <1>2, <2>1
  <2> QED
    BY <1>3, <2>1, <2>3, <2>4 DEF slots, timed, out
<1>8. CASE ~(m < 2)
  <2>1. out = [i \in DOMAIN b |-> IF i \in slots THEN sorted[place(i)] ELSE b[i]]
    BY <1>4, <1>8
  <2>2. \A i \in slots : out[i] = sorted[place(i)] /\ out[i] \in timed
    BY <1>1, <1>5, <1>6, <2>1
  <2>3. \A i \in DOMAIN b \ slots : out[i] = b[i]
    BY <2>1
  <2>4. out \in [DOMAIN b -> LogRow]
    BY <1>1, <2>1, <2>2, <2>3
  <2>5. ASSUME NEW a \in timed PROVE \E i \in slots : out[i] = a
    <3>1. PICK k \in 1..m : sorted[k] = a
      BY <1>5
    <3>2. PICK i \in slots : place(i) = k
      BY <1>6
    <3> QED
      BY <2>2, <3>1, <3>2
  <2>6. ASSUME NEW i \in slots, NEW j \in slots, i < j PROVE Older(out[i], out[j])
    <3>1. place(i) < place(j) /\ place(i) \in 1..m /\ place(j) \in 1..m
      BY <1>6, <2>6
    <3> QED
      BY <1>5, <2>2, <3>1
  <2> QED
    BY <2>2, <2>3, <2>4, <2>5, <2>6 DEF slots, timed, out
<1> QED
  BY <1>7, <1>8

\* The reordered list is a list of the same rows, its timed slots the same ones.
LEMMA Reordered ==
  ASSUME NEW b, IsBacklog(b)
  PROVE  /\ IsBacklog(OrderEpisodes(b))
         /\ TimedSlots(OrderEpisodes(b)) = TimedSlots(b)
         /\ Times(OrderEpisodes(b)) = Times(b)
         /\ SlotPreserving(b, OrderEpisodes(b))
         /\ OldestFirst(OrderEpisodes(b))
PROOF
<1> DEFINE out == OrderEpisodes(b)
           T   == TimedSlots(b)
<1>1. /\ out \in [DOMAIN b -> LogRow]
      /\ \A i \in T : out[i] \in Times(b)
      /\ \A a \in Times(b) : \E i \in T : out[i] = a
      /\ \A i, j \in T : i < j => Older(out[i], out[j])
      /\ \A i \in DOMAIN b \ T : out[i] = b[i]
  BY Ordering
<1>2. /\ Len(b) \in Nat /\ DOMAIN b = 1..Len(b) /\ \A i \in DOMAIN b : b[i] \in LogRow
      /\ T \subseteq DOMAIN b
      /\ Times(b) \in SUBSET LogRow /\ \A a \in Times(b) : a.event_ts # NoTs
  BY BacklogFacts
<1>3. /\ \A i \in DOMAIN b : i \in T <=> b[i].event_ts # NoTs
      /\ \A a : a \in Times(b) <=> \E i \in T : a = b[i]
      /\ \A i \in DOMAIN out : i \in TimedSlots(out) <=> out[i].event_ts # NoTs
      /\ TimedSlots(out) \subseteq DOMAIN out
  BY DEF TimedSlots, Times
<1>4. \A i, j \in DOMAIN b : b[i].id = b[j].id => i = j
  BY DEF IsBacklog
<1> HIDE DEF out, T
<1>5. DOMAIN out = DOMAIN b
  BY <1>1
<1>6. TimedSlots(out) = T
  <2>1. \A i \in DOMAIN b : i \in T <=> out[i].event_ts # NoTs
    BY <1>1, <1>2, <1>3
  <2> QED
    BY <1>2, <1>3, <1>5, <2>1
<1>7. Times(out) = Times(b)
  <2>1. \A a : a \in Times(out) <=> \E i \in T : a = out[i]
    BY <1>6 DEF Times
  <2> QED
    BY <1>1, <2>1
<1>8. out \in Seq(LogRow)
  BY <1>1, <1>2
<1>9. ASSUME NEW i \in T, NEW j \in T, out[i].id = out[j].id PROVE i = j
  <2>1. i \in Int /\ j \in Int
    BY <1>2
  <2>2. ~Older(out[i], out[j]) /\ ~Older(out[j], out[i])
    <3>1. out[i] = out[j]
      BY <1>1, <1>3, <1>4, <1>2, <1>9
    <3>2. out[i].id \in Int /\ out[i].event_ts \in Int
      BY <1>1, <1>2 DEF LogRow
    <3> QED
      BY <3>1, <3>2 DEF Older
  <2> QED
    BY <1>1, <2>1, <2>2
<1>10. ASSUME NEW i \in DOMAIN out, NEW j \in DOMAIN out, out[i].id = out[j].id PROVE i = j
  <2>1. CASE i \in T /\ j \in T
    BY <1>9, <1>10, <2>1
  <2>2. CASE i \notin T /\ j \notin T
    BY <1>1, <1>4, <1>5, <1>10, <2>2
  <2>3. ASSUME NEW k \in T, NEW l \in DOMAIN b \ T PROVE out[k].id # out[l].id
    <3>1. PICK h \in T : out[k] = b[h]
      BY <1>1, <1>3
    <3> QED
      BY <1>1, <1>2, <1>4, <3>1
  <2> QED
    BY <1>5, <1>10, <2>1, <2>2, <2>3
<1>11. SlotPreserving(b, out)
  <2>1. \A a : a \in ToSet(out) <=> \E i \in DOMAIN b : out[i] = a
    BY <1>5 DEF ToSet
  <2>2. \A a : a \in ToSet(b) <=> \E i \in DOMAIN b : b[i] = a
    BY DEF ToSet
  <2>3. \A i \in DOMAIN b : \E j \in DOMAIN b : out[i] = b[j]
    BY <1>1, <1>2, <1>3
  <2>4. \A i \in DOMAIN b : \E j \in DOMAIN b : b[i] = out[j]
    BY <1>1, <1>2, <1>3
  <2>5. ToSet(out) = ToSet(b)
    BY <2>1, <2>2, <2>3, <2>4
  <2> QED
    BY <1>1, <1>5, <2>5 DEF SlotPreserving, T
<1>12. OldestFirst(out)
  BY <1>1, <1>6 DEF OldestFirst
<1> QED
  BY <1>6, <1>7, <1>8, <1>10, <1>11, <1>12 DEF IsBacklog, out, T

\* "Idempotent" (episode-order.ts): a reordered list is not changed again.
THEOREM OrderedOnce == \A b : IsBacklog(b) => OrderEpisodes(OrderEpisodes(b)) = OrderEpisodes(b)
PROOF
<1> SUFFICES ASSUME NEW b, IsBacklog(b) PROVE OrderEpisodes(OrderEpisodes(b)) = OrderEpisodes(b)
  OBVIOUS
<1> DEFINE out      == OrderEpisodes(b)
           T        == TimedSlots(b)
           sorted   == ByEventTime(Times(b))
           place(i) == Cardinality({j \in T : j <= i})
<1>1. /\ IsBacklog(out) /\ TimedSlots(out) = T /\ Times(out) = Times(b) /\ DOMAIN out = DOMAIN b
  BY Reordered DEF SlotPreserving
<1>2. OrderEpisodes(b) = IF Cardinality(T) < 2 THEN b
                         ELSE [i \in DOMAIN b |-> IF i \in T THEN sorted[place(i)] ELSE b[i]]
  BY DEF OrderEpisodes, Times
<1> HIDE DEF out
<1>3. OrderEpisodes(out) = IF Cardinality(TimedSlots(out)) < 2 THEN out
        ELSE [i \in DOMAIN out |-> IF i \in TimedSlots(out)
                THEN ByEventTime(Times(out))[Cardinality({j \in TimedSlots(out) : j <= i})] ELSE out[i]]
  BY DEF OrderEpisodes, Times
<1>4. OrderEpisodes(out) = IF Cardinality(T) < 2 THEN out
        ELSE [i \in DOMAIN out |-> IF i \in T THEN sorted[place(i)] ELSE out[i]]
  BY <1>1, <1>3
<1> HIDE DEF T, sorted, place
<1>5. CASE Cardinality(T) < 2
  BY <1>4, <1>5 DEF out
<1>6. CASE ~(Cardinality(T) < 2)
  <2>1. out = [i \in DOMAIN b |-> IF i \in T THEN sorted[place(i)] ELSE b[i]]
    BY <1>2, <1>6 DEF out
  <2>2. OrderEpisodes(out) = [i \in DOMAIN b |-> IF i \in T THEN sorted[place(i)] ELSE out[i]]
    BY <1>1, <1>4, <1>6
  <2>3. \A i \in DOMAIN b : i \notin T => out[i] = b[i]
    BY <2>1
  <2> QED
    BY <2>1, <2>2, <2>3 DEF out
<1> QED
  BY <1>5, <1>6

\* The query returns every row of the set once.
LEMMA Listed ==
  ASSUME NEW S \in SUBSET LogRow, IsFiniteSet(S), DistinctIds(S)
  PROVE  IsBacklog(ListUnconsolidated(S)) /\ ToSet(ListUnconsolidated(S)) = S
PROOF
<1> DEFINE Q == {p \in S \X S : Before(p[1], p[2])}
           n == Cardinality(S)
           l == ListUnconsolidated(S)
<1>1. n \in Nat
  BY FS_CardinalityType
<1>2. /\ l \in [1..n -> S]
      /\ \A x \in S : \E k \in 1..n : l[k] = x
      /\ \A j, k \in 1..n : j < k => Before(l[j], l[k])
  <2>1. Arranges(Q, S) /\ l = InOrder(S, Q)
    BY PrioritiesArrange DEF ListUnconsolidated
  <2>2. \A x, y : <<x, y>> \in Q => Before(x, y)
    OBVIOUS
  <2> HIDE DEF Q, n, l
  <2>3. /\ InOrder(S, Q) \in [1..Cardinality(S) -> S]
        /\ \A x \in S : \E k \in 1..Cardinality(S) : InOrder(S, Q)[k] = x
        /\ \A j, k \in 1..Cardinality(S) :
             j < k => <<InOrder(S, Q)[j], InOrder(S, Q)[k]>> \in Q
    BY <2>1, InOrderLists
  <2> QED
    BY <2>1, <2>2, <2>3 DEF n
<1> HIDE DEF n, l
<1>3. l \in Seq(LogRow) /\ DOMAIN l = 1..n
  BY <1>1, <1>2
<1>4. ASSUME NEW i \in 1..n, NEW j \in 1..n, l[i].id = l[j].id PROVE i = j
  <2>1. l[i] = l[j] /\ l[i] \in LogRow
    BY <1>2, <1>4 DEF DistinctIds
  <2>2. ~Before(l[i], l[j]) /\ ~Before(l[j], l[i])
    <3>1. l[i].id \in Int /\ l[i].hard_keep \in Int /\ l[i].salience \in Int
      BY <2>1 DEF LogRow
    <3> QED
      BY <2>1, <3>1 DEF Before
  <2> QED
    BY <1>1, <1>2, <2>2
<1>5. IsBacklog(l)
  BY <1>3, <1>4 DEF IsBacklog
<1>6. ToSet(l) = S
  BY <1>2, <1>3 DEF ToSet
<1> QED
  BY <1>5, <1>6 DEF l

\* What SleepPass assumes of Order holds of the order the code computes: whatever
\* the rows of the pending episodes, a pass replays every episode, and once.
THEOREM ReplayedOnce ==
  ASSUME NEW S, IsFiniteSet(S), NEW row \in [S -> LogRow],
         \A e, f \in S : row[e].id = row[f].id => e = f
  PROVE  /\ ReplayOrder(S, row) \in Seq(S)
         /\ \A e \in S : \E i \in DOMAIN ReplayOrder(S, row) : ReplayOrder(S, row)[i] = e
         /\ \A i, j \in DOMAIN ReplayOrder(S, row) :
              ReplayOrder(S, row)[i] = ReplayOrder(S, row)[j] => i = j
PROOF
<1> DEFINE all  == {row[e] : e \in S}
           l    == ListUnconsolidated(all)
           out  == OrderEpisodes(l)
           o    == ReplayOrder(S, row)
           picked(i) == CHOOSE e \in S : row[e] = out[i]
<1>1. all \in SUBSET LogRow /\ DistinctIds(all)
  BY DEF DistinctIds
<1>2. IsFiniteSet(all)
  <2>1. \A x, y \in S : row[x] = row[y] => x = y
    OBVIOUS
  <2>2. row \in Bijection(S, all)
    BY <2>1 DEF Bijection, Injection, IsInjective, Surjection
  <2> HIDE DEF all
  <2> QED
    BY <2>2, FS_Bijection DEF ExistsBijection
<1>3. o = [i \in DOMAIN out |-> picked(i)]
  BY DEF ReplayOrder
<1>4. \A r : r \in all <=> \E e \in S : row[e] = r
  OBVIOUS
<1> HIDE DEF all, l, out, o
<1>5. IsBacklog(l) /\ ToSet(l) = all
  BY <1>1, <1>2, Listed DEF l
<1>6. IsBacklog(out) /\ ToSet(out) = all
  BY <1>5, Reordered DEF out, SlotPreserving
<1>7. /\ Len(out) \in Nat /\ DOMAIN out = 1..Len(out)
      /\ \A i \in DOMAIN out : out[i] \in all
      /\ \A r \in all : \E i \in DOMAIN out : out[i] = r
      /\ \A i, j \in DOMAIN out : out[i] = out[j] => i = j
  BY <1>6 DEF IsBacklog, ToSet
<1>8. \A i \in DOMAIN out : picked(i) \in S /\ row[picked(i)] = out[i]
  BY <1>4, <1>7
<1> HIDE DEF picked
<1>9. DOMAIN o = DOMAIN out /\ \A i \in DOMAIN out : o[i] \in S /\ row[o[i]] = out[i]
  BY <1>3, <1>8
<1>10. o \in Seq(S)
  BY <1>3, <1>7, <1>8
<1>11. ASSUME NEW e \in S PROVE \E i \in DOMAIN o : o[i] = e
  <2>1. PICK i \in DOMAIN out : out[i] = row[e]
    BY <1>4, <1>7
  <2> QED
    BY <1>9, <2>1
<1>12. \A i, j \in DOMAIN o : o[i] = o[j] => i = j
  BY <1>7, <1>9
<1> QED
  BY <1>10, <1>11, <1>12 DEF o

-----------------------------------------------------------------------------
(* The document graph. *)

LEMMA AncestorsOfAncestors ==
  ASSUME NEW c, NEW s, NEW t \in Ancestors(c, s), NEW u \in Ancestors(c, t)
  PROVE  u \in Ancestors(c, s)
PROOF
<1>1. u \in Schemas
  BY DEF Ancestors
<1>2. ASSUME NEW T \in SUBSET Schemas,
             Parents(c, s) \subseteq T, \A x \in T : Parents(c, x) \subseteq T
      PROVE  u \in T
  <2>1. t \in T
    BY <1>2 DEF Ancestors
  <2>2. Parents(c, t) \subseteq T
    BY <1>2, <2>1
  <2> QED
    BY <1>2, <2>2 DEF Ancestors
<1> QED
  BY <1>1, <1>2 DEF Ancestors

\* Over a ladder without cycles, covering composes.
LEMMA CoversCompose ==
  ASSUME NEW c, IsCorpus(c), Acyclic(c),
         NEW a \in SubjectsOf(c), NEW b \in SubjectsOf(c), NEW d \in SubjectsOf(c), a # d,
         Covers(c, Above(c), a, b), Covers(c, Above(c), b, d)
  PROVE  Covers(c, Above(c), a, d)
PROOF
<1>1. \A x \in SubjectsOf(c) : c.schemas[x] \subseteq Schemas
  BY DEF IsCorpus
<1>2. \A s \in Schemas : Above(c)[s] = Ancestors(c, s) \ {s}
  BY DEF Above
<1>3. ASSUME NEW s \in c.schemas[d] PROVE Above(c)[s] \cap c.schemas[a] # {}
  <2>1. PICK t \in c.schemas[b] : t \in Above(c)[s]
    BY DEF Covers
  <2>2. PICK u \in c.schemas[a] : u \in Above(c)[t]
    BY <2>1 DEF Covers
  <2>3. s \in Schemas /\ t \in Schemas /\ t \in Ancestors(c, s) /\ u \in Ancestors(c, t)
    BY <1>1, <1>2, <2>1, <2>2
  <2>4. u \in Ancestors(c, s)
    BY <2>3, AncestorsOfAncestors
  <2>5. u # s
    BY <2>3, AncestorsOfAncestors DEF Acyclic
  <2> QED
    BY <1>2, <2>2, <2>3, <2>4, <2>5
<1> QED
  BY <1>3 DEF Covers

\* Two subjects never contain each other, and over a ladder without cycles what
\* is under a subject is under all that is above it (D-06, D-09 of
\* doc-graph-deriver.ts): the tie between subjects that cover each other is
\* broken the same way all along a chain.
THEOREM ContainmentDescends == \A c : IsCorpus(c) => DescendsWell(c)
PROOF
<1> SUFFICES ASSUME NEW c, IsCorpus(c) PROVE DescendsWell(c)
  OBVIOUS
<1>1. /\ \A x \in SubjectsOf(c) : x \in Int
      /\ \A a, b \in SubjectsOf(c) :
           <<a, b>> \in Nested(c) <=> /\ Covers(c, Above(c), a, b)
                                      /\ Covers(c, Above(c), b, a) => a < b
  BY DEF IsCorpus, Nested
<1>2. ASSUME NEW a \in SubjectsOf(c), NEW b \in SubjectsOf(c),
             <<a, b>> \in Nested(c), <<b, a>> \in Nested(c)
      PROVE  FALSE
  BY <1>1, <1>2
<1>3. ASSUME Acyclic(c), NEW a \in SubjectsOf(c), NEW b \in SubjectsOf(c), NEW d \in SubjectsOf(c),
             <<a, b>> \in Nested(c), <<b, d>> \in Nested(c)
      PROVE  <<a, d>> \in Nested(c)
  <2>1. Covers(c, Above(c), a, b) /\ Covers(c, Above(c), b, d)
    BY <1>1, <1>3
  <2>2. a # b /\ b # d /\ a # d
    BY <1>2, <1>3, <2>1 DEF Covers
  <2>3. Covers(c, Above(c), a, d)
    BY <1>3, <2>1, <2>2, CoversCompose
  <2>4. ASSUME Covers(c, Above(c), d, a) PROVE a < d
    <3>1. Covers(c, Above(c), d, b) /\ Covers(c, Above(c), b, a)
      BY <1>3, <2>1, <2>2, <2>4, CoversCompose
    <3> QED
      BY <1>1, <1>3, <3>1
  <2> QED
    BY <1>1, <2>3, <2>4
<1> QED
  BY <1>2, <1>3 DEF DescendsWell

\* Hubs and chapters are no subjects: only nesting contains a subject in another.
LEMMA ContainedSubjects ==
  ASSUME NEW c, IsCorpus(c), NEW a \in SubjectsOf(c), NEW b \in SubjectsOf(c)
  PROVE  <<a, b>> \in Containment(c) <=> <<a, b>> \in Nested(c)
PROOF
<1>1. <<a, b>> \notin HubEdges(c)
  BY DEF HubEdges, IsCorpus
<1>2. <<a, b>> \notin ChapterEdges(c)
  BY DEF ChapterEdges, IsCorpus
<1> QED
  BY <1>1, <1>2 DEF Containment

\* Two subjects are contained or referenced, in one direction, never both; and a
\* subject keeps its best partner whatever TOP_K others that one prefers (D-05).
THEOREM DocumentsLinked == \A c : IsCorpus(c) => LinkedOnce(c)
PROOF
<1> SUFFICES ASSUME NEW c, IsCorpus(c) PROVE LinkedOnce(c)
  OBVIOUS
<1> DEFINE links == Containment(c) \cup Reference(c)
           score == Scores(c)
<1>1. \A x \in SubjectsOf(c) : x \in Int
  BY DEF IsCorpus
<1>2. \A a, b \in SubjectsOf(c) :
        <<a, b>> \in Reference(c) <=>
          /\ a < b /\ (Keeps(c, score, a, b) \/ Keeps(c, score, b, a))
          /\ <<a, b>> \notin Containment(c) /\ <<b, a>> \notin Containment(c)
  BY DEF Reference, Kept
<1> HIDE DEF score
<1>3. ASSUME NEW a \in SubjectsOf(c), NEW b \in SubjectsOf(c), a # b,
             <<a, b>> \in links, <<b, a>> \in links
      PROVE  FALSE
  <2>1. ~(<<a, b>> \in Containment(c) /\ <<b, a>> \in Containment(c))
    BY ContainedSubjects, ContainmentDescends DEF DescendsWell
  <2> QED
    BY <1>1, <1>2, <1>3, <2>1
<1>4. ASSUME NEW a \in SubjectsOf(c), NEW b \in SubjectsOf(c)
      PROVE  Cardinality({e \in links : e \in {<<a, b>>, <<b, a>>}}) <= 1
  <2> DEFINE both == {e \in links : e \in {<<a, b>>, <<b, a>>}}
  <2>1. <<a, b>> \notin both \/ <<b, a>> \notin both \/ a = b
    BY <1>3
  <2>2. both \subseteq {<<a, b>>} \/ both \subseteq {<<b, a>>}
    BY <2>1
  <2> HIDE DEF both
  <2>3. \A e : both \subseteq {e} => Cardinality(both) <= 1
    <3> SUFFICES ASSUME NEW e, both \subseteq {e} PROVE Cardinality(both) <= 1
      OBVIOUS
    <3>1. both = {} \/ both = {e}
      OBVIOUS
    <3>2. Cardinality(both) = 0 \/ Cardinality(both) = 1
      BY <3>1, FS_EmptySet, FS_Singleton
    <3> QED
      BY <3>2
  <2> QED
    BY <2>2, <2>3 DEF both
<1>5. ASSUME NEW i \in SubjectsOf(c), NEW j \in SubjectsOf(c),
             i # j, score[{i, j}] > 0, Better(c, score, i, j) = {}
      PROVE  {<<i, j>>, <<j, i>>} \cap links # {}
  <2>1. Cardinality(Better(c, score, i, j)) < TopK
    BY <1>5, FS_EmptySet, TopKAssumption
  <2>2. Keeps(c, score, i, j)
    BY <1>5, <2>1 DEF Keeps
  <2>3. i < j \/ j < i
    BY <1>1, <1>5
  <2>4. <<i, j>> \in links \/ <<j, i>> \in links
    BY <1>2, <2>2, <2>3
  <2> QED
    BY <2>4
<1> QED
  BY <1>4, <1>5 DEF LinkedOnce, score

-----------------------------------------------------------------------------
(* The algorithms at work. *)

Inputs == IsBacklog(rows) /\ (corpus = NoCorpus \/ IsCorpus(corpus))

LEMMA InputsHold == AlgorithmsSpec => []Inputs
PROOF
<1>1. AlgorithmsInit => Inputs
  <2>1. IsBacklog(<<>>)
    BY DEF IsBacklog
  <2> QED
    BY <2>1, InputAssumption DEF AlgorithmsInit, Inputs
<1>2. Inputs /\ [Reorder]_<<rows, ordered, corpus>> => Inputs'
  <2> SUFFICES ASSUME Inputs, [Reorder]_<<rows, ordered, corpus>> PROVE Inputs'
    OBVIOUS
  <2>1. corpus' = corpus /\ (rows' = rows \/ rows' = OrderEpisodes(rows))
    BY DEF Reorder
  <2> QED
    BY <2>1, Reordered DEF Inputs
<1> QED
  BY <1>1, <1>2, PTL DEF AlgorithmsSpec

\* Whatever the backlog, reordering it loses and repeats nothing, moves no row
\* without an event time and puts the older of two events first
\* (orderEpisodesForConsolidation, EMAIL-04).
THEOREM ReplayOldestFirst == AlgorithmsSpec => ReplaysOldestFirst
PROOF
<1>1. Inputs /\ [Reorder]_<<rows, ordered, corpus>>
        => [SlotPreserving(rows, rows') /\ OldestFirst(rows')]_<<rows, ordered>>
  <2> SUFFICES ASSUME Inputs, [Reorder]_<<rows, ordered, corpus>>,
                      ~UNCHANGED <<rows, ordered>>
               PROVE  SlotPreserving(rows, rows') /\ OldestFirst(rows')
    OBVIOUS
  <2>1. rows' = OrderEpisodes(rows)
    BY DEF Reorder
  <2> QED
    BY <2>1, Reordered DEF Inputs
<1> QED
  BY <1>1, InputsHold, PTL DEF AlgorithmsSpec, ReplaysOldestFirst

\* Containment among subjects is an order to descend by in every corpus.
THEOREM EveryCorpusDescends == AlgorithmsSpec => []Descends
PROOF
<1>1. Inputs => Descends
  BY ContainmentDescends DEF Inputs, Descends
<1> QED
  BY <1>1, InputsHold, PTL

\* In every corpus, two documents are linked once at most and the closest
\* relative of each is linked to it.
THEOREM EveryCorpusLinked == AlgorithmsSpec => []Linked
PROOF
<1>1. Inputs => Linked
  BY DocumentsLinked DEF Inputs, Linked
<1> QED
  BY <1>1, InputsHold, PTL
=============================================================================
