------------------------ MODULE IndexerSafetyProofs ------------------------
(***************************************************************************)
(* The safety invariants of the indexer, for every number of slots, forks  *)
(* and restarts and every batch size.  The three of the tables and the     *)
(* checkpoint are proved together, with what they lean on:                 *)
(*   Batches   where the task is decides which buffers and batches are     *)
(*             empty, so that no drain overwrites rows;                    *)
(*   Forks     while a marker is handled, no row of the new fork exists    *)
(*             yet, so that the DELETEs take orphaned rows only;           *)
(*   Rewinding how far the handler has come: the rows below the marker's   *)
(*             slot are canonical throughout, the others table by table;   *)
(*   Marks     the saved slot is last_slot, and behind the stream.         *)
(***************************************************************************)
EXTENDS Indexer, TLAPS

(***************************************************************************)
(* Lemmas about the helpers.                                               *)
(***************************************************************************)
LEMMA EmptyType == Empty \in [T -> Seq(Row)]
  BY DEF Empty

LEMMA InMemoryType == DataOK => InMemory \subseteq Row
<1> SUFFICES ASSUME DataOK PROVE InMemory \subseteq Row
  OBVIOUS
<1>1. \A t \in T : Elems(buf[t]) \subseteq Row /\ Elems(batch[t]) \subseteq Row
  BY DEF DataOK, Elems
<1> QED
  BY <1>1 DEF InMemory, DataOK

LEMMA PushType ==
  ASSUME DataOK, NEW r \in Row, Push(r)
  PROVE  buf' \in [T -> Seq(Row)]
<1>1. r.table \in T
  BY DEF Row
<1>2. Append(buf[r.table], r) \in Seq(Row)
  BY <1>1 DEF DataOK
<1> QED
  BY <1>1, <1>2 DEF DataOK, Push

LEMMA CommitHeadType ==
  ASSUME DataOK, ti \in T, Len(batch[ti]) > 0, CommitHead
  PROVE  /\ Head(batch[ti]) \in Row
         /\ db' \subseteq Row
         /\ batch' \in [T -> Seq(Row)]
<1>1. batch[ti] \in Seq(Row)
  BY DEF DataOK
<1>2. Head(batch[ti]) \in Row /\ Tail(batch[ti]) \in Seq(Row)
  BY <1>1
<1> QED
  BY <1>2 DEF DataOK, CommitHead

\* The memory after the task ended, whatever ended it.
LEMMA EndType ==
  ASSUME DataOK, NEW how \in Halted, End(how),
         UNCHANGED <<env, starts, db, graph>>, cp' \in 0..MaxSlot
  PROVE  DataOK' /\ ControlOK'
<1>1. lost' \subseteq Row
  BY InMemoryType DEF DataOK, End
<1>2. pc' \in Pc
  BY DEF End, Pc
<1>3. /\ ti' \in 1..4 /\ rs' \in 0..MaxSlot /\ lastSlot' \in 0..MaxSlot
      /\ lastTime' \in 0..MaxSlot /\ cur' \in Row \union {NoRow}
  BY BoundsAssumption DEF End
<1>4. /\ buf' \in [T -> Seq(Row)] /\ batch' \in [T -> Seq(Row)]
      /\ aged' \subseteq T
  BY EmptyType DEF End
<1>5. DataOK'
  BY <1>1, <1>2, <1>3, <1>4 DEF DataOK, env, graph
<1>6. ControlOK'
  BY DEF ControlOK, End, Halted, GraphPcs, ReorgPcs
<1> QED
  BY <1>5, <1>6

(***************************************************************************)
(* Type correctness.                                                       *)
(***************************************************************************)
LEMMA InitType == Init => DataOK /\ ControlOK
<1> SUFFICES ASSUME Init PROVE DataOK /\ ControlOK
  OBVIOUS
<1>1. fork \in [Slot -> Fork]
  BY BoundsAssumption DEF Init, Fork
<1>2. DataOK
  BY <1>1, BoundsAssumption, EmptyType DEF Init, DataOK, Pc, Halted
<1> QED
  BY <1>2 DEF Init, ControlOK, Halted, GraphPcs, ReorgPcs

LEMMA StepType == DataOK /\ ControlOK /\ [Next]_vars => DataOK' /\ ControlOK'
<1> SUFFICES ASSUME DataOK, ControlOK, [Next]_vars
             PROVE  DataOK' /\ ControlOK'
  OBVIOUS
<1> USE BoundsAssumption DEF Halted, GraphPcs, MetaPcs, LoopPcs, ReorgPcs
<1>1. CASE Start
  BY <1>1 DEF DataOK, ControlOK, Start, graph, Pc
<1>2. CASE RequestShutdown
  BY <1>2 DEF DataOK, ControlOK, RequestShutdown, env, mem, graph
<1>3. ASSUME NEW t \in T, Age(t) PROVE DataOK' /\ ControlOK'
  BY <1>3 DEF DataOK, ControlOK, Age, env, graph
<1>4. ASSUME NEW r \in Row, RouteRow(r) PROVE DataOK' /\ ControlOK'
  <2>1. buf' \in [T -> Seq(Row)]
    BY <1>4, PushType DEF RouteRow
  <2>2. r.slot \in 0..MaxSlot
    BY DEF Row, Slot
  <2> QED
    BY <1>4, <2>1, <2>2
    DEF DataOK, ControlOK, RouteRow, Handed, Selecting, graph, Pc
<1>5. ASSUME NEW r \in Row, PoolInitialize(r) PROVE DataOK' /\ ControlOK'
  <2>1. r.slot \in 0..MaxSlot /\ r # NoRow
    BY DEF Row, Slot, NoRow
  <2> QED
    BY <1>5, <2>1
    DEF DataOK, ControlOK, PoolInitialize, Handed, Selecting, graph, Pc
<1>6. CASE TokenMeta
  BY <1>6 DEF DataOK, ControlOK, TokenMeta, Selecting, env, mem, graph, Pc
<1>7. CASE NoRowEvent
  BY <1>7 DEF DataOK, ControlOK, NoRowEvent, Selecting, env, graph, Pc
<1>8. ASSUME NEW s \in Slot, ReorgMarker(s) PROVE DataOK' /\ ControlOK'
  <2>1. fork' \in [Slot -> Fork]
    BY <1>8 DEF DataOK, ReorgMarker, Slot, Fork
  <2>2. s \in 0..MaxSlot /\ s # 0
    BY DEF Slot
  <2>3. /\ cursor' = s /\ rs' = s /\ ti' = 1 /\ pc' = "drain" /\ pc = "select"
        /\ buf' = Empty /\ batch' = buf /\ aged' = {}
        /\ UNCHANGED <<delivered, lost, starts, cur, lastSlot, lastTime, db, cp,
                       edges, authority, labels, launches>>
    BY <1>8 DEF ReorgMarker, Selecting, graph
  <2>4. DataOK'
    BY <2>1, <2>2, <2>3, EmptyType DEF DataOK, Pc
  <2>5. ControlOK'
    BY <2>2, <2>3 DEF ControlOK
  <2> QED
    BY <2>4, <2>5
<1>9. CASE StreamEnds
  BY <1>9, EndType DEF StreamEnds, DataOK, env, graph
<1>10. CASE LeaveLoop
  BY <1>10, EmptyType DEF DataOK, ControlOK, LeaveLoop, env, graph, Pc
<1>11. CASE GraphWrite
  <2>1. ASSUME NEW here \in GraphPcs, NEW next \in GraphPcs,
               NEW token \in {0, 1}, WriteEdge(here, token, next)
        PROVE  DataOK' /\ ControlOK'
    <3>1. cur \in Row
      BY <2>1 DEF DataOK, ControlOK, WriteEdge
    <3>2. edges' \subseteq Edge
      BY <2>1, <3>1 DEF DataOK, WriteEdge, WithEdge, Edge, Row
    <3> QED
      BY <2>1, <3>2 DEF DataOK, ControlOK, WriteEdge, env, mem, Pc
  <2>2. ASSUME NEW here \in GraphPcs, NEW next \in GraphPcs,
               WriteLabel(here, next)
        PROVE  DataOK' /\ ControlOK'
    BY <2>2 DEF DataOK, ControlOK, WriteLabel, env, mem, Pc
  <2>3. CASE HookAndRoute
    <3>1. cur \in Row
      BY <2>3 DEF DataOK, ControlOK, HookAndRoute
    <3>2. buf' \in [T -> Seq(Row)]
      BY <2>3, <3>1, PushType DEF HookAndRoute
    <3> QED
      BY <2>3, <3>1, <3>2 DEF DataOK, ControlOK, HookAndRoute, env, Pc
  <2> QED
    BY <1>11, <2>1, <2>2, <2>3 DEF GraphWrite
<1>12. CASE UpsertTokenMeta
  BY <1>12 DEF DataOK, ControlOK, UpsertTokenMeta, env, graph, Pc
<1>13. CASE WriteAuthority
  <2>1. authority' \subseteq AuthorityEdge
    BY <1>13 DEF DataOK, WriteAuthority, AuthorityEdge
  <2> QED
    BY <1>13, <2>1 DEF DataOK, ControlOK, WriteAuthority, env, Pc
<1>14. CASE CheckTable
  <2>1. buf' \in [T -> Seq(Row)] /\ batch' \in [T -> Seq(Row)] /\ aged' \subseteq T
    <3>1. buf[ti] \in Seq(Row) /\ <<>> \in Seq(Row)
      BY <1>14 DEF DataOK, CheckTable
    <3>2. CASE ShouldFlush(ti)
      BY <1>14, <3>1, <3>2 DEF DataOK, CheckTable
    <3>3. CASE ~ShouldFlush(ti)
      BY <1>14, <3>3 DEF DataOK, CheckTable
    <3> QED
      BY <3>2, <3>3
  <2>2. ti' \in 1..4 /\ pc' \in {"check", "insert"} /\ (pc' = "insert" => ti' \in T)
    BY <1>14 DEF CheckTable, T
  <2> QED
    BY <1>14, <2>1, <2>2 DEF DataOK, ControlOK, CheckTable, env, graph, Pc
<1>15. CASE ChecksDone
  BY <1>15 DEF DataOK, ControlOK, ChecksDone, env, mem, graph, Pc
<1>16. CASE InsertRow \/ DrainRow
  <2>1. ti \in T /\ Len(batch[ti]) > 0 /\ CommitHead
    BY <1>16 DEF InsertRow, DrainRow, ControlOK
  <2>2. db' \subseteq Row /\ batch' \in [T -> Seq(Row)]
    BY <2>1, CommitHeadType
  <2> QED
    BY <1>16, <2>2 DEF DataOK, ControlOK, InsertRow, DrainRow, env, graph
<1>17. CASE BatchInserted
  BY <1>17 DEF DataOK, ControlOK, BatchInserted, env, mem, graph, Pc
<1>18. CASE SaveCheckpoint
  BY <1>18 DEF DataOK, ControlOK, SaveCheckpoint, env, graph, Pc, T
<1>19. CASE DrainNext
  BY <1>19 DEF DataOK, ControlOK, DrainNext, env, graph, T
<1>20. CASE Drained
  BY <1>20 DEF DataOK, ControlOK, Drained, env, graph, Pc
<1>21. CASE DrainFailed
  BY <1>21, EndType DEF DrainFailed, DataOK, env, graph
<1>22. CASE FinalCheckpoint
  BY <1>22, EndType DEF FinalCheckpoint, DataOK, env, graph
<1>23. CASE DeleteFromTable
  BY <1>23 DEF DataOK, ControlOK, DeleteFromTable, env, graph, T
<1>24. CASE Deleted
  BY <1>24 DEF DataOK, ControlOK, Deleted, env, mem, graph, Pc
<1>25. CASE Rewind
  BY <1>25 DEF DataOK, ControlOK, Rewind, env, graph, Pc
<1>26. CASE DeleteEdges
  BY <1>26 DEF DataOK, ControlOK, DeleteEdges, env, mem, Pc
<1>27. CASE DeleteLabels
  BY <1>27 DEF DataOK, ControlOK, DeleteLabels, env, mem, Pc
<1>28. CASE RetractLaunches
  BY <1>28 DEF DataOK, ControlOK, RetractLaunches, env, Pc
<1>29. CASE StartFails
  BY <1>29 DEF DataOK, ControlOK, StartFails, env, mem, graph, Pc
<1>30. CASE Crash
  BY <1>30, EndType DEF Crash, DataOK, env, graph
<1>31. CASE DrainRowFails
  <2>1. batch[ti] \in Seq(Row) /\ Elems(batch[ti]) \subseteq Row
    BY <1>31 DEF DataOK, DrainRowFails, Elems
  <2> QED
    BY <1>31, <2>1 DEF DataOK, ControlOK, DrainRowFails, env, graph
<1>32. CASE CallFails
  BY <1>32, EndType DEF CallFails, DataOK, env, graph
<1>33. CASE UNCHANGED vars
  BY <1>33 DEF DataOK, ControlOK, vars, env, mem, graph
<1> QED
  BY <1>1, <1>2, <1>3, <1>4, <1>5, <1>6, <1>7, <1>8, <1>9, <1>10, <1>11,
     <1>12, <1>13, <1>14, <1>15, <1>16, <1>17, <1>18, <1>19, <1>20, <1>21,
     <1>22, <1>23, <1>24, <1>25, <1>26, <1>27, <1>28, <1>29, <1>30, <1>31,
     <1>32, <1>33
  DEF Next, Stream, Progress, Faults

LEMMA StepFlags == FlagsOK /\ [Next]_vars => FlagsOK'
<1> SUFFICES ASSUME FlagsOK, [Next]_vars PROVE FlagsOK'
  OBVIOUS
<1>1. ASSUME NEW how, End(how) PROVE FlagsOK'
  <2>1. torn' = (torn \/ rs # 0) /\ shutdown' = FALSE /\ lastErr' = FALSE
    BY <1>1 DEF End
  <2> QED
    BY <2>1 DEF FlagsOK
<1>2. CASE StreamEnds \/ DrainFailed \/ FinalCheckpoint \/ Crash \/ CallFails
  BY <1>1, <1>2 DEF StreamEnds, DrainFailed, FinalCheckpoint, Crash, CallFails
<1>3. CASE Stream /\ ~StreamEnds
  BY <1>3, Zenon DEF FlagsOK, Stream, RouteRow, PoolInitialize, TokenMeta, NoRowEvent,
                     ReorgMarker, mem
<1>4. CASE Start \/ RequestShutdown \/ (\E t \in T : Age(t)) \/ StartFails \/ DrainRowFails
  BY <1>4, Zenon DEF FlagsOK, Start, RequestShutdown, Age, StartFails, DrainRowFails, mem
<1>5. CASE LeaveLoop \/ GraphWrite \/ UpsertTokenMeta \/ WriteAuthority
  BY <1>5, Zenon DEF FlagsOK, LeaveLoop, GraphWrite, WriteEdge, WriteLabel, HookAndRoute,
                     UpsertTokenMeta, WriteAuthority, mem
<1>6. CASE CheckTable \/ ChecksDone \/ InsertRow \/ BatchInserted \/ SaveCheckpoint
           \/ DrainRow \/ DrainNext \/ Drained
  BY <1>6, Zenon DEF FlagsOK, CheckTable, ChecksDone, InsertRow, BatchInserted,
                     SaveCheckpoint, DrainRow, DrainNext, Drained, mem
<1>7. CASE DeleteFromTable \/ Deleted \/ Rewind \/ DeleteEdges \/ DeleteLabels
           \/ RetractLaunches
  BY <1>7, Zenon DEF FlagsOK, DeleteFromTable, Deleted, Rewind, DeleteEdges,
                     DeleteLabels, RetractLaunches, mem
<1>8. CASE UNCHANGED vars
  BY <1>8, Zenon DEF FlagsOK, vars, mem
<1> QED
  BY <1>2, <1>3, <1>4, <1>5, <1>6, <1>7, <1>8 DEF Next, Progress, Faults

\* Every state of a run of the indexer is well typed, whatever the number of
\* slots and restarts and whatever the batch size: run (lib.rs:183) holds an
\* Initialize event only across its graph writes, a ReorgMarker only inside
\* its handler, and flushes one of its three tables at a time.
THEOREM TypeCorrect == Spec => []TypeOK
<1>1. Init => TypeOK
  <2>1. Init => FlagsOK
    BY DEF Init, FlagsOK
  <2> QED
    BY <2>1, InitType DEF TypeOK
<1>2. TypeOK /\ [Next]_vars => TypeOK'
  BY StepType, StepFlags DEF TypeOK
<1> QED
  BY <1>1, <1>2, PTL DEF Spec

----------------------------------------------------------------------------
Batches ==
  /\ pc \notin {"insert", "drain"} => batch = Empty
  /\ pc = "insert" => \A t \in T \ {ti} : batch[t] = <<>>
  /\ pc = "drain" => \A t \in T : t < ti => batch[t] = <<>>
  /\ pc \in ReorgPcs \union {"drain", "final"} => buf = Empty

Forks ==
  /\ \A r \in delivered : r.fork <= fork[r.slot]
  /\ rs # 0 => \A r \in delivered : r.slot >= rs => ~Canonical(r)

Rewinding ==
  ~torn /\ rs # 0 =>
    /\ \A r \in db \union InMemory : r.slot < rs => Canonical(r)
    /\ pc = "delete" => \A r \in db : r.table < ti => Canonical(r)
    /\ pc \in ReorgPcs \ {"delete"} => \A r \in db : Canonical(r)

Marks ==
  /\ pc \notin Halted => lastSlot = cp
  /\ rs # 0 => cursor = rs
  /\ pc \in ReorgPcs \ {"delete", "rewind"} => cp < rs
  /\ ~torn /\ rs = 0 => cp = 0 \/ cp < cursor

Typed == DataOK /\ ControlOK /\ FlagsOK

Safe ==
  /\ Typed /\ Batches /\ Forks /\ Rewinding /\ Marks
  /\ NoOrphanedRows /\ NothingDropped /\ CheckpointCovered

(***************************************************************************)
(* What is in memory.                                                      *)
(***************************************************************************)
LEMMA Memory ==
  ASSUME NEW r
  PROVE  r \in InMemory <=> \/ \E t \in T : r \in Elems(buf[t])
                            \/ \E t \in T : r \in Elems(batch[t])
                            \/ cur # NoRow /\ r = cur
  BY DEF InMemory

LEMMA ElemsEmpty == Elems(<<>>) = {}
  BY DEF Elems

LEMMA ElemsAppend ==
  ASSUME NEW s \in Seq(Row), NEW r \in Row
  PROVE  Elems(Append(s, r)) = Elems(s) \union {r}
<1>1. Elems(Append(s, r)) \subseteq Elems(s) \union {r}
  BY DEF Elems
<1>2. ASSUME NEW i \in 1..Len(s)
      PROVE  s[i] \in Elems(Append(s, r))
  <2>1. i \in 1..Len(Append(s, r)) /\ Append(s, r)[i] = s[i]
    OBVIOUS
  <2> QED
    BY <2>1 DEF Elems
<1>3. r \in Elems(Append(s, r))
  <2>1. Len(s) + 1 \in 1..Len(Append(s, r)) /\ Append(s, r)[Len(s) + 1] = r
    OBVIOUS
  <2> QED
    BY <2>1 DEF Elems
<1> QED
  BY <1>1, <1>2, <1>3 DEF Elems

LEMMA ElemsHeadTail ==
  ASSUME NEW s \in Seq(Row), Len(s) > 0
  PROVE  Elems(s) = {Head(s)} \union Elems(Tail(s))
<1>1. s # <<>> /\ Tail(s) \in Seq(Row) /\ Len(Tail(s)) = Len(s) - 1
  OBVIOUS
<1>2. Head(s) \in Elems(s)
  <2>1. 1 \in 1..Len(s) /\ Head(s) = s[1]
    OBVIOUS
  <2> QED
    BY <2>1 DEF Elems
<1>3. ASSUME NEW i \in 1..Len(Tail(s))
      PROVE  Tail(s)[i] \in Elems(s)
  <2>1. i + 1 \in 1..Len(s) /\ Tail(s)[i] = s[i + 1]
    BY <1>1
  <2> QED
    BY <2>1 DEF Elems
<1>4. ASSUME NEW i \in 1..Len(s)
      PROVE  s[i] \in {Head(s)} \union Elems(Tail(s))
  <2>1. CASE i = 1
    BY <2>1
  <2>2. CASE i # 1
    <3>1. i - 1 \in 1..Len(Tail(s)) /\ Tail(s)[i - 1] = s[i]
      BY <1>1, <2>2
    <3> QED
      BY <3>1 DEF Elems
  <2> QED
    BY <2>1, <2>2
<1> QED
  BY <1>2, <1>3, <1>4 DEF Elems

LEMMA MemoryEmpty ==
  ASSUME buf = Empty, batch = Empty, cur = NoRow
  PROVE  InMemory = {}
<1>1. \A t \in T : Elems(buf[t]) = {} /\ Elems(batch[t]) = {}
  BY ElemsEmpty DEF Empty
<1> QED
  BY <1>1, Memory

\* Memory moves with the event it takes in, and not when a buffer is drained.
LEMMA PushMemory ==
  ASSUME Typed, NEW r \in Row, Push(r), batch' = batch, cur' = NoRow,
         cur \in {NoRow, r}
  PROVE  InMemory' = InMemory \union {r}
<1>1. r.table \in T /\ buf[r.table] \in Seq(Row)
  BY DEF Typed, DataOK, Row
<1>2. \A t \in T : Elems(buf'[t]) = IF t = r.table THEN Elems(buf[t]) \union {r}
                                                  ELSE Elems(buf[t])
  BY <1>1, ElemsAppend DEF Typed, DataOK, Push
<1>3. ASSUME NEW q
      PROVE  q \in InMemory' <=> \/ \E t \in T : q \in Elems(buf'[t])
                                 \/ \E t \in T : q \in Elems(batch[t])
  BY DEF InMemory
<1>4. ASSUME NEW q
      PROVE  q \in InMemory' <=> q \in InMemory \union {r}
  BY <1>1, <1>2, <1>3, Memory
<1> QED
  BY <1>4

LEMMA DrainMemory ==
  ASSUME Typed, batch = Empty, batch' = buf, buf' = Empty, cur' = cur
  PROVE  InMemory' = InMemory
<1>1. \A t \in T : Elems(buf'[t]) = {} /\ Elems(batch[t]) = {}
  BY ElemsEmpty DEF Empty
<1>2. ASSUME NEW q
      PROVE  q \in InMemory' <=> \/ \E t \in T : q \in Elems(buf'[t])
                                 \/ \E t \in T : q \in Elems(batch'[t])
                                 \/ cur # NoRow /\ q = cur
  BY DEF InMemory
<1>3. ASSUME NEW q
      PROVE  q \in InMemory' <=> q \in InMemory
  BY <1>1, <1>2, Memory
<1> QED
  BY <1>3

LEMMA CheckMemory ==
  ASSUME Typed, Batches, CheckTable
  PROVE  InMemory' = InMemory
<1>1. CASE ShouldFlush(ti)
  <2>1. ti \in T /\ batch = Empty /\ cur' = cur
    BY DEF CheckTable, Batches
  <2>2. /\ batch' = [batch EXCEPT ![ti] = buf[ti]]
        /\ buf' = [buf EXCEPT ![ti] = <<>>]
    BY <1>1 DEF CheckTable
  <2>3. \A t \in T : /\ Elems(buf'[t]) = IF t = ti THEN {} ELSE Elems(buf[t])
                     /\ Elems(batch'[t]) = IF t = ti THEN Elems(buf[t]) ELSE {}
                     /\ Elems(batch[t]) = {}
    BY <2>1, <2>2, ElemsEmpty DEF Empty, Typed, DataOK
  <2>4. ASSUME NEW q
        PROVE  q \in InMemory' <=> \/ \E t \in T : q \in Elems(buf'[t])
                                   \/ \E t \in T : q \in Elems(batch'[t])
                                   \/ cur # NoRow /\ q = cur
    BY <2>1 DEF InMemory
  <2>5. ASSUME NEW q
        PROVE  q \in InMemory' <=> q \in InMemory
    BY <2>1, <2>3, <2>4, Memory
  <2> QED
    BY <2>5
<1>2. CASE ~ShouldFlush(ti)
  BY <1>2 DEF CheckTable, InMemory
<1> QED
  BY <1>1, <1>2

\* Committing a row moves it from memory to its table.
LEMMA CommitMemory ==
  ASSUME Typed, ti \in T, Len(batch[ti]) > 0, CommitHead, buf' = buf, cur' = cur
  PROVE  /\ \E r \in InMemory : db' = db \union {r}
         /\ InMemory' \subseteq InMemory
         /\ db' \union InMemory' = db \union InMemory
<1>1. batch[ti] \in Seq(Row) /\ batch' = [batch EXCEPT ![ti] = Tail(@)]
  BY DEF Typed, DataOK, CommitHead
<1>2. \A t \in T : t # ti => batch'[t] = batch[t]
  BY DEF Typed, DataOK, CommitHead
<1>3. Elems(batch[ti]) = {Head(batch[ti])} \union Elems(batch'[ti])
  BY <1>1, ElemsHeadTail DEF Typed, DataOK
<1>4. ASSUME NEW q
      PROVE  q \in InMemory' <=> \/ \E t \in T : q \in Elems(buf[t])
                                 \/ \E t \in T : q \in Elems(batch'[t])
                                 \/ cur # NoRow /\ q = cur
  BY DEF InMemory
<1>5. ASSUME NEW q
      PROVE  q \in db' \union InMemory' <=> q \in db \union InMemory
  BY <1>2, <1>3, <1>4, Memory DEF CommitHead
<1>6. InMemory' \subseteq InMemory /\ Head(batch[ti]) \in InMemory
  BY <1>2, <1>3, <1>4, Memory
<1> QED
  BY <1>5, <1>6 DEF CommitHead

\* A table given up: what memory loses was in its batch.
LEMMA GiveUpMemory ==
  ASSUME Typed, DrainRowFails
  PROVE  /\ InMemory' \subseteq InMemory
         /\ InMemory \subseteq InMemory' \union lost' \union db
         /\ (lost' \ lost) \intersect db = {}
<1>1. ti \in T /\ batch' = [batch EXCEPT ![ti] = <<>>]
      /\ lost' = lost \union (Elems(batch[ti]) \ db)
      /\ buf' = buf /\ cur' = cur
  BY DEF DrainRowFails
<1>2. \A t \in T : Elems(batch'[t]) = IF t = ti THEN {} ELSE Elems(batch[t])
  BY <1>1, ElemsEmpty DEF Typed, DataOK
<1>3. ASSUME NEW q
      PROVE  q \in InMemory' <=> \/ \E t \in T : q \in Elems(buf[t])
                                 \/ \E t \in T : q \in Elems(batch'[t])
                                 \/ cur # NoRow /\ q = cur
  BY <1>1 DEF InMemory
<1> QED
  BY <1>1, <1>2, <1>3, Memory

LEMMA EndMemory ==
  ASSUME NEW how, End(how)
  PROVE  InMemory' = {}
<1>1. \A t \in T : Elems(buf'[t]) = {} /\ Elems(batch'[t]) = {}
  BY ElemsEmpty DEF End, Empty
<1> QED
  BY <1>1 DEF InMemory, End

(***************************************************************************)
(* What a step does to the rows: every step has one of these effects.      *)
(***************************************************************************)
\* A row enters memory.
Take(r) ==
  /\ rs = 0 /\ Handed(r)
  /\ UNCHANGED <<fork, torn, rs, cp, db>>
  /\ InMemory' = InMemory \union {r}

\* A row may move from memory to its table.
Keep ==
  /\ UNCHANGED <<fork, cursor, delivered, lost, torn, rs, cp>>
  /\ db' = db \/ \E r \in InMemory : db' = db \union {r}
  /\ InMemory' \subseteq InMemory /\ db' \union InMemory' = db \union InMemory

\* Memory is given up, in part or, when the task ends, as a whole.
Forget ==
  /\ UNCHANGED <<fork, cursor, delivered, db, cp>>
  /\ lost \subseteq lost' /\ InMemory' \subseteq InMemory
  /\ InMemory \subseteq InMemory' \union lost' \union db
  /\ (lost' \ lost) \intersect db = {}
  /\ \/ UNCHANGED <<rs, torn>> /\ DrainRowFails
     \/ rs' = 0 /\ InMemory' = {} /\ torn' \in {torn, TRUE} /\ (torn \/ rs # 0 => torn')

\* A run begins at a tip the stream may have reached meanwhile.
Begin ==
  /\ rs = 0
  /\ UNCHANGED <<fork, delivered, lost, torn, rs, cp, db>>
  /\ cursor' \in Nat /\ cursor' >= cursor /\ InMemory' = InMemory

\* A marker: the slots from s on have a new fork.
Reorganise(s) ==
  /\ rs = 0 /\ rs' = s /\ cursor' = s
  /\ fork' = [x \in Slot |-> IF x >= s THEN fork[x] + 1 ELSE fork[x]]
  /\ UNCHANGED <<delivered, lost, torn, cp, db>>
  /\ InMemory' = InMemory

\* One table loses its rows from the marker's slot on.
Delete ==
  /\ rs # 0
  /\ UNCHANGED <<fork, cursor, delivered, lost, torn, rs, cp>>
  /\ db' = {r \in db : ~(r.table = ti /\ r.slot >= rs)}
  /\ InMemory' = InMemory

\* The checkpoint moves to the slot before the marker's.
MoveMark ==
  /\ rs # 0 /\ pc = "rewind" /\ InMemory = {}
  /\ cp' = rs - 1 /\ rs' \in {rs, 0}
  /\ UNCHANGED <<fork, cursor, delivered, lost, torn, db>>
  /\ InMemory' = InMemory

\* The last clean-up is done.
Finish ==
  /\ rs # 0 /\ rs' = 0 /\ pc = "delLaunches"
  /\ UNCHANGED <<fork, cursor, delivered, lost, torn, cp, db>>
  /\ InMemory' = InMemory

Effect ==
  \/ \E r \in Row : Take(r)
  \/ Keep \/ Forget \/ Begin
  \/ \E s \in Slot : Reorganise(s)
  \/ Delete \/ MoveMark \/ Finish

LEMMA StepEffect ==
  Typed /\ Batches /\ Marks /\ [Next]_vars => Effect
<1> SUFFICES ASSUME Typed, Batches, Marks, [Next]_vars PROVE Effect
  OBVIOUS
<1>1. UNCHANGED <<buf, batch, cur>> => InMemory' = InMemory
  BY DEF InMemory
<1>2. ASSUME NEW r \in Row, RouteRow(r) PROVE Take(r)
  <2>1. rs = 0 /\ cur = NoRow
    BY <1>2 DEF RouteRow, Selecting, Typed, ControlOK, ReorgPcs, GraphPcs
  <2>2. InMemory' = InMemory \union {r}
    BY <1>2, <2>1, PushMemory DEF RouteRow
  <2> QED
    BY <1>2, <2>1, <2>2 DEF RouteRow, Take
<1>3. ASSUME NEW r \in Row, PoolInitialize(r) PROVE Take(r)
  <2>1. rs = 0 /\ cur = NoRow
    BY <1>3 DEF PoolInitialize, Selecting, Typed, ControlOK, ReorgPcs, GraphPcs
  <2>2. r # NoRow
    BY BoundsAssumption DEF Row, NoRow, Slot
  <2>3. InMemory' = InMemory \union {r}
    BY <1>3, <2>1, <2>2 DEF PoolInitialize, InMemory
  <2> QED
    BY <1>3, <2>1, <2>3 DEF PoolInitialize, Take
<1>4. CASE \/ RequestShutdown \/ (\E t \in T : Age(t)) \/ TokenMeta \/ NoRowEvent
           \/ UpsertTokenMeta \/ WriteAuthority \/ ChecksDone \/ BatchInserted
           \/ DrainNext \/ Drained \/ Deleted \/ DeleteEdges \/ DeleteLabels
           \/ StartFails \/ UNCHANGED vars
  <2>1. /\ UNCHANGED <<fork, cursor, delivered, lost, torn, rs, cp, db>>
        /\ UNCHANGED <<buf, batch, cur>>
    BY <1>4 DEF RequestShutdown, Age, TokenMeta, NoRowEvent, UpsertTokenMeta,
       WriteAuthority, ChecksDone, BatchInserted, DrainNext, Drained, Deleted,
       DeleteEdges, DeleteLabels, StartFails, vars, env, mem
  <2> QED
    BY <1>1, <2>1 DEF Keep, Effect
<1>5. CASE SaveCheckpoint
  <2>1. cp' = cp
    BY <1>5 DEF SaveCheckpoint, Marks, Halted
  <2> QED
    BY <1>1, <1>5, <2>1 DEF SaveCheckpoint, Keep, Effect, env
<1>6. CASE GraphWrite /\ ~HookAndRoute
  <2>1. /\ UNCHANGED <<fork, cursor, delivered, lost, torn, rs, cp, db>>
        /\ UNCHANGED <<buf, batch, cur>>
    BY <1>6 DEF GraphWrite, WriteEdge, WriteLabel, env, mem
  <2> QED
    BY <1>1, <2>1 DEF Keep, Effect
<1>7. CASE HookAndRoute
  <2>1. cur \in Row /\ cur # NoRow
    BY <1>7 DEF HookAndRoute, Typed, DataOK, ControlOK, GraphPcs
  <2>2. InMemory' = InMemory \union {cur} /\ cur \in InMemory
    BY <1>7, <2>1, PushMemory, Memory DEF HookAndRoute
  <2> QED
    BY <1>7, <2>2 DEF HookAndRoute, Keep, Effect, env
<1>8. CASE LeaveLoop
  <2>1. InMemory' = InMemory
    BY <1>8, DrainMemory DEF LeaveLoop, Batches
  <2> QED
    BY <1>8, <2>1 DEF LeaveLoop, Keep, Effect, env
<1>9. CASE CheckTable
  BY <1>9, CheckMemory DEF CheckTable, Keep, Effect, env
<1>10. CASE InsertRow \/ DrainRow
  <2>1. ti \in T /\ Len(batch[ti]) > 0 /\ CommitHead /\ buf' = buf /\ cur' = cur
    BY <1>10 DEF InsertRow, DrainRow, Typed, ControlOK
  <2> QED
    BY <1>10, <2>1, CommitMemory DEF InsertRow, DrainRow, Keep, Effect, env
<1>11. CASE DrainRowFails
  <2>1. UNCHANGED <<fork, cursor, delivered, db, cp, rs, torn>> /\ lost \subseteq lost'
    BY <1>11 DEF DrainRowFails, env
  <2> QED
    BY <1>11, <2>1, GiveUpMemory DEF Forget, Effect
<1>12. CASE StreamEnds \/ Crash \/ DrainFailed \/ CallFails \/ FinalCheckpoint
  <2>1. /\ UNCHANGED <<fork, cursor, delivered, db>>
        /\ rs' = 0 /\ lost \subseteq lost' /\ InMemory' = {}
    BY <1>12, EndMemory DEF StreamEnds, Crash, DrainFailed, CallFails,
       FinalCheckpoint, End, env
  <2>2. torn' \in {torn, TRUE} /\ (torn \/ rs # 0 => torn')
    <3>1. torn' = (torn \/ rs # 0)
      BY <1>12, Zenon DEF StreamEnds, Crash, DrainFailed, CallFails,
         FinalCheckpoint, End
    <3> QED
      BY <3>1 DEF Typed, FlagsOK
  <2>3. cp' = cp
    BY <1>12 DEF StreamEnds, Crash, DrainFailed, CallFails, FinalCheckpoint,
       Marks, Halted
  <2>4. CASE FinalCheckpoint
    <3>1. buf = Empty /\ batch = Empty /\ cur = NoRow
      BY <2>4 DEF FinalCheckpoint, Batches, Typed, ControlOK, GraphPcs, ReorgPcs
    <3>2. lost' = lost
      BY <2>4 DEF FinalCheckpoint, End
    <3> QED
      BY <2>1, <2>2, <2>3, <3>1, <3>2, MemoryEmpty DEF Forget, Effect
  <2>5. CASE ~FinalCheckpoint
    <3>1. lost' = lost \union (InMemory \ db)
      BY <1>12, <2>5 DEF StreamEnds, Crash, DrainFailed, CallFails, End
    <3> QED
      BY <2>1, <2>2, <2>3, <3>1 DEF Forget, Effect
  <2> QED
    BY <2>4, <2>5
<1>13. CASE Start
  <2>1. cursor' \in Nat /\ cursor' >= cursor /\ rs = 0
    BY <1>13 DEF Start, Typed, DataOK, ControlOK, ReorgPcs, Halted
  <2> QED
    BY <1>1, <1>13, <2>1 DEF Start, Begin, Effect
<1>14. ASSUME NEW s \in Slot, ReorgMarker(s) PROVE Reorganise(s)
  <2>1. rs = 0 /\ batch = Empty
    BY <1>14 DEF ReorgMarker, Selecting, Typed, ControlOK, ReorgPcs, Batches
  <2>2. InMemory' = InMemory
    BY <1>14, <2>1, DrainMemory DEF ReorgMarker
  <2> QED
    BY <1>14, <2>1, <2>2 DEF ReorgMarker, Reorganise
<1>15. CASE DeleteFromTable
  <2>1. rs # 0
    BY <1>15 DEF DeleteFromTable, Typed, ControlOK, ReorgPcs
  <2> QED
    BY <1>1, <1>15, <2>1 DEF DeleteFromTable, Delete, Effect, env
<1>16. CASE Rewind
  <2>1. rs # 0 /\ buf = Empty /\ batch = Empty /\ cur = NoRow
    BY <1>16 DEF Rewind, Typed, ControlOK, ReorgPcs, GraphPcs, Batches
  <2>2. InMemory = {} /\ rs' \in {rs, 0}
    BY <1>16, <2>1, MemoryEmpty DEF Rewind
  <2> QED
    BY <1>1, <1>16, <2>1, <2>2 DEF Rewind, MoveMark, Effect, env
<1>17. CASE RetractLaunches
  <2>1. rs # 0
    BY <1>17 DEF RetractLaunches, Typed, ControlOK, ReorgPcs
  <2> QED
    BY <1>1, <1>17, <2>1 DEF RetractLaunches, Finish, Effect, env
<1> QED
  BY <1>2, <1>3, <1>4, <1>5, <1>6, <1>7, <1>8, <1>9, <1>10, <1>11, <1>12,
     <1>13, <1>14, <1>15, <1>16, <1>17
     DEF Next, Stream, Progress, Faults, Effect

(***************************************************************************)
(* The invariants, one by one.                                             *)
(***************************************************************************)
LEMMA StepBatches == Typed /\ Batches /\ [Next]_vars => Batches'
<1> SUFFICES ASSUME Typed, Batches, [Next]_vars PROVE Batches'
  OBVIOUS
<1> USE DEF Batches, Halted, GraphPcs, MetaPcs, LoopPcs, ReorgPcs
<1>1. CASE Start \/ StartFails \/ RequestShutdown \/ \E t \in T : Age(t)
  BY <1>1 DEF Start, StartFails, RequestShutdown, Age, mem
<1>2. ASSUME NEW how \in Halted, End(how) PROVE Batches'
  BY <1>2 DEF End
<1>3. CASE StreamEnds \/ Crash \/ DrainFailed \/ CallFails \/ FinalCheckpoint
  BY <1>2, <1>3 DEF StreamEnds, Crash, DrainFailed, CallFails, FinalCheckpoint
<1>4. CASE \E r \in Row : RouteRow(r) \/ PoolInitialize(r)
  BY <1>4 DEF RouteRow, PoolInitialize, Selecting
<1>5. CASE TokenMeta \/ NoRowEvent \/ UpsertTokenMeta \/ WriteAuthority
  BY <1>5 DEF TokenMeta, NoRowEvent, UpsertTokenMeta, WriteAuthority, Selecting,
     mem
<1>6. CASE LeaveLoop \/ \E s \in Slot : ReorgMarker(s)
  BY <1>6 DEF LeaveLoop, ReorgMarker, T
<1>7. CASE GraphWrite
  BY <1>7 DEF GraphWrite, WriteEdge, WriteLabel, HookAndRoute, mem
<1>8. CASE CheckTable
  <2>1. batch = Empty /\ pc' \in {"check", "insert"} /\ ti \in T
    BY <1>8 DEF CheckTable
  <2>2. CASE ShouldFlush(ti)
    <3>1. ti' = ti /\ pc' = "insert" /\ \A t \in T \ {ti} : batch'[t] = <<>>
      BY <1>8, <2>1, <2>2 DEF CheckTable, Empty
    <3> QED
      BY <3>1
  <2>3. CASE ~ShouldFlush(ti)
    BY <1>8, <2>1, <2>3 DEF CheckTable
  <2> QED
    BY <2>2, <2>3
<1>9. CASE InsertRow \/ DrainRow \/ DrainRowFails
  <2>1. ti \in T /\ ti' = ti /\ pc' = pc /\ buf' = buf /\ pc \in {"insert", "drain"}
    BY <1>9 DEF InsertRow, DrainRow, DrainRowFails, Typed, ControlOK
  <2>2. \A t \in T \ {ti} : batch'[t] = batch[t]
    BY <1>9 DEF InsertRow, DrainRow, DrainRowFails, CommitHead, Typed, DataOK
  <2>3. \A t \in T : t < ti => t # ti
    BY <2>1 DEF T
  <2> QED
    BY <2>1, <2>2, <2>3
<1>10. CASE BatchInserted
  <2>1. ti \in T /\ batch \in [T -> Seq(Row)] /\ Len(batch[ti]) = 0 /\ pc = "insert"
    BY <1>10 DEF BatchInserted, Typed, DataOK, ControlOK
  <2>2. batch[ti] = <<>>
    BY <2>1
  <2>3. batch = Empty
    BY <2>1, <2>2 DEF Empty
  <2> QED
    BY <1>10, <2>3 DEF BatchInserted, mem
<1>11. CASE SaveCheckpoint \/ ChecksDone
  BY <1>11 DEF SaveCheckpoint, ChecksDone, mem
<1>12. CASE DrainNext
  <2>1. ti \in T /\ batch \in [T -> Seq(Row)] /\ Len(batch[ti]) = 0
    BY <1>12 DEF DrainNext, Typed, DataOK
  <2>2. batch[ti] = <<>>
    BY <2>1
  <2>3. \A t \in T : t < ti + 1 => t < ti \/ t = ti
    BY <2>1 DEF T
  <2> QED
    BY <1>12, <2>2, <2>3 DEF DrainNext
<1>13. CASE Drained
  <2>1. batch = Empty
    <3>1. \A t \in T : batch[t] = <<>>
      BY <1>13 DEF Drained, T
    <3> QED
      BY <3>1 DEF Empty, Typed, DataOK
  <2> QED
    BY <1>13, <2>1 DEF Drained
<1>14. CASE DeleteFromTable \/ Deleted \/ Rewind \/ DeleteEdges \/ DeleteLabels
            \/ RetractLaunches
  BY <1>14 DEF DeleteFromTable, Deleted, Rewind, DeleteEdges, DeleteLabels,
     RetractLaunches, mem
<1>15. CASE UNCHANGED vars
  BY <1>15 DEF vars, mem
<1> QED
  BY <1>1, <1>3, <1>4, <1>5, <1>6, <1>7, <1>8, <1>9, <1>10, <1>11, <1>12,
     <1>13, <1>14, <1>15 DEF Next, Stream, Progress, Faults

LEMMA StepForks == Typed /\ Forks /\ Effect => Forks'
<1> SUFFICES ASSUME Typed, Forks, Effect PROVE Forks'
  OBVIOUS
<1> USE DEF Typed, DataOK, Forks, Canonical
<1>1. ASSUME NEW r \in Row, Take(r) PROVE Forks'
  BY <1>1 DEF Take, Handed, Row, Fork, Slot
<1>2. CASE Keep \/ Forget \/ Begin \/ Delete \/ MoveMark \/ Finish
  BY <1>2 DEF Keep, Forget, Begin, Delete, MoveMark, Finish
<1>3. ASSUME NEW s \in Slot, Reorganise(s) PROVE Forks'
  <2>1. ASSUME NEW r \in delivered
        PROVE  /\ r.fork <= fork'[r.slot]
               /\ r.slot >= s => r.fork # fork'[r.slot]
    <3>1. r.slot \in Slot /\ r.fork \in Nat /\ fork[r.slot] \in Nat
      BY DEF Row, Fork
    <3>2. r.fork <= fork[r.slot]
      OBVIOUS
    <3> QED
      BY <1>3, <3>1, <3>2 DEF Reorganise
  <2> QED
    BY <1>3, <2>1 DEF Reorganise
<1> QED
  BY <1>1, <1>2, <1>3 DEF Effect

LEMMA StepMarks == Typed /\ Batches /\ Marks /\ [Next]_vars => Marks'
<1> SUFFICES ASSUME Typed, Batches, Marks, [Next]_vars PROVE Marks'
  OBVIOUS
<1>1. pc' \notin Halted => lastSlot' = cp'
  <2>1. CASE StreamEnds \/ Crash \/ DrainFailed \/ CallFails \/ FinalCheckpoint
    BY <2>1 DEF StreamEnds, Crash, DrainFailed, CallFails, FinalCheckpoint, End,
       Halted
  <2>2. CASE Start \/ StartFails
    BY <2>2 DEF Start, StartFails, Halted
  <2>3. CASE Rewind \/ SaveCheckpoint
    BY <2>3 DEF Rewind, SaveCheckpoint, Marks, Halted
  <2>4. CASE Stream /\ ~StreamEnds
    BY <2>4 DEF Stream, RouteRow, PoolInitialize, TokenMeta, NoRowEvent,
       ReorgMarker, Selecting, Marks, Halted, mem
  <2>5. CASE \/ RequestShutdown \/ (\E t \in T : Age(t)) \/ UNCHANGED vars
             \/ DrainRowFails
             \/ /\ Progress
                /\ ~(Rewind \/ SaveCheckpoint \/ FinalCheckpoint \/ DrainFailed)
    <3>1. UNCHANGED <<lastSlot, cp>> /\ (pc' \notin Halted => pc \notin Halted)
      BY <2>5 DEF RequestShutdown, Age, vars, mem, DrainRowFails, Progress,
         LeaveLoop, GraphWrite, WriteEdge, WriteLabel, HookAndRoute,
         UpsertTokenMeta, WriteAuthority, CheckTable, ChecksDone, InsertRow,
         BatchInserted, DrainRow, DrainNext, Drained, DeleteFromTable, Deleted,
         DeleteEdges, DeleteLabels, RetractLaunches, Halted
    <3> QED
      BY <3>1 DEF Marks
  <2> QED
    BY <2>1, <2>2, <2>3, <2>4, <2>5 DEF Next, Faults, Progress
<1>2. pc' \in ReorgPcs \ {"delete", "rewind"} => cp' < rs'
  <2> SUFFICES ASSUME pc' \in ReorgPcs \ {"delete", "rewind"}
               PROVE  cp' < rs'
    OBVIOUS
  <2>1. \/ Rewind /\ rs' = rs
        \/ pc \in ReorgPcs \ {"delete", "rewind"} /\ UNCHANGED <<cp, rs>>
    BY DEF Next, Stream, Progress, Faults, Start, StartFails, Crash,
       RequestShutdown, Age, RouteRow, PoolInitialize, TokenMeta, NoRowEvent,
       ReorgMarker, StreamEnds, LeaveLoop, GraphWrite, WriteEdge, WriteLabel,
       HookAndRoute, UpsertTokenMeta, WriteAuthority, CheckTable, ChecksDone,
       InsertRow, BatchInserted, SaveCheckpoint, DrainRow, DrainRowFails,
       DrainNext, Drained, DrainFailed, FinalCheckpoint, DeleteFromTable,
       Deleted, Rewind, DeleteEdges, DeleteLabels, RetractLaunches, CallFails,
       End, ReorgPcs, vars, mem
  <2>2. rs \in Nat
    BY DEF Typed, DataOK
  <2> QED
    BY <2>1, <2>2 DEF Rewind, Marks
<1>3. /\ rs' # 0 => cursor' = rs'
      /\ ~torn' /\ rs' = 0 => cp' = 0 \/ cp' < cursor'
  <2> DEFINE Goal == /\ rs' # 0 => cursor' = rs'
                     /\ ~torn' /\ rs' = 0 => cp' = 0 \/ cp' < cursor'
  <2> USE DEF Typed, DataOK, Marks
  <2>1. Effect
    BY StepEffect
  <2>2. ASSUME NEW r \in Row, Take(r) PROVE Goal
    BY <2>2 DEF Take, Handed, Row, Slot
  <2>3. CASE Keep \/ Delete
    BY <2>3 DEF Keep, Delete
  <2>8. CASE Forget
    <3>1. cp' = cp /\ cursor' = cursor
      BY <2>8 DEF Forget
    <3>2. \/ rs' = rs /\ (torn => torn')
          \/ rs' = 0 /\ (torn \/ rs # 0 => torn')
      BY <2>8, Zenon DEF Forget
    <3> QED
      BY <3>1, <3>2
  <2>4. CASE Begin
    BY <2>4 DEF Begin
  <2>5. ASSUME NEW s \in Slot, Reorganise(s) PROVE Goal
    BY <2>5 DEF Reorganise, Slot
  <2>6. CASE MoveMark
    BY <2>6 DEF MoveMark
  <2>7. CASE Finish
    BY <2>7 DEF Finish, ReorgPcs
  <2> QED
    BY <2>1, <2>2, <2>3, <2>4, <2>5, <2>6, <2>7, <2>8 DEF Effect
<1> QED
  BY <1>1, <1>2, <1>3 DEF Marks

\* A canonical row leaves neither the tables nor memory, or it is lost.
LEMMA StepNothingDropped ==
  Typed /\ Forks /\ NothingDropped /\ Effect => NothingDropped'
<1> SUFFICES ASSUME Typed, Forks, NothingDropped, Effect,
                    NEW q \in delivered' \ lost', Canonical(q)'
             PROVE  q \in db' \union InMemory'
  BY DEF NothingDropped
<1> USE DEF Canonical, NothingDropped
<1>1. ASSUME NEW r \in Row, Take(r) PROVE q \in db' \union InMemory'
  BY <1>1 DEF Take, Handed
<1>2. CASE Keep \/ Begin \/ MoveMark \/ Finish
  BY <1>2 DEF Keep, Begin, MoveMark, Finish
<1>3. CASE Forget
  BY <1>3 DEF Forget
<1>4. ASSUME NEW s \in Slot, Reorganise(s) PROVE q \in db' \union InMemory'
  <2>1. q \in delivered \ lost /\ q \in Row /\ q.fork = fork'[q.slot]
    BY <1>4 DEF Reorganise, Typed, DataOK
  <2>2. /\ q.slot \in Slot /\ fork[q.slot] \in Nat /\ q.fork \in Nat
        /\ q.fork <= fork[q.slot]
    BY <2>1 DEF Forks, Typed, DataOK, Row, Fork
  <2>3. q.fork = fork[q.slot]
    BY <1>4, <2>1, <2>2 DEF Reorganise
  <2> QED
    BY <1>4, <2>1, <2>3 DEF Reorganise
<1>5. CASE Delete
  BY <1>5 DEF Delete, Forks
<1> QED
  BY <1>1, <1>2, <1>3, <1>4, <1>5 DEF Effect

\* How far the handler is decides which rows may be orphaned.
LEMMA StepRewinding ==
  Typed /\ Batches /\ Marks /\ Rewinding /\ NoOrphanedRows /\ [Next]_vars
    => Rewinding'
<1> SUFFICES ASSUME Typed, Batches, Marks, Rewinding, NoOrphanedRows,
                    [Next]_vars, ~torn', rs' # 0
             PROVE  /\ \A r \in db' \union InMemory' :
                         r.slot < rs' => Canonical(r)'
                    /\ pc' = "delete" =>
                         \A r \in db' : r.table < ti' => Canonical(r)'
                    /\ pc' \in ReorgPcs \ {"delete"} =>
                         \A r \in db' : Canonical(r)'
  BY DEF Rewinding
<1>1. Effect
  BY StepEffect
<1>2. ASSUME NEW s \in Slot, Reorganise(s)
      PROVE  \A r \in db' \union InMemory' : r.slot < rs' => Canonical(r)'
  <2>1. ~torn /\ rs = 0
    BY <1>2 DEF Reorganise
  <2>2. \A r \in db \union InMemory : r \in Row /\ Canonical(r)
    BY <2>1, InMemoryType DEF NoOrphanedRows, Handling, Typed, DataOK
  <2>3. \A x \in Slot : x < s => fork'[x] = fork[x]
    BY <1>2 DEF Reorganise, Slot
  <2> QED
    BY <1>2, <2>2, <2>3 DEF Reorganise, Canonical, Row
<1>3. CASE rs = 0
  <2>1. \E s \in Slot : Reorganise(s)
    BY <1>1, <1>3 DEF Effect, Take, Keep, Forget, Begin, Delete, MoveMark, Finish
  <2>2. pc' \notin ReorgPcs
    <3>1. pc' \in ReorgPcs => pc \in ReorgPcs \/ (pc = "drain" /\ rs # 0)
      BY DEF Next, Stream, Progress, Faults, Start, StartFails, Crash,
         RequestShutdown, Age, RouteRow, PoolInitialize, TokenMeta, NoRowEvent,
         ReorgMarker, StreamEnds, LeaveLoop, GraphWrite, WriteEdge, WriteLabel,
         HookAndRoute, UpsertTokenMeta, WriteAuthority, CheckTable, ChecksDone,
         InsertRow, BatchInserted, SaveCheckpoint, DrainRow, DrainRowFails,
         DrainNext, Drained, DrainFailed, FinalCheckpoint, DeleteFromTable,
         Deleted, Rewind, DeleteEdges, DeleteLabels, RetractLaunches, CallFails,
         End, ReorgPcs, Halted, vars, mem
    <3> QED
      BY <1>3, <3>1 DEF Typed, ControlOK
  <2> QED
    BY <1>2, <2>1, <2>2 DEF ReorgPcs
<1>4. CASE rs # 0
  <2>1. /\ fork' = fork /\ rs' = rs /\ ~torn
        /\ db' \union InMemory' \subseteq db \union InMemory
    <3>1. CASE Forget
      <4>1. torn' = torn /\ rs' = rs
        BY <3>1 DEF Forget
      <4>2. ~torn
        BY <4>1, Zenon
      <4> QED
        BY <3>1, <4>1, <4>2 DEF Forget
    <3>2. CASE ~Forget
      BY <1>1, <1>4, <3>2 DEF Effect, Take, Keep, Begin, Reorganise, Delete,
         MoveMark, Finish
    <3> QED
      BY <3>1, <3>2
  <2>2. \A r \in db' \union InMemory' : r.slot < rs' => Canonical(r)'
    BY <1>4, <2>1 DEF Rewinding, Canonical
  <2>3. \/ pc' \notin ReorgPcs
        \/ Drained \/ DeleteFromTable \/ Deleted
        \/ /\ UNCHANGED <<pc, ti, db>>
           /\ pc \in ReorgPcs
        \/ /\ pc \in ReorgPcs \ {"delete"} /\ pc' \in ReorgPcs \ {"delete"}
           /\ UNCHANGED db
    BY DEF Next, Stream, Progress, Faults, Start, StartFails, Crash,
       RequestShutdown, Age, RouteRow, PoolInitialize, TokenMeta, NoRowEvent,
       ReorgMarker, StreamEnds, LeaveLoop, GraphWrite, WriteEdge, WriteLabel,
       HookAndRoute, UpsertTokenMeta, WriteAuthority, CheckTable, ChecksDone,
       InsertRow, BatchInserted, SaveCheckpoint, DrainRow, DrainRowFails,
       DrainNext, DrainFailed, FinalCheckpoint, Rewind, DeleteEdges,
       DeleteLabels, RetractLaunches, CallFails, End, ReorgPcs, Halted,
       Selecting, vars, mem
  <2>4. \A r \in db : r \in Row /\ r.table \in T
    BY DEF Typed, DataOK, Row
  <2>5. CASE Drained
    BY <2>2, <2>4, <2>5 DEF Drained, ReorgPcs, T
  <2>6. CASE DeleteFromTable
    <3>1. pc = "delete" /\ pc' = "delete" /\ ti \in T /\ ti' = ti + 1
          /\ db' = {r \in db : ~(r.table = ti /\ r.slot >= rs)}
      BY <2>6 DEF DeleteFromTable
    <3>2. ASSUME NEW r \in db', r.table < ti' PROVE Canonical(r)'
      <4>1. r \in db /\ r.table \in T /\ r.slot \in Nat /\ rs \in Nat
        BY <3>1 DEF Typed, DataOK, Row, Slot
      <4>2. CASE r.table = ti
        <5>1. r.slot < rs
          BY <3>1, <4>1, <4>2
        <5> QED
          BY <2>1, <2>2, <5>1
      <4>3. CASE r.table # ti
        <5>1. r.table < ti
          BY <3>1, <3>2, <4>1, <4>3 DEF T
        <5> QED
          BY <1>4, <2>1, <3>1, <4>1, <5>1 DEF Rewinding, Canonical
      <4> QED
        BY <4>2, <4>3
    <3> QED
      BY <2>2, <3>1, <3>2
  <2>7. CASE Deleted
    <3>1. pc = "delete" /\ ti = 4 /\ pc' = "rewind" /\ db' = db
      BY <2>7 DEF Deleted
    <3>2. \A r \in db : r.table < 4
      BY <2>4 DEF T
    <3> QED
      BY <1>4, <2>1, <2>2, <3>1, <3>2 DEF Rewinding, Canonical
  <2> QED
    BY <1>4, <2>1, <2>2, <2>3, <2>5, <2>6, <2>7
       DEF Rewinding, Canonical, ReorgPcs
<1> QED
  BY <1>3, <1>4

LEMMA StepNoOrphanedRows ==
  Typed /\ Batches /\ Rewinding /\ NoOrphanedRows /\ Effect => NoOrphanedRows'
<1> SUFFICES ASSUME Typed, Batches, Rewinding, NoOrphanedRows, Effect,
                    ~torn', rs' = 0, NEW q \in db' \union InMemory'
             PROVE  Canonical(q)'
  BY DEF NoOrphanedRows, Handling
<1> USE DEF Canonical, NoOrphanedRows, Handling
<1>1. ASSUME NEW r \in Row, Take(r) PROVE Canonical(q)'
  BY <1>1 DEF Take, Handed
<1>2. CASE Keep \/ Begin
  BY <1>2 DEF Keep, Begin
<1>3. CASE Forget
  <2>1. \/ rs' = rs /\ torn' = torn
        \/ torn \/ rs # 0 => torn'
    BY <1>3 DEF Forget
  <2>2. ~torn /\ rs = 0
    BY <2>1
  <2> QED
    BY <1>3, <2>2 DEF Forget
<1>4. CASE (\E s \in Slot : Reorganise(s)) \/ Delete
  BY <1>4 DEF Reorganise, Delete, Slot
<1>5. CASE MoveMark \/ Finish
  <2>1. pc \in ReorgPcs \ {"delete"} /\ rs # 0 /\ ~torn
    BY <1>5 DEF MoveMark, Finish, ReorgPcs
  <2>2. InMemory = {}
    <3>1. buf = Empty /\ batch = Empty /\ cur = NoRow
      BY <2>1 DEF Batches, Typed, ControlOK, GraphPcs, ReorgPcs
    <3> QED
      BY <3>1, MemoryEmpty
  <2> QED
    BY <1>5, <2>1, <2>2 DEF Rewinding, MoveMark, Finish
<1> QED
  BY <1>1, <1>2, <1>3, <1>4, <1>5 DEF Effect

\* A slot enters the checkpoint when nothing is left in memory, and the
\* stream hands over no row of a slot behind the checkpoint.
LEMMA StepCheckpointCovered ==
  /\ Typed /\ Forks /\ Marks /\ NothingDropped /\ CheckpointCovered /\ Effect
  => CheckpointCovered'
<1> SUFFICES ASSUME Typed, Forks, Marks, NothingDropped, CheckpointCovered,
                    Effect, ~torn', NEW q \in delivered' \ lost',
                    Canonical(q)', q.slot <= cp'
             PROVE  q \in db'
  BY DEF CheckpointCovered
<1> USE DEF Canonical, CheckpointCovered
<1>1. ASSUME NEW r \in Row, Take(r) PROVE q \in db'
  <2>1. ~torn /\ cp' = cp /\ db' = db /\ (cp = 0 \/ cp < cursor)
    BY <1>1 DEF Take, Marks
  <2>2. r.slot \in Nat \ {0} /\ cp \in Nat /\ cursor \in Nat /\ r.slot >= cursor
    BY <1>1 DEF Take, Handed, Row, Slot, Typed, DataOK
  <2>3. q # r
    BY <2>1, <2>2
  <2> QED
    BY <1>1, <2>1, <2>3 DEF Take, Handed
<1>2. CASE Keep \/ Begin \/ Finish
  BY <1>2 DEF Keep, Begin, Finish
<1>3. CASE Forget
  <2>1. ~torn
    BY <1>3 DEF Forget
  <2> QED
    BY <1>3, <2>1 DEF Forget
<1>4. ASSUME NEW s \in Slot, Reorganise(s) PROVE q \in db'
  <2>1. q \in delivered \ lost /\ q \in Row /\ q.fork = fork'[q.slot]
    BY <1>4 DEF Reorganise, Typed, DataOK
  <2>2. /\ q.slot \in Slot /\ fork[q.slot] \in Nat /\ q.fork \in Nat
        /\ q.fork <= fork[q.slot]
    BY <2>1 DEF Forks, Typed, DataOK, Row, Fork
  <2>3. q.fork = fork[q.slot]
    BY <1>4, <2>1, <2>2 DEF Reorganise
  <2> QED
    BY <1>4, <2>1, <2>3 DEF Reorganise
<1>5. CASE Delete
  BY <1>5 DEF Delete, Forks
<1>6. CASE MoveMark
  BY <1>6 DEF MoveMark, NothingDropped
<1> QED
  BY <1>1, <1>2, <1>3, <1>4, <1>5, <1>6 DEF Effect

(***************************************************************************)
(* The theorems.                                                           *)
(***************************************************************************)
LEMMA InitSafe == Init => Safe
<1> SUFFICES ASSUME Init PROVE Safe
  OBVIOUS
<1>1. InMemory = {}
  BY MemoryEmpty DEF Init
<1>2. Batches /\ Forks /\ Rewinding /\ Marks
  BY DEF Init, Batches, Forks, Rewinding, Marks, Halted, ReorgPcs
<1>3. NoOrphanedRows /\ NothingDropped /\ CheckpointCovered
  BY <1>1 DEF Init, NoOrphanedRows, NothingDropped, CheckpointCovered
<1> QED
  BY <1>2, <1>3, InitType DEF Safe, Typed, Init, FlagsOK

LEMMA StepSafe == Safe /\ [Next]_vars => Safe'
<1> SUFFICES ASSUME Safe, [Next]_vars PROVE Safe'
  OBVIOUS
<1>1. Effect
  BY StepEffect DEF Safe
<1> QED
  BY <1>1, StepType, StepFlags, StepBatches, StepForks, StepMarks, StepRewinding,
     StepNoOrphanedRows, StepNothingDropped, StepCheckpointCovered
     DEF Safe, Typed

LEMMA AlwaysSafe == Spec => []Safe
  BY InitSafe, StepSafe, PTL DEF Spec

\* handle_reorg flushes before it deletes (reorg.rs:71-91): outside a handler
\* that was not cut short, no row of an orphaned fork is in a table, a buffer
\* or a drained batch, so none can come back later.
THEOREM ReorgLeavesNothing == Spec => []NoOrphanedRows
<1>1. Safe => NoOrphanedRows
  BY DEF Safe
<1> QED
  BY <1>1, AlwaysSafe, PTL

\* What run took from the stream is in a table or in memory until a failed
\* call or a crash takes the memory, through every drain, every partial
\* failure of flush_drained_batch and every reorg.
THEOREM RowsAreKept == Spec => []NothingDropped
<1>1. Safe => NothingDropped
  BY DEF Safe
<1> QED
  BY <1>1, AlwaysSafe, PTL

\* "Checkpoint saved ONLY after the batch is committed" (lib.rs:38): the saved
\* slot claims no canonical row that is not in its table, a rewound slot after
\* a reorg included, unless a failure took the row from memory or cut a
\* handler short.
THEOREM CheckpointHonest == Spec => []CheckpointCovered
<1>1. Safe => CheckpointCovered
  BY DEF Safe
<1> QED
  BY <1>1, AlwaysSafe, PTL

(***************************************************************************)
(* The graph writer and the hook.  What they hold of an orphaned fork is   *)
(* what the marker being handled has yet to take away (GraphSide), and a   *)
(* launch has its edges before the hook hears of it (EdgesFirst).          *)
(***************************************************************************)
GraphSide ==
  /\ ~GraphOn => pc \notin GraphPcs /\ edges = {} /\ launches = {}
  /\ ~torn => /\ \A e \in edges : Canonical(e) \/ (rs # 0 /\ e.slot >= rs)
              /\ \A l \in launches : Canonical(l) \/ (rs # 0 /\ l.slot >= rs)
  /\ pc \in {"delLabels", "delLaunches"} => \A e \in edges : e.slot < rs

EdgesFirst ==
  /\ pc \in GraphPcs \ {"edge0"}
       => \E e \in edges : e.token = 0 /\ e.slot = cur.slot
  /\ pc \in {"label1", "hook"}
       => \E e \in edges : e.token = 1 /\ e.slot = cur.slot

\* The steps that leave both alone.
Aside ==
  /\ UNCHANGED <<fork, torn, rs, edges, launches>>
  /\ pc' \in GraphPcs => GraphOn
  /\ pc' \in GraphPcs \ {"edge0"}
       => /\ cur' = cur
          /\ \/ pc' = pc
             \/ pc = "label0" /\ pc' = "edge1"
             \/ pc = "label1" /\ pc' = "hook"
  /\ pc' \in {"delLabels", "delLaunches"} => pc \in {"delLabels", "delLaunches"}

\* The task ends.
Ends ==
  /\ \E how \in Halted : End(how)
  /\ UNCHANGED <<fork, edges, launches>>

LEMMA GraphSteps ==
  Typed /\ GraphSide /\ [Next]_vars =>
    \/ Aside \/ Ends
    \/ \E s \in Slot : ReorgMarker(s)
    \/ WriteEdge("edge0", 0, "label0") \/ WriteEdge("edge1", 1, "label1")
    \/ HookAndRoute \/ Rewind \/ DeleteEdges \/ RetractLaunches
<1> SUFFICES ASSUME Typed, GraphSide, [Next]_vars,
                    ~(\E s \in Slot : ReorgMarker(s)),
                    ~WriteEdge("edge0", 0, "label0"),
                    ~WriteEdge("edge1", 1, "label1"),
                    ~HookAndRoute, ~Rewind, ~DeleteEdges, ~RetractLaunches
             PROVE  Aside \/ Ends
  OBVIOUS
<1> USE DEF GraphPcs
<1>1. CASE StreamEnds \/ Crash \/ DrainFailed \/ CallFails \/ FinalCheckpoint
  BY <1>1 DEF StreamEnds, Crash, DrainFailed, CallFails, FinalCheckpoint, Ends,
     Halted, env, graph
<1>2. CASE Start \/ StartFails \/ RequestShutdown \/ \E t \in T : Age(t)
  BY <1>2 DEF Start, StartFails, RequestShutdown, Age, Aside, GraphSide, env,
     mem, graph
<1>3. CASE Stream /\ ~StreamEnds
  BY <1>3 DEF Stream, RouteRow, PoolInitialize, TokenMeta, NoRowEvent, Aside,
     env, mem, graph
<1>4. CASE WriteLabel("label0", "edge1") \/ WriteLabel("label1", "hook")
  BY <1>4 DEF WriteLabel, Aside, GraphSide, env, mem
<1>5. CASE \/ LeaveLoop \/ UpsertTokenMeta \/ WriteAuthority \/ CheckTable
           \/ ChecksDone \/ InsertRow \/ BatchInserted \/ SaveCheckpoint
  BY <1>5 DEF LeaveLoop, UpsertTokenMeta, WriteAuthority, CheckTable,
     ChecksDone, InsertRow, BatchInserted, SaveCheckpoint, Aside, env, mem,
     graph
<1>6. CASE \/ DrainRow \/ DrainRowFails \/ DrainNext \/ Drained
           \/ DeleteFromTable \/ Deleted \/ DeleteLabels \/ UNCHANGED vars
  BY <1>6 DEF DrainRow, DrainRowFails, DrainNext, Drained, DeleteFromTable,
     Deleted, DeleteLabels, Aside, GraphSide, env, mem, graph, vars
<1> QED
  BY <1>1, <1>2, <1>3, <1>4, <1>5, <1>6
     DEF Next, Stream, Progress, Faults, GraphWrite

\* What the graph writer and the hook are given is canonical.
LEMMA CurCanonical ==
  ASSUME Safe, pc \in GraphPcs
  PROVE  /\ cur \in Row /\ cur.slot \in Slot /\ rs = 0
         /\ ~torn => Canonical(cur)
<1>1. cur # NoRow /\ cur \in Row /\ rs = 0
  BY DEF Safe, Typed, ControlOK, DataOK, GraphPcs, ReorgPcs
<1>2. cur \in InMemory
  BY <1>1 DEF InMemory
<1> QED
  BY <1>1, <1>2 DEF Safe, NoOrphanedRows, Handling, Row

LEMMA StepGraphSide == Safe /\ GraphSide /\ [Next]_vars => GraphSide'
<1> SUFFICES ASSUME Safe, GraphSide, [Next]_vars PROVE GraphSide'
  OBVIOUS
<1>1. CASE Aside
  BY <1>1 DEF Aside, GraphSide, Canonical
<1>2. CASE Ends
<2>1. pc' \in Halted /\ rs' = 0 /\ torn' = (torn \/ rs # 0)
  BY <1>2 DEF Ends, End
<2>2. UNCHANGED <<fork, edges, launches>>
  BY <1>2 DEF Ends
<2> QED
  BY <2>1, <2>2 DEF GraphSide, Canonical, Halted, GraphPcs
<1>3. ASSUME NEW s \in Slot, ReorgMarker(s) PROVE GraphSide'
<2>1. /\ rs = 0 /\ rs' = s /\ pc' = "drain" /\ s # 0
      /\ fork' = [x \in Slot |-> IF x >= s THEN fork[x] + 1 ELSE fork[x]]
      /\ UNCHANGED <<torn, edges, launches>>
  BY <1>3 DEF ReorgMarker, Selecting, graph, Safe, Typed, ControlOK, ReorgPcs, Slot
<2>2. /\ \A e \in edges : e.slot \in Slot
      /\ \A l \in launches : l.slot \in Slot
  BY DEF Safe, Typed, DataOK, Edge, Row
<2> QED
  BY <2>1, <2>2 DEF GraphSide, Canonical, GraphPcs
<1>4. CASE WriteEdge("edge0", 0, "label0") \/ WriteEdge("edge1", 1, "label1")
<2>1. pc \in GraphPcs /\ pc' \in {"label0", "label1"}
  BY <1>4 DEF WriteEdge, GraphPcs
<2>2. UNCHANGED <<fork, torn, rs, launches>>
  BY <1>4 DEF WriteEdge, env, mem
<2>3. \A e \in edges' : e \in edges \/ (e.slot = cur.slot /\ e.fork = cur.fork)
  BY <1>4 DEF WriteEdge, WithEdge
<2> QED
  BY <2>1, <2>2, <2>3, CurCanonical DEF GraphSide, Canonical
<1>5. CASE HookAndRoute
<2>1. pc \in GraphPcs /\ pc' = "check" /\ launches' = launches \union {cur}
  BY <1>5 DEF HookAndRoute, GraphPcs
<2>2. UNCHANGED <<fork, torn, rs, edges>>
  BY <1>5 DEF HookAndRoute, env
<2> QED
  BY <2>1, <2>2, CurCanonical DEF GraphSide, Canonical, GraphPcs
<1>6. CASE Rewind
<2>1. UNCHANGED <<fork, torn, edges, launches>> /\ pc' \in {"delEdges", "select"}
  BY <1>6 DEF Rewind, env, graph
<2>2. GraphOn => rs' = rs
  BY <1>6 DEF Rewind
<2> QED
  BY <2>1, <2>2 DEF GraphSide, Canonical, GraphPcs
<1>7. CASE DeleteEdges
<2>1. /\ edges' = {e \in edges : e.slot < rs} /\ pc' = "delLabels"
      /\ UNCHANGED <<fork, torn, rs, launches>>
  BY <1>7 DEF DeleteEdges, env, mem
<2> QED
  BY <2>1 DEF GraphSide, Canonical, GraphPcs
<1>8. CASE RetractLaunches
<2>1. /\ launches' = {l \in launches : l.slot < rs} /\ pc' = "select" /\ rs' = 0
      /\ pc = "delLaunches" /\ UNCHANGED <<fork, torn, edges>>
  BY <1>8 DEF RetractLaunches, env
<2>2. /\ rs \in Nat /\ \A e \in edges : e.slot \in Nat
      /\ \A l \in launches : l.slot \in Nat
  BY DEF Safe, Typed, DataOK, Edge, Row, Slot
<2> QED
  BY <2>1, <2>2 DEF GraphSide, Canonical, GraphPcs
<1> QED
  BY <1>1, <1>2, <1>3, <1>4, <1>5, <1>6, <1>7, <1>8, GraphSteps DEF Safe

\* The same of the graph and the hook: DELETE .. WHERE block_height >= and
\* on_reorg leave no edge and no launch of an orphaned fork, and the writes
\* before them put none there.
THEOREM ReorgCleansGraph == Spec => []NoOrphanedGraph
<1>1. Init => GraphSide
  BY DEF Init, GraphSide, GraphPcs
<1>2. GraphSide => NoOrphanedGraph
  BY DEF GraphSide, NoOrphanedGraph, Handling
<1> QED
  BY <1>1, <1>2, StepGraphSide, InitSafe, StepSafe, PTL DEF Spec

LEMMA StepEdgesFirst ==
  Typed /\ GraphSide /\ EdgesFirst /\ [Next]_vars => EdgesFirst'
<1> SUFFICES ASSUME Typed, GraphSide, EdgesFirst, [Next]_vars PROVE EdgesFirst'
  OBVIOUS
<1> USE DEF GraphPcs
<1>1. CASE Aside
  BY <1>1 DEF Aside, EdgesFirst
<1>2. CASE Ends
  BY <1>2 DEF Ends, End, EdgesFirst, Halted
<1>3. CASE \/ (\E s \in Slot : ReorgMarker(s)) \/ HookAndRoute \/ Rewind
           \/ DeleteEdges \/ RetractLaunches
<2>1. pc' \notin GraphPcs
  BY <1>3 DEF ReorgMarker, HookAndRoute, Rewind, DeleteEdges, RetractLaunches
<2> QED
  BY <2>1 DEF EdgesFirst
<1>4. ASSUME NEW here, NEW token, NEW next, WriteEdge(here, token, next)
      PROVE  /\ edges \subseteq edges' /\ cur' = cur /\ pc = here /\ pc' = next
             /\ \E e \in edges' : e.token = token /\ e.slot = cur.slot
<2> DEFINE new == [token |-> token, slot |-> cur.slot, fork |-> cur.fork]
<2>1. \/ edges' = edges /\ \E e \in edges : e.token = token /\ e.slot = cur.slot
      \/ edges' = edges \union {new}
  BY <1>4 DEF WriteEdge, WithEdge
<2>2. new.token = token /\ new.slot = cur.slot
  OBVIOUS
<2>3. cur' = cur /\ pc = here /\ pc' = next
  BY <1>4 DEF WriteEdge, mem
<2> HIDE DEF new
<2> QED
  BY <2>1, <2>2, <2>3
<1>5. CASE WriteEdge("edge0", 0, "label0")
  BY <1>4, <1>5 DEF EdgesFirst
<1>6. CASE WriteEdge("edge1", 1, "label1")
  BY <1>4, <1>6 DEF EdgesFirst
<1> QED
  BY <1>1, <1>2, <1>3, <1>5, <1>6, GraphSteps

\* on_new_token_launch is called for a pool only after the DeployerOf edges of
\* both its tokens are in the graph, those a reorg has taken away included.
THEOREM EdgesBeforeHook == Spec => HookSeesEdges
<1>1. EdgesFirst /\ [Next]_vars
        => [\A l \in launches' \ launches : \A token \in {0, 1} :
              \E e \in edges : e.token = token /\ e.slot = l.slot]_vars
<2> SUFFICES ASSUME EdgesFirst, [Next]_vars, NEW l \in launches' \ launches
             PROVE  \A token \in {0, 1} :
                      \E e \in edges : e.token = token /\ e.slot = l.slot
  OBVIOUS
<2>1. HookAndRoute
  BY DEF Next, Stream, Progress, Faults, Start, StartFails, Crash,
     RequestShutdown, Age, RouteRow, PoolInitialize, TokenMeta, NoRowEvent,
     ReorgMarker, StreamEnds, LeaveLoop, GraphWrite, WriteEdge, WriteLabel,
     UpsertTokenMeta, WriteAuthority, CheckTable, ChecksDone, InsertRow,
     BatchInserted, SaveCheckpoint, DrainRow, DrainRowFails, DrainNext,
     Drained, DrainFailed, FinalCheckpoint, DeleteFromTable, Deleted, Rewind,
     DeleteEdges, DeleteLabels, RetractLaunches, CallFails, graph, vars
<2>2. pc = "hook" /\ l = cur
  BY <2>1 DEF HookAndRoute
<2> QED
  BY <2>2 DEF EdgesFirst, GraphPcs
<1>2. Init => GraphSide /\ EdgesFirst
  BY DEF Init, GraphSide, EdgesFirst, GraphPcs
<1>3. Safe => Typed
  BY DEF Safe
<1> QED
  BY <1>1, <1>2, <1>3, StepGraphSide, StepEdgesFirst, InitSafe, StepSafe, PTL
     DEF Spec, HookSeesEdges

(***************************************************************************)
(* The indexer implements CheckpointedStore, for every number of slots,    *)
(* forks and restarts and every batch size: Init maps to its Init, and by  *)
(* its effect every step maps to a step of it or to none.  A commit must   *)
(* be of an owed row, so two facts join the invariant: buffers hold rows   *)
(* of their own table (Sorted), hence the batch that is given up takes no  *)
(* row with it that memory keeps, and what is in memory is owed (Owned).   *)
(***************************************************************************)
Sorted ==
  \A t \in T : \A r \in Elems(buf[t]) \union Elems(batch[t]) : r.table = t

Owned == db \subseteq delivered /\ InMemory \subseteq delivered \ lost

(***************************************************************************)
(* The two facts.                                                          *)
(***************************************************************************)
LEMMA StepSorted == Typed /\ Sorted /\ [Next]_vars => Sorted'
<1> SUFFICES ASSUME Typed, Sorted, [Next]_vars PROVE Sorted'
  OBVIOUS
<1>1. CASE UNCHANGED <<buf, batch>>
  BY <1>1 DEF Sorted
<1>2. ASSUME NEW r \in Row, Push(r), batch' = batch PROVE Sorted'
  <2>1. r.table \in T /\ buf[r.table] \in Seq(Row)
    BY DEF Typed, DataOK, Row
  <2>2. \A t \in T : Elems(buf'[t]) = IF t = r.table THEN Elems(buf[t]) \union {r}
                                                    ELSE Elems(buf[t])
    BY <1>2, <2>1, ElemsAppend DEF Typed, DataOK, Push
  <2> QED
    BY <1>2, <2>2 DEF Sorted
<1>3. CASE (\E r \in Row : RouteRow(r)) \/ HookAndRoute
  <2>1. HookAndRoute => cur \in Row
    BY DEF HookAndRoute, Typed, DataOK, ControlOK, GraphPcs
  <2> QED
    BY <1>2, <1>3, <2>1 DEF RouteRow, HookAndRoute
<1>4. CASE LeaveLoop \/ \E s \in Slot : ReorgMarker(s)
  <2>1. batch' = buf /\ \A t \in T : Elems(buf'[t]) = {}
    BY <1>4, ElemsEmpty DEF LeaveLoop, ReorgMarker, Empty
  <2> QED
    BY <2>1 DEF Sorted
<1>5. CASE CheckTable
  <2>1. CASE ShouldFlush(ti)
    <3>1. /\ ti \in T
          /\ batch' = [batch EXCEPT ![ti] = buf[ti]]
          /\ buf' = [buf EXCEPT ![ti] = <<>>]
      BY <1>5, <2>1 DEF CheckTable
    <3>2. \A t \in T : /\ Elems(buf'[t]) \subseteq Elems(buf[t])
                       /\ Elems(batch'[t]) \subseteq Elems(batch[t]) \union Elems(buf[t])
      BY <3>1, ElemsEmpty DEF Typed, DataOK
    <3> QED
      BY <3>2 DEF Sorted
  <2>2. CASE ~ShouldFlush(ti)
    BY <1>1, <1>5, <2>2 DEF CheckTable
  <2> QED
    BY <2>1, <2>2
<1>6. CASE InsertRow \/ DrainRow \/ DrainRowFails
  <2>1. ti \in T /\ Len(batch[ti]) > 0 /\ buf' = buf /\ batch[ti] \in Seq(Row)
    BY <1>6 DEF InsertRow, DrainRow, DrainRowFails, Typed, DataOK, ControlOK
  <2>2. \A t \in T : Elems(batch'[t]) \subseteq Elems(batch[t])
    BY <1>6, <2>1, ElemsHeadTail, ElemsEmpty
       DEF InsertRow, DrainRow, DrainRowFails, CommitHead, Typed, DataOK
  <2> QED
    BY <2>1, <2>2 DEF Sorted
<1>7. CASE StreamEnds \/ Crash \/ DrainFailed \/ CallFails \/ FinalCheckpoint
  <2>1. \A t \in T : Elems(buf'[t]) = {} /\ Elems(batch'[t]) = {}
    BY <1>7, ElemsEmpty DEF StreamEnds, Crash, DrainFailed, CallFails,
       FinalCheckpoint, End, Empty
  <2> QED
    BY <2>1 DEF Sorted
<1>8. CASE \/ Start \/ StartFails \/ RequestShutdown \/ (\E t \in T : Age(t))
           \/ (\E r \in Row : PoolInitialize(r)) \/ TokenMeta \/ NoRowEvent
           \/ (GraphWrite /\ ~HookAndRoute) \/ UpsertTokenMeta \/ WriteAuthority
           \/ ChecksDone \/ BatchInserted \/ SaveCheckpoint \/ DrainNext
           \/ Drained \/ DeleteFromTable \/ Deleted \/ Rewind \/ DeleteEdges
           \/ DeleteLabels \/ RetractLaunches \/ UNCHANGED vars
  BY <1>1, <1>8 DEF Start, StartFails, RequestShutdown, Age, PoolInitialize,
     TokenMeta, NoRowEvent, GraphWrite, WriteEdge, WriteLabel, UpsertTokenMeta,
     WriteAuthority, ChecksDone, BatchInserted, SaveCheckpoint, DrainNext,
     Drained, DeleteFromTable, Deleted, Rewind, DeleteEdges, DeleteLabels,
     RetractLaunches, vars, mem
<1> QED
  BY <1>3, <1>4, <1>5, <1>6, <1>7, <1>8 DEF Next, Stream, Progress, Faults

\* What a failing table loses is not held elsewhere in memory.
LEMMA GiveUpApart ==
  ASSUME Typed, Batches, Sorted, DrainRowFails
  PROVE  InMemory' \intersect (lost' \ lost) = {}
<1>1. /\ ti \in T /\ buf = Empty /\ buf' = buf /\ cur = NoRow /\ cur' = NoRow
      /\ batch' = [batch EXCEPT ![ti] = <<>>]
      /\ lost' \ lost \subseteq Elems(batch[ti])
  BY DEF DrainRowFails, Batches, Typed, ControlOK, GraphPcs, ReorgPcs
<1>2. \A t \in T : /\ Elems(buf'[t]) = {}
                   /\ Elems(batch'[t]) = IF t = ti THEN {} ELSE Elems(batch[t])
  BY <1>1, ElemsEmpty DEF Typed, DataOK, Empty
<1>3. \A q \in InMemory' : q.table # ti
  BY <1>1, <1>2 DEF InMemory, Sorted
<1>4. \A q \in lost' \ lost : q.table = ti
  BY <1>1 DEF Sorted
<1> QED
  BY <1>3, <1>4

LEMMA StepOwned ==
  Typed /\ Batches /\ Sorted /\ Owned /\ Effect => Owned'
<1> SUFFICES ASSUME Typed, Batches, Sorted, Owned, Effect PROVE Owned'
  OBVIOUS
<1>1. ASSUME NEW r \in Row, Take(r) PROVE Owned'
  BY <1>1 DEF Take, Handed, Owned
<1>2. CASE Keep
  BY <1>2 DEF Keep, Owned
<1>3. CASE Forget
  <2>1. InMemory' \intersect (lost' \ lost) = {}
    BY <1>3, GiveUpApart DEF Forget
  <2> QED
    BY <1>3, <2>1 DEF Forget, Owned
<1>4. CASE Begin \/ (\E s \in Slot : Reorganise(s)) \/ Delete \/ MoveMark \/ Finish
  BY <1>4 DEF Begin, Reorganise, Delete, MoveMark, Finish, Owned
<1> QED
  BY <1>1, <1>2, <1>3, <1>4 DEF Effect

(***************************************************************************)
(* The refinement.                                                         *)
(***************************************************************************)
LEMMA InitStore == Init => Store!Init
  BY DEF Init, Store!Init, Store!Slot, Slot

LEMMA StoreRow == Row = Store!Row /\ Slot = Store!Slot
  BY DEF Row, T, Slot, Fork, Store!Row, Store!Slot

LEMMA StepStore ==
  Safe /\ Owned /\ Sorted /\ [Next]_vars => [Store!Next]_(Store!vars)
<1> SUFFICES ASSUME Safe, Owned, Sorted, [Next]_vars
             PROVE  Store!Next \/ UNCHANGED Store!vars
  OBVIOUS
<1> USE StoreRow DEF Safe, Typed, DataOK
<1>1. Effect
  BY StepEffect
<1>2. ASSUME NEW r \in Row, Take(r) PROVE Store!Next
  <2>1. delivered' \ lost' = (delivered \ lost) \union {r}
    BY <1>2 DEF Take, Handed
  <2>2. torn \/ r.slot > cp
    BY <1>2 DEF Take, Handed, Marks, Row, Slot
  <2>3. Store!Deliver(r)
    BY <1>2, <2>1, <2>2 DEF Take, Handed, Canonical, Store!Deliver,
       Store!Canonical
  <2> QED
    BY <2>3 DEF Store!Next
<1>3. CASE Keep
  <2>1. CASE db' = db
    BY <1>3, <2>1 DEF Keep, Store!vars
  <2>2. ASSUME NEW r \in InMemory, db' = db \union {r} PROVE Store!Next
    <3>1. r \in delivered \ lost /\ r \in Row
      BY DEF Owned
    <3>2. Store!Commit(r)
      BY <1>3, <2>2, <3>1 DEF Keep, Store!Commit
    <3> QED
      BY <3>1, <3>2 DEF Store!Next
  <2> QED
    BY <1>3, <2>1, <2>2 DEF Keep
<1>4. CASE Forget
  <2>1. torn' \in {torn, TRUE}
    BY <1>4 DEF Forget
  <2>2. Store!Fail
    BY <1>4, <2>1 DEF Forget, Store!Fail
  <2> QED
    BY <2>2 DEF Store!Next
<1>5. CASE Begin \/ Finish
  BY <1>5 DEF Begin, Finish, Store!vars
<1>6. ASSUME NEW s \in Slot, Reorganise(s) PROVE Store!Next
  <2>1. Store!Reorganise(s)
    BY <1>6 DEF Reorganise, Store!Reorganise
  <2> QED
    BY <2>1 DEF Store!Next
<1>7. CASE Delete
  <2>1. \A r \in db \ db' : ~Canonical(r)
    BY <1>7 DEF Delete, Owned, Forks
  <2>2. Store!Discard
    BY <1>7, <2>1 DEF Delete, Canonical, Store!Discard, Store!Canonical
  <2> QED
    BY <2>2 DEF Store!Next
<1>8. CASE MoveMark
  <2>1. Store!CoveredAt(cp')
    BY <1>8 DEF MoveMark, NothingDropped, Canonical, Store!CoveredAt,
       Store!Canonical
  <2>2. cp' \in 0..MaxSlot
    BY <1>8, BoundsAssumption DEF MoveMark
  <2>3. Store!SaveCheckpoint(cp')
    BY <1>8, <2>1 DEF MoveMark, Store!SaveCheckpoint
  <2> QED
    BY <2>2, <2>3 DEF Store!Next
<1> QED
  BY <1>1, <1>2, <1>3, <1>4, <1>5, <1>6, <1>7, <1>8 DEF Effect

\* The tables and the checkpoint, seen without the task that writes them, do
\* what CheckpointedStore allows: rows of the stream are committed unless the
\* process fails first, only orphaned rows are discarded, and SaveCheckpoint
\* is taken at covered slots only.
THEOREM IndexerImplementsStore == Spec => ImplementsStore
<1>1. Init => Safe /\ Owned /\ Sorted
  <2>1. Init => Sorted /\ Owned
    <3> SUFFICES ASSUME Init PROVE Sorted /\ Owned
      OBVIOUS
    <3>1. \A t \in T : Elems(buf[t]) = {} /\ Elems(batch[t]) = {}
      BY ElemsEmpty DEF Init, Empty
    <3>2. InMemory = {}
      BY MemoryEmpty DEF Init
    <3> QED
      BY <3>1, <3>2 DEF Init, Sorted, Owned
  <2> QED
    BY <2>1, InitSafe
<1>2. Safe /\ Owned /\ Sorted /\ [Next]_vars => (Safe /\ Owned /\ Sorted)'
  <2> SUFFICES ASSUME Safe, Owned, Sorted, [Next]_vars
               PROVE  (Safe /\ Owned /\ Sorted)'
    OBVIOUS
  <2>1. Typed /\ Batches /\ Marks
    BY DEF Safe
  <2> QED
    BY <2>1, StepSafe, StepEffect, StepOwned, StepSorted
<1> QED
  BY <1>1, <1>2, InitStore, StepStore, PTL DEF Spec, ImplementsStore, Store!Spec
=============================================================================
