------------------------------ MODULE Indexer ------------------------------
(***************************************************************************)
(* The indexer task (crates/indexer): Indexer::run with its EventBatcher,  *)
(* the sink's event tables, the checkpoint store, the reorg protocol and   *)
(* the optional graph writer and pool-initialize hook.                     *)
(*                                                                         *)
(* One task drives everything, so the interleavings are those of the task  *)
(* with its environment: the adapter stream, time (the batch timeout), the *)
(* shutdown token, a database call that fails, and a process that dies     *)
(* between two awaits.  `pc' names the await the task is suspended at.     *)
(*                                                                         *)
(* Rows carry the slot and the fork they were observed on.  `fork' is the  *)
(* canonical fork of each slot as far as the stream has told: it changes   *)
(* when the stream hands over a ReorgMarker.                               *)
(***************************************************************************)
EXTENDS Naturals, Sequences

CONSTANTS
  MaxSlot,    \* slots are 1..MaxSlot; 0 is "no slot yet"
  MaxFork,    \* bound: how often a slot may be reorganised
  MaxStarts,  \* bound: how often the process is started
  BatchSize,  \* BatchConfig.size, the size trigger of every buffer
  Emits,      \* the tables whose events the stream carries
  GraphOn     \* graph_writer and pool_initialize_hook are Some

ASSUME BoundsAssumption ==
  /\ MaxSlot \in Nat /\ MaxFork \in Nat /\ MaxStarts \in Nat
  /\ BatchSize \in Nat
  /\ Emits \subseteq 1..3
  /\ GraphOn \in BOOLEAN

VARIABLES
  fork,       \* environment: canonical fork of each slot
  cursor,     \* environment: the slot the stream has reached
  delivered,  \* history: every row the stream ever handed over
  lost,       \* history: rows that were only in memory when the task ended
  torn,       \* history: some reorg handler was cut short
  starts,     \* history: how often the process was started
  shutdown,   \* the shutdown token is cancelled
  pc,         \* the await (or the end) the task is at
  ti,         \* the table a flush or a delete is working on
  buf,        \* EventBatcher: the three routed per-table buffers
  aged,       \* tables whose first_at is batch_timeout_ms in the past
  batch,      \* events drained from the buffers, not yet inserted
  lastErr,    \* last_err of flush_drained_batch is Some
  rs,         \* slot of the ReorgMarker being handled, 0 when none is
  cur,        \* the Initialize event held across the graph writes
  lastSlot,   \* last_slot
  lastTime,   \* last_block_time, as the slot of the event it came from
  db,         \* rows of the transfers, swaps and pool_events tables
  cp,         \* last_slot of the adapter's checkpoint row (0 when absent)
  edges,      \* graph_edges rows of type DeployerOf
  authority,  \* graph_edges rows of type AuthorityOf (of one token)
  labels,     \* address_labels: the deployer's DeployerEOA row, if any
  launches    \* launches recorded behind the pool-initialize hook

env   == <<fork, cursor, delivered>>
mem   == <<ti, buf, aged, batch, lastErr, rs, cur, lastSlot, lastTime>>
graph == <<edges, authority, labels, launches>>
vars  == <<env, lost, torn, starts, shutdown, pc, mem, db, cp, graph>>

T      == 1..3   \* transfers, swaps, pool_events: the order of the checks
Slot   == 1..MaxSlot
Fork   == 0..MaxFork
Row    == [table : T, slot : Slot, fork : Fork]
Edge   == [token : {0, 1}, slot : Slot, fork : Fork]
\* height is the row's block_height, seen the slot the stream had reached.
AuthorityEdge == [height : 0..MaxSlot, seen : 0..MaxSlot]
NoRow  == [table |-> 1, slot |-> 0, fork |-> 0]

Halted    == {"stopped", "failed", "crashed"}
GraphPcs  == {"edge0", "label0", "edge1", "label1", "hook"}
MetaPcs   == {"tokens", "authority"}
LoopPcs   == {"select", "check", "insert", "save"}
ReorgPcs  == {"delete", "rewind", "delEdges", "delLabels", "delLaunches"}
Pc        == Halted \union GraphPcs \union MetaPcs \union LoopPcs
               \union ReorgPcs \union {"drain", "final"}

Elems(s)     == {s[i] : i \in 1..Len(s)}
Empty        == [t \in T |-> <<>>]
Canonical(r) == r.fork = fork[r.slot]

\* Rows the running task holds and no table has to hold yet.
InMemory ==
  (UNION {Elems(buf[t]) \union Elems(batch[t]) : t \in T})
    \union (IF cur = NoRow THEN {} ELSE {cur})

\* Altered ShouldFlush: the timeout trigger is forgotten.
ShouldFlushBySize(t) == Len(buf[t]) > 0 /\ Len(buf[t]) >= BatchSize

\* PerTableBuffer::should_flush
ShouldFlush(t) == Len(buf[t]) > 0 /\ (Len(buf[t]) >= BatchSize \/ t \in aged)

DataOK ==
  /\ fork \in [Slot -> Fork]
  /\ cursor \in 0..MaxSlot
  /\ delivered \subseteq Row /\ lost \subseteq Row
  /\ starts \in Nat
  /\ pc \in Pc
  /\ ti \in 1..4
  /\ buf \in [T -> Seq(Row)] /\ aged \subseteq T
  /\ batch \in [T -> Seq(Row)]
  /\ rs \in 0..MaxSlot
  /\ cur \in Row \union {NoRow}
  /\ lastSlot \in 0..MaxSlot /\ lastTime \in 0..MaxSlot
  /\ db \subseteq Row
  /\ cp \in 0..MaxSlot
  /\ edges \subseteq Edge /\ authority \subseteq AuthorityEdge
  /\ labels \subseteq Row /\ launches \subseteq Row

FlagsOK == torn \in BOOLEAN /\ shutdown \in BOOLEAN /\ lastErr \in BOOLEAN

\* Where the task is decides what it holds: an Initialize event across the
\* graph writes, a marker through its handler, a table while it is flushed.
ControlOK ==
  /\ pc \in GraphPcs <=> cur # NoRow
  /\ pc \in ReorgPcs => rs # 0
  /\ rs # 0 => pc \in ReorgPcs \union {"drain"}
  /\ pc \in {"insert", "save"} => ti \in T

TypeOK == DataOK /\ FlagsOK /\ ControlOK

Init ==
  /\ fork = [s \in Slot |-> 0] /\ cursor = 0 /\ delivered = {}
  /\ lost = {} /\ torn = FALSE /\ starts = 0 /\ shutdown = FALSE
  /\ pc = "stopped" /\ ti = 1
  /\ buf = Empty /\ aged = {} /\ batch = Empty
  /\ lastErr = FALSE /\ rs = 0 /\ cur = NoRow
  /\ lastSlot = 0 /\ lastTime = 0
  /\ db = {} /\ cp = 0
  /\ edges = {} /\ authority = {} /\ labels = {} /\ launches = {}

(***************************************************************************)
(* Process start and end.                                                  *)
(***************************************************************************)

\* The task's memory is gone: run returned, or the process died.
End(how) ==
  /\ pc' = how
  /\ buf' = Empty /\ aged' = {} /\ batch' = Empty
  /\ ti' = 1 /\ lastErr' = FALSE /\ rs' = 0 /\ cur' = NoRow
  /\ lastSlot' = 0 /\ lastTime' = 0 /\ shutdown' = FALSE
  /\ lost' = IF how = "stopped" THEN lost ELSE lost \union (InMemory \ db)
  /\ torn' = (torn \/ rs # 0)

\* The checkpoint is loaded and the stream opened.  subscribe gets the
\* filter only: the stream starts at whatever the tip is by then.
Start ==
  /\ pc \in Halted /\ starts < MaxStarts
  /\ starts' = starts + 1
  /\ pc' = "select"
  /\ lastSlot' = cp /\ lastTime' = 0
  /\ \E tip \in cursor..MaxSlot : cursor' = tip
  /\ UNCHANGED <<fork, delivered, lost, torn, shutdown, ti, buf, aged, batch,
                 lastErr, rs, cur, db, cp, graph>>

StartFails ==
  /\ pc \in Halted /\ starts < MaxStarts
  /\ starts' = starts + 1
  /\ pc' = "failed"
  /\ UNCHANGED <<env, lost, torn, shutdown, mem, db, cp, graph>>

Crash ==
  /\ pc \notin Halted
  /\ End("crashed")
  /\ UNCHANGED <<env, starts, db, cp, graph>>

RequestShutdown ==
  /\ pc \notin Halted /\ ~shutdown
  /\ shutdown' = TRUE
  /\ UNCHANGED <<env, lost, torn, starts, pc, mem, db, cp, graph>>

\* batch_timeout_ms passes for a non-empty buffer.
Age(t) ==
  /\ Len(buf[t]) > 0 /\ t \notin aged
  /\ aged' = aged \union {t}
  /\ UNCHANGED <<env, lost, torn, starts, shutdown, pc, ti, buf, batch,
                 lastErr, rs, cur, lastSlot, lastTime, db, cp, graph>>

(***************************************************************************)
(* The select: shutdown is polled first, so no event is taken after it.    *)
(***************************************************************************)
\* Altered Selecting: the select is not biased towards the token.
SelectingUnbiased == pc = "select"

Selecting == pc = "select" /\ ~shutdown

Push(r) == buf' = [buf EXCEPT ![r.table] = Append(@, r)]

\* The stream hands over row r of the slot it has reached or of a later one.
Handed(r) ==
  /\ r.slot >= cursor /\ Canonical(r)
  /\ cursor' = r.slot
  /\ delivered' = delivered \union {r}
  /\ lost' = lost \ {r}
  /\ lastTime' = r.slot

\* Altered RouteRow: last_slot follows the events, so that the flush of one
\* table saves a slot whose other tables are still buffered.
RouteRowAdvancing(r) ==
  /\ Selecting /\ r.table \in Emits
  /\ Handed(r)
  /\ Push(r)
  /\ lastSlot' = r.slot
  /\ pc' = "check" /\ ti' = 1
  /\ UNCHANGED <<fork, torn, starts, shutdown, aged, batch, lastErr, rs, cur,
                 db, cp, graph>>

\* Transfer, Swap, and a PoolEvent other than Initialize: buffered.
RouteRow(r) ==
  /\ Selecting /\ r.table \in Emits
  /\ Handed(r)
  /\ Push(r)
  /\ pc' = "check" /\ ti' = 1
  /\ UNCHANGED <<fork, torn, starts, shutdown, aged, batch, lastErr, rs, cur,
                 lastSlot, db, cp, graph>>

\* Altered PoolInitialize: the hook is called before the graph is written.
PoolInitializeHookFirst(r) ==
  /\ Selecting /\ GraphOn /\ r.table = 3 /\ 3 \in Emits
  /\ Handed(r)
  /\ cur' = r
  /\ pc' = "hook"
  /\ UNCHANGED <<fork, torn, starts, shutdown, ti, buf, aged, batch, lastErr,
                 rs, lastSlot, db, cp, graph>>

\* PoolEvent::Initialize with a graph writer: the graph is written before
\* the event is routed.
PoolInitialize(r) ==
  /\ Selecting /\ GraphOn /\ r.table = 3 /\ 3 \in Emits
  /\ Handed(r)
  /\ cur' = r
  /\ pc' = "edge0"
  /\ UNCHANGED <<fork, torn, starts, shutdown, ti, buf, aged, batch, lastErr,
                 rs, lastSlot, db, cp, graph>>

\* TokenMeta: upserted at once, never buffered (the tokens row itself has no
\* slot and no fork, so it is not kept here).
TokenMeta ==
  /\ Selecting
  /\ pc' = "tokens"
  /\ UNCHANGED <<env, lost, torn, starts, shutdown, mem, db, cp, graph>>

\* SlotFinalized or an unknown variant: only the flush checks.
NoRowEvent ==
  /\ Selecting
  /\ pc' = "check" /\ ti' = 1
  /\ UNCHANGED <<env, lost, torn, starts, shutdown, buf, aged, batch, lastErr,
                 rs, cur, lastSlot, lastTime, db, cp, graph>>

\* Altered ReorgMarker: the buffers are not drained before the DELETEs.
ReorgMarkerUndrained(s) ==
  /\ Selecting
  /\ s <= cursor /\ \A x \in s..MaxSlot : fork[x] < MaxFork
  /\ fork' = [x \in Slot |-> IF x >= s THEN fork[x] + 1 ELSE fork[x]]
  /\ cursor' = s
  /\ rs' = s
  /\ ti' = 1 /\ lastErr' = FALSE
  /\ pc' = "delete"
  /\ UNCHANGED <<delivered, lost, torn, starts, shutdown, buf, aged, batch,
                 cur, lastSlot, lastTime, db, cp, graph>>

\* ReorgMarker: slots from s on are replaced; handle_reorg drains everything.
ReorgMarker(s) ==
  /\ Selecting
  /\ s <= cursor /\ \A x \in s..MaxSlot : fork[x] < MaxFork
  /\ fork' = [x \in Slot |-> IF x >= s THEN fork[x] + 1 ELSE fork[x]]
  /\ cursor' = s
  /\ rs' = s
  /\ batch' = buf /\ buf' = Empty /\ aged' = {}
  /\ ti' = 1 /\ lastErr' = FALSE
  /\ pc' = "drain"
  /\ UNCHANGED <<delivered, lost, torn, starts, shutdown, cur, lastSlot,
                 lastTime, db, cp, graph>>

\* The stream yields None: Err(StreamEnded), nothing is flushed.
StreamEnds ==
  /\ Selecting
  /\ End("failed")
  /\ UNCHANGED <<env, starts, db, cp, graph>>

\* Altered LeaveLoop: only the final checkpoint is written.
LeaveLoopUndrained ==
  /\ pc = "select" /\ shutdown
  /\ pc' = "final"
  /\ UNCHANGED <<env, lost, torn, starts, shutdown, mem, db, cp, graph>>

\* Shutdown seen: the loop is left and the buffers are drained.
LeaveLoop ==
  /\ pc = "select" /\ shutdown
  /\ batch' = buf /\ buf' = Empty /\ aged' = {}
  /\ ti' = 1 /\ lastErr' = FALSE
  /\ pc' = "drain"
  /\ UNCHANGED <<env, lost, torn, starts, shutdown, rs, cur, lastSlot,
                 lastTime, db, cp, graph>>

(***************************************************************************)
(* Graph writes of an Initialize event: DeployerOf edge and DeployerEOA    *)
(* label for token0, then for token1, then the hook, then the routing.     *)
(* The pools of the model have one deployer, so there is one label row.    *)
(***************************************************************************)
\* insert_edge: ON CONFLICT (.., token, block_height) DO NOTHING
WithEdge(token) ==
  IF \E e \in edges : e.token = token /\ e.slot = cur.slot
  THEN edges
  ELSE edges \union {[token |-> token, slot |-> cur.slot, fork |-> cur.fork]}

WriteEdge(here, token, next) ==
  /\ pc = here
  /\ edges' = WithEdge(token)
  /\ pc' = next
  /\ UNCHANGED <<env, lost, torn, starts, shutdown, mem, db, cp, authority,
                 labels, launches>>

\* upsert_label: equal confidence, so the newer issued_at always wins.
WriteLabel(here, next) ==
  /\ pc = here
  /\ labels' = {cur}
  /\ pc' = next
  /\ UNCHANGED <<env, lost, torn, starts, shutdown, mem, db, cp, edges,
                 authority, launches>>

\* on_new_token_launch returns; route_event then buffers the event.
HookAndRoute ==
  /\ pc = "hook"
  /\ launches' = launches \union {cur}
  /\ Push(cur) /\ cur' = NoRow
  /\ pc' = "check" /\ ti' = 1
  /\ UNCHANGED <<env, lost, torn, starts, shutdown, aged, batch, lastErr, rs,
                 lastSlot, lastTime, db, cp, edges, authority, labels>>

\* upsert_token_meta, then on_token_meta when there is a graph writer.
UpsertTokenMeta ==
  /\ pc = "tokens"
  /\ IF GraphOn THEN pc' = "authority" /\ UNCHANGED ti
                ELSE pc' = "check" /\ ti' = 1
  /\ UNCHANGED <<env, lost, torn, starts, shutdown, buf, aged, batch, lastErr,
                 rs, cur, lastSlot, lastTime, db, cp, graph>>

\* The AuthorityOf edge takes last_slot for its block_height; a row of that
\* height is left alone (ON CONFLICT DO NOTHING).
WriteAuthority ==
  /\ pc = "authority"
  /\ authority' =
       IF \E a \in authority : a.height = lastSlot THEN authority
       ELSE authority \union {[height |-> lastSlot, seen |-> cursor]}
  /\ pc' = "check" /\ ti' = 1
  /\ UNCHANGED <<env, lost, torn, starts, shutdown, buf, aged, batch, lastErr,
                 rs, cur, lastSlot, lastTime, db, cp, edges, labels, launches>>

GraphWrite ==
  \/ WriteEdge("edge0", 0, "label0")
  \/ WriteLabel("label0", "edge1")
  \/ WriteEdge("edge1", 1, "label1")
  \/ WriteLabel("label1", "hook")
  \/ HookAndRoute

(***************************************************************************)
(* The flush checks: each table on its own, rows inserted one by one (each *)
(* INSERT is its own transaction), the checkpoint saved after the batch.   *)
(***************************************************************************)
CheckTable ==
  /\ pc = "check" /\ ti \in T
  /\ IF ShouldFlush(ti)
     THEN /\ batch' = [batch EXCEPT ![ti] = buf[ti]]
          /\ buf' = [buf EXCEPT ![ti] = <<>>]
          /\ aged' = aged \ {ti}
          /\ pc' = "insert"
          /\ UNCHANGED ti
     ELSE /\ ti' = ti + 1
          /\ UNCHANGED <<batch, buf, aged, pc>>
  /\ UNCHANGED <<env, lost, torn, starts, shutdown, lastErr, rs, cur, lastSlot,
                 lastTime, db, cp, graph>>

ChecksDone ==
  /\ pc = "check" /\ ti = 4
  /\ pc' = "select"
  /\ UNCHANGED <<env, lost, torn, starts, shutdown, mem, db, cp, graph>>

\* One row of the batch of table ti is committed.
CommitHead ==
  /\ db' = db \union {Head(batch[ti])}
  /\ batch' = [batch EXCEPT ![ti] = Tail(@)]

InsertRow ==
  /\ pc = "insert" /\ Len(batch[ti]) > 0
  /\ CommitHead
  /\ UNCHANGED <<env, lost, torn, starts, shutdown, pc, ti, buf, aged, lastErr,
                 rs, cur, lastSlot, lastTime, cp, graph>>

BatchInserted ==
  /\ pc = "insert" /\ Len(batch[ti]) = 0
  /\ pc' = "save"
  /\ UNCHANGED <<env, lost, torn, starts, shutdown, mem, db, cp, graph>>

SaveCheckpoint ==
  /\ pc = "save"
  /\ cp' = lastSlot
  /\ ti' = ti + 1
  /\ pc' = "check"
  /\ UNCHANGED <<env, lost, torn, starts, shutdown, buf, aged, batch, lastErr,
                 rs, cur, lastSlot, lastTime, db, graph>>

(***************************************************************************)
(* flush_drained_batch: a failing table is given up, the others go on.     *)
(***************************************************************************)
DrainRow ==
  /\ pc = "drain" /\ ti \in T /\ Len(batch[ti]) > 0
  /\ CommitHead
  /\ UNCHANGED <<env, lost, torn, starts, shutdown, pc, ti, buf, aged, lastErr,
                 rs, cur, lastSlot, lastTime, cp, graph>>

DrainRowFails ==
  /\ pc = "drain" /\ ti \in T /\ Len(batch[ti]) > 0
  /\ lastErr' = TRUE
  /\ lost' = lost \union (Elems(batch[ti]) \ db)
  /\ batch' = [batch EXCEPT ![ti] = <<>>]
  /\ UNCHANGED <<env, torn, starts, shutdown, pc, ti, buf, aged, rs, cur,
                 lastSlot, lastTime, db, cp, graph>>

DrainNext ==
  /\ pc = "drain" /\ ti \in T /\ Len(batch[ti]) = 0
  /\ ti' = ti + 1
  /\ UNCHANGED <<env, lost, torn, starts, shutdown, pc, buf, aged, batch,
                 lastErr, rs, cur, lastSlot, lastTime, db, cp, graph>>

\* All tables written: handle_reorg goes on to the DELETEs, a shutdown to
\* the final checkpoint.
Drained ==
  /\ pc = "drain" /\ ti = 4 /\ ~lastErr
  /\ pc' = IF rs # 0 THEN "delete" ELSE "final"
  /\ ti' = 1
  /\ UNCHANGED <<env, lost, torn, starts, shutdown, buf, aged, batch, lastErr,
                 rs, cur, lastSlot, lastTime, db, cp, graph>>

DrainFailed ==
  /\ pc = "drain" /\ ti = 4 /\ lastErr
  /\ End("failed")
  /\ UNCHANGED <<env, starts, db, cp, graph>>

FinalCheckpoint ==
  /\ pc = "final"
  /\ cp' = lastSlot
  /\ End("stopped")
  /\ UNCHANGED <<env, starts, db, graph>>

(***************************************************************************)
(* handle_reorg after the flush: one DELETE per table, no transaction      *)
(* around them, then the rewound checkpoint; then the graph writer and the *)
(* hook clean up.                                                          *)
(***************************************************************************)
\* Altered DeleteFromTable: the slot before the reorg goes too.
DeleteFromTableBelow ==
  /\ pc = "delete" /\ ti \in T
  /\ db' = {r \in db : ~(r.table = ti /\ r.slot >= rs - 1)}
  /\ ti' = ti + 1
  /\ UNCHANGED <<env, lost, torn, starts, shutdown, pc, buf, aged, batch,
                 lastErr, rs, cur, lastSlot, lastTime, cp, graph>>

DeleteFromTable ==
  /\ pc = "delete" /\ ti \in T
  /\ db' = {r \in db : ~(r.table = ti /\ r.slot >= rs)}
  /\ ti' = ti + 1
  /\ UNCHANGED <<env, lost, torn, starts, shutdown, pc, buf, aged, batch,
                 lastErr, rs, cur, lastSlot, lastTime, cp, graph>>

Deleted ==
  /\ pc = "delete" /\ ti = 4
  /\ pc' = "rewind"
  /\ UNCHANGED <<env, lost, torn, starts, shutdown, mem, db, cp, graph>>

Rewind ==
  /\ pc = "rewind"
  /\ cp' = rs - 1 /\ lastSlot' = rs - 1
  /\ IF GraphOn THEN pc' = "delEdges" /\ UNCHANGED rs
                ELSE pc' = "select" /\ rs' = 0
  /\ UNCHANGED <<env, lost, torn, starts, shutdown, ti, buf, aged, batch,
                 lastErr, cur, lastTime, db, graph>>

\* Altered DeleteEdges: block_height > $2 instead of >=.
DeleteEdgesAbove ==
  /\ pc = "delEdges"
  /\ edges' = {e \in edges : e.slot <= rs}
  /\ authority' = {a \in authority : a.height <= rs}
  /\ pc' = "delLabels"
  /\ UNCHANGED <<env, lost, torn, starts, shutdown, mem, db, cp, labels,
                 launches>>

DeleteEdges ==
  /\ pc = "delEdges"
  /\ edges' = {e \in edges : e.slot < rs}
  /\ authority' = {a \in authority : a.height < rs}
  /\ pc' = "delLabels"
  /\ UNCHANGED <<env, lost, torn, starts, shutdown, mem, db, cp, labels,
                 launches>>

\* The boundary is last_block_time, the newest time seen by this run.
DeleteLabels ==
  /\ pc = "delLabels"
  /\ labels' = {l \in labels : l.slot < lastTime}
  /\ pc' = "delLaunches"
  /\ UNCHANGED <<env, lost, torn, starts, shutdown, mem, db, cp, edges,
                 authority, launches>>

RetractLaunches ==
  /\ pc = "delLaunches"
  /\ launches' = {l \in launches : l.slot < rs}
  /\ rs' = 0
  /\ pc' = "select"
  /\ UNCHANGED <<env, lost, torn, starts, shutdown, ti, buf, aged, batch,
                 lastErr, cur, lastSlot, lastTime, db, cp, edges, authority,
                 labels>>

\* A database or hook call fails and `?' leaves run.
CallFails ==
  /\ \/ pc \in GraphPcs \union MetaPcs \union ReorgPcs \union {"save", "final"}
     \/ pc = "insert" /\ Len(batch[ti]) > 0
  /\ End("failed")
  /\ UNCHANGED <<env, starts, db, cp, graph>>

(***************************************************************************)
(* The specification.                                                      *)
(***************************************************************************)
\* The next await of the task completes.
Progress ==
  \/ LeaveLoop \/ GraphWrite \/ UpsertTokenMeta \/ WriteAuthority
  \/ CheckTable \/ ChecksDone \/ InsertRow \/ BatchInserted \/ SaveCheckpoint
  \/ DrainRow \/ DrainNext \/ Drained \/ DrainFailed \/ FinalCheckpoint
  \/ DeleteFromTable \/ Deleted \/ Rewind
  \/ DeleteEdges \/ DeleteLabels \/ RetractLaunches

Stream ==
  \/ \E r \in Row : RouteRow(r) \/ PoolInitialize(r)
  \/ TokenMeta \/ NoRowEvent
  \/ \E s \in Slot : ReorgMarker(s)
  \/ StreamEnds

Faults == StartFails \/ Crash \/ DrainRowFails \/ CallFails

Next ==
  \/ Start \/ RequestShutdown \/ \E t \in T : Age(t)
  \/ Stream \/ Progress \/ Faults

Spec == Init /\ [][Next]_vars

\* The runtime polls a ready task, and a call to the database returns.
FairSpec == Spec /\ WF_vars(Progress)

\* The stream also keeps yielding events (a chain always finalizes slots).
LiveSpec == FairSpec /\ SF_vars(NoRowEvent)

(***************************************************************************)
(* Properties.                                                             *)
(***************************************************************************)
Handling == rs # 0

\* The checkpoint covers what it claims (lib.rs:38 "Checkpoint saved ONLY
\* after the batch is committed"): a delivered canonical row of a slot up to
\* the checkpoint is committed, at every await and so whenever the process
\* may die, save the rows an earlier failure took from memory.  A reorg
\* handler cut short voids the promise.
CheckpointCovered ==
  ~torn => \A r \in delivered \ lost :
             Canonical(r) /\ r.slot <= cp => r \in db

\* Whenever no ReorgMarker is being handled (and none was cut short), no row
\* in the tables, the buffers or a drained batch belongs to an orphaned fork:
\* flushing before the DELETEs leaves nothing behind.
NoOrphanedRows ==
  ~torn /\ ~Handling => \A r \in db \union InMemory : Canonical(r)

\* At-least-once inside a run: a delivered canonical row is in its table or
\* still in memory unless a failed call or a crash took the memory; in
\* particular a run that stopped cleanly has committed everything.
NothingDropped ==
  \A r \in delivered \ lost : Canonical(r) => r \in db \union InMemory

\* The graph side of the same clean-up: DeployerOf edges and launch records
\* of an orphaned fork are gone once the marker is handled.
NoOrphanedGraph ==
  ~torn /\ ~Handling =>
    /\ \A e \in edges : Canonical(e)
    /\ \A l \in launches : Canonical(l)

\* The hook (D09) finds the DeployerOf edges of both tokens of a launch in the
\* graph when it is called: an action property of HookAndRoute's step.
HookSeesEdges ==
  [][\A l \in launches' \ launches : \A token \in {0, 1} :
       \E e \in edges : e.token = token /\ e.slot = l.slot]_vars

\* The store promises the abstract specification.
Store == INSTANCE CheckpointedStore WITH stored <- db, owed <- delivered \ lost
ImplementsStore == Store!Spec

\* A cancelled token ends the run: the task never waits for the stream again.
ShutdownEnds == shutdown ~> pc \in Halted

\* While the stream is alive, a buffer whose timeout passed is flushed.
AgedBufferFlushed == \A t \in T : t \in aged ~> t \notin aged

(***************************************************************************)
(* What comments say and the code does not do.                             *)
(***************************************************************************)
\* lib.rs:209 "Track the last slot we've seen -- used for checkpoint writes",
\* lib.rs:394 "Save the final checkpoint": a clean stop leaves the checkpoint
\* at the slot the task has reached.
FinalCheckpointAtLastSlot ==
  [][pc = "final" /\ pc' = "stopped" =>
       \A r \in delivered : Canonical(r) => r.slot <= cp']_vars
=============================================================================
