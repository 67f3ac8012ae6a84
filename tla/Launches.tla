----------------------------- MODULE Launches -----------------------------
(***************************************************************************)
(* What a new pool sets off: the launch hook of the indexer with its two   *)
(* detectors, D09 (crates/detectors/src/d09_deployer_changepoint.rs) and   *)
(* D10 (d10_launch_audit.rs), the rows they read and write, and the        *)
(* streaming workers that evaluate D09 once more for a token.              *)
(*                                                                         *)
(* There is one deployer.  Blocks are as many as heights, a block holds    *)
(* one pool, and a pool is a record [token, height, fork].  The state of   *)
(* D09 is the launches it was updated with; what the update computes is    *)
(* Bocpd's subject, and so is why D09 has nothing to insert.               *)
(*                                                                         *)
(* The run loop may end, and the process die, at every await.  What it was *)
(* doing is not taken up again: a reorg that was cut short, or fell into   *)
(* the time it was away, is never told again.                              *)
(***************************************************************************)
EXTENDS Integers, Sequences, FiniteSets

CONSTANTS
  Tokens,
  Workers,    \* the streaming workers
  MaxHeight,  \* bound: blocks of a fork
  MaxFork,    \* bound: reorgs
  MaxI64,     \* i64::MAX, made small
  MaxErrors   \* bound: times the run loop ends

VARIABLES
  canonical, \* environment: the pools of the canonical chain, by height
  fork,      \* environment: reorgs so far
  handling,  \* the event the run loop handles, or Nothing
  step,      \* where in the handling it is
  buffered,  \* the pool events of the batcher
  pool_events, \* the table of that name
  edges,     \* DeployerOf edges
  state,     \* the deployer's row of bocpd_deployer_state, or Nothing
  loaded,    \* a task's copy of the row, by task; Nothing for none
  audits,    \* D10's rows of anomaly_events: the pools audited
  processed, \* history: the pools the run loop got through
  errors,    \* times the run loop ended
  taken,     \* history: the pools the reorg in hand takes back
  torn       \* history: those taken back by a reorg not handled to its end

chain == <<canonical, fork, torn>>
loop == <<handling, step, errors, taken>>
tables == <<buffered, pool_events, edges, audits, processed>>
vars == <<chain, loop, tables, state, loaded>>

Nothing == <<>>
Tasks == {"indexer"} \cup Workers

\* u64 as i64: block_ref.height as i64.
MaxU64 == 2 * MaxI64 + 1
AsI64(n) == IF n > MaxI64 THEN n - 2 * (MaxI64 + 1) ELSE n

NoRow == [seen |-> {}, height |-> 0, reevaluated |-> FALSE]
Row(r) == IF r = Nothing THEN NoRow ELSE r

Init ==
  /\ canonical = <<>> /\ fork = 0 /\ taken = {} /\ torn = {}
  /\ handling = Nothing /\ step = "idle" /\ errors = 0
  /\ buffered = {} /\ pool_events = {} /\ edges = {}
  /\ audits = {} /\ processed = {}
  /\ state = Nothing /\ loaded = [t \in Tasks |-> Nothing]

(***************************************************************************)
(* The stream.  The run loop takes an event when it is done with the last. *)
(***************************************************************************)
Canonical == {canonical[i] : i \in DOMAIN canonical}

Initialize ==
  /\ step = "idle" /\ Len(canonical) < MaxHeight
  /\ \E t \in Tokens :
       LET pool == [token |-> t, height |-> Len(canonical) + 1, fork |-> fork]
       IN  canonical' = Append(canonical, pool) /\ handling' = pool
  /\ step' = "graph"
  /\ UNCHANGED <<fork, torn, errors, taken, tables, state, loaded>>

\* The chain is reorganised from a slot on.
TakenFrom(slot) == {p \in Canonical : p.height >= slot}

Reorganised(slot) ==
  /\ fork < MaxFork /\ fork' = fork + 1
  /\ canonical' = SubSeq(canonical, 1, slot - 1)

ReorgMarker ==
  /\ step = "idle"
  /\ \E slot \in DOMAIN canonical :
       /\ Reorganised(slot)
       /\ handling' = [slot |-> slot] /\ taken' = TakenFrom(slot)
  /\ step' = "rewind"
  /\ UNCHANGED <<torn, errors, tables, state, loaded>>

\* While the run loop is away nobody is told; the stream it subscribes to next
\* tells of the reorgs from then on.  (A launch nobody is told of is in no table.)
ReorgUntold ==
  /\ step = "down"
  /\ \E slot \in DOMAIN canonical :
       Reorganised(slot) /\ torn' = torn \cup TakenFrom(slot)
  /\ UNCHANGED <<loop, tables, state, loaded>>

(***************************************************************************)
(* A pool: the graph, D09 for its token, D10, then the batcher.            *)
(***************************************************************************)
WriteEdges ==
  /\ step = "graph" /\ edges' = edges \cup {handling} /\ step' = "d09_load"
  /\ UNCHANGED <<chain, handling, errors, taken, buffered, pool_events, audits,
                 processed, state, loaded>>

HookLoads ==
  /\ step = "d09_load"
  /\ loaded' = [loaded EXCEPT !["indexer"] = Row(state)]
  /\ step' = "d09_save"
  /\ UNCHANGED <<chain, handling, errors, taken, tables, state>>

\* save_state: the upsert writes the copy that was loaded, with one more
\* observation and the height of its block.
Saved(copy, pool, height, again) ==
  [seen |-> copy.seen \cup {pool}, height |-> AsI64(height),
   reevaluated |-> copy.reevaluated \/ again]

HookSaves ==
  /\ step = "d09_save"
  /\ state' = Saved(loaded["indexer"], handling, handling.height, FALSE)
  /\ loaded' = [loaded EXCEPT !["indexer"] = Nothing]
  /\ step' = "d10"
  /\ UNCHANGED <<chain, handling, errors, taken, tables>>

\* evaluate_on_init: the guard counts the token's older pools in the table,
\* where those of the batcher are not yet.
FirstPool(pool) ==
  ~ \E p \in pool_events : p.token = pool.token /\ p.height < pool.height

Audit ==
  /\ step = "d10"
  /\ audits' = IF FirstPool(handling) THEN audits \cup {handling} ELSE audits
  /\ step' = "route"
  /\ UNCHANGED <<chain, handling, errors, taken, buffered, pool_events, edges,
                 processed, state, loaded>>

\* route_event, and the flush when the batch is full or old.
Route ==
  /\ step = "route"
  /\ \/ buffered' = buffered \cup {handling} /\ UNCHANGED pool_events
     \/ buffered' = {} /\ pool_events' = pool_events \cup buffered \cup {handling}
  /\ processed' = processed \cup {handling}
  /\ handling' = Nothing /\ step' = "idle"
  /\ UNCHANGED <<chain, errors, taken, edges, audits, state, loaded>>

(***************************************************************************)
(* A reorg: the events (handle_reorg), the graph, the hook.                *)
(***************************************************************************)
BelowOrAt(rows, slot) == {r \in rows : r.height <= slot}

KeptRows(rows, slot) == {r \in rows : r.height < slot}

HandleReorg ==
  /\ step = "rewind"
  /\ pool_events' = KeptRows(pool_events \cup buffered, handling.slot)
  /\ buffered' = {}
  /\ step' = "graph_reorg"
  /\ UNCHANGED <<chain, handling, errors, taken, edges, audits, processed, state,
                 loaded>>

GraphReorg ==
  /\ step = "graph_reorg"
  /\ edges' = KeptRows(edges, handling.slot) /\ step' = "hook_reorg"
  /\ UNCHANGED <<chain, handling, errors, taken, buffered, pool_events, audits,
                 processed, state, loaded>>

\* delete_states_above_block; D10 keeps no state.
DeletedAbove(row, slot) == row.height > slot

RowGoes(row, slot) == row.height >= slot

HookReorg ==
  /\ step = "hook_reorg"
  /\ state' = IF state # Nothing /\ RowGoes(state, handling.slot) THEN Nothing
              ELSE state
  /\ handling' = Nothing /\ step' = "idle" /\ taken' = {}
  /\ UNCHANGED <<chain, errors, tables, loaded>>

(***************************************************************************)
(* An error of a detector, of a statement or of the stream ends the run    *)
(* loop, wherever it is; the workers go on unless the process dies.        *)
(***************************************************************************)
\* The rows a flush or a drain may be in the middle of inserting, one by one in
\* the order they came; what else the batcher held is gone.
InFlight ==
  (IF step \in {"route", "rewind", "idle"} THEN buffered ELSE {})
    \cup (IF step = "route" THEN {handling} ELSE {})

RunLoopFails ==
  /\ step # "down" /\ errors < MaxErrors
  /\ errors' = errors + 1 /\ step' = "down" /\ handling' = Nothing
  /\ \E top \in 0..MaxHeight :
       pool_events' = pool_events \cup {p \in InFlight : p.height <= top}
  /\ buffered' = {}
  /\ \/ loaded' = [loaded EXCEPT !["indexer"] = Nothing]
     \/ loaded' = [t \in Tasks |-> Nothing]
  /\ torn' = torn \cup taken /\ taken' = {}
  /\ UNCHANGED <<canonical, fork, edges, audits, processed, state>>

Restart ==
  /\ step = "down" /\ step' = "idle"
  /\ UNCHANGED <<chain, handling, errors, taken, tables, state, loaded>>

(***************************************************************************)
(* A streaming worker evaluates D09 for a token whose deployer is known;   *)
(* its window ends at block u64::MAX.                                      *)
(***************************************************************************)
WorkerLoads(w) ==
  /\ loaded[w] = Nothing
  /\ \E e \in edges : loaded' = [loaded EXCEPT ![w] = [row |-> Row(state), pool |-> e]]
  /\ UNCHANGED <<chain, loop, tables, state>>

WorkerSaves(w) ==
  /\ loaded[w] # Nothing
  /\ state' = Saved(loaded[w].row, loaded[w].pool, MaxU64, TRUE)
  /\ loaded' = [loaded EXCEPT ![w] = Nothing]
  /\ UNCHANGED <<chain, loop, tables>>

Next ==
  \/ Initialize \/ ReorgMarker \/ ReorgUntold
  \/ WriteEdges \/ HookLoads \/ HookSaves \/ Audit \/ Route
  \/ HandleReorg \/ GraphReorg \/ HookReorg \/ RunLoopFails \/ Restart
  \/ \E w \in Workers : WorkerLoads(w) \/ WorkerSaves(w)

Spec == Init /\ [][Next]_vars
----------------------------------------------------------------------------
(***************************************************************************)
(* Properties.                                                             *)
(***************************************************************************)
\* Between two events the row of a deployer whom only the hook evaluated knows
\* of no launch that a reorg took back: the row goes with its last launch, and
\* that is never older than another one in it (on_reorg, "retract D09 BOCPD
\* state derived from blocks at or above the reorg height").  Excused is a launch
\* whose own reorg was cut short by an error or a crash, or came while the run
\* loop was away: that reorg is not handled again after the restart.  A failure
\* excuses nothing else: later reorgs are handled as before it.
HookStateCanonical ==
  (step = "idle" /\ state # Nothing /\ ~state.reevaluated)
    => state.seen \subseteq Canonical \cup torn

\* "retract D09 BOCPD state derived from blocks at or above the reorg height"
\* (indexer/src/lib.rs), whoever evaluated the deployer.
StateCanonical ==
  (step = "idle" /\ state # Nothing) => state.seen \subseteq Canonical

\* The first pool of a token on the canonical chain is audited, however often
\* the chain was reorganised and the run loop failed before, if the run loop got
\* through it.  The guard is misled at most by a lower pool of the same token
\* that a reorg not handled to its end took back, whose row it may still find.
FirstPoolAudited ==
  step = "idle" =>
    \A p \in processed \cap Canonical :
      (~ \E q \in Canonical : q.token = p.token /\ q.height < p.height)
        => \/ p \in audits
           \/ \E q \in torn : q.token = p.token /\ q.height < p.height
============================================================================
