# Verification project for mg-onchain-analysis

TLA+ modules, TLC configurations and TLAPS proofs for the on-chain analysis
service of this repository.  Paths below are relative to `src/crates/` (the
repository's `crates/`) unless they start with `tla/` or `docs/`.

1. [The system](#1-the-system): components, state, interactions, hard behaviours
2. [Modules](#2-modules): what models what
3. [Runs](#3-runs): what TLC checks, on which instances, and what that shows
4. [Fairness](#4-fairness)
5. [Proofs](#5-proofs)
6. [Findings](#6-findings), and where code and text part without a run
7. [What is not modelled](#7-what-is-not-modelled)
8. [Plan](#8-plan)

## 1. The system

One server process (`server/src/main.rs`) reads chain events, stores them in
Postgres, runs detectors over the rows, scores tokens and serves the results:

```
 chain node --ws--> chain-adapter --stream--> indexer --INSERT--> Postgres
                                                 |                  |  ^
                                                 +-edges, labels----+  |
 invalidations --broadcast--> streaming scheduler --queue--> workers --+
                                                                    |
 client SDK <--ws-- gateway (poll, replay, pages) <----SELECT-------+
```

| component | state it keeps | operations | hard behaviour | what makes it correct |
|---|---|---|---|---|
| indexer run loop (`indexer/src/lib.rs`, `batcher.rs`, `reorg.rs`, `sink.rs`, `graph_writer.rs`, `hooks.rs`, `shutdown.rs`) | three table buffers with their age, `last_slot`, `last_block_time`; in Postgres the event tables, the checkpoint row, edges, labels | take an event, route it, flush a table, save the checkpoint, handle a reorg, shut down, restart | a crash or failed call at any await; a drained batch that fails in part; flush before DELETE; a stale `last_slot` | the checkpoint claims only committed rows; a reorg leaves no orphaned row; nothing handed over is dropped; shutdown ends |
| chain adapter: JSON-RPC client (`chain-adapter/src/jsonrpc`), newHeads driver and reorg buffer (`ethereum/rpc.rs`, `ethereum/reorg.rs`) | pending requests, subscription senders, attempt counter, header window | request, subscribe, write and read pump, forward, push a header | loss of the connection with calls in flight; notifications before the subscription is known; dropped heads; forks | callers are flushed; what the consumer keeps is one chain; the driver gives up in the end |
| chain adapter: Solana subscription (`solana/subscribe.rs`, `reconnect.rs`) | error counter, receivers, the stream | subscribe one by one, fan in, back off, report | channels filled by the read pump while one of them is drained into a full stream; a budget of errors | what a channel accepted is sent in its order; no receiver starves; a back-off leads on |
| chain adapter: Solana backfill and file checkpoint (`solana/backfill.rs`, `checkpoint.rs`) | the slot at hand; a file and its temporary file | fetch, retry, skip, send; write, rename, load | a process that dies between any two of these | the file can be read and is backed by what is stored |
| event feed, REST (`gateway/src/routes/events.rs`, `storage/src/pg.rs`) | the cursor in the client's hands | serve a page | inserts with old times between two pages | no row twice, none skipped |
| event feed, WebSocket (`gateway/src/ws/mod.rs`) | wanted tokens, last id, send buffer, drop count | subscribe, replay, poll, queue, send, lag notice | one task that fills and drains its own bounded buffer; a random select | drops are accounted for, queued frames leave |
| watchlist WebSocket (`gateway/src/ws/watchlist.rs`) | filter, broadcast receiver, ping and pong times | verdict, lag, filter, heartbeat | a slow client, a broadcast that laps it, ticks that pile up behind an await | each verdict is pushed in order, filtered or told as lost; an answering client stays |
| client SDK stream (`client-sdk/src/ws.rs`) | reconnect count, last seen id, item channel | connect, subscribe, read, back off, reconnect | a disconnect at any point, a slow or vanished consumer | a gap is announced, the end carries an error, reconnects settle |
| streaming scheduler and workers (`server/src/streaming`, `server/src/lib.rs`, `risk_report_store.rs`) | dirty map, drained map, job queue, per-worker score cache; in Postgres events and reports | receive, tick, drain, take a job, detect, persist, score, upsert, shut down | merge while earlier jobs of the token run; a full queue; two workers on one token; a failing step | no invalidation forgotten, reports backed by events, the latest report never older, everything ends |
| analyze, risk cache, rate limit (`gateway/src/routes/analyze.rs`, `analyze_v2.rs`, `risk.rs`, `cache.rs`, `ratelimit.rs`), client SDK HTTP (`client-sdk/src/http.rs`) | in-flight set, cache; attempts of a call | analyze, read, invalidate; time out, repeat | a handler dropped at an await; a repeated POST that meets its own first handler | one run per token at a time; keys are those of running handlers; every call ends |
| multi-chain coordinator (`indexer/src/coordinator.rs`, `trigger.rs`, `storage/src/verdict_cache.rs`), server process (`server/src/main.rs`, `init`) | adapter tasks, the event channel, permits, verdict cache; the handles main awaits | start, forward, broadcast, cancel, drain | a task in a send no shutdown reaches; a drain with one limit for all | adapters join; a drain reported as complete is one |
| scoring (`scoring/src`) | none over time | one report from a set of events | events in any order, decay, two ids of one detector | the same report in any order; more evidence never lowers it; time alone raises neither base score nor severity, and the base score stays at what the state-based events give |
| detectors D09, D10 (`detectors/src/d09_deployer_changepoint.rs`, `d10_launch_audit.rs`) with the launch hook (`server/src/init/hooks.rs`) | `bocpd_deployer_state`; audit events | load, update, save; guard, audit; delete on a reorg | hook and workers on one row; rows chosen by a height that has wrapped; a guard over rows of a dead fork | states and audits agree with the canonical chain, as far as its reorgs were handled to the end; a shift is reported |
| detectors D01-D08, D11-D14 (`detectors/src`) | none over time | queries and statistics | thresholds in decimals | - |
| wallet graph (`graph/src`) | `wallet_edges`, clusters, labels, corpus rows | find rings; pair swaps, label wallets; aggregate, cluster | Johnson's blocking with a bounded length; partial closes; labels that expire | exactly the rings; first in, first out; an earned label is one readers see |
| storage (`storage/src`) | the tables | inserts, upserts, keyset queries | idempotence under retry | repeated writes change nothing |
| token registry, DEX decoders, chain decoding, domain types | none over time | byte layouts | - | inverse of the encoders |
| gateway authentication and plumbing, command-line tools | configuration | request handling | - | - |

How they interact.  The adapter hands the indexer a stream (`Box<dyn Stream>`);
the indexer calls the graph writer and the launch hook from inside its loop and
shares nothing else.  The gateway and the workers meet the indexer only in
Postgres.  The scheduler takes invalidations from a broadcast channel, feeds
the workers through one bounded queue (`async_channel`), and the workers
write `anomaly_events` and the reports, which the gateway reads.  The SDK talks
to the gateway's WebSocket and repeats its HTTP requests.  The launch hook (from
inside the indexer's loop) and the workers update D09's rows.  The adapter tasks
hand their events to a bridge through one channel, and `main` takes all of them
down.  `PROJECT.json` lists the hazards of all this at
their lines, with the properties that watch them.

## 2. Modules

| module | models | state and actions |
|---|---|---|
| `Indexer` | `Indexer::run` and all it calls | `pc` names the await the one task is suspended at; each action is what happens up to the next await.  Events: `RouteRow`, `PoolInitialize`, `TokenMeta`, `NoRowEvent`, `ReorgMarker`, `StreamEnds`.  Flush: `CheckTable`, `InsertRow`, `BatchInserted`, `SaveCheckpoint`.  Drain: `DrainRow`, `DrainRowFails`, `DrainNext`, `Drained`, `DrainFailed`.  Reorg: `DeleteFromTable`, `Deleted`, `Rewind`, `DeleteEdges`, `DeleteLabels`, `RetractLaunches`.  Environment: `Start`, `StartFails`, `Crash`, `CallFails`, `RequestShutdown`, `Age` (the batch timeout). A row is a table, a slot and the fork it was observed on |
| `CheckpointedStore` | the promise of the tables and the checkpoint, without the task | `Deliver`, `Commit`, `Discard` (orphaned rows only), `SaveCheckpoint` (covered slots only), `Fail` |
| `AnomalyEvents` | the `anomaly_events` table and its keyset query, `(observed_at, id)` descending | `InsertEvent`, `Fetch`, `BeforeCursor` |
| `EventPages` | a client walking `GET /v1/events` | `FirstPage`, `NextPage`, `Insert`; `Serve` is the handler with its limit + 1 fetch |
| `WsStream` | `handle_ws_connection` | `Subscribe`, `SubscribeResuming`, `ReplayRow`, `ReplayDone`, `Unsubscribe`, `Poll`, `SkipRow`, `QueueRow`, `RefuseRow`, `PageDone`, `SendQueued`, `Close`, `Reopen`, `Insert` |
| `SdkStream` | the SDK's reconnect loop against any server and consumer | `Top`, `Backoff`, `Connect`, `ConnectFails`, `Subscribe`, `SubscribeFails`, the frames, `Disconnect`, `SendItem`, `SendRefused`, `Consume`, `DropStream` |
| `Streaming` | scheduler, job queue, workers, tables | `Publish`, `CloseChannel`, `Receive`, `ReceiveLagged`, `ReceiveClosed`, `Tick`, `Enqueue`, and per worker `Take`, `Detect`, `PersistFails`, `PersistAndSkip`, `PersistAndScore`, `ScoreFails`, `Upsert`, `Exit` |
| `ReorgBuffer` | `ReorgBuffer::push`, as pure operators on sequences of headers | `Push`, `Extends`, `Extended`, `ForkPoint`, `Evicted`, `Forked` |
| `NewHeads` | JSON-RPC client, newHeads driver, and a consumer that pushes heads into a `ReorgBuffer` | node: `NewHead`, `Respond`, `Disconnect`; client: `Register`, `Send`, `WriteFrame`, `WriteFails`, `ReadAnswer`, `ReadHead`, `ReaderExits`; driver: `Subscribed`, `SubscribeFails`, `TakeHead`, `Forward`, `ReportError`, `StreamDropped`; `Consume`, `StopReading` |
| `SolanaStream` | `build_subscribe_stream`, `connect_and_stream`, `fan_in_notifications` | `Backoff`, `Connect`, `ConnectFails`, `Ask`, `Subscribed`, `SubscribeFails`, `StartDraining`, `TakeNote`, `NextReceiver`, `SendSlot`, `SendRefused`, `Report`; environment: `Notify`, `Disconnect`, `NodeAccepts`, `Consume`, `DropStream` |
| `SolanaBackfill` | `build_backfill_stream`, `FileCheckpointStore`, and a consumer as `checkpoint.rs` describes it | `NextSlot`, `Block`, `NoBlock`, `ErrorBody`, `RpcError`, `RateLimited`, `RetryFails`, `SendEvent`, `SendFinalized`, `Report`; `Read`, `Write`, `Rename`, `Start`, `Drop`, `Crash` |
| `Watchlist` | the verdict broadcast and `handle_watchlist_connection`, with discrete time | `Broadcast`, `Push`, `PassOver`, `Lagged`, `ReadFilter`, `ReadPong`, `Ping`, `PingSent`, `Sent`, `PongTimeout`, `Answer`, `TimePasses`, `Leave` |
| `Analyze` | both analyze handlers, `GET /v1/risk`, the report cache, and the SDK's retry loop | per client `Send`, `TimesOut`; per handler `Limited`, `Handle` (one await after the other: probe, enter, run, rows, store), `Drop`; `Forget` |
| `Coordinator` | the adapter tasks, the bridge, the periodic tasks and steps 12-14 of `main` | `Yield`, `SendEvent`, `StreamEnds`, `AdapterLeaves`, `Receive`, `BridgeLeaves`, `StartBatch`, `EndBatch`, `TaskLeaves`, `Signal`, `Cancel`, `GatewayStops`, `GatewayFails`, `Await`, `DrainTimeout` |
| `Scoring` | `ScoringEngine::score` and all it calls, as operators (`Sorted`, `PerDetector`, `BaseScore`, `OverallSeverity`, `rank_top_evidence`, `Combined`, `score`) | what changes between two evaluations: `Emit`, `HalfLifePasses` |
| `Bocpd` | the changepoint model of D09: `Update`, `Alerts` | `Launch` |
| `Launches` | the launch hook in the indexer's loop with D09 and D10, their rows, reorgs, and the workers' evaluation of D09 | `Initialize`, `WriteEdges`, `HookLoads`, `HookSaves`, `Audit`, `Route`; `ReorgMarker`, `HandleReorg`, `GraphReorg`, `HookReorg`; `RunLoopFails` (an error, the end of the stream or a crash, at any step, a reorg's included), `ReorgUntold`, `Restart`; `WorkerLoads`, `WorkerSaves` |
| `Cycles` | `detect_cycles`: Tarjan's components and Johnson's circuit, a step per turn of their loops | `StartSearch`, `TakeEdge`, `Retreat`; `NextRoot`, `Neighbour`, `Return`, `SccDone` |
| `SmartMoney` | the labeller's batch: round trips, tier and confidence, corpus row, label upsert | `StartBatch`, `FetchSwaps`, `UpsertCorpus`, `UpsertLabel`, `CallFails`; environment: `Trade`, `TimePasses`, `Exclude` |
| `MCStreams`, `MCGateway`, `MCDetection` | several parts in one run (section 3) | - |
| `IndexerSafetyProofs`, `StreamingProofs`, `NewHeadsProofs`, `CyclesProofs`, `StreamsProofs`, `GatewayProofs`, `DetectionProofs`, `RoundTripsProofs` | - | theorems and proofs (section 5); the first four extend the component they are about, the others `MCStreams`, `MCGateway` and (the last two) `MCDetection`.  `DetectionProofs` instantiates `CyclesProofs` |

`EventPages` and `WsStream` extend `AnomalyEvents`; `NewHeads` extends
`ReorgBuffer`; `Indexer` instantiates `CheckpointedStore`.  `Launches` and
`Bocpd` divide D09 between them: `Launches` follows its row, whose content is
the set of launches it was updated with, `Bocpd` what an update computes.
Operators whose comment says "Altered" are mistakes a change to the code could
bring; no specification uses them, `PROJECT.json` pairs each with the property
that notices it.

Variables marked *history* in a module (what was delivered, lost, accepted,
pushed, kept) exist for the properties and influence no step.

Abstractions that matter:

* A Postgres statement is one step and either happens or fails.  Statements the
  code does not wrap in a transaction are separate steps, and a crash may fall
  between them.
* Slots, forks, times, ids and scores are small numbers.  Tokens, callers and
  workers are members of small sets.  Payloads are left out.
* Delays and timeouts are steps that may happen at any time, except in
  `Watchlist` (heartbeats), `SmartMoney` (windows and expiry) and `Scoring`
  (half-lives), which are about time.
* In `Scoring` the calibrated configuration is taken as it is, a tenth of
  confidence is `Unit` points that are halved with every half-life (exactly, as
  long as `Unit` is a multiple of 2^MaxAge, which it is in the run), and weights
  and multipliers are integers.  In
  `Bocpd` the Student-t density is one of three weights and the joint weights
  are exact proportions, so that nothing is blamed on rounding.
* In `Launches` there is one deployer, a block holds one pool, and 64-bit
  heights are 4-bit ones: u64::MAX as i64 is -1 in both.  The largest height is
  the constant `MaxI64`, 7 in the runs.  The run loop may end at every step; a
  flush it was in the middle of has inserted the first rows of its batch, the
  workers' copies of the row go with the process or stay.  The stream it takes
  up afterwards repeats nothing, neither a launch nor a reorg.
* In `SmartMoney` a batch takes less time than a label lives (the defaults are
  hours and days).
* In `Streaming` the detectors answer any score or fail: their statistics are
  not the subject, the fate of their results is.
* What Rust computes with a loop is stated by what it computes where a proof
  needs it: `Ancestors` is the least set closed under `parent`, the k-th row of
  a page (`Fetch`) the one with k - 1 newer ones, the slots a Solana channel
  will yield (`Yielded`) a sequence that is related to the channel's items.

## 3. Runs

Every bound is a CONSTANT named in the module that uses it.

### Passing runs

| run | instance | what it shows |
|---|---|---|
| `indexer_core` | 2 slots, each reorganised at most once, 2 process starts, batch size 2, transfers and swaps, no graph | `CheckpointCovered`: at every await, so at every point where the process may die, a saved slot is committed.  `NoOrphanedRows`: after a reorg no table, buffer or batch holds an orphaned row.  `NothingDropped`: a canonical row is stored, in memory, or was in memory at a failure.  `ImplementsStore`: the whole is a refinement of `CheckpointedStore` |
| `indexer_graph` | 2 slots, one reorg each, pool events with the graph writer and hook | `NoOrphanedGraph`, `HookSeesEdges` (the edges exist before the launch hook looks for them), `ShutdownEnds`, `AgedBufferFlushed` |
| `streaming` | 2 tokens, 2 block times, 2 events, backlog and queue of 1, 2 workers | `NotForgotten`: the newest block time accepted for a token stays with a job of it.  `ReportsBacked`: a report's score rests on stored events.  `LatestNeverGoesBack`, `Evaluated`, `ShutsDown` |
| `streams` | five tasks that feed a bounded channel, one per behaviour (`MCStreams`): the newHeads driver (window of 2, 4 heads less 2 for a request of another caller, channels of 1), the Solana stream (2 subscriptions, one of each kind, 3 notifications, channels of 2 and 1, 2 errors), the backfill (2 slots of up to 2 events, 2 process starts), the gateway's connection (2 events, 2 times, 2 tokens, page, replay and buffer of 2), the SDK's task (3 reconnects, channel of 2) | *Ethereum*: `KeptOnTipChain`, `NoAncestorReverted`, `WaitersFlushed`, `GivesUp`.  *Solana*: `FanInKeeps`, `ChannelsDrain`.  *Backfill*: `CheckpointResumes`.  *Gateway*: `DropsAccounted`, `QueueDrains`.  *SDK*: `ConsumerTold`.  *SDK and Solana*: `ReconnectsSettle` |
| `gateway` | four parts, one per behaviour (`MCGateway`): the REST feed (5 events, 2 times, pages of 2), the watchlist socket (interval 3, timeout 6, the ratio of the defaults, 3 piled-up ticks, channel of 1, 3 verdicts, one change of the filter), reports on demand (2 clients, 2 tokens, 2 attempts), the drain (2 adapters of 3 events each, channel of 1) | `WalkExact`; `AnsweringClientKept`, `VerdictsAccounted`; `InFlightExact`, `CallsEnd`; `DrainHonest`, `AdaptersJoin` |
| `detection` | six parts, one per behaviour (`MCDetection`): scoring (3 events of 4 kinds, 2 half-lives, any metadata), the changepoint model (8 launches, 4 slots, hazard 1/3), launches (2 tokens, 2 blocks, one reorg, one end of the run loop at any step, one worker), rings (all graphs on 4 wallets, without cut-off and with both), round trips (4 swaps of 2 tokens with quantities 1 to 3), labels (3 swaps, time 4, window 3, life 2) | `OrderIndependent`, `EvidenceNeverLowers`, `FadesToState`; `AnswerIsHazard`; `HookStateCanonical`, `FirstPoolAudited`; `CyclesExact`; `RoundTripsExact`, `EarnedIsLabelled` |

The parts of a combined run share no state and a behaviour belongs to one of
them; they are together because the question is the same for all (what does a
task lose, what does it tell, does it go on), not because they interact.

Why these bounds are enough for the questions asked:

* *Indexer.*  Two slots let a reorg replace one and keep the other, and let the
  checkpoint be ahead of, at and behind the reorg.  Two tables let one be
  flushed while the other is buffered, which is all the shared checkpoint can
  get wrong.  Batch size 2 has both triggers: full, and aged with one row.  Two
  starts give a crash in any handler and a run on what it left.  The four
  properties of `indexer_core` are also proved for every bound (section 5).
* *Streaming.*  A queue of 1 is full at once; two workers hold jobs of the same
  token in both orders.
* *newHeads.*  Four heads give a fork below the window, a fork inside it, a
  repeated head and a gap; channels of 1 drop and block.  A call of the other
  caller costs two heads: what it is for, a connection that breaks under it,
  needs few.
* *Solana.*  A channel of 2 is drained while it fills again; three notifications
  over two subscriptions fill one, both and the stream.  Two errors are the
  first and the last of the budget.
* *Backfill.*  Two slots make a checkpoint that covers one and not the other;
  two starts a resume from each state of the two files.
* *Gateway connection.*  A buffer of 2 overflows within one page and across two
  polls; two tokens make rows that are fetched and skipped.
* *SDK.*  Three reconnects exercise the first, a middle and the last attempt; a
  channel of 2 can be full while an item is being sent.
* *REST feed.*  Five rows over two times force pages of 2 to be cut inside a
  group of equal times, the case the second cursor component exists for.
* *Watchlist.*  A channel of 1 laps a slow client at the second verdict; three
  ticks pile up behind one send, more than the timeout spans.
* *Reports on demand.*  Two clients with two attempts each make four handlers of
  one token, two of which nobody waits for.
* *Drain.*  With a channel of 1 and three events each, one adapter waits in its
  send while the other is at its select and while the bridge is gone.
* *Detection.*  Three events make two of one detector beside one of another,
  with two ids of one detector among them.  Eight launches fill four slots and
  keep on past the absorbing boundary.  One reorg over two blocks takes back
  one launch or both, with the worker's evaluation before, between and after.  One end
  of the run loop falls into any step of a launch or of that reorg, or the reorg
  into the time it is away, and launches follow; that a later reorg is handled as
  if nothing had happened takes two of them and is proved (section 5).
  Four wallets have rings of every length up to 4, crossing ones included; a
  limit of 3 with a cap of 2 is reached within one component.  Four swaps let a
  sell take several buys and a buy be sold in parts, in every order.  The
  `LIMIT` of the swap query is not reached in the labels part (three rows, three
  swaps).

`CHECK_DEADLOCK FALSE` is set where the modelled tasks may all have ended or a
bounded environment has nothing left to offer, which is all of them.

### Runs that show a disagreement

`bocpd_shift`, `scoring_noise`, `launches_reorg`, `cycles_tangle`,
`indexer_final_checkpoint` and `stream_terminates` each check one statement of a
comment or a test that the code does not keep; see section 6.

## 4. Fairness

| module | assumed | why the code justifies it |
|---|---|---|
| `Indexer` | WF(Progress) (`FairSpec`) | the runtime polls a ready task and every database call returns |
| `Indexer` | also SF(NoRowEvent) (`LiveSpec`) | a live chain finalizes slots.  It is stated apart because `AgedBufferFlushed` is false without it: timeouts are looked at only after an event |
| `WsStream` | WF(Work), SF(SendQueued), SF(Poll) | the loop over a page has no await that can hang; `tokio::select!` without `biased` picks at random, so a branch that is ready again and again is taken |
| `SdkStream` | WF(Reconnecting), WF(Consume) | a connect ends in success or error; a consumer that keeps the stream reads it |
| `Streaming` | SF(Receiving), SF(Tick), WF(Draining), WF(Working(w)) | random select in the scheduler; detector calls are bounded by their time-out |
| `NewHeads` | WF of the driver, both pumps, the consumer, and of the other task's `Send` and return | the tasks are polled; nothing is assumed of the node or of the connection |
| `SolanaStream` | WF(Task), WF(Consume) | the task is polled and a connect ends; a consumer that keeps the stream reads it.  Nothing is assumed of the node |
| `Analyze` | WF of a repeated `Send` and of `TimesOut`, per client | the SDK's timers fire.  Nothing is assumed of the handlers or of what they call |
| `Coordinator` | WF of `SendEvent` and `AdapterLeaves` per adapter and of `BridgeLeaves`, while the process lives | the runtime schedules a task that can go on.  That the bridge receives is not assumed: `AdaptersJoin` rests on the receiver being dropped when it leaves |

`MCStreams` and `MCGateway` state the fairness of their parts, each for the
behaviours of its own part.  The other modules have safety properties only.

Nothing is assumed of crashes, failures, disconnects, shutdown requests,
clients or the chain: no fairness makes one of them happen, and none is held
back other than by the bounds.  Where the code does not make good what such an
event spoiled, the property says what it excuses: `torn` in `Indexer` (all of it
once a reorg handler was cut short), `torn` in `Launches` (the pools taken back
by a reorg that was not handled to its end, and what they mislead), `lost`,
`leaked`, `late` and `unread` elsewhere.

## 5. Proofs

All theorems are statements of the specifications TLC runs, for every value of
the constants that satisfies the module's ASSUME.

| theorem | module | statement |
|---|---|---|
| `TypeCorrect` | `IndexerSafetyProofs` | `Spec => []TypeOK` |
| `ReorgLeavesNothing` | `IndexerSafetyProofs` | `Spec => []NoOrphanedRows` |
| `RowsAreKept` | `IndexerSafetyProofs` | `Spec => []NothingDropped` |
| `CheckpointHonest` | `IndexerSafetyProofs` | `Spec => []CheckpointCovered` |
| `ReorgCleansGraph` | `IndexerSafetyProofs` | `Spec => []NoOrphanedGraph` |
| `EdgesBeforeHook` | `IndexerSafetyProofs` | `Spec => HookSeesEdges` |
| `IndexerImplementsStore` | `IndexerSafetyProofs` | `Spec => ImplementsStore` |
| `NeverForgotten` | `StreamingProofs` | `Spec => []NotForgotten` |
| `ReportsAreBacked` | `StreamingProofs` | `Spec => []ReportsBacked` |
| `LatestIsMonotone` | `StreamingProofs` | `Spec => LatestNeverGoesBack` |
| `EveryWaiterFlushed` | `NewHeadsProofs` | `Spec => []WaitersFlushed` |
| `KeptIsOnTipChain` | `NewHeadsProofs` | `Spec => []KeptOnTipChain` |
| `AncestorsAreSpared` | `NewHeadsProofs` | `Spec => NoAncestorReverted` |
| `CheckpointIsBacked` | `StreamsProofs` | `MCSpec => []CheckpointResumes` |
| `DropsAreAccounted` | `StreamsProofs` | `MCSpec => []DropsAccounted` |
| `ConsumerIsTold` | `StreamsProofs` | `MCSpec => []ConsumerTold` |
| `FanInIsKept` | `StreamsProofs` | `MCSpec => []FanInKeeps` |
| `WalksAreExact` | `GatewayProofs` | `Spec => []WalkExact` |
| `AnsweringClientIsKept` | `GatewayProofs` | `MCSpec => []AnsweringClientKept` |
| `EveryVerdictAccounted` | `GatewayProofs` | `MCSpec => []VerdictsAccounted` |
| `AnalyzeOnceAtATime` | `GatewayProofs` | `MCSpec => []InFlightExact` |
| `DrainIsHonest` | `GatewayProofs` | `MCSpec => []DrainHonest` |
| `HookStateIsCanonical` | `DetectionProofs` | `MCSpec => []HookStateCanonical` (which excuses the pools in `torn`) |
| `FirstPoolIsAudited` | `DetectionProofs` | `MCSpec => []FirstPoolAudited` (which excuses what a pool in `torn` misleads) |
| `EarnedStaysLabelled` | `DetectionProofs` | `MCSpec => []EarnedIsLabelled` |
| `AnswerIsTheHazard` | `DetectionProofs` | `MCSpec => []AnswerIsHazard` |
| `NoAlertIsRaised` | `DetectionProofs` | `Hazard > 2 /\ 0 \notin {Good, Fair, Bad} => (Changepoint!Spec => [](alerts = {}))` |
| `OrderDoesNotMatter` | `DetectionProofs` | `MCSpec => []OrderIndependent` |
| `MoreEvidenceNeverLowers` | `DetectionProofs` | `MCSpec => EvidenceNeverLowers` |
| `ReportsFade` | `DetectionProofs` | `MCSpec => FadesToState` |
| `RoundTripsAreFifo` | `RoundTripsProofs` | `MCSpec => []RoundTripsExact` |
| `ComponentsAreFound` | `CyclesProofs` | `CyclesAssumption /\ Spec => []SccsFound` |
| `CyclesAreExact` | `CyclesProofs` | `CyclesAssumption /\ Spec => []CyclesExact` |
| `RingsAreExact` | `DetectionProofs` | `MCSpec => []CyclesExact` |

The theorems of `DetectionProofs` but `NoAlertIsRaised` and `RingsAreExact` are
also stated of the part's own specification (`Pools!Spec`, `Labels!Spec`,
`Changepoint!Spec`, `Reports!Spec`).

The assumptions are bounds that are numbers, capacities that are not zero, and
these that say something of the system, all in `MCDetection`:

* `MaxHeight <= MaxI64`: no block is so high that an i64 cannot hold its number,
  other than the u64::MAX of the worker's window;
* `"indexer" \notin Workers`: a worker is not the run loop;
* `Ttl # 0`: a label lives for some time;
* `Hazard # 0` and `MaxSlots >= 2`: hazard rate and densities are proportions
  of numbers, and `max_run_length_tracked` is not 0 (1000 by default);
* `SamplesAssumption`: detectors sign with an id of the list, which is what the
  alphabetical order of the sort is taken from, a confidence is at most one and
  a severity one of the five; `Unit` is a natural number, whether or not it can
  be halved exactly;
* `TradesAssumption`: a swap is a buy or a sell of a natural quantity;
* `RingsAssumption`, which is `CyclesAssumption`: the number of wallets is a
  natural number, a limit of length or of component size at least one.  No
  bound on the graph, and a cap of zero cycles is included.

TLC evaluates all of them on the instances of section 3.

For a part of a combined run, the inductive invariant is shown of the part's own
specification first (`WatchKeeps`, `FillKeeps`, ...) and then carried over to
the composition, in which a step of another part leaves the part's variables
alone.

### The indexer

`TypeOK` is inductive: its part `ControlOK` says what the task holds at which
await (an Initialize event exactly during its graph writes, a marker inside its
handler, a table while it is flushed).

The three safety invariants are proved together.  None is inductive alone, and
what they need is:

* `Batches`: outside a flush every batch is empty, so draining `buf` into
  `batch` overwrites nothing; from a drain on the buffers are empty, so the
  DELETEs of a reorg find nothing left in memory.
* `Forks`: no delivered row has a later fork than its slot, and while a marker
  for slot s is handled no delivered row of a slot from s on is canonical.  This
  is why the DELETEs cannot take a canonical row.
* `Rewinding`: during the handler rows below s are canonical throughout, and
  rows of the tables already deleted from are canonical altogether.
* `Marks`: `lastSlot = cp` while the task runs, and outside a handler the saved
  slot is behind the stream.  It is what makes `CheckpointCovered` hold for
  rows yet to come; that `lastSlot` never follows the events (section 6) is part
  of the reason.

The step is done once: `StepEffect` shows that every action has one of eight
effects on rows, forks and checkpoint (`Take`, `Keep`, `Forget`, `Begin`,
`Reorganise`, `Delete`, `MoveMark`, `Finish`), and the invariants are then shown
to survive each effect.  The refinement maps the effects in turn: `Take` to
`Deliver`, `Keep` to `Commit` or a stutter, `Forget` to `Fail`, `Delete` to
`Discard`, `MoveMark` to `SaveCheckpoint`.  It needs two more facts: a buffer
holds rows of its own table (`Sorted`), so a failing table takes no row that
memory keeps elsewhere, and rows in memory are owed (`Owned`).

The graph is disturbed by a handful of steps, and the others leave it alone
(`Aside`).  `NoOrphanedGraph` speaks of the time between handlers and is not
inductive: within one, what is orphaned must be at or above the marker's slot,
where the deletion yet to come finds it, and must be gone behind that deletion
(`GraphSide`).  `HookSeesEdges` is an action property.  It follows from
`EdgesFirst`, by which a task that has passed the write of a token's edge still
finds it there.

### Streaming

`NotForgotten` is inductive together with `Types`, whose only clause beyond
types is that the drained map is empty except while it is being drained (a tick
would otherwise overwrite it).  `Carried(m, t)` is a disjunction over the places
a job can be; for each action a lemma (`ReceiveCarries`, `EnqueueCarries`,
`TakeCarries`, `FinishedCarries`, `WorkerCarries`, `MovingCarries`) moves the
job from one place to the next.

`ReportsBacked` needs the step before the report: a positive score in a worker's
hands is that of a job whose events are in the table (`Persisted`), since
detectors that found something and failed to store it leave the job.  Nothing
takes rows out of the tables, and a report is written under the key of its own
window only, so that `LatestNeverGoesBack` holds whichever worker is slower.

### NewHeads

`WaitersFlushed` is strengthened to `Entered`, which holds a caller from the
insert into `pending` on and not only from its await, together with the types
that tell an answer from a notification.

For the reorg buffer, `Tree` says a parent is announced before its children.  So
a block's ancestors are its parent and that block's ancestors (`AncestorsStep`
and the lemmas beside it, from the definition as a least closed set), and they
stay what they are when the tree grows.  Headers on their way (`Known`) are
those of announced blocks.  The invariant of the buffer itself is `Chain`: of two
headers the earlier one is an ancestor of the later one, although the numbers
may have gaps where heads were dropped.  `Push` keeps it in each of its cases,
and `Held` says that what was kept and not left by the capacity is in the
buffer.  `KeptOnTipChain` follows from `Chain` and `Held`; `NoAncestorReverted`
from `Chain` and the fork point, behind which everything is spared.

### Streams

* *Backfill.*  The promise of the file has to be followed back to the stream: a
  `SlotFinalized` at place i of the stream stands behind every event of its slot
  and of those before it, in the database or in the i - 1 items ahead of it
  (`SentBacked`).  What is being saved, or is in the temporary file before the
  rename, is backed already (`FileBacked`).  A crash empties the stream and
  leaves the files, so both survive it.
* *Gateway connection.*  `DropsAccounted` is inductive as it stands: the count in
  the task plus the one in the frame on its way is that of the rows dropped and
  not yet reported.
* *SDK.*  Told is a property of neighbouring items.  To append to the sequence
  one must know its last item: `Bridged` says what that may be at each place of
  the task.  The item in the hands of a task that waits in its send counts as
  the last, and the task as being where it goes next.
* *Solana.*  `Kept`: what a channel accepted is what was sent, then the slot in
  the task's hands, then what the items still in the channel will yield.  Only
  the last of the three parts is not a plain sequence (an item of another
  subscription or an undecodable one yields nothing), hence the relation
  `Yielded`, which is shown to grow at its end with an accepted notification and
  to shrink at its head with one taken out.

### Gateway

* *REST feed.*  `WalkInv`: the rows walked descend strictly, the cursor is the
  last of them, and every row that was there at the start was walked or is
  behind the cursor.  A page is taken by rank, and the work is in `FetchedPage`:
  ranks are injective because the order is total on rows of distinct ids
  (`Ranked`) and, by the pigeonhole of `FS_Injection`, every rank is taken, so a
  page is a descending sequence without a gap.  Rows inserted between requests
  may be anywhere and spoil nothing, since the page is taken from behind the
  cursor.
* *Watchlist.*  `AnsweringClientKept` is about the moment of a timeout.
  `Answered` is what leads there: while the newest ping has no pong read, the
  pong is in the socket, or the client has yet to answer and no time has passed.
  The biased select reads a pong before it looks at the clock.
  `VerdictsAccounted` needs that the receiver's place is never beyond the
  broadcast's.
* *Reports on demand.*  A handler that ends removes its key from the set, and
  must not remove the one a dropped handler left behind: such a key keeps every
  other handler of its token out (`LeakedStay`).  A first attempt's handler has
  not been at work before (`Unmade`).
* *Drain.*  `AwaitedEnded`: each handle main has gone past is that of a task
  that ended, and no task comes back (`NoneComesBack`).

### Detection

* *Launches.*  The chain is a sequence of pools, one per height (`Chained`).
  What the tables, the batcher and the hook's row hold is canonical, or taken
  back by the reorg in hand (`taken`), up to the step that deletes it, or was
  taken back by one that was cut short or never told (`torn`); that is `Placed`,
  and `PoolRows` and `HookRows` say it.  When the run loop ends, the first two
  stay what they are or pass into the third, so `Placed` holds of every row it
  leaves behind, whatever it was doing (`RunLoopFailsKeeps`).  A row that only
  the hook wrote carries a height not below that of any launch it knows, those
  in `torn` excepted, so the deletion by height takes every row that knows of a
  launch taken back; this is where `MaxI64` comes in, and where a row a worker
  wrote at -1 escapes (`launches_reorg`).  `FirstPoolAudited` rests on the guard,
  which looks at rows of earlier pools (`Audited`): those it finds are canonical
  or in `torn`, and the latter are the excuse (`Misled`), which nothing takes
  back.  A pool that was processed is canonical or of an earlier fork, and so
  never comes back (`Outdated`).
* *Labels.*  `InTime`: a batch ends before the label it writes expires.  The
  upsert keeps the stronger of two labels, and only time takes one away.
* *Changepoint model.*  `Sums` is a recursive function over the places of a
  sequence.  What holds of it (`AddsTo`, `SumsAdd`, `GrownSums`) is shown by the
  least place at which it would fail (`Least`, `Climb`, from the library's
  well-founded minimum on the naturals, as far as these provers can use it).
  `MassOfUpdate` is the arithmetic: an update gives the new run the old total,
  each old run weighted with its density, and the others `Hazard - 1` times as
  much together, whether or not the last slot absorbs.  So the first slot has
  one part in `Hazard` of the whole (`Tracked`).  `NoAlertIsRaised` draws the
  consequence: while every joint weight is positive (`Weighty`), one part in
  `Hazard` is less than one half for `Hazard > 2`.  It holds for any history of
  any length, of which `bocpd_shift` shows one.
* *Report.*  The sort puts the n-th event where n - 1 events are before it.
  The order is total (`BeforeOrders`: detector ids rank apart, and events of one
  detector at one time keep the order they came in), so no two events have the
  same number before them and each place is taken (`PlacesExact`).  A
  permutation that keeps equals in order keeps `Before`, hence the number of
  events before each (`ReorderedOrder`, `ReorderedPlaces`), hence the sorted
  sequence (`SameSort`), from which alone the report is computed.
* *More evidence, and fading.*  What a report says depends on a set of events,
  not on where the sort puts them (`SortedSame`).  Per detector the greatest
  confidence and the greatest severity only rise with one more event and fall
  with a half-life (`MaxEffectiveTops`, `MaxSeverityTops`, `EffectiveInNat`),
  and an event that fired goes on firing when another comes.  `CoversGrow` says
  so for two reports one of which covers the other, `BaseGrows` carries it over
  the weighted sum, a recursive function over the list of ids, and
  `ReportGrows` over the attenuation.  The state-based part stays because those
  events are never halved (`StateStays`).  That a halved number is no greater is
  all that is used of halving, so `Unit` need not be divisible.
* *Round trips.*  All units bought lie in one stretch and all units closed in
  another.  After k swaps the open positions are the units from the last one
  closed to the last one bought, in their order (`Queue`), and each buy and sell
  so far is paired for the units that lie over each other (`Paired`).  Within a
  sell the same holds up to the unit it has come to (`SoldSoFar`,
  `SoldGoesOn`): the position in front is taken whole, in part, or not at all.
  The pairing consists of recursive functions; `Iterates` shows that such a
  function exists and obeys its equation when each step can be taken from the
  state before it, and `Climb` carries the invariant along.

### Rings

`CyclesProofs` has no bound on the graph.  What a spread reaches is the least
closed set around its vertex (`Reaches`), so reachability is never computed.

* *Tarjan.*  `Search` is the invariant of the depth-first search: what the
  frames lead to and from (`Frames`, `Down`, `Up`), that a vertex off the stack
  leads to nothing on it (`Behind`), that a lowlink is the index of a vertex that
  is reached (`LowReached`) and not above that of any vertex on the stack that an
  edge looked at leads to (`LowBounds`); `Looked` says which edges those are.
  `PoppedComponent` is the heart: when a vertex retreats with its own index as
  its lowlink, what lies on the stack from it up is its class of mutual
  reachability.
* *What is reported.*  The path of circuit's calls is a chain of edges within the
  component, above its root (`Chain`), so closing it gives a walk.  No walk comes
  twice because each is either reported or still ahead of the calls on the path,
  never both (`Awaited` in `DetectedInv`), roots only go up, and each component
  is searched once (`KeptInv`).
* *Johnson's blocking*, where the length is no limit.  `Apart`: no vertex is on
  the path twice.  A blocked vertex off the path leads to blocked ones only,
  never to the root, and waits for each of them (`Shut`); a call without a hit so
  far has found nothing open (`Tried`); and a vertex on the path waits only for
  what is below it on the path or cannot get out but through there (`Walled`),
  so it is not unblocked before it leaves (`Held`).  With a length limit `Shut`
  fails at a path of the greatest length, which is the finding `cycles_tangle`.
* *None is missed.*  `CompleteInv`: the rings of a component that is done were
  reported, and of the one at hand those circuit has been past (`Past`: a smaller
  root, or the present one and no longer awaited).  A neighbour that is skipped
  because it is blocked costs none: it is on the path, or by `Shut` every way
  from it to the root crosses the path, which a ring cannot do twice.

`RingsAreExact` carries this over to the composition: the definitions of the two
instances are the same (`SameRings`).

### What the proofs do not cover

* Liveness (`ShutdownEnds`, `AgedBufferFlushed`, `QueueDrains`,
  `ReconnectsSettle`, `ChannelsDrain`, `CallsEnd`, `AdaptersJoin`, `Evaluated`,
  `ShutsDown`, `GivesUp`) needs reasoning about ENABLED and is model-checked
  only.
* Statements the code does not keep (section 6), of course, and the bounded
  part of `Cycles`: with a length limit `CyclesExact` promises closed walks
  within it, none twice, and neither elementary nor all of them.

Every safety invariant and every action property of a passing run is stated by a
theorem.

## 6. Findings

With a run that exhibits them:

| run | code | text |
|---|---|---|
| `bocpd_shift` | the mass of a new run is summed with the densities of the old runs (`detectors/src/d09_deployer_changepoint.rs:460-468`), so P(r_t = 0) is the hazard rate after every observation (`AnswerIsHazard`) and never reaches the threshold: D09 raises no alert | the header, line 25, "A changepoint alert fires when `P(r_t = 0 \| x_{1:t}) >= changepoint_prob_threshold`", and the test at line 1786, "requires MANY new-regime observations to exceed the alert threshold" |
| `launches_reorg` | the streaming worker's window ends at block u64::MAX, which D09 saves as -1 (`d09_deployer_changepoint.rs:885`): no reorg selects that row | `indexer/src/lib.rs:337` "retract D09 BOCPD state derived from blocks at or above the reorg height" |
| `scoring_noise` | once an event of a detector fired, the severity of all its events counts (`scoring/src/aggregate.rs:282`) | `scoring/src/types.rs:76` "classified as inconclusive noise and MUST NOT drive severity escalation" |
| `cycles_tangle` | circuit returns without a cycle from a path of the greatest length (`graph/src/cycles.rs:525`), and its vertex then waits in the blockers of neighbours that are not blocked (`:606`).  It is freed through another of them, entered again, and freed a second time while it is on the path: a cycle with a wallet twice is reported (0, 5, 4, 5, 3 on nine edges, with the default configuration) | `graph/src/cycles.rs:57` "One elementary directed cycle detected in the transfer graph", and `:64` of its vertices "Length = number of distinct wallets = number of hops." |
| `indexer_final_checkpoint` | `last_slot` is set at the start and by a reorg only (`indexer/src/lib.rs:210`, `:318`): every save writes the slot the run began with | `indexer/src/lib.rs:209` "Track the last slot we've seen" |
| `stream_terminates` | the sender in `subs` lives as long as the client the driver holds (`chain-adapter/src/ethereum/rpc.rs:386`): after a disconnect the driver waits for ever | `ethereum/rpc.rs:71` "The stream terminates on WS disconnect" |

Met while modelling, in the models as the code has it, without a run of its own:

* Indexer
  * An idle stream never flushes a timed-out batch: the check follows an event
    (`indexer/src/lib.rs:358`).
  * After a reorg the checkpoint passes rows a failure took from memory
    (`reorg.rs:89`; `storage/src/checkpoint.rs:50`).  `CheckpointCovered` excuses
    them through `lost`.
  * A failed `save_checkpoint` ends the run (the `?` at `lib.rs:361`), though its
    comment says "Non-fatal: logs at ERROR" (`lib.rs:402`).
  * A restart does not repair an interrupted reorg (`lib.rs:204`), which
    `reorg.rs:16-19` relies on.  The properties void their promise from there on
    (`torn`).
  * The boundary of the label clean-up is the last block time, not the marker's
    (`lib.rs:334`), and UNIX_EPOCH after a restart (`lib.rs:220`): labels of
    orphaned slots stay, or all go.
  * AuthorityOf edges carry the stale `last_slot` (`lib.rs:314`).
* Event feed
  * The poll fetches the newest 100 rows and filters afterwards
    (`ws/mod.rs:281`): an event of a wanted token behind 100 newer rows is never
    pushed, against `ws/mod.rs:13` "pushes new events".
  * The same newest rows are queued again by every poll (`ws/mod.rs:281`).
  * A replay goes newest first (`ws/mod.rs:201`; `docs/designs/0011-gateway.md:593`)
    and ignores `from_id` (`ws/mod.rs:198`; `docs/api/openapi.yaml:558`).
  * A full buffer drops the newest row, not the oldest (`ws/mod.rs:308`;
    `docs/api/openapi.yaml:551`).
* Heartbeat
  * With the random select of `ws/mod.rs:257` a client that answers may be
    closed, when its pong and a due tick are both ready (`config.rs:211`).  With
    the watchlist's biased select it may not (`AnsweringClientKept`).
  * A silent client is never closed by a task that is not held up, since each
    tick resets the ping it is measured from (`ws/mod.rs:257`;
    `docs/designs/0011-gateway.md:549`).
* Analyze
  * A handler dropped in the middle of its run leaves its key in the in-flight
    set for good (`analyze.rs:177`; the SDK's retry of a timed-out POST is one
    way to it).  `InFlightExact` lists these keys apart (`leaked`).
* Coordinator and server process
  * "drain complete — all coordinator and background tasks finished"
    (`main.rs:464`): scheduler, workers and bridge are not among the tasks
    awaited.  `DrainHonest` speaks of those that are.
  * `invalidation_tx` stays alive in the application state, so the closing of
    the channel by which scheduler and workers end (`ShutsDown`) does not happen
    before the process does.
  * `trigger_evaluate` writes one cache row under the id "stub" while its probe
    asks for the registered ids (`coordinator.rs:503-520`): the cache never hits.
* Detection
  * D09 starts a deployer afresh after a reorg, against "by replaying
    observations" in the comment on `delete_states_above_block`; it counts both
    tokens of a pool and every evaluation by a worker as a launch; loading and
    saving are not one transaction, so hook and workers lose one another's
    observation.
  * D10's first-pool guard reads a table that earlier pools of the batcher are
    not yet in; such a pool is audited twice.
  * D10's `on_reorg` leaves its rows to "the indexer's main reorg handler"
    (`d10_launch_audit.rs:910-912`: "anomaly_events for blocks above reorg_height
    should be deleted"), but none of that handler's DELETEs is on
    `anomaly_events` (`indexer/src/sink.rs:218-247`): the audit of a pool that was
    taken back stays.  In `Launches` no reorg step touches `audits`.
  * A reorg that an error or a crash cuts short (the `?` at `lib.rs:326`, `:334`
    and `:340`), or that happens while the run loop is away, is not handled
    again: the orphaned `pool_events` mislead D10's guard and D09's row keeps its
    launches.  `HookStateCanonical` and `FirstPoolAudited` excuse exactly these
    pools (`torn`).
  * The D01 cadence assumes it is detector 0 (`server/src/streaming/worker.rs:262-270`);
    `init/detectors.rs:252-254` puts D14 there.
  * `coverage_completeness` counts raw ids (`scoring/src/coverage.rs`), of which
    one detector has two.  `types.rs:183-187` says inconclusive events "do not
    drive score"; `aggregate.rs` takes them into the maximum.
* Smart money
  * The batch asks for detector ids nothing writes
    (`server/src/pg_swap_fetcher.rs:193`, `:266`), and tier 1 needs a percentile
    that is never computed.
  * A sell is paired within the look-back only, so a token bought before it
    counts as never bought.  The PnL per token goes to the first sell at the
    same time.  A weaker label earned anew is not written while a stronger one
    lives, and the label of a wallet that is excluded later stays.
  * `init/smart_money.rs:74` "Skip the first immediate tick": nothing skips it.
* Client SDK
  * `event["id"]` is read as a string (`ws.rs:312`), the gateway writes a number
    under `_id`: `resume_from` is never sent, against `ws.rs:17`.
  * `reconnect_count` is never reset (`ws.rs:227`; `ws.rs:16`).
  * `Reconnected` is sent before the attempt (`ws.rs:206`; `types.rs:343`).
  * The channel holds 128 items (`ws.rs:31` speaks of one frame in flight).
* Streaming
  * The score cache is updated before the upsert and is private to a worker
    (`worker.rs:393`): a tick is skipped although no report, or another, is
    stored, against `worker.rs:94-96`.
  * The queue is not deduplicated (`docs/designs/0014-streaming-detector.md`,
    2.4), and a dropped tick waits for the token's next event (line 160).
  * The D01 cadence counts per worker (`worker.rs:270`).
  * `evict_lru` ignores subscribers (`registry.rs:8-14`).
  * Two evaluations of one window race for the report row; the slower one wins
    (`risk_report_store.rs:64`).
* Chain adapter
  * After a disconnect the newHeads stream neither ends nor reconnects: `subs`
    keeps its sender (`jsonrpc/mod.rs:480-485`; `ethereum/rpc.rs:71`, `:324`).
    `NewHeads` therefore has no step from a lost connection to the reconnect
    phase, and `GivesUp` speaks of a driver that is subscribing.
  * A request made after the read pump left may wait for ever
    (`jsonrpc/mod.rs:272`; `:235`).  `WaitersFlushed` excepts these callers
    (`late`).
  * A gap in the heads is reported as a reorg (`ethereum/reorg.rs:21`).
  * The attempt counter is reset by a subscription, not by an event
    (`ethereum/rpc.rs:351`; `:333`).
  * Solana: `consecutive_errors` is never reset (`solana/subscribe.rs:107`;
    `reconnect.rs:21`).  After a disconnect the receivers stay open for the same
    reason as in `stream_terminates`, so the reconnect of `subscribe.rs:79` is
    not reached.
  * Backfill: a slot whose request fails is passed over in silence
    (`solana/backfill.rs:260`), and an error in the body of an answer is taken
    for a skipped slot.  `CheckpointResumes` excepts the former (`unread`).
* Graph
  * A path cut off at the length limit leaves its vertices blocked
    (`graph/src/cycles.rs:525`, `:590`): a shorter ring through them is missed,
    against `:443` "Enumerate all elementary cycles in the subgraph induced by
    one SCC".  `CyclesExact` promises all rings only where the length is no
    limit.
  * A re-run adds to the totals again (`graph/src/edges.rs:280`; `:27`), and no
    checkpoint is advanced (`:22`).
  * `indexer/src/sink.rs:38` speaks of idempotent inserts; the
    `holder_snapshots_history` one is plain (`storage/src/pg.rs:1458`).

## 7. What is not modelled

* Detectors D01-D08 and D11-D14, DEX and chain decoders, token registry, domain
  types: functions of rows or bytes without behaviour over time.  `Streaming`
  takes the detectors' results as any events or a failure, `Scoring` takes every
  set of events they could hand over.
* In the wallet graph: the aggregation of transfers into `wallet_edges`, the
  clustering and the read API, each one pass over tables (where a second pass
  counts twice is listed in section 6).  In `Scoring`: coverage counts and the
  graduation multiplier, which enter no score there.  In the coordinator: the
  verdict cache, whose probe never hits in this commit (section 6).
* Gateway authentication and plumbing, command-line tools, start-up wiring:
  sequential request handling and argument parsing.  What the wiring leaves
  unconnected in this commit (what the bridge would do with an event, the
  periodic scan, the sender of invalidations, a consumer of the backfill) is the
  models' environment.
* In `Indexer`: the `holder_snapshots` buffer, which no event fills.  In
  `WsStream`: the invalidation branch, which does nothing, and the heartbeat,
  which `Watchlist` has.  In `NewHeads`: the initial connect, of which a failed
  attempt leaves nothing; delays; parsing.  The consumer that feeds the reorg
  buffer is a model of the intended one, `EthereumAdapter::subscribe` being a
  stub.
* Filters of the REST feed by chain, detector and severity: they select a subset
  of the rows.

Most lines of the repository are of these kinds: queries and their row types,
decoders, statistics in decimals, printing, and tests.  The share of lines the
map names is small for that reason, not because parts with behaviour over time
were left out.

## 8. Plan

1. The aggregation of transfers into `wallet_edges` against a reference sum, with
   an upsert that adds and a re-run.
2. Composition of `Streaming` with `WsStream` through the events table: an event
   a worker persists reaches a subscriber whose buffer has room.
3. Whole handlers that are only in part in the models: the verdict cache of the
   coordinator once its probe can hit, and the clustering of the wallet graph.
