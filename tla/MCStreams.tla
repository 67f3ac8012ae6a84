----------------------------- MODULE MCStreams -----------------------------
(***************************************************************************)
(* The tasks that feed a bounded channel, in one run: Ethereum's newHeads  *)
(* driver, Solana's live stream and its backfill, the gateway's connection *)
(* and the SDK's task.  Each has whoever is at its other end as an         *)
(* environment that may do anything, so a behaviour is one of a single     *)
(* task and the others rest.                                               *)
(***************************************************************************)
EXTENDS NewHeads

CONSTANTS
  MaxEvents, MaxTime, Tokens, Limit, ReplayLimit, SendBuffer, Threshold, \* WsStream
  MaxReconnects, ChannelSize, Ids,                                       \* SdkStream
  Subs, Owners, NoteCap, SlotCap, MaxErrors, MaxNotes,                   \* SolanaStream
  Slots, FillEvents, MaxStarts                                           \* SolanaBackfill

ASSUME StreamsAssumption == Slots \in Nat /\ FillEvents \in Nat

VARIABLES
  task,  \* whose behaviour it is
  events, at, on, want, lastId, work, sendBuffer, dropped, frame, unreported,
  sdkPc, sdkNext, sdkItem, count, lastSeen, channel, sdkConsumer, taken, made,
  pc, errors, next, noAnswer, live, slotItem, connected, accepted, queue, slots,
  listening, notes, slot, heard, sent,
  fillPc, fillSlot, fillStream, block, event, consumer, starts, saving, tmp,
  file, stored, unread

Ws == INSTANCE WsStream WITH
  Capacity <- SendBuffer, buffer <- sendBuffer, socket <- frame
Sdk == INSTANCE SdkStream WITH
  pc <- sdkPc, next <- sdkNext, item <- sdkItem, consumer <- sdkConsumer
Live == INSTANCE SolanaStream WITH
  SubCap <- NoteCap, StreamCap <- SlotCap, MaxAttempts <- MaxErrors,
  late <- noAnswer, item <- slotItem, up <- connected, stream <- slots,
  reading <- listening
Fill == INSTANCE SolanaBackfill WITH
  MaxEvents <- FillEvents, pc <- fillPc, slot <- fillSlot, stream <- fillStream

wsVars == <<events, at, on, want, lastId, work, sendBuffer, dropped, frame, unreported>>
sdkVars == <<sdkPc, sdkNext, sdkItem, count, lastSeen, channel, sdkConsumer, taken,
             made>>
liveVars == <<pc, errors, next, noAnswer, live, slotItem, connected, accepted, queue,
              slots, listening, notes, slot, heard, sent>>
fillVars == <<fillPc, fillSlot, fillStream, block, event, consumer, starts, saving,
              tmp, file, stored, unread>>
mcVars == <<task, vars, wsVars, sdkVars, liveVars, fillVars>>

Ethereum(Step) ==
  task = "ethereum" /\ Step /\ UNCHANGED <<task, wsVars, sdkVars, liveVars, fillVars>>
Gateway(Step) ==
  task = "gateway" /\ Step /\ UNCHANGED <<task, vars, sdkVars, liveVars, fillVars>>
Client(Step) ==
  task = "sdk" /\ Step /\ UNCHANGED <<task, vars, wsVars, liveVars, fillVars>>
Solana(Step) ==
  task = "solana" /\ Step /\ UNCHANGED <<task, vars, wsVars, sdkVars, fillVars>>
Backfill(Step) ==
  task = "backfill" /\ Step /\ UNCHANGED <<task, vars, wsVars, sdkVars, liveVars>>

\* The chain to fill in is of interest to the backfill alone.
MCInit ==
  /\ task \in {"ethereum", "gateway", "sdk", "solana", "backfill"}
  /\ Init /\ Ws!Init /\ Sdk!Init /\ Live!Init /\ Fill!Init
  /\ task # "backfill" => \A s \in DOMAIN block : block[s] = 0

MCNext ==
  \* Heads and the other task's calls share the bound on the environment.
  \/ Ethereum(Next /\ heads' + 2 * calls' <= MaxHeads)
  \/ Gateway(Ws!Next)
  \/ Client(Sdk!Next)
  \/ Solana(Live!Next)
  \/ Backfill(Fill!Next)

\* The fairness of the modules' own specifications.
MCSpec ==
  /\ MCInit /\ [][MCNext]_mcVars
  /\ WF_mcVars(Ethereum(Driving)) /\ WF_mcVars(Ethereum(Writing))
  /\ WF_mcVars(Ethereum(Reading)) /\ WF_mcVars(Ethereum(Consuming))
  /\ WF_mcVars(Ethereum(Send("other"))) /\ WF_mcVars(Ethereum(OtherReturns))
  /\ WF_mcVars(Gateway(Ws!Work))
  /\ SF_mcVars(Gateway(Ws!SendQueued)) /\ SF_mcVars(Gateway(Ws!Poll))
  /\ WF_mcVars(Client(Sdk!Reconnecting)) /\ WF_mcVars(Client(Sdk!Consume))
  /\ WF_mcVars(Solana(Live!Task)) /\ WF_mcVars(Solana(Live!Consume))

\* WsStream: the count a lag notice carries is that of the events dropped
\* since the last one.
DropsAccounted == Ws!DropsAccounted

\* WsStream: what is queued at an unsubscribe still reaches the socket.
QueueDrains == Ws!QueueDrains

\* SdkStream: items of two connections are never adjacent for the consumer, and
\* one that still listens at the end was told why.
ConsumerTold == Sdk!ConsumerTold

\* SolanaStream: what a channel accepted has been sent or waits, in its order.
FanInKeeps == Live!FanInKeeps

\* SolanaStream: no receiver waits for ever while another one is drained.
ChannelsDrain == Live!ChannelsDrain

\* SdkStream and SolanaStream: a task that lost its connection reads again or
\* ends, but the latter may wait for the answer of a connection lost under it.
ReconnectsSettle ==
  /\ task = "sdk" /\ sdkPc = "top" ~> sdkPc \in {"read", "done"}
  /\ Live!BackoffEnds

\* SolanaBackfill: the checkpoint file can be read and is backed by what is
\* stored, wherever the process dies (FileCheckpointStore::save).
CheckpointResumes == Fill!CheckpointResumes
=============================================================================
