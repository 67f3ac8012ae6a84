------------------------------ MODULE NewHeads ------------------------------
(***************************************************************************)
(* New block headers on their way from an Ethereum node to the reorg       *)
(* buffer: the JSON-RPC client with its write pump and read pump           *)
(* (crates/chain-adapter/src/jsonrpc/mod.rs), the newHeads driver that     *)
(* subscribes through it (ethereum/rpc.rs), and a consumer of the driver's *)
(* stream that pushes every header into a ReorgBuffer.                     *)
(*                                                                         *)
(* The client connects once and never again.  One other task shares it     *)
(* (eth_call and the like), so a caller is "driver" or "other".  Delays    *)
(* are left out: a sleep is the time between two steps.                    *)
(***************************************************************************)
EXTENDS ReorgBuffer, FiniteSets

CONSTANTS
  MaxHeads,    \* bound: heads the node announces
  OtherCalls,  \* bound: requests of the other task
  SubCap,      \* capacity of a subscription channel (64)
  StreamCap,   \* capacity of the driver's stream (64)
  MaxAttempts  \* RECONNECT_DELAYS_MS.len()

ASSUME NewHeadsAssumption ==
  /\ {MaxHeads, OtherCalls} \subseteq Nat
  /\ {SubCap, StreamCap, MaxAttempts} \subseteq Nat \ {0}

VARIABLES
  parent,    \* environment: the block tree, block -> its parent, 0 the root
  head,      \* environment: the head of the node
  heads,     \* environment: heads announced so far
  up,        \* the WebSocket connection
  outbox,    \* the callers whose request frames wait for the write pump
  asked,     \* the callers whose request the node has
  nodeSubs,  \* the node has accepted the subscription
  inbox,     \* the frames on their way to the read pump
  writer,    \* the write pump: running, or exited
  reader,    \* the read pump
  waiting,   \* pending: the callers whose oneshot it holds
  reply,     \* caller -> what its oneshot received, or "none"
  caller,    \* caller -> idle, send, wait
  late,      \* history: callers who entered pending after the read pump left
  calls,     \* requests of the other task so far
  driver,    \* subscribe, consume, forward, backoff, report, done
  attempt,   \* the driver's attempt counter
  subs,      \* the driver's channel is registered in subs
  subq,      \* what is in it
  item,      \* the header the driver is forwarding
  stream,    \* the driver's stream: headers, and the final error
  reading,   \* the consumer still holds the stream
  buffer,    \* ReorgBuffer.headers
  kept,      \* history: blocks pushed and not marked reverted since
  trimmed    \* history: blocks that left the buffer by its capacity

node   == <<parent, head, heads>>
socket == <<up, outbox, asked, nodeSubs, inbox>>
client == <<writer, reader, waiting, reply, caller, late, calls>>
driving == <<driver, attempt, subs, subq, item>>
consuming == <<reading, buffer, kept, trimmed>>
vars == <<node, socket, client, driving, stream, consuming>>

Callers == {"driver", "other"}
Block   == 1..Len(parent)

\* Follows the parent hashes of its blocks, down to the root.
Closed(S) == \A b \in S : parent[b] \in S \union {0}

\* What every such set with b's parent in it has.
Ancestors(b) ==
  {a \in Block : \A S \in SUBSET Block :
                   Closed(S) /\ parent[b] \in S \union {0} => a \in S}

Header(b) ==
  [hash |-> b, parent |-> parent[b], number |-> Cardinality(Ancestors(b)) + 1]

Answer == [kind : {"ok", "error"}, to : Callers]
Head1  == [kind : {"head"}, block : 1..MaxHeads]
Error  == [kind |-> "error"]

TypeOK ==
  /\ Len(parent) <= MaxHeads /\ \A b \in Block : parent[b] \in 0..(b - 1)
  /\ head \in 0..Len(parent) /\ heads \in 0..MaxHeads
  /\ up \in BOOLEAN /\ nodeSubs \in BOOLEAN
  /\ outbox \in Seq(Callers) /\ asked \subseteq Callers
  /\ inbox \in Seq(Answer \union Head1)
  /\ {writer, reader} \subseteq {"running", "exited"}
  /\ waiting \subseteq Callers /\ late \subseteq Callers
  /\ reply \in [Callers -> {"none", "ok", "error"}]
  /\ caller \in [Callers -> {"idle", "send", "wait"}]
  /\ calls \in 0..OtherCalls
  /\ driver \in {"subscribe", "consume", "forward", "backoff", "report", "done"}
  /\ attempt \in 0..MaxAttempts
  /\ subs \in BOOLEAN /\ reading \in BOOLEAN
  /\ subq \in Seq(1..MaxHeads) /\ Len(subq) <= SubCap
  /\ item \in 0..MaxHeads
  /\ stream \in Seq(Head1 \union {Error}) /\ Len(stream) <= StreamCap
  /\ Len(buffer) <= Capacity
  /\ kept \subseteq 1..MaxHeads /\ trimmed \subseteq 1..MaxHeads

Init ==
  /\ parent = <<>> /\ head = 0 /\ heads = 0
  /\ up = TRUE /\ outbox = <<>> /\ asked = {} /\ nodeSubs = FALSE /\ inbox = <<>>
  /\ writer = "running" /\ reader = "running"
  /\ waiting = {} /\ late = {} /\ calls = 0
  /\ reply = [c \in Callers |-> "none"] /\ caller = [c \in Callers |-> "idle"]
  /\ driver = "subscribe" /\ attempt = 0
  /\ subs = FALSE /\ subq = <<>> /\ item = 0
  /\ stream = <<>> /\ reading = TRUE
  /\ buffer = <<>> /\ kept = {} /\ trimmed = {}

(***************************************************************************)
(* The network and the node.                                               *)
(***************************************************************************)
\* The node's head moves: to a new block on any known one, the last or a
\* forgotten one, or back to a block it has left.  A subscriber is notified.
NewHead ==
  /\ heads < MaxHeads
  /\ \/ \E p \in {0} \union Block : parent' = Append(parent, p) /\ head' = Len(parent')
     \/ \E b \in Block \ {head} : head' = b /\ UNCHANGED parent
  /\ heads' = heads + 1
  /\ inbox' = IF up /\ nodeSubs
              THEN Append(inbox, [kind |-> "head", block |-> head']) ELSE inbox
  /\ UNCHANGED <<up, outbox, asked, nodeSubs, client, driving, stream, consuming>>

\* A response, whenever and in whatever order the node likes.
Respond ==
  /\ up
  /\ \E c \in asked, kind \in {"ok", "error"} :
       /\ asked' = asked \ {c}
       /\ inbox' = Append(inbox, [kind |-> kind, to |-> c])
       /\ nodeSubs' = (nodeSubs \/ (c = "driver" /\ kind = "ok"))
  /\ UNCHANGED <<node, up, outbox, client, driving, stream, consuming>>

Disconnect ==
  /\ up
  /\ up' = FALSE
  /\ UNCHANGED <<node, outbox, asked, nodeSubs, inbox, client, driving, stream,
                 consuming>>

(***************************************************************************)
(* The JSON-RPC client.                                                    *)
(***************************************************************************)
\* request_raw enters the request into pending before it sends it.
Register(c) ==
  /\ caller[c] = "idle"
  /\ caller' = [caller EXCEPT ![c] = "send"]
  /\ waiting' = waiting \union {c}
  /\ late' = IF reader = "exited" THEN late \union {c} ELSE late \ {c}
  /\ reply' = [reply EXCEPT ![c] = "none"]
  /\ UNCHANGED <<node, socket, writer, reader, driving, stream, consuming>>

RegisterSubscribe ==
  /\ driver = "subscribe" /\ Register("driver") /\ UNCHANGED calls

RegisterOther ==
  /\ calls < OtherCalls /\ Register("other") /\ calls' = calls + 1

\* write_tx.send; it fails once the write pump has dropped the receiver.
Send(c) ==
  /\ caller[c] = "send"
  /\ IF writer = "running"
     THEN /\ outbox' = Append(outbox, c)
          /\ UNCHANGED <<waiting, reply>>
     ELSE /\ waiting' = waiting \ {c}
          /\ reply' = [reply EXCEPT ![c] = "error"]
          /\ UNCHANGED outbox
  /\ caller' = [caller EXCEPT ![c] = "wait"]
  /\ UNCHANGED <<node, up, asked, nodeSubs, inbox, writer, reader, late, calls,
                 driving, stream, consuming>>

\* The write pump: a frame reaches the node, or the socket first.
WriteFrame ==
  /\ writer = "running" /\ outbox # <<>>
  /\ outbox' = Tail(outbox)
  /\ asked' = IF up THEN asked \union {Head(outbox)} ELSE asked
  /\ UNCHANGED <<node, up, nodeSubs, inbox, client, driving, stream, consuming>>

\* sink.send fails: the pump and its receiver are gone.
WriteFails ==
  /\ writer = "running" /\ outbox # <<>> /\ ~up
  /\ writer' = "exited" /\ outbox' = <<>>
  /\ UNCHANGED <<node, up, asked, nodeSubs, inbox, reader, waiting, reply,
                 caller, late, calls, driving, stream, consuming>>

\* The read pump hands a response to the request it answers.
ReadAnswer ==
  /\ reader = "running" /\ inbox # <<>> /\ Head(inbox).kind # "head"
  /\ inbox' = Tail(inbox)
  /\ LET c == Head(inbox).to IN
       /\ reply' = [reply EXCEPT ![c] = IF c \in waiting THEN Head(inbox).kind ELSE @]
       /\ waiting' = waiting \ {c}
  /\ UNCHANGED <<node, up, outbox, asked, nodeSubs, writer, reader, caller,
                 late, calls, driving, stream, consuming>>

\* A notification goes to its subscription's channel; it is dropped when the
\* id is not registered yet, the channel full or its receiver gone.
ReadHead ==
  /\ reader = "running" /\ inbox # <<>> /\ Head(inbox).kind = "head"
  /\ inbox' = Tail(inbox)
  /\ subq' = IF subs /\ driver # "done" /\ Len(subq) < SubCap
             THEN Append(subq, Head(inbox).block) ELSE subq
  /\ UNCHANGED <<node, up, outbox, asked, nodeSubs, client, driver, attempt,
                 subs, item, stream, consuming>>

\* Altered ReaderExits: pending is left as it is.
ReaderExitsSilently ==
  /\ reader = "running" /\ ~up
  /\ reader' = "exited" /\ inbox' = <<>>
  /\ UNCHANGED <<node, up, outbox, asked, nodeSubs, writer, waiting, reply,
                 caller, late, calls, driving, stream, consuming>>

\* The read half ends, or fails with frames unread.  Every pending request is
\* answered with an error; subs keeps its senders.
ReaderExits ==
  /\ reader = "running" /\ ~up
  /\ reader' = "exited" /\ inbox' = <<>>
  /\ reply' = [c \in Callers |-> IF c \in waiting THEN "error" ELSE reply[c]]
  /\ waiting' = {}
  /\ UNCHANGED <<node, up, outbox, asked, nodeSubs, writer, caller, late, calls,
                 driving, stream, consuming>>

\* The other task gets its result.
OtherReturns ==
  /\ caller["other"] = "wait" /\ reply["other"] # "none"
  /\ caller' = [caller EXCEPT !["other"] = "idle"]
  /\ UNCHANGED <<node, socket, writer, reader, waiting, reply, late, calls,
                 driving, stream, consuming>>

(***************************************************************************)
(* The driver, subscribe_new_heads_inner.                                  *)
(***************************************************************************)
Subscribing == caller["driver"] = "wait"

\* The channel enters subs only here, after the response was dispatched.
Subscribed ==
  /\ Subscribing /\ reply["driver"] = "ok"
  /\ caller' = [caller EXCEPT !["driver"] = "idle"]
  /\ driver' = "consume" /\ attempt' = 0 /\ subs' = TRUE
  /\ UNCHANGED <<node, socket, writer, reader, waiting, reply, late, calls,
                 subq, item, stream, consuming>>

\* Altered SubscribeFails: the attempt is not counted.
SubscribeFailsUncounted ==
  /\ Subscribing /\ reply["driver"] = "error"
  /\ caller' = [caller EXCEPT !["driver"] = "idle"]
  /\ driver' = "subscribe"
  /\ UNCHANGED <<node, socket, writer, reader, waiting, reply, late, calls,
                 attempt, subs, subq, item, stream, consuming>>

\* Out of attempts: the final error; otherwise another attempt.
SubscribeFails ==
  /\ Subscribing /\ reply["driver"] = "error"
  /\ caller' = [caller EXCEPT !["driver"] = "idle"]
  /\ IF attempt >= MaxAttempts
     THEN driver' = "report" /\ UNCHANGED attempt
     ELSE driver' = "subscribe" /\ attempt' = attempt + 1
  /\ UNCHANGED <<node, socket, writer, reader, waiting, reply, late, calls,
                 subs, subq, item, stream, consuming>>

\* recv yields a header.  It never yields None: the sender in subs lives as
\* long as the client, and the driver holds a clone of it, so the reconnect
\* phase of the code is not reached.
TakeHead ==
  /\ driver = "consume" /\ subq # <<>>
  /\ item' = Head(subq) /\ subq' = Tail(subq)
  /\ driver' = "forward"
  /\ UNCHANGED <<node, socket, client, attempt, subs, stream, consuming>>

Forward ==
  /\ driver = "forward" /\ reading /\ Len(stream) < StreamCap
  /\ stream' = Append(stream, [kind |-> "head", block |-> item])
  /\ item' = 0 /\ driver' = "consume"
  /\ UNCHANGED <<node, socket, client, attempt, subs, subq, consuming>>

ReportError ==
  /\ driver = "report" /\ reading /\ Len(stream) < StreamCap
  /\ stream' = Append(stream, Error)
  /\ driver' = "done"
  /\ UNCHANGED <<node, socket, client, attempt, subs, subq, item, consuming>>

\* tx.send fails: the caller is done with the stream.
StreamDropped ==
  /\ driver \in {"forward", "report"} /\ ~reading
  /\ driver' = "done" /\ item' = 0
  /\ UNCHANGED <<node, socket, client, attempt, subs, subq, stream, consuming>>

(***************************************************************************)
(* The consumer of the stream.                                             *)
(***************************************************************************)
\* Every header is pushed; what push reverts is no longer kept.
Consume ==
  /\ reading /\ stream # <<>> /\ Head(stream).kind = "head"
  /\ stream' = Tail(stream)
  /\ LET b    == Head(stream).block
         push == Push(buffer, Header(b))
         gone == {k \in kept : \E i \in DOMAIN push.reverted :
                                 push.reverted[i] = Header(k).number}
     IN  /\ buffer' = push.headers
         /\ kept' = (kept \ gone) \union {b}
         /\ trimmed' = IF push.reverted = <<>> /\ buffer # <<>>
                          /\ Len(push.headers) <= Len(buffer)
                       THEN trimmed \union {buffer[1].hash} ELSE trimmed
  /\ UNCHANGED <<node, socket, client, driving, reading>>

ConsumeError ==
  /\ reading /\ stream # <<>> /\ Head(stream).kind = "error"
  /\ stream' = Tail(stream)
  /\ UNCHANGED <<node, socket, client, driving, consuming>>

StopReading ==
  /\ reading
  /\ reading' = FALSE /\ stream' = <<>>
  /\ UNCHANGED <<node, socket, client, driving, buffer, kept, trimmed>>

Driving ==
  \/ RegisterSubscribe \/ Send("driver") \/ Subscribed \/ SubscribeFails
  \/ TakeHead \/ Forward \/ ReportError \/ StreamDropped
Calling   == RegisterOther \/ Send("other") \/ OtherReturns
Writing   == WriteFrame \/ WriteFails
ReadFrame == ReadAnswer \/ ReadHead
Reading   == ReadFrame \/ ReaderExits
Consuming == Consume \/ ConsumeError

Next ==
  \/ NewHead \/ Respond \/ Disconnect
  \/ Driving \/ Calling \/ Writing \/ Reading
  \/ Consuming \/ StopReading

Spec == Init /\ [][Next]_vars

\* The tasks run, and the consumer polls its stream until it drops it.
FairSpec ==
  /\ Spec
  /\ WF_vars(Driving) /\ WF_vars(Writing) /\ WF_vars(Reading)
  /\ WF_vars(Consuming) /\ WF_vars(Send("other")) /\ WF_vars(OtherReturns)

(***************************************************************************)
(* Properties.                                                             *)
(***************************************************************************)
\* What the consumer has taken and not been told to revert lies on the chain
\* of the buffer's tip, however heads fork, repeat or go missing in a full
\* channel; only what left the buffer by its capacity may be stale.
KeptOnTipChain ==
  buffer # <<>> =>
    LET tip == Last(buffer).hash IN
      kept \ trimmed \subseteq {tip} \union Ancestors(tip)

\* Where the fork point is still buffered, a reorg reverts no ancestor of the
\* new head.
NoAncestorReverted ==
  [][LET tip == Last(buffer') IN
       buffer' # buffer /\ (\E i \in DOMAIN buffer : buffer[i].hash = tip.parent)
         => (kept \ kept') \intersect Ancestors(tip.hash) = {}]_vars

\* A request that was pending when the read pump left is not left waiting
\* ("flush all pending requests with an error so callers unblock"): whoever
\* waits is in the table of a running pump.  A request entered later is not
\* covered: it may wait for ever.
WaitersFlushed ==
  \A c \in Callers :
    caller[c] = "wait" /\ reply[c] = "none" /\ c \notin late
      => c \in waiting /\ reader = "running"

\* Once the write pump is gone, a driver that tries to subscribe ends, with
\* the final error if anyone still reads the stream.
GivesUp ==
  driver = "subscribe" /\ caller["driver"] = "idle" /\ writer = "exited"
    ~> driver = "done"

\* "The stream terminates on WS disconnect" (ethereum/rpc.rs:71): a driver
\* whose connection is lost is done in the end, unless nobody reads.
StreamTerminates == ~up /\ driver = "consume" ~> driver = "done" \/ ~reading
=============================================================================
