---------------------------- MODULE SolanaStream ----------------------------
(***************************************************************************)
(* The live Solana stream: the task build_subscribe_stream spawns          *)
(* (crates/chain-adapter/src/solana/subscribe.rs), the subscriptions it    *)
(* opens through the JSON-RPC client (jsonrpc/mod.rs), and its consumer.   *)
(*                                                                         *)
(* Subscription i is the i-th of the filter: a program's logs, or, for i   *)
(* in Owners, an owner's accounts.  A notification is a slot and whether   *)
(* the transaction in it succeeded.                                        *)
(***************************************************************************)
EXTENDS Naturals, Sequences, SequencesExt

CONSTANTS
  Subs,         \* number of subscriptions of the filter
  Owners,       \* those opened with programSubscribe
  SubCap,       \* capacity of a subscription's channel (64)
  StreamCap,    \* capacity of the stream (1024)
  MaxAttempts,  \* reconnect.max_attempts; 0, no limit, is left out
  MaxNotes      \* bound: notifications of the node

VARIABLES
  pc,        \* connect, subscribe, asking, drain, send, backoff, report, done
  errors,    \* consecutive_errors
  next,      \* the subscription being opened, or the receiver being drained
  late,      \* the request was made after the read pump had left
  live,      \* the receivers fan_in_notifications has not found closed
  item,      \* the slot being sent, with its subscription
  up,        \* the WebSocket connection
  accepted,  \* subscriptions the node serves on it
  queue,     \* subscription -> what waits in its channel
  stream,    \* the stream: slots, and the final error 0
  reading,   \* the consumer holds the stream
  notes,     \* notifications so far
  slot,      \* the node's latest slot
  heard,     \* history: what entered the channel on this connection
  sent       \* history: slots sent for each subscription on it

task == <<pc, errors, next, late, live, item>>
socket == <<up, accepted>>
node == <<notes, slot>>
history == <<heard, sent>>
vars == <<task, socket, queue, stream, reading, node, history>>

Sub  == 1..Subs
Note == [slot : 1..MaxNotes + 1, ok : BOOLEAN]
Nothing == [i \in Sub |-> <<>>]

\* decode_logs_notification: a successful transaction finalizes its slot.
\* Altered Yields: the err field is not looked at.
YieldsAlways(i, n) == i \notin Owners
Yields(i, n) == i \notin Owners /\ n.ok

\* The slots s are what the notifications q yield, in their order: f[k] is the
\* place of the k-th that yields one.
Yielded(i, q, s) ==
  \E f \in [DOMAIN s -> DOMAIN q] :
    /\ \A j, k \in DOMAIN s : j < k => f[j] < f[k]
    /\ \A m \in DOMAIN q : Yields(i, q[m]) <=> \E k \in DOMAIN s : f[k] = m
    /\ \A k \in DOMAIN s : s[k] = q[f[k]].slot

Init ==
  /\ pc = "connect" /\ errors = 0 /\ next = 1 /\ late = FALSE /\ live = {}
  /\ item = [of |-> 0, slot |-> 0]
  /\ up = FALSE /\ accepted = {}
  /\ queue = Nothing /\ stream = <<>> /\ reading = TRUE
  /\ notes = 0 /\ slot = 1
  /\ heard = Nothing /\ sent = Nothing

(***************************************************************************)
(* The environment.                                                        *)
(***************************************************************************)
\* The node notifies; the read pump puts what it says into the channel, drops
\* it when the channel is full, and knows no channel yet for a subscription
\* the node has accepted but the task has not registered.
Notify ==
  /\ up /\ notes < MaxNotes
  /\ \E i \in accepted, s \in {slot, slot + 1}, ok \in BOOLEAN :
       LET n == [slot |-> s, ok |-> ok] IN
       /\ slot' = s
       /\ IF i \in live /\ Len(queue[i]) < SubCap
          THEN /\ queue' = [queue EXCEPT ![i] = Append(@, n)]
               /\ heard' = [heard EXCEPT ![i] =
                              IF i \notin Owners /\ ok THEN Append(@, s) ELSE @]
          ELSE UNCHANGED <<queue, heard>>
  /\ notes' = notes + 1
  /\ UNCHANGED <<task, socket, stream, reading, sent>>

\* The connection is lost and the read pump leaves.  What it fed stays: the
\* senders in subs live as long as the client, which the task holds.
Disconnect ==
  /\ up
  /\ up' = FALSE
  /\ UNCHANGED <<task, accepted, queue, stream, reading, node, history>>

NodeAccepts ==
  /\ up /\ pc = "asking" /\ ~late
  /\ accepted' = accepted \union {next}
  /\ UNCHANGED <<task, up, queue, stream, reading, node, history>>

Consume ==
  /\ reading /\ stream # <<>>
  /\ stream' = Tail(stream)
  /\ UNCHANGED <<task, socket, queue, reading, node, history>>

DropStream ==
  /\ reading
  /\ reading' = FALSE /\ stream' = <<>>
  /\ UNCHANGED <<task, socket, queue, node, history>>

(***************************************************************************)
(* The task.                                                               *)
(***************************************************************************)
\* connect_and_stream has returned, with Ok or a transport error.
\* Altered Ended: an end without error is not counted.
EndedUncounted ==
  /\ errors' = IF live = {} /\ pc # "connect" THEN errors ELSE errors + 1
  /\ pc' = IF errors' >= MaxAttempts THEN "report" ELSE "backoff"

Ended ==
  /\ errors' = errors + 1
  /\ pc' = IF errors' >= MaxAttempts THEN "report" ELSE "backoff"

Backoff ==
  /\ pc = "backoff"
  /\ pc' = "connect"
  /\ UNCHANGED <<errors, next, late, live, item, socket, queue, stream, reading,
                 node, history>>

\* AdapterError::StreamEnded, then the sender is dropped.
Report ==
  /\ pc = "report"
  /\ Len(stream) < StreamCap
  /\ pc' = "done"
  /\ stream' = IF reading THEN Append(stream, 0) ELSE stream
  /\ UNCHANGED <<errors, next, late, live, item, socket, queue, reading, node,
                 history>>

ConnectFails ==
  /\ pc = "connect"
  /\ Ended
  /\ UNCHANGED <<next, late, live, item, socket, queue, stream, reading, node,
                 history>>

Connect ==
  /\ pc = "connect"
  /\ pc' = "subscribe" /\ next' = 1 /\ live' = {}
  /\ up' = TRUE /\ accepted' = {} /\ queue' = Nothing
  /\ heard' = Nothing /\ sent' = Nothing
  /\ UNCHANGED <<errors, late, item, stream, reading, node>>

Ask ==
  /\ pc = "subscribe" /\ next <= Subs
  /\ pc' = "asking" /\ late' = ~up
  /\ UNCHANGED <<errors, next, live, item, socket, queue, stream, reading, node,
                 history>>

Subscribed ==
  /\ pc = "asking" /\ next \in accepted
  /\ pc' = "subscribe" /\ next' = next + 1 /\ live' = live \union {next}
  /\ UNCHANGED <<errors, late, item, socket, queue, stream, reading, node, history>>

\* The node refuses, or the read pump flushes the request when it leaves.
SubscribeFails ==
  /\ pc = "asking" /\ ~late /\ (next \notin accepted \/ ~up)
  /\ pc' = "subscribe" /\ next' = next + 1
  /\ UNCHANGED <<errors, late, live, item, socket, queue, stream, reading, node,
                 history>>

\* A request made after the read pump left is refused only if the write pump
\* has left as well; otherwise nobody answers it.
SubscribeFailsLate ==
  /\ pc = "asking" /\ late
  /\ pc' = "subscribe" /\ next' = next + 1
  /\ UNCHANGED <<errors, late, live, item, socket, queue, stream, reading, node,
                 history>>

\* No subscription could be opened, or all receivers are closed.
NothingToDrain ==
  /\ pc = "subscribe" /\ next > Subs /\ live = {}
  /\ Ended
  /\ UNCHANGED <<next, late, live, item, socket, queue, stream, reading, node,
                 history>>

StartDraining ==
  /\ pc = "subscribe" /\ next > Subs /\ live # {}
  /\ pc' = "drain" /\ next' = 1
  /\ UNCHANGED <<errors, late, live, item, socket, queue, stream, reading, node,
                 history>>

\* try_recv: Ok.
TakeNote ==
  /\ pc = "drain" /\ next \in live /\ queue[next] # <<>>
  /\ queue' = [queue EXCEPT ![next] = Tail(@)]
  /\ LET n == Head(queue[next]) IN
     IF Yields(next, n)
     THEN pc' = "send" /\ item' = [of |-> next, slot |-> n.slot]
     ELSE UNCHANGED <<pc, item>>
  /\ UNCHANGED <<errors, next, late, live, socket, stream, reading, node, history>>

\* Altered NextReceiver: the round stops one receiver short.
NextReceiverShort ==
  /\ pc = "drain"
  /\ IF next \in live THEN queue[next] = <<>> ELSE TRUE
  /\ next' = (next % (Subs - 1)) + 1
  /\ UNCHANGED <<pc, errors, late, live, item, socket, queue, stream, reading,
                 node, history>>

\* try_recv: Empty, or the receiver is in `closed'; after the last one the
\* round starts again.  Disconnected needs a dropped sender, which the client
\* held here rules out.
NextReceiver ==
  /\ pc = "drain"
  /\ IF next \in live THEN queue[next] = <<>> ELSE TRUE
  /\ next' = (next % Subs) + 1
  /\ UNCHANGED <<pc, errors, late, live, item, socket, queue, stream, reading,
                 node, history>>

SendSlot ==
  /\ pc = "send" /\ reading /\ Len(stream) < StreamCap
  /\ pc' = "drain"
  /\ stream' = Append(stream, item.slot)
  /\ sent' = [sent EXCEPT ![item.of] = Append(@, item.slot)]
  /\ UNCHANGED <<errors, next, late, live, item, socket, queue, reading, node,
                 heard>>

SendRefused ==
  /\ pc = "send" /\ ~reading
  /\ Ended
  /\ UNCHANGED <<next, late, live, item, socket, queue, stream, reading, node,
                 history>>

Task ==
  \/ Backoff \/ Report \/ ConnectFails \/ Connect \/ Ask \/ Subscribed
  \/ SubscribeFails \/ NothingToDrain \/ StartDraining
  \/ TakeNote \/ NextReceiver \/ SendSlot \/ SendRefused

Next ==
  \/ Notify \/ Disconnect \/ NodeAccepts \/ Consume \/ DropStream
  \/ SubscribeFailsLate \/ Task

Spec == Init /\ [][Next]_vars
FairSpec == Spec /\ WF_vars(Task) /\ WF_vars(Consume)

(***************************************************************************)
(* Properties.                                                             *)
(***************************************************************************)
Streaming == pc \in {"drain", "send"}

\* fan_in_notifications takes the channels in turns and awaits in the middle
\* of one: what a subscription's channel accepted of successful transactions
\* has been sent, is being sent, or still waits there, in that order, whatever
\* the turns of the others.
FanInKeeps ==
  Streaming =>
    \A i \in Sub :
      LET done == sent[i] \o (IF pc = "send" /\ item.of = i THEN <<item.slot>>
                                                            ELSE <<>>)
          rest == SubSeq(heard[i], Len(done) + 1, Len(heard[i]))
      IN  heard[i] = done \o rest /\ Yielded(i, queue[i], rest)

\* A busy receiver is drained to the end before the next one is looked at;
\* with the consumer reading, no receiver waits for ever.
ChannelsDrain ==
  \A i \in Sub :
    (Streaming /\ queue[i] # <<>>)
      ~> (queue[i] = <<>> \/ ~Streaming \/ ~reading)

\* The budget of errors (reconnect.max_attempts) is spent by every end of
\* connect_and_stream, also by one in which no subscription could be opened:
\* a task that backs off streams again, ends, or waits for an answer of a
\* connection that was lost under it.
BackoffEnds ==
  (pc = "backoff") ~> (Streaming \/ pc = "done" \/ (pc = "asking" /\ late))
=============================================================================
