----------------------------- MODULE SdkStream -----------------------------
(***************************************************************************)
(* AnomalyStream of the client SDK (crates/client-sdk/src/ws.rs): the      *)
(* background task ws_connection_loop, its bounded channel and the         *)
(* consumer that reads it.  The server is an environment that accepts or   *)
(* refuses connections, sends frames of every type and breaks off at will; *)
(* time is the choice of a time-out firing.                                *)
(***************************************************************************)
EXTENDS Naturals, Sequences

CONSTANTS
  MaxReconnects,  \* max_reconnect_attempts
  ChannelSize,    \* capacity of the channel to the consumer (128)
  Ids             \* event ids, without 0

VARIABLES
  pc,        \* top, backoff, connect, subscribe, read, send, done
  next,      \* where the task goes after the send it is blocked in
  item,      \* the item of that send
  count,     \* reconnect_count
  lastSeen,  \* last_event_id, 0 for None
  channel,   \* the channel to the consumer
  consumer,  \* the AnomalyStream has not been dropped
  taken,     \* history: the item the consumer read last
  made       \* history: connections established

task == <<pc, next, item, count, lastSeen>>
hist == <<made>>
vars == <<task, channel, consumer, taken, hist>>


\* An item remembers how many connections had been made when it was sent.
Item(kind) == [kind |-> kind, conn |-> made]
NoItem == [kind |-> "none", conn |-> 0]

Init ==
  /\ pc = "top" /\ next = "top" /\ item = NoItem /\ count = 0
  /\ lastSeen = 0 /\ channel = <<>> /\ consumer = TRUE /\ taken = NoItem
  /\ made = 0

\* The task enters tx.send(i).await and goes on at p when it returns Ok.
SendThen(i, p) == pc' = "send" /\ item' = i /\ next' = p

(***************************************************************************)
(* The outer loop.                                                         *)
(***************************************************************************)
\* The limit, then the backoff; the first connect has neither.
Top ==
  /\ pc = "top"
  /\ IF count = 0
     THEN pc' = "connect" /\ UNCHANGED <<next, item>>
     ELSE IF count > MaxReconnects
     THEN SendThen(Item("error"), "done")
     ELSE pc' = "backoff" /\ UNCHANGED <<next, item>>
  /\ UNCHANGED <<count, lastSeen, channel, consumer, taken, hist>>

\* Altered Backoff: the consumer is not told.
BackoffSilent ==
  /\ pc = "backoff"
  /\ pc' = "connect"
  /\ UNCHANGED <<next, item, count, lastSeen, channel, consumer, taken, hist>>

\* The sleep is over: Reconnected is sent, then the connection is tried.
Backoff ==
  /\ pc = "backoff"
  /\ SendThen(Item("reconnected"), "connect")
  /\ UNCHANGED <<count, lastSeen, channel, consumer, taken, hist>>

\* The connection is lost or was never made.
Failed == pc' = "top" /\ count' = count + 1

ConnectFails ==
  /\ pc = "connect"
  /\ Failed
  /\ UNCHANGED <<next, item, lastSeen, channel, consumer, taken, hist>>

Connect ==
  /\ pc = "connect"
  /\ pc' = "subscribe"
  /\ made' = made + 1
  /\ UNCHANGED <<next, item, count, lastSeen, channel, consumer, taken>>

SubscribeFails ==
  /\ pc = "subscribe"
  /\ Failed
  /\ UNCHANGED <<next, item, lastSeen, channel, consumer, taken, hist>>

Subscribe ==
  /\ pc = "subscribe"
  /\ pc' = "read"
  /\ UNCHANGED <<next, item, count, lastSeen, channel, consumer, taken, hist>>

(***************************************************************************)
(* The inner loop: one frame of the server.                                *)
(***************************************************************************)
\* event["id"].as_str() of a frame of the gateway, which writes the id as the
\* number "_id" (AnomalyEventRow::to_json_value): None.
IdString(id) == 0

EventFrame(id) ==
  /\ pc = "read"
  /\ lastSeen' = IF IdString(id) # 0 THEN IdString(id) ELSE lastSeen
  /\ SendThen(Item("anomaly"), "read")
  /\ UNCHANGED <<count, channel, consumer, taken, hist>>

\* "report" and "lag_notice" frames.
NoteFrame(kind) ==
  /\ pc = "read"
  /\ SendThen(Item(kind), "read")
  /\ UNCHANGED <<count, lastSeen, channel, consumer, taken, hist>>

ReplayTruncated ==
  /\ pc = "read"
  /\ lastSeen' = 0
  /\ SendThen(Item("resume_failed"), "read")
  /\ UNCHANGED <<count, channel, consumer, taken, hist>>

\* "closing", a close frame, an error, the end of the stream, or no ping for
\* HEARTBEAT_TIMEOUT.  ("subscribed", "replay", pings and frames that do not
\* parse change nothing but the time of the last ping.)
Disconnect ==
  /\ pc = "read"
  /\ Failed
  /\ UNCHANGED <<next, item, lastSeen, channel, consumer, taken, hist>>

(***************************************************************************)
(* The channel.                                                            *)
(***************************************************************************)
SendItem ==
  /\ pc = "send" /\ consumer /\ Len(channel) < ChannelSize
  /\ channel' = Append(channel, item)
  /\ pc' = next /\ item' = NoItem
  /\ UNCHANGED <<next, count, lastSeen, consumer, taken, hist>>

\* The receiver is gone: the task returns.
SendRefused ==
  /\ pc = "send" /\ ~consumer
  /\ pc' = "done" /\ item' = NoItem
  /\ UNCHANGED <<next, count, lastSeen, channel, consumer, taken, hist>>

Consume ==
  /\ consumer /\ channel # <<>>
  /\ taken' = Head(channel)
  /\ channel' = Tail(channel)
  /\ UNCHANGED <<task, consumer, hist>>

DropStream ==
  /\ consumer
  /\ consumer' = FALSE
  /\ channel' = <<>>
  /\ UNCHANGED <<task, taken, hist>>

Frames ==
  \/ \E id \in Ids : EventFrame(id)
  \/ \E kind \in {"risk", "lag"} : NoteFrame(kind)
  \/ ReplayTruncated

Reconnecting == Top \/ Backoff \/ ConnectFails \/ Connect \/ SubscribeFails
                  \/ Subscribe \/ SendItem \/ SendRefused

Next == Reconnecting \/ Frames \/ Disconnect \/ Consume \/ DropStream

Spec == Init /\ [][Next]_vars

\* The task runs, connection attempts end one way or the other, and a
\* consumer that has not dropped the stream reads it.
FairSpec == Spec /\ WF_vars(Reconnecting) /\ WF_vars(Consume)

(***************************************************************************)
(* Properties.                                                             *)
(***************************************************************************)
\* What the consumer sees next to each other: taken, the channel, and the
\* item being sent.
Seen == <<taken>> \o channel \o (IF pc = "send" THEN <<item>> ELSE <<>>)

\* Items of two connections are never adjacent for the consumer: whatever it
\* reads first from a later connection comes after a Reconnected, so that it
\* can tell where a gap may be (types.rs:343); and if it still listens when the
\* task has ended it was told why, the last item is the error.
ConsumerTold ==
  consumer =>
    /\ \A i \in 1..Len(Seen) - 1 :
         Seen[i + 1].conn > Seen[i].conn /\ Seen[i].kind # "none" =>
           "reconnected" \in {Seen[i].kind, Seen[i + 1].kind}
    /\ pc = "done" => Seen[Len(Seen)].kind = "error"

\* A task that lost its connection is reading again or has ended in the end:
\* the number of attempts is finite and the channel cannot block for ever.
ReconnectSettles == pc = "top" ~> pc \in {"read", "done"}
=============================================================================
