----------------------------- MODULE WsStream -----------------------------
(***************************************************************************)
(* One connection of GET /v1/ws/stream: handle_ws_connection in            *)
(* crates/gateway/src/ws/mod.rs.  A single task selects between the        *)
(* client's messages, the poll of anomaly_events and its own send buffer   *)
(* (an mpsc channel it both fills and drains).  While it works through a   *)
(* fetched page or a replay, or waits for the socket, it selects nothing.  *)
(* The heartbeat branch is the subject of module Watchlist.                *)
(***************************************************************************)
EXTENDS AnomalyEvents

CONSTANTS
  Limit,       \* rows a poll fetches at most (100)
  ReplayLimit, \* rows a replay fetches at most (500)
  Capacity,    \* send_buffer_capacity
  Threshold    \* lag_notice_threshold

VARIABLES
  at,        \* what the task is doing: select, page, replay, closed
  on,        \* subscription is Some
  want,      \* sub.tokens; {} is "all"
  lastId,    \* last_event_id
  work,      \* fetched rows not yet handled
  buffer,    \* the send buffer
  dropped,   \* dropped_count
  socket,    \* the frame last put on the socket
  unreported \* history: events dropped since the last lag notice

conn == <<at, on, want, lastId, work, buffer, dropped, socket>>
hist == <<unreported>>
vars == <<events, conn, hist>>

Frame(type, id) == [type |-> type, id |-> id]
NoFrame == Frame("none", 0)

\* The state of a connection just upgraded.
Fresh ==
  /\ at = "select" /\ on = FALSE /\ want = {} /\ lastId = 0 /\ work = <<>>
  /\ buffer = <<>> /\ dropped = 0 /\ socket = NoFrame
  /\ unreported = 0

Init == events = {} /\ Fresh

Insert ==
  /\ \E oat \in 1..MaxTime, token \in Tokens : InsertEvent(oat, token)
  /\ UNCHANGED <<conn, hist>>

(***************************************************************************)
(* Client messages.                                                        *)
(***************************************************************************)
\* subscribe without resume_from, or with one whose fetch fails.
Subscribe(tokens) ==
  /\ at = "select"
  /\ on' = TRUE /\ want' = tokens
  /\ socket' = Frame("subscribed", 0)
  /\ UNCHANGED <<events, at, lastId, work, buffer, dropped, hist>>

\* A resume_from that is no number: the notice, then the acknowledgement.
SubscribeUnparsable(tokens) ==
  /\ at = "select"
  /\ on' = TRUE /\ want' = tokens
  /\ socket' = Frame("replay_truncated", 0)
  /\ at' = "replay"
  /\ UNCHANGED <<events, lastId, work, buffer, dropped, hist>>

\* resume_from an id: fetched without a cursor time, from the lookback on.
SubscribeResuming(tokens, id, lookback) ==
  /\ at = "select"
  /\ on' = TRUE /\ want' = tokens
  /\ work' = Fetch(lookback, [NoCursor EXCEPT !.id = id], ReplayLimit)
  /\ at' = "replay"
  /\ UNCHANGED <<events, lastId, buffer, dropped, socket, hist>>

ReplayRow ==
  /\ at = "replay" /\ work # <<>>
  /\ lastId' = Head(work).id
  /\ socket' = Frame("replay", Head(work).id)
  /\ work' = Tail(work)
  /\ UNCHANGED <<events, at, on, want, buffer, dropped, hist>>

ReplayDone ==
  /\ at = "replay" /\ work = <<>>
  /\ at' = "select"
  /\ socket' = Frame("subscribed", 0)
  /\ UNCHANGED <<events, on, want, lastId, work, buffer, dropped, hist>>

\* The buffer keeps what was queued for the old subscription.
Unsubscribe ==
  /\ at = "select"
  /\ on' = FALSE /\ want' = {}
  /\ socket' = Frame("unsubscribed", 0)
  /\ UNCHANGED <<events, at, lastId, work, buffer, dropped, hist>>

(***************************************************************************)
(* The poll, the loop over its page, and the send buffer.                  *)
(***************************************************************************)
\* The newest rows, handled oldest first.  cursor_oat is None.
Poll ==
  /\ at = "select" /\ on
  /\ work' = Reverse(Fetch(0, [NoCursor EXCEPT !.id = lastId], Limit))
  /\ at' = "page"
  /\ UNCHANGED <<events, on, want, lastId, buffer, dropped, socket, hist>>

Wanted(r) == want = {} \/ r.token \in want

SkipRow ==
  /\ at = "page" /\ work # <<>> /\ ~Wanted(Head(work))
  /\ work' = Tail(work)
  /\ UNCHANGED <<events, at, on, want, lastId, buffer, dropped, socket, hist>>

\* Taking a wanted row, whatever becomes of its frame.
TakeRow ==
  /\ at = "page" /\ work # <<>> /\ Wanted(Head(work))
  /\ work' = Tail(work)
  /\ lastId' = IF Head(work).id > lastId THEN Head(work).id ELSE lastId
  /\ UNCHANGED <<events, at, on, want>>

QueueRow ==
  /\ TakeRow
  /\ Len(buffer) < Capacity
  /\ buffer' = Append(buffer, Head(work))
  /\ UNCHANGED <<dropped, socket, unreported>>

\* Altered RefuseRow: the notice does not reset the count.
RefuseRowKeeping ==
  /\ TakeRow
  /\ Len(buffer) = Capacity
  /\ IF dropped + 1 >= Threshold
     THEN /\ socket' = Frame("lag_notice", dropped + 1)
          /\ unreported' = 0
          /\ UNCHANGED dropped
     ELSE /\ dropped' = dropped + 1
          /\ unreported' = unreported + 1
          /\ UNCHANGED socket
  /\ UNCHANGED buffer

\* try_send is Full: the row just fetched is dropped; every Threshold-th one
\* is reported.
RefuseRow ==
  /\ TakeRow
  /\ Len(buffer) = Capacity
  /\ IF dropped + 1 >= Threshold
     THEN /\ socket' = Frame("lag_notice", dropped + 1)
          /\ unreported' = 0 /\ dropped' = 0
     ELSE /\ dropped' = dropped + 1
          /\ unreported' = unreported + 1
          /\ UNCHANGED socket
  /\ UNCHANGED buffer

PageDone ==
  /\ at = "page" /\ work = <<>>
  /\ at' = "select"
  /\ UNCHANGED <<events, on, want, lastId, work, buffer, dropped, socket, hist>>

\* Altered SendQueued: nothing is sent without a subscription.
SendQueuedSubscribed ==
  /\ at = "select" /\ on /\ buffer # <<>>
  /\ socket' = Frame("event", Head(buffer).id)
  /\ buffer' = Tail(buffer)
  /\ UNCHANGED <<events, at, on, want, lastId, work, dropped, hist>>

\* rx.recv: the oldest frame of the buffer goes to the socket.
SendQueued ==
  /\ at = "select" /\ buffer # <<>>
  /\ socket' = Frame("event", Head(buffer).id)
  /\ buffer' = Tail(buffer)
  /\ UNCHANGED <<events, at, on, want, lastId, work, dropped, hist>>

\* The client closes, a send fails or the server goes down: the task ends.
Close ==
  /\ at # "closed"
  /\ at' = "closed" /\ on' = FALSE /\ want' = {} /\ lastId' = 0
  /\ work' = <<>> /\ buffer' = <<>> /\ dropped' = 0 /\ socket' = NoFrame
  /\ unreported' = 0
  /\ UNCHANGED events

Reopen ==
  /\ at = "closed"
  /\ at' = "select"
  /\ UNCHANGED <<events, on, want, lastId, work, buffer, dropped, socket, hist>>

ClientMessage ==
  \/ \E tokens \in SUBSET Tokens :
       \/ Subscribe(tokens) \/ SubscribeUnparsable(tokens)
       \/ \E id \in Id, lookback \in 1..MaxTime + 1 :
            SubscribeResuming(tokens, id, lookback)
  \/ Unsubscribe

Work == ReplayRow \/ ReplayDone \/ SkipRow \/ QueueRow \/ RefuseRow \/ PageDone

Next == Insert \/ ClientMessage \/ Poll \/ Work \/ SendQueued \/ Close \/ Reopen

Spec == Init /\ [][Next]_vars

\* The loop over a page ends, and the select, which picks among its ready
\* branches at random, never passes over one of them for ever.
FairSpec == Spec /\ WF_vars(Work) /\ SF_vars(SendQueued) /\ SF_vars(Poll)

(***************************************************************************)
(* Properties.                                                             *)
(***************************************************************************)
\* However drops and notices fall over several polls, the count a notice is
\* about to carry is that of the events "dropped since last lag_notice"
\* (openapi.yaml:1717): no drop is reported twice or forgotten.
DropsAccounted == dropped = unreported

\* Whatever is queued when the client unsubscribes still reaches the socket,
\* unless the connection ends: the branch that drains the task's own buffer
\* does not depend on the others.
QueueDrains == ~on /\ buffer # <<>> ~> on \/ buffer = <<>>
=============================================================================
