----------------------------- MODULE Watchlist -----------------------------
(***************************************************************************)
(* One connection of GET /v1/watchlist: the broadcast channel the          *)
(* coordinator sends every verdict to (crates/indexer/src/coordinator.rs), *)
(* and handle_watchlist_connection (crates/gateway/src/ws/watchlist.rs),   *)
(* whose biased select looks at the client's messages, then at the         *)
(* verdicts, then at the heartbeat.  Each of the three may await the       *)
(* socket for as long as it takes, while verdicts and ticks pile up.       *)
(*                                                                         *)
(* Time is in units of which Interval makes a heartbeat.                   *)
(***************************************************************************)
EXTENDS Naturals, Sequences, FiniteSets

CONSTANTS
  Interval,     \* HEARTBEAT_INTERVAL_SECS (30)
  Timeout,      \* PONG_TIMEOUT_SECS (60)
  MaxDue,       \* bound: piled-up ticks are counted up to it
  Watched,      \* tokens
  Cap,          \* VERDICT_BROADCAST_CAP (256)
  MaxVerdicts,  \* bound: verdicts of the coordinator
  MaxFilters    \* bound: filter messages of the client

VARIABLES
  conn,       \* the connection: open, left by the client, or closed as idle
  answers,    \* environment: the client answers every ping at once
  sending,    \* the frame whose send is awaited, if any: verdict, notice, ping
  due,        \* ticks of the interval that are due
  nextTick,   \* time to the next one
  sincePing,  \* last_ping.elapsed(), counted up to Timeout + 1
  pongNewer,  \* last_pong >= last_ping
  unanswered, \* a ping is on its way to the client
  pong,       \* a pong waits in the socket
  filter,     \* filter.tokens, empty for all
  filters,    \* filter messages so far
  verdicts,   \* the tokens of all verdicts broadcast since Ready
  pos,        \* verdict_rx: verdicts received or lost
  pushed,     \* history: the verdicts sent to the client, by number
  passedOver, \* history: the verdicts the filter kept back
  told        \* history: the sum of the lag notices

clock == <<due, nextTick, sincePing>>
ponging == <<pongNewer, unanswered, pong>>
filtering == <<filter, filters>>
history == <<pushed, passedOver, told>>
vars == <<conn, answers, sending, clock, ponging, filtering, verdicts, pos,
          history>>

Init ==
  /\ conn = "open" /\ answers \in BOOLEAN /\ sending = "nothing"
  /\ due = 1 /\ nextTick = Interval /\ sincePing = 0
  /\ pongNewer = TRUE /\ unanswered = FALSE /\ pong = FALSE
  /\ filter = {} /\ filters = 0
  /\ verdicts = <<>> /\ pos = 0
  /\ pushed = <<>> /\ passedOver = {} /\ told = 0

(***************************************************************************)
(* The environment.                                                        *)
(***************************************************************************)
\* The end of trigger_evaluate, with a cached or a fresh verdict.
Broadcast ==
  /\ conn = "open" /\ Len(verdicts) < MaxVerdicts
  /\ \E t \in Watched : verdicts' = Append(verdicts, t)
  /\ UNCHANGED <<conn, answers, sending, clock, ponging, filtering, pos,
                 history>>

\* The client answers at once: before time goes on, and also before the send
\* of the ping has returned.
Answer ==
  /\ conn = "open" /\ answers /\ unanswered
  /\ pong' = TRUE /\ unanswered' = FALSE
  /\ UNCHANGED <<conn, answers, sending, clock, pongNewer, filtering, verdicts,
                 pos, history>>

Selects == conn = "open" /\ sending = "nothing"
Waiting == pos < Len(verdicts)

\* A task that is not held up handles what is ready before time goes on.
\* Ticks that were missed come all at once (MissedTickBehavior::Burst).
TimePasses ==
  /\ conn = "open"
  /\ Selects => due = 0 /\ ~pong /\ ~Waiting
  /\ ~(answers /\ unanswered)
  /\ sincePing' = IF sincePing > Timeout THEN sincePing ELSE sincePing + 1
  /\ IF nextTick = 1
     THEN /\ due' = IF due < MaxDue THEN due + 1 ELSE due
          /\ nextTick' = Interval
     ELSE nextTick' = nextTick - 1 /\ UNCHANGED due
  /\ UNCHANGED <<conn, answers, sending, ponging, filtering, verdicts, pos,
                 history>>

(***************************************************************************)
(* The client's messages.                                                  *)
(***************************************************************************)
ReadPong ==
  /\ Selects /\ pong
  /\ pong' = FALSE /\ pongNewer' = TRUE
  /\ UNCHANGED <<conn, answers, sending, clock, unanswered, filtering,
                 verdicts,
                 pos, history>>

ReadFilter ==
  /\ Selects /\ filters < MaxFilters
  /\ filter' \in SUBSET Watched /\ filters' = filters + 1
  /\ UNCHANGED <<conn, answers, sending, clock, ponging, verdicts, pos,
                 history>>

\* unsubscribe, a close frame, the end of the socket, or a send that fails.
Leave ==
  /\ conn = "open"
  /\ conn' = "left"
  /\ UNCHANGED <<answers, sending, clock, ponging, filtering, verdicts, pos,
                 history>>

(***************************************************************************)
(* The verdicts.                                                           *)
(***************************************************************************)
Receives == Selects /\ ~pong /\ Waiting
Lost     == Len(verdicts) - pos - Cap

Matches(n) == filter = {} \/ verdicts[n] \in filter

Push ==
  /\ Receives /\ Lost <= 0 /\ Matches(pos + 1)
  /\ pos' = pos + 1 /\ pushed' = Append(pushed, pos + 1)
  /\ sending' = "verdict"
  /\ UNCHANGED <<conn, answers, clock, ponging, filtering, verdicts,
                 passedOver,
                 told>>

PassOver ==
  /\ Receives /\ Lost <= 0 /\ ~Matches(pos + 1)
  /\ pos' = pos + 1 /\ passedOver' = passedOver \union {pos + 1}
  /\ UNCHANGED <<conn, answers, sending, clock, ponging, filtering, verdicts,
                 pushed, told>>

\* Altered Lagged: the loss is logged and the client is not told.
LaggedLogged ==
  /\ Receives /\ Lost > 0
  /\ pos' = pos + Lost
  /\ UNCHANGED <<conn, answers, sending, clock, ponging, filtering, verdicts,
                 history>>

\* RecvError::Lagged(missed): the channel keeps the newest Cap verdicts.
Lagged ==
  /\ Receives /\ Lost > 0
  /\ pos' = pos + Lost /\ told' = told + Lost /\ sending' = "notice"
  /\ UNCHANGED <<conn, answers, clock, ponging, filtering, verdicts, pushed,
                 passedOver>>

(***************************************************************************)
(* The heartbeat.                                                          *)
(***************************************************************************)
Beats == Selects /\ ~pong /\ ~Waiting /\ due > 0

\* Altered PongTimeout: only the age of the ping counts.
PongTimeoutByAge ==
  /\ Beats
  /\ sincePing > Timeout
  /\ conn' = "idle"
  /\ UNCHANGED <<answers, sending, clock, ponging, filtering, verdicts, pos,
                 history>>

\* closing, idle_timeout.
PongTimeout ==
  /\ Beats
  /\ sincePing > Timeout /\ ~pongNewer
  /\ conn' = "idle"
  /\ UNCHANGED <<answers, sending, clock, ponging, filtering, verdicts, pos,
                 history>>

Ping ==
  /\ Beats
  /\ ~(sincePing > Timeout /\ ~pongNewer)
  /\ due' = due - 1 /\ sending' = "ping" /\ unanswered' = TRUE
  /\ UNCHANGED <<conn, answers, nextTick, sincePing, pongNewer, pong,
                 filtering,
                 verdicts, pos, history>>

\* last_ping is the time at which the send of the ping has returned.
PingSent ==
  /\ conn = "open" /\ sending = "ping"
  /\ sending' = "nothing" /\ sincePing' = 0 /\ pongNewer' = FALSE
  /\ UNCHANGED <<conn, answers, due, nextTick, unanswered, pong, filtering,
                 verdicts, pos, history>>

Sent ==
  /\ conn = "open" /\ sending \in {"verdict", "notice"}
  /\ sending' = "nothing"
  /\ UNCHANGED <<conn, answers, clock, ponging, filtering, verdicts, pos,
                 history>>

Next ==
  \/ Broadcast \/ Answer \/ TimePasses \/ ReadPong \/ ReadFilter \/ Leave
  \/ Push \/ PassOver \/ Lagged \/ PongTimeout \/ Ping \/ PingSent \/ Sent

Spec == Init /\ [][Next]_vars

(***************************************************************************)
(* Properties.                                                             *)
(***************************************************************************)
\* A client that answers every ping is not closed as idle, however long the
\* sends to it take while its pongs wait unread (config.rs:211 "Client must
\* pong within N seconds or be disconnected").  It is the order of the biased
\* select that keeps this: ws/mod.rs, which picks at random, does not.
AnsweringClientKept == answers => conn # "idle"

\* Best-effort push (coordinator.rs, subscribe_verdicts): of the verdicts
\* behind the receiver each was pushed, in order, or kept back by the filter,
\* or is counted in a lag notice, however far the channel laps a slow client.
VerdictsAccounted ==
  /\ \A i, j \in 1..Len(pushed) : i < j => pushed[i] < pushed[j]
  /\ \A i \in 1..Len(pushed) : pushed[i] <= pos /\ pushed[i] \notin passedOver
  /\ Len(pushed) + Cardinality(passedOver) + told = pos
=============================================================================
