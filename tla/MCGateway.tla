----------------------------- MODULE MCGateway -----------------------------
(***************************************************************************)
(* Four parts of the service in one run: the pages of the event feed, the  *)
(* watchlist socket, the reports on demand, and the drain that follows the *)
(* gateway.  They meet in no state, so a behaviour is one of a single part. *)
(***************************************************************************)
EXTENDS EventPages

CONSTANTS
  Interval, Timeout, MaxDue, Watched, Cap, MaxVerdicts, MaxFilters,
  Clients, Asked, MaxAttempts,
  NumAdapters, ChannelCap, MaxYields

\* Capacities, limits and numbers of tasks are unsigned in the code; the
\* timeout is a number of seconds.
ASSUME GatewayAssumption ==
  MaxAttempts \in Nat /\ NumAdapters \in Nat /\ Cap \in Nat /\ Timeout \in Nat

VARIABLES
  part,  \* pages, watchlist, reports, drain
  conn, answers, sending, due, nextTick, sincePing, pongNewer, unanswered, pong,
  filter, filters, verdicts, pos, pushed, passedOver, told,
  token, op, call, attempt, handler, inFlight, cached, leaked,
  signalled, cancelled, adapter, yielded, channel, bridge, rx, task, main, awaited

Watch   == INSTANCE Watchlist
Reports == INSTANCE Analyze WITH Tokens <- Asked
Drain   == INSTANCE Coordinator

watchVars ==
  <<conn, answers, sending, due, nextTick, sincePing, pongNewer, unanswered, pong,
    filter, filters, verdicts, pos, pushed, passedOver, told>>
reportVars == <<token, op, call, attempt, handler, inFlight, cached, leaked>>
drainVars ==
  <<signalled, cancelled, adapter, yielded, channel, bridge, rx, task, main, awaited>>

NoWatch ==
  /\ conn = "left" /\ answers = FALSE /\ sending = "nothing"
  /\ due = 0 /\ nextTick = 1 /\ sincePing = 0
  /\ pongNewer = TRUE /\ unanswered = FALSE /\ pong = FALSE
  /\ filter = {} /\ filters = 0 /\ verdicts = <<>> /\ pos = 0
  /\ pushed = <<>> /\ passedOver = {} /\ told = 0

NoReports ==
  /\ token = <<>> /\ op = <<>> /\ call = [c \in Clients |-> "idle"]
  /\ attempt = [c \in Clients |-> 0] /\ handler = <<>>
  /\ inFlight = {} /\ cached = {} /\ leaked = {}

NoDrain ==
  /\ signalled = FALSE /\ cancelled = FALSE
  /\ adapter = [a \in Drain!Adapters |-> "gone"] /\ yielded = <<>>
  /\ channel = 0 /\ bridge = "gone" /\ rx = FALSE /\ task = <<>>
  /\ main = "serving" /\ awaited = 0

MCInit ==
  /\ Init
  /\ \/ part = "pages" /\ NoWatch /\ NoReports /\ NoDrain
     \/ part = "watchlist" /\ Watch!Init /\ NoReports /\ NoDrain
     \/ part = "reports" /\ NoWatch /\ Reports!Init /\ NoDrain
     \/ part = "drain" /\ NoWatch /\ NoReports /\ Drain!Init

mcVars == <<part, vars, watchVars, reportVars, drainVars>>

PagesStep ==
  part = "pages" /\ Next /\ UNCHANGED <<part, watchVars, reportVars, drainVars>>
WatchStep ==
  part = "watchlist" /\ Watch!Next /\ UNCHANGED <<part, vars, reportVars, drainVars>>
ReportsStep ==
  part = "reports" /\ Reports!Next /\ UNCHANGED <<part, vars, watchVars, drainVars>>
DrainStep ==
  part = "drain" /\ Drain!Next /\ UNCHANGED <<part, vars, watchVars, reportVars>>

MCNext == PagesStep \/ WatchStep \/ ReportsStep \/ DrainStep

\* The SDK's timers run, and the runtime schedules a task that can go on.
SdkFairness(c) ==
  /\ WF_mcVars(/\ part = "reports" /\ attempt[c] > 0 /\ Reports!Send(c)
               /\ UNCHANGED <<part, vars, watchVars, drainVars>>)
  /\ WF_mcVars(/\ part = "reports" /\ Reports!TimesOut(c)
               /\ UNCHANGED <<part, vars, watchVars, drainVars>>)
TaskFairness(a) ==
  /\ WF_mcVars(/\ part = "drain" /\ ~Drain!Exited /\ Drain!SendEvent(a)
               /\ UNCHANGED <<part, vars, watchVars, reportVars>>)
  /\ WF_mcVars(/\ part = "drain" /\ ~Drain!Exited /\ Drain!AdapterLeaves(a)
               /\ UNCHANGED <<part, vars, watchVars, reportVars>>)
BridgeFairness ==
  WF_mcVars(/\ part = "drain" /\ ~Drain!Exited /\ Drain!BridgeLeaves
            /\ UNCHANGED <<part, vars, watchVars, reportVars>>)

MCSpec ==
  /\ MCInit /\ [][MCNext]_mcVars
  /\ \A c \in Clients : SdkFairness(c)
  /\ \A a \in 1..NumAdapters : TaskFairness(a)
  /\ BridgeFairness

\* Watchlist: a client that answers every ping is not closed as idle.
AnsweringClientKept == part = "watchlist" => Watch!AnsweringClientKept

\* Watchlist: every verdict was pushed in order, filtered, or told as lost.
VerdictsAccounted == part = "watchlist" => Watch!VerdictsAccounted

\* Analyze: a token's detectors run once at a time, and only a handler dropped
\* while it ran leaves its key in the set.
InFlightExact == part = "reports" => Reports!InFlightExact

\* Analyze: a call of the SDK ends after max_attempts attempts at most.
CallsEnd ==
  \A c \in Clients : (call[c] = "waiting") ~> (call[c] \in {"ok", "failed"})

\* Coordinator: main reports a complete drain only when every task it awaits,
\* in the middle of a send or of a batch or not, has ended.
DrainHonest == part = "drain" => Drain!DrainHonest

\* Coordinator: once the token is cancelled every adapter task ends, one that
\* waits for room in a full channel included, unless the process ends first.
AdaptersJoin ==
  (part = "drain" /\ cancelled) ~>
    (Drain!Exited \/ \A a \in Drain!Adapters : adapter[a] = "gone")
=============================================================================
