--------------------------- MODULE GatewayProofs ---------------------------
(***************************************************************************)
(* Safety of the gateway's parts, for every number of clients, tokens,     *)
(* attempts, verdicts, filter messages, adapters and rows, every capacity, *)
(* page size and heartbeat.                                                *)
(*                                                                         *)
(* For each part there is an inductive invariant, shown of the part's own  *)
(* specification and carried over to the composition that TLC checks.      *)
(***************************************************************************)
EXTENDS MCGateway, TLAPS, FiniteSetTheorems

(***************************************************************************)
(* Reports on demand (Analyze).                                            *)
(*                                                                         *)
(* InFlightExact is not inductive: RunOk removes a key that must not be    *)
(* that of a dropped handler as well (LeakedStay), and Send gives an       *)
(* attempt's handler its first place, which must not be running (Unmade).  *)
(***************************************************************************)
Places == {"none", "probe", "enter", "run", "rows", "store", "gone"}

ReportTypes ==
  /\ token \in [Clients -> Asked]
  /\ call \in [Clients -> {"idle", "backoff", "waiting", "ok", "failed"}]
  /\ attempt \in [Clients -> 0..MaxAttempts]
  /\ handler \in [Reports!Handlers -> Places]

\* No handler serves an attempt that has not been made.
Unmade ==
  \A h \in Reports!Handlers : h[2] > attempt[h[1]] => handler[h] = "none"

\* A key left behind by a dropped handler keeps every other one out.
LeakedStay == \A h \in Reports!Running : Reports!Token(h) \notin leaked

ReportInv == ReportTypes /\ Unmade /\ LeakedStay /\ Reports!InFlightExact

LEMMA ReportsStart == Reports!Init => ReportInv
<1> SUFFICES ASSUME Reports!Init PROVE ReportInv
  OBVIOUS
<1>1. ReportTypes
  BY GatewayAssumption DEF Reports!Init, ReportTypes, Reports!Handlers, Places
<1>2. Reports!Running = {}
  BY DEF Reports!Init, Reports!Running
<1>3. Unmade
  BY DEF Reports!Init, Unmade
<1> QED
  BY <1>1, <1>2, <1>3 DEF ReportInv, LeakedStay, Reports!InFlightExact, Reports!Init

\* A response, and an attempt given up, leave the attempts as they are.
LEMMA RespondsTypes ==
  ASSUME ReportTypes, NEW h \in Reports!Handlers, NEW s \in {"ok", "final", "retry"},
         Reports!Responds(h, s)
  PROVE  ReportTypes' /\ attempt' = attempt
<1>1. h[1] \in Clients
  BY DEF Reports!Handlers
<1>2. handler' \in [Reports!Handlers -> Places]
  BY DEF Reports!Responds, ReportTypes, Places
<1>3. /\ attempt' = attempt
      /\ \/ call' = call
         \/ \E to \in {"ok", "failed", "backoff"} : call' = [call EXCEPT ![h[1]] = to]
<2>1. CASE ~Reports!Heard(h)
  BY <2>1 DEF Reports!Responds, Reports!client
<2>2. CASE Reports!Heard(h) /\ s = "ok"
  BY <2>2 DEF Reports!Responds
<2>3. CASE Reports!Heard(h) /\ s = "final"
  BY <2>3 DEF Reports!Responds
<2>4. CASE Reports!Heard(h) /\ s = "retry"
  BY <2>4 DEF Reports!Responds, Reports!Again
<2> QED
  BY <2>1, <2>2, <2>3, <2>4
<1>4. UNCHANGED token
  BY DEF Reports!Responds, Reports!request
<1> QED
  BY <1>1, <1>2, <1>3, <1>4 DEF ReportTypes

\* Where no handler enters or leaves a run and no key comes or goes, the
\* invariant holds on.
LEMMA RunsUntouched ==
  ASSUME ReportInv, ReportTypes', Unmade',
         UNCHANGED <<token, inFlight, leaked>>,
         \A h \in Reports!Handlers : (handler'[h] = "run") <=> (handler[h] = "run")
  PROVE  ReportInv'
<1>1. Reports!Running' = Reports!Running
  BY DEF Reports!Running
<1>2. \A h \in Reports!Handlers : Reports!Token(h)' = Reports!Token(h)
  BY DEF Reports!Token
<1> QED
  BY <1>1, <1>2 DEF ReportInv, LeakedStay, Reports!InFlightExact, Reports!Running

\* The end of a run takes its key out, and no other key.
LEMMA RunEnds ==
  ASSUME ReportInv, ReportTypes', Unmade',
         NEW h \in Reports!Running,
         UNCHANGED <<token, leaked>>, inFlight' = inFlight \ {Reports!Token(h)},
         Reports!Running' = Reports!Running \ {h}
  PROVE  ReportInv'
<1>1. \A g \in Reports!Handlers : Reports!Token(g)' = Reports!Token(g)
  BY DEF Reports!Token
<1>2. Reports!Running \subseteq Reports!Handlers
  BY DEF Reports!Running
<1>3. inFlight' = {Reports!Token(g) : g \in Reports!Running'} \union leaked
  BY DEF ReportInv, LeakedStay, Reports!InFlightExact
<1> QED
  BY <1>1, <1>2, <1>3 DEF ReportInv, LeakedStay, Reports!InFlightExact

LEMMA SendKeeps ==
  ASSUME ReportInv, NEW c \in Clients, Reports!Send(c)
  PROVE  ReportInv'
<1> DEFINE h == <<c, attempt[c] + 1>>
<1>1. attempt[c] \in 0..MaxAttempts /\ attempt[c] < MaxAttempts
  BY DEF ReportInv, ReportTypes, Reports!Send
<1>2. h \in Reports!Handlers
  BY <1>1, GatewayAssumption DEF Reports!Handlers
<1>3. ReportTypes'
<2>1. attempt' \in [Clients -> 0..MaxAttempts]
  BY <1>1, GatewayAssumption DEF ReportInv, ReportTypes, Reports!Send
<2>2. handler' \in [Reports!Handlers -> Places]
  BY <1>2 DEF ReportInv, ReportTypes, Reports!Send, Places
<2> QED
  BY <2>1, <2>2 DEF ReportInv, ReportTypes, Reports!Send, Reports!request
<1>4. handler[h] = "none" /\ handler'[h] = "probe"
<2>1. h[2] > attempt[h[1]]
  BY <1>1
<2> QED
  BY <1>2, <2>1 DEF ReportInv, ReportTypes, Unmade, Reports!Send
<1>5. \A g \in Reports!Handlers : g # h => handler'[g] = handler[g]
  BY DEF ReportInv, ReportTypes, Reports!Send
<1>6. Unmade'
<2> SUFFICES ASSUME NEW g \in Reports!Handlers, g[2] > attempt'[g[1]]
             PROVE  handler'[g] = "none"
  BY DEF Unmade
<2>1. g[1] \in Clients /\ g[2] \in 1..MaxAttempts /\ g = <<g[1], g[2]>>
  BY DEF Reports!Handlers
<2>2. /\ g[1] # c => attempt'[g[1]] = attempt[g[1]]
      /\ attempt'[c] = attempt[c] + 1
  BY <2>1 DEF ReportInv, ReportTypes, Reports!Send
<2>3. attempt[g[1]] \in Nat
  BY <2>1, GatewayAssumption DEF ReportInv, ReportTypes
<2>4. g # h
  BY <1>1, <2>1, <2>2, GatewayAssumption
<2>5. g[2] > attempt[g[1]]
  BY <1>1, <2>1, <2>2, <2>3, GatewayAssumption
<2> QED
  BY <1>5, <2>4, <2>5 DEF ReportInv, Unmade
<1> QED
  BY <1>3, <1>4, <1>5, <1>6, RunsUntouched
     DEF Reports!Send, Reports!request

\* What a step of handler h does to the places of the handlers.
LEMMA PlaceTypes ==
  ASSUME ReportInv, NEW h \in Reports!Handlers, NEW p \in Places,
         handler[h] # "none", handler' = [handler EXCEPT ![h] = p],
         ReportTypes', UNCHANGED attempt
  PROVE  /\ Unmade' /\ handler'[h] = p
         /\ \A g \in Reports!Handlers : g # h => handler'[g] = handler[g]
<1>1. \A g \in Reports!Handlers :
        handler'[g] = IF g = h THEN p ELSE handler[g]
  BY DEF ReportInv, ReportTypes
<1> QED
  BY <1>1 DEF ReportInv, Unmade

LEMMA MovesTypes ==
  ASSUME ReportInv, NEW h \in Reports!Handlers, NEW p \in Places, Reports!Moves(h, p)
  PROVE  ReportTypes' /\ UNCHANGED <<token, attempt>>
  BY DEF ReportInv, ReportTypes, Reports!Moves, Reports!request, Reports!client

\* A response outside a run.
LEMMA RespondsKeeps ==
  ASSUME ReportInv, NEW h \in Reports!Handlers, NEW s \in {"ok", "final", "retry"},
         Reports!Responds(h, s), handler[h] \notin {"none", "run"},
         UNCHANGED <<inFlight, leaked>>
  PROVE  ReportInv'
<1>1. ReportTypes' /\ attempt' = attempt
  BY RespondsTypes DEF ReportInv
<1>2. handler' = [handler EXCEPT ![h] = "gone"] /\ token' = token
  BY DEF Reports!Responds, Reports!request
<1>3. /\ Unmade' /\ handler'[h] = "gone"
      /\ \A g \in Reports!Handlers : g # h => handler'[g] = handler[g]
  BY <1>1, <1>2, PlaceTypes DEF Places
<1> QED
  BY <1>1, <1>2, <1>3, RunsUntouched

\* A step between two awaits of which neither is the run.
LEMMA MovesKeeps ==
  ASSUME ReportInv, NEW h \in Reports!Handlers, NEW p \in Places \ {"run"},
         Reports!Moves(h, p), handler[h] \notin {"none", "run"},
         UNCHANGED <<inFlight, leaked>>
  PROVE  ReportInv'
<1>1. ReportTypes' /\ UNCHANGED <<token, attempt>>
  BY MovesTypes
<1>2. /\ Unmade' /\ handler'[h] = p
      /\ \A g \in Reports!Handlers : g # h => handler'[g] = handler[g]
  BY <1>1, PlaceTypes DEF Reports!Moves
<1> QED
  BY <1>1, <1>2, RunsUntouched

LEMMA EnterKeeps ==
  ASSUME ReportInv, NEW h \in Reports!Handlers, Reports!Enter(h)
  PROVE  ReportInv'
<1>1. ReportTypes' /\ UNCHANGED <<token, attempt>>
  BY MovesTypes DEF Reports!Enter, Places
<1>2. /\ Unmade' /\ handler'[h] = "run"
      /\ \A g \in Reports!Handlers : g # h => handler'[g] = handler[g]
  BY <1>1, PlaceTypes DEF Reports!Enter, Reports!Moves, Places
<1>3. Reports!Running' = Reports!Running \union {h}
  BY <1>2 DEF Reports!Running
<1>4. \A g \in Reports!Handlers : Reports!Token(g)' = Reports!Token(g)
  BY <1>1 DEF Reports!Token
<1>5. \A g \in Reports!Running : Reports!Token(g) # Reports!Token(h)
  BY DEF Reports!Enter, ReportInv, Reports!InFlightExact
<1>6. Reports!Token(h) \notin leaked
  BY DEF Reports!Enter, ReportInv, Reports!InFlightExact
<1>7. Reports!Running \subseteq Reports!Handlers
  BY DEF Reports!Running
<1>8. LeakedStay'
  BY <1>3, <1>4, <1>6, <1>7 DEF Reports!Enter, ReportInv, LeakedStay
<1>9. inFlight' = {Reports!Token(g) : g \in Reports!Running'} \union leaked
  BY <1>3 DEF Reports!Enter, ReportInv, Reports!InFlightExact
<1>10. Reports!InFlightExact'
  BY <1>3, <1>4, <1>5, <1>7, <1>9 DEF Reports!Enter, ReportInv, Reports!InFlightExact
<1> QED
  BY <1>1, <1>2, <1>8, <1>10 DEF ReportInv

LEMMA RunOkKeeps ==
  ASSUME ReportInv, NEW h \in Reports!Handlers, Reports!RunOk(h)
  PROVE  ReportInv'
<1>1. ReportTypes' /\ UNCHANGED <<token, attempt>>
  BY MovesTypes DEF Reports!RunOk, Places
<1>2. /\ Unmade' /\ handler'[h] = "store"
      /\ \A g \in Reports!Handlers : g # h => handler'[g] = handler[g]
  BY <1>1, PlaceTypes DEF Reports!RunOk, Reports!Moves, Places
<1>3. h \in Reports!Running /\ Reports!Running' = Reports!Running \ {h}
  BY <1>2 DEF Reports!RunOk, Reports!Running
<1> QED
  BY <1>1, <1>2, <1>3, RunEnds DEF Reports!RunOk

LEMMA RunFailsKeeps ==
  ASSUME ReportInv, NEW h \in Reports!Handlers, Reports!RunFails(h)
  PROVE  ReportInv'
<1>1. ReportTypes' /\ attempt' = attempt
  BY RespondsTypes DEF Reports!RunFails, ReportInv
<1>2. handler' = [handler EXCEPT ![h] = "gone"] /\ token' = token
  BY DEF Reports!RunFails, Reports!Responds, Reports!request
<1>3. /\ Unmade' /\ handler'[h] = "gone"
      /\ \A g \in Reports!Handlers : g # h => handler'[g] = handler[g]
  BY <1>1, <1>2, PlaceTypes DEF Reports!RunFails, Places
<1>4. h \in Reports!Running /\ Reports!Running' = Reports!Running \ {h}
  BY <1>3 DEF Reports!RunFails, Reports!Running
<1> QED
  BY <1>1, <1>2, <1>3, <1>4, RunEnds DEF Reports!RunFails

\* A handler dropped while it runs leaves its key, which it alone had.
LEMMA DropKeeps ==
  ASSUME ReportInv, NEW h \in Reports!Handlers, Reports!Drop(h)
  PROVE  ReportInv'
<1>1. ReportTypes' /\ UNCHANGED <<token, attempt>>
  BY MovesTypes DEF Reports!Drop, Places
<1>2. /\ Unmade' /\ handler'[h] = "gone"
      /\ \A g \in Reports!Handlers : g # h => handler'[g] = handler[g]
  BY <1>1, PlaceTypes DEF Reports!Drop, Reports!Moves, Places
<1>3. CASE handler[h] # "run"
  BY <1>1, <1>2, <1>3, RunsUntouched DEF Reports!Drop
<1>4. CASE handler[h] = "run"
<2>1. h \in Reports!Running /\ Reports!Running' = Reports!Running \ {h}
  BY <1>2, <1>4 DEF Reports!Running
<2>2. \A g \in Reports!Handlers : Reports!Token(g)' = Reports!Token(g)
  BY <1>1 DEF Reports!Token
<2>3. Reports!Running \subseteq Reports!Handlers
  BY DEF Reports!Running
<2>4. leaked' = leaked \union {Reports!Token(h)} /\ inFlight' = inFlight
  BY <1>4 DEF Reports!Drop
<2>5. LeakedStay'
  BY <2>1, <2>2, <2>3, <2>4 DEF ReportInv, LeakedStay, Reports!InFlightExact
<2>6. inFlight' = {Reports!Token(g) : g \in Reports!Running'} \union leaked'
  BY <2>1, <2>4 DEF ReportInv, Reports!InFlightExact
<2>7. Reports!InFlightExact'
  BY <2>1, <2>2, <2>3, <2>6 DEF ReportInv, Reports!InFlightExact
<2> QED
  BY <1>1, <1>2, <2>5, <2>7 DEF ReportInv
<1> QED
  BY <1>3, <1>4

LEMMA ReportsKeep == ReportInv /\ [Reports!Next]_(Reports!vars) => ReportInv'
<1> SUFFICES ASSUME ReportInv, [Reports!Next]_(Reports!vars) PROVE ReportInv'
  OBVIOUS
<1>1. ASSUME NEW c \in Clients, Reports!Send(c) PROVE ReportInv'
  BY <1>1, SendKeeps
<1>2. ASSUME NEW c \in Clients, Reports!TimesOut(c) PROVE ReportInv'
<2>1. ReportTypes'
  BY <1>2 DEF ReportInv, ReportTypes, Reports!TimesOut, Reports!Again,
       Reports!request, Reports!server
<2>2. Unmade'
  BY <1>2 DEF ReportInv, Unmade, Reports!TimesOut, Reports!Again, Reports!server
<2> QED
  BY <1>2, <2>1, <2>2, RunsUntouched
     DEF Reports!TimesOut, Reports!request, Reports!server
<1>3. ASSUME NEW h \in Reports!Handlers, Reports!Limited(h) PROVE ReportInv'
  BY <1>3, RespondsKeeps DEF Reports!Limited
<1>4. ASSUME NEW h \in Reports!Handlers, Reports!Handle(h) PROVE ReportInv'
<2>1. CASE Reports!CacheHit(h)
  BY <2>1, RespondsKeeps DEF Reports!CacheHit
<2>2. CASE Reports!CacheMiss(h)
<3> DEFINE p == IF op[h[1]] = "analyze" THEN "enter" ELSE "rows"
<3>1. p \in Places \ {"run"}
  BY DEF Places
<3> QED
  BY <2>2, <3>1, MovesKeeps DEF Reports!CacheMiss
<2>3. CASE Reports!Refuse(h)
  BY <2>3, RespondsKeeps DEF Reports!Refuse
<2>4. CASE Reports!Enter(h)
  BY <2>4, EnterKeeps
<2>5. CASE Reports!RunOk(h)
  BY <2>5, RunOkKeeps
<2>6. CASE Reports!RunFails(h)
  BY <2>6, RunFailsKeeps
<2>7. CASE Reports!Scored(h)
  BY <2>7, MovesKeeps DEF Reports!Scored, Places
<2>8. CASE Reports!NoRows(h)
  BY <2>8, RespondsKeeps DEF Reports!NoRows
<2>9. CASE Reports!Store(h)
  BY <2>9, RespondsKeeps DEF Reports!Store
<2> QED
  BY <1>4, <2>1, <2>2, <2>3, <2>4, <2>5, <2>6, <2>7, <2>8, <2>9 DEF Reports!Handle
<1>5. ASSUME NEW h \in Reports!Handlers, Reports!Drop(h) PROVE ReportInv'
  BY <1>5, DropKeeps
<1>6. ASSUME NEW t \in Asked, Reports!Forget(t) PROVE ReportInv'
<2>1. UNCHANGED <<token, call, attempt, handler, inFlight, leaked>>
  BY <1>6 DEF Reports!Forget, Reports!request, Reports!client
<2>2. ReportTypes' /\ Unmade'
  BY <2>1 DEF ReportInv, ReportTypes, Unmade
<2> QED
  BY <2>1, <2>2, RunsUntouched
<1>7. CASE UNCHANGED Reports!vars
<2>1. UNCHANGED <<token, call, attempt, handler, inFlight, leaked>>
  BY <1>7 DEF Reports!vars, Reports!request, Reports!client, Reports!server
<2>2. ReportTypes' /\ Unmade'
  BY <2>1 DEF ReportInv, ReportTypes, Unmade
<2> QED
  BY <2>1, <2>2, RunsUntouched
<1> QED
  BY <1>1, <1>2, <1>3, <1>4, <1>5, <1>6, <1>7 DEF Reports!Next

\* A token's detectors run once at a time over both endpoints, all attempts and
\* the handlers nobody waits for any more, and the keys of in_flight_analyzes
\* (analyze.rs, analyze_v2.rs) are those of the running handlers and of the ones
\* dropped at the await of the run.
THEOREM AnalyzeOnceAtATime ==
  /\ Reports!Spec => []Reports!InFlightExact
  /\ MCSpec => []InFlightExact
<1>1. ReportInv => Reports!InFlightExact
  BY DEF ReportInv
<1>2. Reports!Spec => []Reports!InFlightExact
  BY <1>1, ReportsStart, ReportsKeep, PTL DEF Reports!Spec
<1> DEFINE Inv == part = "reports" => ReportInv
<1>3. MCInit => Inv
  BY ReportsStart DEF MCInit
<1>4. Inv /\ [MCNext]_mcVars => Inv'
<2> SUFFICES ASSUME part' = "reports", Inv, [MCNext]_mcVars PROVE ReportInv'
  OBVIOUS
<2>1. CASE ReportsStep
  BY <2>1, ReportsKeep DEF ReportsStep
<2>2. CASE ~ReportsStep
<3>1. part = "reports" /\ UNCHANGED reportVars
  BY <2>2 DEF MCNext, PagesStep, WatchStep, ReportsStep, DrainStep, mcVars
<3>2. UNCHANGED Reports!vars
  BY <3>1 DEF reportVars, Reports!vars, Reports!request, Reports!client,
       Reports!server
<3> QED
  BY <3>1, <3>2, ReportsKeep
<2> QED
  BY <2>1, <2>2
<1>5. Inv => InFlightExact
  BY <1>1 DEF InFlightExact
<1>6. MCSpec => []InFlightExact
  BY <1>3, <1>4, <1>5, PTL DEF MCSpec
<1> QED
  BY <1>2, <1>6

(***************************************************************************)
(* The watchlist socket (Watchlist).                                       *)
(*                                                                         *)
(* VerdictsAccounted needs the types of what it adds up, and that the      *)
(* receiver is not ahead of the channel.  That an answering client is kept *)
(* rests on the order of the select: while the newest ping has no pong     *)
(* read, that pong is in the socket, and then the heartbeat is not looked  *)
(* at, or the ping is still to be answered, and then no time has passed    *)
(* since it was sent (Answered).                                           *)
(***************************************************************************)
WatchTypes ==
  /\ verdicts \in Seq(Watched) /\ pos \in 0..Len(verdicts)
  /\ pushed \in Seq(Nat) /\ told \in Nat
  /\ passedOver \subseteq 1..pos
  /\ sincePing \in Nat

Answered ==
  answers =>
    /\ sending = "ping" \/ ~pongNewer => pong \/ unanswered
    /\ unanswered /\ sending # "ping" => sincePing = 0

WatchInv ==
  WatchTypes /\ Answered /\ Watch!AnsweringClientKept /\ Watch!VerdictsAccounted

\* The instance has a Cardinality of its own; it is the same one.
LEMMA SameCardinality == \A S : Watch!Cardinality(S) = Cardinality(S)
  BY DEF Watch!Cardinality, Cardinality

LEMMA WatchStarts == Watch!Init => WatchInv
<1> SUFFICES ASSUME Watch!Init PROVE WatchInv
  OBVIOUS
<1>1. WatchTypes
  BY DEF Watch!Init, WatchTypes
<1>2. Cardinality({}) = 0 /\ Len(<<>>) = 0
  BY FS_EmptySet
<1>3. Watch!VerdictsAccounted
  BY <1>2, SameCardinality DEF Watch!Init, Watch!VerdictsAccounted
<1> QED
  BY <1>1, <1>3 DEF Watch!Init, WatchInv, Answered, Watch!AnsweringClientKept

\* The heartbeat half: any step keeps Answered, and none closes the connection
\* of a client that answers.
LEMMA HeartbeatKeeps ==
  ASSUME WatchInv, [Watch!Next]_(Watch!vars)
  PROVE  Answered' /\ Watch!AnsweringClientKept' /\ sincePing' \in Nat
<1> USE DEF WatchInv, WatchTypes, Answered, Watch!AnsweringClientKept
<1>1. CASE Watch!Broadcast
  BY <1>1 DEF Watch!Broadcast, Watch!clock, Watch!ponging
<1>2. CASE Watch!Answer
  BY <1>2 DEF Watch!Answer, Watch!clock
<1>3. CASE Watch!TimePasses
<2>1. sincePing' \in Nat
  BY <1>3 DEF Watch!TimePasses
<2> QED
  BY <1>3, <2>1 DEF Watch!TimePasses, Watch!ponging
<1>4. CASE Watch!ReadPong
  BY <1>4 DEF Watch!ReadPong, Watch!Selects, Watch!clock
<1>5. CASE Watch!ReadFilter
  BY <1>5 DEF Watch!ReadFilter, Watch!clock, Watch!ponging
<1>6. CASE Watch!Leave
  BY <1>6 DEF Watch!Leave, Watch!clock, Watch!ponging
<1>7. CASE Watch!Push
  BY <1>7 DEF Watch!Push, Watch!Receives, Watch!Selects, Watch!clock, Watch!ponging
<1>8. CASE Watch!PassOver
  BY <1>8 DEF Watch!PassOver, Watch!clock, Watch!ponging
<1>9. CASE Watch!Lagged
  BY <1>9 DEF Watch!Lagged, Watch!Receives, Watch!Selects, Watch!clock, Watch!ponging
<1>10. CASE Watch!PongTimeout
<2>1. ~answers
  BY <1>10, GatewayAssumption DEF Watch!PongTimeout, Watch!Beats, Watch!Selects
<2> QED
  BY <1>10, <2>1 DEF Watch!PongTimeout, Watch!clock, Watch!ponging
<1>11. CASE Watch!Ping
  BY <1>11 DEF Watch!Ping
<1>12. CASE Watch!PingSent
  BY <1>12 DEF Watch!PingSent
<1>13. CASE Watch!Sent
  BY <1>13 DEF Watch!Sent, Watch!clock, Watch!ponging
<1>14. CASE UNCHANGED Watch!vars
  BY <1>14 DEF Watch!vars, Watch!clock, Watch!ponging
<1> QED
  BY <1>1, <1>2, <1>3, <1>4, <1>5, <1>6, <1>7, <1>8, <1>9, <1>10, <1>11, <1>12,
     <1>13, <1>14 DEF Watch!Next

\* The verdicts' half.  Where nothing is received, it holds on.
LEMMA NothingReceived ==
  ASSUME WatchInv, UNCHANGED <<pos, pushed, passedOver, told>>,
         verdicts' \in Seq(Watched), pos <= Len(verdicts')
  PROVE  /\ verdicts' \in Seq(Watched) /\ pos' \in 0..Len(verdicts')
         /\ pushed' \in Seq(Nat) /\ told' \in Nat
         /\ passedOver' \subseteq 1..pos'
         /\ Watch!VerdictsAccounted'
<1>1. pos \in Nat
  BY DEF WatchInv, WatchTypes
<1> QED
  BY <1>1 DEF WatchInv, WatchTypes, Watch!VerdictsAccounted

LEMMA PushKeeps ==
  ASSUME WatchInv, Watch!Push
  PROVE  /\ pos' \in 0..Len(verdicts)
         /\ pushed' \in Seq(Nat)
         /\ passedOver' \subseteq 1..pos'
         /\ Watch!VerdictsAccounted'
<1>1. pos \in Nat /\ pos < Len(verdicts) /\ pos' = pos + 1
  BY DEF WatchInv, WatchTypes, Watch!Push, Watch!Receives, Watch!Waiting
<1>2. /\ pushed' = Append(pushed, pos + 1) /\ pushed' \in Seq(Nat)
      /\ Len(pushed) \in Nat /\ Len(pushed') = Len(pushed) + 1
      /\ pushed'[Len(pushed) + 1] = pos + 1
      /\ \A i \in 1..Len(pushed) : pushed'[i] = pushed[i] /\ pushed[i] \in Nat
  BY <1>1 DEF WatchInv, WatchTypes, Watch!Push
<1>3. UNCHANGED <<passedOver, told, verdicts>>
  BY DEF Watch!Push
<1>4. \A i, j \in 1..Len(pushed') : i < j => pushed'[i] < pushed'[j]
<2> SUFFICES ASSUME NEW i \in 1..Len(pushed'), NEW j \in 1..Len(pushed'), i < j
             PROVE  pushed'[i] < pushed'[j]
  OBVIOUS
<2>1. i \in 1..Len(pushed) /\ pushed[i] <= pos
  BY <1>2 DEF WatchInv, WatchTypes, Watch!VerdictsAccounted
<2>2. CASE j = Len(pushed) + 1
  BY <1>1, <1>2, <2>1, <2>2
<2>3. CASE j # Len(pushed) + 1
<3>1. j \in 1..Len(pushed)
  BY <1>2, <2>3
<3> QED
  BY <1>2, <2>1, <3>1 DEF WatchInv, Watch!VerdictsAccounted
<2> QED
  BY <2>2, <2>3
<1>5. \A i \in 1..Len(pushed') : pushed'[i] <= pos' /\ pushed'[i] \notin passedOver'
<2> SUFFICES ASSUME NEW i \in 1..Len(pushed')
             PROVE  pushed'[i] <= pos' /\ pushed'[i] \notin passedOver'
  OBVIOUS
<2>1. CASE i = Len(pushed) + 1
  BY <1>1, <1>2, <1>3, <2>1 DEF WatchInv, WatchTypes
<2>2. CASE i # Len(pushed) + 1
<3>1. i \in 1..Len(pushed)
  BY <1>2, <2>2
<3> QED
  BY <1>1, <1>2, <1>3, <3>1 DEF WatchInv, Watch!VerdictsAccounted
<2> QED
  BY <2>1, <2>2
<1>6. Len(pushed') + Cardinality(passedOver') + told' = pos'
<2>1. Cardinality(passedOver) \in Nat
<3>1. IsFiniteSet(passedOver)
<4>1. IsFiniteSet(1..pos) /\ passedOver \in SUBSET (1..pos)
  BY <1>1, FS_Interval DEF WatchInv, WatchTypes
<4> QED
  BY <4>1, FS_Subset
<3> QED
  BY <3>1, FS_CardinalityType
<2>2. Len(pushed) \in Nat /\ told \in Nat
  BY DEF WatchInv, WatchTypes
<2>3. Len(pushed) + Cardinality(passedOver) + told = pos
  BY SameCardinality DEF WatchInv, Watch!VerdictsAccounted
<2>4. Cardinality(passedOver') = Cardinality(passedOver) /\ told' = told
  BY <1>3
<2> QED
  BY <1>1, <1>2, <2>1, <2>2, <2>3, <2>4
<1> QED
  BY <1>1, <1>2, <1>3, <1>4, <1>5, <1>6, SameCardinality
     DEF WatchInv, WatchTypes, Watch!VerdictsAccounted

LEMMA PassOverKeeps ==
  ASSUME WatchInv, Watch!PassOver
  PROVE  /\ pos' \in 0..Len(verdicts)
         /\ passedOver' \subseteq 1..pos'
         /\ Watch!VerdictsAccounted'
<1>1. pos \in Nat /\ pos < Len(verdicts) /\ pos' = pos + 1
  BY DEF WatchInv, WatchTypes, Watch!PassOver, Watch!Receives, Watch!Waiting
<1>2. passedOver' = passedOver \union {pos + 1} /\ UNCHANGED <<pushed, told>>
  BY DEF Watch!PassOver
<1>3. IsFiniteSet(passedOver) /\ pos + 1 \notin passedOver
<2>1. IsFiniteSet(1..pos) /\ passedOver \in SUBSET (1..pos)
  BY <1>1, FS_Interval DEF WatchInv, WatchTypes
<2>2. pos + 1 \notin passedOver
  BY <1>1, <2>1
<2> QED
  BY <2>1, <2>2, FS_Subset
<1>4. /\ Cardinality(passedOver) \in Nat
      /\ Cardinality(passedOver') = Cardinality(passedOver) + 1
  BY <1>2, <1>3, FS_CardinalityType, FS_AddElement
<1>5. \A i \in 1..Len(pushed) :
        pushed[i] \in Nat /\ pushed[i] <= pos /\ pushed[i] \notin passedOver
  BY DEF WatchInv, WatchTypes, Watch!VerdictsAccounted
<1>6. \A i \in 1..Len(pushed') : pushed'[i] <= pos' /\ pushed'[i] \notin passedOver'
  BY <1>1, <1>2, <1>5
<1>7. Len(pushed') + Cardinality(passedOver') + told' = pos'
<2>1. Len(pushed) \in Nat /\ told \in Nat
  BY DEF WatchInv, WatchTypes
<2>2. Len(pushed) + Cardinality(passedOver) + told = pos
  BY SameCardinality DEF WatchInv, Watch!VerdictsAccounted
<2>3. Len(pushed') = Len(pushed) /\ told' = told
  BY <1>2
<2> QED
  BY <1>1, <1>4, <2>1, <2>2, <2>3
<1> QED
  BY <1>1, <1>2, <1>6, <1>7, SameCardinality
     DEF WatchInv, WatchTypes, Watch!VerdictsAccounted

\* What the channel has dropped is what the notice says.
LEMMA LaggedKeeps ==
  ASSUME WatchInv, Watch!Lagged
  PROVE  /\ pos' \in 0..Len(verdicts) /\ told' \in Nat
         /\ passedOver' \subseteq 1..pos'
         /\ Watch!VerdictsAccounted'
<1> DEFINE n == Len(verdicts) - pos - Cap
<1>1. /\ pos \in Nat /\ Len(verdicts) \in Nat /\ n \in Nat \ {0}
      /\ pos' = pos + n /\ pos' <= Len(verdicts)
  BY GatewayAssumption DEF WatchInv, WatchTypes, Watch!Lagged, Watch!Lost
<1>2. told \in Nat /\ told' = told + n /\ UNCHANGED <<pushed, passedOver>>
  BY DEF WatchInv, WatchTypes, Watch!Lagged, Watch!Lost
<1>3. passedOver' \subseteq 1..pos'
  BY <1>1, <1>2 DEF WatchInv, WatchTypes
<1>4. \A i \in 1..Len(pushed) : pushed[i] \in Nat /\ pushed[i] <= pos'
  BY <1>1 DEF WatchInv, WatchTypes, Watch!VerdictsAccounted
<1>5. Len(pushed') + Cardinality(passedOver') + told' = pos'
<2>1. Cardinality(passedOver) \in Nat
<3>1. IsFiniteSet(1..pos) /\ passedOver \in SUBSET (1..pos)
  BY <1>1, FS_Interval DEF WatchInv, WatchTypes
<3> QED
  BY <3>1, FS_Subset, FS_CardinalityType
<2>2. Len(pushed) \in Nat
  BY DEF WatchInv, WatchTypes
<2>3. Len(pushed) + Cardinality(passedOver) + told = pos
  BY SameCardinality DEF WatchInv, Watch!VerdictsAccounted
<2>4. Len(pushed') = Len(pushed) /\ Cardinality(passedOver') = Cardinality(passedOver)
  BY <1>2
<2> HIDE DEF n
<2> QED
  BY <1>1, <1>2, <2>1, <2>2, <2>3, <2>4
<1> QED
  BY <1>1, <1>2, <1>3, <1>4, <1>5, SameCardinality
     DEF WatchInv, Watch!VerdictsAccounted

LEMMA VerdictsKeep ==
  ASSUME WatchInv, [Watch!Next]_(Watch!vars)
  PROVE  /\ verdicts' \in Seq(Watched) /\ pos' \in 0..Len(verdicts')
         /\ pushed' \in Seq(Nat) /\ told' \in Nat
         /\ passedOver' \subseteq 1..pos'
         /\ Watch!VerdictsAccounted'
<1>1. CASE Watch!Push
  BY <1>1, PushKeeps DEF Watch!Push, WatchInv, WatchTypes
<1>2. CASE Watch!PassOver
  BY <1>2, PassOverKeeps DEF Watch!PassOver, WatchInv, WatchTypes
<1>3. CASE Watch!Lagged
  BY <1>3, LaggedKeeps DEF Watch!Lagged, WatchInv, WatchTypes
<1>4. CASE Watch!Broadcast
<2>1. PICK t \in Watched : verdicts' = Append(verdicts, t)
  BY <1>4 DEF Watch!Broadcast
<2>2. verdicts' \in Seq(Watched) /\ pos <= Len(verdicts')
  BY <2>1 DEF WatchInv, WatchTypes
<2> QED
  BY <1>4, <2>2, NothingReceived DEF Watch!Broadcast, Watch!history
<1>5. CASE ~(Watch!Push \/ Watch!PassOver \/ Watch!Lagged \/ Watch!Broadcast)
<2>1. UNCHANGED <<verdicts, pos, pushed, passedOver, told>>
  BY <1>5 DEF Watch!Next, Watch!vars, Watch!history, Watch!Answer, Watch!TimePasses,
       Watch!ReadPong, Watch!ReadFilter, Watch!Leave, Watch!PongTimeout, Watch!Ping,
       Watch!PingSent, Watch!Sent
<2>2. verdicts' \in Seq(Watched) /\ pos <= Len(verdicts')
  BY <2>1 DEF WatchInv, WatchTypes
<2> QED
  BY <2>1, <2>2, NothingReceived
<1> QED
  BY <1>1, <1>2, <1>3, <1>4, <1>5

LEMMA WatchKeeps == WatchInv /\ [Watch!Next]_(Watch!vars) => WatchInv'
<1> SUFFICES ASSUME WatchInv, [Watch!Next]_(Watch!vars) PROVE WatchInv'
  OBVIOUS
<1>1. Answered' /\ Watch!AnsweringClientKept' /\ sincePing' \in Nat
  BY HeartbeatKeeps
<1>2. /\ verdicts' \in Seq(Watched) /\ pos' \in 0..Len(verdicts')
      /\ pushed' \in Seq(Nat) /\ told' \in Nat
      /\ passedOver' \subseteq 1..pos'
      /\ Watch!VerdictsAccounted'
  BY VerdictsKeep
<1> QED
  BY <1>1, <1>2 DEF WatchInv, WatchTypes

\* The composition: only a step of the watchlist moves its variables.
WatchMCInv == part = "watchlist" => WatchInv

LEMMA WatchMCKeeps ==
  /\ MCInit => WatchMCInv
  /\ WatchMCInv /\ [MCNext]_mcVars => WatchMCInv'
<1>1. MCInit => WatchMCInv
  BY WatchStarts DEF MCInit, WatchMCInv
<1>2. ASSUME part' = "watchlist", WatchMCInv, [MCNext]_mcVars PROVE WatchInv'
<2>1. CASE WatchStep
  BY <1>2, <2>1, WatchKeeps DEF WatchStep, WatchMCInv
<2>2. CASE ~WatchStep
<3>1. part = "watchlist" /\ UNCHANGED watchVars
  BY <1>2, <2>2 DEF MCNext, PagesStep, WatchStep, ReportsStep, DrainStep, mcVars
<3>2. UNCHANGED Watch!vars
  BY <3>1 DEF watchVars, Watch!vars, Watch!clock, Watch!ponging, Watch!filtering,
       Watch!history
<3> QED
  BY <1>2, <3>1, <3>2, WatchKeeps DEF WatchMCInv
<2> QED
  BY <2>1, <2>2
<1> QED
  BY <1>1, <1>2 DEF WatchMCInv

\* A client of the watchlist socket that answers every ping is never closed as
\* idle (config.rs:211), however long the sends to it take: handle_watchlist_-
\* connection reads a pong before it looks at the heartbeat.
THEOREM AnsweringClientIsKept ==
  /\ Watch!Spec => []Watch!AnsweringClientKept
  /\ MCSpec => []AnsweringClientKept
<1>1. Watch!Spec => []Watch!AnsweringClientKept
<2>1. WatchInv => Watch!AnsweringClientKept
  BY DEF WatchInv
<2> QED
  BY <2>1, WatchStarts, WatchKeeps, PTL DEF Watch!Spec
<1>2. MCSpec => []AnsweringClientKept
<2>1. WatchMCInv => AnsweringClientKept
  BY DEF WatchMCInv, WatchInv, AnsweringClientKept
<2> QED
  BY <2>1, WatchMCKeeps, PTL DEF MCSpec
<1> QED
  BY <1>1, <1>2

\* Every verdict behind the receiver was pushed, in order, or kept back by the
\* filter, or is counted in a lag notice (subscribe_verdicts), however far the
\* broadcast channel laps a slow client and whatever its capacity.
THEOREM EveryVerdictAccounted ==
  /\ Watch!Spec => []Watch!VerdictsAccounted
  /\ MCSpec => []VerdictsAccounted
<1>1. Watch!Spec => []Watch!VerdictsAccounted
<2>1. WatchInv => Watch!VerdictsAccounted
  BY DEF WatchInv
<2> QED
  BY <2>1, WatchStarts, WatchKeeps, PTL DEF Watch!Spec
<1>2. MCSpec => []VerdictsAccounted
<2>1. WatchMCInv => VerdictsAccounted
  BY DEF WatchMCInv, WatchInv, VerdictsAccounted
<2> QED
  BY <2>1, WatchMCKeeps, PTL DEF MCSpec
<1> QED
  BY <1>1, <1>2

(***************************************************************************)
(* The way down (Coordinator).                                             *)
(*                                                                         *)
(* main keeps only how many handles it has awaited.  That those before     *)
(* have ended stays true, for no task comes back (AwaitedEnded), and the   *)
(* drain is complete at the last of them.                                  *)
(***************************************************************************)
DrainTypes ==
  /\ adapter \in [Drain!Adapters -> {"next", "sending", "gone"}]
  /\ task \in [Drain!Periodic -> {"waiting", "batch", "gone"}]
  /\ awaited \in 0..NumAdapters + 3

AwaitedEnded == \A i \in 1..awaited : Drain!Ended(i)

DrainInv ==
  /\ DrainTypes /\ AwaitedEnded
  /\ main = "complete" <=> awaited = NumAdapters + 3

LEMMA DrainStarts == Drain!Init => DrainInv
  BY GatewayAssumption DEF Drain!Init, DrainInv, DrainTypes, AwaitedEnded

\* No adapter and no periodic task comes back.
LEMMA NoneComesBack ==
  ASSUME DrainInv, [Drain!Next]_(Drain!vars)
  PROVE  /\ adapter' \in [Drain!Adapters -> {"next", "sending", "gone"}]
         /\ task' \in [Drain!Periodic -> {"waiting", "batch", "gone"}]
         /\ \A a \in Drain!Adapters : adapter[a] = "gone" => adapter'[a] = "gone"
         /\ \A p \in Drain!Periodic : task[p] = "gone" => task'[p] = "gone"
<1> USE DEF DrainInv, DrainTypes
<1>1. ASSUME NEW a \in Drain!Adapters,
             \/ Drain!Yield(a) \/ Drain!SendEvent(a) \/ Drain!StreamEnds(a)
             \/ Drain!AdapterLeaves(a)
      PROVE  /\ adapter' \in [Drain!Adapters -> {"next", "sending", "gone"}]
             /\ \A b \in Drain!Adapters : adapter[b] = "gone" => adapter'[b] = "gone"
             /\ task' = task
  BY <1>1 DEF Drain!Yield, Drain!SendEvent, Drain!StreamEnds, Drain!AdapterLeaves
<1>2. ASSUME \/ Drain!StartBatch \/ Drain!EndBatch
             \/ \E p \in Drain!Periodic : Drain!TaskLeaves(p)
      PROVE  /\ task' \in [Drain!Periodic -> {"waiting", "batch", "gone"}]
             /\ \A p \in Drain!Periodic : task[p] = "gone" => task'[p] = "gone"
             /\ adapter' = adapter
  BY <1>2 DEF Drain!StartBatch, Drain!EndBatch, Drain!TaskLeaves, Drain!adapters
<1>3. ASSUME \/ Drain!Receive \/ Drain!BridgeLeaves \/ Drain!Signal \/ Drain!Cancel
             \/ Drain!GatewayStops \/ Drain!GatewayFails \/ Drain!Await
             \/ Drain!DrainTimeout \/ UNCHANGED Drain!vars
      PROVE  UNCHANGED <<adapter, task>>
  BY <1>3 DEF Drain!Receive, Drain!BridgeLeaves, Drain!Signal, Drain!Cancel,
       Drain!GatewayStops, Drain!GatewayFails, Drain!Await, Drain!DrainTimeout,
       Drain!vars, Drain!adapters
<1> QED
  BY <1>1, <1>2, <1>3 DEF Drain!Next

LEMMA EndedStays ==
  ASSUME DrainInv, [Drain!Next]_(Drain!vars), NEW i \in 1..NumAdapters + 3,
         Drain!Ended(i)
  PROVE  Drain!Ended(i)'
<1>1. CASE i \in Drain!Adapters
  BY <1>1, NoneComesBack DEF Drain!Ended
<1>2. CASE i \notin Drain!Adapters
<2> DEFINE p == CASE i = NumAdapters + 1 -> "labeller"
                  [] i = NumAdapters + 2 -> "rescore"
                  [] OTHER               -> "discovery"
<2>1. p \in Drain!Periodic
  BY DEF Drain!Periodic
<2>2. task[p] = "gone"
  BY <1>2 DEF Drain!Ended
<2>3. task'[p] = "gone"
  BY <2>1, <2>2, NoneComesBack
<2> QED
  BY <1>2, <2>3 DEF Drain!Ended
<1> QED
  BY <1>1, <1>2

LEMMA DrainKeeps == DrainInv /\ [Drain!Next]_(Drain!vars) => DrainInv'
<1> SUFFICES ASSUME DrainInv, [Drain!Next]_(Drain!vars) PROVE DrainInv'
  OBVIOUS
<1>1. awaited \in Nat /\ awaited <= NumAdapters + 3 /\ NumAdapters \in Nat
  BY GatewayAssumption DEF DrainInv, DrainTypes
<1>2. CASE Drain!Await
<2>1. main = "draining" /\ Drain!Ended(awaited + 1) /\ awaited' = awaited + 1
  BY <1>2 DEF Drain!Await
<2>2. awaited # NumAdapters + 3
  BY <2>1 DEF DrainInv
<2>3. awaited' \in 0..NumAdapters + 3
  BY <1>1, <2>1, <2>2
<2>4. AwaitedEnded'
<3> SUFFICES ASSUME NEW i \in 1..awaited' PROVE Drain!Ended(i)'
  BY DEF AwaitedEnded
<3>1. i \in 1..NumAdapters + 3 /\ (i \in 1..awaited \/ i = awaited + 1)
  BY <1>1, <2>1, <2>3
<3>2. Drain!Ended(i)
  BY <2>1, <3>1 DEF DrainInv, AwaitedEnded
<3> QED
  BY <3>1, <3>2, EndedStays
<2>5. (main = "complete" <=> awaited = NumAdapters + 3)'
  BY <1>2, <2>1 DEF Drain!Await
<2> QED
  BY <2>3, <2>4, <2>5, NoneComesBack DEF DrainInv, DrainTypes
<1>3. CASE ~Drain!Await
<2>1. awaited' = awaited
      /\ (main' = main \/ {main, main'} \subseteq {"serving", "draining", "timed_out", "failed"})
  BY <1>3 DEF Drain!Next, Drain!Yield, Drain!SendEvent, Drain!StreamEnds,
       Drain!AdapterLeaves, Drain!Receive, Drain!BridgeLeaves, Drain!StartBatch,
       Drain!EndBatch, Drain!TaskLeaves, Drain!Signal, Drain!Cancel,
       Drain!GatewayStops, Drain!GatewayFails, Drain!DrainTimeout, Drain!vars
<2>2. (main = "complete" <=> awaited = NumAdapters + 3)'
  BY <2>1 DEF DrainInv
<2>3. AwaitedEnded'
<3> SUFFICES ASSUME NEW i \in 1..awaited' PROVE Drain!Ended(i)'
  BY DEF AwaitedEnded
<3>1. i \in 1..awaited /\ i \in 1..NumAdapters + 3
  BY <1>1, <2>1
<3> QED
  BY <3>1, EndedStays DEF DrainInv, AwaitedEnded
<2> QED
  BY <2>1, <2>2, <2>3, NoneComesBack DEF DrainInv, DrainTypes
<1> QED
  BY <1>2, <1>3

LEMMA DrainInvHonest == DrainInv => Drain!DrainHonest
<1> SUFFICES ASSUME DrainInv, main = "complete"
             PROVE  /\ \A a \in Drain!Adapters : adapter[a] = "gone"
                    /\ \A p \in Drain!Periodic : task[p] = "gone"
  BY DEF Drain!DrainHonest
<1>1. \A i \in 1..NumAdapters + 3 : Drain!Ended(i)
  BY DEF DrainInv, AwaitedEnded
<1>2. NumAdapters \in Nat
  BY GatewayAssumption
<1>3. \A a \in Drain!Adapters : adapter[a] = "gone"
  BY <1>1, <1>2 DEF Drain!Adapters, Drain!Ended
<1>4. task["labeller"] = "gone"
<2>1. /\ Drain!Ended(NumAdapters + 1) /\ NumAdapters + 1 \notin Drain!Adapters
      /\ NumAdapters + 1 # NumAdapters + 2
  BY <1>1, <1>2 DEF Drain!Adapters
<2> QED
  BY <2>1 DEF Drain!Ended
<1>5. task["rescore"] = "gone"
<2>1. /\ Drain!Ended(NumAdapters + 2) /\ NumAdapters + 2 \notin Drain!Adapters
      /\ NumAdapters + 2 # NumAdapters + 1
  BY <1>1, <1>2 DEF Drain!Adapters
<2> QED
  BY <2>1 DEF Drain!Ended
<1>6. task["discovery"] = "gone"
<2>1. /\ Drain!Ended(NumAdapters + 3) /\ NumAdapters + 3 \notin Drain!Adapters
      /\ NumAdapters + 3 # NumAdapters + 1 /\ NumAdapters + 3 # NumAdapters + 2
  BY <1>1, <1>2 DEF Drain!Adapters
<2> QED
  BY <2>1 DEF Drain!Ended
<1> QED
  BY <1>3, <1>4, <1>5, <1>6 DEF Drain!Periodic

\* main reports a complete drain (Steps 12-14 of main.rs) only when every
\* adapter task and every periodic task has ended, for any number of chains.
THEOREM DrainIsHonest ==
  /\ Drain!Spec => []Drain!DrainHonest
  /\ MCSpec => []DrainHonest
<1> DEFINE Inv == part = "drain" => DrainInv
<1>1. MCInit => Inv
  BY DrainStarts DEF MCInit
<1>2. Inv /\ [MCNext]_mcVars => Inv'
<2> SUFFICES ASSUME part' = "drain", Inv, [MCNext]_mcVars PROVE DrainInv'
  OBVIOUS
<2>1. CASE DrainStep
  BY <2>1, DrainKeeps DEF DrainStep
<2>2. CASE ~DrainStep
<3>1. part = "drain" /\ UNCHANGED drainVars
  BY <2>2 DEF MCNext, PagesStep, WatchStep, ReportsStep, DrainStep, mcVars
<3>2. UNCHANGED Drain!vars
  BY <3>1 DEF drainVars, Drain!vars, Drain!adapters, Drain!channels
<3> QED
  BY <3>1, <3>2, DrainKeeps
<2> QED
  BY <2>1, <2>2
<1>3. Inv => DrainHonest
  BY DrainInvHonest DEF DrainHonest
<1>4. MCSpec => []DrainHonest
  BY <1>1, <1>2, <1>3, PTL DEF MCSpec
<1>5. Drain!Spec => []Drain!DrainHonest
  BY DrainStarts, DrainKeeps, DrainInvHonest, PTL DEF Drain!Spec
<1> QED
  BY <1>4, <1>5
(***************************************************************************)
(* The pages of the event feed (EventPages).                               *)
(*                                                                         *)
(* (observed_at, id) orders any set of rows with unique ids, so exactly    *)
(* one row has k - 1 newer ones (Ranked) and a page is what Fetch says     *)
(* (FetchedPage).  WalkExact is then inductive with: the cursor is the     *)
(* last row received, and a row inserted later has a new id (WalkInv).     *)
(***************************************************************************)
\* Rows as ORDER BY has them: ids are unique, so no two are level.
Dated(S) ==
  /\ IsFiniteSet(S)
  /\ \A r \in S : r.oat \in Nat /\ r.id \in Nat
  /\ \A r, q \in S : r.id = q.id => r = q

Newer(S, r) == {h \in S : Later(h, r)}

LEMMA LaterOrders ==
  ASSUME NEW S, Dated(S), NEW r \in S, NEW q \in S
  PROVE  /\ ~Later(r, r)
         /\ r = q \/ Later(r, q) \/ Later(q, r)
         /\ \A h \in S : Later(h, r) /\ Later(r, q) => Later(h, q)
  BY DEF Dated, Later

LEMMA NewerGrows ==
  ASSUME NEW S, Dated(S), NEW r \in S, NEW q \in S, Later(r, q)
  PROVE  /\ Cardinality(Newer(S, r)) \in Nat /\ Cardinality(Newer(S, q)) \in Nat
         /\ Cardinality(Newer(S, r)) < Cardinality(Newer(S, q))
<1>1. IsFiniteSet(S)
  BY DEF Dated
<1>2. Newer(S, q) \in SUBSET S /\ Newer(S, r) \in SUBSET Newer(S, q)
  BY LaterOrders DEF Newer
<1>3. r \in Newer(S, q) /\ r \notin Newer(S, r)
  BY LaterOrders DEF Newer
<1>4. IsFiniteSet(Newer(S, q))
  BY <1>1, <1>2, FS_Subset
<1>5. /\ IsFiniteSet(Newer(S, r))
      /\ Cardinality(Newer(S, r)) <= Cardinality(Newer(S, q))
      /\ Cardinality(Newer(S, q)) # Cardinality(Newer(S, r))
  BY <1>2, <1>3, <1>4, FS_Subset
<1> QED
  BY <1>4, <1>5, FS_CardinalityType

\* Exactly one row has k - 1 newer ones.
LEMMA Ranked ==
  ASSUME NEW S, Dated(S)
  PROVE  /\ Cardinality(S) \in Nat
         /\ \A r \in S : Cardinality(Newer(S, r)) + 1 \in 1..Cardinality(S)
         /\ \A r, q \in S : Cardinality(Newer(S, r)) = Cardinality(Newer(S, q)) => r = q
         /\ \A k \in 1..Cardinality(S) : \E r \in S : Cardinality(Newer(S, r)) = k - 1
<1>1. IsFiniteSet(S)
  BY DEF Dated
<1>2. PICK N \in Nat : N = Cardinality(S)
  BY <1>1, FS_CardinalityType
<1>3. ASSUME NEW r \in S
      PROVE  Cardinality(Newer(S, r)) \in Nat /\ Cardinality(Newer(S, r)) + 1 \in 1..N
<2>1. Newer(S, r) \in SUBSET S /\ r \notin Newer(S, r)
  BY LaterOrders DEF Newer
<2>2. /\ IsFiniteSet(Newer(S, r)) /\ Cardinality(Newer(S, r)) <= Cardinality(S)
      /\ Cardinality(S) # Cardinality(Newer(S, r))
  BY <1>1, <2>1, FS_Subset
<2>3. PICK c \in Nat : c = Cardinality(Newer(S, r))
  BY <2>2, FS_CardinalityType
<2>4. c + 1 \in 1..N
  BY <1>2, <2>2, <2>3
<2> QED
  BY <2>3, <2>4
<1>4. ASSUME NEW r \in S, NEW q \in S,
             Cardinality(Newer(S, r)) = Cardinality(Newer(S, q))
      PROVE  r = q
<2>1. ~Later(r, q) /\ ~Later(q, r)
  BY <1>4, NewerGrows
<2> QED
  BY <2>1, LaterOrders
<1> DEFINE rank == [r \in S |-> Cardinality(Newer(S, r)) + 1]
<1>5. rank \in [S -> 1..N]
  BY <1>3
<1>6. \A r, q \in S : rank[r] = rank[q] => r = q
  BY <1>3, <1>4
<1>7. rank \in Injection(S, 1..N)
  BY <1>5, <1>6 DEF Injection, IsInjective
<1>8. IsFiniteSet(1..N) /\ Cardinality(1..N) = N
  BY FS_Interval
<1>9. rank \in Surjection(S, 1..N)
  BY <1>2, <1>7, <1>8, FS_Injection
<1>10. ASSUME NEW k \in 1..N PROVE \E r \in S : Cardinality(Newer(S, r)) = k - 1
<2>1. PICK r \in S : rank[r] = k
  BY <1>9 DEF Surjection
<2>2. Cardinality(Newer(S, r)) + 1 = k
  BY <2>1
<2> QED
  BY <1>3, <2>2
<1> QED
  BY <1>2, <1>3, <1>4, <1>10

\* A page fetched with a limit of n: rows below the cursor, newest first, and
\* no row below the cursor is left out that is not older than a full page.
Below(before) == {r \in events : r.oat >= 0 /\ BeforeCursor(r, before)}

LEMMA FetchedPage ==
  ASSUME Dated(events), NEW before, NEW n \in Nat \ {0},
         NEW found, found = Fetch(0, before, n)
  PROVE  /\ found \in Seq(Below(before)) /\ Len(found) \in 0..n
         /\ \A j, k \in DOMAIN found : j < k => Later(found[j], found[k])
         /\ \A r \in Below(before) :
              \/ \E k \in DOMAIN found : found[k] = r
              \/ Len(found) = n /\ \A k \in DOMAIN found : Later(found[k], r)
<1> DEFINE S == Below(before)
<1>1. Dated(S)
<2>1. IsFiniteSet(S)
  BY FS_Subset DEF Dated, Below
<2> QED
  BY <2>1 DEF Dated, Below
<1>2. PICK size \in Nat : /\ size = IF n < Cardinality(S) THEN n ELSE Cardinality(S)
                          /\ size <= n /\ 1..size \subseteq 1..Cardinality(S)
                          /\ size = n \/ size = Cardinality(S)
  BY <1>1, Ranked
<1>3. found = [k \in 1..size |-> CHOOSE r \in S : Cardinality(Newer(S, r)) = k - 1]
  BY <1>2 DEF Fetch, Below, Newer
<1> HIDE DEF S
<1>4. ASSUME NEW k \in 1..size
      PROVE  found[k] \in S /\ Cardinality(Newer(S, found[k])) = k - 1
<2>1. \E r \in S : Cardinality(Newer(S, r)) = k - 1
  BY <1>1, <1>2, Ranked
<2> QED
  BY <1>3, <2>1
<1>5. found \in Seq(S) /\ Len(found) = size /\ DOMAIN found = 1..size
  BY <1>3, <1>4
<1>6. ASSUME NEW j \in 1..size, NEW k \in 1..size, j < k
      PROVE  Later(found[j], found[k])
<2>1. found[j] # found[k]
  BY <1>4, <1>6
<2>2. ~Later(found[k], found[j])
<3> SUFFICES ASSUME Later(found[k], found[j]) PROVE FALSE
  OBVIOUS
<3>1. Cardinality(Newer(S, found[k])) < Cardinality(Newer(S, found[j]))
  BY <1>1, <1>4, NewerGrows
<3> QED
  BY <1>4, <1>6, <3>1
<2> QED
  BY <1>1, <1>4, <2>1, <2>2, LaterOrders
<1>7. ASSUME NEW r \in S
      PROVE  \/ \E k \in 1..size : found[k] = r
             \/ size = n /\ \A k \in 1..size : Later(found[k], r)
<2>1. PICK c \in Nat : c = Cardinality(Newer(S, r)) /\ c + 1 \in 1..Cardinality(S)
<3>1. IsFiniteSet(S) /\ Newer(S, r) \in SUBSET S
  BY <1>1 DEF Dated, Newer
<3>2. IsFiniteSet(Newer(S, r))
  BY <3>1, FS_Subset
<3>3. Cardinality(Newer(S, r)) + 1 \in 1..Cardinality(S)
  BY <1>1, Ranked
<3> QED
  BY <3>2, <3>3, FS_CardinalityType
<2>2. CASE c + 1 \in 1..size
<3>1. Cardinality(Newer(S, found[c + 1])) = Cardinality(Newer(S, r))
  BY <1>4, <2>1, <2>2
<3>2. found[c + 1] = r
  BY <1>1, <1>4, <2>2, <3>1, Ranked
<3> QED
  BY <2>2, <3>2
<2>3. CASE c + 1 \notin 1..size
<3>1. size = n /\ size <= c
  BY <1>1, <1>2, <2>1, <2>3, Ranked
<3>2. ASSUME NEW k \in 1..size PROVE Later(found[k], r)
<4>1. Cardinality(Newer(S, found[k])) = k - 1 /\ k - 1 < c
  BY <1>4, <3>1
<4>2. ~Later(r, found[k]) /\ r # found[k]
  BY <1>1, <1>4, <2>1, <4>1, NewerGrows
<4> QED
  BY <1>1, <1>4, <4>2, LaterOrders
<3> QED
  BY <3>1, <3>2
<2> QED
  BY <2>2, <2>3
<1> QED
  BY <1>2, <1>5, <1>6, <1>7 DEF S

\* The page a request answers with, after the row too many is cut off.
LEMMA ServedPage ==
  ASSUME Dated(events), NEW before, NEW sofar, Serve(before, sofar)
  PROVE  \E page \in Seq(Below(before)) :
           /\ walked' = sofar \o page
           /\ \A j, k \in DOMAIN page : j < k => Later(page[j], page[k])
           /\ ~over' => Len(page) # 0 /\ cursor' = page[Len(page)]
           /\ \A r \in Below(before) : \/ \E k \in DOMAIN page : page[k] = r
                                       \/ ~over' /\ Later(page[Len(page)], r)
<1>1. PICK found : found = Fetch(0, before, Limit + 1)
  OBVIOUS
<1>2. PICK l \in Nat \ {0} : l = Limit
  BY LimitAssumption
<1>3. /\ found \in Seq(Below(before)) /\ Len(found) \in 0..l + 1
      /\ \A j, k \in DOMAIN found : j < k => Later(found[j], found[k])
      /\ \A r \in Below(before) :
           \/ \E k \in DOMAIN found : found[k] = r
           \/ Len(found) = l + 1 /\ \A k \in DOMAIN found : Later(found[k], r)
  BY <1>1, <1>2, FetchedPage
<1>4. CASE Len(found) > l
<2>1. PICK page : page = SubSeq(found, 1, l)
  OBVIOUS
<2>2. /\ walked' = sofar \o page /\ cursor' = page[l] /\ ~over'
  BY <1>1, <1>2, <1>4, <2>1 DEF Serve
<2>3. Len(found) = l + 1 /\ DOMAIN found = 1..(l + 1)
  BY <1>3, <1>4
<2>4. /\ page \in Seq(Below(before)) /\ Len(page) = l /\ DOMAIN page = 1..l
      /\ \A k \in 1..l : k \in DOMAIN found /\ page[k] = found[k]
  BY <1>3, <2>1, <2>3
<2>5. \A j, k \in 1..l : j < k => Later(page[j], page[k])
  BY <1>3, <2>4
<2>6. ASSUME NEW r \in Below(before)
      PROVE  (\E k \in 1..l : page[k] = r) \/ Later(page[l], r)
<3>1. l \in 1..l /\ l \in DOMAIN found /\ l + 1 \in DOMAIN found /\ l < l + 1
  BY <2>3
<3>2. CASE \E k \in 1..l : found[k] = r
  BY <2>4, <3>2
<3>3. CASE found[l + 1] = r
  BY <1>3, <2>4, <3>1, <3>3
<3>4. CASE \A k \in DOMAIN found : Later(found[k], r)
  BY <2>4, <3>1, <3>4
<3>5. \A k \in DOMAIN found : k \in 1..l \/ k = l + 1
  BY <2>3
<3> QED
  BY <1>3, <3>2, <3>3, <3>4, <3>5
<2> QED
  BY <2>2, <2>4, <2>5, <2>6
<1>5. CASE ~(Len(found) > l)
<2>1. walked' = sofar \o found /\ over'
  BY <1>1, <1>2, <1>5 DEF Serve
<2>2. Len(found) # l + 1
  BY <1>3, <1>5
<2> QED
  BY <1>3, <2>1, <2>2
<1> QED
  BY <1>4, <1>5

Descending(s) == \A j, k \in DOMAIN s : j < k => Later(s[j], s[k])
Behind(s, r) == (\E k \in DOMAIN s : s[k] = r) \/ (~over /\ Later(s[Len(s)], r))

Stored ==
  /\ Dated(events)
  /\ \A r \in events : r.oat # 0 /\ r.id <= Cardinality(events)

WalkInv ==
  /\ Stored
  /\ walked \in Seq(events) /\ atStart \subseteq events
  /\ Descending(walked)
  /\ ~over => Len(walked) # 0 /\ cursor = walked[Len(walked)]
  /\ \A r \in atStart : Behind(walked, r)

LEMMA WalkStarts == Init => WalkInv
<1> SUFFICES ASSUME Init PROVE WalkInv
  OBVIOUS
<1>1. IsFiniteSet({})
  BY FS_EmptySet
<1> QED
  BY <1>1 DEF Init, WalkInv, Stored, Dated, Descending

LEMMA InsertKeepsWalk ==
  ASSUME WalkInv, Insert
  PROVE  WalkInv'
<1>1. PICK oat \in 1..MaxTime, t \in Tokens : InsertEvent(oat, t)
  BY DEF Insert
<1> DEFINE row == [id |-> Cardinality(events) + 1, oat |-> oat, token |-> t]
<1>2. /\ events' = events \union {row} /\ Stored
      /\ UNCHANGED <<walked, cursor, atStart, over>>
  BY <1>1 DEF Insert, InsertEvent, WalkInv
<1>3. PICK n \in Nat : n = Cardinality(events)
  BY <1>2, FS_CardinalityType DEF Stored, Dated
<1>4. row \notin events /\ row.id = n + 1 /\ row.oat = oat /\ oat \in Nat /\ oat # 0
  BY <1>2, <1>3, EventsAssumption DEF Stored, Dated
<1>5. IsFiniteSet(events') /\ Cardinality(events') = n + 1
  BY <1>2, <1>3, <1>4, FS_AddElement DEF Stored, Dated
<1>6. \A r \in events : r.id \in Nat /\ r.id <= n
  BY <1>2, <1>3 DEF Stored, Dated
<1> HIDE DEF row
<1>7. Dated(events)'
<2>1. \A r \in events' : r.oat \in Nat /\ r.id \in Nat
  BY <1>2, <1>4 DEF Stored, Dated
<2>2. \A r, q \in events' : r.id = q.id => r = q
  BY <1>2, <1>4, <1>6 DEF Stored, Dated
<2> QED
  BY <1>5, <2>1, <2>2 DEF Dated
<1>8. Stored'
<2>1. \A r \in events' : r.oat # 0
  BY <1>2, <1>4 DEF Stored
<2>2. \A r \in events' : r.id <= n + 1
  BY <1>2, <1>4, <1>6
<2> QED
  BY <1>5, <1>7, <2>1, <2>2 DEF Stored
<1>9. walked' \in Seq(events') /\ atStart' \subseteq events'
  BY <1>2 DEF WalkInv
<1> QED
  BY <1>2, <1>8, <1>9 DEF WalkInv, Descending, Behind

LEMMA FirstPageWalks ==
  ASSUME WalkInv, FirstPage
  PROVE  WalkInv'
<1>1. Serve(NoCursor, <<>>) /\ atStart' = events /\ events' = events /\ Stored
  BY DEF FirstPage, WalkInv
<1>2. PICK page \in Seq(Below(NoCursor)) :
        /\ walked' = <<>> \o page
        /\ \A j, k \in DOMAIN page : j < k => Later(page[j], page[k])
        /\ ~over' => Len(page) # 0 /\ cursor' = page[Len(page)]
        /\ \A r \in Below(NoCursor) : \/ \E k \in DOMAIN page : page[k] = r
                                      \/ ~over' /\ Later(page[Len(page)], r)
  BY <1>1, ServedPage DEF Stored
<1>3. Below(NoCursor) = events
  BY <1>1 DEF Below, BeforeCursor, NoCursor, Stored, Dated
<1>4. walked' = page /\ page \in Seq(events)
  BY <1>2, <1>3
<1>5. Stored'
  BY <1>1 DEF Stored, Dated
<1> QED
  BY <1>1, <1>2, <1>3, <1>4, <1>5 DEF WalkInv, Descending, Behind

LEMMA NextPageWalks ==
  ASSUME WalkInv, NextPage
  PROVE  WalkInv'
<1>1. /\ ~over /\ Serve(cursor, walked) /\ events' = events /\ atStart' = atStart
      /\ Stored /\ walked \in Seq(events) /\ atStart \subseteq events
  BY DEF NextPage, WalkInv
<1>2. PICK m \in Nat \ {0} : /\ m = Len(walked) /\ DOMAIN walked = 1..m
                             /\ cursor = walked[m] /\ cursor \in events
  BY <1>1 DEF WalkInv
<1>3. PICK page \in Seq(Below(cursor)) :
        /\ walked' = walked \o page
        /\ \A j, k \in DOMAIN page : j < k => Later(page[j], page[k])
        /\ ~over' => Len(page) # 0 /\ cursor' = page[Len(page)]
        /\ \A r \in Below(cursor) : \/ \E k \in DOMAIN page : page[k] = r
                                    \/ ~over' /\ Later(page[Len(page)], r)
  BY <1>1, ServedPage DEF Stored
<1>4. /\ \A r \in Below(cursor) : r \in events /\ Later(cursor, r)
      /\ \A r \in events : Later(cursor, r) => r \in Below(cursor)
  BY <1>1, <1>2 DEF Below, BeforeCursor, Stored, Dated
<1>5. PICK l \in Nat : l = Len(page) /\ DOMAIN page = 1..l
  OBVIOUS
<1>6. page \in Seq(events) /\ \A k \in 1..l : page[k] \in events /\ Later(cursor, page[k])
  BY <1>3, <1>4, <1>5
<1>7. /\ walked' \in Seq(events) /\ Len(walked') = m + l /\ DOMAIN walked' = 1..(m + l)
      /\ \A k \in 1..m : walked'[k] = walked[k]
      /\ \A k \in 1..l : m + k \in 1..(m + l) /\ walked'[m + k] = page[k]
  BY <1>1, <1>2, <1>3, <1>5, <1>6
<1>8. \A k \in 1..m : walked[k] \in events /\ (walked[k] = cursor \/ Later(walked[k], cursor))
<2> SUFFICES ASSUME NEW k \in 1..m
             PROVE  walked[k] \in events /\ (walked[k] = cursor \/ Later(walked[k], cursor))
  OBVIOUS
<2>1. k = m \/ (k < m /\ m \in 1..m)
  OBVIOUS
<2> QED
  BY <1>1, <1>2, <2>1 DEF WalkInv, Descending
<1>9. Descending(walked')
<2> SUFFICES ASSUME NEW j \in 1..(m + l), NEW k \in 1..(m + l), j < k
             PROVE  Later(walked'[j], walked'[k])
  BY <1>7 DEF Descending
<2>1. CASE k \in 1..m
<3>1. j \in 1..m
  BY <2>1
<3>2. Later(walked[j], walked[k])
  BY <1>2, <2>1, <3>1 DEF WalkInv, Descending
<3> QED
  BY <1>7, <2>1, <3>1, <3>2
<2>2. CASE k \notin 1..m
<3>1. PICK b \in 1..l : k = m + b
<4>1. k - m \in 1..l /\ k = m + (k - m)
  BY <2>2
<4> QED
  BY <4>1
<3>2. walked'[k] = page[b] /\ page[b] \in events /\ Later(cursor, page[b])
  BY <1>6, <1>7, <3>1
<3>3. CASE j \in 1..m
<4>1. Later(walked[j], page[b])
  BY <1>1, <1>2, <1>8, <3>2, <3>3, LaterOrders DEF Stored
<4> QED
  BY <1>7, <3>2, <3>3, <4>1
<3>4. CASE j \notin 1..m
<4>1. PICK a \in 1..l : j = m + a
<5>1. j - m \in 1..l /\ j = m + (j - m)
  BY <3>4
<5> QED
  BY <5>1
<4>2. a < b
  BY <3>1, <4>1
<4>3. Later(page[a], page[b])
  BY <1>3, <1>5, <4>2
<4> QED
  BY <1>7, <3>2, <4>1, <4>3
<3> QED
  BY <3>3, <3>4
<2> QED
  BY <2>1, <2>2
<1>10. l # 0 => walked'[Len(walked')] = page[l] /\ Len(walked') # 0
<2> SUFFICES ASSUME l # 0 PROVE walked'[Len(walked')] = page[l] /\ Len(walked') # 0
  OBVIOUS
<2>1. l \in 1..l /\ m + l # 0
  OBVIOUS
<2> QED
  BY <1>7, <2>1
<1>11. (~over => Len(walked) # 0 /\ cursor = walked[Len(walked)])'
  BY <1>3, <1>5, <1>10
<1>12. ASSUME NEW r \in atStart PROVE Behind(walked, r)'
<2>1. CASE \E k \in DOMAIN walked : walked[k] = r
<3>1. PICK k \in 1..m : walked[k] = r
  BY <1>2, <2>1
<3>2. k \in DOMAIN walked' /\ walked'[k] = r
  BY <1>7, <3>1
<3> QED
  BY <3>2 DEF Behind
<2>2. CASE Later(cursor, r)
<3>1. r \in Below(cursor)
  BY <1>1, <1>4, <2>2
<3>2. CASE \E k \in DOMAIN page : page[k] = r
<4>1. PICK k \in 1..l : page[k] = r
  BY <1>5, <3>2
<4>2. m + k \in DOMAIN walked' /\ walked'[m + k] = r
  BY <1>7, <4>1
<4> QED
  BY <4>2 DEF Behind
<3>3. CASE ~over' /\ Later(page[Len(page)], r)
  BY <1>3, <1>5, <1>10, <3>3 DEF Behind
<3> QED
  BY <1>3, <3>1, <3>2, <3>3
<2>3. Behind(walked, r)
  BY DEF WalkInv
<2> QED
  BY <1>1, <1>2, <2>1, <2>2, <2>3 DEF Behind
<1>13. Stored'
  BY <1>1 DEF Stored, Dated
<1> QED
  BY <1>1, <1>7, <1>9, <1>11, <1>12, <1>13 DEF WalkInv

LEMMA WalkKeeps == WalkInv /\ [Next]_vars => WalkInv'
<1> SUFFICES ASSUME WalkInv, [Next]_vars PROVE WalkInv'
  OBVIOUS
<1>1. CASE UNCHANGED vars
  BY <1>1 DEF vars, WalkInv, Stored, Dated, Descending, Behind
<1> QED
  BY <1>1, InsertKeepsWalk, FirstPageWalks, NextPageWalks DEF Next

LEMMA WalkInvExact == WalkInv => WalkExact
<1> SUFFICES ASSUME WalkInv PROVE WalkExact
  OBVIOUS
<1>1. DOMAIN walked = 1..Len(walked) /\ Len(walked) \in Nat
  BY DEF WalkInv
<1>2. \A i \in 1..Len(walked) - 1 : Later(walked[i], walked[i + 1])
<2> SUFFICES ASSUME NEW i \in 1..Len(walked) - 1 PROVE Later(walked[i], walked[i + 1])
  OBVIOUS
<2>1. i \in DOMAIN walked /\ i + 1 \in DOMAIN walked /\ i < i + 1
  BY <1>1
<2> QED
  BY <2>1 DEF WalkInv, Descending
<1>3. ASSUME NEW r \in atStart
      PROVE  (\E i \in 1..Len(walked) : walked[i] = r) \/ (~over /\ Later(cursor, r))
  BY <1>1 DEF WalkInv, Behind
<1> QED
  BY <1>2, <1>3 DEF WalkExact

\* For every table, page size and interleaving of inserts: the walk over
\* GET /v1/anomaly_events (fetch_anomaly_events_paginated with the cursor of the
\* page before) sees no row twice and misses none it began with.
THEOREM WalksAreExact ==
  /\ Spec => []WalkExact
  /\ MCSpec => []WalkExact
<1>1. Spec => []WalkExact
  BY WalkStarts, WalkKeeps, WalkInvExact, PTL DEF Spec
<1>2. MCInit => WalkInv
  BY WalkStarts DEF MCInit
<1>3. WalkInv /\ [MCNext]_mcVars => WalkInv'
<2> SUFFICES ASSUME WalkInv, [MCNext]_mcVars PROVE WalkInv'
  OBVIOUS
<2>1. [Next]_vars
  BY DEF MCNext, PagesStep, WatchStep, ReportsStep, DrainStep, mcVars
<2> QED
  BY <2>1, WalkKeeps
<1>4. MCSpec => []WalkExact
  BY <1>2, <1>3, WalkInvExact, PTL DEF MCSpec
<1> QED
  BY <1>1, <1>4
=============================================================================
