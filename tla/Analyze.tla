------------------------------ MODULE Analyze ------------------------------
(***************************************************************************)
(* Risk reports on demand: the handlers of POST /v1/tokens/analyze and     *)
(* POST /v1/analyze with the in-flight set they share                      *)
(* (crates/gateway/src/routes/analyze.rs, analyze_v2.rs), GET /v1/risk     *)
(* (routes/risk.rs), the report cache (cache.rs), and the SDK's HTTP       *)
(* client, which times out and repeats a request (client-sdk/src/http.rs). *)
(*                                                                         *)
(* A client makes one call.  The handler of its n-th attempt is <<c, n>>;  *)
(* it lives on after the client has given the attempt up, until the server *)
(* sees the closed connection and drops it at the await it is at.          *)
(* Requests that are refused before any state is read are left out.        *)
(***************************************************************************)
EXTENDS Naturals

CONSTANTS
  Clients,
  Tokens,
  MaxAttempts  \* RetryPolicy::max_attempts (3)

VARIABLES
  token,     \* client -> the token its call is about
  op,        \* client -> analyze (both endpoints), or risk
  call,      \* client -> idle, backoff, waiting, ok, failed
  attempt,   \* client -> attempts made
  handler,   \* handler -> none, probe, enter, run, rows, store, gone
  inFlight,  \* in_flight_analyzes
  cached,    \* the tokens with a live entry in risk_cache
  leaked     \* history: tokens whose handler was dropped while it ran

request == <<token, op>>
client  == <<call, attempt>>
server  == <<handler, inFlight, cached, leaked>>
vars == <<request, client, server>>

Handlers == Clients \X (1..MaxAttempts)
Token(h) == token[h[1]]

Init ==
  /\ token \in [Clients -> Tokens] /\ op \in [Clients -> {"analyze", "risk"}]
  /\ call = [c \in Clients |-> "idle"] /\ attempt = [c \in Clients |-> 0]
  /\ handler = [h \in Handlers |-> "none"]
  /\ inFlight = {} /\ cached = {} /\ leaked = {}

(***************************************************************************)
(* The client: execute_with_retry.                                         *)
(***************************************************************************)
Send(c) ==
  /\ call[c] \in {"idle", "backoff"} /\ attempt[c] < MaxAttempts
  /\ call' = [call EXCEPT ![c] = "waiting"]
  /\ attempt' = [attempt EXCEPT ![c] = @ + 1]
  /\ handler' = [handler EXCEPT ![<<c, attempt[c] + 1>>] = "probe"]
  /\ UNCHANGED <<request, inFlight, cached, leaked>>

\* Altered Again: a repeated request is not counted.
AgainUncounted(c) ==
  /\ call' = [call EXCEPT ![c] = "backoff"]
  /\ attempt' = [attempt EXCEPT ![c] = @ - 1]

\* An attempt that may be repeated is over.
Again(c) ==
  /\ call' = [call EXCEPT ![c] = IF attempt[c] < MaxAttempts THEN "backoff"
                                 ELSE "failed"]
  /\ UNCHANGED attempt

TimesOut(c) ==
  /\ call[c] = "waiting"
  /\ Again(c)
  /\ UNCHANGED <<request, server>>

(***************************************************************************)
(* The handlers.  Each step ends at an await or with the response, which   *)
(* reaches a client that still waits for this attempt.                     *)
(***************************************************************************)
Heard(h) == call[h[1]] = "waiting" /\ attempt[h[1]] = h[2]

Moves(h, to) ==
  handler' = [handler EXCEPT ![h] = to] /\ UNCHANGED <<request, client>>

\* is_retriable_status: 429 and 5xx; a 404 or a 409 is final.
Responds(h, status) ==
  /\ handler' = [handler EXCEPT ![h] = "gone"]
  /\ IF Heard(h)
     THEN CASE status = "ok"    -> call' = [call EXCEPT ![h[1]] = "ok"]
                                   /\ UNCHANGED attempt
            [] status = "final" -> call' = [call EXCEPT ![h[1]] = "failed"]
                                   /\ UNCHANGED attempt
            [] status = "retry" -> Again(h[1])
     ELSE UNCHANGED client
  /\ UNCHANGED request

\* check_analyze, check_default: the bucket is empty.
Limited(h) ==
  /\ handler[h] = "probe"
  /\ Responds(h, "retry")
  /\ UNCHANGED <<inFlight, cached, leaked>>

CacheHit(h) ==
  /\ handler[h] = "probe" /\ Token(h) \in cached
  /\ Responds(h, "ok")
  /\ UNCHANGED <<inFlight, cached, leaked>>

CacheMiss(h) ==
  /\ handler[h] = "probe" /\ Token(h) \notin cached
  /\ Moves(h, IF op[h[1]] = "analyze" THEN "enter" ELSE "rows")
  /\ UNCHANGED <<inFlight, cached, leaked>>

Refuse(h) ==
  /\ handler[h] = "enter" /\ Token(h) \in inFlight
  /\ Responds(h, "final")
  /\ UNCHANGED <<inFlight, cached, leaked>>

\* Contains and insert under one lock.
Enter(h) ==
  /\ handler[h] = "enter" /\ Token(h) \notin inFlight
  /\ Moves(h, "run")
  /\ inFlight' = inFlight \union {Token(h)}
  /\ UNCHANGED <<cached, leaked>>

\* run_analyze has a report: the key is removed, the report cached after it.
RunOk(h) ==
  /\ handler[h] = "run"
  /\ Moves(h, "store")
  /\ inFlight' = inFlight \ {Token(h)}
  /\ UNCHANGED <<cached, leaked>>

\* Altered RunFails: the error returns before the key is removed.
RunFailsEarly(h) ==
  /\ handler[h] = "run"
  /\ Responds(h, "retry")
  /\ UNCHANGED <<inFlight, cached, leaked>>

\* The token's metadata cannot be had; a detector that fails is only skipped.
RunFails(h) ==
  /\ handler[h] = "run"
  /\ Responds(h, "retry")
  /\ inFlight' = inFlight \ {Token(h)}
  /\ UNCHANGED <<cached, leaked>>

\* GET risk scores the stored events of the token without running detectors.
Scored(h) ==
  /\ handler[h] = "rows"
  /\ Moves(h, "store")
  /\ UNCHANGED <<inFlight, cached, leaked>>

NoRows(h) ==
  /\ handler[h] = "rows"
  /\ \E status \in {"final", "retry"} : Responds(h, status)
  /\ UNCHANGED <<inFlight, cached, leaked>>

Store(h) ==
  /\ handler[h] = "store"
  /\ Responds(h, "ok")
  /\ cached' = cached \union {Token(h)}
  /\ UNCHANGED <<inFlight, leaked>>

\* The future is dropped at an await; what follows the await is not done.
Drop(h) ==
  /\ handler[h] \notin {"none", "gone", "enter"} /\ ~Heard(h)
  /\ Moves(h, "gone")
  /\ leaked' = leaked \union (IF handler[h] = "run" THEN {Token(h)} ELSE {})
  /\ UNCHANGED <<inFlight, cached>>

\* The entry's time to live is over, or an administrator removes it.
Forget(t) ==
  /\ t \in cached
  /\ cached' = cached \ {t}
  /\ UNCHANGED <<request, client, handler, inFlight, leaked>>

Handle(h) ==
  \/ CacheHit(h) \/ CacheMiss(h) \/ Refuse(h) \/ Enter(h)
  \/ RunOk(h) \/ RunFails(h) \/ Scored(h) \/ NoRows(h) \/ Store(h)

Next ==
  \/ \E c \in Clients : Send(c) \/ TimesOut(c)
  \/ \E h \in Handlers : Limited(h) \/ Handle(h) \/ Drop(h)
  \/ \E t \in Tokens : Forget(t)

Spec == Init /\ [][Next]_vars

FairSpec ==
  /\ Spec
  /\ \A c \in Clients :
       WF_vars(attempt[c] > 0 /\ Send(c)) /\ WF_vars(TimesOut(c))

(***************************************************************************)
(* Properties.                                                             *)
(***************************************************************************)
Running == {h \in Handlers : handler[h] = "run"}

\* The in-flight set keeps the detectors of a token from running twice at a
\* time, over both endpoints, repeated attempts and handlers nobody waits for;
\* and its keys are those of the running handlers and of the ones dropped in the
\* middle of a run, so that no other end of a run, an error neither, leaves a
\* key that refuses every later analysis of the token.
InFlightExact ==
  /\ \A g, h \in Running : Token(g) = Token(h) => g = h
  /\ inFlight = {Token(h) : h \in Running} \union leaked

\* execute_with_retry gives an answer after max_attempts attempts at most,
\* whatever becomes of the handlers and their responses.
CallsEnd ==
  \A c \in Clients : (call[c] = "waiting") ~> (call[c] \in {"ok", "failed"})
=============================================================================
