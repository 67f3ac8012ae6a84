----------------------------- MODULE Streaming -----------------------------
(***************************************************************************)
(* The streaming re-evaluation of tokens (crates/server/src/streaming):    *)
(* DetectorScheduler::run debounces invalidations of a broadcast channel   *)
(* into one pending job per mint and drains them into a bounded queue;     *)
(* SchedulerWorkers take the jobs, run the detectors, persist the anomaly  *)
(* events and, unless the scores hardly moved, upsert a risk report        *)
(* (risk_report_store.rs).                                                 *)
(*                                                                         *)
(* A score vector is one number; a detector that fails, times out, panics  *)
(* or is skipped by the cadence or its chain contributes 0.                *)
(***************************************************************************)
EXTENDS Integers, Sequences, FiniteSets

CONSTANTS
  Mints,      \* number of tokens; 1..Mints in the order of the BTreeMap
  MaxTime,    \* bound: block times are 1..MaxTime, 0 is "not set"
  MaxEvents,  \* bound: invalidations published
  Backlog,    \* capacity of the broadcast channel
  QueueCap,   \* queue_capacity
  Workers,    \* the worker tasks
  MaxTokens,  \* max_streaming_tokens
  MaxScore,   \* scores are 0..MaxScore
  Delta       \* scoring_skip_delta_threshold

ASSUME StreamingAssumption ==
  /\ Mints \in Nat \ {0} /\ MaxTime \in Nat \ {0} /\ MaxEvents \in Nat
  /\ Backlog \in Nat \ {0} /\ QueueCap \in Nat \ {0} /\ Workers # {}
  /\ MaxTokens \in Nat \ {0} /\ MaxScore \in Nat /\ Delta \in Nat

VARIABLES
  sent,      \* invalidations published so far
  feed,      \* those the scheduler has not received
  lagged,    \* the channel overwrote some of them
  closed,    \* all senders of the channel are gone
  sched,     \* select, drain, done
  pending,   \* mint -> max_block_time of its pending job, 0 for none
  drained,   \* mint -> the same for the map a tick has taken
  registry,  \* mint -> last_event_at, 0 when not registered
  queue,     \* the jobs in the channel to the workers
  worker,    \* worker -> what it does: its await, job and new scores
  cache,     \* worker -> mint -> score_cache entry, None when absent
  anomalies, \* anomaly_events: the jobs for which rows were inserted
  reports,   \* token_risk_reports
  accepted,  \* history: mint -> newest block time taken from the channel
  settled    \* history: mint -> newest job evaluated, or refused by the queue

channel == <<sent, feed, lagged, closed>>
maps    == <<pending, drained, registry>>
tables  == <<anomalies, reports>>
hist    == <<accepted, settled>>
vars == <<channel, sched, maps, queue, worker, cache, tables, hist>>

Mint  == 1..Mints
Time  == 1..MaxTime
Score == 0..MaxScore
None  == -1

When  == Time \union {0}

Event == [mint : Mint, time : When]
Job   == [mint : Mint, time : Time]
At    == {"idle", "detect", "persist", "score", "exited"}
Idle == [at |-> "idle", job |-> [mint |-> 1, time |-> 1], score |-> 0]
NoJobs == [m \in Mint |-> 0]

Later(a, b) == IF a > b THEN a ELSE b

Registered == {m \in Mint : registry[m] # 0}

TypeOK ==
  /\ sent \in 0..MaxEvents
  /\ feed \in Seq(Event)
  /\ Len(feed) <= Backlog
  /\ lagged \in BOOLEAN /\ closed \in BOOLEAN
  /\ sched \in {"select", "drain", "done"}
  /\ pending \in [Mint -> When]
  /\ drained \in [Mint -> When]
  /\ sched # "drain" => drained = NoJobs
  /\ registry \in [Mint -> When]
  /\ Cardinality(Registered) <= MaxTokens
  /\ queue \in Seq(Job) /\ Len(queue) <= QueueCap
  /\ worker \in [Workers -> [at : At, job : Job, score : Score]]
  /\ cache \in [Workers -> [Mint -> Score \union {None}]]
  /\ anomalies \subseteq Job
  /\ reports \subseteq [mint : Mint, time : Time, score : Score]
  /\ \A r, q \in reports : r.mint = q.mint /\ r.time = q.time => r = q
  /\ accepted \in [Mint -> When]
  /\ settled \in [Mint -> When]

Init ==
  /\ sent = 0 /\ feed = <<>> /\ lagged = FALSE /\ closed = FALSE
  /\ sched = "select"
  /\ pending = NoJobs /\ drained = NoJobs /\ registry = NoJobs
  /\ queue = <<>>
  /\ worker = [w \in Workers |-> Idle]
  /\ cache = [w \in Workers |-> [m \in Mint |-> None]]
  /\ anomalies = {} /\ reports = {}
  /\ accepted = NoJobs /\ settled = NoJobs

(***************************************************************************)
(* The environment.                                                        *)
(***************************************************************************)
\* A send on a full channel overwrites the oldest event.
Publish(m, t) ==
  /\ ~closed /\ sent < MaxEvents
  /\ sent' = sent + 1
  /\ IF Len(feed) < Backlog
     THEN feed' = Append(feed, [mint |-> m, time |-> t]) /\ UNCHANGED lagged
     ELSE feed' = Append(Tail(feed), [mint |-> m, time |-> t]) /\ lagged' = TRUE
  /\ UNCHANGED <<closed, sched, maps, queue, worker, cache, tables, hist>>

CloseChannel ==
  /\ ~closed
  /\ closed' = TRUE
  /\ UNCHANGED <<sent, feed, lagged, sched, maps, queue, worker, cache, tables,
                 hist>>

(***************************************************************************)
(* The scheduler.                                                          *)
(***************************************************************************)
\* Altered Merge: the last event's block time replaces the pending one.
MergeLast(known, t) == t

\* observed_at is the maximum of the merged block times.
Merge(known, t) == Later(known, t)

\* An event without a block time is skipped.
Receive ==
  /\ sched = "select" /\ ~lagged /\ feed # <<>>
  /\ feed' = Tail(feed)
  /\ LET e == Head(feed) IN
       IF e.time = 0 THEN UNCHANGED <<pending, accepted>>
       ELSE /\ pending' = [pending EXCEPT ![e.mint] = Merge(@, e.time)]
            /\ accepted' = [accepted EXCEPT ![e.mint] = Later(@, e.time)]
  /\ UNCHANGED <<sent, lagged, closed, sched, drained, registry, queue, worker,
                 cache, tables, settled>>

ReceiveLagged ==
  /\ sched = "select" /\ lagged
  /\ lagged' = FALSE
  /\ UNCHANGED <<sent, feed, closed, sched, maps, queue, worker, cache, tables,
                 hist>>

\* Altered ReceiveClosed: the error is taken for one more lag.
ReceiveClosedIgnored ==
  /\ sched = "select" /\ ~lagged /\ feed = <<>> /\ closed
  /\ UNCHANGED vars

\* Closed: run returns, and with it pending and the queue's only sender.
ReceiveClosed ==
  /\ sched = "select" /\ ~lagged /\ feed = <<>> /\ closed
  /\ sched' = "done"
  /\ UNCHANGED <<channel, maps, queue, worker, cache, tables, hist>>

Tick ==
  /\ sched = "select" /\ pending # NoJobs
  /\ drained' = pending /\ pending' = NoJobs
  /\ sched' = "drain"
  /\ UNCHANGED <<channel, registry, queue, worker, cache, tables, hist>>

\* StreamingRegistry::on_event: a new token at the cap evicts one with the
\* oldest last_event_at, the first in key order.
Oldest ==
  CHOOSE m \in Registered : \A k \in Registered :
    registry[m] < registry[k] \/ (registry[m] = registry[k] /\ m <= k)

OnEvent(m, t) ==
  registry' =
    IF m \in Registered THEN [registry EXCEPT ![m] = Later(@, t)]
    ELSE [k \in Mint |-> IF k = m THEN t
                         ELSE IF Cardinality(Registered) >= MaxTokens /\ k = Oldest
                         THEN 0 ELSE registry[k]]

\* The next job of the drained map: it is registered, then offered to the
\* queue; a full queue refuses it.  (The queue is closed only once every
\* worker has returned, which takes the end of this task.)
Enqueue(m) ==
  /\ sched = "drain" /\ drained[m] # 0
  /\ \A k \in Mint : drained[k] # 0 => m <= k
  /\ OnEvent(m, drained[m])
  /\ IF Len(queue) < QueueCap
     THEN /\ queue' = Append(queue, [mint |-> m, time |-> drained[m]])
          /\ UNCHANGED settled
     ELSE /\ settled' = [settled EXCEPT ![m] = Later(@, drained[m])]
          /\ UNCHANGED queue
  /\ drained' = [drained EXCEPT ![m] = 0]
  /\ sched' = IF drained' = NoJobs THEN "select" ELSE "drain"
  /\ UNCHANGED <<channel, pending, worker, cache, tables, accepted>>

(***************************************************************************)
(* A worker.                                                               *)
(***************************************************************************)
Take(w) ==
  /\ worker[w].at = "idle" /\ queue # <<>>
  /\ worker' = [worker EXCEPT ![w] = [at |-> "detect", job |-> Head(queue), score |-> 0]]
  /\ queue' = Tail(queue)
  /\ UNCHANGED <<channel, sched, maps, cache, tables, hist>>

\* Altered Exit: try_recv, which does not wait for the next job.
ExitWhenEmpty(w) ==
  /\ worker[w].at = "idle" /\ queue = <<>>
  /\ worker' = [worker EXCEPT ![w].at = "exited"]
  /\ UNCHANGED <<channel, sched, maps, queue, cache, tables, hist>>

\* recv on a closed channel still yields what is in it.
Exit(w) ==
  /\ worker[w].at = "idle" /\ queue = <<>> /\ sched = "done"
  /\ worker' = [worker EXCEPT ![w].at = "exited"]
  /\ UNCHANGED <<channel, sched, maps, queue, cache, tables, hist>>

\* The detectors answer from the tables, which change all the time, or fail
\* one way or another.
Detect(w) ==
  /\ worker[w].at = "detect"
  /\ \E s \in Score :
       worker' = [worker EXCEPT ![w].at = "persist", ![w].score = s]
  /\ UNCHANGED <<channel, sched, maps, queue, cache, tables, hist>>

\* evaluate_token returned, Ok or Err: the worker waits for the next job.
Finished(w) ==
  /\ worker' = [worker EXCEPT ![w] = Idle]
  /\ settled' = [settled EXCEPT ![worker[w].job.mint] = Later(@, worker[w].job.time)]

\* Altered PersistFails: the error is logged and the evaluation goes on.
PersistFailsLogged(w) ==
  /\ worker[w].at = "persist" /\ worker[w].score > 0
  /\ worker' = [worker EXCEPT ![w].at = "score"]
  /\ UNCHANGED <<channel, sched, maps, queue, cache, tables, hist>>

\* insert_anomaly_events fails: evaluate_token returns Err.
PersistFails(w) ==
  /\ worker[w].at = "persist" /\ worker[w].score > 0
  /\ Finished(w)
  /\ UNCHANGED <<channel, sched, maps, queue, cache, tables, accepted>>

\* The events, if any, are inserted whatever the scores; the cache takes the
\* scores whatever comes after.
Persist(w) ==
  /\ worker[w].at = "persist"
  /\ anomalies' = IF worker[w].score > 0 THEN anomalies \union {worker[w].job}
                  ELSE anomalies
  /\ cache' = [cache EXCEPT ![w][worker[w].job.mint] = worker[w].score]

Moved(w) ==
  LET known == cache[w][worker[w].job.mint] IN
    \/ known = None
    \/ worker[w].score - known >= Delta
    \/ known - worker[w].score >= Delta

\* Below the threshold: no scoring, no upsert.
PersistAndSkip(w) ==
  /\ Persist(w) /\ ~Moved(w)
  /\ Finished(w)
  /\ UNCHANGED <<channel, sched, maps, queue, reports, accepted>>

PersistAndScore(w) ==
  /\ Persist(w) /\ Moved(w)
  /\ worker' = [worker EXCEPT ![w].at = "score"]
  /\ UNCHANGED <<channel, sched, maps, queue, reports, hist>>

\* registry.enrich fails, or the upsert does (logged).
ScoreFails(w) ==
  /\ worker[w].at = "score"
  /\ Finished(w)
  /\ UNCHANGED <<channel, sched, maps, queue, cache, tables, accepted>>

\* Altered Stored: one row per token.
StoredPerToken(m, t, s) ==
  {r \in reports : r.mint # m} \union {[mint |-> m, time |-> t, score |-> s]}

\* ON CONFLICT (chain, token, window_end) DO UPDATE.
Stored(m, t, s) ==
  {r \in reports : ~(r.mint = m /\ r.time = t)}
    \union {[mint |-> m, time |-> t, score |-> s]}

Upsert(w) ==
  /\ worker[w].at = "score"
  /\ reports' = Stored(worker[w].job.mint, worker[w].job.time, worker[w].score)
  /\ Finished(w)
  /\ UNCHANGED <<channel, sched, maps, queue, cache, anomalies, accepted>>

Evaluate(w) ==
  \/ Detect(w) \/ PersistFails(w) \/ PersistAndSkip(w) \/ PersistAndScore(w)
  \/ ScoreFails(w) \/ Upsert(w)

Environment ==
  \/ \E m \in Mint, t \in 0..MaxTime : Publish(m, t)
  \/ CloseChannel

Receiving == Receive \/ ReceiveLagged \/ ReceiveClosed
Draining  == \E m \in Mint : Enqueue(m)
Working(w) == Take(w) \/ Exit(w) \/ Evaluate(w)

Next ==
  \/ Environment \/ Receiving \/ Tick \/ Draining
  \/ \E w \in Workers : Working(w)

Spec == Init /\ [][Next]_vars

\* The tasks run, their awaits return (a detector's after its time-out at the
\* latest), and the scheduler's select passes over no ready branch for ever.
FairSpec ==
  /\ Spec
  /\ SF_vars(Receiving) /\ SF_vars(Tick) /\ WF_vars(Draining)
  /\ \A w \in Workers : WF_vars(Working(w))

(***************************************************************************)
(* Properties.                                                             *)
(***************************************************************************)
\* A job of m at time t or later is somewhere on its way, or done with.
Carried(m, t) ==
  \/ pending[m] >= t \/ drained[m] >= t \/ settled[m] >= t
  \/ \E i \in 1..Len(queue) : queue[i].mint = m /\ queue[i].time >= t
  \/ \E w \in Workers : /\ worker[w].at \notin {"idle", "exited"}
                        /\ worker[w].job.mint = m /\ worker[w].job.time >= t

\* However events are merged, reordered, drained and queued, the newest block
\* time accepted for a token stays with a job of that token until it has been
\* evaluated or refused by a full queue.
NotForgotten == \A m \in Mint : accepted[m] # 0 => Carried(m, accepted[m])

\* A report with a score is backed by anomaly_events rows of the same job
\* (worker.rs:20 "`AnomalyEvent` rows are ALWAYS persisted"), whatever other
\* workers evaluated in between.
ReportsBacked ==
  \A r \in reports : r.score > 0 => [mint |-> r.mint, time |-> r.time] \in anomalies

\* What get_latest_token_risk_report returns for a token (ORDER BY
\* computed_at DESC) never goes back in time, though workers finish out of
\* order and events arrive out of order.
Latest(m, S) ==
  {r \in S : r.mint = m /\ \A q \in S : q.mint = m => q.time <= r.time}

LatestNeverGoesBack ==
  [][\A m \in Mint : \A r \in Latest(m, reports) :
       \E q \in Latest(m, reports') : q.time >= r.time]_vars

\* Every accepted invalidation is evaluated (or refused by a full queue),
\* whatever fails in the workers, unless the scheduler is shut down.
Evaluated ==
  \A m \in Mint, t \in Time :
    accepted[m] = t ~> settled[m] >= t \/ sched = "done"

\* When the channel closes the workers finish what is queued and return.
ShutsDown ==
  closed ~> queue = <<>> /\ \A w \in Workers : worker[w].at = "exited"
=============================================================================
