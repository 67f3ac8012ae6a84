-------------------------- MODULE StreamingProofs --------------------------
(***************************************************************************)
(* Safety of the streaming detector, for every number of tokens, workers,  *)
(* block times and events and every capacity of the channels: no accepted  *)
(* invalidation is forgotten, reports are backed by events, and the latest *)
(* report of a token never becomes an older one.                           *)
(*                                                                         *)
(* NotForgotten is inductive once the types of the variables it reads are  *)
(* known, and that a tick finds the drained map empty (Types).             *)
(***************************************************************************)
EXTENDS Streaming, TLAPS

Busy == [at : At, job : Job, score : Score]

Types ==
  /\ feed \in Seq(Event)
  /\ sched # "drain" => drained = NoJobs
  /\ pending \in [Mint -> When] /\ drained \in [Mint -> When]
  /\ queue \in Seq(Job)
  /\ worker \in [Workers -> Busy]
  /\ accepted \in [Mint -> When] /\ settled \in [Mint -> When]

(***************************************************************************)
(* The maximum of two block times.                                         *)
(***************************************************************************)
LEMMA WhenNat == When \subseteq Nat /\ 0 \in When /\ Time \subseteq When
  BY StreamingAssumption DEF When, Time

LEMMA LaterType ==
  ASSUME NEW a \in When, NEW b \in When
  PROVE  /\ Later(a, b) \in When
         /\ Later(a, b) >= a /\ Later(a, b) >= b
  BY WhenNat DEF Later

LEMMA AtLeast ==
  ASSUME NEW a \in When, NEW b \in When, NEW t \in When, a >= b, b >= t
  PROVE  a >= t
<1>1. a \in Nat /\ b \in Nat /\ t \in Nat
  BY WhenNat
<1> QED
  BY <1>1

LEMMA NoJobsType == NoJobs \in [Mint -> When]
  BY WhenNat DEF NoJobs

LEMMA IdleType == Idle \in Busy /\ Idle.at = "idle"
<1>1. 1 \in Mint /\ 1 \in Time
  BY StreamingAssumption DEF Mint, Time
<1>2. [mint |-> 1, time |-> 1] \in Job
  BY <1>1 DEF Job
<1>3. 0 \in Score /\ "idle" \in At
  BY StreamingAssumption DEF Score, At
<1> QED
  BY <1>2, <1>3 DEF Idle, Busy

(***************************************************************************)
(* The types are invariant.                                                *)
(***************************************************************************)
LEMMA InitTypes == Init => Types
<1> SUFFICES ASSUME Init PROVE Types
  OBVIOUS
<1>1. <<>> \in Seq(Event) /\ <<>> \in Seq(Job)
  OBVIOUS
<1> QED
  BY <1>1, NoJobsType, IdleType DEF Init, Types

\* A worker that stays with its job keeps its type.
LEMMA WorkerType ==
  ASSUME Types, NEW w \in Workers, NEW a \in At, NEW s \in Score
  PROVE  /\ worker[w] \in Busy /\ worker[w].job \in Job
         /\ worker[w].job.mint \in Mint /\ worker[w].job.time \in Time
         /\ [worker EXCEPT ![w].at = a] \in [Workers -> Busy]
         /\ [worker EXCEPT ![w].at = a, ![w].score = s] \in [Workers -> Busy]
<1>1. worker[w] \in Busy
  BY DEF Types
<1>2. worker[w].job \in Job
  BY <1>1 DEF Busy
<1>3. worker[w].job.mint \in Mint /\ worker[w].job.time \in Time
  BY <1>2 DEF Job
<1>4. [worker EXCEPT ![w].at = a] \in [Workers -> Busy]
  BY DEF Types, Busy
<1>5. [worker EXCEPT ![w].at = a, ![w].score = s] \in [Workers -> Busy]
  BY DEF Types, Busy
<1> QED
  BY <1>1, <1>2, <1>3, <1>4, <1>5

LEMMA FinishedType ==
  ASSUME Types, NEW w \in Workers, Finished(w)
  PROVE  worker' \in [Workers -> Busy] /\ settled' \in [Mint -> When]
<1>1. worker' \in [Workers -> Busy]
  BY IdleType DEF Finished, Types
<1>2. /\ worker[w].job.mint \in Mint
      /\ worker[w].job.time \in When
<2>1. "idle" \in At /\ 0 \in Score
  BY StreamingAssumption DEF At, Score
<2> QED
  BY <2>1, WorkerType, WhenNat
<1>3. Later(settled[worker[w].job.mint], worker[w].job.time) \in When
  BY <1>2, LaterType DEF Types
<1> QED
  BY <1>1, <1>2, <1>3 DEF Finished, Types

LEMMA ReceiveType ==
  ASSUME Types, Receive
  PROVE  /\ feed' \in Seq(Event)
         /\ pending' \in [Mint -> When] /\ accepted' \in [Mint -> When]
<1>1. Head(feed) \in Event /\ Tail(feed) \in Seq(Event)
  BY DEF Types, Receive
<1>2. Head(feed).mint \in Mint /\ Head(feed).time \in When
  BY <1>1 DEF Event
<1>3. /\ Later(pending[Head(feed).mint], Head(feed).time) \in When
      /\ Later(accepted[Head(feed).mint], Head(feed).time) \in When
  BY <1>2, LaterType DEF Types
<1>4. feed' \in Seq(Event)
  BY <1>1 DEF Receive
<1>5. CASE Head(feed).time = 0
  BY <1>4, <1>5 DEF Receive, Types
<1>6. CASE Head(feed).time # 0
  BY <1>3, <1>4, <1>6 DEF Receive, Types, Merge
<1> QED
  BY <1>5, <1>6

LEMMA EnqueueType ==
  ASSUME Types, NEW m \in Mint, Enqueue(m)
  PROVE  /\ queue' \in Seq(Job)
         /\ drained' \in [Mint -> When] /\ settled' \in [Mint -> When]
<1>1. drained[m] \in Time
  BY DEF Types, Enqueue, When
<1>2. [mint |-> m, time |-> drained[m]] \in Job
  BY <1>1 DEF Job
<1>3. Later(settled[m], drained[m]) \in When
  BY <1>1, WhenNat, LaterType DEF Types
<1>4. drained' \in [Mint -> When]
  BY WhenNat DEF Types, Enqueue
<1>5. CASE Len(queue) < QueueCap
<2>1. queue' = Append(queue, [mint |-> m, time |-> drained[m]])
  BY <1>5 DEF Enqueue
<2>2. queue' \in Seq(Job)
  BY <1>2, <2>1 DEF Types
<2> QED
  BY <1>4, <1>5, <2>2 DEF Types, Enqueue
<1>6. CASE ~(Len(queue) < QueueCap)
  BY <1>3, <1>4, <1>6 DEF Types, Enqueue
<1> QED
  BY <1>5, <1>6

LEMMA StepTypes == Types /\ [Next]_vars => Types'
<1> SUFFICES ASSUME Types, [Next]_vars PROVE Types'
  OBVIOUS
<1> USE DEF channel, maps, tables, hist
<1>1. ASSUME NEW m \in Mint, NEW t \in 0..MaxTime, Publish(m, t)
      PROVE  Types'
<2>1. t \in When
  BY <1>1 DEF When, Time
<2>2. [mint |-> m, time |-> t] \in Event
  BY <2>1 DEF Event
<2>3. feed' \in Seq(Event)
<3>1. CASE Len(feed) < Backlog
<4>1. feed' = Append(feed, [mint |-> m, time |-> t])
  BY <1>1, <3>1 DEF Publish
<4>2. feed \in Seq(Event)
  BY DEF Types
<4> QED
  BY <2>2, <4>1, <4>2
<3>2. CASE ~(Len(feed) < Backlog)
<4>1. Tail(feed) \in Seq(Event)
<5>1. feed # <<>>
  BY <3>2, StreamingAssumption
<5> QED
  BY <5>1 DEF Types
<4> QED
  BY <1>1, <2>2, <3>2, <4>1 DEF Publish
<3> QED
  BY <3>1, <3>2
<2> QED
  BY <1>1, <2>3 DEF Types, Publish
<1>2. CASE CloseChannel
  BY <1>2 DEF Types, CloseChannel
<1>3. CASE Receive
  BY <1>3, ReceiveType DEF Types, Receive
<1>4. CASE ReceiveLagged
  BY <1>4 DEF Types, ReceiveLagged
<1>5. CASE ReceiveClosed
  BY <1>5 DEF Types, ReceiveClosed
<1>6. CASE Tick
  BY <1>6, NoJobsType DEF Types, Tick
<1>7. ASSUME NEW m \in Mint, Enqueue(m) PROVE Types'
<2>1. sched' # "drain" => drained' = NoJobs
  BY <1>7 DEF Enqueue
<2> QED
  BY <1>7, <2>1, EnqueueType DEF Types, Enqueue
<1>8. ASSUME NEW w \in Workers, Working(w) PROVE Types'
<2>1. CASE Take(w)
<3>1. Head(queue) \in Job /\ Tail(queue) \in Seq(Job)
  BY <2>1 DEF Take, Types
<3>2. [at |-> "detect", job |-> Head(queue), score |-> 0] \in Busy
  BY <3>1, StreamingAssumption DEF Busy, At, Score
<3> QED
  BY <2>1, <3>1, <3>2 DEF Take, Types
<2>2. CASE Exit(w)
  BY <2>2, WorkerType, IdleType DEF Exit, Types, Busy, At
<2>3. CASE Detect(w)
<3>1. PICK s \in Score :
        worker' = [worker EXCEPT ![w].at = "persist", ![w].score = s]
  BY <2>3 DEF Detect
<3>2. "persist" \in At
  BY DEF At
<3>3. worker' \in [Workers -> Busy]
  BY <3>1, <3>2, WorkerType
<3> QED
  BY <2>3, <3>3 DEF Detect, Types
<2>4. CASE PersistFails(w)
  BY <2>4, FinishedType DEF PersistFails, Types
<2>5. CASE PersistAndSkip(w)
  BY <2>5, FinishedType DEF PersistAndSkip, Types
<2>6. CASE PersistAndScore(w)
<3>1. "score" \in At /\ 0 \in Score
  BY StreamingAssumption DEF At, Score
<3>2. worker' \in [Workers -> Busy]
  BY <2>6, <3>1, WorkerType DEF PersistAndScore
<3> QED
  BY <2>6, <3>2 DEF PersistAndScore, Types
<2>7. CASE ScoreFails(w)
  BY <2>7, FinishedType DEF ScoreFails, Types
<2>8. CASE Upsert(w)
  BY <2>8, FinishedType DEF Upsert, Types
<2> QED
  BY <1>8, <2>1, <2>2, <2>3, <2>4, <2>5, <2>6, <2>7, <2>8
     DEF Working, Evaluate
<1>9. CASE UNCHANGED vars
  BY <1>9 DEF Types, vars
<1> QED
  BY <1>1, <1>2, <1>3, <1>4, <1>5, <1>6, <1>7, <1>8, <1>9
     DEF Next, Environment, Receiving, Draining

(***************************************************************************)
(* The four carriers of a job: a pending or drained entry, the queue, a    *)
(* worker, and the history of what is settled.  Each lemma moves a job     *)
(* from one of them to the next.                                           *)
(***************************************************************************)
InQueue(m, t)  == \E i \in 1..Len(queue) : queue[i].mint = m /\ queue[i].time >= t
Holds(w, m, t) ==
  /\ worker[w].at \notin {"idle", "exited"}
  /\ worker[w].job.mint = m /\ worker[w].job.time >= t
AtWorker(m, t) == \E w \in Workers : Holds(w, m, t)

LEMMA CarriedBy ==
  ASSUME NEW m, NEW t
  PROVE  /\ Carried(m, t) <=>
              \/ pending[m] >= t \/ drained[m] >= t \/ settled[m] >= t
              \/ InQueue(m, t) \/ AtWorker(m, t)
         /\ Carried(m, t)' <=>
              \/ pending'[m] >= t \/ drained'[m] >= t \/ settled'[m] >= t
              \/ InQueue(m, t)' \/ AtWorker(m, t)'
  BY DEF Carried, InQueue, AtWorker, Holds

\* What a finished evaluation held is settled.
LEMMA FinishedCarries ==
  ASSUME Types, NEW w \in Workers, Finished(w),
         NEW m \in Mint, NEW t \in When,
         AtWorker(m, t) \/ settled[m] >= t
  PROVE  AtWorker(m, t)' \/ settled'[m] >= t
<1>1. /\ worker[w].job.mint \in Mint
      /\ worker[w].job.time \in When
<2>1. "idle" \in At /\ 0 \in Score
  BY StreamingAssumption DEF At, Score
<2> QED
  BY <2>1, WorkerType, WhenNat
<1> DEFINE n == worker[w].job.mint
           new == Later(settled[n], worker[w].job.time)
<1>2. /\ settled[n] \in When /\ settled[m] \in When
      /\ new \in When /\ new >= settled[n] /\ new >= worker[w].job.time
  BY <1>1, LaterType DEF Types
<1>3. settled' = [settled EXCEPT ![n] = new]
  BY DEF Finished
<1>4. settled'[m] = IF m = n THEN new ELSE settled[m]
  BY <1>1, <1>3 DEF Types
<1>5. CASE settled[m] >= t
<2>1. CASE m = n
  BY <1>2, <1>4, <1>5, <2>1, AtLeast
<2>2. CASE m # n
  BY <1>4, <1>5, <2>2
<2> QED
  BY <2>1, <2>2
<1>6. CASE AtWorker(m, t)
<2>1. PICK v \in Workers : Holds(v, m, t)
  BY <1>6 DEF AtWorker
<2>2. CASE v = w
<3>1. m = n /\ worker[w].job.time >= t
  BY <2>1, <2>2 DEF Holds
<3>2. settled'[m] >= t
  BY <1>1, <1>2, <1>4, <3>1, AtLeast
<3> QED
  BY <3>2
<2>3. CASE v # w
<3>1. worker'[v] = worker[v]
  BY <2>3 DEF Finished, Types
<3>2. Holds(v, m, t)'
  BY <2>1, <3>1 DEF Holds
<3> QED
  BY <3>2 DEF AtWorker
<2> QED
  BY <2>2, <2>3
<1> QED
  BY <1>5, <1>6

\* The job a worker takes was the head of the queue.
LEMMA TakeCarries ==
  ASSUME Types, NEW w \in Workers, Take(w),
         NEW m \in Mint, NEW t \in When,
         AtWorker(m, t) \/ InQueue(m, t)
  PROVE  AtWorker(m, t)' \/ InQueue(m, t)'
<1>1. queue \in Seq(Job) /\ queue # <<>> /\ queue' = Tail(queue)
  BY DEF Types, Take
<1>2. worker' = [worker EXCEPT ![w] = [at |-> "detect", job |-> Head(queue), score |-> 0]]
  BY DEF Take
<1>3. CASE AtWorker(m, t)
<2>1. PICK v \in Workers : Holds(v, m, t)
  BY <1>3 DEF AtWorker
<2>2. v # w
  BY <2>1 DEF Holds, Take
<2>3. worker'[v] = worker[v]
  BY <1>2, <2>2 DEF Types
<2>4. Holds(v, m, t)'
  BY <2>1, <2>3 DEF Holds
<2> QED
  BY <2>4 DEF AtWorker
<1>4. CASE InQueue(m, t)
<2>1. PICK i \in 1..Len(queue) : queue[i].mint = m /\ queue[i].time >= t
  BY <1>4 DEF InQueue
<2>2. CASE i = 1
<3>1. worker'[w] = [at |-> "detect", job |-> queue[1], score |-> 0]
  BY <1>1, <1>2 DEF Types
<3>2. Holds(w, m, t)'
  BY <2>1, <2>2, <3>1 DEF Holds
<3> QED
  BY <3>2 DEF AtWorker
<2>3. CASE i # 1
<3>1. i - 1 \in 1..Len(queue') /\ queue'[i - 1] = queue[i]
  BY <1>1, <2>1, <2>3
<3> QED
  BY <2>1, <3>1 DEF InQueue
<2> QED
  BY <2>2, <2>3
<1> QED
  BY <1>3, <1>4

\* A drained job goes to the queue or is refused and so settled.
LEMMA EnqueueCarries ==
  ASSUME Types, NEW n \in Mint, Enqueue(n),
         NEW m \in Mint, NEW t \in When \ {0},
         drained[m] >= t \/ settled[m] >= t \/ InQueue(m, t)
  PROVE  drained'[m] >= t \/ settled'[m] >= t \/ InQueue(m, t)'
<1>1. /\ drained[m] \in When /\ settled[m] \in When
      /\ drained[n] \in When /\ settled[n] \in When
  BY DEF Types
<1>2. /\ drained' = [drained EXCEPT ![n] = 0]
      /\ m # n => drained'[m] = drained[m]
  BY DEF Enqueue, Types
<1>3. CASE Len(queue) < QueueCap
<2>1. /\ queue \in Seq(Job) /\ settled' = settled
      /\ queue' = Append(queue, [mint |-> n, time |-> drained[n]])
  BY <1>3 DEF Enqueue, Types
<2>2. /\ Len(queue') = Len(queue) + 1
      /\ \A i \in 1..Len(queue) : queue'[i] = queue[i]
      /\ queue'[Len(queue) + 1] = [mint |-> n, time |-> drained[n]]
<3>1. drained[n] \in Time
  BY DEF Types, Enqueue, When
<3>2. [mint |-> n, time |-> drained[n]] \in Job
  BY <3>1 DEF Job
<3> QED
  BY <2>1, <3>2
<2>3. CASE InQueue(m, t)
<3>1. PICK i \in 1..Len(queue) : queue[i].mint = m /\ queue[i].time >= t
  BY <2>3 DEF InQueue
<3>2. i \in 1..Len(queue') /\ queue'[i].mint = m /\ queue'[i].time >= t
  BY <2>1, <2>2, <3>1
<3> QED
  BY <3>2 DEF InQueue
<2>4. CASE drained[m] >= t /\ m = n
<3>1. Len(queue) \in Nat
  BY <2>1
<3>2. Len(queue) + 1 \in 1..Len(queue')
  BY <2>2, <3>1
<3>3. /\ queue'[Len(queue) + 1].mint = m
      /\ queue'[Len(queue) + 1].time >= t
  BY <2>2, <2>4
<3> QED
  BY <3>2, <3>3 DEF InQueue
<2> QED
  BY <1>2, <2>1, <2>3, <2>4
<1>4. CASE ~(Len(queue) < QueueCap)
<2>1. queue' = queue /\ settled' = [settled EXCEPT ![n] = Later(@, drained[n])]
  BY <1>4 DEF Enqueue
<2>2. settled'[m] = IF m = n THEN Later(settled[n], drained[n]) ELSE settled[m]
  BY <2>1 DEF Types
<2>3. CASE InQueue(m, t)
  BY <2>1, <2>3 DEF InQueue
<2>4. CASE m = n /\ (drained[m] >= t \/ settled[m] >= t)
<3>1. /\ Later(settled[n], drained[n]) \in When
      /\ Later(settled[n], drained[n]) >= settled[n]
      /\ Later(settled[n], drained[n]) >= drained[n]
  BY <1>1, LaterType
<3>2. Later(settled[n], drained[n]) >= t
  BY <1>1, <2>4, <3>1, AtLeast
<3> QED
  BY <2>2, <2>4, <3>2
<2> QED
  BY <1>2, <2>2, <2>3, <2>4
<1> QED
  BY <1>3, <1>4

\* A worker that goes on with its job still carries it.
LEMMA WorkerCarries ==
  ASSUME Types, NEW w \in Workers, Exit(w) \/ Detect(w) \/ PersistAndScore(w),
         NEW m \in Mint, NEW t \in When, AtWorker(m, t)
  PROVE  AtWorker(m, t)'
<1>1. PICK v \in Workers : Holds(v, m, t)
  BY DEF AtWorker
<1>2. CASE v # w
<2>1. worker'[v] = worker[v]
  BY <1>2 DEF Exit, Detect, PersistAndScore, Types
<2> QED
  BY <1>1, <2>1 DEF AtWorker, Holds
<1>3. CASE v = w
<2>1. /\ worker'[w].job = worker[w].job
      /\ worker'[w].at \in {"persist", "score"}
  BY <1>1, <1>3 DEF Exit, Detect, PersistAndScore, Types, Busy, Holds
<2> QED
  BY <1>1, <1>3, <2>1 DEF AtWorker, Holds
<1> QED
  BY <1>2, <1>3

(***************************************************************************)
(* Every step but Receive leaves a carried job carried.                    *)
(***************************************************************************)
Moving ==
  \/ Environment \/ ReceiveLagged \/ ReceiveClosed \/ Tick \/ Draining
  \/ \E w \in Workers : Working(w)

LEMMA MovingCarries ==
  ASSUME Types, Moving \/ UNCHANGED vars,
         NEW m \in Mint, NEW t \in When \ {0}, Carried(m, t)
  PROVE  Carried(m, t)' /\ accepted' = accepted
<1>1. CASE Environment \/ ReceiveLagged \/ ReceiveClosed \/ UNCHANGED vars
<2>1. UNCHANGED <<pending, drained, queue, worker, accepted, settled>>
  BY <1>1 DEF Environment, Publish, CloseChannel, ReceiveLagged, ReceiveClosed,
              maps, hist, vars
<2> QED
  BY <2>1 DEF Carried
<1>2. CASE Tick
<2>1. /\ drained = NoJobs /\ drained' = pending
      /\ UNCHANGED <<queue, worker, accepted, settled>>
  BY <1>2 DEF Tick, Types, hist
<2>2. ~(drained[m] >= t)
<3>1. drained[m] = 0 /\ t \in Nat \ {0}
  BY <2>1, WhenNat DEF NoJobs
<3> QED
  BY <3>1
<2> QED
  BY <2>1, <2>2 DEF Carried
<1>3. ASSUME NEW n \in Mint, Enqueue(n) PROVE Carried(m, t)' /\ accepted' = accepted
<2>1. UNCHANGED <<pending, worker, accepted>>
  BY <1>3 DEF Enqueue
<2>2. AtWorker(m, t)' <=> AtWorker(m, t)
  BY <2>1 DEF AtWorker, Holds
<2> QED
  BY <1>3, <2>1, <2>2, CarriedBy, EnqueueCarries
<1>4. ASSUME NEW w \in Workers, Working(w)
      PROVE  Carried(m, t)' /\ accepted' = accepted
<2>1. CASE Take(w)
<3>1. UNCHANGED <<pending, drained, accepted, settled>>
  BY <2>1 DEF Take, maps, hist
<3> QED
  BY <2>1, <3>1, CarriedBy, TakeCarries
<2>2. CASE Exit(w) \/ Detect(w) \/ PersistAndScore(w)
<3>1. UNCHANGED <<pending, drained, queue, accepted, settled>>
  BY <2>2 DEF Exit, Detect, PersistAndScore, maps, hist
<3>2. InQueue(m, t)' <=> InQueue(m, t)
  BY <3>1 DEF InQueue
<3> QED
  BY <2>2, <3>1, <3>2, CarriedBy, WorkerCarries
<2>3. CASE PersistFails(w) \/ PersistAndSkip(w) \/ ScoreFails(w) \/ Upsert(w)
<3>1. Finished(w) /\ UNCHANGED <<pending, drained, queue, accepted>>
  BY <2>3 DEF PersistFails, PersistAndSkip, ScoreFails, Upsert, maps
<3>2. InQueue(m, t)' <=> InQueue(m, t)
  BY <3>1 DEF InQueue
<3> QED
  BY <3>1, <3>2, CarriedBy, FinishedCarries
<2> QED
  BY <1>4, <2>1, <2>2, <2>3 DEF Working, Evaluate
<1> QED
  BY <1>1, <1>2, <1>3, <1>4 DEF Moving, Draining

\* What Receive accepts is pending, at the newest time or later.
LEMMA ReceiveCarries ==
  ASSUME Types, Receive, NEW m \in Mint,
         accepted[m] # 0 => Carried(m, accepted[m])
  PROVE  accepted'[m] # 0 => Carried(m, accepted[m])'
<1> DEFINE e == Head(feed)
<1>1. e \in Event
  BY DEF Receive, Types
<1>2. e.mint \in Mint /\ e.time \in When
  BY <1>1 DEF Event
<1>3. UNCHANGED <<drained, queue, worker, settled>>
  BY DEF Receive
<1>4. CASE e.time = 0
<2>1. UNCHANGED <<pending, accepted>>
  BY <1>4 DEF Receive
<2> QED
  BY <1>3, <2>1 DEF Carried
<1>5. CASE e.time # 0
<2>1. /\ pending' = [pending EXCEPT ![e.mint] = Later(@, e.time)]
      /\ accepted' = [accepted EXCEPT ![e.mint] = Later(@, e.time)]
  BY <1>5 DEF Receive, Merge
<2>2. CASE m # e.mint
<3>1. pending'[m] = pending[m] /\ accepted'[m] = accepted[m]
  BY <2>1, <2>2 DEF Types
<3> QED
  BY <1>3, <3>1 DEF Carried
<2>3. CASE m = e.mint
<3>1. /\ pending'[m] = Later(pending[m], e.time)
      /\ accepted'[m] = Later(accepted[m], e.time)
  BY <1>2, <2>1, <2>3 DEF Types
<3>2. /\ accepted[m] \in Nat /\ pending[m] \in Nat /\ e.time \in Nat
  BY <1>2, WhenNat DEF Types
<3>3. CASE accepted[m] > e.time
<4>1. accepted'[m] = accepted[m] /\ accepted[m] # 0
  BY <3>1, <3>2, <3>3 DEF Later
<4>2. pending'[m] >= pending[m]
  BY <1>2, <2>3, <3>1, LaterType DEF Types
<4>3. pending[m] >= accepted[m] => pending'[m] >= accepted[m]
<5>1. pending'[m] \in Nat
  BY <3>1, <3>2 DEF Later
<5> QED
  BY <3>2, <4>2, <5>1
<4> QED
  BY <1>3, <4>1, <4>3 DEF Carried
<3>4. CASE ~(accepted[m] > e.time)
<4>1. accepted'[m] = e.time
  BY <3>1, <3>4 DEF Later
<4>2. pending'[m] >= e.time
  BY <1>2, <2>3, <3>1, LaterType DEF Types
<4> QED
  BY <4>1, <4>2 DEF Carried
<3> QED
  BY <3>3, <3>4
<2> QED
  BY <2>2, <2>3
<1> QED
  BY <1>4, <1>5

(***************************************************************************)
(* The invariant.                                                          *)
(***************************************************************************)
LEMMA InitNotForgotten == Init => NotForgotten
  BY DEF Init, NotForgotten, NoJobs

LEMMA StepNotForgotten ==
  Types /\ NotForgotten /\ [Next]_vars => NotForgotten'
<1> SUFFICES ASSUME Types, NotForgotten, [Next]_vars, NEW m \in Mint
             PROVE  accepted'[m] # 0 => Carried(m, accepted[m])'
  BY DEF NotForgotten
<1>1. CASE Receive
  BY <1>1, ReceiveCarries DEF NotForgotten
<1>2. CASE Moving \/ UNCHANGED vars
<2>1. CASE accepted[m] = 0
<3>1. accepted' = accepted
  BY <1>2 DEF Moving, Environment, Publish, CloseChannel, ReceiveLagged,
       ReceiveClosed, Tick, Draining, Enqueue, Working, Take, Exit, Evaluate,
       Detect, PersistFails, PersistAndSkip, PersistAndScore, ScoreFails,
       Upsert, hist, vars
<3> QED
  BY <2>1, <3>1
<2>2. CASE accepted[m] # 0
<3>1. PICK t \in When \ {0} : t = accepted[m]
  BY <2>2 DEF Types
<3>2. Carried(m, t)
  BY <2>2, <3>1 DEF NotForgotten
<3>3. Carried(m, t)' /\ accepted' = accepted
  BY <1>2, <3>2, MovingCarries
<3> QED
  BY <3>1, <3>3 DEF Carried
<2> QED
  BY <2>1, <2>2
<1> QED
  BY <1>1, <1>2 DEF Next, Moving, Receiving

\* Whatever the order of events, ticks, refusals and failures, the newest
\* block time DetectorScheduler::run took from the channel for a token stays
\* with a job of the token until a worker is done with it or try_send refused
\* it.
THEOREM NeverForgotten == Spec => []NotForgotten
<1>1. Init => Types /\ NotForgotten
  BY InitTypes, InitNotForgotten
<1>2. Types /\ NotForgotten /\ [Next]_vars => (Types /\ NotForgotten)'
  BY StepTypes, StepNotForgotten
<1> QED
  BY <1>1, <1>2, PTL DEF Spec

(***************************************************************************)
(* The tables.  The events of a job are in anomaly_events before its       *)
(* scores can get into a report, and nothing takes them out (Persisted).   *)
(***************************************************************************)
Report == [mint : Mint, time : Time, score : Score]

Persisted ==
  \A w \in Workers :
    worker[w].at = "score" /\ worker[w].score > 0 => worker[w].job \in anomalies

Tables == Types /\ reports \subseteq Report /\ Persisted /\ ReportsBacked

LEMMA JobFields ==
  ASSUME Types, NEW w \in Workers
  PROVE  /\ worker[w].job = [mint |-> worker[w].job.mint, time |-> worker[w].job.time]
         /\ worker[w].job.mint \in Mint /\ worker[w].job.time \in Time
         /\ worker[w].score \in Score
<1>1. worker[w] \in Busy
  BY DEF Types
<1> QED
  BY <1>1 DEF Busy, Job

\* A worker that is done holds no scores.
LEMMA FinishedPersisted ==
  ASSUME Types, Persisted, NEW w \in Workers, Finished(w),
         anomalies \subseteq anomalies'
  PROVE  Persisted'
<1>1. \A v \in Workers : worker'[v] = IF v = w THEN Idle ELSE worker[v]
  BY DEF Finished, Types
<1> QED
  BY <1>1 DEF Persisted, Idle

LEMMA WorkingKeepsTables ==
  ASSUME Tables, Types', NEW w \in Workers, Working(w)
  PROVE  Tables'
<1>1. CASE Take(w) \/ Exit(w) \/ Detect(w)
<2>1. UNCHANGED <<anomalies, reports>>
  BY <1>1 DEF Take, Exit, Detect, tables
<2>2. \A v \in Workers : worker'[v].at = "score" => worker'[v] = worker[v]
<3>1. CASE Take(w)
  BY <3>1 DEF Take, Tables, Types
<3>2. CASE Exit(w)
  BY <3>2 DEF Exit, Tables, Types, Busy
<3>3. CASE Detect(w)
  BY <3>3 DEF Detect, Tables, Types, Busy
<3> QED
  BY <1>1, <3>1, <3>2, <3>3
<2> QED
  BY <2>1, <2>2 DEF Tables, Persisted, ReportsBacked
<1>2. CASE PersistFails(w) \/ ScoreFails(w)
<2>1. UNCHANGED <<anomalies, reports>> /\ Finished(w)
  BY <1>2 DEF PersistFails, ScoreFails, tables
<2> QED
  BY <2>1, FinishedPersisted DEF Tables, ReportsBacked
<1>3. CASE PersistAndSkip(w)
<2>1. anomalies \subseteq anomalies' /\ UNCHANGED reports /\ Finished(w)
  BY <1>3 DEF PersistAndSkip, Persist
<2> QED
  BY <2>1, FinishedPersisted DEF Tables, ReportsBacked
<1>4. CASE PersistAndScore(w)
<2>1. /\ anomalies \subseteq anomalies' /\ UNCHANGED reports
      /\ worker[w].score > 0 => worker[w].job \in anomalies'
  BY <1>4 DEF PersistAndScore, Persist
<2>2. \A v \in Workers : /\ worker'[v].job = worker[v].job
                         /\ worker'[v].score = worker[v].score
                         /\ v # w => worker'[v].at = worker[v].at
  BY <1>4 DEF PersistAndScore, Tables, Types, Busy
<2>3. Persisted'
  BY <2>1, <2>2 DEF Tables, Persisted
<2> QED
  BY <2>1, <2>3 DEF Tables, ReportsBacked
<1>5. CASE Upsert(w)
<2>1. /\ reports' = Stored(worker[w].job.mint, worker[w].job.time, worker[w].score)
      /\ UNCHANGED anomalies /\ Finished(w) /\ worker[w].at = "score"
  BY <1>5 DEF Upsert
<2>2. /\ worker[w].job = [mint |-> worker[w].job.mint, time |-> worker[w].job.time]
      /\ worker[w].job.mint \in Mint /\ worker[w].job.time \in Time
      /\ worker[w].score \in Score
  BY JobFields DEF Tables
<2>3. reports' \subseteq Report
  BY <2>1, <2>2 DEF Stored, Report, Tables
<2>4. ReportsBacked'
  BY <2>1, <2>2 DEF Stored, Tables, Persisted, ReportsBacked
<2> QED
  BY <2>1, <2>3, <2>4, FinishedPersisted DEF Tables
<1> QED
  BY <1>1, <1>2, <1>3, <1>4, <1>5 DEF Working, Evaluate

LEMMA StepTables == Tables /\ [Next]_vars => Tables'
<1> SUFFICES ASSUME Tables, [Next]_vars PROVE Tables'
  OBVIOUS
<1>1. Types'
  BY StepTypes DEF Tables
<1>2. CASE \E w \in Workers : Working(w)
  BY <1>1, <1>2, WorkingKeepsTables
<1>3. CASE ~ \E w \in Workers : Working(w)
<2>1. UNCHANGED <<worker, anomalies, reports>>
  BY <1>3 DEF Next, Environment, Receiving, Draining, Publish, CloseChannel, Receive,
     ReceiveLagged, ReceiveClosed, Tick, Enqueue, tables, vars
<2> QED
  BY <1>1, <2>1 DEF Tables, Persisted, ReportsBacked
<1> QED
  BY <1>2, <1>3

\* For every number of workers, jobs and scores: a report with a score is backed
\* by the anomaly_events rows of the same job (evaluate_token persists before it
\* scores).
THEOREM ReportsAreBacked == Spec => []ReportsBacked
<1>1. Init => Tables
<2>1. Init => Types
  BY InitTypes
<2> QED
  BY <2>1 DEF Init, Tables, Persisted, ReportsBacked, Idle
<1>2. Tables => ReportsBacked
  BY DEF Tables
<1> QED
  BY <1>1, <1>2, StepTables, PTL DEF Spec

\* One row that is at least as new takes the place of another.
LEMMA StoredLatest ==
  ASSUME reports \subseteq Report, NEW m \in Mint, NEW t \in Time, NEW s \in Score,
         reports' = Stored(m, t, s),
         NEW n \in Mint, NEW r \in Latest(n, reports)
  PROVE  \E q \in Latest(n, reports') : q.time >= r.time
<1> DEFINE new == [mint |-> m, time |-> t, score |-> s]
<1>1. t \in Nat /\ \A q \in reports : q.time \in Nat
  BY StreamingAssumption DEF Report, Time
<1>2. /\ r \in reports /\ r.mint = n
      /\ \A q \in reports : q.mint = n => q.time <= r.time
  BY DEF Latest
<1>3. /\ new \in reports' /\ new.mint = m /\ new.time = t
      /\ \A q \in reports' : q = new \/ q \in reports
      /\ \A q \in reports : q.mint # m \/ q.time # t => q \in reports'
  BY DEF Stored
<1>4. CASE n = m /\ t >= r.time
<2>1. \A q \in reports' : q.mint = n => q.time <= t
  BY <1>1, <1>2, <1>3, <1>4
<2> QED
  BY <1>3, <1>4, <2>1 DEF Latest
<1>5. CASE ~(n = m /\ t >= r.time)
<2>1. r \in reports'
  BY <1>1, <1>2, <1>3, <1>5
<2>2. \A q \in reports' : q.mint = n => q.time <= r.time
  BY <1>1, <1>2, <1>3, <1>5
<2> QED
  BY <1>1, <1>2, <2>1, <2>2 DEF Latest
<1> QED
  BY <1>4, <1>5

\* However workers overtake each other: what get_latest_token_risk_report returns
\* for a token never goes back in time (ON CONFLICT (chain, token, window_end)).
THEOREM LatestIsMonotone == Spec => LatestNeverGoesBack
<1>1. ASSUME Tables, [Next]_vars, NEW m \in Mint, NEW r \in Latest(m, reports)
      PROVE  \E q \in Latest(m, reports') : q.time >= r.time
<2>1. CASE UNCHANGED reports
<3>1. r.time \in Nat
  BY <1>1, StreamingAssumption DEF Latest, Tables, Report, Time
<3> QED
  BY <1>1, <2>1, <3>1
<2>2. CASE \E w \in Workers : Upsert(w)
<3>1. PICK w \in Workers : Upsert(w)
  BY <2>2
<3>2. reports' = Stored(worker[w].job.mint, worker[w].job.time, worker[w].score)
  BY <3>1 DEF Upsert
<3>3. worker[w].job.mint \in Mint /\ worker[w].job.time \in Time /\ worker[w].score \in Score
  BY <1>1, JobFields DEF Tables
<3>4. PICK n \in Mint, t \in Time, s \in Score :
        n = worker[w].job.mint /\ t = worker[w].job.time /\ s = worker[w].score
  BY <3>3
<3> QED
  BY <1>1, <3>2, <3>4, StoredLatest DEF Tables
<2>3. UNCHANGED reports \/ \E w \in Workers : Upsert(w)
  BY <1>1 DEF Next, Environment, Receiving, Draining, Publish, CloseChannel, Receive,
     ReceiveLagged, ReceiveClosed, Tick, Enqueue, tables, vars, Working, Evaluate,
     Take, Exit, Detect, PersistFails, PersistAndSkip, PersistAndScore, ScoreFails
<2> QED
  BY <2>1, <2>2, <2>3
<1>2. Tables /\ [Next]_vars
        => [\A m \in Mint : \A r \in Latest(m, reports) :
              \E q \in Latest(m, reports') : q.time >= r.time]_vars
  BY <1>1
<1>3. Init => Tables
<2>1. Init => Types
  BY InitTypes
<2> QED
  BY <2>1 DEF Init, Tables, Persisted, ReportsBacked, Idle
<1> QED
  BY <1>2, <1>3, StepTables, PTL DEF Spec, LatestNeverGoesBack
=============================================================================
