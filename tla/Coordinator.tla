---------------------------- MODULE Coordinator ----------------------------
(***************************************************************************)
(* The service's way down: the adapter tasks of MultiChainCoordinator      *)
(* (crates/indexer/src/coordinator.rs), the bridge that receives their     *)
(* events (crates/server/src/init/coordinator.rs), the periodic tasks, and *)
(* Steps 12-14 of main (crates/server/src/main.rs), which serves until a   *)
(* signal and then waits for the tasks under a time limit.                 *)
(*                                                                         *)
(* An adapter task waits in tx.send with no way out but room in the        *)
(* channel or its closing: what it sends with does not see the shutdown.   *)
(* The events are only counted; the bridge makes nothing of them.          *)
(***************************************************************************)
EXTENDS Naturals

CONSTANTS
  NumAdapters,  \* the active chains; with none start() returns NoAdapters
  ChannelCap,   \* the capacity of the coordinator channel
  MaxYields     \* bound: events an adapter's stream yields

VARIABLES
  signalled,  \* SIGTERM or SIGINT has arrived
  cancelled,  \* the token of ShutdownSignal
  adapter,    \* adapter task -> next (at the select), sending, gone
  yielded,    \* adapter task -> events its stream has yielded
  channel,    \* events in the channel
  bridge,     \* receiving, or gone
  rx,         \* the receiver of the channel is alive
  task,       \* periodic task -> waiting, batch, gone
  main,       \* serving, draining, complete, timed_out, failed
  awaited     \* handles main has awaited

adapters == <<adapter, yielded>>
channels == <<channel, bridge, rx>>
vars == <<signalled, cancelled, adapters, channels, task, main, awaited>>

Adapters == 1..NumAdapters
Periodic == {"labeller", "rescore", "discovery"}
Exited   == main \in {"complete", "timed_out", "failed"}

\* The handle main awaits as the i-th has ended: the adapter tasks' in the
\* order of start(), then the periodic tasks'.
Ended(i) ==
  IF i \in Adapters THEN adapter[i] = "gone"
  ELSE task[CASE i = NumAdapters + 1 -> "labeller"
              [] i = NumAdapters + 2 -> "rescore"
              [] OTHER               -> "discovery"] = "gone"

\* A periodic task that is disabled or misconfigured ends at once.
Init ==
  /\ signalled = FALSE /\ cancelled = FALSE
  /\ adapter = [a \in Adapters |-> "next"]
  /\ yielded = [a \in Adapters |-> 0]
  /\ channel = 0 /\ bridge = "receiving" /\ rx = TRUE
  /\ task \in [Periodic -> {"waiting", "gone"}]
  /\ main = "serving" /\ awaited = 0

(***************************************************************************)
(* An adapter task.                                                        *)
(***************************************************************************)
\* The select is biased: an event is taken only while nothing is cancelled.
Yield(a) ==
  /\ adapter[a] = "next" /\ ~cancelled /\ yielded[a] < MaxYields
  /\ adapter' = [adapter EXCEPT ![a] = "sending"]
  /\ yielded' = [yielded EXCEPT ![a] = @ + 1]
  /\ UNCHANGED <<signalled, cancelled, channels, task, main, awaited>>

SendEvent(a) ==
  /\ adapter[a] = "sending" /\ rx /\ channel < ChannelCap
  /\ adapter' = [adapter EXCEPT ![a] = "next"] /\ channel' = channel + 1
  /\ UNCHANGED <<signalled, cancelled, yielded, bridge, rx, task, main, awaited>>

StreamEnds(a) ==
  /\ adapter[a] = "next" /\ ~cancelled
  /\ adapter' = [adapter EXCEPT ![a] = "gone"]
  /\ UNCHANGED <<signalled, cancelled, yielded, channels, task, main, awaited>>

\* Shutdown, or the receiver is gone.
AdapterLeaves(a) ==
  /\ \/ adapter[a] = "next" /\ cancelled
     \/ adapter[a] = "sending" /\ ~rx
  /\ adapter' = [adapter EXCEPT ![a] = "gone"]
  /\ UNCHANGED <<signalled, cancelled, yielded, channels, task, main, awaited>>

(***************************************************************************)
(* The bridge.                                                             *)
(***************************************************************************)
Receive ==
  /\ bridge = "receiving" /\ ~cancelled /\ channel > 0
  /\ channel' = channel - 1
  /\ UNCHANGED <<signalled, cancelled, adapters, bridge, rx, task, main, awaited>>

\* Altered Closes: the receiver is kept outside the task.
ClosesTaskOnly == bridge' = "gone" /\ UNCHANGED <<rx, channel>>

\* The receiver and the events in the channel go with the task.
Closes == bridge' = "gone" /\ rx' = FALSE /\ channel' = 0

\* Shutdown, or every sender is gone and the channel is empty.
BridgeLeaves ==
  /\ bridge = "receiving"
  /\ cancelled \/ (channel = 0 /\ \A a \in Adapters : adapter[a] = "gone")
  /\ Closes
  /\ UNCHANGED <<signalled, cancelled, adapters, task, main, awaited>>

(***************************************************************************)
(* The periodic tasks.  A batch of the smart-money labeller is awaited in  *)
(* the branch of the select: the shutdown does not interrupt it.  The ticks *)
(* of the other two await nothing.                                         *)
(***************************************************************************)
StartBatch ==
  /\ task["labeller"] = "waiting" /\ ~cancelled
  /\ task' = [task EXCEPT !["labeller"] = "batch"]
  /\ UNCHANGED <<signalled, cancelled, adapters, channels, main, awaited>>

EndBatch ==
  /\ task["labeller"] = "batch"
  /\ task' = [task EXCEPT !["labeller"] = "waiting"]
  /\ UNCHANGED <<signalled, cancelled, adapters, channels, main, awaited>>

TaskLeaves(p) ==
  /\ task[p] = "waiting" /\ cancelled
  /\ task' = [task EXCEPT ![p] = "gone"]
  /\ UNCHANGED <<signalled, cancelled, adapters, channels, main, awaited>>

(***************************************************************************)
(* The signal and main.                                                    *)
(***************************************************************************)
Signal ==
  /\ ~signalled /\ signalled' = TRUE
  /\ UNCHANGED <<cancelled, adapters, channels, task, main, awaited>>

\* The listener task of from_os_signals.
Cancel ==
  /\ signalled /\ ~cancelled /\ cancelled' = TRUE
  /\ UNCHANGED <<signalled, adapters, channels, task, main, awaited>>

\* run_gateway returns once the signal has come and its requests are answered.
GatewayStops ==
  /\ main = "serving" /\ signalled
  /\ cancelled' = TRUE /\ main' = "draining"
  /\ UNCHANGED <<signalled, adapters, channels, task, awaited>>

\* The address cannot be bound, or serving fails: main returns the error.
GatewayFails ==
  /\ main = "serving" /\ main' = "failed"
  /\ UNCHANGED <<signalled, cancelled, adapters, channels, task, awaited>>

\* Altered Await: the last handle is dropped instead of awaited.
AwaitAllButLast ==
  /\ main = "draining" /\ awaited < NumAdapters + 2 /\ Ended(awaited + 1)
  /\ awaited' = awaited + 1
  /\ main' = IF awaited' = NumAdapters + 2 THEN "complete" ELSE main
  /\ UNCHANGED <<signalled, cancelled, adapters, channels, task>>

\* join() and the three handles after it, one after the other.
Await ==
  /\ main = "draining" /\ Ended(awaited + 1)
  /\ awaited' = awaited + 1
  /\ main' = IF awaited' = NumAdapters + 3 THEN "complete" ELSE main
  /\ UNCHANGED <<signalled, cancelled, adapters, channels, task>>

DrainTimeout ==
  /\ main = "draining" /\ main' = "timed_out"
  /\ UNCHANGED <<signalled, cancelled, adapters, channels, task, awaited>>

\* With the end of main the process and all its tasks end.
Next ==
  /\ ~Exited
  /\ \/ \E a \in Adapters : Yield(a) \/ SendEvent(a) \/ StreamEnds(a) \/ AdapterLeaves(a)
     \/ Receive \/ BridgeLeaves
     \/ StartBatch \/ EndBatch \/ \E p \in Periodic : TaskLeaves(p)
     \/ Signal \/ Cancel \/ GatewayStops \/ GatewayFails \/ Await \/ DrainTimeout

Spec == Init /\ [][Next]_vars

(***************************************************************************)
(* Properties.                                                             *)
(***************************************************************************)
\* main reports the drain as complete only when the adapter tasks and the
\* periodic tasks have ended, those that were in the middle of a send or of a
\* batch included.
DrainHonest ==
  main = "complete" =>
    /\ \A a \in Adapters : adapter[a] = "gone"
    /\ \A p \in Periodic : task[p] = "gone"
=============================================================================
