--------------------------- MODULE SolanaBackfill ---------------------------
(***************************************************************************)
(* Filling in history: the task of build_backfill_stream                   *)
(* (crates/chain-adapter/src/solana/backfill.rs), and the consumer its     *)
(* checkpoint file is made for (solana/checkpoint.rs, header): it stores   *)
(* the events, saves a checkpoint at each SlotFinalized through            *)
(* FileCheckpointStore, and after a crash resumes behind the one it loads. *)
(* No consumer of this commit does so yet, hence it is external.           *)
(***************************************************************************)
EXTENDS Integers, Sequences

CONSTANTS
  Slots,      \* bound: the range to fill in is 1..Slots
  MaxEvents,  \* bound: events of a block
  StreamCap,  \* capacity of the stream (256)
  MaxStarts   \* bound: starts of the consumer's process

VARIABLES
  block,    \* the chain: slot -> number of events, or None for a skipped slot
  pc,       \* the task: off, next, fetch, retry, sending, reporting, done
  slot,     \* the slot it is at
  event,    \* the next event of the slot's block
  stream,   \* what it has sent and nobody has read
  consumer, \* down, reading, writing, written
  starts,   \* starts of the process so far
  saving,   \* the slot being saved
  tmp,      \* the temporary file: None, Partial, or a slot
  file,     \* the checkpoint file, likewise
  stored,   \* events in the database, as pairs of slot and number
  unread    \* history: slots given up because the node did not answer

task == <<pc, slot, event>>
disk == <<tmp, file>>
consuming == <<consumer, starts, saving, disk, stored>>
vars == <<block, task, stream, consuming, unread>>

\* No slot and no number of events is negative.
None    == -1   \* Option::None
Partial == -2   \* a file that was not written to the end
Final   == -3   \* SlotFinalized, in the place of an event's number
Failed  == -4   \* Err, likewise

Init ==
  /\ block \in [1..Slots -> 0..MaxEvents \union {None}]
  /\ pc = "off" /\ slot = 1 /\ event = 1 /\ stream = <<>>
  /\ consumer = "down" /\ starts = 0 /\ saving = 0
  /\ tmp = None /\ file = None /\ stored = {} /\ unread = {}

(***************************************************************************)
(* The task.                                                               *)
(***************************************************************************)
\* The loop over the range, left when it ends or the receiver is gone.
NextSlot ==
  /\ pc = "next"
  /\ pc' = IF slot > Slots \/ consumer = "down" THEN "done" ELSE "fetch"
  /\ UNCHANGED <<block, slot, event, stream, consuming, unread>>

\* Altered Block: a slot is finalized before its events are sent.
BlockFinalizedFirst ==
  /\ pc \in {"fetch", "retry"} /\ block[slot] # None
  /\ Len(stream) < StreamCap /\ consumer # "down"
  /\ pc' = "sending" /\ event' = 1
  /\ stream' = Append(stream, <<slot, Final>>)
  /\ UNCHANGED <<block, slot, consuming, unread>>

\* getBlock: Ok(Some(block)).
Block ==
  /\ pc \in {"fetch", "retry"} /\ block[slot] # None
  /\ pc' = "sending" /\ event' = 1
  /\ UNCHANGED <<block, slot, stream, consuming, unread>>

Skip ==
  /\ pc' = "next" /\ slot' = slot + 1
  /\ UNCHANGED <<block, event, stream, consuming>>

\* Ok(None): the leader produced no block.
NoBlock ==
  /\ pc \in {"fetch", "retry"} /\ block[slot] = None
  /\ Skip
  /\ UNCHANGED unread

\* An error in the body of a successful response has no result either, and is
\* taken for a skipped slot.
ErrorBody ==
  /\ pc \in {"fetch", "retry"}
  /\ Skip
  /\ unread' = unread \union {slot}

\* Any other error of the first request: the slot is given up.
RpcError ==
  /\ pc = "fetch"
  /\ Skip
  /\ unread' = unread \union {slot}

RateLimited ==
  /\ pc = "fetch"
  /\ pc' = "retry"
  /\ UNCHANGED <<block, slot, event, stream, consuming, unread>>

\* The one retry fails: the error is sent and the task ends.
RetryFails ==
  /\ pc = "retry"
  /\ pc' = "reporting"
  /\ UNCHANGED <<block, slot, event, stream, consuming, unread>>

Send(item) ==
  IF consumer = "down" THEN UNCHANGED stream
  ELSE Len(stream) < StreamCap /\ stream' = Append(stream, item)

SendEvent ==
  /\ pc = "sending" /\ event <= block[slot]
  /\ Send(<<slot, event>>)
  /\ pc' = IF consumer = "down" THEN "done" ELSE "sending"
  /\ event' = event + 1
  /\ UNCHANGED <<block, slot, consuming, unread>>

\* SlotFinalized, sent whether or not somebody reads it.
SendFinalized ==
  /\ pc = "sending" /\ event > block[slot]
  /\ Send(<<slot, Final>>)
  /\ pc' = "next" /\ slot' = slot + 1
  /\ UNCHANGED <<block, event, consuming, unread>>

Report ==
  /\ pc = "reporting"
  /\ Send(<<slot, Failed>>)
  /\ pc' = "done"
  /\ UNCHANGED <<block, slot, event, consuming, unread>>

(***************************************************************************)
(* The consumer.                                                           *)
(***************************************************************************)
\* Start: load() gives None or the checkpoint, which must parse; the stream
\* begins behind it.
Start ==
  /\ consumer = "down" /\ starts < MaxStarts /\ pc \in {"off", "done"}
  /\ file # Partial
  /\ consumer' = "reading" /\ starts' = starts + 1 /\ stream' = <<>>
  /\ pc' = "next" /\ slot' = IF file = None THEN 1 ELSE file + 1
  /\ UNCHANGED <<block, event, saving, disk, stored, unread>>

Read ==
  /\ consumer = "reading" /\ stream # <<>>
  /\ LET item == Head(stream) IN
     IF item[2] = Final
     THEN /\ consumer' = "writing" /\ saving' = item[1] /\ tmp' = Partial
          /\ UNCHANGED stored
     ELSE /\ stored' = stored \union (IF item[2] = Failed THEN {} ELSE {item})
          /\ UNCHANGED <<consumer, saving, tmp>>
  /\ stream' = Tail(stream)
  /\ UNCHANGED <<block, task, starts, file, unread>>

\* save: fs::write to the temporary file, then fs::rename.
Write ==
  /\ consumer = "writing"
  /\ consumer' = "written" /\ tmp' = saving
  /\ UNCHANGED <<block, task, stream, starts, saving, file, stored, unread>>

Rename ==
  /\ consumer = "written"
  /\ file' = tmp /\ tmp' = None /\ consumer' = "reading"
  /\ UNCHANGED <<block, task, stream, starts, saving, stored, unread>>

\* The stream is dropped: the task notices at its next send.
Drop ==
  /\ consumer = "reading"
  /\ consumer' = "down" /\ stream' = <<>>
  /\ UNCHANGED <<block, task, starts, saving, disk, stored, unread>>

\* The process dies, and the task with it.
Crash ==
  /\ consumer # "down"
  /\ consumer' = "down" /\ stream' = <<>> /\ pc' = "off"
  /\ UNCHANGED <<block, slot, event, starts, saving, disk, stored, unread>>

Next ==
  \/ NextSlot \/ Block \/ NoBlock \/ ErrorBody \/ RpcError \/ RateLimited
  \/ RetryFails \/ SendEvent \/ SendFinalized \/ Report
  \/ Start \/ Read \/ Write \/ Rename \/ Drop \/ Crash

Spec == Init /\ [][Next]_vars

(***************************************************************************)
(* Properties.                                                             *)
(***************************************************************************)
\* checkpoint.rs, header: a crash re-emits events and loses none.  Wherever
\* the process dies, the file can be read and every event up to its slot is
\* stored, unless the node did not answer for the slot, which the task passes
\* over without a word to the consumer.
CheckpointResumes ==
  /\ file # Partial
  /\ file # None =>
       \A s \in 1..file :
         \/ block[s] = None \/ s \in unread
         \/ \A k \in 1..block[s] : <<s, k>> \in stored
=============================================================================
