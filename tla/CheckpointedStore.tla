------------------------- MODULE CheckpointedStore -------------------------
(***************************************************************************)
(* What the indexer promises the readers of its tables, with no task, no   *)
(* buffer and no handler in sight: rows the chain delivered are committed  *)
(* unless the process fails first, only orphaned rows are ever discarded,  *)
(* and the checkpoint never claims a slot of which an owed, still canonical *)
(* row is missing.                                                         *)
(*                                                                         *)
(* `owed' holds the delivered rows that no failure has taken.  Once a      *)
(* reorg clean-up was cut short (`torn') the checkpoint promises nothing.  *)
(***************************************************************************)
EXTENDS Naturals

CONSTANTS MaxSlot, MaxFork

VARIABLES fork, owed, stored, cp, torn

vars == <<fork, owed, stored, cp, torn>>

Slot == 1..MaxSlot
Row  == [table : 1..3, slot : Slot, fork : 0..MaxFork]

Canonical(r) == r.fork = fork[r.slot]

\* A checkpoint at slot c would be covered by the committed rows.
CoveredAt(c) == \A r \in owed : Canonical(r) /\ r.slot <= c => r \in stored

Init ==
  /\ fork = [s \in Slot |-> 0]
  /\ owed = {} /\ stored = {} /\ cp = 0 /\ torn = FALSE

Deliver(r) ==
  /\ Canonical(r) /\ (torn \/ r.slot > cp)
  /\ owed' = owed \union {r}
  /\ UNCHANGED <<fork, stored, cp, torn>>

Reorganise(s) ==
  /\ fork' = [x \in Slot |-> IF x >= s THEN fork[x] + 1 ELSE fork[x]]
  /\ UNCHANGED <<owed, stored, cp, torn>>

Commit(r) ==
  /\ r \in owed
  /\ stored' = stored \union {r}
  /\ UNCHANGED <<fork, owed, cp, torn>>

Discard ==
  /\ stored' \subseteq stored
  /\ \A r \in stored \ stored' : ~Canonical(r)
  /\ UNCHANGED <<fork, owed, cp, torn>>

SaveCheckpoint(c) ==
  /\ torn \/ CoveredAt(c)
  /\ cp' = c
  /\ UNCHANGED <<fork, owed, stored, torn>>

\* The process fails: uncommitted rows are no longer owed; a clean-up that
\* was under way stays unfinished.
Fail ==
  /\ owed' \subseteq owed
  /\ stored \intersect owed \subseteq owed'
  /\ torn' \in {torn, TRUE}
  /\ UNCHANGED <<fork, stored, cp>>

Next ==
  \/ \E r \in Row : Deliver(r) \/ Commit(r)
  \/ \E s \in Slot : Reorganise(s)
  \/ Discard \/ Fail
  \/ \E c \in 0..MaxSlot : SaveCheckpoint(c)

Spec == Init /\ [][Next]_vars
=============================================================================
