---------------------------- MODULE ReorgBuffer ----------------------------
(***************************************************************************)
(* The sliding window of block headers that tells a reorg from a linear    *)
(* extension (crates/chain-adapter/src/ethereum/reorg.rs).  A header is a  *)
(* record [hash, parent, number]; a buffer is a sequence of headers, the   *)
(* oldest first.                                                           *)
(***************************************************************************)
EXTENDS Naturals, SequencesExt

CONSTANT Capacity  \* reorg_buffer_depth

ASSUME CapacityAssumption == Capacity \in Nat \ {0}

\* The hash of new's parent is the tip's, or nothing is buffered yet.
Extends(headers, new) ==
  headers = <<>> \/ Last(headers).hash = new.parent

\* push_back, then pop_front when over capacity.
Extended(headers, new) ==
  LET longer == Append(headers, new) IN
    IF headers # <<>> /\ Len(longer) > Capacity THEN Tail(longer) ELSE longer

\* Altered ForkPoint: the header before the fork point.
ForkPointBefore(headers, new) ==
  LET i == SelectLastInSeq(headers, LAMBDA h : h.hash = new.parent)
  IN  IF i = 0 THEN 0 ELSE i - 1

\* rposition of the parent, 0 when it is not buffered.
ForkPoint(headers, new) ==
  SelectLastInSeq(headers, LAMBDA h : h.hash = new.parent)

\* Altered Evicted: skip(idx + 1) with idx already one-based.
EvictedOneShort(headers, new) ==
  SubSeq(headers, ForkPoint(headers, new) + 2, Len(headers))

\* The headers after the fork point: all of them when it is not buffered.
Evicted(headers, new) ==
  SubSeq(headers, ForkPoint(headers, new) + 1, Len(headers))

\* truncate or clear, then push_back.
Forked(headers, new) ==
  Append(SubSeq(headers, 1, ForkPoint(headers, new)), new)

\* ReorgBuffer::push: the headers kept, and the numbers to mark reverted.
Push(headers, new) ==
  IF Extends(headers, new)
  THEN [headers |-> Extended(headers, new), reverted |-> <<>>]
  ELSE [headers |-> Forked(headers, new),
        reverted |-> [i \in DOMAIN Evicted(headers, new) |->
                        Evicted(headers, new)[i].number]]
=============================================================================
