--------------------------- MODULE DetectionProofs ---------------------------
(***************************************************************************)
(* Safety of what a new pool sets off (Launches), of the labels of wallets *)
(* (SmartMoney), of the changepoint model (Bocpd) and of the reports       *)
(* (Scoring), for every number of tokens, workers, blocks, reorgs,         *)
(* failures, swaps, launches, slots, events and half-lives.                *)
(***************************************************************************)
EXTENDS MCDetection, TLAPS, SequenceTheorems,
  FiniteSetTheorems, WellFoundedInduction

(***************************************************************************)
(* Launches.  A block of the canonical chain sits at its height (Chained). *)
(* Whatever a table or the deployer's row has of the chain is canonical,   *)
(* or is taken back by the reorg in hand, until the step that takes it     *)
(* out, or was taken back by one not handled to its end (Placed).          *)
(***************************************************************************)
Pool == [token : Tokens, height : Nat, fork : Nat]

PoolSteps == {"graph", "d09_load", "d09_save", "d10", "route"}
ReorgSteps == {"rewind", "graph_reorg", "hook_reorg"}

Chained ==
  /\ canonical \in Seq(Pool) /\ fork \in Nat
  /\ Len(canonical) <= MaxHeight
  /\ \A i \in 1..Len(canonical) :
       canonical[i].height = i /\ canonical[i].fork <= fork

\* The event the run loop handles is the chain's last.
Handled ==
  /\ step \in {"idle", "down"} \union PoolSteps \union ReorgSteps
  /\ step \in PoolSteps =>
       /\ handling \in Pools!Canonical
       /\ handling.height = Len(canonical)
  /\ step \in ReorgSteps =>
       /\ handling.slot = Len(canonical) + 1
       /\ \A p \in taken : p.height >= handling.slot
  /\ step \notin ReorgSteps => taken = {}

\* A pool is on the chain, or a reorg takes it back or should have.
Placed(p) == p \in Pools!Canonical \/ p \in taken \/ p \in torn

\* A row of bocpd_deployer_state that only the hook wrote.
HookRow(row) == ~row.reevaluated =>
  /\ row.height \in Nat
  /\ \A p \in row.seen :
       Placed(p) /\ (p \notin torn => p.height \in Nat /\ p.height <= row.height)

HookRows ==
  /\ DOMAIN loaded = Pools!Tasks
  /\ state # <<>> => HookRow(state)
  /\ step = "d09_save" =>
       (~loaded["indexer"].reevaluated =>
          loaded["indexer"].seen \subseteq Pools!Canonical \union torn)

\* The pools in the table and in the batcher.
PoolRows ==
  /\ \A p \in pool_events : Placed(p) /\ p.height \in Nat
  /\ \A p \in buffered : Placed(p) /\ p.height \in Nat
  /\ step \in {"graph_reorg", "hook_reorg"} =>
       pool_events \subseteq Pools!Canonical \union torn /\ buffered = {}

\* No pool a reorg took back can come again: a new one has a later fork.
Outdated ==
  \A p \in processed : p \in Pool /\ (p \in Pools!Canonical \/ p.fork < fork)

First(p) ==
  ~ \E q \in Pools!Canonical : q.token = p.token /\ q.height < p.height

\* A lower pool of the token is left from a reorg not handled to its end.
Misled(p) == \E q \in torn : q.token = p.token /\ q.height < p.height

Audited ==
  /\ \A p \in processed \cap Pools!Canonical : First(p) => p \in audits \/ Misled(p)
  /\ step = "route" /\ First(handling) => handling \in audits \/ Misled(handling)

PoolInv == Chained /\ Handled /\ HookRows /\ PoolRows /\ Outdated /\ Audited

LEMMA PoolsStart == Pools!Init => PoolInv
<1> SUFFICES ASSUME Pools!Init PROVE PoolInv
  OBVIOUS
<1>1. Chained
  BY DetectionAssumption DEF Pools!Init, Chained
<1>2. HookRows
  BY DEF Pools!Init, HookRows, Pools!Nothing
<1> QED
  BY <1>1, <1>2 DEF Pools!Init, PoolInv, Handled, PoolSteps, ReorgSteps, PoolRows,
     Outdated, Audited

LEMMA CanonicalHeights ==
  ASSUME Chained, NEW p \in Pools!Canonical
  PROVE  p \in Pool /\ p.height \in 1..Len(canonical) /\ p.fork <= fork
         /\ canonical[p.height] = p
<1>1. PICK i \in 1..Len(canonical) : p = canonical[i]
  BY DEF Pools!Canonical, Chained
<1> QED
  BY <1>1 DEF Chained

\* What does not move the chain, the run loop's place or the rows in question
\* keeps what is said of them.
LEMMA NotMoved ==
  ASSUME PoolInv, UNCHANGED <<canonical, fork>>
  PROVE  /\ Chained' /\ Pools!Canonical' = Pools!Canonical
         /\ \A p : First(p)' <=> First(p)
  BY DEF PoolInv, Chained, Pools!Canonical, First

\* Those excused stay excused.
LEMMA StaysMisled == torn \subseteq torn' => \A p : Misled(p) => Misled(p)'
BY DEF Misled

LEMMA InitializeKeeps ==
  ASSUME PoolInv, Pools!Initialize
  PROVE  PoolInv'
<1>1. PICK t \in Tokens :
        LET pool == [token |-> t, height |-> Len(canonical) + 1, fork |-> fork]
        IN  canonical' = Append(canonical, pool) /\ handling' = pool
  BY DEF Pools!Initialize
<1> DEFINE pool == [token |-> t, height |-> Len(canonical) + 1, fork |-> fork]
<1>2. canonical' = Append(canonical, pool) /\ handling' = pool
  BY <1>1
<1>3. step = "idle" /\ step' = "graph" /\ fork' = fork /\ Len(canonical) < MaxHeight
      /\ UNCHANGED <<taken, torn, buffered, pool_events, audits, processed, state, loaded>>
  BY DEF Pools!Initialize, Pools!tables
<1>4. Chained
  BY DEF PoolInv
<1>5. Len(canonical) \in Nat /\ fork \in Nat /\ canonical \in Seq(Pool)
  BY <1>4 DEF Chained
<1>6. pool \in Pool
  BY <1>5 DEF Pool
<1> HIDE DEF pool
<1>7. /\ canonical' \in Seq(Pool) /\ Len(canonical') = Len(canonical) + 1
      /\ canonical'[Len(canonical) + 1] = pool
      /\ \A i \in 1..Len(canonical) : canonical'[i] = canonical[i]
  BY <1>2, <1>5, <1>6
<1>8. pool.height = Len(canonical) + 1 /\ pool.fork = fork
  BY DEF pool
<1>9. Chained'
<2> SUFFICES ASSUME NEW i \in 1..Len(canonical')
             PROVE  canonical'[i].height = i /\ canonical'[i].fork <= fork'
  BY <1>3, <1>5, <1>7, DetectionAssumption DEF Chained
<2>1. CASE i = Len(canonical) + 1
  BY <1>3, <1>5, <1>7, <1>8, <2>1
<2>2. CASE i # Len(canonical) + 1
<3>1. i \in 1..Len(canonical)
  BY <1>5, <1>7, <2>2
<3> QED
  BY <1>3, <1>4, <1>7, <3>1 DEF Chained
<2> QED
  BY <2>1, <2>2
<1>10. Pools!Canonical' = Pools!Canonical \union {pool}
<2>1. Pools!Canonical = {canonical[i] : i \in 1..Len(canonical)}
  BY <1>5 DEF Pools!Canonical
<2>2. Pools!Canonical' = {canonical'[i] : i \in 1..Len(canonical) + 1}
  BY <1>7 DEF Pools!Canonical
<2>3. 1..Len(canonical) + 1 = (1..Len(canonical)) \union {Len(canonical) + 1}
  BY <1>5
<2> QED
  BY <1>7, <2>1, <2>2, <2>3
<1>11. Handled'
  BY <1>2, <1>3, <1>7, <1>8, <1>10 DEF PoolInv, Handled, PoolSteps, ReorgSteps
<1>12. \A p : Placed(p) => Placed(p)'
  BY <1>3, <1>10 DEF Placed
<1>13. HookRows'
  BY <1>3, <1>12 DEF PoolInv, HookRows, HookRow
<1>14. PoolRows'
  BY <1>3, <1>12 DEF PoolInv, PoolRows
<1>15. Outdated'
  BY <1>3, <1>10 DEF PoolInv, Outdated
<1>16. pool \notin processed
<2>1. pool \notin Pools!Canonical
  BY <1>4, <1>5, <1>8, CanonicalHeights
<2> QED
  BY <1>5, <1>8, <2>1 DEF PoolInv, Outdated
<1>17. \A p \in Pools!Canonical : First(p)' => First(p)
  BY <1>10 DEF First
<1>18. Audited'
  BY <1>3, <1>10, <1>16, <1>17, StaysMisled DEF PoolInv, Audited
<1> QED
  BY <1>9, <1>11, <1>13, <1>14, <1>15, <1>18 DEF PoolInv

\* A reorg takes back the pools from its slot on, and no others; what was first
\* of its token on what is left was so before.
LEMMA ChainCut ==
  ASSUME PoolInv, NEW slot \in DOMAIN canonical, Pools!Reorganised(slot)
  PROVE  /\ Chained' /\ slot \in Nat /\ slot = Len(canonical') + 1
         /\ Pools!Canonical' = {p \in Pools!Canonical : p.height < slot}
         /\ Pools!Canonical = Pools!Canonical' \union Pools!TakenFrom(slot)
         /\ \A p \in processed : p \in Pool /\ p.fork < fork'
         /\ \A p \in Pools!Canonical' : First(p)' => First(p)
<1>1. canonical' = SubSeq(canonical, 1, slot - 1) /\ fork' = fork + 1
  BY DEF Pools!Reorganised
<1>2. Chained
  BY DEF PoolInv
<1>3. slot \in 1..Len(canonical) /\ fork \in Nat /\ canonical \in Seq(Pool)
      /\ Len(canonical) \in Nat
  BY <1>2 DEF Chained
<1>4. /\ canonical' \in Seq(Pool) /\ Len(canonical') = slot - 1
      /\ \A i \in 1..slot - 1 : canonical'[i] = canonical[i]
  BY <1>1, <1>3
<1>5. Chained'
<2>1. Len(canonical') <= MaxHeight
  BY <1>2, <1>3, <1>4, DetectionAssumption DEF Chained
<2>2. \A i \in 1..Len(canonical') :
        canonical'[i].height = i /\ canonical'[i].fork <= fork'
<3> SUFFICES ASSUME NEW i \in 1..Len(canonical')
             PROVE  canonical'[i].height = i /\ canonical'[i].fork <= fork'
  OBVIOUS
<3>1. i \in 1..Len(canonical) /\ canonical'[i] = canonical[i]
  BY <1>3, <1>4
<3>2. canonical[i] \in Pool
  BY <1>3, <3>1
<3>3. canonical[i].fork \in Nat
  BY <3>2 DEF Pool
<3>4. canonical[i].height = i /\ canonical[i].fork <= fork /\ fork' = fork + 1
  BY <1>1, <1>2, <3>1 DEF Chained
<3> QED
  BY <1>3, <3>1, <3>3, <3>4
<2> QED
  BY <1>1, <1>3, <1>4, <2>1, <2>2 DEF Chained
<1>6. Pools!Canonical' = {p \in Pools!Canonical : p.height < slot}
<2>1. Pools!Canonical = {canonical[i] : i \in 1..Len(canonical)}
  BY <1>3 DEF Pools!Canonical
<2>2. Pools!Canonical' = {canonical[i] : i \in 1..slot - 1}
  BY <1>4 DEF Pools!Canonical
<2>3. \A i \in 1..Len(canonical) : canonical[i].height < slot <=> i \in 1..slot - 1
  BY <1>2, <1>3 DEF Chained
<2>4. 1..slot - 1 \subseteq 1..Len(canonical)
  BY <1>3
<2> QED
  BY <2>1, <2>2, <2>3, <2>4
<1>7. Pools!Canonical = Pools!Canonical' \union Pools!TakenFrom(slot)
<2>1. \A p \in Pools!Canonical : p.height < slot \/ p.height >= slot
  BY <1>2, <1>3, CanonicalHeights
<2> QED
  BY <1>6, <2>1 DEF Pools!TakenFrom
<1>8. ASSUME NEW p \in processed PROVE p \in Pool /\ p.fork < fork'
<2>1. p \in Pool /\ (p \in Pools!Canonical \/ p.fork < fork)
  BY DEF PoolInv, Outdated
<2>2. p.fork \in Nat /\ (p \in Pools!Canonical => p.fork <= fork)
  BY <1>2, <2>1, CanonicalHeights DEF Pool
<2> QED
  BY <1>1, <1>3, <2>1, <2>2
<1>9. ASSUME NEW p \in Pools!Canonical', First(p)' PROVE First(p)
<2> SUFFICES ASSUME NEW q \in Pools!Canonical,
                    q.token = p.token, q.height < p.height
             PROVE  q \in Pools!Canonical'
  BY <1>9 DEF First
<2>1. p.height < slot /\ p.height \in Nat /\ q.height \in Nat
  BY <1>2, <1>6, CanonicalHeights
<2> QED
  BY <1>3, <1>6, <2>1
<1> QED
  BY <1>3, <1>4, <1>5, <1>6, <1>7, <1>8, <1>9

LEMMA ReorgMarkerKeeps ==
  ASSUME PoolInv, Pools!ReorgMarker
  PROVE  PoolInv'
<1>1. PICK slot \in DOMAIN canonical :
        /\ Pools!Reorganised(slot)
        /\ handling' = [slot |-> slot] /\ taken' = Pools!TakenFrom(slot)
  BY DEF Pools!ReorgMarker
<1>2. step = "idle" /\ step' = "rewind"
      /\ UNCHANGED <<torn, buffered, pool_events, audits, processed, state, loaded>>
  BY DEF Pools!ReorgMarker, Pools!tables
<1>3. /\ Chained' /\ slot \in Nat /\ slot = Len(canonical') + 1
      /\ Pools!Canonical' = {p \in Pools!Canonical : p.height < slot}
      /\ Pools!Canonical = Pools!Canonical' \union Pools!TakenFrom(slot)
      /\ \A p \in processed : p \in Pool /\ p.fork < fork'
      /\ \A p \in Pools!Canonical' : First(p)' => First(p)
  BY <1>1, ChainCut
<1>4. Handled'
<2>1. handling'.slot = slot /\ \A p \in taken' : p.height >= slot
  BY <1>1 DEF Pools!TakenFrom
<2> QED
  BY <1>2, <1>3, <2>1 DEF Handled, PoolSteps, ReorgSteps
<1>5. \A p : Placed(p) => Placed(p)'
  BY <1>1, <1>2, <1>3 DEF PoolInv, Handled, Placed, ReorgSteps
<1>6. HookRows'
  BY <1>2, <1>5 DEF PoolInv, HookRows, HookRow
<1>7. PoolRows'
  BY <1>2, <1>5 DEF PoolInv, PoolRows
<1>8. Outdated'
  BY <1>2, <1>3 DEF Outdated
<1>9. Audited'
  BY <1>2, <1>3, StaysMisled DEF PoolInv, Audited
<1> QED
  BY <1>3, <1>4, <1>6, <1>7, <1>8, <1>9 DEF PoolInv

\* What an untold reorg takes back is excused from then on.
LEMMA ReorgUntoldKeeps ==
  ASSUME PoolInv, Pools!ReorgUntold
  PROVE  PoolInv'
<1>1. PICK slot \in DOMAIN canonical :
        Pools!Reorganised(slot) /\ torn' = torn \union Pools!TakenFrom(slot)
  BY DEF Pools!ReorgUntold
<1>2. step = "down"
      /\ UNCHANGED <<step, handling, taken, buffered, pool_events, audits, processed,
                     state, loaded>>
  BY DEF Pools!ReorgUntold, Pools!loop, Pools!tables
<1>3. /\ Chained'
      /\ Pools!Canonical' = {p \in Pools!Canonical : p.height < slot}
      /\ Pools!Canonical = Pools!Canonical' \union Pools!TakenFrom(slot)
      /\ \A p \in processed : p \in Pool /\ p.fork < fork'
      /\ \A p \in Pools!Canonical' : First(p)' => First(p)
  BY <1>1, ChainCut
<1>4. Handled'
  BY <1>2 DEF PoolInv, Handled, PoolSteps, ReorgSteps
<1>5. torn \subseteq torn' /\ \A p : Placed(p) => Placed(p)'
  BY <1>1, <1>2, <1>3 DEF Placed
<1>6. HookRows'
  BY <1>2, <1>5 DEF PoolInv, HookRows, HookRow
<1>7. PoolRows'
  BY <1>2, <1>5 DEF PoolInv, PoolRows
<1>8. Outdated'
  BY <1>2, <1>3 DEF Outdated
<1>9. Audited'
  BY <1>2, <1>3, <1>5, StaysMisled DEF PoolInv, Audited
<1> QED
  BY <1>3, <1>4, <1>6, <1>7, <1>8, <1>9 DEF PoolInv

\* A step within the handling of an event moves neither the chain nor the event.
LEMMA StepOn ==
  ASSUME PoolInv, UNCHANGED <<canonical, fork, handling, taken, torn>>,
         \/ step \in PoolSteps /\ step' \in PoolSteps
         \/ step \in ReorgSteps /\ step' \in ReorgSteps
  PROVE  /\ Chained' /\ Handled'
         /\ Pools!Canonical' = Pools!Canonical
         /\ \A p : (Placed(p)' <=> Placed(p)) /\ (First(p)' <=> First(p))
         /\ \A p : Misled(p) => Misled(p)'
<1>1. Chained' /\ Pools!Canonical' = Pools!Canonical
      /\ \A p : First(p)' <=> First(p)
  BY NotMoved
<1>2. Handled'
  BY <1>1 DEF PoolInv, Handled, PoolSteps, ReorgSteps
<1>3. \A p : Placed(p)' <=> Placed(p)
  BY <1>1 DEF Placed
<1> QED
  BY <1>1, <1>2, <1>3, StaysMisled

LEMMA WriteEdgesKeeps ==
  ASSUME PoolInv, Pools!WriteEdges
  PROVE  PoolInv'
<1>1. /\ step = "graph" /\ step' = "d09_load"
      /\ UNCHANGED <<canonical, fork, torn, taken, handling, buffered, pool_events,
                     audits, processed, state, loaded>>
  BY DEF Pools!WriteEdges, Pools!chain
<1>2. /\ Chained' /\ Handled' /\ Pools!Canonical' = Pools!Canonical
      /\ \A p : (Placed(p)' <=> Placed(p)) /\ (First(p)' <=> First(p))
      /\ \A p : Misled(p) => Misled(p)'
  BY <1>1, StepOn DEF PoolSteps
<1>3. HookRows'
  BY <1>1, <1>2 DEF PoolInv, HookRows, HookRow
<1>4. PoolRows' /\ Outdated' /\ Audited'
  BY <1>1, <1>2 DEF PoolInv, PoolRows, Outdated, Audited
<1> QED
  BY <1>2, <1>3, <1>4 DEF PoolInv

LEMMA HookLoadsKeeps ==
  ASSUME PoolInv, Pools!HookLoads
  PROVE  PoolInv'
<1>1. /\ step = "d09_load" /\ step' = "d09_save"
      /\ loaded' = [loaded EXCEPT !["indexer"] = Pools!Row(state)]
      /\ UNCHANGED <<canonical, fork, torn, taken, handling, buffered, pool_events,
                     audits, processed, state>>
  BY DEF Pools!HookLoads, Pools!chain, Pools!tables
<1>2. /\ Chained' /\ Handled' /\ Pools!Canonical' = Pools!Canonical
      /\ \A p : (Placed(p)' <=> Placed(p)) /\ (First(p)' <=> First(p))
      /\ \A p : Misled(p) => Misled(p)'
  BY <1>1, StepOn DEF PoolSteps
<1>3. HookRows'
<2>1. DOMAIN loaded' = Pools!Tasks /\ loaded'["indexer"] = Pools!Row(state)
  BY <1>1 DEF PoolInv, HookRows, Pools!Tasks
<2>2. state' # <<>> => HookRow(state)'
  BY <1>1, <1>2 DEF PoolInv, HookRows, HookRow
<2>3. ~Pools!Row(state).reevaluated =>
        Pools!Row(state).seen \subseteq Pools!Canonical \union torn
<3>1. CASE state = <<>>
  BY <3>1 DEF Pools!Row, Pools!Nothing, Pools!NoRow
<3>2. CASE state # <<>>
<4>1. Pools!Row(state) = state
  BY <3>2 DEF Pools!Row, Pools!Nothing
<4>2. \A p : Placed(p) => p \in Pools!Canonical \union torn
  BY <1>1 DEF PoolInv, Handled, Placed, ReorgSteps
<4> QED
  BY <3>2, <4>1, <4>2 DEF PoolInv, HookRows, HookRow
<3> QED
  BY <3>1, <3>2
<2> QED
  BY <1>1, <1>2, <2>1, <2>2, <2>3 DEF HookRows
<1>4. PoolRows' /\ Outdated' /\ Audited'
  BY <1>1, <1>2 DEF PoolInv, PoolRows, Outdated, Audited
<1> QED
  BY <1>2, <1>3, <1>4 DEF PoolInv

\* The upsert of the hook: its copy was loaded while the same event was handled,
\* and the block it adds is the chain's highest.
LEMMA HookSavesKeeps ==
  ASSUME PoolInv, Pools!HookSaves
  PROVE  PoolInv'
<1>1. /\ step = "d09_save" /\ step' = "d10"
      /\ state' = Pools!Saved(loaded["indexer"], handling, handling.height, FALSE)
      /\ loaded' = [loaded EXCEPT !["indexer"] = <<>>]
      /\ UNCHANGED <<canonical, fork, torn, taken, handling, buffered, pool_events,
                     audits, processed>>
  BY DEF Pools!HookSaves, Pools!chain, Pools!tables, Pools!Nothing
<1>2. /\ Chained' /\ Handled' /\ Pools!Canonical' = Pools!Canonical
      /\ \A p : (Placed(p)' <=> Placed(p)) /\ (First(p)' <=> First(p))
      /\ \A p : Misled(p) => Misled(p)'
  BY <1>1, StepOn DEF PoolSteps
<1>3. HookRows'
<2>1. DOMAIN loaded' = Pools!Tasks
  BY <1>1 DEF PoolInv, HookRows
<2>2. Chained /\ handling \in Pools!Canonical /\ handling.height = Len(canonical)
  BY <1>1 DEF PoolInv, Handled, PoolSteps
<2>3. state'.height = handling.height /\ handling.height \in Nat
<3>1. Len(canonical) \in Nat /\ Len(canonical) <= MaxI64
  BY <2>2, DetectionAssumption DEF Chained
<3> QED
  BY <1>1, <2>2, <3>1, DetectionAssumption DEF Pools!Saved, Pools!AsI64
<2>4. /\ state'.seen = loaded["indexer"].seen \union {handling}
      /\ state'.reevaluated = (loaded["indexer"].reevaluated \/ FALSE)
  BY <1>1 DEF Pools!Saved
<2>5. ~state'.reevaluated => state'.seen \subseteq Pools!Canonical \union torn
  BY <1>1, <2>2, <2>4 DEF PoolInv, HookRows
<2>6. \A p \in Pools!Canonical : Placed(p) /\ p.height \in Nat /\ p.height <= Len(canonical)
  BY <2>2, CanonicalHeights DEF Placed
<2>7. HookRow(state)'
<3>1. \A p \in torn : Placed(p)
  BY DEF Placed
<3> QED
  BY <1>1, <1>2, <2>2, <2>3, <2>5, <2>6, <3>1 DEF HookRow
<2> QED
  BY <1>1, <2>1, <2>7 DEF HookRows
<1>4. PoolRows' /\ Outdated' /\ Audited'
  BY <1>1, <1>2 DEF PoolInv, PoolRows, Outdated, Audited
<1> QED
  BY <1>2, <1>3, <1>4 DEF PoolInv

\* What the guard of D10 counts is on the chain, or excuses the pool.
LEMMA AuditKeeps ==
  ASSUME PoolInv, Pools!Audit
  PROVE  PoolInv'
<1>1. /\ step = "d10" /\ step' = "route"
      /\ audits' = IF Pools!FirstPool(handling) THEN audits \union {handling} ELSE audits
      /\ UNCHANGED <<canonical, fork, torn, taken, handling, buffered, pool_events,
                     processed, state, loaded>>
  BY DEF Pools!Audit, Pools!chain
<1>2. /\ Chained' /\ Handled' /\ Pools!Canonical' = Pools!Canonical
      /\ \A p : (Placed(p)' <=> Placed(p)) /\ (First(p)' <=> First(p))
      /\ \A p : Misled(p) => Misled(p)'
  BY <1>1, StepOn DEF PoolSteps
<1>3. HookRows'
  BY <1>1, <1>2 DEF PoolInv, HookRows, HookRow
<1>4. PoolRows' /\ Outdated'
  BY <1>1, <1>2 DEF PoolInv, PoolRows, Outdated
<1>5. First(handling) => Pools!FirstPool(handling) \/ Misled(handling)
<2>1. \A p \in pool_events : p \in Pools!Canonical \union torn
  BY <1>1 DEF PoolInv, Handled, PoolRows, Placed, ReorgSteps
<2> QED
  BY <2>1 DEF First, Misled, Pools!FirstPool
<1>6. Audited'
  BY <1>1, <1>2, <1>5 DEF PoolInv, Audited
<1> QED
  BY <1>2, <1>3, <1>4, <1>6 DEF PoolInv

LEMMA RouteKeeps ==
  ASSUME PoolInv, Pools!Route
  PROVE  PoolInv'
<1>1. /\ step = "route" /\ step' = "idle" /\ processed' = processed \union {handling}
      /\ UNCHANGED <<canonical, fork, torn, taken, audits, state, loaded>>
  BY DEF Pools!Route, Pools!chain
<1>2. /\ Chained' /\ Pools!Canonical' = Pools!Canonical
      /\ \A p : First(p)' <=> First(p)
  BY <1>1, NotMoved
<1>3. Handled'
  BY <1>1 DEF PoolInv, Handled, PoolSteps, ReorgSteps
<1>4. \A p : Placed(p) => Placed(p)'
  BY <1>1, <1>2 DEF Placed
<1>6. handling \in Pool /\ handling \in Pools!Canonical
  BY <1>1, CanonicalHeights DEF PoolInv, Handled, PoolSteps
<1>7. HookRows'
  BY <1>1, <1>4 DEF PoolInv, HookRows, HookRow
<1>8. PoolRows'
<2>1. /\ pool_events' \subseteq pool_events \union buffered \union {handling}
      /\ buffered' \subseteq buffered \union {handling}
  BY DEF Pools!Route
<2>2. \A p \in pool_events \union buffered \union {handling} :
        Placed(p) /\ p.height \in Nat
  BY <1>6 DEF PoolInv, PoolRows, Placed, Pool
<2> QED
  BY <1>1, <1>4, <2>1, <2>2 DEF PoolRows
<1>9. Outdated' /\ Audited'
  BY <1>1, <1>2, <1>6, StaysMisled DEF PoolInv, Outdated, Audited
<1> QED
  BY <1>2, <1>3, <1>7, <1>8, <1>9 DEF PoolInv

\* The rows the reorg leaves are not those it takes back.
LEMMA HandleReorgKeeps ==
  ASSUME PoolInv, Pools!HandleReorg
  PROVE  PoolInv'
<1>1. /\ step = "rewind" /\ step' = "graph_reorg"
      /\ pool_events' = Pools!KeptRows(pool_events \union buffered, handling.slot)
      /\ buffered' = {}
      /\ UNCHANGED <<canonical, fork, torn, taken, handling, audits, processed, state,
                     loaded>>
  BY DEF Pools!HandleReorg, Pools!chain
<1>2. /\ Chained' /\ Handled' /\ Pools!Canonical' = Pools!Canonical
      /\ \A p : (Placed(p)' <=> Placed(p)) /\ (First(p)' <=> First(p))
      /\ \A p : Misled(p) => Misled(p)'
  BY <1>1, StepOn DEF ReorgSteps
<1>3. HookRows'
  BY <1>1, <1>2 DEF PoolInv, HookRows, HookRow
<1>4. PoolRows'
<2>1. handling.slot \in Nat
  BY <1>1 DEF PoolInv, Chained, Handled, ReorgSteps
<2>2. \A p \in pool_events' :
        p \in pool_events \union buffered /\ p.height < handling.slot
  BY <1>1 DEF Pools!KeptRows
<2>3. \A p \in pool_events' :
        p \in Pools!Canonical \union torn /\ Placed(p) /\ p.height \in Nat
<3> SUFFICES ASSUME NEW p \in pool_events'
             PROVE  p \in Pools!Canonical \union torn /\ Placed(p) /\ p.height \in Nat
  OBVIOUS
<3>1. Placed(p) /\ p.height \in Nat /\ p.height < handling.slot
  BY <2>2 DEF PoolInv, PoolRows
<3>2. p \in taken => p.height >= handling.slot
  BY <1>1 DEF PoolInv, Handled, ReorgSteps
<3> QED
  BY <2>1, <3>1, <3>2 DEF Placed
<2> QED
  BY <1>1, <1>2, <2>3 DEF PoolRows
<1>5. Outdated' /\ Audited'
  BY <1>1, <1>2 DEF PoolInv, Outdated, Audited
<1> QED
  BY <1>2, <1>3, <1>4, <1>5 DEF PoolInv

LEMMA GraphReorgKeeps ==
  ASSUME PoolInv, Pools!GraphReorg
  PROVE  PoolInv'
<1>1. /\ step = "graph_reorg" /\ step' = "hook_reorg"
      /\ UNCHANGED <<canonical, fork, torn, taken, handling, buffered, pool_events,
                     audits, processed, state, loaded>>
  BY DEF Pools!GraphReorg, Pools!chain
<1>2. /\ Chained' /\ Handled' /\ Pools!Canonical' = Pools!Canonical
      /\ \A p : (Placed(p)' <=> Placed(p)) /\ (First(p)' <=> First(p))
      /\ \A p : Misled(p) => Misled(p)'
  BY <1>1, StepOn DEF ReorgSteps
<1>3. HookRows'
  BY <1>1, <1>2 DEF PoolInv, HookRows, HookRow
<1>4. PoolRows' /\ Outdated' /\ Audited'
  BY <1>1, <1>2 DEF PoolInv, PoolRows, Outdated, Audited
<1> QED
  BY <1>2, <1>3, <1>4 DEF PoolInv

\* The row goes when its height is not below the slot; otherwise nothing it was
\* updated with is, unless it is excused.
LEMMA HookReorgKeeps ==
  ASSUME PoolInv, Pools!HookReorg
  PROVE  PoolInv'
<1>1. /\ step = "hook_reorg" /\ step' = "idle" /\ taken' = {}
      /\ state' = IF state # <<>> /\ Pools!RowGoes(state, handling.slot) THEN <<>>
                  ELSE state
      /\ UNCHANGED <<canonical, fork, torn, buffered, pool_events, audits, processed,
                     loaded>>
  BY DEF Pools!HookReorg, Pools!chain, Pools!tables, Pools!Nothing
<1>2. /\ Chained' /\ Pools!Canonical' = Pools!Canonical
      /\ \A p : First(p)' <=> First(p)
  BY <1>1, NotMoved
<1>3. Handled'
  BY <1>1 DEF Handled, PoolSteps, ReorgSteps
<1>4. \A p : p \in Pools!Canonical \union torn => Placed(p)'
  BY <1>1, <1>2 DEF Placed
<1>5. HookRows'
<2>1. ASSUME state' # <<>> PROVE HookRow(state)'
<3>1. state' = state /\ state # <<>> /\ ~(state.height >= handling.slot)
  BY <1>1, <2>1 DEF Pools!RowGoes
<3>2. handling.slot \in Nat
  BY <1>1 DEF PoolInv, Chained, Handled, ReorgSteps
<3> SUFFICES ASSUME ~state.reevaluated, NEW p \in state.seen
             PROVE  Placed(p)'
  BY <1>1, <3>1 DEF PoolInv, HookRows, HookRow
<3>3. /\ Placed(p) /\ state.height \in Nat
      /\ p \notin torn => p.height \in Nat /\ p.height <= state.height
  BY <3>1 DEF PoolInv, HookRows, HookRow
<3>4. p \in taken => p.height >= handling.slot
  BY <1>1 DEF PoolInv, Handled, ReorgSteps
<3>5. p \in taken => p \in torn
  BY <3>1, <3>2, <3>3, <3>4
<3> QED
  BY <1>4, <3>3, <3>5 DEF Placed
<2> QED
  BY <1>1, <2>1 DEF PoolInv, HookRows
<1>6. PoolRows'
  BY <1>1, <1>2, <1>4 DEF PoolInv, PoolRows, ReorgSteps
<1>7. Outdated' /\ Audited'
  BY <1>1, <1>2, StaysMisled DEF PoolInv, Outdated, Audited
<1> QED
  BY <1>2, <1>3, <1>5, <1>6, <1>7 DEF PoolInv

\* What the run loop leaves behind when it ends is on the chain, or is excused
\* from then on: the pools the reorg in hand takes back.
LEMMA RunLoopFailsKeeps ==
  ASSUME PoolInv, Pools!RunLoopFails
  PROVE  PoolInv'
<1>1. /\ step \in {"idle"} \union PoolSteps \union ReorgSteps /\ step' = "down"
      /\ buffered' = {} /\ torn' = torn \union taken /\ taken' = {}
      /\ UNCHANGED <<canonical, fork, audits, processed, state>>
  BY DEF Pools!RunLoopFails, PoolInv, Handled
<1>2. /\ Chained' /\ Pools!Canonical' = Pools!Canonical
      /\ \A p : First(p)' <=> First(p)
  BY <1>1, NotMoved
<1>3. Handled'
  BY <1>1 DEF Handled, PoolSteps, ReorgSteps
<1>4. torn \subseteq torn' /\ \A p : Placed(p) => Placed(p)'
  BY <1>1, <1>2 DEF Placed
<1>5. HookRows'
<2>1. DOMAIN loaded' = Pools!Tasks
  BY DEF Pools!RunLoopFails, PoolInv, HookRows
<2> QED
  BY <1>1, <1>4, <2>1 DEF PoolInv, HookRows, HookRow
<1>6. PoolRows'
<2>1. \A p \in pool_events' : p \in pool_events \union Pools!InFlight
  BY DEF Pools!RunLoopFails
<2>2. \A p \in Pools!InFlight : Placed(p) /\ p.height \in Nat
<3>1. step = "route" => Placed(handling) /\ handling.height \in Nat
  BY CanonicalHeights DEF PoolInv, Handled, PoolSteps, Placed
<3>2. \A p \in Pools!InFlight : p \in buffered \/ (step = "route" /\ p = handling)
  BY DEF Pools!InFlight
<3> QED
  BY <3>1, <3>2 DEF PoolInv, PoolRows
<2> QED
  BY <1>1, <1>4, <2>1, <2>2 DEF PoolInv, PoolRows
<1>7. Outdated' /\ Audited'
  BY <1>1, <1>2, <1>4, StaysMisled DEF PoolInv, Outdated, Audited
<1> QED
  BY <1>2, <1>3, <1>5, <1>6, <1>7 DEF PoolInv

LEMMA RestartKeeps ==
  ASSUME PoolInv, Pools!Restart
  PROVE  PoolInv'
<1>1. /\ step = "down" /\ step' = "idle"
      /\ UNCHANGED <<canonical, fork, torn, taken, handling, buffered, pool_events,
                     audits, processed, state, loaded>>
  BY DEF Pools!Restart, Pools!chain, Pools!tables
<1>2. /\ Chained' /\ Pools!Canonical' = Pools!Canonical
      /\ \A p : First(p)' <=> First(p)
  BY <1>1, NotMoved
<1>3. Handled' /\ \A p : Placed(p)' <=> Placed(p)
  BY <1>1, <1>2 DEF PoolInv, Handled, Placed, PoolSteps, ReorgSteps
<1>4. HookRows'
  BY <1>1, <1>3 DEF PoolInv, HookRows, HookRow
<1>5. PoolRows' /\ Outdated' /\ Audited'
  BY <1>1, <1>2, <1>3, StaysMisled DEF PoolInv, PoolRows, Outdated, Audited
<1> QED
  BY <1>2, <1>3, <1>4, <1>5 DEF PoolInv

\* Where neither the chain nor the run loop moves, the invariant is a matter of
\* the deployer's row and the loop's copy of it.
LEMMA LoopRests ==
  ASSUME PoolInv, UNCHANGED <<Pools!chain, Pools!loop, Pools!tables>>
  PROVE  /\ \A p : Placed(p)' <=> Placed(p)
         /\ HookRows' => PoolInv'
<1>1. UNCHANGED <<canonical, fork, torn, taken, handling, step, buffered,
                  pool_events, audits, processed>>
  BY DEF Pools!chain, Pools!loop, Pools!tables
<1>2. /\ Chained' /\ Pools!Canonical' = Pools!Canonical
      /\ \A p : First(p)' <=> First(p)
  BY <1>1, NotMoved
<1>3. Handled'
  BY <1>1, <1>2 DEF PoolInv, Handled
<1>4. \A p : Placed(p)' <=> Placed(p)
  BY <1>1, <1>2 DEF Placed
<1>5. PoolRows' /\ Outdated' /\ Audited'
  BY <1>1, <1>2, <1>4, StaysMisled DEF PoolInv, PoolRows, Outdated, Audited
<1> QED
  BY <1>2, <1>3, <1>4, <1>5 DEF PoolInv

LEMMA WorkerLoadsKeeps ==
  ASSUME PoolInv, NEW w \in Workers, Pools!WorkerLoads(w)
  PROVE  PoolInv'
<1>1. PICK copy : loaded' = [loaded EXCEPT ![w] = copy]
  BY DEF Pools!WorkerLoads
<1>2. UNCHANGED <<Pools!chain, Pools!loop, Pools!tables, state>>
  BY DEF Pools!WorkerLoads
<1>3. HookRows'
  BY <1>1, <1>2, LoopRests, DetectionAssumption
     DEF PoolInv, HookRows, HookRow, Pools!loop, Pools!tables, Pools!chain, Pools!Canonical
<1> QED
  BY <1>2, <1>3, LoopRests

\* A worker's upsert marks the row.
LEMMA WorkerSavesKeeps ==
  ASSUME PoolInv, NEW w \in Workers, Pools!WorkerSaves(w)
  PROVE  PoolInv'
<1>1. /\ loaded' = [loaded EXCEPT ![w] = <<>>]
      /\ state'.reevaluated = (loaded[w].row.reevaluated \/ TRUE)
  BY DEF Pools!WorkerSaves, Pools!Saved, Pools!Nothing
<1>2. UNCHANGED <<Pools!chain, Pools!loop, Pools!tables>>
  BY DEF Pools!WorkerSaves
<1>3. HookRow(state)'
  BY <1>1 DEF HookRow
<1>4. HookRows'
  BY <1>1, <1>2, <1>3, DetectionAssumption
     DEF PoolInv, HookRows, Pools!loop, Pools!chain, Pools!Canonical
<1> QED
  BY <1>2, <1>4, LoopRests

LEMMA PoolsKeep == PoolInv /\ [Pools!Next]_(Pools!vars) => PoolInv'
<1> SUFFICES ASSUME PoolInv, [Pools!Next]_(Pools!vars) PROVE PoolInv'
  OBVIOUS
<1>1. CASE Pools!Initialize
  BY <1>1, InitializeKeeps
<1>2. CASE Pools!ReorgMarker
  BY <1>2, ReorgMarkerKeeps
<1>3. CASE Pools!WriteEdges
  BY <1>3, WriteEdgesKeeps
<1>4. CASE Pools!HookLoads
  BY <1>4, HookLoadsKeeps
<1>5. CASE Pools!HookSaves
  BY <1>5, HookSavesKeeps
<1>6. CASE Pools!Audit
  BY <1>6, AuditKeeps
<1>7. CASE Pools!Route
  BY <1>7, RouteKeeps
<1>8. CASE Pools!HandleReorg
  BY <1>8, HandleReorgKeeps
<1>9. CASE Pools!GraphReorg
  BY <1>9, GraphReorgKeeps
<1>10. CASE Pools!HookReorg
  BY <1>10, HookReorgKeeps
<1>11. CASE Pools!RunLoopFails
  BY <1>11, RunLoopFailsKeeps
<1>12. CASE Pools!Restart
  BY <1>12, RestartKeeps
<1>13. CASE Pools!ReorgUntold
  BY <1>13, ReorgUntoldKeeps
<1>14. ASSUME NEW w \in Workers, Pools!WorkerLoads(w) \/ Pools!WorkerSaves(w)
       PROVE PoolInv'
  BY <1>14, WorkerLoadsKeeps, WorkerSavesKeeps
<1>15. CASE UNCHANGED Pools!vars
<2>1. UNCHANGED <<Pools!chain, Pools!loop, Pools!tables, state, loaded>>
  BY <1>15 DEF Pools!vars
<2>2. HookRows'
  BY <2>1, LoopRests DEF PoolInv, HookRows, HookRow, Pools!loop, Pools!chain, Pools!Canonical
<2> QED
  BY <2>1, <2>2, LoopRests
<1> QED
  BY <1>1, <1>2, <1>3, <1>4, <1>5, <1>6, <1>7, <1>8, <1>9, <1>10, <1>11, <1>12, <1>13,
     <1>14, <1>15 DEF Pools!Next

LEMMA PoolInvExact ==
  PoolInv => Pools!HookStateCanonical /\ Pools!FirstPoolAudited
<1> SUFFICES ASSUME PoolInv, step = "idle"
             PROVE  Pools!HookStateCanonical /\ Pools!FirstPoolAudited
  BY DEF Pools!HookStateCanonical, Pools!FirstPoolAudited
<1>1. \A p : Placed(p) => p \in Pools!Canonical \union torn
  BY DEF PoolInv, Handled, Placed, ReorgSteps
<1>2. Pools!HookStateCanonical
  BY <1>1 DEF PoolInv, HookRows, HookRow, Pools!HookStateCanonical, Pools!Nothing
<1>3. Pools!FirstPoolAudited
  BY DEF PoolInv, Audited, First, Misled, Pools!FirstPoolAudited
<1> QED
  BY <1>2, <1>3

\* What the composition keeps of a part is what the part's steps keep.
LEMMA PoolsComposed ==
  /\ MCInit => (part = "launches" => PoolInv)
  /\ (part = "launches" => PoolInv) /\ [MCNext]_mcVars => (part' = "launches" => PoolInv')
<1>1. MCInit => (part = "launches" => PoolInv)
  BY PoolsStart DEF MCInit
<1>2. ASSUME part = "launches" => PoolInv, [MCNext]_mcVars, part' = "launches"
      PROVE  PoolInv'
<2>1. CASE PoolStep
  BY <1>2, <2>1, PoolsKeep DEF PoolStep
<2>2. CASE ~PoolStep
<3>1. part = "launches" /\ UNCHANGED poolVars
  BY <1>2, <2>2 DEF MCNext, ScoringStep, ChangepointStep, RingStep, TradesStep,
     LabelsStep, MoneyStep, mcVars
<3>2. UNCHANGED Pools!vars
  BY <3>1 DEF poolVars, Pools!vars, Pools!chain, Pools!loop, Pools!tables
<3> QED
  BY <1>2, <3>1, <3>2, PoolsKeep
<2> QED
  BY <2>1, <2>2
<1> QED
  BY <1>1, <1>2

\* For any number of tokens, workers, blocks, reorgs and failures at any step:
\* between two events a row that only the hook wrote (save_state,
\* delete_states_above_block) knows of no launch that a reorg took back, unless
\* that reorg was cut short or fell into the time the run loop was away.
THEOREM HookStateIsCanonical ==
  /\ Pools!Spec => []Pools!HookStateCanonical
  /\ MCSpec => []HookStateCanonical
<1> DEFINE Inv == part = "launches" => PoolInv
<1>1. MCInit => Inv
  BY PoolsComposed
<1>2. Inv /\ [MCNext]_mcVars => Inv'
  BY PoolsComposed
<1>3. Inv => HookStateCanonical
  BY PoolInvExact DEF HookStateCanonical
<1>4. MCSpec => []HookStateCanonical
  BY <1>1, <1>2, <1>3, PTL DEF MCSpec
<1>5. Pools!Spec => []Pools!HookStateCanonical
  BY PoolsStart, PoolsKeep, PoolInvExact, PTL DEF Pools!Spec
<1> QED
  BY <1>4, <1>5

\* For any history of reorgs and of ends and restarts of the run loop: the first
\* pool of a token on the canonical chain is audited (evaluate_on_init's guard),
\* if the run loop got through it, unless a lower pool of the token was taken back
\* by a reorg that was cut short or fell into the time the run loop was away.
THEOREM FirstPoolIsAudited ==
  /\ Pools!Spec => []Pools!FirstPoolAudited
  /\ MCSpec => []FirstPoolAudited
<1> DEFINE Inv == part = "launches" => PoolInv
<1>1. MCInit => Inv
  BY PoolsComposed
<1>2. Inv /\ [MCNext]_mcVars => Inv'
  BY PoolsComposed
<1>3. Inv => FirstPoolAudited
  BY PoolInvExact DEF FirstPoolAudited
<1>4. MCSpec => []FirstPoolAudited
  BY <1>1, <1>2, <1>3, PTL DEF MCSpec
<1>5. Pools!Spec => []Pools!FirstPoolAudited
  BY PoolsStart, PoolsKeep, PoolInvExact, PTL DEF Pools!Spec
<1> QED
  BY <1>4, <1>5

(***************************************************************************)
(* SmartMoney.  While a batch runs, the label it may write has not expired *)
(* (InTime); what it wrote stays in force until time passes.               *)
(***************************************************************************)
Label == [conf : Nat, expires : Nat]

InTime == pc # "idle" => clock < end + Ttl

LabelInv ==
  /\ clock \in Nat /\ end \in Nat /\ label \in Label /\ written \in Label
  /\ InTime
  /\ Labels!EarnedIsLabelled

LEMMA LabelsStart == Labels!Init => LabelInv
BY DEF Labels!Init, LabelInv, Label, Labels!NoLabel, InTime, Labels!EarnedIsLabelled

LEMMA ConfidenceInNat == \A ts : Labels!Confidence(ts) \in Nat
BY DEF Labels!Confidence

\* The guard of the upsert keeps the label there only if it is in force and no
\* weaker.
LEMMA UpsertLabelKeeps ==
  ASSUME LabelInv, Labels!UpsertLabel
  PROVE  LabelInv'
<1>1. written' = [conf |-> Labels!Confidence(trips), expires |-> end + Ttl]
      /\ pc = "label" /\ pc' = "idle" /\ UNCHANGED <<clock, end>>
  BY DEF Labels!UpsertLabel
<1>2. Labels!Confidence(trips) \in Nat /\ end + Ttl \in Nat /\ clock < end + Ttl
  BY <1>1, ConfidenceInNat, DetectionAssumption DEF LabelInv, InTime
<1>3. written' \in Label /\ written'.expires > clock
  BY <1>1, <1>2 DEF Label, LabelInv
<1>4. label \in Label /\ label.conf \in Nat /\ label.expires \in Nat
  BY DEF LabelInv, Label
<1>5. CASE label' = written'
  BY <1>1, <1>3, <1>5 DEF LabelInv, InTime, Labels!EarnedIsLabelled, Label
<1>6. CASE label' = label /\ ~Labels!Overwrites(written')
<2>1. label.expires > clock /\ label.conf >= written'.conf
  BY <1>3, <1>4, <1>6 DEF Labels!Overwrites, Label, LabelInv
<2> QED
  BY <1>1, <1>3, <1>4, <1>6, <2>1 DEF LabelInv, InTime, Labels!EarnedIsLabelled
<1> QED
  BY <1>5, <1>6 DEF Labels!UpsertLabel

LEMMA LabelsKeep == LabelInv /\ [Labels!Next]_(Labels!vars) => LabelInv'
<1> SUFFICES ASSUME LabelInv, [Labels!Next]_(Labels!vars) PROVE LabelInv'
  OBVIOUS
<1> USE DEF LabelInv, InTime, Labels!EarnedIsLabelled
<1>1. CASE Labels!Trade \/ Labels!Exclude
  BY <1>1 DEF Labels!Trade, Labels!Exclude, Labels!batch
<1>2. CASE Labels!TimePasses
  BY <1>2 DEF Labels!TimePasses, Labels!batch, Labels!NoLabel, Label
<1>3. CASE Labels!StartBatch
  BY <1>3, DetectionAssumption DEF Labels!StartBatch, Labels!NoLabel, Label
<1>4. CASE Labels!FetchSwaps \/ Labels!UpsertCorpus \/ Labels!CallFails
  BY <1>4 DEF Labels!FetchSwaps, Labels!UpsertCorpus, Labels!CallFails
<1>5. CASE Labels!UpsertLabel
  BY <1>5, UpsertLabelKeeps
<1>6. CASE UNCHANGED Labels!vars
  BY <1>6 DEF Labels!vars, Labels!batch
<1> QED
  BY <1>1, <1>2, <1>3, <1>4, <1>5, <1>6 DEF Labels!Next

\* For any trades, any times between the batches and any failed query: a batch
\* that counts a label as written leaves the wallet with one that readers see
\* and that is no weaker (labels.rs, ON CONFLICT DO UPDATE ... WHERE).
THEOREM EarnedStaysLabelled ==
  /\ Labels!Spec => []Labels!EarnedIsLabelled
  /\ MCSpec => []EarnedIsLabelled
<1> DEFINE Inv == part = "labels" => LabelInv
<1>1. MCInit => Inv
  BY LabelsStart DEF MCInit
<1>2. Inv /\ [MCNext]_mcVars => Inv'
<2> SUFFICES ASSUME part' = "labels", Inv, [MCNext]_mcVars PROVE LabelInv'
  OBVIOUS
<2>1. CASE LabelsStep
  BY <2>1, LabelsKeep DEF LabelsStep, MoneyStep
<2>2. CASE ~LabelsStep
<3>1. part = "labels" /\ UNCHANGED moneyVars
  BY <2>2 DEF MCNext, ScoringStep, ChangepointStep, PoolStep, RingStep, TradesStep,
     MoneyStep, mcVars
<3>2. UNCHANGED Labels!vars
  BY <3>1 DEF moneyVars, Labels!vars, Labels!batch
<3> QED
  BY <3>1, <3>2, LabelsKeep
<2> QED
  BY <2>1, <2>2
<1>3. Inv => EarnedIsLabelled
  BY DEF LabelInv, EarnedIsLabelled
<1>4. MCSpec => []EarnedIsLabelled
  BY <1>1, <1>2, <1>3, PTL DEF MCSpec
<1>5. LabelInv => Labels!EarnedIsLabelled
  BY DEF LabelInv
<1>6. Labels!Spec => []Labels!EarnedIsLabelled
  BY LabelsStart, LabelsKeep, <1>5, PTL DEF Labels!Spec
<1> QED
  BY <1>4, <1>6

(***************************************************************************)
(* Bocpd.  Its sums are recursive functions over the places of a sequence, *)
(* so what is said of them is shown by the least place at which it fails   *)
(* (Least, Climb).                                                         *)
(***************************************************************************)
Less == {ss \in Nat \X Nat : ss[1] < ss[2]}

\* A set of natural numbers that is not empty has a least one: what stands in
\* for induction.
LEMMA Least ==
  ASSUME NEW T \in SUBSET Nat, T # {}
  PROVE  \E n \in T : \A m \in T : n <= m
<1>1. IsWellFoundedOn(Less, Nat)
  BY NatLessThanWellFounded DEF OpToRel, Less
<1>2. PICK n \in T : \A m \in T : ~(<<m, n>> \in Less)
  BY <1>1, WFMin
<1>3. \A m \in T : ~(m < n)
  BY <1>2 DEF Less
<1> QED
  BY <1>3

\* A property of the numbers up to N that holds at the beginning and goes on.
LEMMA Climb ==
  ASSUME NEW N \in Nat, NEW G, 0 \in G, \A k \in 1..N : k - 1 \in G => k \in G
  PROVE  \A k \in 0..N : k \in G
<1> DEFINE T == {k \in 0..N : k \notin G}
<1>1. T \in SUBSET Nat
  OBVIOUS
<1>2. ASSUME T # {} PROVE FALSE
<2>1. PICK n \in T : \A m \in T : n <= m
  BY <1>1, <1>2, Least
<2>2. n \in 1..N /\ n \notin G
  OBVIOUS
<2>3. n - 1 \in 0..N /\ n - 1 \notin T
  BY <2>1, <2>2
<2>4. n - 1 \in G
  BY <2>3
<2> QED
  BY <2>2, <2>4
<1> QED
  BY <1>2

\* f has the sums of the first weights of w, up to n of them.
Adds(f, w, n) ==
  /\ f \in [0..n -> Nat] /\ f[0] = 0
  /\ \A k \in 1..n : f[k] = f[k - 1] + w[k]

LEMMA AddsTo ==
  ASSUME NEW w \in Seq(Nat), NEW n \in 0..Len(w)
  PROVE  \E f : Adds(f, w, n)
<1>1. PICK N \in Nat : N = Len(w)
  OBVIOUS
<1> DEFINE G == {k \in 0..N : \E f : Adds(f, w, k)}
<1>2. 0 \in G
<2>1. Adds([k \in 0..0 |-> 0], w, 0)
  BY DEF Adds
<2> QED
  BY <2>1
<1>3. ASSUME NEW k \in 1..N, k - 1 \in G PROVE k \in G
<2>1. PICK f : Adds(f, w, k - 1)
  BY <1>3
<2>2. w[k] \in Nat
  BY <1>1
<2> DEFINE g == [m \in 0..k |-> IF m = k THEN f[k - 1] + w[k] ELSE f[m]]
<2>3. g \in [0..k -> Nat] /\ g[0] = 0
  BY <2>1, <2>2 DEF Adds
<2>4. ASSUME NEW m \in 1..k PROVE g[m] = g[m - 1] + w[m]
<3>1. CASE m = k
<4>1. k \in 0..k /\ k - 1 \in 0..k /\ k - 1 # k
  OBVIOUS
<4> QED
  BY <3>1, <4>1
<3>2. CASE m # k
<4>1. m \in 1..(k - 1) /\ m \in 0..k /\ m - 1 \in 0..k /\ m - 1 # k
  BY <3>2
<4>2. f[m] = f[m - 1] + w[m]
  BY <2>1, <4>1 DEF Adds
<4> QED
  BY <3>2, <4>1, <4>2
<3> QED
  BY <3>1, <3>2
<2>5. Adds(g, w, k)
  BY <2>3, <2>4 DEF Adds
<2> QED
  BY <2>5
<1> HIDE DEF G
<1>4. n \in G
  BY <1>1, <1>2, <1>3, Climb
<1> QED
  BY <1>4 DEF G

LEMMA SumsAdd ==
  ASSUME NEW w \in Seq(Nat)
  PROVE  Adds(Changepoint!Sums(w), w, Len(w))
<1>1. PICK N \in Nat : N = Len(w)
  OBVIOUS
<1>2. PICK f : Adds(f, w, N)
  BY <1>1, AddsTo
<1>3. f = [n \in 0..N |-> IF n = 0 THEN 0 ELSE f[n - 1] + w[n]]
  BY <1>2 DEF Adds
<1> DEFINE h == Changepoint!Sums(w)
<1>4. h = [n \in 0..N |-> IF n = 0 THEN 0 ELSE h[n - 1] + w[n]]
  BY <1>1, <1>3 DEF Changepoint!Sums
<1> HIDE DEF h
<1> DEFINE G == {n \in 0..N : h[n] = f[n]}
<1>5. 0 \in G
  BY <1>3, <1>4
<1>6. ASSUME NEW k \in 1..N, k - 1 \in G PROVE k \in G
  BY <1>3, <1>4, <1>6
<1> HIDE DEF G
<1>7. \A k \in 0..N : k \in G
  BY <1>5, <1>6, Climb
<1>8. h = f
  BY <1>3, <1>4, <1>7 DEF G
<1> QED
  BY <1>1, <1>2, <1>8 DEF h

Slot == [joint : Nat, seen : [Changepoint!Kinds -> Nat]]

LEMMA LesserOfTwo ==
  ASSUME NEW a \in Nat, NEW b \in Nat
  PROVE  Changepoint!Min({a, b}) = IF a <= b THEN a ELSE b
<1> DEFINE m == IF a <= b THEN a ELSE b
<1>1. m \in {a, b} /\ \A y \in {a, b} : m <= y
  OBVIOUS
<1>2. \A x \in {a, b} : (\A y \in {a, b} : x <= y) => x = m
  OBVIOUS
<1> QED
  BY <1>1, <1>2 DEF Changepoint!Min

LEMMA DensityType ==
  ASSUME NEW slot, NEW x PROVE Changepoint!Density(slot, x) \in Nat
BY DetectionAssumption DEF Changepoint!Density

LEMMA SeesType ==
  ASSUME NEW slot \in Slot, NEW x \in Changepoint!Kinds
  PROVE  /\ Changepoint!Sees(slot, x) \in Slot
         /\ Changepoint!Sees(slot, x).joint = slot.joint
BY DEF Changepoint!Sees, Slot

LEMMA PriorType ==
  ASSUME NEW j \in Nat
  PROVE  /\ [Changepoint!new_prior EXCEPT !.joint = j] \in Slot
         /\ [Changepoint!new_prior EXCEPT !.joint = j].joint = j
BY DEF Changepoint!new_prior, Slot

\* The weight of what run i has seen, x included.
Weighed(s, x) == [i \in DOMAIN s |-> s[i].joint * Changepoint!Density(s[i], x)]

LEMMA SumType == ASSUME NEW w \in Seq(Nat) PROVE Changepoint!Sum(w) \in Nat
<1>1. Len(w) \in Nat /\ Changepoint!Sums(w) \in [0..Len(w) -> Nat]
  BY SumsAdd DEF Adds
<1> QED
  BY <1>1 DEF Changepoint!Sum

LEMMA WeighedType ==
  ASSUME NEW s \in Seq(Slot), NEW x
  PROVE  /\ Weighed(s, x) \in Seq(Nat) /\ Len(Weighed(s, x)) = Len(s)
         /\ \A i \in 1..Len(s) : Weighed(s, x)[i] \in Nat
<1>1. ASSUME NEW i \in 1..Len(s)
      PROVE  s[i].joint * Changepoint!Density(s[i], x) \in Nat
<2>1. s[i].joint \in Nat
<3>1. s[i] \in Slot
  OBVIOUS
<3> QED
  BY <3>1 DEF Slot
<2>2. PICK d \in Nat : d = Changepoint!Density(s[i], x)
  BY DensityType
<2> QED
  BY <2>1, <2>2
<1> QED
  BY <1>1 DEF Weighed

\* What Update does, for N runs: the new run has the weight of all of them, the
\* others go up by one place, the last two into one place when there is no more.
Shaped(u, N, g, h) ==
  /\ u \in Seq(Slot)
  /\ Len(u) = IF N < MaxSlots THEN N + 1 ELSE N
  /\ u[1].joint = Changepoint!Sum(g)
  /\ \A r \in 2..Len(u) : r < MaxSlots \/ N < MaxSlots => u[r].joint = g[r - 1] * h
  /\ N = MaxSlots => u[N].joint = g[N - 1] * h + g[N] * h

LEMMA UpdateShape ==
  ASSUME NEW s \in Seq(Slot), NEW N \in Nat, N = Len(s), N >= 1, N <= MaxSlots,
         NEW x \in Changepoint!Kinds,
         NEW g \in Seq(Nat), g = Weighed(s, x), NEW h \in Nat, h = Hazard - 1
  PROVE  Shaped(Changepoint!Update(s, x), N, g, h)
<1>1. MaxSlots \in Nat /\ MaxSlots >= 2
  BY DetectionAssumption
<1>2. Changepoint!Min({Len(s) + 1, MaxSlots}) = IF N < MaxSlots THEN N + 1 ELSE N
<2>1. PICK k \in Nat : k = Len(s) + 1 /\ (k <= MaxSlots <=> N < MaxSlots) /\ k = N + 1
  BY <1>1
<2>2. Changepoint!Min({k, MaxSlots}) = IF k <= MaxSlots THEN k ELSE MaxSlots
  BY <1>1, LesserOfTwo
<2> QED
  BY <1>1, <2>1, <2>2
<1> DEFINE last == IF N < MaxSlots THEN N + 1 ELSE N
<1>3. last \in Nat /\ last >= 2 /\ DOMAIN s = 1..N
  BY <1>1
<1>4. \A i \in 1..N : /\ g[i] \in Nat /\ s[i] \in Slot
                      /\ Changepoint!Growth(s, i, x) = g[i] * h
                      /\ g[i] * h \in Nat
<2> SUFFICES ASSUME NEW i \in 1..N
             PROVE  /\ g[i] \in Nat /\ s[i] \in Slot
                    /\ Changepoint!Growth(s, i, x) = g[i] * h
                    /\ g[i] * h \in Nat
  OBVIOUS
<2>1. g[i] = s[i].joint * Changepoint!Density(s[i], x)
  BY <1>3 DEF Weighed
<2>2. g[i] \in Nat /\ s[i] \in Slot
  BY WeighedType
<2>3. Changepoint!Growth(s, i, x) = g[i] * h
  BY <2>1 DEF Changepoint!Growth
<2> QED
  BY <2>2, <2>3
<1>5. Changepoint!ChangepointMass(s, x) = Changepoint!Sum(g)
  BY DEF Changepoint!ChangepointMass, Weighed
<1>6. Changepoint!Sum(g) \in Nat
  BY SumType
<1> DEFINE folded(r) == IF r = MaxSlots /\ Len(s) = MaxSlots
                        THEN Changepoint!Growth(s, MaxSlots, x) ELSE 0
           Grown(r) == [s[r - 1] EXCEPT !.joint =
                          Changepoint!Growth(s, r - 1, x) + folded(r)]
           New(r) == IF r = 1
                     THEN [Changepoint!new_prior EXCEPT !.joint = Changepoint!Sum(g)]
                     ELSE Grown(r)
<1>7. Changepoint!Update(s, x) = [r \in 1..last |-> Changepoint!Sees(New(r), x)]
  BY <1>2, <1>5 DEF Changepoint!Update
<1>8. New(1) \in Slot /\ New(1).joint = Changepoint!Sum(g)
  BY <1>6, PriorType
<1>9. ASSUME NEW r \in 2..last
      PROVE  /\ New(r) \in Slot
             /\ r < MaxSlots \/ N < MaxSlots => New(r).joint = g[r - 1] * h
             /\ N = MaxSlots /\ r = N => New(r).joint = g[N - 1] * h + g[N] * h
<2>1. r - 1 \in 1..N /\ r # 1
  BY <1>3
<2>2. folded(r) \in Nat
  BY <1>4
<2>3. New(r) = [s[r - 1] EXCEPT !.joint = g[r - 1] * h + folded(r)]
  BY <1>4, <2>1
<2>4. s[r - 1] \in Slot /\ g[r - 1] * h \in Nat
  BY <1>4, <2>1
<2>5. g[r - 1] * h + folded(r) \in Nat
  BY <2>2, <2>4
<2> HIDE DEF New
<2>6. New(r) \in Slot /\ New(r).joint = g[r - 1] * h + folded(r)
  BY <2>3, <2>4, <2>5 DEF Slot
<2>7. r < MaxSlots \/ N < MaxSlots => folded(r) = 0
  BY <1>1
<2>8. N = MaxSlots /\ r = N => folded(r) = g[N] * h
  BY <1>4
<2> QED
  BY <2>4, <2>6, <2>7, <2>8
<1> HIDE DEF New
<1>10. \A r \in 1..last : New(r) \in Slot
  BY <1>8, <1>9
<1> DEFINE u == Changepoint!Update(s, x)
<1>11. \A r \in 1..last : u[r] \in Slot /\ u[r].joint = New(r).joint
  BY <1>7, <1>10, SeesType
<1>12. u \in Seq(Slot) /\ Len(u) = last
<2>1. PICK k \in Nat : k = last
  BY <1>3
<2>2. u \in [1..k -> Slot]
  BY <1>7, <1>11, <2>1
<2>3. u \in Seq(Slot) /\ DOMAIN u = 1..k
  BY <2>2
<2>4. Len(u) = k
  BY <2>3, LenProperties
<2> QED
  BY <2>1, <2>3, <2>4
<1> HIDE DEF u
<1>13. u[1].joint = Changepoint!Sum(g)
  BY <1>3, <1>8, <1>11
<1>14. \A r \in 2..last : r < MaxSlots \/ N < MaxSlots => u[r].joint = g[r - 1] * h
  BY <1>9, <1>11
<1>15. N = MaxSlots => u[N].joint = g[N - 1] * h + g[N] * h
  BY <1>1, <1>9, <1>11
<1> QED
<2>1. Shaped(u, N, g, h)
  BY <1>12, <1>13, <1>14, <1>15 DEF Shaped
<2> QED
  BY <2>1 DEF u

Joints(s) == [i \in DOMAIN s |-> s[i].joint]

LEMMA Distributes ==
  ASSUME NEW a \in Nat, NEW b \in Nat, NEW c \in Nat
  PROVE  /\ (a + b) * c = a * c + b * c /\ a * c \in Nat
         /\ c # 0 => a + a * (c - 1) = a * c
  OBVIOUS

\* The first L weights v are M and what h makes of those of w.
Grows(w, v, h, M, L) ==
  /\ L >= 1 /\ L <= Len(v) /\ L <= Len(w) + 1
  /\ v[1] = M /\ \A r \in 2..L : v[r] = w[r - 1] * h

\* The sum of the first r weights after an update is what the new run weighs and
\* the growth of the first r - 1 runs before it.
LEMMA GrownSums ==
  ASSUME NEW w \in Seq(Nat), NEW v \in Seq(Nat), NEW h \in Nat, NEW M \in Nat,
         NEW L \in Nat, Grows(w, v, h, M, L)
  PROVE  Changepoint!Sums(v)[L] = M + Changepoint!Sums(w)[L - 1] * h
<1> DEFINE P == Changepoint!Sums(v)
           Q == Changepoint!Sums(w)
<1>1. PICK n \in Nat, m \in Nat : n = Len(w) /\ m = Len(v)
  OBVIOUS
<1>0. /\ L >= 1 /\ L <= Len(v) /\ L <= Len(w) + 1
      /\ v[1] = M /\ \A r \in 2..L : v[r] = w[r - 1] * h
  BY DEF Grows
<1>2. Adds(P, v, m) /\ Adds(Q, w, n)
  BY <1>1, SumsAdd
<1> HIDE DEF P, Q
<1>3. \A k \in 0..n : Q[k] \in Nat
  BY <1>2 DEF Adds
<1>4. P[0] = 0 /\ Q[0] = 0 /\ \A k \in 1..m : P[k] = P[k - 1] + v[k]
  BY <1>2 DEF Adds
<1>5. \A k \in 1..n : Q[k] = Q[k - 1] + w[k] /\ w[k] \in Nat
  BY <1>1, <1>2 DEF Adds
<1> DEFINE G == {k \in 0..(L - 1) : P[k + 1] = M + Q[k] * h}
<1>6. 0 \in G
<2>1. 1 \in 1..m /\ 0 \in 0..(L - 1)
  BY <1>0, <1>1
<2>2. P[0 + 1] = M
  BY <1>0, <1>4, <2>1
<2>3. Q[0] * h = 0
  BY <1>4
<2> QED
  BY <2>1, <2>2, <2>3
<1>7. ASSUME NEW k \in 1..(L - 1), k - 1 \in G PROVE k \in G
<2>1. k \in 1..n /\ k - 1 \in 0..n /\ k + 1 \in 1..m /\ k + 1 \in 2..L
<3>1. L >= 1 /\ L <= m /\ L <= n + 1
  BY <1>0, <1>1
<3>2. k \in Nat /\ 1 <= k /\ k <= L - 1
  BY <1>7
<3> QED
  BY <3>1, <3>2
<2>2. P[k + 1] = P[k] + v[k + 1]
  BY <1>4, <2>1
<2>3. P[k] = M + Q[k - 1] * h
  BY <1>7
<2>4. v[k + 1] = w[k] * h
  BY <1>0, <2>1
<2>5. Q[k] = Q[k - 1] + w[k] /\ w[k] \in Nat /\ Q[k - 1] \in Nat
  BY <1>3, <1>5, <2>1
<2>6. Q[k] * h = Q[k - 1] * h + w[k] * h
  BY <2>5, Distributes
<2>7. Q[k - 1] * h \in Nat /\ w[k] * h \in Nat
  BY <2>5, Distributes
<2>8. PICK a \in Nat, b \in Nat : a = Q[k - 1] * h /\ b = w[k] * h
  BY <2>7
<2>9. P[k + 1] = M + Q[k] * h
<3>1. P[k + 1] = (M + a) + b
  BY <2>2, <2>3, <2>4, <2>8
<3>2. Q[k] * h = a + b
  BY <2>6, <2>8
<3> QED
  BY <3>1, <3>2
<2> QED
  BY <2>9
<1> HIDE DEF G
<1>8. \A k \in 0..(L - 1) : k \in G
<2>1. PICK J \in Nat : J = L - 1
  BY <1>0
<2> QED
  BY <1>6, <1>7, <2>1, Climb
<1>9. L - 1 \in G
  BY <1>0, <1>8
<1> QED
  BY <1>9 DEF G, P, Q

\* Whatever was observed, the mass of an updated posterior is the weight of the
\* new run times Hazard.
LEMMA MassOfUpdate ==
  ASSUME NEW s \in Seq(Slot), Len(s) >= 1, Len(s) <= MaxSlots,
         NEW x \in Changepoint!Kinds
  PROVE  LET u == Changepoint!Update(s, x) IN
         /\ u \in Seq(Slot)
         /\ Len(u) = IF Len(s) < MaxSlots THEN Len(s) + 1 ELSE Len(s)
         /\ u[1].joint = Changepoint!Sum(Weighed(s, x))
         /\ u[1].joint * Hazard = Changepoint!Total(u)
<1>1. PICK N \in Nat : N = Len(s)
  OBVIOUS
<1>2. PICK g \in Seq(Nat) : g = Weighed(s, x)
  BY WeighedType
<1>3. Len(g) = N /\ \A i \in 1..N : g[i] \in Nat
  BY <1>1, <1>2, WeighedType
<1>4. PICK h \in Nat : h = Hazard - 1
  BY DetectionAssumption
<1>5. Hazard \in Nat /\ Hazard # 0 /\ MaxSlots \in Nat /\ MaxSlots >= 2
  BY DetectionAssumption
<1>6. PICK M \in Nat : M = Changepoint!Sum(g)
  BY SumType
<1> DEFINE u == Changepoint!Update(s, x)
<1>0. Shaped(u, N, g, h)
  BY <1>1, <1>2, <1>4, UpdateShape
<1> HIDE DEF u
<1>7. /\ u \in Seq(Slot)
      /\ Len(u) = IF N < MaxSlots THEN N + 1 ELSE N
      /\ u[1].joint = M
      /\ \A r \in 2..Len(u) : r < MaxSlots \/ N < MaxSlots => u[r].joint = g[r - 1] * h
      /\ N = MaxSlots => u[N].joint = g[N - 1] * h + g[N] * h
  BY <1>0, <1>6 DEF Shaped
<1>8. PICK v \in Seq(Nat) : v = Joints(u)
<2>1. PICK k \in Nat : k = Len(u) /\ DOMAIN u = 1..k
  BY <1>7
<2>2. ASSUME NEW i \in 1..k PROVE u[i].joint \in Nat
<3>1. u[i] \in Slot
  BY <1>7, <2>1
<3> QED
  BY <3>1 DEF Slot
<2>3. Joints(u) \in [1..k -> Nat]
  BY <2>1, <2>2 DEF Joints
<2>4. Joints(u) \in Seq(Nat)
  BY <2>3
<2> QED
  BY <2>4
<1>9. Len(v) = Len(u) /\ \A i \in 1..Len(u) : v[i] = u[i].joint
  BY <1>7, <1>8 DEF Joints
<1>10. Changepoint!Total(u) = Changepoint!Sums(v)[Len(u)]
  BY <1>8, <1>9 DEF Changepoint!Total, Changepoint!Sum, Joints
<1>11. M = Changepoint!Sums(g)[N]
  BY <1>3, <1>6 DEF Changepoint!Sum
<1>12. M + M * h = M * Hazard
  BY <1>4, <1>5, Distributes
<1>13. Changepoint!Total(u) = M + M * h
<2>1. CASE N < MaxSlots
<3>1. Len(u) = N + 1 /\ Len(v) = N + 1
  BY <1>7, <1>9, <2>1
<3>2. v[1] = M /\ \A r \in 2..(N + 1) : v[r] = g[r - 1] * h
<4>1. v[1] = M
  BY <1>7, <1>9, <3>1
<4>2. ASSUME NEW r \in 2..(N + 1) PROVE v[r] = g[r - 1] * h
<5>1. r \in 2..Len(u) /\ r \in 1..Len(u)
  BY <3>1
<5> QED
  BY <1>7, <1>9, <2>1, <5>1
<4> QED
  BY <4>1, <4>2
<3>3. Changepoint!Sums(v)[N + 1] = M + Changepoint!Sums(g)[(N + 1) - 1] * h
<4>1. PICK L \in Nat : L = N + 1 /\ L <= Len(v) /\ L <= Len(g) + 1 /\ L >= 1
  BY <1>3, <3>1
<4>2. v \in Seq(Nat) /\ g \in Seq(Nat) /\ h \in Nat /\ M \in Nat
  BY <1>2, <1>4, <1>6, <1>8
<4>3. \A r \in 2..L : v[r] = g[r - 1] * h
  BY <3>2, <4>1
<4>4. Grows(g, v, h, M, L)
  BY <3>2, <4>1, <4>3 DEF Grows
<4>5. Changepoint!Sums(v)[L] = M + Changepoint!Sums(g)[L - 1] * h
  BY <4>2, <4>4, GrownSums
<4> QED
  BY <4>1, <4>5
<3>4. (N + 1) - 1 = N
  OBVIOUS
<3> QED
  BY <1>10, <1>11, <3>1, <3>3, <3>4
<2>2. CASE N = MaxSlots
<3>1. Len(u) = N /\ Len(v) = N /\ N >= 2
  BY <1>5, <1>7, <1>9, <2>2
<3>2. v[1] = M /\ \A r \in 2..(N - 1) : v[r] = g[r - 1] * h
<4>1. v[1] = M
  BY <1>7, <1>9, <3>1
<4>2. ASSUME NEW r \in 2..(N - 1) PROVE v[r] = g[r - 1] * h
  BY <1>7, <1>9, <2>2, <3>1
<4> QED
  BY <4>1, <4>2
<3>3. PICK K \in Nat : K = N - 1 /\ K >= 1 /\ K + 1 = N
  BY <3>1
<3>4. Changepoint!Sums(v)[K] = M + Changepoint!Sums(g)[K - 1] * h
<4>1. K <= Len(v) /\ K <= Len(g) + 1
  BY <1>3, <3>1, <3>3
<4>2. \A r \in 2..K : v[r] = g[r - 1] * h
  BY <3>2, <3>3
<4>3. v[1] = M /\ K \in Nat /\ K >= 1
  BY <3>2, <3>3
<4>4. v \in Seq(Nat) /\ g \in Seq(Nat) /\ h \in Nat /\ M \in Nat
  BY <1>2, <1>4, <1>6, <1>8
<4>5. Grows(g, v, h, M, K)
  BY <4>1, <4>2, <4>3 DEF Grows
<4> QED
  BY <4>4, <4>5, GrownSums
<3>5. /\ Changepoint!Sums(v)[K + 1] = Changepoint!Sums(v)[K] + v[K + 1]
      /\ Changepoint!Sums(v)[K] \in Nat
<4>1. Adds(Changepoint!Sums(v), v, N)
  BY <3>1, SumsAdd
<4>2. K \in 0..N /\ K + 1 \in 1..N /\ (K + 1) - 1 = K
  BY <3>3
<4> QED
  BY <4>1, <4>2 DEF Adds
<3>6. /\ Changepoint!Sums(g)[K] = Changepoint!Sums(g)[K - 1] + g[K]
      /\ Changepoint!Sums(g)[K + 1] = Changepoint!Sums(g)[K] + g[K + 1]
      /\ Changepoint!Sums(g)[K - 1] \in Nat
<4>1. Adds(Changepoint!Sums(g), g, N)
  BY <1>3, SumsAdd
<4>2. K \in 1..N /\ K + 1 \in 1..N /\ K - 1 \in 0..N /\ (K + 1) - 1 = K
  BY <3>3
<4> QED
  BY <4>1, <4>2 DEF Adds
<3>7. PICK q \in Nat, a \in Nat, b \in Nat :
        q = Changepoint!Sums(g)[K - 1] /\ a = g[K] /\ b = g[K + 1]
  BY <1>3, <3>3, <3>6
<3>8. v[K + 1] = a * h + b * h
  BY <1>7, <1>9, <2>2, <3>1, <3>3, <3>7
<3>9. Changepoint!Total(u) = (M + q * h) + (a * h + b * h)
  BY <1>10, <3>1, <3>3, <3>4, <3>5, <3>7, <3>8
<3>10. M = (q + a) + b
  BY <1>11, <3>3, <3>6, <3>7
<3>11. ((q + a) + b) * h = q * h + (a * h + b * h)
  BY Distributes
<3>12. q * h \in Nat /\ a * h \in Nat /\ b * h \in Nat
  BY Distributes
<3>13. M * h = q * h + (a * h + b * h)
  BY <3>10, <3>11
<3> QED
  BY <3>9, <3>12, <3>13
<2> QED
  BY <1>1, <1>5, <2>1, <2>2
<1> QED
  BY <1>1, <1>2, <1>6, <1>7, <1>12, <1>13 DEF u

(***************************************************************************)
(* AnswerIsHazard speaks of the sum of the weights only; that an update    *)
(* keeps it needs the types, and how many runs there are, since the last   *)
(* of them take up two once there is no more place (Tracked).              *)
(***************************************************************************)
Tracked ==
  /\ slots \in Seq(Slot) /\ Len(slots) >= 1
  /\ scores \in Seq(Changepoint!Kinds)
  /\ Len(slots) = IF Len(scores) + 1 <= MaxSlots THEN Len(scores) + 1 ELSE MaxSlots
  /\ scores # <<>> => slots[1].joint * Hazard = Changepoint!Total(slots)

LEMMA TrackedAnswer == Tracked => Changepoint!AnswerIsHazard
<1> SUFFICES ASSUME Tracked PROVE Changepoint!AnswerIsHazard
  OBVIOUS
<1>1. Len(scores) + 1 \in Nat /\ MaxSlots \in Nat
  BY DetectionAssumption DEF Tracked
<1>2. Changepoint!Min({Len(scores) + 1, MaxSlots}) = Len(slots)
  BY <1>1, LesserOfTwo DEF Tracked
<1> QED
  BY <1>2 DEF Tracked, Changepoint!AnswerIsHazard

LEMMA TrackedStarts == Changepoint!Init => Tracked
<1> SUFFICES ASSUME Changepoint!Init PROVE Tracked
  OBVIOUS
<1>1. [Changepoint!new_prior EXCEPT !.joint = 1] \in Slot
  BY PriorType
<1>2. slots \in Seq(Slot) /\ Len(slots) = 1
  BY <1>1 DEF Changepoint!Init
<1>3. scores = <<>> /\ scores \in Seq(Changepoint!Kinds) /\ Len(scores) = 0
  BY DEF Changepoint!Init
<1> QED
  BY <1>2, <1>3, DetectionAssumption DEF Tracked

LEMMA LaunchTracked ==
  ASSUME Tracked, NEW x \in Changepoint!Kinds,
         slots' = Changepoint!Update(slots, x), scores' = Append(scores, x)
  PROVE  Tracked'
<1>1. PICK N \in Nat, n \in Nat : N = Len(slots) /\ n = Len(scores)
  BY DEF Tracked
<1>2. MaxSlots \in Nat /\ MaxSlots >= 2
  BY DetectionAssumption
<1>3. N >= 1 /\ N <= MaxSlots /\ (N < MaxSlots => N = n + 1) /\ (N = MaxSlots => n + 1 >= MaxSlots)
  BY <1>1, <1>2 DEF Tracked
<1>4. /\ slots' \in Seq(Slot)
      /\ Len(slots') = IF N < MaxSlots THEN N + 1 ELSE N
      /\ slots'[1].joint * Hazard = Changepoint!Total(slots')
  BY <1>1, <1>3, MassOfUpdate DEF Tracked
<1>5. scores' \in Seq(Changepoint!Kinds) /\ Len(scores') = n + 1
  BY <1>1 DEF Tracked
<1>6. Len(slots') >= 1
  BY <1>1, <1>3, <1>4
<1>7. Len(slots') = IF Len(scores') + 1 <= MaxSlots THEN Len(scores') + 1 ELSE MaxSlots
  BY <1>1, <1>2, <1>3, <1>4, <1>5
<1> QED
  BY <1>4, <1>5, <1>6, <1>7 DEF Tracked

LEMMA TrackedStep == Tracked /\ [Changepoint!Next]_(Changepoint!vars) => Tracked'
<1> SUFFICES ASSUME Tracked, [Changepoint!Next]_(Changepoint!vars) PROVE Tracked'
  OBVIOUS
<1>1. CASE Changepoint!Launch
<2>1. PICK x \in Changepoint!Kinds :
        slots' = Changepoint!Update(slots, x) /\ scores' = Append(scores, x)
  BY <1>1 DEF Changepoint!Launch
<2> QED
  BY <2>1, LaunchTracked
<1>2. CASE UNCHANGED Changepoint!vars
<2>1. slots' = slots /\ scores' = scores
  BY <1>2 DEF Changepoint!vars
<2> QED
  BY <2>1 DEF Tracked, Changepoint!Total, Changepoint!Sum
<1> QED
  BY <1>1, <1>2 DEF Changepoint!Next

\* For any hazard, densities, number of slots and of launches: the posterior
\* keeps its mass, and the share of a new run is the hazard rate whatever was
\* observed (BocpdState::update).
THEOREM AnswerIsTheHazard ==
  /\ Changepoint!Spec => []Changepoint!AnswerIsHazard
  /\ MCSpec => []AnswerIsHazard
<1> DEFINE Inv == part = "changepoint" => Tracked
<1>1. MCInit => Inv
  BY TrackedStarts DEF MCInit
<1>2. Inv /\ [MCNext]_mcVars => Inv'
<2> SUFFICES ASSUME Inv, [MCNext]_mcVars, part' = "changepoint" PROVE Tracked'
  OBVIOUS
<2>1. CASE ChangepointStep
  BY <2>1, TrackedStep DEF ChangepointStep
<2>2. CASE ~ChangepointStep
<3>1. UNCHANGED <<part, slots, scores>>
  BY <2>2 DEF MCNext, ScoringStep, PoolStep, RingStep, TradesStep, LabelsStep, MoneyStep,
     mcVars, changepointVars
<3> QED
  BY <3>1 DEF Tracked, Changepoint!Total, Changepoint!Sum
<2> QED
  BY <2>1, <2>2
<1>3. Inv => AnswerIsHazard
  BY TrackedAnswer DEF AnswerIsHazard
<1>4. MCSpec => []AnswerIsHazard
  BY <1>1, <1>2, <1>3, PTL DEF MCSpec
<1>5. Changepoint!Spec => []Changepoint!AnswerIsHazard
  BY TrackedStarts, TrackedStep, TrackedAnswer, PTL DEF Changepoint!Spec
<1> QED
  BY <1>4, <1>5

\* No run is ruled out.
Weighty == \A i \in 1..Len(slots) : slots[i].joint > 0

LEMMA PositiveProduct ==
  ASSUME NEW a \in Nat, NEW b \in Nat, a > 0, b > 0
  PROVE  a * b > 0 /\ a * b \in Nat
  OBVIOUS

LEMMA TripleIsMore ==
  ASSUME NEW a \in Nat, NEW b \in Nat, a > 0, b > 2
  PROVE  ~(2 * a >= a * b)
<1>1. PICK c \in Nat : b = c + 3
<2>1. b - 3 \in Nat /\ b = (b - 3) + 3
  OBVIOUS
<2> QED
  BY <2>1
<1>2. a * b = a * c + a * 3
  BY <1>1
<1>3. a * c \in Nat
  OBVIOUS
<1> QED
  BY <1>2, <1>3

LEMMA DensityPositive ==
  ASSUME NEW slot, NEW x, 0 \notin {Good, Fair, Bad}
  PROVE  Changepoint!Density(slot, x) > 0
BY DetectionAssumption DEF Changepoint!Density

LEMMA WeightyStep ==
  ASSUME Hazard > 2, 0 \notin {Good, Fair, Bad}, Tracked, Weighty,
         NEW x \in Changepoint!Kinds, slots' = Changepoint!Update(slots, x)
  PROVE  Weighty' /\ ~ 2 * slots'[1].joint >= Changepoint!Total(slots')
<1>1. PICK N \in Nat : N = Len(slots)
  BY DEF Tracked
<1>2. PICK g \in Seq(Nat) : g = Weighed(slots, x)
  BY WeighedType DEF Tracked
<1>3. PICK h \in Nat : h = Hazard - 1 /\ h > 0
  BY DetectionAssumption
<1>4. slots \in Seq(Slot) /\ N >= 1 /\ N <= MaxSlots
  BY <1>1, DetectionAssumption DEF Tracked
<1>5. Len(g) = N /\ \A i \in 1..N : g[i] \in Nat /\ g[i] > 0
<2>1. Len(g) = N /\ \A i \in 1..N : g[i] \in Nat
  BY <1>1, <1>2, <1>4, WeighedType
<2>2. ASSUME NEW i \in 1..N PROVE g[i] > 0
<3>1. slots[i] \in Slot /\ i \in DOMAIN slots /\ slots[i].joint > 0
  BY <1>1, <1>4 DEF Weighty
<3>2. g[i] = slots[i].joint * Changepoint!Density(slots[i], x)
  BY <1>2, <3>1 DEF Weighed
<3>3. PICK d \in Nat : d = Changepoint!Density(slots[i], x) /\ d > 0
  BY DensityPositive, DensityType
<3>4. PICK j \in Nat : j = slots[i].joint /\ j > 0
  BY <3>1 DEF Slot
<3> QED
  BY <3>2, <3>3, <3>4, PositiveProduct
<2> QED
  BY <2>1, <2>2
<1>6. PICK M \in Nat : M = Changepoint!Sum(g)
  BY SumType
<1>7. M > 0
<2>1. Adds(Changepoint!Sums(g), g, N)
  BY <1>5, SumsAdd
<2>2. N - 1 \in 0..N /\ N \in 1..N
  BY <1>4
<2>3. /\ Changepoint!Sums(g)[N] = Changepoint!Sums(g)[N - 1] + g[N]
      /\ Changepoint!Sums(g)[N - 1] \in Nat
  BY <2>1, <2>2 DEF Adds
<2>4. M = Changepoint!Sums(g)[N]
  BY <1>5, <1>6 DEF Changepoint!Sum
<2>5. g[N] \in Nat /\ g[N] > 0
  BY <1>5, <2>2
<2> QED
  BY <2>3, <2>4, <2>5
<1> DEFINE u == Changepoint!Update(slots, x)
<1>0. Shaped(u, N, g, h)
<2>1. /\ slots \in Seq(Slot) /\ N \in Nat /\ N = Len(slots) /\ N >= 1 /\ N <= MaxSlots
      /\ g \in Seq(Nat) /\ g = Weighed(slots, x) /\ h \in Nat /\ h = Hazard - 1
  BY <1>1, <1>2, <1>3, <1>4
<2> QED
  BY <2>1, UpdateShape
<1>8. /\ u \in Seq(Slot)
      /\ Len(u) = IF N < MaxSlots THEN N + 1 ELSE N
      /\ u[1].joint = M
      /\ \A r \in 2..Len(u) : r < MaxSlots \/ N < MaxSlots => u[r].joint = g[r - 1] * h
      /\ N = MaxSlots => u[N].joint = g[N - 1] * h + g[N] * h
  BY <1>0, <1>6 DEF Shaped
<1>9. M * Hazard = Changepoint!Total(u)
<2>1. PICK T : T = Changepoint!Total(u)
  OBVIOUS
<2>2. u[1].joint * Hazard = T
  BY <1>1, <1>2, <1>4, <2>1, MassOfUpdate
<2> QED
  BY <1>8, <2>1, <2>2
<1> HIDE DEF u
<1>10. MaxSlots \in Nat /\ MaxSlots >= 2 /\ Hazard \in Nat
  BY DetectionAssumption
<1>11. ASSUME NEW r \in 1..Len(u) PROVE u[r].joint > 0
<2>1. CASE r = 1
  BY <1>7, <1>8, <2>1
<2>2. CASE r # 1 /\ (r < MaxSlots \/ N < MaxSlots)
<3>1. r \in 2..Len(u) /\ r - 1 \in 1..N
  BY <1>4, <1>8, <1>10, <2>2
<3>2. g[r - 1] \in Nat /\ g[r - 1] > 0
  BY <1>5, <3>1
<3>3. g[r - 1] * h > 0
  BY <1>3, <3>2, PositiveProduct
<3> QED
  BY <1>8, <2>2, <3>1, <3>3
<2>3. CASE r # 1 /\ ~(r < MaxSlots \/ N < MaxSlots)
<3>1. N = MaxSlots /\ r = N /\ N - 1 \in 1..N /\ N \in 1..N
  BY <1>4, <1>8, <1>10, <2>3
<3>2. PICK a \in Nat, b \in Nat : a = g[N - 1] /\ b = g[N] /\ a > 0 /\ b > 0
  BY <1>5, <3>1
<3>3. a * h \in Nat /\ a * h > 0 /\ b * h \in Nat /\ b * h > 0
  BY <1>3, <3>2, PositiveProduct
<3>4. u[r].joint = a * h + b * h
  BY <1>8, <3>1, <3>2
<3> QED
  BY <3>3, <3>4
<2> QED
  BY <2>1, <2>2, <2>3
<1>12. ~ 2 * M >= M * Hazard
  BY <1>7, <1>10, TripleIsMore
<1>13. slots' = u
  BY DEF u
<1> QED
  BY <1>8, <1>9, <1>11, <1>12, <1>13 DEF Weighty

\* D09 raises no alert, whatever scores the launches of a deployer have and
\* however many there are: with a hazard rate below one half (1/300 in the
\* configuration) the posterior of a new run stays below the threshold.
THEOREM NoAlertIsRaised ==
  Hazard > 2 /\ 0 \notin {Good, Fair, Bad} => (Changepoint!Spec => [](alerts = {}))
<1> SUFFICES ASSUME Hazard > 2, 0 \notin {Good, Fair, Bad}
             PROVE  Changepoint!Spec => [](alerts = {})
  OBVIOUS
<1> DEFINE Inv == Tracked /\ Weighty /\ alerts = {}
<1>1. Changepoint!Init => Inv
<2> SUFFICES ASSUME Changepoint!Init PROVE Inv
  OBVIOUS
<2>1. slots = <<[Changepoint!new_prior EXCEPT !.joint = 1]>> /\ alerts = {}
  BY DEF Changepoint!Init
<2>2. Weighty
<3>1. Len(slots) = 1 /\ slots[1] = [Changepoint!new_prior EXCEPT !.joint = 1]
  BY <2>1
<3>2. slots[1].joint = 1
  BY <3>1, PriorType
<3>3. ASSUME NEW i \in 1..1 PROVE slots[i].joint > 0
  BY <3>2
<3> QED
  BY <3>1, <3>3 DEF Weighty
<2> QED
  BY <2>1, <2>2, TrackedStarts
<1>2. Inv /\ [Changepoint!Next]_(Changepoint!vars) => Inv'
<2> SUFFICES ASSUME Inv, [Changepoint!Next]_(Changepoint!vars) PROVE Inv'
  OBVIOUS
<2>1. Tracked'
  BY TrackedStep
<2>2. CASE Changepoint!Launch
<3>1. PICK x \in Changepoint!Kinds :
        /\ slots' = Changepoint!Update(slots, x)
        /\ alerts' = IF Changepoint!Alerts(slots', Len(scores'))
                     THEN alerts \union {Len(scores')} ELSE alerts
  BY <2>2 DEF Changepoint!Launch
<3>2. Weighty' /\ ~ 2 * slots'[1].joint >= Changepoint!Total(slots')
  BY <3>1, WeightyStep
<3>3. ~Changepoint!Alerts(slots', Len(scores'))
  BY <3>2 DEF Changepoint!Alerts
<3> QED
  BY <2>1, <3>1, <3>2, <3>3
<2>3. CASE UNCHANGED Changepoint!vars
  BY <2>1, <2>3 DEF Changepoint!vars, Weighty
<2> QED
  BY <2>2, <2>3 DEF Changepoint!Next
<1> QED
  BY <1>1, <1>2, PTL DEF Changepoint!Spec

(***************************************************************************)
(* Scoring.  The sort puts an event behind those that go before it, and    *)
(* no two events have as many before them (PlacesExact); an order of the   *)
(* input that keeps equals in order changes neither (ReorderedOrder,       *)
(* ReorderedPlaces), so the sorted events are the same (SameSort).         *)
(***************************************************************************)
Dets == {Reports!Ids[i] : i \in DOMAIN Reports!Ids}

\* A sequence of events of the detectors of the list.
Listed(es, N) ==
  /\ N \in Nat /\ DOMAIN es = 1..N
  /\ \A i \in 1..N : es[i].det \in Dets /\ es[i].at \in Nat

\* The order Sorted puts events into.
Before(es, i, j) ==
  IF es[i].det = es[j].det
  THEN es[i].at < es[j].at \/ (es[i].at = es[j].at /\ i < j)
  ELSE Reports!Rank(es[i].det) < Reports!Rank(es[j].det)

Ahead(es, i) == {j \in DOMAIN es : Before(es, j, i)}

\* The instance has a Cardinality of its own; it is the same one.
LEMMA CardinalityOfReports == \A S : Reports!Cardinality(S) = Cardinality(S)
  BY DEF Reports!Cardinality, Cardinality

\* Which event Sorted puts at a place.
AtPlace(es, n) ==
  CHOOSE i \in DOMAIN es : Reports!Cardinality({j \in DOMAIN es : Before(es, j, i)}) = n - 1

LEMMA SortedByPlace ==
  ASSUME NEW es
  PROVE  Reports!Sorted(es) = [n \in DOMAIN es |-> es[AtPlace(es, n)]]
  BY DEF Reports!Sorted, Reports!SortedBy, AtPlace, Before

LEMMA RankOrders ==
  /\ \A d \in Dets : Reports!Rank(d) \in Nat
  /\ \A d, e \in Dets : Reports!Rank(d) = Reports!Rank(e) => d = e
<1>1. DOMAIN Reports!Ids \subseteq Nat
  BY DEF Reports!Ids
<1>2. ASSUME NEW d \in Dets
      PROVE  Reports!Rank(d) \in DOMAIN Reports!Ids /\ Reports!Ids[Reports!Rank(d)] = d
  BY DEF Dets, Reports!Rank
<1> QED
  BY <1>1, <1>2

LEMMA BeforeOrders ==
  ASSUME NEW es, NEW N, Listed(es, N), NEW i \in 1..N, NEW j \in 1..N, NEW k \in 1..N
  PROVE  /\ ~Before(es, i, i)
         /\ i # j => Before(es, i, j) \/ Before(es, j, i)
         /\ Before(es, i, j) /\ Before(es, j, k) => Before(es, i, k)
<1>1. /\ es[i].at \in Nat /\ es[j].at \in Nat /\ es[k].at \in Nat
      /\ es[i].det \in Dets /\ es[j].det \in Dets /\ es[k].det \in Dets
      /\ i \in Nat /\ j \in Nat /\ k \in Nat
  BY DEF Listed
<1>2. PICK a \in Nat, b \in Nat, c \in Nat :
        /\ a = Reports!Rank(es[i].det) /\ b = Reports!Rank(es[j].det)
        /\ c = Reports!Rank(es[k].det)
  BY <1>1, RankOrders
<1>3. /\ a = b <=> es[i].det = es[j].det
      /\ b = c <=> es[j].det = es[k].det
      /\ a = c <=> es[i].det = es[k].det
  BY <1>1, <1>2, RankOrders
<1> QED
  BY <1>1, <1>2, <1>3 DEF Before

\* Every place is that of one event.
LEMMA PlacesExact ==
  ASSUME NEW es, NEW N, Listed(es, N)
  PROVE  /\ \A i \in 1..N : IsFiniteSet(Ahead(es, i)) /\ Cardinality(Ahead(es, i)) \in Nat
         /\ \A i, j \in 1..N :
              Cardinality(Ahead(es, i)) = Cardinality(Ahead(es, j)) => i = j
         /\ \A n \in 1..N : \E i \in 1..N : Cardinality(Ahead(es, i)) = n - 1
<1>1. N \in Nat /\ DOMAIN es = 1..N /\ IsFiniteSet(1..N) /\ Cardinality(1..N) = N
<2>1. N \in Nat /\ DOMAIN es = 1..N
  BY DEF Listed
<2> QED
  BY <2>1, FS_Interval
<1>2. ASSUME NEW i \in 1..N
      PROVE  /\ IsFiniteSet(Ahead(es, i)) /\ Cardinality(Ahead(es, i)) \in Nat
             /\ Cardinality(Ahead(es, i)) + 1 \in 1..N
<2>1. Ahead(es, i) \in SUBSET (1..N) /\ i \notin Ahead(es, i)
  BY <1>1, BeforeOrders DEF Ahead
<2>2. /\ IsFiniteSet(Ahead(es, i)) /\ Cardinality(Ahead(es, i)) <= Cardinality(1..N)
      /\ Cardinality(1..N) # Cardinality(Ahead(es, i))
  BY <1>1, <2>1, FS_Subset
<2>3. PICK c \in Nat : c = Cardinality(Ahead(es, i))
  BY <2>2, FS_CardinalityType
<2>4. c + 1 \in 1..N
  BY <1>1, <2>2, <2>3
<2> QED
  BY <2>2, <2>3, <2>4
<1>3. ASSUME NEW i \in 1..N, NEW j \in 1..N, Before(es, i, j)
      PROVE  Cardinality(Ahead(es, i)) # Cardinality(Ahead(es, j))
<2>1. Ahead(es, i) \subseteq Ahead(es, j)
<3> SUFFICES ASSUME NEW k \in Ahead(es, i) PROVE k \in Ahead(es, j)
  OBVIOUS
<3>1. k \in 1..N /\ Before(es, k, i)
  BY <1>1 DEF Ahead
<3>2. Before(es, k, j)
  BY <1>3, <3>1, BeforeOrders
<3> QED
  BY <1>1, <3>1, <3>2 DEF Ahead
<2>2. i \in Ahead(es, j) /\ i \notin Ahead(es, i)
  BY <1>1, <1>3, BeforeOrders DEF Ahead
<2>3. IsFiniteSet(Ahead(es, j))
  BY <1>2
<2> QED
  BY <2>1, <2>2, <2>3, FS_Subset
<1>4. ASSUME NEW i \in 1..N, NEW j \in 1..N,
             Cardinality(Ahead(es, i)) = Cardinality(Ahead(es, j))
      PROVE  i = j
  BY <1>3, <1>4, BeforeOrders
<1> DEFINE place == [i \in 1..N |-> Cardinality(Ahead(es, i)) + 1]
<1>5. place \in [1..N -> 1..N]
  BY <1>2
<1>6. \A i, j \in 1..N : place[i] = place[j] => i = j
  BY <1>2, <1>4
<1>7. place \in Injection(1..N, 1..N)
  BY <1>5, <1>6 DEF Injection, IsInjective
<1>8. place \in Surjection(1..N, 1..N)
  BY <1>1, <1>7, FS_Injection
<1>9. ASSUME NEW n \in 1..N PROVE \E i \in 1..N : Cardinality(Ahead(es, i)) = n - 1
<2>1. PICK i \in 1..N : place[i] = n
  BY <1>8 DEF Surjection
<2>2. Cardinality(Ahead(es, i)) + 1 = n
  BY <2>1
<2>3. Cardinality(Ahead(es, i)) = n - 1
  BY <1>2, <2>2
<2> QED
  BY <2>3
<1> QED
  BY <1>2, <1>4, <1>9

\* q reorders es and keeps the order of events that the sort takes for equal.
Reorders(q, es, N) ==
  /\ q \in [1..N -> 1..N]
  /\ \A i, j \in 1..N : q[i] = q[j] => i = j
  /\ \A j \in 1..N : \E i \in 1..N : q[i] = j
  /\ \A i, j \in 1..N :
       i < j /\ es[q[i]].det = es[q[j]].det /\ es[q[i]].at = es[q[j]].at => q[i] < q[j]

LEMMA ReorderedOrder ==
  ASSUME NEW es, NEW N, Listed(es, N), NEW q, Reorders(q, es, N),
         NEW fs, fs = [n \in 1..N |-> es[q[n]]]
  PROVE  /\ Listed(fs, N)
         /\ \A i, j \in 1..N : Before(fs, i, j) <=> Before(es, q[i], q[j])
<1>1. N \in Nat /\ \A i \in 1..N : q[i] \in 1..N /\ fs[i] = es[q[i]]
  BY DEF Listed, Reorders
<1>2. Listed(fs, N)
  BY <1>1 DEF Listed
<1>3. ASSUME NEW i \in 1..N, NEW j \in 1..N
      PROVE  Before(fs, i, j) <=> Before(es, q[i], q[j])
<2>1. CASE es[q[i]].det = es[q[j]].det /\ es[q[i]].at = es[q[j]].at
<3>1. i < j => q[i] < q[j]
  BY <2>1 DEF Reorders
<3>2. j < i => q[j] < q[i]
  BY <2>1 DEF Reorders
<3>3. i = j => q[i] = q[j]
  OBVIOUS
<3>4. i \in Nat /\ j \in Nat /\ q[i] \in Nat /\ q[j] \in Nat
  BY <1>1
<3>5. i < j <=> q[i] < q[j]
  BY <3>1, <3>2, <3>3, <3>4
<3>6. es[q[i]].at \in Nat
  BY <1>1 DEF Listed
<3> QED
  BY <1>1, <2>1, <3>5, <3>6 DEF Before
<2>2. CASE ~(es[q[i]].det = es[q[j]].det /\ es[q[i]].at = es[q[j]].at)
  BY <1>1, <2>2 DEF Before
<2> QED
  BY <2>1, <2>2
<1> QED
  BY <1>2, <1>3

LEMMA ReorderedPlaces ==
  ASSUME NEW es, NEW N, Listed(es, N), NEW q, Reorders(q, es, N),
         NEW fs, fs = [n \in 1..N |-> es[q[n]]], NEW i \in 1..N
  PROVE  Cardinality(Ahead(fs, i)) = Cardinality(Ahead(es, q[i]))
<1>1. /\ Listed(fs, N) /\ DOMAIN fs = 1..N /\ DOMAIN es = 1..N
      /\ \A k, j \in 1..N : Before(fs, k, j) <=> Before(es, q[k], q[j])
<2>1. /\ Listed(fs, N)
      /\ \A k, j \in 1..N : Before(fs, k, j) <=> Before(es, q[k], q[j])
  BY ReorderedOrder
<2>2. DOMAIN fs = 1..N /\ DOMAIN es = 1..N
  BY <2>1 DEF Listed
<2> QED
  BY <2>1, <2>2
<1>2. /\ q \in [1..N -> 1..N] /\ q[i] \in 1..N
      /\ \A k, j \in 1..N : q[k] = q[j] => k = j
      /\ \A j \in 1..N : \E k \in 1..N : q[k] = j
  BY DEF Reorders
<1> DEFINE S == Ahead(fs, i)
           U == Ahead(es, q[i])
           f == [k \in S |-> q[k]]
<1>3. \A k \in S : k \in 1..N /\ q[k] \in U
  BY <1>1, <1>2 DEF Ahead
<1>4. \A j \in U : \E k \in S : q[k] = j
<2> SUFFICES ASSUME NEW j \in U PROVE \E k \in S : q[k] = j
  OBVIOUS
<2>1. j \in 1..N /\ Before(es, j, q[i])
  BY <1>1 DEF Ahead
<2>2. PICK k \in 1..N : q[k] = j
  BY <1>2, <2>1
<2>3. Before(fs, k, i)
  BY <1>1, <2>1, <2>2
<2> QED
  BY <1>1, <2>2, <2>3 DEF Ahead
<1>5. IsFiniteSet(S)
  BY <1>1, PlacesExact
<1> HIDE DEF S, U
<1>6. f \in Surjection(S, U)
  BY <1>3, <1>4 DEF Surjection
<1>7. f \in Injection(S, U)
  BY <1>2, <1>3 DEF Injection, IsInjective
<1>8. Cardinality(U) = Cardinality(S)
  BY <1>5, <1>6, <1>7, FS_Surjection
<1> QED
  BY <1>8 DEF S, U

LEMMA SortedPlaces ==
  ASSUME NEW es, NEW N, Listed(es, N)
  PROVE  /\ Reports!Sorted(es) = [n \in 1..N |-> es[AtPlace(es, n)]]
         /\ \A n \in 1..N : /\ AtPlace(es, n) \in 1..N
                            /\ Cardinality(Ahead(es, AtPlace(es, n))) = n - 1
         /\ \A i, j \in 1..N :
              Cardinality(Ahead(es, i)) = Cardinality(Ahead(es, j)) => i = j
<1>1. DOMAIN es = 1..N
  BY DEF Listed
<1>2. Reports!Sorted(es) = [n \in 1..N |-> es[AtPlace(es, n)]]
<2>1. Reports!Sorted(es) = [n \in DOMAIN es |-> es[AtPlace(es, n)]]
  BY SortedByPlace
<2> QED
  BY <1>1, <2>1
<1>3. ASSUME NEW n \in 1..N
      PROVE  /\ AtPlace(es, n) \in 1..N
             /\ Cardinality(Ahead(es, AtPlace(es, n))) = n - 1
<2>1. \E i \in DOMAIN es :
        Reports!Cardinality({j \in DOMAIN es : Before(es, j, i)}) = n - 1
<3>1. \E i \in DOMAIN es : Reports!Cardinality(Ahead(es, i)) = n - 1
  BY <1>1, PlacesExact, CardinalityOfReports
<3> QED
  BY <3>1 DEF Ahead
<2>2. /\ AtPlace(es, n) \in 1..N
      /\ Reports!Cardinality(Ahead(es, AtPlace(es, n))) = n - 1
<3>1. /\ AtPlace(es, n) \in DOMAIN es
      /\ Reports!Cardinality({j \in DOMAIN es : Before(es, j, AtPlace(es, n))}) = n - 1
  BY <2>1 DEF AtPlace
<3> QED
  BY <1>1, <3>1 DEF Ahead
<2> QED
  BY <2>2, CardinalityOfReports
<1>4. \A i, j \in 1..N : Cardinality(Ahead(es, i)) = Cardinality(Ahead(es, j)) => i = j
  BY PlacesExact
<1> QED
  BY <1>2, <1>3, <1>4

LEMMA SameSort ==
  ASSUME NEW es, NEW N, Listed(es, N), NEW q, Reorders(q, es, N),
         NEW fs, fs = [n \in 1..N |-> es[q[n]]]
  PROVE  Reports!Sorted(fs) = Reports!Sorted(es)
<1>1. Listed(fs, N)
  BY ReorderedOrder
<1>2. ASSUME NEW n \in 1..N PROVE fs[AtPlace(fs, n)] = es[AtPlace(es, n)]
<2>1. PICK i \in 1..N : i = AtPlace(fs, n) /\ Cardinality(Ahead(fs, i)) = n - 1
  BY <1>1, SortedPlaces
<2>2. PICK j \in 1..N : j = AtPlace(es, n) /\ Cardinality(Ahead(es, j)) = n - 1
  BY SortedPlaces
<2>3. q[i] \in 1..N /\ fs[i] = es[q[i]]
  BY <2>1 DEF Reorders
<2>4. Cardinality(Ahead(es, q[i])) = Cardinality(Ahead(es, j))
  BY <2>1, <2>2, ReorderedPlaces
<2>5. q[i] = j
  BY <2>2, <2>3, <2>4, SortedPlaces
<2> QED
  BY <2>1, <2>2, <2>3, <2>5
<1>3. [n \in 1..N |-> fs[AtPlace(fs, n)]] = [n \in 1..N |-> es[AtPlace(es, n)]]
  BY <1>2
<1>4. Reports!Sorted(fs) = [n \in 1..N |-> fs[AtPlace(fs, n)]]
<2>1. Reports!Sorted(fs) = [n \in DOMAIN fs |-> fs[AtPlace(fs, n)]]
  BY SortedByPlace
<2>2. DOMAIN fs = 1..N
  BY <1>1 DEF Listed
<2> QED
  BY <2>1, <2>2
<1>5. Reports!Sorted(es) = [n \in 1..N |-> es[AtPlace(es, n)]]
  BY SortedPlaces
<1> QED
  BY <1>3, <1>4, <1>5

\* The events of a window.
Emitted == {[det |-> s.det, conf |-> s.conf, sev |-> s.sev, key |-> s.key, at |-> t] :
            s \in Samples, t \in Nat}

\* The report is that of the events as they stand.
ScoreInv ==
  /\ now \in Nat /\ events \in Seq(Emitted)
  /\ report = Reports!score(events, now, meta)

LEMMA ScoreInvOrder == ScoreInv => Reports!OrderIndependent
<1> SUFFICES ASSUME ScoreInv,
                    NEW q \in Reports!Bijection(DOMAIN events, DOMAIN events),
                    Reports!SameOrderOfEquals(q)
             PROVE  Reports!score(Reports!Reordered(q), now, meta) = report
  BY DEF Reports!OrderIndependent
<1>1. PICK N \in Nat : N = Len(events) /\ DOMAIN events = 1..N
  BY DEF ScoreInv
<1>2. Listed(events, N)
<2>1. ASSUME NEW e \in Emitted PROVE e.det \in Dets /\ e.at \in Nat
<3>1. PICK s \in Samples, t \in Nat : e.det = s.det /\ e.at = t
  BY <2>1 DEF Emitted
<3> QED
  BY <3>1, SamplesAssumption DEF Dets
<2>2. \A i \in 1..N : events[i] \in Emitted
  BY <1>1 DEF ScoreInv
<2> QED
  BY <1>1, <2>1, <2>2 DEF Listed
<1>3. Reorders(q, events, N)
  BY <1>1 DEF Reorders, Reports!Bijection, Reports!Injection, Reports!Surjection,
     Reports!IsInjective, Reports!SameOrderOfEquals
<1>4. Reports!Reordered(q) = [n \in 1..N |-> events[q[n]]]
  BY <1>1 DEF Reports!Reordered
<1>5. Reports!Sorted(Reports!Reordered(q)) = Reports!Sorted(events)
  BY <1>2, <1>3, <1>4, SameSort
<1>6. Reports!score(Reports!Reordered(q), now, meta) = Reports!score(events, now, meta)
  BY <1>5 DEF Reports!score
<1> QED
  BY <1>6 DEF ScoreInv

LEMMA ScoreInvStarts == Reports!Init => ScoreInv
  BY DEF Reports!Init, ScoreInv

LEMMA ScoreInvStep == ScoreInv /\ [Reports!Next]_(Reports!vars) => ScoreInv'
<1> SUFFICES ASSUME ScoreInv, [Reports!Next]_(Reports!vars) PROVE ScoreInv'
  OBVIOUS
<1>1. CASE Reports!Emit
<2>1. PICK s \in Samples, t \in now..now + 1 :
        events' = Append(events, [det |-> s.det, conf |-> s.conf, sev |-> s.sev,
                                  key |-> s.key, at |-> t])
  BY <1>1 DEF Reports!Emit
<2>2. t \in Nat
  BY <2>1 DEF ScoreInv
<2>3. events' \in Seq(Emitted)
<3>1. PICK e \in Emitted : events' = Append(events, e)
  BY <2>1, <2>2 DEF Emitted
<3> QED
  BY <3>1 DEF ScoreInv
<2> QED
  BY <1>1, <2>3 DEF Reports!Emit, Reports!Evaluate, ScoreInv
<1>2. CASE Reports!HalfLifePasses
  BY <1>2 DEF Reports!HalfLifePasses, Reports!Evaluate, ScoreInv
<1>3. CASE UNCHANGED Reports!vars
  BY <1>3 DEF Reports!vars, ScoreInv
<1> QED
  BY <1>1, <1>2, <1>3 DEF Reports!Next

\* ScoringEngine::score first sorts the events by detector and time
\* (engine.rs): whatever order the detectors' tasks hand them over in, the
\* report is the same, as long as events of one detector at one time keep
\* theirs.
THEOREM OrderDoesNotMatter ==
  /\ Reports!Spec => []Reports!OrderIndependent
  /\ MCSpec => []OrderIndependent
<1> DEFINE Inv == part = "scoring" => ScoreInv
<1>1. MCInit => Inv
  BY ScoreInvStarts DEF MCInit
<1>2. Inv /\ [MCNext]_mcVars => Inv'
<2> SUFFICES ASSUME Inv, [MCNext]_mcVars, part' = "scoring" PROVE ScoreInv'
  OBVIOUS
<2>1. CASE ScoringStep
  BY <2>1, ScoreInvStep DEF ScoringStep
<2>2. CASE ~ScoringStep
<3>1. UNCHANGED <<part, events, now, meta, report>>
  BY <2>2 DEF MCNext, ChangepointStep, PoolStep, RingStep, TradesStep, LabelsStep,
     MoneyStep, mcVars, scoringVars
<3> QED
  BY <3>1 DEF ScoreInv
<2> QED
  BY <2>1, <2>2
<1>3. Inv => OrderIndependent
  BY ScoreInvOrder DEF OrderIndependent
<1>4. MCSpec => []OrderIndependent
  BY <1>1, <1>2, <1>3, PTL DEF MCSpec
<1>5. Reports!Spec => []Reports!OrderIndependent
  BY ScoreInvStarts, ScoreInvStep, ScoreInvOrder, PTL DEF Reports!Spec
<1> QED
  BY <1>4, <1>5

(***************************************************************************)
(* Scoring, from one report to the next.  A score is a sum of the greatest *)
(* effective confidence of each detector, by weight (ShareAddsUp), so it   *)
(* grows with each of them (BaseGrows); halving never adds (HalvedFades).  *)
(* What the report has of a detector is said of the events and not of      *)
(* their order (Covers); so two windows compare of which one is in the     *)
(* other, or is the same a half-life later (CoversGrow, ReportGrows).      *)
(***************************************************************************)
\* A bounded set of numbers that is not empty has a greatest one.
LEMMA Greatest ==
  ASSUME NEW M \in Nat, NEW T \in SUBSET (0..M), T # {}
  PROVE  Reports!Max(T) \in T /\ \A x \in T : x <= Reports!Max(T)
<1> DEFINE U == {M - x : x \in T}
<1>1. U \in SUBSET Nat /\ U # {}
<2>1. \A x \in T : x \in 0..M /\ M - x \in Nat
  OBVIOUS
<2>2. PICK x \in T : TRUE
  OBVIOUS
<2>3. M - x \in U
  OBVIOUS
<2> QED
  BY <2>1, <2>3
<1>2. PICK u \in U : \A y \in U : u <= y
  BY <1>1, Least
<1>3. PICK g \in T : u = M - g
  BY <1>2
<1>4. ASSUME NEW x \in T PROVE g >= x
<2>1. M - g <= M - x
  BY <1>2, <1>3
<2>2. M \in Nat /\ g \in 0..M /\ x \in 0..M
  OBVIOUS
<2> HIDE DEF U
<2> QED
  BY <2>1, <2>2
<1>5. \E z \in T : \A x \in T : z >= x
  BY <1>4
<1>6. Reports!Max(T) \in T /\ \A x \in T : Reports!Max(T) >= x
  BY <1>5 DEF Reports!Max
<1> QED
  BY <1>6

LEMMA LesserScore ==
  ASSUME NEW a \in Nat, NEW b \in Nat
  PROVE  Reports!Min({a, b}) = IF a <= b THEN a ELSE b
<1> DEFINE m == IF a <= b THEN a ELSE b
<1>1. m \in {a, b} /\ \A y \in {a, b} : m <= y
  OBVIOUS
<1>2. \A x \in {a, b} : (\A y \in {a, b} : x <= y) => x = m
  OBVIOUS
<1> QED
  BY <1>1, <1>2 DEF Reports!Min

\* f halves x again and again, n times.
Halves(f, x, n) ==
  /\ f \in [0..n -> 0..x] /\ f[0] = x
  /\ \A k \in 1..n : f[k] = f[k - 1] \div 2

LEMMA HalvesTo ==
  ASSUME NEW x \in Nat, NEW n \in Nat
  PROVE  \E f : Halves(f, x, n)
<1> DEFINE G == {k \in 0..n : \E f : Halves(f, x, k)}
<1>1. 0 \in G
<2>1. Halves([k \in 0..0 |-> x], x, 0)
  BY DEF Halves
<2> QED
  BY <2>1
<1>2. ASSUME NEW k \in 1..n, k - 1 \in G PROVE k \in G
<2>1. PICK f : Halves(f, x, k - 1)
  BY <1>2
<2>2. PICK y \in 0..x : y = f[k - 1]
  BY <2>1 DEF Halves
<2>3. y \div 2 \in 0..x
  BY <2>2
<2> DEFINE g == [m \in 0..k |-> IF m = k THEN y \div 2 ELSE f[m]]
<2>4. g \in [0..k -> 0..x] /\ g[0] = x
  BY <2>1, <2>3 DEF Halves
<2>5. ASSUME NEW m \in 1..k PROVE g[m] = g[m - 1] \div 2
<3>1. CASE m = k
<4>1. k \in 0..k /\ k - 1 \in 0..k /\ k - 1 # k
  OBVIOUS
<4> QED
  BY <2>2, <3>1, <4>1
<3>2. CASE m # k
<4>1. m \in 1..(k - 1) /\ m \in 0..k /\ m - 1 \in 0..k /\ m - 1 # k
  BY <3>2
<4>2. f[m] = f[m - 1] \div 2
  BY <2>1, <4>1 DEF Halves
<4> QED
  BY <3>2, <4>1, <4>2
<3> QED
  BY <3>1, <3>2
<2>6. Halves(g, x, k)
  BY <2>4, <2>5 DEF Halves
<2> QED
  BY <2>6
<1> HIDE DEF G
<1>3. n \in G
  BY <1>1, <1>2, Climb
<1> QED
  BY <1>3 DEF G

LEMMA HalvedIs ==
  ASSUME NEW x \in Nat, NEW n \in Nat, NEW f, Halves(f, x, n)
  PROVE  Reports!Halved(x, n) = f[n]
<1>1. f = [k \in 0..n |-> IF k = 0 THEN x ELSE f[k - 1] \div 2]
  BY DEF Halves
<1> DEFINE h == CHOOSE half : half = [k \in 0..n |-> IF k = 0 THEN x ELSE half[k - 1] \div 2]
<1>2. h = [k \in 0..n |-> IF k = 0 THEN x ELSE h[k - 1] \div 2]
  BY <1>1
<1>3. Reports!Halved(x, n) = h[n]
  BY DEF Reports!Halved
<1> HIDE DEF h
<1> DEFINE G == {k \in 0..n : h[k] = f[k]}
<1>4. 0 \in G
  BY <1>1, <1>2
<1>5. ASSUME NEW k \in 1..n, k - 1 \in G PROVE k \in G
<2>1. k \in 0..n /\ k - 1 \in 0..n /\ k # 0
  OBVIOUS
<2>2. h[k] = h[k - 1] \div 2 /\ f[k] = f[k - 1] \div 2
  BY <1>1, <1>2, <2>1
<2> QED
  BY <1>5, <2>1, <2>2
<1> HIDE DEF G
<1>6. n \in G
  BY <1>4, <1>5, Climb
<1> QED
  BY <1>3, <1>6 DEF G

\* Halving once more never adds.
LEMMA HalvedFades ==
  ASSUME NEW x \in Nat, NEW n \in Nat
  PROVE  /\ Reports!Halved(x, n) \in 0..x
         /\ Reports!Halved(x, 0) = x
         /\ Reports!Halved(x, n + 1) <= Reports!Halved(x, n)
<1>1. PICK f : Halves(f, x, n + 1)
  BY HalvesTo
<1>2. Reports!Halved(x, n + 1) = f[n + 1]
  BY <1>1, HalvedIs
<1> DEFINE g == [k \in 0..n |-> f[k]]
<1>3. Halves(g, x, n)
<2>1. \A k \in 0..n : k \in 0..(n + 1)
  OBVIOUS
<2>2. g \in [0..n -> 0..x] /\ g[0] = x
  BY <1>1, <2>1 DEF Halves
<2>3. ASSUME NEW k \in 1..n PROVE g[k] = g[k - 1] \div 2
<3>1. k \in 1..(n + 1) /\ k \in 0..n /\ k - 1 \in 0..n
  OBVIOUS
<3>2. f[k] = f[k - 1] \div 2
  BY <1>1, <3>1 DEF Halves
<3> QED
  BY <3>1, <3>2
<2> QED
  BY <2>2, <2>3 DEF Halves
<1>4. Reports!Halved(x, n) = f[n]
<2>1. Reports!Halved(x, n) = g[n]
  BY <1>3, HalvedIs
<2> QED
  BY <2>1
<1>5. n \in 0..(n + 1) /\ n + 1 \in 1..(n + 1) /\ (n + 1) - 1 = n
  OBVIOUS
<1>6. f[n] \in 0..x /\ f[n + 1] = f[n] \div 2
  BY <1>1, <1>5 DEF Halves
<1>7. f[n] \div 2 <= f[n]
  BY <1>6
<1>8. Reports!Halved(x, 0) = x
<2>1. Halves([k \in 0..0 |-> x], x, 0)
  BY DEF Halves
<2>2. Reports!Halved(x, 0) = [k \in 0..0 |-> x][0]
  BY <2>1, HalvedIs
<2> QED
  BY <2>2
<1> QED
  BY <1>2, <1>4, <1>6, <1>7, <1>8

\* A term for every detector of the list.
Terms(w) == w \in Seq(Nat) /\ Len(w) = Len(Reports!Ids)

LEMMA TermsAt ==
  ASSUME NEW w, w \in Seq(Nat), Len(w) = 11, NEW n \in 1..11
  PROVE  w[n] \in Nat
<1>1. n \in 1..Len(w)
  OBVIOUS
<1> QED
  BY <1>1, ElementOfSeq

LEMMA TermsOf ==
  ASSUME NEW w \in [1..11 -> Nat]
  PROVE  w \in Seq(Nat) /\ Len(w) = 11
<1>1. PICK N \in Nat : N = 11
  OBVIOUS
<1>2. w \in [1..N -> Nat]
  BY <1>1
<1>3. w \in Seq(Nat)
  BY <1>2, SeqDef
<1>4. Len(w) \in Nat /\ 1..Len(w) = 1..N
  BY <1>2, <1>3, LenProperties
<1> QED
  BY <1>1, <1>3, <1>4

LEMMA SumsGrow ==
  ASSUME NEW v, NEW w, Terms(v), Terms(w), \A n \in 1..Len(v) : v[n] <= w[n],
         NEW N \in Nat, N = Len(v)
  PROVE  /\ Changepoint!Sums(v)[N] \in Nat /\ Changepoint!Sums(w)[N] \in Nat
         /\ Changepoint!Sums(v)[N] <= Changepoint!Sums(w)[N]
<1>1. v \in Seq(Nat) /\ w \in Seq(Nat) /\ Len(v) = N /\ Len(w) = N
  BY DEF Terms
<1>2. PICK f : f = Changepoint!Sums(v) /\ Adds(f, v, N)
  BY <1>1, SumsAdd
<1>3. PICK g : g = Changepoint!Sums(w) /\ Adds(g, w, N)
  BY <1>1, SumsAdd
<1> DEFINE G == {n \in 0..N : f[n] <= g[n]}
<1>4. 0 \in G
  BY <1>2, <1>3 DEF Adds
<1>5. ASSUME NEW n \in 1..N, n - 1 \in G PROVE n \in G
<2>1. f[n] = f[n - 1] + v[n] /\ g[n] = g[n - 1] + w[n]
  BY <1>2, <1>3 DEF Adds
<2>2. n \in 0..N /\ n - 1 \in 0..N
  OBVIOUS
<2>3. f[n - 1] \in Nat /\ g[n - 1] \in Nat
  BY <1>2, <1>3, <2>2 DEF Adds
<2>4. v[n] \in Nat /\ w[n] \in Nat /\ v[n] <= w[n]
  BY <1>1
<2> QED
  BY <1>5, <2>1, <2>2, <2>3, <2>4
<1> HIDE DEF G
<1>6. N \in G /\ N \in 0..N
  BY <1>4, <1>5, Climb
<1>7. f[N] <= g[N]
  BY <1>6 DEF G
<1>8. f[N] \in Nat /\ g[N] \in Nat
  BY <1>2, <1>3, <1>6 DEF Adds
<1> QED
  BY <1>2, <1>3, <1>7, <1>8

\* What each detector of the list adds to the base score.
Share(per) ==
  [n \in 1..Len(Reports!Ids) |->
     IF Reports!Ids[n] \in DOMAIN per
     THEN Reports!WeightOf(Reports!Ids[n]) * per[Reports!Ids[n]].max_effective ELSE 0]

LEMMA WeightsInNat == \A d : Reports!WeightOf(d) \in Nat
<1> SUFFICES ASSUME NEW d PROVE Reports!WeightOf(d) \in Nat
  OBVIOUS
<1>1. \A c \in DOMAIN Reports!Weights : Reports!Weights[c] \in Nat
  BY DEF Reports!Weights
<1> QED
  BY <1>1 DEF Reports!WeightOf, Reports!CanonicalIds

LEMMA IdsListed == Len(Reports!Ids) = 11 /\ DOMAIN Reports!Ids = 1..11
  BY DEF Reports!Ids

\* The sum of the base score is that of the shares.
LEMMA ShareAddsUp ==
  ASSUME NEW per, Terms(Share(per))
  PROVE  Reports!SumOver(DOMAIN per,
           LAMBDA id : Reports!WeightOf(id) * per[id].max_effective)
             = Changepoint!Sums(Share(per))[11]
<1> DEFINE w == Share(per)
           h == CHOOSE sum : sum = [n \in 0..Len(Reports!Ids) |->
                  IF n = 0 THEN 0
                  ELSE sum[n - 1]
                         + (IF Reports!Ids[n] \in DOMAIN per
                            THEN Reports!WeightOf(Reports!Ids[n])
                                   * per[Reports!Ids[n]].max_effective
                            ELSE 0)]
<1>1. Reports!SumOver(DOMAIN per,
        LAMBDA id : Reports!WeightOf(id) * per[id].max_effective) = h[Len(Reports!Ids)]
  BY DEF Reports!SumOver
<1>2. w \in Seq(Nat) /\ Len(w) = 11
  BY IdsListed DEF Terms
<1>3. PICK f : f = Changepoint!Sums(w) /\ Adds(f, w, 11)
  BY <1>2, SumsAdd
<1>4. f = [n \in 0..11 |-> IF n = 0 THEN 0 ELSE f[n - 1] + w[n]]
  BY <1>3 DEF Adds
<1>5. \A n \in 1..11 :
        w[n] = IF Reports!Ids[n] \in DOMAIN per
               THEN Reports!WeightOf(Reports!Ids[n]) * per[Reports!Ids[n]].max_effective
               ELSE 0
  BY IdsListed DEF Share
<1> HIDE DEF w
<1>6. f = [n \in 0..Len(Reports!Ids) |->
             IF n = 0 THEN 0
             ELSE f[n - 1]
                    + (IF Reports!Ids[n] \in DOMAIN per
                       THEN Reports!WeightOf(Reports!Ids[n])
                              * per[Reports!Ids[n]].max_effective
                       ELSE 0)]
<2>1. \A n \in 0..11 : n # 0 => n \in 1..11
  OBVIOUS
<2> QED
  BY <1>4, <1>5, <2>1, IdsListed
<1>7. h = [n \in 0..11 |->
             IF n = 0 THEN 0
             ELSE h[n - 1]
                    + (IF Reports!Ids[n] \in DOMAIN per
                       THEN Reports!WeightOf(Reports!Ids[n])
                              * per[Reports!Ids[n]].max_effective
                       ELSE 0)]
  BY <1>6, IdsListed
<1> HIDE DEF h
<1> DEFINE G == {n \in 0..11 : h[n] = f[n]}
<1>8. 0 \in G
  BY <1>4, <1>7
<1>9. ASSUME NEW k \in 1..11, k - 1 \in G PROVE k \in G
<2>1. k \in 0..11 /\ k - 1 \in 0..11 /\ k # 0
  OBVIOUS
<2>2. h[k] = h[k - 1] + w[k] /\ f[k] = f[k - 1] + w[k]
  BY <1>4, <1>5, <1>7, <2>1
<2> QED
  BY <1>9, <2>1, <2>2
<1> HIDE DEF G
<1>10. 11 \in G
  BY <1>8, <1>9, Climb
<1> QED
  BY <1>1, <1>3, <1>10, IdsListed DEF G, w

LEMMA TotalWeightInNat == Reports!TotalWeight \in Nat
<1> DEFINE w == [n \in 1..11 |-> IF Reports!Ids[n] \in Reports!CanonicalIds
                                 THEN Reports!WeightOf(Reports!Ids[n]) ELSE 0]
           h == CHOOSE sum : sum = [n \in 0..Len(Reports!Ids) |->
                  IF n = 0 THEN 0
                  ELSE sum[n - 1]
                         + (IF Reports!Ids[n] \in Reports!CanonicalIds
                            THEN Reports!WeightOf(Reports!Ids[n]) ELSE 0)]
<1>1. Reports!TotalWeight = h[Len(Reports!Ids)]
  BY DEF Reports!TotalWeight, Reports!SumOver
<1>2. w \in Seq(Nat) /\ Len(w) = 11
  BY WeightsInNat
<1>3. PICK f : Adds(f, w, 11)
  BY <1>2, SumsAdd
<1>4. f = [n \in 0..11 |-> IF n = 0 THEN 0 ELSE f[n - 1] + w[n]]
  BY <1>3 DEF Adds
<1>5. \A n \in 0..11 : n # 0 => n \in 1..11
  OBVIOUS
<1>6. f = [n \in 0..Len(Reports!Ids) |->
             IF n = 0 THEN 0
             ELSE f[n - 1]
                    + (IF Reports!Ids[n] \in Reports!CanonicalIds
                       THEN Reports!WeightOf(Reports!Ids[n]) ELSE 0)]
  BY <1>4, <1>5, IdsListed
<1>7. h = [n \in 0..11 |-> IF n = 0 THEN 0 ELSE h[n - 1] + w[n]]
<2>1. h = [n \in 0..11 |->
             IF n = 0 THEN 0
             ELSE h[n - 1]
                    + (IF Reports!Ids[n] \in Reports!CanonicalIds
                       THEN Reports!WeightOf(Reports!Ids[n]) ELSE 0)]
  BY <1>6, IdsListed
<2> HIDE DEF h
<2> QED
  BY <1>5, <2>1
<1> HIDE DEF h, w
<1> DEFINE G == {n \in 0..11 : h[n] \in Nat}
<1>8. 0 \in G
  BY <1>7
<1>9. ASSUME NEW k \in 1..11, k - 1 \in G PROVE k \in G
<2>1. k \in 0..11 /\ k - 1 \in 0..11 /\ k # 0
  OBVIOUS
<2>2. w[k] \in Nat
  BY <1>2, TermsAt
<2> QED
  BY <1>7, <1>9, <2>1, <2>2
<1> HIDE DEF G
<1>10. 11 \in G
  BY <1>8, <1>9, Climb
<1> QED
  BY <1>1, <1>10, IdsListed DEF G

\* What each detector adds up to.
Rated(per) == \A id \in DOMAIN per : per[id].max_effective \in Nat

LEMMA SharesInNat == ASSUME NEW per, Rated(per) PROVE Terms(Share(per))
<1>1. ASSUME NEW n \in 1..11, Reports!Ids[n] \in DOMAIN per
      PROVE  Reports!WeightOf(Reports!Ids[n]) * per[Reports!Ids[n]].max_effective \in Nat
<2>1. PICK a \in Nat, b \in Nat :
        a = Reports!WeightOf(Reports!Ids[n]) /\ b = per[Reports!Ids[n]].max_effective
  BY <1>1, WeightsInNat DEF Rated
<2> QED
  BY <2>1
<1>2. Share(per) \in [1..11 -> Nat]
  BY <1>1, IdsListed DEF Share
<1> QED
  BY <1>2, TermsOf, IdsListed DEF Terms

LEMMA BaseIs ==
  ASSUME NEW per, Rated(per)
  PROVE  \E full \in Nat, sum \in Nat :
           /\ full = Reports!Full * Reports!TotalWeight
           /\ sum = Changepoint!Sums(Share(per))[11]
           /\ Reports!BaseScore(per) = IF full <= sum THEN full ELSE sum
<1>1. Terms(Share(per)) /\ Len(Share(per)) = 11
  BY SharesInNat, IdsListed DEF Terms
<1>2. Reports!SumOver(DOMAIN per,
        LAMBDA id : Reports!WeightOf(id) * per[id].max_effective)
          = Changepoint!Sums(Share(per))[11]
  BY <1>1, ShareAddsUp
<1>3. Changepoint!Sums(Share(per))[11] \in Nat
<2>1. \A n \in 1..11 : Share(per)[n] \in Nat
  BY <1>1, TermsAt DEF Terms
<2>2. \A n \in 1..Len(Share(per)) : Share(per)[n] <= Share(per)[n]
  BY <1>1, <2>1
<2> QED
  BY <1>1, <2>2, SumsGrow
<1>4. Reports!Full * Reports!TotalWeight \in Nat
<2>1. PICK a \in Nat : a = Reports!TotalWeight
  BY TotalWeightInNat
<2>2. Reports!Full \in Nat
  BY SamplesAssumption DEF Reports!Full
<2> QED
  BY <2>1, <2>2
<1>5. PICK full \in Nat, sum \in Nat :
        /\ full = Reports!Full * Reports!TotalWeight
        /\ sum = Changepoint!Sums(Share(per))[11]
  BY <1>3, <1>4
<1>6. Reports!BaseScore(per) = Reports!Min({full, sum})
  BY <1>2, <1>5 DEF Reports!BaseScore
<1> QED
  BY <1>5, <1>6, LesserScore

\* Whoever adds no less has no lower base score.
LEMMA BaseGrows ==
  ASSUME NEW per, NEW other, Rated(per), Rated(other),
         DOMAIN per \subseteq DOMAIN other,
         \A id \in DOMAIN per : per[id].max_effective <= other[id].max_effective
  PROVE  /\ Reports!BaseScore(per) \in Nat /\ Reports!BaseScore(other) \in Nat
         /\ Reports!BaseScore(per) <= Reports!BaseScore(other)
<1>1. Terms(Share(per)) /\ Terms(Share(other)) /\ Len(Share(per)) = 11
  BY SharesInNat, IdsListed DEF Terms
<1>2. ASSUME NEW n \in 1..11 PROVE Share(per)[n] <= Share(other)[n]
<2>1. Share(per)[n] \in Nat /\ Share(other)[n] \in Nat
  BY <1>1, TermsAt, IdsListed DEF Terms
<2>2. CASE Reports!Ids[n] \in DOMAIN per
<3>1. PICK w \in Nat, a \in Nat, b \in Nat :
        /\ w = Reports!WeightOf(Reports!Ids[n])
        /\ a = per[Reports!Ids[n]].max_effective
        /\ b = other[Reports!Ids[n]].max_effective
  BY <2>2, WeightsInNat DEF Rated
<3>2. a <= b
  BY <2>2, <3>1
<3>3. w * a <= w * b
<4>1. w * (b - a) \in Nat /\ w * b = w * a + w * (b - a)
  BY <3>2
<4> QED
  BY <4>1
<3>4. Share(per)[n] = w * a /\ Share(other)[n] = w * b
  BY <2>2, <3>1, IdsListed DEF Share
<3> QED
  BY <3>3, <3>4
<2>3. CASE Reports!Ids[n] \notin DOMAIN per
  BY <2>1, <2>3, IdsListed DEF Share
<2> QED
  BY <2>2, <2>3
<1>3. Changepoint!Sums(Share(per))[11] <= Changepoint!Sums(Share(other))[11]
  BY <1>1, <1>2, SumsGrow
<1>4. PICK full \in Nat, sum \in Nat :
        /\ full = Reports!Full * Reports!TotalWeight
        /\ sum = Changepoint!Sums(Share(per))[11]
        /\ Reports!BaseScore(per) = IF full <= sum THEN full ELSE sum
  BY BaseIs
<1>5. PICK full2 \in Nat, sum2 \in Nat :
        /\ full2 = Reports!Full * Reports!TotalWeight
        /\ sum2 = Changepoint!Sums(Share(other))[11]
        /\ Reports!BaseScore(other) = IF full2 <= sum2 THEN full2 ELSE sum2
  BY BaseIs
<1> QED
  BY <1>3, <1>4, <1>5

LEMMA EmittedHas ==
  ASSUME NEW e \in Emitted
  PROVE  e.det \in Dets /\ e.at \in Nat /\ e.conf \in 0..10 /\ e.sev \in 0..4
<1>1. PICK s \in Samples, t \in Nat :
        e.det = s.det /\ e.conf = s.conf /\ e.sev = s.sev /\ e.at = t
  BY DEF Emitted
<1> QED
  BY <1>1, SamplesAssumption DEF Dets

\* The events of the sort are the events.
LEMMA SortedSame ==
  ASSUME NEW es, NEW N, Listed(es, N)
  PROVE  /\ DOMAIN Reports!Sorted(es) = 1..N
         /\ \A n \in 1..N : \E i \in 1..N : Reports!Sorted(es)[n] = es[i]
         /\ \A i \in 1..N : \E n \in 1..N : Reports!Sorted(es)[n] = es[i]
<1>1. /\ Reports!Sorted(es) = [n \in 1..N |-> es[AtPlace(es, n)]]
      /\ \A n \in 1..N : AtPlace(es, n) \in 1..N
  BY SortedPlaces
<1>2. ASSUME NEW i \in 1..N PROVE \E n \in 1..N : AtPlace(es, n) = i
<2>1. PICK c \in Nat : c = Cardinality(Ahead(es, i)) /\ IsFiniteSet(Ahead(es, i))
  BY PlacesExact
<2>2. N \in Nat /\ IsFiniteSet(1..N) /\ Cardinality(1..N) = N
<3>1. N \in Nat
  BY DEF Listed
<3> QED
  BY <3>1, FS_Interval
<2>3. Ahead(es, i) \in SUBSET (1..N) /\ i \notin Ahead(es, i)
<3>1. DOMAIN es = 1..N
  BY DEF Listed
<3> QED
  BY <3>1, BeforeOrders DEF Ahead
<2>4. Cardinality(Ahead(es, i)) <= Cardinality(1..N)
      /\ Cardinality(1..N) # Cardinality(Ahead(es, i))
  BY <2>2, <2>3, FS_Subset
<2>5. c + 1 \in 1..N /\ (c + 1) - 1 = c
  BY <2>1, <2>2, <2>4
<2>6. PICK j \in 1..N : j = AtPlace(es, c + 1) /\ Cardinality(Ahead(es, j)) = c
<3>1. Cardinality(Ahead(es, AtPlace(es, c + 1))) = (c + 1) - 1
  BY <2>5, SortedPlaces
<3> QED
  BY <1>1, <2>5, <3>1
<2>7. j = i
  BY <2>1, <2>6, SortedPlaces
<2> QED
  BY <2>5, <2>6, <2>7
<1> QED
  BY <1>1, <1>2

Window(es, N) == N \in Nat /\ DOMAIN es = 1..N /\ \A i \in 1..N : es[i] \in Emitted

LEMMA EffectiveInNat ==
  ASSUME NEW e \in Emitted, NEW t \in Nat
  PROVE  /\ Reports!Effective(e, t) \in 0..(e.conf * Unit)
         /\ Reports!Effective(e, t) \in 0..Reports!Full
         /\ Reports!Effective(e, t + 1) <= Reports!Effective(e, t)
         /\ e.det \in Reports!StateBased => Reports!Effective(e, t) = e.conf * Unit
<1>1. e.at \in Nat /\ e.conf \in 0..10 /\ Unit \in Nat
  BY EmittedHas, SamplesAssumption
<1>2. PICK x \in Nat : x = e.conf * Unit /\ x <= Reports!Full
<2>1. e.conf * Unit \in Nat /\ (10 - e.conf) * Unit \in Nat
  BY <1>1
<2>2. 10 * Unit = e.conf * Unit + (10 - e.conf) * Unit
  BY <1>1
<2> QED
  BY <2>1, <2>2 DEF Reports!Full
<1>3. PICK n \in Nat : n = Reports!Halvings(e, t)
  BY <1>1 DEF Reports!Halvings
<1>4. Reports!Halvings(e, t + 1) = n \/ Reports!Halvings(e, t + 1) = n + 1
  BY <1>1, <1>3 DEF Reports!Halvings
<1>5. Reports!Full \in Nat
  BY <1>1 DEF Reports!Full
<1>6. /\ Reports!Halved(x, n) \in 0..x
      /\ Reports!Halved(x, 0) = x
      /\ Reports!Halved(x, n + 1) <= Reports!Halved(x, n)
  BY HalvedFades
<1>7. Reports!Effective(e, t) = Reports!Halved(x, n)
  BY <1>2, <1>3 DEF Reports!Effective
<1>8. Reports!Effective(e, t + 1) <= Reports!Effective(e, t)
<2>1. Reports!Effective(e, t + 1) = Reports!Halved(x, Reports!Halvings(e, t + 1))
  BY <1>2 DEF Reports!Effective
<2> QED
  BY <1>4, <1>6, <1>7, <2>1
<1>9. e.det \in Reports!StateBased => n = 0
  BY <1>3 DEF Reports!Halvings
<1> QED
  BY <1>2, <1>5, <1>6, <1>7, <1>8, <1>9

\* A number that is the greatest of those of some events, or zero.
Tops(m, es, acc, t) ==
  /\ m \in Nat
  /\ \A i \in acc : Reports!Effective(es[i], t) <= m
  /\ m = 0 \/ \E i \in acc : m = Reports!Effective(es[i], t)

LEMMA MaxEffectiveTops ==
  ASSUME NEW es, NEW N, Window(es, N), NEW acc \in SUBSET (1..N), NEW t \in Nat
  PROVE  Tops(Reports!MaxEffective(es, acc, t), es, acc, t)
<1> DEFINE T == {0} \cup {Reports!Effective(es[i], t) : i \in acc}
<1>1. Reports!Full \in Nat
  BY SamplesAssumption DEF Reports!Full
<1>2. \A i \in acc : Reports!Effective(es[i], t) \in 0..Reports!Full
  BY EffectiveInNat DEF Window
<1>3. T \in SUBSET (0..Reports!Full) /\ T # {}
  BY <1>1, <1>2
<1>4. Reports!Max(T) \in T /\ \A x \in T : x <= Reports!Max(T)
  BY <1>1, <1>3, Greatest
<1>5. Reports!MaxEffective(es, acc, t) = Reports!Max(T)
  BY DEF Reports!MaxEffective
<1>6. PICK m : m = Reports!Max(T)
  OBVIOUS
<1>7. m \in T /\ (\A x \in T : x <= m) /\ m \in Nat
<2>1. m \in T /\ \A x \in T : x <= m
  BY <1>4, <1>6
<2>2. m \in 0..Reports!Full
  BY <1>3, <2>1
<2> QED
  BY <1>1, <2>1, <2>2
<1> QED
  BY <1>5, <1>6, <1>7 DEF Tops

\* The highest severity of some events, or none.
TopsSeverity(m, es, acc) ==
  /\ m \in 0..4
  /\ \A i \in acc : es[i].sev <= m
  /\ m = 0 \/ \E i \in acc : m = es[i].sev

LEMMA MaxSeverityTops ==
  ASSUME NEW es, NEW N, Window(es, N), NEW acc \in SUBSET (1..N)
  PROVE  TopsSeverity(Reports!MaxSeverity(es, acc), es, acc)
<1> DEFINE T == {Reports!Info} \cup {es[i].sev : i \in acc}
<1>1. \A i \in acc : es[i].sev \in 0..4
  BY EmittedHas DEF Window
<1>2. T \in SUBSET (0..4) /\ T # {} /\ Reports!Info = 0
<2>1. Reports!Info = 0 /\ Reports!Info \in T
  BY DEF Reports!Info
<2>2. ASSUME NEW x \in T PROVE x \in 0..4
<3>1. x = 0 \/ \E i \in acc : x = es[i].sev
  BY <2>1
<3> QED
  BY <1>1, <3>1
<2> QED
  BY <2>1, <2>2
<1>3. Reports!Max(T) \in T /\ \A x \in T : x <= Reports!Max(T)
  BY <1>2, Greatest
<1>4. Reports!MaxSeverity(es, acc) = Reports!Max(T)
  BY DEF Reports!MaxSeverity
<1>5. PICK m : m = Reports!Max(T)
  OBVIOUS
<1>6. m \in T /\ (\A x \in T : x <= m) /\ m \in 0..4
  BY <1>2, <1>3, <1>5
<1> QED
  BY <1>2, <1>4, <1>5, <1>6 DEF TopsSeverity

Of(es, N, id) == {i \in 1..N : Reports!canonical_detector_id(es[i].det) = id}

\* What the report has of each detector.
Covers(per, es, N, t) ==
  /\ DOMAIN per = Reports!CanonicalIds
                    \cup {Reports!canonical_detector_id(es[i].det) : i \in 1..N}
  /\ \A id \in DOMAIN per :
       /\ Tops(per[id].max_effective, es, Of(es, N, id), t)
       /\ TopsSeverity(per[id].severity, es, Of(es, N, id))
       /\ per[id].fired > 0
            <=> \E i \in Of(es, N, id) : Reports!Effective(es[i], t) >= Reports!Floor

LEMMA PerCovers ==
  ASSUME NEW es, NEW N, Window(es, N), NEW t \in Nat
  PROVE  Covers(Reports!PerDetector(Reports!Sorted(es), t), es, N, t)
<1>1. Listed(es, N)
  BY EmittedHas DEF Window, Listed
<1>2. PICK so : so = Reports!Sorted(es)
  OBVIOUS
<1>3. /\ DOMAIN so = 1..N
      /\ \A n \in 1..N : \E i \in 1..N : so[n] = es[i]
      /\ \A i \in 1..N : \E n \in 1..N : so[n] = es[i]
<2>1. /\ DOMAIN Reports!Sorted(es) = 1..N
      /\ \A n \in 1..N : \E i \in 1..N : Reports!Sorted(es)[n] = es[i]
      /\ \A i \in 1..N : \E n \in 1..N : Reports!Sorted(es)[n] = es[i]
  BY <1>1, SortedSame
<2> QED
  BY <1>2, <2>1
<1>4. Window(so, N)
  BY <1>3 DEF Window
<1>5. PICK per : per = Reports!PerDetector(so, t)
  OBVIOUS
<1>6. DOMAIN per = Reports!CanonicalIds
                     \cup {Reports!canonical_detector_id(es[i].det) : i \in 1..N}
<2>1. DOMAIN per = Reports!CanonicalIds
                     \cup {Reports!canonical_detector_id(so[i].det) : i \in 1..N}
  BY <1>3, <1>5 DEF Reports!PerDetector, Reports!ReportedIds
<2>2. {Reports!canonical_detector_id(so[i].det) : i \in 1..N}
        = {Reports!canonical_detector_id(es[i].det) : i \in 1..N}
  BY <1>3
<2> QED
  BY <2>1, <2>2
<1>7. ASSUME NEW id \in DOMAIN per
      PROVE  /\ Tops(per[id].max_effective, es, Of(es, N, id), t)
             /\ TopsSeverity(per[id].severity, es, Of(es, N, id))
             /\ per[id].fired > 0
                  <=> \E i \in Of(es, N, id) : Reports!Effective(es[i], t) >= Reports!Floor
<2>1. PICK acc \in SUBSET (1..N) : acc = Reports!Accumulated(so, id)
  BY <1>3 DEF Reports!Accumulated
<2>2. /\ \A n \in acc : \E i \in Of(es, N, id) : so[n] = es[i]
      /\ \A i \in Of(es, N, id) : \E n \in acc : so[n] = es[i]
  BY <1>3, <2>1 DEF Of, Reports!Accumulated
<2>3. /\ per[id].max_effective = Reports!MaxEffective(so, acc, t)
      /\ per[id].severity = Reports!MaxSeverity(so, acc)
      /\ per[id].fired = Reports!Cardinality(Reports!Fired(so, acc, t))
  BY <1>5, <2>1 DEF Reports!PerDetector
<2>4. Tops(per[id].max_effective, es, Of(es, N, id), t)
<3>1. Tops(per[id].max_effective, so, acc, t)
  BY <1>4, <2>3, MaxEffectiveTops
<3> QED
  BY <2>2, <3>1 DEF Tops
<2>5. TopsSeverity(per[id].severity, es, Of(es, N, id))
<3>1. TopsSeverity(per[id].severity, so, acc)
  BY <1>4, <2>3, MaxSeverityTops
<3> QED
  BY <2>2, <3>1 DEF TopsSeverity
<2>6. per[id].fired > 0
        <=> \E i \in Of(es, N, id) : Reports!Effective(es[i], t) >= Reports!Floor
<3>1. PICK fired \in SUBSET (1..N) : fired = Reports!Fired(so, acc, t)
  BY <2>1 DEF Reports!Fired
<3>2. IsFiniteSet(fired)
<4>1. IsFiniteSet(1..N)
  BY FS_Interval DEF Window
<4> QED
  BY <4>1, FS_Subset
<3>3. per[id].fired = Cardinality(fired)
  BY <2>3, <3>1, CardinalityOfReports
<3>4. PICK c \in Nat : c = Cardinality(fired)
  BY <3>2, FS_CardinalityType
<3>5. c > 0 <=> fired # {}
  BY <3>2, <3>4, FS_EmptySet
<3>6. fired # {} <=> \E n \in acc : Reports!Effective(so[n], t) >= Reports!Floor
  BY <3>1 DEF Reports!Fired
<3>7. (\E n \in acc : Reports!Effective(so[n], t) >= Reports!Floor)
        <=> \E i \in Of(es, N, id) : Reports!Effective(es[i], t) >= Reports!Floor
  BY <2>2
<3> QED
  BY <3>3, <3>4, <3>5, <3>6, <3>7
<2> QED
  BY <2>4, <2>5, <2>6
<1> QED
  BY <1>2, <1>5, <1>6, <1>7 DEF Covers

LEMMA OverallTops ==
  ASSUME NEW per, \A id \in DOMAIN per : per[id].severity \in 0..4
  PROVE  /\ Reports!OverallSeverity(per) \in 0..4
         /\ \A id \in DOMAIN per :
              per[id].fired > 0 => per[id].severity <= Reports!OverallSeverity(per)
         /\ \/ Reports!OverallSeverity(per) = 0
            \/ \E id \in DOMAIN per :
                 per[id].fired > 0 /\ Reports!OverallSeverity(per) = per[id].severity
<1> DEFINE T == {Reports!Info} \cup
                {per[id].severity : id \in {i \in DOMAIN per : per[i].fired > 0}}
<1>1. Reports!Info = 0 /\ Reports!Info \in T
  BY DEF Reports!Info
<1>2. ASSUME NEW x \in T PROVE x \in 0..4
<2>1. x = 0 \/ \E id \in DOMAIN per : x = per[id].severity
  BY <1>1
<2> QED
  BY <2>1
<1>3. T \in SUBSET (0..4) /\ T # {}
  BY <1>1, <1>2
<1>4. Reports!Max(T) \in T /\ \A x \in T : x <= Reports!Max(T)
  BY <1>3, Greatest
<1>5. Reports!OverallSeverity(per) = Reports!Max(T)
  BY DEF Reports!OverallSeverity
<1>6. PICK m : m = Reports!Max(T)
  OBVIOUS
<1>7. m \in T /\ (\A x \in T : x <= m) /\ m \in 0..4
<2>1. m \in T /\ \A x \in T : x <= m
  BY <1>4, <1>6
<2> QED
  BY <1>3, <2>1
<1>8. \A id \in DOMAIN per : per[id].fired > 0 => per[id].severity <= m
  BY <1>7
<1>9. m = 0 \/ \E id \in DOMAIN per : per[id].fired > 0 /\ m = per[id].severity
  BY <1>1, <1>7
<1> QED
  BY <1>5, <1>6, <1>7, <1>8, <1>9

\* Every event of the one is one of the other.
Within(es, N, fs, K) == \A i \in 1..N : \E k \in 1..K : es[i] = fs[k]

\* More events at the same time, or the same events earlier: no entry is lower.
LEMMA CoversGrow ==
  ASSUME NEW es, NEW N, Window(es, N), NEW fs, NEW K, Window(fs, K), Within(es, N, fs, K),
         NEW t \in Nat, NEW u \in Nat, t = u \/ t = u + 1,
         NEW per, Covers(per, es, N, t), NEW other, Covers(other, fs, K, u)
  PROVE  /\ DOMAIN per \subseteq DOMAIN other
         /\ \A id \in DOMAIN per :
              /\ per[id].max_effective <= other[id].max_effective
              /\ per[id].severity <= other[id].severity
              /\ per[id].fired > 0 => other[id].fired > 0
<1>1. DOMAIN per \subseteq DOMAIN other
  BY DEF Covers, Within
<1> SUFFICES ASSUME NEW id \in DOMAIN per
             PROVE  /\ per[id].max_effective <= other[id].max_effective
                    /\ per[id].severity <= other[id].severity
                    /\ per[id].fired > 0 => other[id].fired > 0
  BY <1>1
<1>2. \A i \in Of(es, N, id) : \E k \in Of(fs, K, id) : es[i] = fs[k]
  BY DEF Within, Of
<1>3. ASSUME NEW i \in Of(es, N, id)
      PROVE  \E k \in Of(fs, K, id) :
               /\ es[i] = fs[k]
               /\ Reports!Effective(es[i], t) \in Nat /\ Reports!Effective(fs[k], u) \in Nat
               /\ Reports!Effective(es[i], t) <= Reports!Effective(fs[k], u)
<2>1. PICK k \in Of(fs, K, id) : es[i] = fs[k]
  BY <1>2
<2>2. es[i] \in Emitted
  BY DEF Window, Of
<2>3. PICK full \in Nat : full = Reports!Full
  BY SamplesAssumption DEF Reports!Full
<2>4. Reports!Effective(es[i], t) \in 0..full /\ Reports!Effective(es[i], u) \in 0..full
  BY <2>2, <2>3, EffectiveInNat
<2>5. Reports!Effective(es[i], u + 1) <= Reports!Effective(es[i], u)
  BY <2>2, EffectiveInNat
<2> QED
  BY <2>1, <2>4, <2>5
<1>4. Tops(per[id].max_effective, es, Of(es, N, id), t)
      /\ Tops(other[id].max_effective, fs, Of(fs, K, id), u)
  BY <1>1 DEF Covers
<1>5. TopsSeverity(per[id].severity, es, Of(es, N, id))
      /\ TopsSeverity(other[id].severity, fs, Of(fs, K, id))
  BY <1>1 DEF Covers
<1>6. per[id].max_effective <= other[id].max_effective
<2>1. per[id].max_effective \in Nat /\ other[id].max_effective \in Nat
  BY <1>4 DEF Tops
<2>2. CASE per[id].max_effective = 0
  BY <2>1, <2>2
<2>3. ASSUME NEW i \in Of(es, N, id), per[id].max_effective = Reports!Effective(es[i], t)
      PROVE  per[id].max_effective <= other[id].max_effective
<3>1. PICK k \in Of(fs, K, id) :
        /\ Reports!Effective(es[i], t) \in Nat /\ Reports!Effective(fs[k], u) \in Nat
        /\ Reports!Effective(es[i], t) <= Reports!Effective(fs[k], u)
  BY <1>3
<3>2. Reports!Effective(fs[k], u) <= other[id].max_effective
  BY <1>4 DEF Tops
<3> QED
  BY <2>1, <2>3, <3>1, <3>2
<2> QED
  BY <1>4, <2>2, <2>3 DEF Tops
<1>7. per[id].severity <= other[id].severity
<2>1. \A k \in Of(fs, K, id) : fs[k].sev <= other[id].severity
  BY <1>5 DEF TopsSeverity
<2>2. per[id].severity = 0 \/ \E i \in Of(es, N, id) : per[id].severity = es[i].sev
  BY <1>5 DEF TopsSeverity
<2>3. other[id].severity \in 0..4
  BY <1>5 DEF TopsSeverity
<2> QED
  BY <1>2, <2>1, <2>2, <2>3
<1>8. per[id].fired > 0 => other[id].fired > 0
<2> SUFFICES ASSUME per[id].fired > 0 PROVE other[id].fired > 0
  OBVIOUS
<2>1. PICK i \in Of(es, N, id) : Reports!Effective(es[i], t) >= Reports!Floor
  BY DEF Covers
<2>2. PICK k \in Of(fs, K, id) :
        /\ Reports!Effective(es[i], t) \in Nat /\ Reports!Effective(fs[k], u) \in Nat
        /\ Reports!Effective(es[i], t) <= Reports!Effective(fs[k], u)
  BY <1>3
<2>3. Reports!Floor \in Nat
  BY SamplesAssumption DEF Reports!Floor
<2>4. Reports!Effective(fs[k], u) >= Reports!Floor
  BY <2>1, <2>2, <2>3
<2> QED
  BY <1>1, <2>4 DEF Covers
<1> QED
  BY <1>6, <1>7, <1>8

LEMMA CoversRated ==
  ASSUME NEW es, NEW N, NEW t, NEW per, Covers(per, es, N, t)
  PROVE  Rated(per) /\ \A id \in DOMAIN per : per[id].severity \in 0..4
  BY DEF Covers, Rated, Tops, TopsSeverity

LEMMA ReportGrows ==
  ASSUME NEW es, NEW N, Window(es, N), NEW fs, NEW K, Window(fs, K), Within(es, N, fs, K),
         NEW t \in Nat, NEW u \in Nat, t = u \/ t = u + 1, NEW m
  PROVE  /\ Reports!score(es, t, m).base \in Nat /\ Reports!score(fs, u, m).base \in Nat
         /\ Reports!score(es, t, m).base <= Reports!score(fs, u, m).base
         /\ Reports!score(es, t, m).overall <= Reports!score(fs, u, m).overall
         /\ Reports!score(es, t, m).severity <= Reports!score(fs, u, m).severity
<1>1. PICK per : per = Reports!PerDetector(Reports!Sorted(es), t) /\ Covers(per, es, N, t)
  BY PerCovers
<1>2. PICK other : other = Reports!PerDetector(Reports!Sorted(fs), u) /\ Covers(other, fs, K, u)
  BY PerCovers
<1>3. /\ DOMAIN per \subseteq DOMAIN other
      /\ \A id \in DOMAIN per :
           /\ per[id].max_effective <= other[id].max_effective
           /\ per[id].severity <= other[id].severity
           /\ per[id].fired > 0 => other[id].fired > 0
  BY <1>1, <1>2, CoversGrow
<1>4. /\ Rated(per) /\ Rated(other)
      /\ \A id \in DOMAIN per : per[id].severity \in 0..4
      /\ \A id \in DOMAIN other : other[id].severity \in 0..4
<2>1. Rated(per) /\ \A id \in DOMAIN per : per[id].severity \in 0..4
  BY <1>1, CoversRated
<2>2. Rated(other) /\ \A id \in DOMAIN other : other[id].severity \in 0..4
  BY <1>2, CoversRated
<2> QED
  BY <2>1, <2>2
<1>5. PICK a \in Nat, b \in Nat :
        a = Reports!BaseScore(per) /\ b = Reports!BaseScore(other) /\ a <= b
  BY <1>3, <1>4, BaseGrows
<1>6. PICK c \in Nat : c = Reports!Combined(m)
  BY DEF Reports!Combined, Reports!JupFactor, Reports!EstablishedFactor
<1>7. a * c <= b * c
<2>1. (b - a) * c \in Nat /\ b * c = a * c + (b - a) * c /\ a * c \in Nat
  BY <1>5
<2> QED
  BY <2>1
<1>8. Reports!OverallSeverity(per) <= Reports!OverallSeverity(other)
<2>1. /\ Reports!OverallSeverity(per) \in 0..4
      /\ \/ Reports!OverallSeverity(per) = 0
         \/ \E id \in DOMAIN per :
              per[id].fired > 0 /\ Reports!OverallSeverity(per) = per[id].severity
  BY <1>4, OverallTops
<2>2. /\ Reports!OverallSeverity(other) \in 0..4
      /\ \A id \in DOMAIN other :
           other[id].fired > 0 => other[id].severity <= Reports!OverallSeverity(other)
  BY <1>4, OverallTops
<2>3. CASE Reports!OverallSeverity(per) = 0
  BY <2>2, <2>3
<2>4. ASSUME NEW id \in DOMAIN per,
             per[id].fired > 0, Reports!OverallSeverity(per) = per[id].severity
      PROVE  Reports!OverallSeverity(per) <= Reports!OverallSeverity(other)
<3>1. /\ id \in DOMAIN other /\ other[id].fired > 0
      /\ per[id].severity <= other[id].severity
  BY <1>3, <2>4
<3>2. other[id].severity <= Reports!OverallSeverity(other)
  BY <2>2, <3>1
<3>3. per[id].severity \in 0..4 /\ other[id].severity \in 0..4
  BY <1>4, <3>1
<3> QED
  BY <2>2, <2>4, <3>1, <3>2, <3>3
<2> QED
  BY <2>1, <2>3, <2>4
<1>9. /\ Reports!score(es, t, m).base = a /\ Reports!score(es, t, m).overall = a * c
      /\ Reports!score(es, t, m).severity = Reports!OverallSeverity(per)
  BY <1>1, <1>5, <1>6 DEF Reports!score
<1>10. /\ Reports!score(fs, u, m).base = b /\ Reports!score(fs, u, m).overall = b * c
       /\ Reports!score(fs, u, m).severity = Reports!OverallSeverity(other)
  BY <1>2, <1>5, <1>6 DEF Reports!score
<1> QED
  BY <1>5, <1>7, <1>8, <1>9, <1>10

\* The part that does not fade is never missing.
LEMMA StateStays ==
  ASSUME NEW N, Window(events, N), NEW t \in Nat, NEW m
  PROVE  Reports!BaseScore(Reports!StatePart) <= Reports!score(events, t, m).base
<1>1. PICK per : per = Reports!PerDetector(Reports!Sorted(events), t)
                 /\ Covers(per, events, N, t)
  BY PerCovers
<1>2. PICK still : still = Reports!StatePart
  OBVIOUS
<1>3. DOMAIN still = Reports!CanonicalIds
  BY <1>2 DEF Reports!StatePart
<1>4. ASSUME NEW id \in DOMAIN still
      PROVE  /\ still[id].max_effective \in Nat
             /\ id \in DOMAIN per /\ still[id].max_effective <= per[id].max_effective
<2> DEFINE acc == {j \in Reports!Accumulated(events, id) : events[j].det \in Reports!StateBased}
           T == {0} \cup {events[i].conf * Unit : i \in acc}
<2>1. still[id].max_effective = Reports!Max(T)
  BY <1>2, <1>3 DEF Reports!StatePart
<2>2. id \in DOMAIN per
  BY <1>1, <1>3 DEF Covers
<2>3. acc \subseteq Of(events, N, id)
  BY DEF Window, Of, Reports!Accumulated
<2>4. PICK top \in Nat :
        /\ top = per[id].max_effective
        /\ \A i \in Of(events, N, id) : Reports!Effective(events[i], t) <= top
  BY <1>1, <2>2 DEF Covers, Tops
<2>5. ASSUME NEW i \in acc PROVE events[i].conf * Unit \in 0..top
<3>1. events[i] \in Emitted /\ events[i].det \in Reports!StateBased
      /\ i \in Of(events, N, id)
  BY <2>3 DEF Window, Of
<3>2. Reports!Effective(events[i], t) = events[i].conf * Unit
  BY <3>1, EffectiveInNat
<3>3. events[i].conf * Unit \in Nat
<4>1. events[i].conf \in Nat /\ Unit \in Nat
  BY <3>1, EmittedHas, SamplesAssumption
<4> QED
  BY <4>1
<3>4. events[i].conf * Unit <= top
  BY <2>4, <3>1, <3>2
<3> QED
  BY <3>3, <3>4
<2>6. ASSUME NEW x \in T PROVE x \in 0..top
  BY <2>5
<2>7. T \in SUBSET (0..top) /\ T # {}
  BY <2>6
<2>8. Reports!Max(T) \in 0..top
<3>1. Reports!Max(T) \in T
  BY <2>7, Greatest
<3> QED
  BY <2>6, <3>1
<2> QED
  BY <2>1, <2>2, <2>4, <2>8
<1>5. Rated(per)
  BY <1>1, CoversRated
<1>6. Rated(still)
  BY <1>4 DEF Rated
<1>7. Reports!BaseScore(still) <= Reports!BaseScore(per)
  BY <1>4, <1>5, <1>6, BaseGrows
<1>8. Reports!score(events, t, m).base = Reports!BaseScore(per)
  BY <1>1 DEF Reports!score
<1> QED
  BY <1>2, <1>7, <1>8

LEMMA EventsAWindow == ScoreInv => Window(events, Len(events))
  BY DEF ScoreInv, Window

\* What the theorems say of a step.
LEMMA MoreIsNotLess ==
  ASSUME ScoreInv, ScoreInv', Reports!Emit
  PROVE  /\ report'.base >= report.base
         /\ report'.overall >= report.overall
         /\ report'.severity >= report.severity
<1>1. PICK N \in Nat, K \in Nat :
        N = Len(events) /\ K = Len(events') /\ Window(events, N) /\ Window(events', K)
  BY DEF ScoreInv, Window
<1>2. Within(events, N, events', K)
<2>1. PICK e : events' = Append(events, e)
  BY DEF Reports!Emit
<2>2. events \in Seq(Emitted)
  BY DEF ScoreInv
<2> QED
  BY <1>1, <2>1, <2>2 DEF Within
<1>3. now \in Nat /\ now' = now /\ meta' = meta
  BY DEF ScoreInv, Reports!Emit
<1>4. PICK before, after :
        /\ before = Reports!score(events, now, meta) /\ report = before
        /\ after = Reports!score(events', now, meta) /\ report' = after
  BY <1>3 DEF ScoreInv
<1>5. /\ before.base <= after.base /\ before.overall <= after.overall
      /\ before.severity <= after.severity
<2>1. /\ Reports!score(events, now, meta).base <= Reports!score(events', now, meta).base
      /\ Reports!score(events, now, meta).overall <= Reports!score(events', now, meta).overall
      /\ Reports!score(events, now, meta).severity <= Reports!score(events', now, meta).severity
  BY <1>1, <1>2, <1>3, ReportGrows
<2> QED
  BY <1>4, <2>1
<1> QED
  BY <1>4, <1>5

LEMMA NewsFade ==
  ASSUME ScoreInv, ScoreInv', Reports!HalfLifePasses
  PROVE  /\ report'.base <= report.base /\ report'.severity <= report.severity
         /\ report'.base >= Reports!BaseScore(Reports!StatePart)
<1>1. PICK N \in Nat : N = Len(events) /\ Window(events, N)
  BY DEF ScoreInv, Window
<1>2. Within(events, N, events, N)
  BY DEF Within
<1>3. now \in Nat /\ now' = now + 1 /\ now + 1 \in Nat /\ meta' = meta /\ events' = events
  BY DEF ScoreInv, Reports!HalfLifePasses
<1>4. PICK before, after :
        /\ before = Reports!score(events, now, meta) /\ report = before
        /\ after = Reports!score(events, now + 1, meta) /\ report' = after
  BY <1>3 DEF ScoreInv
<1>5. after.base <= before.base /\ after.severity <= before.severity
<2>1. /\ Reports!score(events, now + 1, meta).base <= Reports!score(events, now, meta).base
      /\ Reports!score(events, now + 1, meta).severity
           <= Reports!score(events, now, meta).severity
  BY <1>1, <1>2, <1>3, ReportGrows
<2> QED
  BY <1>4, <2>1
<1>6. Reports!BaseScore(Reports!StatePart) <= after.base
<2>1. Reports!BaseScore(Reports!StatePart) <= Reports!score(events, now + 1, meta).base
  BY <1>1, <1>3, StateStays
<2> QED
  BY <1>4, <2>1
<1> QED
  BY <1>4, <1>5, <1>6

ScoringInv == part = "scoring" => ScoreInv

LEMMA ScoringInvHolds ==
  /\ MCInit => ScoringInv
  /\ ScoringInv /\ [MCNext]_mcVars => ScoringInv'
  /\ [MCNext]_mcVars =>
       \/ part = "scoring" /\ part' = "scoring" /\ Reports!Next
       \/ UNCHANGED <<part, scoringVars>>
<1>1. MCInit => ScoringInv
  BY ScoreInvStarts DEF MCInit, ScoringInv
<1>2. [MCNext]_mcVars =>
        \/ part = "scoring" /\ part' = "scoring" /\ Reports!Next
        \/ UNCHANGED <<part, scoringVars>>
  BY DEF MCNext, ScoringStep, ChangepointStep, PoolStep, RingStep, TradesStep, LabelsStep,
     MoneyStep, mcVars
<1>3. ASSUME ScoringInv, [MCNext]_mcVars, part' = "scoring" PROVE ScoreInv'
<2>1. CASE part = "scoring" /\ part' = "scoring" /\ Reports!Next
  BY <1>3, <2>1, ScoreInvStep DEF ScoringInv
<2>2. CASE UNCHANGED <<part, scoringVars>>
  BY <1>3, <2>2 DEF ScoringInv, ScoreInv, scoringVars
<2> QED
  BY <1>2, <1>3, <2>1, <2>2
<1> QED
  BY <1>1, <1>2, <1>3 DEF ScoringInv

\* One more event, of any detector, confidence, severity and time, lowers
\* neither the base score nor the attenuated one nor the severity of the report
\* (aggregate.rs takes the maximum, engine.rs the sum and the maximum of them).
THEOREM MoreEvidenceNeverLowers ==
  /\ Reports!Spec => Reports!EvidenceNeverLowers
  /\ MCSpec => EvidenceNeverLowers
<1> DEFINE Step == Reports!Emit => /\ report'.base >= report.base
                                   /\ report'.overall >= report.overall
                                   /\ report'.severity >= report.severity
<1>1. ScoreInv /\ [Reports!Next]_(Reports!vars) => ScoreInv' /\ [Step]_(Reports!vars)
  BY ScoreInvStep, MoreIsNotLess
<1>2. ScoringInv /\ [MCNext]_mcVars => [Step]_(Reports!vars)
<2> SUFFICES ASSUME ScoringInv, [MCNext]_mcVars PROVE [Step]_(Reports!vars)
  OBVIOUS
<2>1. CASE part = "scoring" /\ Reports!Next
  BY <1>1, <2>1 DEF ScoringInv
<2>2. CASE UNCHANGED <<part, scoringVars>>
  BY <2>2 DEF scoringVars, Reports!vars
<2> QED
  BY <2>1, <2>2, ScoringInvHolds
<1>3. Reports!Spec => [][Step]_(Reports!vars)
  BY <1>1, ScoreInvStarts, PTL DEF Reports!Spec
<1>4. MCSpec => [][Step]_(Reports!vars)
  BY <1>2, ScoringInvHolds, PTL DEF MCSpec
<1> QED
  BY <1>3, <1>4 DEF EvidenceNeverLowers, Reports!EvidenceNeverLowers

\* A half-life without an event raises nothing, and the base score does not
\* fall below what the state-based detectors found (decay.rs keeps their
\* events from fading).
THEOREM ReportsFade ==
  /\ Reports!Spec => Reports!FadesToState
  /\ MCSpec => FadesToState
<1> DEFINE Step == Reports!HalfLifePasses =>
                     /\ report'.base <= report.base /\ report'.severity <= report.severity
                     /\ report'.base >= Reports!BaseScore(Reports!StatePart)
<1>1. ScoreInv /\ [Reports!Next]_(Reports!vars) => ScoreInv' /\ [Step]_(Reports!vars)
  BY ScoreInvStep, NewsFade
<1>2. ScoringInv /\ [MCNext]_mcVars => [Step]_(Reports!vars)
<2> SUFFICES ASSUME ScoringInv, [MCNext]_mcVars PROVE [Step]_(Reports!vars)
  OBVIOUS
<2>1. CASE part = "scoring" /\ Reports!Next
  BY <1>1, <2>1 DEF ScoringInv
<2>2. CASE UNCHANGED <<part, scoringVars>>
  BY <2>2 DEF scoringVars, Reports!vars
<2> QED
  BY <2>1, <2>2, ScoringInvHolds
<1>3. Reports!Spec => [][Step]_(Reports!vars)
  BY <1>1, ScoreInvStarts, PTL DEF Reports!Spec
<1>4. MCSpec => [][Step]_(Reports!vars)
  BY <1>2, ScoringInvHolds, PTL DEF MCSpec
<1> QED
  BY <1>3, <1>4 DEF FadesToState, Reports!FadesToState

(***************************************************************************)
(* Cycles.  The rings of this composition are those of CyclesProofs, which *)
(* has the same definitions under names of its own.                        *)
(***************************************************************************)
Proved == INSTANCE CyclesProofs WITH edges <- transfers

LEMMA SameRings ==
  /\ Rings!CyclesAssumption => Proved!CyclesAssumption
  /\ Rings!Init => Proved!Init
  /\ Rings!Next => Proved!Next
  /\ Rings!vars = Proved!vars
  /\ Proved!CyclesExact => Rings!CyclesExact
<1>1. Rings!CyclesAssumption => Proved!CyclesAssumption
  BY DEF Proved!CyclesAssumption, Rings!CyclesAssumption
<1>2. Rings!Init => Proved!Init
  BY DEF Proved!Init, Rings!Init, Proved!Vertex, Rings!Vertex, Proved!Nowhere,
     Rings!Nowhere
<1>3. Rings!Next => Proved!Next
  BY DEF Proved!Next, Rings!Next, Proved!StartSearch, Rings!StartSearch,
     Proved!TakeEdge, Rings!TakeEdge, Proved!Retreat, Rings!Retreat,
     Proved!NextRoot, Rings!NextRoot, Proved!Neighbour, Rings!Neighbour,
     Proved!Return, Rings!Return, Proved!SccDone, Rings!SccDone,
     Proved!Cardinality, Rings!Cardinality, Proved!Vertex, Rings!Vertex,
     Proved!Nowhere, Rings!Nowhere, Proved!Adj, Rings!Adj, Proved!Spread,
     Rings!Spread, Proved!Index, Rings!Index, Proved!Visit, Rings!Visit,
     Proved!LowlinkOf, Rings!LowlinkOf, Proved!Searched, Rings!Searched,
     Proved!Before, Rings!Before, Proved!Scc, Rings!Scc, Proved!Ahead,
     Rings!Ahead, Proved!Call, Rings!Call, Proved!Full, Rings!Full,
     Proved!Vertices, Rings!Vertices, Proved!Freed, Rings!Freed,
     Proved!Unblocked, Rings!Unblocked, Proved!Blocks, Rings!Blocks,
     Proved!Unblocks, Rings!Unblocks, Proved!tarjan, Rings!tarjan,
     Proved!johnson, Rings!johnson, Proved!ToSet, Rings!ToSet, Proved!Min,
     Rings!Min, Proved!Max, Rings!Max, Proved!Last, Rings!Last, Proved!Front,
     Rings!Front
<1>4. Rings!vars = Proved!vars
  BY DEF Proved!vars, Rings!vars, Proved!tarjan, Rings!tarjan, Proved!johnson,
     Rings!johnson
<1>5. Proved!CyclesExact => Rings!CyclesExact
  BY DEF Proved!CyclesExact, Rings!CyclesExact, Proved!SccsFound,
     Rings!SccsFound, Proved!Components, Rings!Components, Proved!IsWalk,
     Rings!IsWalk, Proved!IsRing, Rings!IsRing, Proved!RingsUpTo,
     Rings!RingsUpTo, Proved!Found, Rings!Found, Proved!Done, Rings!Done,
     Proved!Searched, Rings!Searched, Proved!Spread, Rings!Spread, Proved!Adj,
     Rings!Adj, Proved!Vertex, Rings!Vertex, Proved!Cardinality,
     Rings!Cardinality, Proved!IsInjective, Rings!IsInjective, Proved!ToSet,
     Rings!ToSet
<1> QED
  BY <1>1, <1>2, <1>3, <1>4, <1>5

\* Signal B of D05 in the composition that TLC runs: detect_cycles reports closed
\* walks within its limits, none twice and, where the length is no limit, the rings
\* of the large components and no others.
THEOREM RingsAreExact == MCSpec => []CyclesExact
<1> DEFINE Inv == part = "rings" => Proved!CyclesInv
<1>1. MCInit => Inv
  BY RingsAssumption, SameRings, Proved!CyclesInvStarts DEF MCInit
<1>2. Inv /\ [MCNext]_mcVars => Inv'
<2> SUFFICES ASSUME part' = "rings", Inv, [MCNext]_mcVars PROVE Proved!CyclesInv'
  OBVIOUS
<2>1. CASE RingStep
  BY <2>1, SameRings, Proved!CyclesInvKept DEF RingStep
<2>2. CASE ~RingStep
<3>1. part = "rings" /\ UNCHANGED ringVars
  BY <2>2 DEF MCNext, ScoringStep, ChangepointStep, PoolStep, TradesStep, LabelsStep,
     MoneyStep, mcVars
<3>2. UNCHANGED Proved!vars
  BY <3>1 DEF ringVars, Proved!vars, Proved!tarjan, Proved!johnson
<3> QED
  BY <3>1, <3>2, Proved!CyclesInvKept
<2> QED
  BY <2>1, <2>2
<1>3. Inv => CyclesExact
  BY SameRings, Proved!CyclesInvExact DEF CyclesExact
<1> QED
  BY <1>1, <1>2, <1>3, PTL DEF MCSpec
=============================================================================
