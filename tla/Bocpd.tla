------------------------------- MODULE Bocpd -------------------------------
(***************************************************************************)
(* The changepoint detection of D09 (crates/detectors/src/                 *)
(* d09_deployer_changepoint.rs): the posterior over the length of the      *)
(* current run of launches, updated with the score of every new one.       *)
(*                                                                         *)
(* A score is ordinary or risky, and a slot's statistics are how many of   *)
(* each its run has seen; the Student-t density becomes a weight of three  *)
(* levels.  Joint weights are natural numbers that are not normalised:     *)
(* only their proportions are used.                                        *)
(***************************************************************************)
EXTENDS Naturals, Sequences, FiniteSets, FiniteSetsExt

CONSTANTS
  Hazard,    \* hazard_rate is 1 / Hazard
  MaxSlots,  \* max_run_length_tracked + 1
  MinHistory,
  Good, Fair, Bad,  \* the density of a score that fits, or does not, a run
  MaxScores  \* bound: launches of the deployer

VARIABLES
  slots,  \* BocpdState.slots: slots[r + 1] is the run of length r
  scores, \* the scores so far; their number is total_observations
  alerts  \* the observations that raised an alert

vars == <<slots, scores, alerts>>

Kinds == {"ordinary", "risky"}

new_prior == [joint |-> 0, seen |-> [k \in Kinds |-> 0]]

Density(slot, x) ==
  LET agree == slot.seen[x]
      differ == MapThenSumSet(LAMBDA k : slot.seen[k], Kinds \ {x})
  IN  IF agree > 0 /\ differ = 0 THEN Good
      ELSE IF agree = 0 /\ differ > 0 THEN Bad
      ELSE Fair

Sees(slot, x) == [slot EXCEPT !.seen[x] = @ + 1]

\* The sums of the first n weights, up to all of them.
Sums(w) == LET sum[n \in 0 .. Len(w)] == IF n = 0 THEN 0 ELSE sum[n - 1] + w[n]
           IN  sum
Sum(w) == Sums(w)[Len(w)]

Total(s) == Sum([i \in DOMAIN s |-> s[i].joint])

\* Altered: the weight of a new run with the density of the prior for a run
\* that is new.
ChangepointMassOfPrior(s, x) ==
  Sum([i \in DOMAIN s |-> s[i].joint * Density(new_prior, x)])

\* The weight of a new run, as the code sums it: every old run weighs in with
\* its own density.
ChangepointMass(s, x) == Sum([i \in DOMAIN s |-> s[i].joint * Density(s[i], x)])

Growth(s, i, x) == s[i].joint * Density(s[i], x) * (Hazard - 1)

\* BocpdState::update: every run ends with the hazard or grows by one; what
\* would grow past the last slot is folded into it.
Update(s, x) ==
  LET last == Min({Len(s) + 1, MaxSlots})
      Grown(r) ==
        LET folded == IF r = MaxSlots /\ Len(s) = MaxSlots
                      THEN Growth(s, MaxSlots, x) ELSE 0
        IN  [s[r - 1] EXCEPT !.joint = Growth(s, r - 1, x) + folded]
      New(r) == IF r = 1 THEN [new_prior EXCEPT !.joint = ChangepointMass(s, x)]
                ELSE Grown(r)
  IN  [r \in 1 .. last |-> Sees(New(r), x)]

\* cp_prob >= changepoint_prob_threshold, which is one half.
Alerts(s, n) == n >= MinHistory /\ 2 * s[1].joint >= Total(s)

Init ==
  /\ slots = <<[new_prior EXCEPT !.joint = 1]>>
  /\ scores = <<>> /\ alerts = {}

Launch ==
  /\ Len(scores) < MaxScores
  /\ \E x \in Kinds :
       /\ slots' = Update(slots, x)
       /\ scores' = Append(scores, x)
       /\ alerts' = IF Alerts(slots', Len(scores')) THEN alerts \cup {Len(scores')}
                    ELSE alerts

Next == Launch

Spec == Init /\ [][Next]_vars
----------------------------------------------------------------------------
(***************************************************************************)
(* Properties.                                                             *)
(***************************************************************************)
\* No mass is lost, at the absorbing boundary neither (the posterior sums to
\* one, bocpd_absorbing_boundary_no_panic), and the share of the run of length
\* zero, the probability the alert is decided by, is the hazard rate after
\* every observation, whatever was observed.
AnswerIsHazard ==
  scores # <<>> => /\ slots[1].joint * Hazard = Total(slots)
                   /\ Len(slots) = Min({Len(scores) + 1, MaxSlots})

\* "BOCPD correctly requires MANY new-regime observations to exceed the alert
\* threshold": a deployer who turns from ordinary launches to risky ones and
\* keeps to them is reported.
SustainedShiftReported ==
  LET risky == {i \in DOMAIN scores : scores[i] = "risky"}
      n == Len(scores)
  IN  ( /\ n = MaxScores
        /\ \E turn \in MinHistory .. n \div 2 : risky = turn + 1 .. n )
        => alerts # {}
============================================================================
