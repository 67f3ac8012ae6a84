------------------------------ MODULE Scoring ------------------------------
(***************************************************************************)
(* ScoringEngine::score (crates/scoring): the report of one token, as a    *)
(* function of the detectors' events in the window, the end of the window  *)
(* and the token's metadata.  The module lets the first two change one     *)
(* step at a time, the way the worker calls the engine again and again for *)
(* a token, so that consecutive reports can be compared; the metadata may  *)
(* be any and stays (no report depends on that of an earlier one).         *)
(*                                                                         *)
(* A tenth of confidence is Unit, a multiple of 2^MaxAge where halving     *)
(* with every half-life is to be exact; weights are in 1/200 and           *)
(* multipliers in tenths, as in default_calibrated.                        *)
(***************************************************************************)
EXTENDS Naturals, Sequences, FiniteSets, SequencesExt, FiniteSetsExt

CONSTANTS
  Samples,   \* the events the detectors may emit: [det, conf, sev, key], the
             \* confidence in tenths
  Unit,      \* a tenth of confidence
  MaxEvents, \* bound: events in the window
  MaxAge     \* bound: half-lives that pass

VARIABLES
  events, \* the events as the caller hands them over
  now,    \* the end of the window, in half-lives
  meta,   \* TokenMeta: jup_strict, jup_verified, rugcheck_score
  report  \* the last report

vars == <<events, now, meta, report>>

(***************************************************************************)
(* The configuration: default_calibrated.                                  *)
(***************************************************************************)
\* Detector ids in alphabetical order; wallet_sybil has no weight.
Ids == <<"holder_concentration", "honeypot_sim", "honeypot_sim_static",
         "mint_burn_anomaly", "mint_burn_anomaly_static", "pump_dump",
         "rug_pull_lp_drain", "rug_pull_lp_drain_latent", "wallet_sybil",
         "wash_trading_h1", "withdraw_withheld_drain">>

Weights == [honeypot_sim |-> 3, rug_pull_lp_drain |-> 40,
            holder_concentration |-> 64, pump_dump |-> 64,
            wash_trading_h1 |-> 14, mint_burn_anomaly |-> 3,
            withdraw_withheld_drain |-> 12]
CanonicalIds == DOMAIN Weights
WeightOf(det) == IF det \in CanonicalIds THEN Weights[det] ELSE 0

\* The sum over some detectors, in the order of their ids.
SumOver(ids, Term(_)) ==
  LET sum[n \in 0 .. Len(Ids)] ==
        IF n = 0 THEN 0
        ELSE sum[n - 1] + (IF Ids[n] \in ids THEN Term(Ids[n]) ELSE 0)
  IN  sum[Len(Ids)]
TotalWeight == SumOver(CanonicalIds, WeightOf)

StateBased == {"honeypot_sim_static", "rug_pull_lp_drain_latent",
               "holder_concentration", "mint_burn_anomaly_static"}

\* Severities: 0 Info, 1 Low, 2 Medium, 3 High, 4 Critical.
Info == 0

Full == 10 * Unit         \* confidence 1.0
Floor == 3 * Unit         \* inconclusive_floor
HighlightCount == 2       \* evidence_highlight_count, 5 in the code

(***************************************************************************)
(* Aggregation (aggregate.rs).                                             *)
(***************************************************************************)
canonical_detector_id(raw) ==
  CASE raw = "honeypot_sim_static" -> "honeypot_sim"
    [] raw = "rug_pull_lp_drain_latent" -> "rug_pull_lp_drain"
    [] raw = "mint_burn_anomaly_static" -> "mint_burn_anomaly"
    [] OTHER -> raw

\* Altered: whether an event fades is decided by the name of its group.
HalvingsOfGroup(e, t) ==
  IF canonical_detector_id(e.det) \in StateBased \/ e.at >= t THEN 0 ELSE t - e.at

\* Events are dated on or before the end of the window, or after it: then
\* they count as present.
Halvings(e, t) ==
  IF e.det \in StateBased \/ e.at >= t THEN 0 ELSE t - e.at

Halved(x, n) ==
  LET half[k \in 0 .. n] == IF k = 0 THEN x ELSE half[k - 1] \div 2
  IN  half[n]

Effective(e, t) == Halved(e.conf * Unit, Halvings(e, t))

\* The places of a detector's events.
Accumulated(es, id) == {i \in DOMAIN es : canonical_detector_id(es[i].det) = id}

\* Altered: the average.
MeanEffective(es, acc, t) ==
  IF acc = {} THEN 0
  ELSE MapThenSumSet(LAMBDA i : Effective(es[i], t), acc) \div Cardinality(acc)

MaxEffective(es, acc, t) == Max({0} \cup {Effective(es[i], t) : i \in acc})
MaxSeverity(es, acc) == Max({Info} \cup {es[i].sev : i \in acc})
Fired(es, acc, t) == {i \in acc : Effective(es[i], t) >= Floor}

\* One entry for every canonical detector and for every other id with events.
ReportedIds(es) ==
  CanonicalIds \cup {canonical_detector_id(es[i].det) : i \in DOMAIN es}

PerDetector(es, t) ==
  [id \in ReportedIds(es) |->
    LET acc   == Accumulated(es, id)
        fired == Fired(es, acc, t)
    IN  [fired |-> Cardinality(fired), inconclusive |-> Cardinality(acc \ fired),
         max_effective |-> MaxEffective(es, acc, t),
         severity |-> MaxSeverity(es, acc)]]

BaseScore(per) ==
  Min({Full * TotalWeight,
       SumOver(DOMAIN per, LAMBDA id : WeightOf(id) * per[id].max_effective)})

\* The severity of a detector counts as soon as one of its events fired.
OverallSeverity(per) ==
  Max({Info} \cup {per[id].severity : id \in {i \in DOMAIN per : per[i].fired > 0}})

(***************************************************************************)
(* The highlights (evidence.rs): the best event for each detector id and   *)
(* metric key, the first of equals; then by severity, confidence and key.  *)
(***************************************************************************)
Rank(det) == CHOOSE i \in DOMAIN Ids : Ids[i] = det

Replaces(new, old) ==
  \/ new.sev > old.sev
  \/ new.sev = old.sev /\ new.conf > old.conf

BestOf(es) ==
  {i \in DOMAIN es : \A j \in DOMAIN es :
     (es[j].det = es[i].det /\ es[j].key = es[i].key) =>
       /\ ~ Replaces(es[j], es[i])
       /\ j < i => Replaces(es[i], es[j])}

Outranks(a, b) ==
  \/ Replaces(a, b)
  \/ /\ a.sev = b.sev /\ a.conf = b.conf
     /\ \/ a.key < b.key
        \/ a.key = b.key /\ Rank(a.det) < Rank(b.det)

rank_top_evidence(es) ==
  LET sorted == SetToSortSeq(BestOf(es), LAMBDA i, j : Outranks(es[i], es[j]))
      top == SubSeq(sorted, 1, Min({HighlightCount, Len(sorted)}))
  IN  [n \in DOMAIN top |-> es[top[n]]]

(***************************************************************************)
(* Attenuation (attenuation.rs, detectors/token_status.rs).  The age       *)
(* factor is 1 in the calibrated configuration.                            *)
(***************************************************************************)
Unknown == 100
RugcheckScore(m) == IF m.score = {} THEN Unknown ELSE CHOOSE s \in m.score : TRUE

is_established_protocol(m) ==
  \/ m.jup_strict
  \/ m.jup_verified /\ RugcheckScore(m) < 40
  \/ RugcheckScore(m) < 30

JupFactor(m) ==
  IF m.jup_strict THEN 3 ELSE IF m.jup_verified THEN 6 ELSE 10
EstablishedFactor(m) == IF is_established_protocol(m) THEN 5 ELSE 10
Combined(m) == JupFactor(m) * EstablishedFactor(m)   \* of 100

(***************************************************************************)
(* The report (engine.rs).                                                 *)
(***************************************************************************)
\* The n-th event of a sort is the one with n - 1 before it.
SortedBy(es, Before(_, _)) ==
  [n \in DOMAIN es |->
    es[CHOOSE i \in DOMAIN es : Cardinality({j \in DOMAIN es : Before(j, i)}) = n - 1]]

\* Altered: the time is left out of the order.
SortedByDetector(es) ==
  SortedBy(es, LAMBDA i, j :
                 IF es[i].det = es[j].det THEN i < j
                 ELSE Rank(es[i].det) < Rank(es[j].det))

Sorted(es) ==
  SortedBy(es, LAMBDA i, j :
                 IF es[i].det = es[j].det
                 THEN es[i].at < es[j].at \/ (es[i].at = es[j].at /\ i < j)
                 ELSE Rank(es[i].det) < Rank(es[j].det))

score(es, t, m) ==
  LET sorted == Sorted(es)
      per == PerDetector(sorted, t)
      base == BaseScore(per)
  IN  [per_detector |-> per, base |-> base, overall |-> base * Combined(m),
       severity |-> OverallSeverity(per), top |-> rank_top_evidence(sorted)]

(***************************************************************************)
(* What changes between two reports.                                       *)
(***************************************************************************)
\* No score counts as 100, behind both thresholds; the others are before one.
Metas == [jup_strict : BOOLEAN, jup_verified : BOOLEAN,
          score : {{}, {25}, {35}}]

Init ==
  /\ events = <<>> /\ now = 0
  /\ meta \in Metas
  /\ report = score(events, now, meta)

Evaluate == report' = score(events', now', meta')

\* A detector emits an event of the present, or of the block after it.
Emit ==
  /\ Len(events) < MaxEvents
  /\ \E s \in Samples, at \in now .. now + 1 :
       events' = Append(events, [det |-> s.det, conf |-> s.conf, sev |-> s.sev,
                                 key |-> s.key, at |-> at])
  /\ UNCHANGED <<now, meta>>
  /\ Evaluate

HalfLifePasses ==
  /\ now < MaxAge /\ now' = now + 1
  /\ UNCHANGED <<events, meta>>
  /\ Evaluate

Next == Emit \/ HalfLifePasses

Spec == Init /\ [][Next]_vars
----------------------------------------------------------------------------
(***************************************************************************)
(* Properties.                                                             *)
(***************************************************************************)
\* The events may arrive in any order (engine.rs): two calls that agree on the
\* order of events with the same detector and time give the same report.
Reordered(q) == [n \in DOMAIN events |-> events[q[n]]]
SameOrderOfEquals(q) ==
  \A i, j \in DOMAIN events :
    (/\ i < j
     /\ events[q[i]].det = events[q[j]].det /\ events[q[i]].at = events[q[j]].at)
      => q[i] < q[j]
OrderIndependent ==
  \A q \in Bijection(DOMAIN events, DOMAIN events) :
    SameOrderOfEquals(q) => score(Reordered(q), now, meta) = report

\* More evidence never makes a token look safer: one more event lowers neither
\* the scores nor the severity (the maximum, not the average, of a detector).
EvidenceNeverLowers ==
  [][Emit => /\ report'.base >= report.base
             /\ report'.overall >= report.overall
             /\ report'.severity >= report.severity]_vars

\* What the state-based events say, whenever they said it.
StatePart ==
  [id \in CanonicalIds |->
    [max_effective |->
      Max({0} \cup {events[i].conf * Unit :
             i \in {j \in Accumulated(events, id) : events[j].det \in StateBased}})]]

\* Without news, when a half-life passes, neither the base score nor the overall
\* severity rises (and with them the overall score does not, which is the base
\* score times a multiplier that no half-life changes); what rests on state-based
\* events does not fade at all: the base score stays at or above what these give
\* on their own, at their full confidence.
FadesToState ==
  [][HalfLifePasses =>
       /\ report'.base <= report.base /\ report'.severity <= report.severity
       /\ report'.base >= BaseScore(StatePart)]_vars

\* "Very-low-confidence events are classified as inconclusive noise and MUST
\* NOT drive severity escalation" (scoring/src/types.rs, overall_severity).
NoiseDoesNotEscalate ==
  report.severity
    = Max({Info} \cup {events[i].sev :
            i \in {j \in DOMAIN events : Effective(events[j], now) >= Floor}})
============================================================================
