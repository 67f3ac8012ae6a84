---------------------------- MODULE MCDetection ----------------------------
(***************************************************************************)
(* What is computed of a token's events, in one run: what a new pool sets  *)
(* off, the changepoint model of D09, the rings of D05, the scoring of     *)
(* events, and the labels of wallets that trade well.                      *)
(* The parts hand each other nothing but rows, so a behaviour is one of a  *)
(* single part.                                                            *)
(*                                                                         *)
(* Scoring gets a few kinds of events: two ids of one detector, of which   *)
(* one is state-based and one fades, an id without a weight; confidences   *)
(* below the floor, above it, and below it only after a half-life.         *)
(***************************************************************************)
EXTENDS Naturals, Sequences

CONSTANTS
  Samples, Unit, MaxEvents, MaxAge,                          \* Scoring
  Hazard, MaxSlots, MinHistory, Good, Fair, Bad, MaxScores,  \* Bocpd
  Tokens, Workers, MaxHeight, MaxFork, MaxI64, MaxErrors,    \* Launches
  Wallets, Configs,                                          \* Cycles
  TradeKinds, MaxTrades, LabelKinds, MaxSwaps, MaxTime, Lookback, MaxRows,
  MinTrips, StrongPnl, Holding, Ttl                          \* SmartMoney

\* A run of launches may grow, so that there are two slots or more; no chain is
\* so high that i64 cannot hold the height of a block; a label lives for some
\* time.
ASSUME DetectionAssumption ==
  /\ {Hazard, Good, Fair, Bad} \subseteq Nat /\ Hazard # 0
  /\ MaxSlots \in Nat /\ MaxSlots >= 2
  /\ MaxHeight \in Nat /\ MaxI64 \in Nat /\ MaxHeight <= MaxI64
  /\ "indexer" \notin Workers
  /\ Ttl \in Nat \ {0}

VARIABLES
  part,  \* scoring, changepoint, launches, rings, trades or labels
  events, now, meta, report,
  slots, scores, alerts,
  canonical, fork, handling, step, buffered, pool_events, edges, state, loaded,
  audits, processed, errors, taken, torn,
  cfg, transfers, found, low, stack, dfs, sccs, todo, root, path, blocked, blockers,
  detected, cycles,
  clock, swaps, excluded, pc, end, trips, corpus, label, written

Reports     == INSTANCE Scoring
Changepoint == INSTANCE Bocpd
Pools       == INSTANCE Launches
Rings       == INSTANCE Cycles WITH edges <- transfers
Labels      == INSTANCE SmartMoney WITH Mints <- Tokens, Kinds <- LabelKinds

\* Round trips are a matter of quantities and of order: longer sequences of
\* swaps at one time and price.
Trades      == INSTANCE SmartMoney WITH
  Mints <- Tokens, Kinds <- TradeKinds, MaxSwaps <- MaxTrades

\* Every detector is in the list of ids; a confidence is at most one and a
\* severity at most Critical.
ASSUME SamplesAssumption ==
  /\ \A s \in Samples : /\ \E i \in DOMAIN Reports!Ids : s.det = Reports!Ids[i]
                        /\ s.conf \in 0..10 /\ s.sev \in 0..4
  /\ Unit \in Nat

ASSUME RingsAssumption == Rings!CyclesAssumption

\* A swap is a buy or a sell of some quantity.
ASSUME TradesAssumption ==
  \A kind \in TradeKinds : kind.side \in {"buy", "sell"} /\ kind.qty \in Nat

scoringVars == <<events, now, meta, report>>
changepointVars == <<slots, scores, alerts>>
poolVars == <<canonical, fork, handling, step, buffered, pool_events, edges, state,
              loaded, audits, processed, errors, taken, torn>>
ringVars == <<cfg, transfers, found, low, stack, dfs, sccs, todo, root, path, blocked,
              blockers, detected, cycles>>
moneyVars == <<clock, swaps, excluded, pc, end, trips, corpus, label, written>>

MCInit ==
  /\ part \in {"scoring", "changepoint", "launches", "rings", "trades", "labels"}
  /\ Reports!Init /\ Changepoint!Init /\ Pools!Init /\ Rings!Init /\ Labels!Init
  /\ part # "scoring" => ~meta.jup_strict /\ ~meta.jup_verified /\ meta.score = {}
  /\ part # "rings" => transfers = {} /\ \A c \in Configs : cfg.length >= c.length

ScoringStep ==
  /\ part = "scoring" /\ Reports!Next
  /\ UNCHANGED <<part, changepointVars, poolVars, ringVars, moneyVars>>
ChangepointStep ==
  /\ part = "changepoint" /\ Changepoint!Next
  /\ UNCHANGED <<part, scoringVars, poolVars, ringVars, moneyVars>>
PoolStep ==
  /\ part = "launches" /\ Pools!Next
  /\ UNCHANGED <<part, scoringVars, changepointVars, ringVars, moneyVars>>
RingStep ==
  /\ part = "rings" /\ Rings!Next
  /\ UNCHANGED <<part, scoringVars, changepointVars, poolVars, moneyVars>>

MoneyStep(Step) ==
  /\ Step /\ UNCHANGED <<part, scoringVars, changepointVars, poolVars, ringVars>>

TradesStep == part = "trades" /\ MoneyStep(Trades!Trade)
LabelsStep == part = "labels" /\ MoneyStep(Labels!Next)

MCNext ==
  \/ ScoringStep \/ ChangepointStep \/ PoolStep \/ RingStep
  \/ TradesStep \/ LabelsStep

mcVars == <<part, scoringVars, changepointVars, poolVars, ringVars, moneyVars>>
MCSpec == MCInit /\ [][MCNext]_mcVars

Event(det, conf, sev, key) == [det |-> det, conf |-> conf, sev |-> sev, key |-> key]

MCSamples == {Event("rug_pull_lp_drain", 8, 4, 1),
              Event("rug_pull_lp_drain_latent", 5, 2, 1),
              Event("pump_dump", 5, 3, 2),
              Event("wallet_sybil", 5, 3, 2)}

\* A loud kind of event at a confidence below the floor, beside a mild one.
NoisySamples == {Event("rug_pull_lp_drain", 2, 4, 1),
                 Event("rug_pull_lp_drain_latent", 5, 2, 1)}

\* The cut-offs out of the way, and both of them in it.
MCConfigs == {[length |-> 4, cycles |-> 30, scc |-> 3],
              [length |-> 3, cycles |-> 2, scc |-> 3]}

\* The configuration of default_mvp, and a graph of six wallets for it.
DefaultConfigs == {[length |-> 5, cycles |-> 100, scc |-> 3]}
Tangle == {<<0, 1>>, <<0, 5>>, <<1, 2>>, <<2, 4>>, <<3, 0>>, <<4, 3>>, <<4, 5>>,
           <<5, 3>>, <<5, 4>>}
TangleSpec == transfers = Tangle /\ MCInit /\ [][MCNext]_mcVars

\* Swaps of all quantities at one price, and single units at any price.
MCTradeKinds ==
  [side : {"buy", "sell"}, mint : Tokens, qty : 1..3, price : {1}]
MCLabelKinds ==
  [side : {"buy", "sell"}, mint : {"a"}, qty : {1}, price : {0, 1, 3}]

\* Scoring: the order of the events is of no consequence.
OrderIndependent == part = "scoring" => Reports!OrderIndependent

\* Scoring: more evidence never makes a token look safer.
EvidenceNeverLowers == Reports!EvidenceNeverLowers

\* Scoring: with time alone base score and severity do not rise, and the base
\* score does not fall below what rests on the token's state.
FadesToState == Reports!FadesToState

\* Scoring: an inconclusive event does not raise the severity.
NoiseDoesNotEscalate == part = "scoring" => Reports!NoiseDoesNotEscalate

\* Bocpd: whatever is observed, the answer is the hazard rate.
AnswerIsHazard == part = "changepoint" => Changepoint!AnswerIsHazard

\* Launches: a row that only the hook wrote knows of no launch taken back, but
\* by a reorg that was cut short or never told.
HookStateCanonical == part = "launches" => Pools!HookStateCanonical

\* Launches: the first pool of a token on the canonical chain is audited, unless
\* a lower one is left from a reorg that was cut short or never told.
FirstPoolAudited == part = "launches" => Pools!FirstPoolAudited

\* Cycles: the components are exact, only closed walks are reported, and the
\* rings, all of them, when nothing is cut off.
CyclesExact == part = "rings" => Rings!CyclesExact

\* SmartMoney: a sell is paired with what was bought first.
RoundTripsExact == part = "trades" => Trades!RoundTripsExact

\* SmartMoney: after a label was written the wallet has one no weaker.
EarnedIsLabelled == part = "labels" => Labels!EarnedIsLabelled

\* Cycles: no wallet is in a reported cycle twice.
WalletsDistinct == part = "rings" => Rings!WalletsDistinct
=============================================================================
