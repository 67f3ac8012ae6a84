----------------------------- MODULE SmartMoney -----------------------------
(***************************************************************************)
(* The smart-money labeller: the batch that turns the swaps of a wallet    *)
(* into round trips, a corpus row and a label                              *)
(* (crates/graph/src/smart_money.rs), its queries                          *)
(* (server/src/pg_swap_fetcher.rs), the rows it writes                     *)
(* (storage/src/wallet_pnl_corpus.rs, graph/src/labels.rs) and the loop it *)
(* runs in (server/src/init/smart_money.rs).  There is one wallet.         *)
(*                                                                         *)
(* The batch asks for events of the detectors pump_dump_v1 and             *)
(* wash_trading_v1, ids no detector has: nothing recurs, nobody is         *)
(* excluded as a wash trader, and what would follow is left out.  So is    *)
(* tier 1, which needs a percentile that is never computed.                *)
(***************************************************************************)
EXTENDS Integers, Sequences, FiniteSets, SequencesExt, FiniteSetsExt

CONSTANTS
  Mints,     \* the tokens traded
  Kinds,     \* swaps the wallet may make: [side, mint, qty, price], the price in
             \* USD or 0 when nobody knows it
  MaxSwaps,  \* bound: swaps of the wallet
  MaxTime,   \* bound: the clock
  Lookback,  \* corpus_lookback_days
  MaxRows,   \* LIMIT of the swap query (10000)
  MinTrips,  \* the greater of min_round_trips and its floor
  StrongPnl, \* tier2_min_pnl_usd, from which on the PnL bonus is paid as well
  Holding,   \* the mean holding times a bonus is paid for
  Ttl        \* label_ttl_hours

VARIABLES
  clock,
  swaps,    \* the wallet's rows in the swaps table, by block_time and tx_hash
  excluded, \* the wallet is labelled KnownExchange, KnownDex or KnownBurn
  pc,       \* the batch: idle, fetch, corpus, label
  end,      \* window_end
  trips,    \* the round trips it computed
  corpus,   \* the wallet_pnl_corpus row, by the trips it sums up, or NoTrips
  label,    \* the SmartMoney row of address_labels, or NoLabel
  written   \* history: the label of the batch that wrote one just now

batch == <<pc, end, trips>>
vars == <<clock, swaps, excluded, batch, corpus, label, written>>

NoTrips == <<"none">>
NoLabel == [conf |-> 0, expires |-> 0]

(***************************************************************************)
(* compute_realized_pnl_round_trips: every sell closes the oldest open     *)
(* buys first.  A position is an index of the sequence with what is left   *)
(* of it open; a trip names the two swaps it pairs.                        *)
(***************************************************************************)
Trip(ss, b, k, closed) ==
  [buy |-> b, sell |-> k, qty |-> closed,
   priced |-> ss[b].price # 0 /\ ss[k].price # 0,
   pnl |-> IF ss[b].price # 0 /\ ss[k].price # 0
           THEN (ss[k].price - ss[b].price) * closed ELSE 0,
   held |-> ss[k].at - ss[b].at]

\* Altered CloseOne: a buy that was closed in part is gone.
CloseWhole(ss, k, acc, pos) ==
  LET closed == Min({acc.left, pos.qty})
  IN  IF acc.left = 0 THEN [acc EXCEPT !.open = Append(@, pos)]
      ELSE [acc EXCEPT !.left = @ - closed,
                       !.trips = Append(@, Trip(ss, pos.buy, k, closed))]

\* One buy for the sell at k, of which acc.left is not matched yet.
CloseOne(ss, k, acc, pos) ==
  LET closed == Min({acc.left, pos.qty})
      rest   == [pos EXCEPT !.qty = @ - closed]
  IN  IF acc.left = 0 THEN [acc EXCEPT !.open = Append(@, pos)]
      ELSE [left  |-> acc.left - closed,
            open  |-> IF rest.qty > 0 THEN Append(acc.open, rest) ELSE acc.open,
            trips |-> Append(acc.trips, Trip(ss, pos.buy, k, closed))]

\* The sell at k goes through the open buys in their order.
Sell(ss, k, acc) ==
  LET after[j \in 0..Len(acc.open)] ==
        IF j = 0 THEN [left |-> ss[k].qty, open |-> <<>>, trips |-> acc.trips]
        ELSE CloseOne(ss, k, after[j - 1], acc.open[j])
  IN  after[Len(acc.open)]

Buy(ss, k, acc) == [acc EXCEPT !.open = Append(@, [buy |-> k, qty |-> ss[k].qty])]

RoundTrips(ss) ==
  LET after[k \in 0..Len(ss)] ==
        IF k = 0 THEN [left |-> 0, open |-> <<>>, trips |-> <<>>]
        ELSE IF ss[k].side = "buy" THEN Buy(ss, k, after[k - 1])
        ELSE Sell(ss, k, after[k - 1])
  IN  after[Len(ss)].trips

Of(mint, ss) ==
  LET of[n \in 0..Len(ss)] ==
        IF n = 0 THEN <<>>
        ELSE IF ss[n].mint = mint THEN Append(of[n - 1], ss[n]) ELSE of[n - 1]
  IN  of[Len(ss)]

\* process_wallet: token by token, in the order of their names.
AllRoundTrips(ss) ==
  FlattenSeq([i \in 1..Cardinality(Mints) |->
                RoundTrips(Of(SetToSeq(Mints)[i], ss))])

(***************************************************************************)
(* The tier and the confidence, in hundredths (classify_tier,              *)
(* compute_confidence).                                                    *)
(***************************************************************************)
SumOf(ts, Field(_)) == FoldLeft(LAMBDA n, t : n + Field(t), 0, ts)
Priced(ts) == SelectSeq(ts, LAMBDA t : t.priced)
Pnl(ts)    == SumOf(Priced(ts), LAMBDA t : t.pnl)
Held(ts)   == SumOf(ts, LAMBDA t : t.held)

Qualifies(ts) == Len(Priced(ts)) >= MinTrips /\ Pnl(ts) > 0
Confidence(ts) ==
  (IF Pnl(ts) >= StrongPnl THEN 54 ELSE 30) + (IF Held(ts) \div Len(ts) \in Holding THEN 5 ELSE 0)

Init ==
  /\ clock = 0 /\ swaps = <<>> /\ excluded = FALSE
  /\ pc = "idle" /\ end = 0 /\ trips = <<>>
  /\ corpus = NoTrips /\ label = NoLabel /\ written = NoLabel

(***************************************************************************)
(* The environment: the indexer's rows come late and out of order.         *)
(***************************************************************************)
\* The price of a token is that of its block.
Trade ==
  /\ Len(swaps) < MaxSwaps
  /\ \E kind \in Kinds, at \in 0..clock, i \in 1..Len(swaps) + 1 :
       /\ \A j \in DOMAIN swaps :
            /\ j < i => swaps[j].at <= at
            /\ j >= i => swaps[j].at >= at
            /\ (swaps[j].mint = kind.mint /\ swaps[j].at = at)
                  => swaps[j].price = kind.price
       /\ swaps' = InsertAt(swaps, i, [side |-> kind.side, mint |-> kind.mint,
                                       qty |-> kind.qty, price |-> kind.price, at |-> at])
  /\ UNCHANGED <<clock, excluded, batch, corpus, label, written>>

\* A batch takes less than the time a label lives.
TimePasses ==
  /\ clock < MaxTime /\ (pc # "idle" => clock + 1 < end + Ttl)
  /\ clock' = clock + 1 /\ written' = NoLabel
  /\ UNCHANGED <<swaps, excluded, batch, corpus, label>>

\* Static seeds: such a label is for good.
Exclude ==
  /\ ~excluded
  /\ excluded' = TRUE
  /\ UNCHANGED <<clock, swaps, batch, corpus, label, written>>

(***************************************************************************)
(* run_batch, process_wallet.                                              *)
(***************************************************************************)
InWindow(s, until) == until - Lookback <= s.at /\ s.at <= until

\* The tick: the wallet is excluded, or has no swap in the window, or is next.
StartBatch ==
  /\ pc = "idle"
  /\ end' = clock
  /\ pc' = IF ~excluded /\ \E i \in DOMAIN swaps : InWindow(swaps[i], clock)
           THEN "fetch" ELSE "idle"
  /\ written' = NoLabel
  /\ UNCHANGED <<clock, swaps, excluded, trips, corpus, label>>

\* The oldest rows of the window, and what follows from them.
FetchSwaps ==
  /\ pc = "fetch"
  /\ LET rows == SelectSeq(swaps, LAMBDA s : InWindow(s, end))
     IN  trips' = AllRoundTrips(SubSeq(rows, 1, Min({MaxRows, Len(rows)})))
  /\ pc' = "corpus"
  /\ UNCHANGED <<clock, swaps, excluded, end, corpus, label, written>>

\* The row is written whether or not the wallet qualifies.
UpsertCorpus ==
  /\ pc = "corpus"
  /\ corpus' = trips
  /\ pc' = IF Qualifies(trips) THEN "label" ELSE "idle"
  /\ UNCHANGED <<clock, swaps, excluded, end, trips, label, written>>

\* Altered Overwrites: a label that has expired is still in the way.
OverwritesWeaker(new) == new.conf >= label.conf

\* ON CONFLICT DO UPDATE ... WHERE.
Overwrites(new) == new.conf >= label.conf \/ label.expires <= clock

UpsertLabel ==
  /\ pc = "label"
  /\ written' = [conf |-> Confidence(trips), expires |-> end + Ttl]
  /\ label' = IF label = NoLabel \/ Overwrites(written') THEN written' ELSE label
  /\ pc' = "idle"
  /\ UNCHANGED <<clock, swaps, excluded, end, trips, corpus>>

\* A query fails; the wallet or the batch is given up until the next tick.
CallFails ==
  /\ pc # "idle"
  /\ pc' = "idle"
  /\ UNCHANGED <<clock, swaps, excluded, end, trips, corpus, label, written>>

Next ==
  \/ Trade \/ TimePasses \/ Exclude
  \/ StartBatch \/ FetchSwaps \/ UpsertCorpus \/ UpsertLabel \/ CallFails

Spec == Init /\ [][Next]_vars

(***************************************************************************)
(* Properties.                                                             *)
(***************************************************************************)
Sums(w) ==
  LET sum[n \in 0..Len(w)] == IF n = 0 THEN 0 ELSE sum[n - 1] + w[n]
  IN  sum

\* What was bought up to the n-th swap, and what was closed: a sell closes what
\* it can of what was bought before it.
Bought(ss) == Sums([n \in DOMAIN ss |-> IF ss[n].side = "buy" THEN ss[n].qty ELSE 0])
Closed(ss) ==
  LET sum[n \in 0..Len(ss)] ==
        IF n = 0 THEN 0
        ELSE IF ss[n].side = "buy" THEN sum[n - 1]
        ELSE Min({Bought(ss)[n], sum[n - 1] + ss[n].qty})
  IN  sum

\* First in, first out: if all units ever bought are laid out in their order,
\* and all units sold as well, a buy and a sell are paired for exactly the units
\* that lie over each other, a buy in parts and a sell over several buys.
Overlap(lo1, hi1, lo2, hi2) == Max({0, Min({hi1, hi2}) - Max({lo1, lo2})})

\* What the trips of the buy at b and the sell at k come to.
Units(ts, b, k) ==
  Sums([n \in DOMAIN ts |->
          IF ts[n].buy = b /\ ts[n].sell = k THEN ts[n].qty ELSE 0])[Len(ts)]

FifoExact(ss) ==
  LET ts == RoundTrips(ss)
  IN  \A b, k \in DOMAIN ss :
        (ss[b].side = "buy" /\ ss[k].side = "sell") =>
          Units(ts, b, k) = Overlap(Bought(ss)[b - 1], Bought(ss)[b],
                                    Closed(ss)[k - 1], Closed(ss)[k])

\* The round trips of every token are those of first in, first out, in whatever
\* order the swaps came in (compute_realized_pnl_round_trips).
RoundTripsExact == \A m \in Mints : FifoExact(Of(m, swaps))

\* A batch that counts a label as written leaves the wallet with a label that
\* readers see (expires_at > now()) and that says no less than the batch found:
\* the guard of the upsert keeps a stronger label only as long as it lives.
EarnedIsLabelled ==
  written # NoLabel => label.expires > clock /\ label.conf >= written.conf
=============================================================================
