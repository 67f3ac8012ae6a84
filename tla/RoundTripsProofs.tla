-------------------------- MODULE RoundTripsProofs --------------------------
(***************************************************************************)
(* The round trips of the smart-money labeller (SmartMoney): first in,     *)
(* first out, for every sequence of swaps.                                 *)
(*                                                                         *)
(* All that was bought is one stretch of units, B[n] long after n swaps,   *)
(* and all that was closed another, C[n] long.  After k swaps the open     *)
(* positions are the units from C[k] to B[k] in their order (Queue), and   *)
(* the trips have paired every buy and every sell before k for the units   *)
(* that lie over each other (Paired).  Within a sell the same holds up to  *)
(* the unit it has come to (SoldSoFar).                                    *)
(***************************************************************************)
EXTENDS MCDetection, TLAPS, SequenceTheorems, WellFoundedInduction

Less == {ss \in Nat \X Nat : ss[1] < ss[2]}

\* A set of natural numbers that is not empty has a least one: what stands in
\* for induction.
LEMMA Least ==
  ASSUME NEW T \in SUBSET Nat, T # {}
  PROVE  \E n \in T : \A m \in T : n <= m
<1>1. IsWellFoundedOn(Less, Nat)
  BY NatLessThanWellFounded DEF OpToRel, Less
<1>2. PICK n \in T : \A m \in T : ~(<<m, n>> \in Less)
  BY <1>1, WFMin
<1>3. \A m \in T : ~(m < n)
  BY <1>2 DEF Less
<1> QED
  BY <1>3

\* A property of the numbers up to N that holds at the beginning and goes on.
LEMMA Climb ==
  ASSUME NEW N \in Nat, NEW G, 0 \in G, \A k \in 1..N : k - 1 \in G => k \in G
  PROVE  \A k \in 0..N : k \in G
<1> DEFINE T == {k \in 0..N : k \notin G}
<1>1. T \in SUBSET Nat
  OBVIOUS
<1>2. ASSUME T # {} PROVE FALSE
<2>1. PICK n \in T : \A m \in T : n <= m
  BY <1>1, <1>2, Least
<2>2. n \in 1..N /\ n \notin G
  OBVIOUS
<2>3. n - 1 \in 0..N /\ n - 1 \notin T
  BY <2>1, <2>2
<2>4. n - 1 \in G
  BY <2>3
<2> QED
  BY <2>2, <2>4
<1> QED
  BY <1>2

\* f goes on from a by the steps of st, n times.
Runs(f, st, S, a, n) ==
  /\ f \in [0..n -> S] /\ f[0] = a
  /\ \A k \in 1..n : f[k] = st[<<f[k - 1], k>>]

\* A step that can be taken from every state can be taken again and again.
Stepping(st, S, a, N) == N \in Nat /\ a \in S /\ st \in [S \X (1..N) -> S]

LEMMA Iterates ==
  ASSUME NEW st, NEW S, NEW a, NEW N, Stepping(st, S, a, N)
  PROVE  \E f : Runs(f, st, S, a, N)
<1> DEFINE G == {n \in 0..N : \E f : Runs(f, st, S, a, n)}
<1>0. N \in Nat /\ a \in S
  BY DEF Stepping
<1>1. 0 \in G
<2>1. Runs([k \in 0..0 |-> a], st, S, a, 0)
  BY <1>0 DEF Runs
<2> QED
  BY <1>0, <2>1
<1>2. ASSUME NEW n \in 1..N, n - 1 \in G PROVE n \in G
<2>1. PICK f : Runs(f, st, S, a, n - 1)
  BY <1>2
<2>2. PICK x \in S : x = st[<<f[n - 1], n>>]
<3>1. f[n - 1] \in S
  BY <1>0, <2>1 DEF Runs
<3>2. st[<<f[n - 1], n>>] \in S
  BY <3>1 DEF Stepping
<3> QED
  BY <3>2
<2> DEFINE g == [m \in 0..n |-> IF m = n THEN x ELSE f[m]]
<2>3. g \in [0..n -> S] /\ g[0] = a
  BY <1>0, <2>1 DEF Runs
<2>4. ASSUME NEW m \in 1..n PROVE g[m] = st[<<g[m - 1], m>>]
<3>1. CASE m = n
<4>1. n \in 0..n /\ n - 1 \in 0..n /\ n - 1 # n
  BY <1>0
<4> QED
  BY <2>2, <3>1, <4>1
<3>2. CASE m # n
<4>1. m \in 1..(n - 1) /\ m \in 0..n /\ m - 1 \in 0..n /\ m - 1 # n
  BY <1>0, <3>2
<4>2. f[m] = st[<<f[m - 1], m>>]
  BY <2>1, <4>1 DEF Runs
<4> QED
  BY <3>2, <4>1, <4>2
<3> QED
  BY <3>1, <3>2
<2>5. Runs(g, st, S, a, n)
  BY <2>3, <2>4 DEF Runs
<2> HIDE DEF g
<2> QED
  BY <1>0, <2>5
<1> HIDE DEF G
<1>3. \A k \in 0..N : k \in G
  BY <1>0, <1>1, <1>2, Climb
<1>4. N \in G
  BY <1>0, <1>3
<1> QED
  BY <1>4 DEF G

\* The lesser and the greater of two numbers.
LEMMA LesserQuantity ==
  ASSUME NEW a \in Nat, NEW b \in Nat
  PROVE  Trades!Min({a, b}) = IF a <= b THEN a ELSE b
<1> DEFINE m == IF a <= b THEN a ELSE b
<1>1. m \in {a, b} /\ \A y \in {a, b} : m <= y
  OBVIOUS
<1>2. \A x \in {a, b} : (\A y \in {a, b} : x <= y) => x = m
  OBVIOUS
<1> QED
  BY <1>1, <1>2 DEF Trades!Min

LEMMA GreaterQuantity ==
  ASSUME NEW a \in Int, NEW b \in Int
  PROVE  Trades!Max({a, b}) = IF a <= b THEN b ELSE a
<1> DEFINE m == IF a <= b THEN b ELSE a
<1>1. m \in {a, b} /\ \A y \in {a, b} : m >= y
  OBVIOUS
<1>2. \A x \in {a, b} : (\A y \in {a, b} : x >= y) => x = m
  OBVIOUS
<1> QED
  BY <1>1, <1>2 DEF Trades!Max

\* Where two stretches overlap.
Meets(up, down, lo1, hi1, lo2, hi2) ==
  /\ up = (IF hi1 <= hi2 THEN hi1 ELSE hi2) /\ down = (IF lo1 <= lo2 THEN lo2 ELSE lo1)
  /\ Trades!Overlap(lo1, hi1, lo2, hi2) = IF down <= up THEN up - down ELSE 0

LEMMA OverlapIs ==
  ASSUME NEW lo1 \in Nat, NEW hi1 \in Nat, NEW lo2 \in Nat, NEW hi2 \in Nat
  PROVE  \E up \in Nat, down \in Nat : Meets(up, down, lo1, hi1, lo2, hi2)
<1>1. PICK up \in Nat, down \in Nat :
        /\ up = IF hi1 <= hi2 THEN hi1 ELSE hi2
        /\ down = IF lo1 <= lo2 THEN lo2 ELSE lo1
  OBVIOUS
<1>2. Trades!Min({hi1, hi2}) = up /\ Trades!Max({lo1, lo2}) = down
  BY <1>1, LesserQuantity, GreaterQuantity
<1>3. Trades!Max({0, up - down}) = IF 0 <= up - down THEN up - down ELSE 0
<2>1. 0 \in Int /\ up - down \in Int
  OBVIOUS
<2> QED
  BY <2>1, GreaterQuantity
<1>4. Trades!Overlap(lo1, hi1, lo2, hi2) = Trades!Max({0, up - down})
  BY <1>2 DEF Trades!Overlap
<1>5. Trades!Overlap(lo1, hi1, lo2, hi2) = IF down <= up THEN up - down ELSE 0
  BY <1>3, <1>4
<1> QED
  BY <1>1, <1>5 DEF Meets

\* c more units are sold, from f on: they lie in what was bought from lo to hi,
\* or outside.
Extends(lo, hi, s, f, c) ==
  /\ lo <= f /\ f + c <= hi =>
       Trades!Overlap(lo, hi, s, f + c) = Trades!Overlap(lo, hi, s, f) + c
  /\ hi <= f \/ f + c <= lo =>
       Trades!Overlap(lo, hi, s, f + c) = Trades!Overlap(lo, hi, s, f)

LEMMA NoOverlap ==
  ASSUME NEW lo \in Nat, NEW hi \in Nat, NEW s \in Nat, lo <= hi
  PROVE  Trades!Overlap(lo, hi, s, s) = 0
<1>1. PICK up \in Nat, down \in Nat : Meets(up, down, lo, hi, s, s)
  BY OverlapIs
<1> QED
  BY <1>1 DEF Meets

LEMMA OverlapGrows ==
  ASSUME NEW lo \in Nat, NEW hi \in Nat, NEW s \in Nat, NEW f \in Nat, NEW c \in Nat,
         lo <= hi, s <= f
  PROVE  Extends(lo, hi, s, f, c)
<1>1. PICK g \in Nat : g = f + c
  OBVIOUS
<1>3. PICK up \in Nat, down \in Nat : Meets(up, down, lo, hi, s, g)
  BY OverlapIs
<1>4. PICK up2 \in Nat, down2 \in Nat : Meets(up2, down2, lo, hi, s, f)
  BY OverlapIs
<1> QED
  BY <1>1, <1>3, <1>4 DEF Meets, Extends

\* f is the running sum of w.
Adds(f, w, n) ==
  /\ f \in [0..n -> Nat] /\ f[0] = 0
  /\ \A k \in 1..n : f[k] = f[k - 1] + w[k]

LEMMA SumsAdd ==
  ASSUME NEW w \in Seq(Nat)
  PROVE  Adds(Trades!Sums(w), w, Len(w))
<1>1. PICK N \in Nat : N = Len(w) /\ \A k \in 1..N : w[k] \in Nat
  BY ElementOfSeq
<1> DEFINE st == [x \in Nat \X (1..N) |-> x[1] + w[x[2]]]
<1>2. st \in [Nat \X (1..N) -> Nat]
  BY <1>1
<1>3. \A c \in Nat, k \in 1..N : st[<<c, k>>] = c + w[k]
  OBVIOUS
<1> HIDE DEF st
<1>4. PICK f : Runs(f, st, Nat, 0, N)
  BY <1>2, Iterates DEF Stepping
<1>5. ASSUME NEW k \in 1..N PROVE f[k] = f[k - 1] + w[k]
<2>1. f[k - 1] \in Nat /\ f[k] = st[<<f[k - 1], k>>]
  BY <1>4 DEF Runs
<2> QED
  BY <1>3, <2>1
<1>6. f \in [0..N -> Nat] /\ f[0] = 0 /\ \A k \in 0..N : k # 0 => k \in 1..N
  BY <1>4 DEF Runs
<1>7. f = [n \in 0..N |-> IF n = 0 THEN 0 ELSE f[n - 1] + w[n]]
  BY <1>5, <1>6
<1> DEFINE h == Trades!Sums(w)
<1>8. h = [n \in 0..N |-> IF n = 0 THEN 0 ELSE h[n - 1] + w[n]]
  BY <1>1, <1>7 DEF Trades!Sums
<1> HIDE DEF h
<1> DEFINE G == {n \in 0..N : h[n] = f[n]}
<1>9. 0 \in G
  BY <1>6, <1>8
<1>10. ASSUME NEW k \in 1..N, k - 1 \in G PROVE k \in G
  BY <1>5, <1>8, <1>10
<1> HIDE DEF G
<1>11. \A k \in 0..N : k \in G
  BY <1>9, <1>10, Climb
<1>12. h = f
  BY <1>6, <1>8, <1>11 DEF G
<1> QED
  BY <1>1, <1>5, <1>6, <1>12 DEF h, Adds

\* A sum grows by what is appended.
LEMMA SumsAppend ==
  ASSUME NEW w \in Seq(Nat), NEW x \in Nat
  PROVE  /\ Trades!Sums(w)[Len(w)] \in Nat
         /\ Trades!Sums(Append(w, x))[Len(Append(w, x))] = Trades!Sums(w)[Len(w)] + x
<1>1. PICK n \in Nat : n = Len(w)
  OBVIOUS
<1>2. PICK v \in Seq(Nat) : v = Append(w, x)
  BY AppendProperties
<1>0. Len(v) = n + 1 /\ v[n + 1] = x /\ \A k \in 1..n : v[k] = w[k]
  BY <1>1, <1>2, AppendProperties
<1>3. PICK f : f = Trades!Sums(w) /\ Adds(f, w, n)
  BY <1>1, SumsAdd
<1>4. PICK g : g = Trades!Sums(v) /\ Adds(g, v, n + 1)
  BY <1>0, SumsAdd
<1> DEFINE G == {k \in 0..n : g[k] = f[k]}
<1>5. 0 \in G
  BY <1>3, <1>4 DEF Adds
<1>6. ASSUME NEW k \in 1..n, k - 1 \in G PROVE k \in G
<2>1. k \in 1..(n + 1)
  OBVIOUS
<2>2. f[k] = f[k - 1] + w[k] /\ g[k] = g[k - 1] + v[k]
  BY <1>3, <1>4, <2>1 DEF Adds
<2> QED
  BY <1>0, <1>6, <2>2
<1> HIDE DEF G
<1>7. n \in G
<2>1. \A k \in 0..n : k \in G
  BY <1>5, <1>6, Climb
<2> QED
  BY <2>1
<1>8. g[n] = f[n]
  BY <1>7 DEF G
<1>9. f[n] \in Nat /\ n + 1 \in 1..(n + 1) /\ (n + 1) - 1 = n
  BY <1>3 DEF Adds
<1>10. g[n + 1] = f[n] + x
  BY <1>0, <1>4, <1>8, <1>9 DEF Adds
<1> QED
  BY <1>0, <1>1, <1>2, <1>3, <1>4, <1>9, <1>10

\* The swaps of the part that trades.
Swap == {[side |-> kind.side, mint |-> kind.mint, qty |-> kind.qty,
          price |-> kind.price, at |-> t] : kind \in TradeKinds, t \in Nat}

\* N swaps of some side and quantity.
Dealt(ss, N) ==
  /\ N \in Nat /\ DOMAIN ss = 1..N /\ Len(ss) = N
  /\ \A n \in 1..N : ss[n].side \in {"buy", "sell"} /\ ss[n].qty \in Nat

\* The sums of what was bought and of what was closed.
Tallies(ss, N, B, C) ==
  /\ B \in [0..N -> Nat] /\ B[0] = 0 /\ C \in [0..N -> Nat] /\ C[0] = 0
  /\ \A n \in 1..N :
       IF ss[n].side = "buy"
       THEN B[n] = B[n - 1] + ss[n].qty /\ C[n] = C[n - 1]
       ELSE /\ B[n] = B[n - 1]
            /\ C[n] = IF B[n] <= C[n - 1] + ss[n].qty THEN B[n] ELSE C[n - 1] + ss[n].qty
  /\ \A n \in 0..N : C[n] <= B[n]
  /\ \A n \in 1..N : C[n - 1] <= C[n]
  /\ \A n, m \in 0..N : n <= m => B[n] <= B[m]

\* Bought is the running sum of the buys.
LEMMA BoughtAdds ==
  ASSUME NEW ss, NEW N, Dealt(ss, N)
  PROVE  /\ Trades!Bought(ss) \in [0..N -> Nat] /\ Trades!Bought(ss)[0] = 0
         /\ \A n \in 1..N : Trades!Bought(ss)[n] = Trades!Bought(ss)[n - 1]
                              + (IF ss[n].side = "buy" THEN ss[n].qty ELSE 0)
<1> DEFINE w == [n \in DOMAIN ss |-> IF ss[n].side = "buy" THEN ss[n].qty ELSE 0]
<1>1. N \in Nat /\ w = [n \in 1..N |-> IF ss[n].side = "buy" THEN ss[n].qty ELSE 0]
  BY DEF Dealt
<1>2. \A n \in 1..N : (IF ss[n].side = "buy" THEN ss[n].qty ELSE 0) \in Nat
  BY DEF Dealt
<1>3. w \in Seq(Nat) /\ Len(w) = N
  BY <1>1, <1>2
<1>4. PICK f : f = Trades!Bought(ss) /\ Adds(f, w, N)
<2>1. Adds(Trades!Sums(w), w, N)
  BY <1>3, SumsAdd
<2>2. Trades!Bought(ss) = Trades!Sums(w)
  BY DEF Trades!Bought
<2> QED
  BY <2>1, <2>2
<1>5. \A n \in 1..N : w[n] = IF ss[n].side = "buy" THEN ss[n].qty ELSE 0
  BY <1>1
<1> HIDE DEF w
<1> QED
  BY <1>4, <1>5 DEF Adds

\* What Closed is defined by.
Closes(C, ss, N, B) ==
  /\ C \in [0..N -> Nat] /\ C[0] = 0
  /\ \A n \in 1..N : C[n] = IF ss[n].side = "buy" THEN C[n - 1]
                           ELSE Trades!Min({B[n], C[n - 1] + ss[n].qty})

LEMMA ClosedAdds ==
  ASSUME NEW ss, NEW N, Dealt(ss, N), NEW B, B = Trades!Bought(ss), B \in [0..N -> Nat]
  PROVE  Closes(Trades!Closed(ss), ss, N, B)
<1> DEFINE st == [x \in Nat \X (1..N) |->
                    IF ss[x[2]].side = "buy" THEN x[1]
                    ELSE Trades!Min({B[x[2]], x[1] + ss[x[2]].qty})]
<1>1. ASSUME NEW c \in Nat, NEW n \in 1..N
      PROVE  Trades!Min({B[n], c + ss[n].qty}) \in Nat
<2>1. B[n] \in Nat /\ c + ss[n].qty \in Nat
  BY DEF Dealt
<2> QED
  BY <2>1, LesserQuantity
<1>2. st \in [Nat \X (1..N) -> Nat] /\ N \in Nat
  BY <1>1 DEF Dealt
<1>3. \A c \in Nat, n \in 1..N :
        st[<<c, n>>] = IF ss[n].side = "buy" THEN c ELSE Trades!Min({B[n], c + ss[n].qty})
  OBVIOUS
<1> HIDE DEF st
<1>4. PICK f : Runs(f, st, Nat, 0, N)
  BY <1>2, Iterates DEF Stepping
<1>5. ASSUME NEW n \in 1..N
      PROVE  f[n] = IF ss[n].side = "buy" THEN f[n - 1]
                    ELSE Trades!Min({B[n], f[n - 1] + ss[n].qty})
<2>1. f[n - 1] \in Nat
  BY <1>2, <1>4 DEF Runs
<2>2. f[n] = st[<<f[n - 1], n>>]
  BY <1>4 DEF Runs
<2> QED
  BY <1>3, <2>1, <2>2
<1>6. f = [n \in 0..Len(ss) |->
             IF n = 0 THEN 0
             ELSE IF ss[n].side = "buy" THEN f[n - 1]
             ELSE Trades!Min({Trades!Bought(ss)[n], f[n - 1] + ss[n].qty})]
<2>1. \A n \in 0..N : n # 0 => n \in 1..N
  BY <1>2
<2>2. Len(ss) = N
  BY DEF Dealt
<2>3. f \in [0..N -> Nat] /\ f[0] = 0
  BY <1>4 DEF Runs
<2> QED
  BY <1>5, <2>1, <2>2, <2>3
<1> DEFINE h == Trades!Closed(ss)
<1>7. h = [n \in 0..Len(ss) |->
             IF n = 0 THEN 0
             ELSE IF ss[n].side = "buy" THEN h[n - 1]
             ELSE Trades!Min({Trades!Bought(ss)[n], h[n - 1] + ss[n].qty})]
  BY <1>6 DEF Trades!Closed
<1>8. h = [n \in 0..N |->
             IF n = 0 THEN 0
             ELSE IF ss[n].side = "buy" THEN h[n - 1]
             ELSE Trades!Min({B[n], h[n - 1] + ss[n].qty})]
  BY <1>7 DEF Dealt
<1> HIDE DEF h
<1>9. h[0] = 0 /\ \A n \in 1..N : h[n] = IF ss[n].side = "buy" THEN h[n - 1]
                                         ELSE Trades!Min({B[n], h[n - 1] + ss[n].qty})
<2>1. 0 \in 0..N /\ \A n \in 1..N : n \in 0..N /\ n # 0
  BY <1>2
<2> QED
  BY <1>8, <2>1
<1> DEFINE G == {n \in 0..N : h[n] \in Nat}
<1>10. 0 \in G
  BY <1>2, <1>9
<1>11. ASSUME NEW n \in 1..N, n - 1 \in G PROVE n \in G
<2>1. h[n - 1] \in Nat /\ n \in 0..N
  BY <1>2, <1>11
<2>2. h[n] \in Nat
  BY <1>1, <1>9, <2>1
<2> QED
  BY <2>1, <2>2
<1> HIDE DEF G
<1>12. \A n \in 0..N : n \in G
  BY <1>2, <1>10, <1>11, Climb
<1>13. h \in [0..N -> Nat]
  BY <1>8, <1>12 DEF G
<1>14. Closes(h, ss, N, B)
  BY <1>9, <1>13 DEF Closes
<1> QED
  BY <1>14 DEF h

\* What is closed never exceeds what was bought, and neither sum decreases.
LEMMA TalliesHold ==
  ASSUME NEW ss, NEW N, Dealt(ss, N)
  PROVE  Tallies(ss, N, Trades!Bought(ss), Trades!Closed(ss))
<1>1. PICK B : /\ B = Trades!Bought(ss) /\ B \in [0..N -> Nat] /\ B[0] = 0
               /\ \A n \in 1..N : B[n] = B[n - 1]
                                    + (IF ss[n].side = "buy" THEN ss[n].qty ELSE 0)
  BY BoughtAdds
<1>2. PICK C : C = Trades!Closed(ss) /\ Closes(C, ss, N, B)
  BY <1>1, ClosedAdds
<1>3. N \in Nat /\ \A n \in 1..N : ss[n].side \in {"buy", "sell"} /\ ss[n].qty \in Nat
  BY DEF Dealt
<1>4. ASSUME NEW n \in 1..N
      PROVE  IF ss[n].side = "buy"
             THEN B[n] = B[n - 1] + ss[n].qty /\ C[n] = C[n - 1]
             ELSE /\ B[n] = B[n - 1]
                  /\ C[n] = IF B[n] <= C[n - 1] + ss[n].qty THEN B[n]
                            ELSE C[n - 1] + ss[n].qty
<2>1. n \in 0..N /\ n - 1 \in 0..N
  BY <1>3
<2>2. PICK b \in Nat, a \in Nat, c \in Nat, q \in Nat :
        b = B[n] /\ a = B[n - 1] /\ c = C[n - 1] /\ q = ss[n].qty
  BY <1>1, <1>2, <1>3, <2>1 DEF Closes
<2>3. Trades!Min({b, c + q}) = IF b <= c + q THEN b ELSE c + q
<3>1. c + q \in Nat
  OBVIOUS
<3> QED
  BY <3>1, LesserQuantity
<2>4. b = a + (IF ss[n].side = "buy" THEN q ELSE 0)
  BY <1>1, <2>2
<2>5. C[n] = IF ss[n].side = "buy" THEN c ELSE IF b <= c + q THEN b ELSE c + q
  BY <1>2, <2>2, <2>3 DEF Closes
<2> QED
  BY <2>2, <2>4, <2>5
<1>5. \A n \in 0..N : B[n] \in Nat /\ C[n] \in Nat
  BY <1>1, <1>2 DEF Closes
<1>6. \A n \in 1..N : n \in 0..N /\ n - 1 \in 0..N
  BY <1>3
<1> DEFINE G == {n \in 0..N : C[n] <= B[n]}
<1>7. 0 \in G
  BY <1>1, <1>2, <1>3 DEF Closes
<1>8. ASSUME NEW n \in 1..N, n - 1 \in G PROVE n \in G
<2>1. B[n] \in Nat /\ B[n - 1] \in Nat /\ C[n - 1] \in Nat /\ ss[n].qty \in Nat
  BY <1>3, <1>5, <1>6
<2> QED
  BY <1>4, <1>8, <2>1
<1> HIDE DEF G
<1>9. \A n \in 0..N : C[n] <= B[n]
<2>1. \A n \in 0..N : n \in G
  BY <1>3, <1>7, <1>8, Climb
<2> QED
  BY <2>1 DEF G
<1>10. ASSUME NEW n \in 1..N PROVE C[n - 1] <= C[n] /\ B[n - 1] <= B[n]
<2>1. /\ B[n] \in Nat /\ B[n - 1] \in Nat /\ C[n - 1] \in Nat /\ ss[n].qty \in Nat
      /\ C[n - 1] <= B[n - 1]
  BY <1>3, <1>5, <1>6, <1>9
<2> QED
  BY <1>4, <2>1
<1>11. ASSUME NEW n \in 0..N, NEW m \in 0..N, n <= m PROVE B[n] <= B[m]
<2> DEFINE H == {k \in 0..N : n <= k => B[n] <= B[k]}
<2>1. 0 \in H
  BY <1>3, <1>5
<2>2. ASSUME NEW k \in 1..N, k - 1 \in H PROVE k \in H
<3>1. CASE n = k
  BY <1>5, <3>1
<3>2. CASE n # k
<4>1. n <= k => n <= k - 1
  BY <3>2
<4>2. B[n] \in Nat /\ B[k] \in Nat /\ B[k - 1] \in Nat /\ B[k - 1] <= B[k]
  BY <1>5, <1>6, <1>10
<4> QED
  BY <2>2, <4>1, <4>2
<3> QED
  BY <3>1, <3>2
<2> HIDE DEF H
<2>3. m \in H
  BY <1>3, <2>1, <2>2, Climb
<2> QED
  BY <1>11, <2>3 DEF H
<1> QED
  BY <1>1, <1>2, <1>4, <1>9, <1>10, <1>11 DEF Tallies, Closes

\* Open positions, trips and books of N swaps.
Pos(N) == [buy : 1..N, qty : Nat]
TripsOf(ss, N) == {Trades!Trip(ss, b, k, c) : b \in 1..N, k \in 1..N, c \in Nat}
Books(ss, N) == [left : Nat, open : Seq(Pos(N)), trips : Seq(TripsOf(ss, N))]

LEMMA PosHas ==
  ASSUME NEW N, NEW pos \in Pos(N)
  PROVE  pos.qty \in Nat /\ pos.buy \in 1..N
  BY DEF Pos

LEMMA TripHas ==
  ASSUME NEW ss, NEW b, NEW k, NEW c
  PROVE  /\ Trades!Trip(ss, b, k, c).buy = b /\ Trades!Trip(ss, b, k, c).sell = k
         /\ Trades!Trip(ss, b, k, c).qty = c
  BY DEF Trades!Trip

LEMMA TripsAre ==
  ASSUME NEW ss, NEW N, NEW t \in TripsOf(ss, N)
  PROVE  t.buy \in 1..N /\ t.sell \in 1..N /\ t.qty \in Nat
<1>1. PICK b \in 1..N, k \in 1..N, c \in Nat : t = Trades!Trip(ss, b, k, c)
  BY DEF TripsOf
<1> QED
  BY <1>1, TripHas

\* What one position does to the sell at k: nothing when all of it is sold, or c
\* units of it are closed.
ClosesOne(new, acc, pos, ss, k, c) ==
  /\ acc.left = 0 => /\ new.left = 0 /\ new.trips = acc.trips
                     /\ new.open = Append(acc.open, pos)
  /\ acc.left # 0 =>
       /\ c = IF acc.left <= pos.qty THEN acc.left ELSE pos.qty
       /\ new.left = acc.left - c
       /\ new.open = IF pos.qty - c > 0
                     THEN Append(acc.open, [buy |-> pos.buy, qty |-> pos.qty - c])
                     ELSE acc.open
       /\ new.trips = Append(acc.trips, Trades!Trip(ss, pos.buy, k, c))

LEMMA CloseOneIs ==
  ASSUME NEW ss, NEW N \in Nat, NEW k \in 1..N, NEW acc \in Books(ss, N), NEW pos \in Pos(N)
  PROVE  \E new \in Books(ss, N), c \in Nat :
           new = Trades!CloseOne(ss, k, acc, pos) /\ ClosesOne(new, acc, pos, ss, k, c)
<1>1. /\ acc.left \in Nat /\ acc.open \in Seq(Pos(N)) /\ acc.trips \in Seq(TripsOf(ss, N))
      /\ pos.buy \in 1..N /\ pos.qty \in Nat
      /\ acc = [left |-> acc.left, open |-> acc.open, trips |-> acc.trips]
      /\ pos = [buy |-> pos.buy, qty |-> pos.qty]
  BY DEF Books, Pos
<1>2. CASE acc.left = 0
<2>1. Trades!CloseOne(ss, k, acc, pos)
        = [left |-> 0, open |-> Append(acc.open, pos), trips |-> acc.trips]
<3>1. Trades!CloseOne(ss, k, acc, pos) = [acc EXCEPT !.open = Append(@, pos)]
  BY <1>2 DEF Trades!CloseOne
<3> QED
  BY <1>1, <1>2, <3>1
<2>2. Append(acc.open, pos) \in Seq(Pos(N))
  BY <1>1, AppendProperties
<2>5. PICK op \in Seq(Pos(N)) : op = Append(acc.open, pos)
  BY <2>2
<2>6. [left |-> 0, open |-> op, trips |-> acc.trips] \in Books(ss, N)
  BY <1>1, <2>5 DEF Books
<2>7. PICK new \in Books(ss, N) : new = [left |-> 0, open |-> op, trips |-> acc.trips]
  BY <2>6
<2>3. /\ new = Trades!CloseOne(ss, k, acc, pos) /\ new.left = 0
      /\ new.open = Append(acc.open, pos) /\ new.trips = acc.trips
  BY <2>1, <2>5, <2>7
<2>4. ClosesOne(new, acc, pos, ss, k, 0)
  BY <1>2, <2>3 DEF ClosesOne
<2> QED
  BY <2>3, <2>4
<1>3. CASE acc.left # 0
<2>1. PICK c \in Nat : c = (IF acc.left <= pos.qty THEN acc.left ELSE pos.qty)
                       /\ c = Trades!Min({acc.left, pos.qty})
  BY <1>1, LesserQuantity
<2>2. PICK rest \in Pos(N) : rest = [buy |-> pos.buy, qty |-> pos.qty - c]
                             /\ rest = [pos EXCEPT !.qty = @ - c]
<3>1. pos.qty - c \in Nat
  BY <1>1, <2>1
<3>2. [buy |-> pos.buy, qty |-> pos.qty - c] \in Pos(N)
  BY <1>1, <3>1 DEF Pos
<3>3. [pos EXCEPT !.qty = @ - c] = [buy |-> pos.buy, qty |-> pos.qty - c]
  BY <1>1
<3> QED
  BY <3>2, <3>3
<2>3. PICK op : op = IF rest.qty > 0 THEN Append(acc.open, rest) ELSE acc.open
  OBVIOUS
<2>4. op \in Seq(Pos(N))
  BY <1>1, <2>3, AppendProperties
<2>5. PICK trip \in TripsOf(ss, N) : trip = Trades!Trip(ss, pos.buy, k, c)
  BY <1>1 DEF TripsOf
<2>6. Append(acc.trips, trip) \in Seq(TripsOf(ss, N))
  BY <1>1, AppendProperties
<2>7. Trades!CloseOne(ss, k, acc, pos)
        = [left |-> acc.left - c, open |-> op, trips |-> Append(acc.trips, trip)]
  BY <1>3, <2>1, <2>2, <2>3, <2>5 DEF Trades!CloseOne
<2>8. acc.left - c \in Nat
  BY <1>1, <2>1
<2>9. Trades!CloseOne(ss, k, acc, pos) \in Books(ss, N)
  BY <2>4, <2>6, <2>7, <2>8 DEF Books
<2>10. op = IF pos.qty - c > 0 THEN Append(acc.open, [buy |-> pos.buy, qty |-> pos.qty - c])
            ELSE acc.open
  BY <2>2, <2>3
<2>11. PICK new \in Books(ss, N) : new = Trades!CloseOne(ss, k, acc, pos)
  BY <2>9
<2>12. new.left = acc.left - c /\ new.open = op /\ new.trips = Append(acc.trips, trip)
  BY <2>7, <2>11
<2>13. ClosesOne(new, acc, pos, ss, k, c)
  BY <1>3, <2>1, <2>5, <2>10, <2>12 DEF ClosesOne
<2> QED
  BY <2>11, <2>13
<1> QED
  BY <1>2, <1>3

\* The sell at k, position by position.
Sells(g, ss, N, k, acc) ==
  /\ g \in [0..Len(acc.open) -> Books(ss, N)]
  /\ g[0] = [left |-> ss[k].qty, open |-> <<>>, trips |-> acc.trips]
  /\ \A j \in 1..Len(acc.open) : g[j] = Trades!CloseOne(ss, k, g[j - 1], acc.open[j])

\* Sell goes through the positions one by one.
LEMMA SellRuns ==
  ASSUME NEW ss, NEW N, Dealt(ss, N), NEW k \in 1..N, NEW acc \in Books(ss, N)
  PROVE  \E g : Sells(g, ss, N, k, acc) /\ Trades!Sell(ss, k, acc) = g[Len(acc.open)]
<1>1. PICK M \in Nat : M = Len(acc.open)
  BY DEF Books
<1>2. /\ N \in Nat /\ ss[k].qty \in Nat /\ acc.trips \in Seq(TripsOf(ss, N))
      /\ \A j \in 1..M : acc.open[j] \in Pos(N)
  BY <1>1 DEF Books, Dealt
<1> DEFINE a == [left |-> ss[k].qty, open |-> <<>>, trips |-> acc.trips]
           st == [x \in Books(ss, N) \X (1..M) |->
                    Trades!CloseOne(ss, k, x[1], acc.open[x[2]])]
<1>3. a \in Books(ss, N)
<2>1. <<>> \in Seq(Pos(N))
  OBVIOUS
<2> QED
  BY <1>2, <2>1 DEF Books
<1>4. \A b \in Books(ss, N), j \in 1..M :
        /\ Trades!CloseOne(ss, k, b, acc.open[j]) \in Books(ss, N)
        /\ st[<<b, j>>] = Trades!CloseOne(ss, k, b, acc.open[j])
  BY <1>2, CloseOneIs
<1>5. st \in [Books(ss, N) \X (1..M) -> Books(ss, N)]
  BY <1>4
<1> HIDE DEF st, a
<1>6. PICK f : Runs(f, st, Books(ss, N), a, M)
  BY <1>1, <1>3, <1>5, Iterates DEF Stepping
<1>7. ASSUME NEW j \in 1..M
      PROVE  f[j] = Trades!CloseOne(ss, k, f[j - 1], acc.open[j])
<2>1. f[j - 1] \in Books(ss, N) /\ f[j] = st[<<f[j - 1], j>>]
  BY <1>1, <1>6 DEF Runs
<2> QED
  BY <1>4, <2>1
<1>8. f = [j \in 0..Len(acc.open) |->
             IF j = 0 THEN [left |-> ss[k].qty, open |-> <<>>, trips |-> acc.trips]
             ELSE Trades!CloseOne(ss, k, f[j - 1], acc.open[j])]
<2>1. f \in [0..M -> Books(ss, N)] /\ f[0] = a
  BY <1>6 DEF Runs
<2>2. \A j \in 0..M : j # 0 => j \in 1..M
  BY <1>1
<2> QED
  BY <1>1, <1>7, <2>1, <2>2 DEF a
<1> DEFINE h == CHOOSE after : after =
             [j \in 0..Len(acc.open) |->
                IF j = 0 THEN [left |-> ss[k].qty, open |-> <<>>, trips |-> acc.trips]
                ELSE Trades!CloseOne(ss, k, after[j - 1], acc.open[j])]
<1>9. h = [j \in 0..Len(acc.open) |->
             IF j = 0 THEN [left |-> ss[k].qty, open |-> <<>>, trips |-> acc.trips]
             ELSE Trades!CloseOne(ss, k, h[j - 1], acc.open[j])]
  BY <1>8
<1>10. Trades!Sell(ss, k, acc) = h[Len(acc.open)]
  BY DEF Trades!Sell
<1> HIDE DEF h
<1>11. h[0] = a /\ \A j \in 1..M : h[j] = Trades!CloseOne(ss, k, h[j - 1], acc.open[j])
<2>1. 0 \in 0..M /\ \A j \in 1..M : j \in 0..M /\ j # 0
  BY <1>1
<2> QED
  BY <1>1, <1>9, <2>1 DEF a
<1> DEFINE G == {j \in 0..M : h[j] \in Books(ss, N)}
<1>12. 0 \in G
  BY <1>1, <1>3, <1>11
<1>13. ASSUME NEW j \in 1..M, j - 1 \in G PROVE j \in G
<2>1. h[j - 1] \in Books(ss, N) /\ j \in 0..M
  BY <1>1, <1>13
<2>2. h[j] \in Books(ss, N)
  BY <1>4, <1>11, <2>1
<2> QED
  BY <2>1, <2>2
<1> HIDE DEF G
<1>14. \A j \in 0..M : j \in G
  BY <1>1, <1>12, <1>13, Climb
<1>15. h \in [0..M -> Books(ss, N)]
  BY <1>1, <1>9, <1>14 DEF G
<1> QED
  BY <1>1, <1>10, <1>11, <1>15 DEF Sells, a

\* The units of a list of trips, for every buy and sell: those of the sells
\* before k as they ought to be, and those of the sell at k up to f.
Paired(ts, ss, N, B, C, k, f) ==
  /\ ts \in Seq(TripsOf(ss, N))
  /\ \A b \in 1..N, m \in 1..N :
       Trades!Units(ts, b, m) =
         IF m < k THEN Trades!Overlap(B[b - 1], B[b], C[m - 1], C[m])
         ELSE IF m = k THEN Trades!Overlap(B[b - 1], B[b], C[k - 1], f)
         ELSE 0

\* The open positions are what was bought from one unit to another.
Queue(open, N, B, from, to) ==
  /\ open \in Seq(Pos(N)) /\ from \in Nat /\ to \in Nat /\ from <= to
  /\ \A j \in 1..Len(open) : /\ open[j].qty <= B[open[j].buy]
                             /\ B[open[j].buy - 1] <= B[open[j].buy] - open[j].qty
  /\ Len(open) = 0 => from = to
  /\ Len(open) > 0 => /\ B[open[1].buy] = from + open[1].qty
                      /\ B[open[Len(open)].buy] = to
  /\ \A j \in 1..Len(open) - 1 : B[open[j + 1].buy] = B[open[j].buy] + open[j + 1].qty

\* A position that lies where the queue ends prolongs it.
LEMMA QueueGrows ==
  ASSUME NEW open, NEW N \in Nat, NEW B \in [0..N -> Nat], NEW from, NEW to,
         Queue(open, N, B, from, to), NEW pos \in Pos(N),
         B[pos.buy] = to + pos.qty, B[pos.buy - 1] <= to
  PROVE  Queue(Append(open, pos), N, B, from, to + pos.qty)
<1>1. PICK M \in Nat : M = Len(open)
  BY DEF Queue
<1>2. PICK new \in Seq(Pos(N)) : new = Append(open, pos)
  BY AppendProperties DEF Queue
<1>3. Len(new) = M + 1 /\ new[M + 1] = pos /\ \A j \in 1..M : new[j] = open[j]
  BY <1>1, <1>2, AppendProperties DEF Queue
<1>4. /\ pos.qty \in Nat /\ pos.buy \in 1..N /\ from \in Nat /\ to \in Nat /\ from <= to
      /\ B[pos.buy] \in Nat
  BY DEF Queue, Pos
<1>5. ASSUME NEW j \in 1..(M + 1)
      PROVE  /\ new[j].qty <= B[new[j].buy]
             /\ B[new[j].buy - 1] <= B[new[j].buy] - new[j].qty
<2>1. CASE j = M + 1
<3>1. new[j] = pos
  BY <1>3, <2>1
<3>2. B[pos.buy] \in Nat /\ B[pos.buy - 1] \in Nat
<4>1. pos.buy - 1 \in 0..N
  BY <1>4
<4> QED
  BY <1>4, <4>1
<3>3. pos.qty <= B[pos.buy] /\ B[pos.buy - 1] <= B[pos.buy] - pos.qty
<4>1. \A b, c, t, q \in Nat : b = t + q /\ c <= t => q <= b /\ c <= b - q
  OBVIOUS
<4> QED
  BY <1>4, <3>2, <4>1
<3> QED
  BY <3>1, <3>3
<2>2. CASE j # M + 1
<3>1. j \in 1..M
  BY <2>2
<3> QED
  BY <1>1, <1>3, <3>1 DEF Queue
<2> QED
  BY <2>1, <2>2
<1>6. B[new[1].buy] = from + new[1].qty
<2>1. CASE M = 0
  BY <1>1, <1>3, <1>4, <2>1 DEF Queue
<2>2. CASE M # 0
<3>1. 1 \in 1..M
  BY <2>2
<3> QED
  BY <1>1, <1>3, <2>2, <3>1 DEF Queue
<2> QED
  BY <2>1, <2>2
<1>7. ASSUME NEW j \in 1..M PROVE B[new[j + 1].buy] = B[new[j].buy] + new[j + 1].qty
<2>1. CASE j = M
<3>1. B[open[M].buy] = to
  BY <1>1, <2>1 DEF Queue
<3> QED
  BY <1>3, <2>1, <3>1
<2>2. CASE j # M
<3>1. j \in 1..(M - 1) /\ j + 1 \in 1..M
  BY <2>2
<3> QED
  BY <1>1, <1>3, <3>1 DEF Queue
<2> QED
  BY <2>1, <2>2
<1>8. Queue(new, N, B, from, to + pos.qty)
<2>1. /\ new \in Seq(Pos(N)) /\ from \in Nat /\ to + pos.qty \in Nat
      /\ from <= to + pos.qty /\ Len(new) > 0 /\ Len(new) # 0
      /\ \A j \in 1..Len(new) - 1 : j \in 1..M
  BY <1>2, <1>3, <1>4
<2>2. B[new[Len(new)].buy] = to + pos.qty
  BY <1>3
<2>3. \A j \in 1..Len(new) : j \in 1..(M + 1)
  BY <1>3
<2> QED
  BY <1>5, <1>6, <1>7, <2>1, <2>2, <2>3 DEF Queue
<1> QED
  BY <1>2, <1>8

\* A trip adds its quantity to the units of the two swaps it pairs.
LEMMA UnitsAppend ==
  ASSUME NEW ss, NEW N, NEW ts \in Seq(TripsOf(ss, N)), NEW t \in TripsOf(ss, N), NEW b, NEW m
  PROVE  /\ Trades!Units(ts, b, m) \in Nat
         /\ Trades!Units(Append(ts, t), b, m) =
              Trades!Units(ts, b, m) + (IF t.buy = b /\ t.sell = m THEN t.qty ELSE 0)
<1>1. PICK M \in Nat : M = Len(ts) /\ DOMAIN ts = 1..M
  OBVIOUS
<1>2. PICK new \in Seq(TripsOf(ss, N)) : new = Append(ts, t)
  BY AppendProperties
<1>3. /\ Len(new) = M + 1 /\ DOMAIN new = 1..(M + 1) /\ new[M + 1] = t
      /\ \A n \in 1..M : new[n] = ts[n]
  BY <1>1, <1>2, AppendProperties
<1>4. PICK x \in Nat : x = IF t.buy = b /\ t.sell = m THEN t.qty ELSE 0
  BY TripsAre
<1> DEFINE w == [n \in DOMAIN ts |->
                   IF ts[n].buy = b /\ ts[n].sell = m THEN ts[n].qty ELSE 0]
           v == [n \in DOMAIN new |->
                   IF new[n].buy = b /\ new[n].sell = m THEN new[n].qty ELSE 0]
<1>5. w \in Seq(Nat) /\ Len(w) = M
<2>1. \A n \in 1..M : (IF ts[n].buy = b /\ ts[n].sell = m THEN ts[n].qty ELSE 0) \in Nat
  BY <1>1, TripsAre
<2>2. w = [n \in 1..M |-> IF ts[n].buy = b /\ ts[n].sell = m THEN ts[n].qty ELSE 0]
  BY <1>1
<2> HIDE DEF w
<2> QED
  BY <2>1, <2>2
<1>6. v = Append(w, x)
<2>1. PICK u \in Seq(Nat) : u = Append(w, x)
  BY <1>5, AppendProperties
<2>2. Len(u) = M + 1 /\ u[M + 1] = x /\ \A n \in 1..M : u[n] = w[n]
  BY <1>5, <2>1, AppendProperties
<2>3. DOMAIN u = 1..(M + 1) /\ u = [n \in 1..(M + 1) |-> u[n]]
  BY <2>2
<2>4. \A n \in 1..(M + 1) : n \in 1..M \/ n = M + 1
  OBVIOUS
<2>5. \A n \in 1..(M + 1) : v[n] = u[n]
  BY <1>1, <1>3, <1>4, <2>2, <2>4
<2>6. v = [n \in 1..(M + 1) |-> v[n]]
  BY <1>3
<2> HIDE DEF v
<2> QED
  BY <2>1, <2>3, <2>5, <2>6
<1>7. Trades!Units(ts, b, m) = Trades!Sums(w)[Len(w)]
  BY <1>1, <1>5 DEF Trades!Units
<1>8. Trades!Units(new, b, m) = Trades!Sums(v)[Len(new)]
  BY DEF Trades!Units
<1>9. Len(v) = M + 1
<2>1. Len(Append(w, x)) = M + 1
  BY <1>5, AppendProperties
<2> QED
  BY <1>6, <2>1
<1> HIDE DEF w, v
<1>10. /\ Trades!Sums(w)[Len(w)] \in Nat
       /\ Trades!Sums(Append(w, x))[Len(Append(w, x))] = Trades!Sums(w)[Len(w)] + x
  BY <1>5, SumsAppend
<1>11. Trades!Sums(v)[Len(new)] = Trades!Sums(w)[Len(w)] + x
  BY <1>3, <1>6, <1>9, <1>10
<1> QED
  BY <1>2, <1>4, <1>7, <1>8, <1>10, <1>11

\* After j of the positions open before the sell at k: either more is to be sold
\* than they hold, or it is all sold and what is left of them is still open.
SoldSoFar(acc, ss, N, B, C, k, j, open) ==
  LET from == C[k - 1]
      due  == C[k - 1] + ss[k].qty
      upto == IF j = 0 THEN from ELSE B[open[j].buy]
  IN  /\ acc \in Books(ss, N)
      /\ upto \in Nat /\ from <= upto
      /\ acc.left <= ss[k].qty
      /\ acc.left # 0 => acc.open = <<>> /\ due - acc.left = upto
      /\ acc.left = 0 => Queue(acc.open, N, B, due, upto)
      /\ Paired(acc.trips, ss, N, B, C, k, due - acc.left)

\* c units of the buy at b are closed by the sell at k, at f and within what the
\* buy bought: they fall to this pair and to no other.
LEMMA PairedGrows ==
  ASSUME NEW ss, NEW N, Dealt(ss, N), NEW B, NEW C, Tallies(ss, N, B, C), NEW k \in 1..N,
         NEW f \in Nat, NEW c \in Nat, NEW b \in 1..N, C[k - 1] <= f,
         B[b - 1] <= f, f + c <= B[b],
         NEW ts, Paired(ts, ss, N, B, C, k, f)
  PROVE  Paired(Append(ts, Trades!Trip(ss, b, k, c)), ss, N, B, C, k, f + c)
<1>1. N \in Nat /\ \A n \in 0..N : B[n] \in Nat /\ C[n] \in Nat
  BY DEF Tallies, Dealt
<1>2. PICK trip \in TripsOf(ss, N) :
        trip = Trades!Trip(ss, b, k, c) /\ trip.buy = b /\ trip.sell = k /\ trip.qty = c
  BY TripHas DEF TripsOf
<1>3. ts \in Seq(TripsOf(ss, N)) /\ Append(ts, trip) \in Seq(TripsOf(ss, N))
  BY AppendProperties DEF Paired
<1>4. ASSUME NEW a \in 1..N, NEW m \in 1..N
      PROVE  Trades!Units(Append(ts, trip), a, m) =
               IF m < k THEN Trades!Overlap(B[a - 1], B[a], C[m - 1], C[m])
               ELSE IF m = k THEN Trades!Overlap(B[a - 1], B[a], C[k - 1], f + c)
               ELSE 0
<2>1. /\ Trades!Units(ts, a, m) \in Nat
      /\ Trades!Units(Append(ts, trip), a, m) =
           Trades!Units(ts, a, m) + (IF a = b /\ m = k THEN c ELSE 0)
  BY <1>2, <1>3, UnitsAppend
<2>2. Trades!Units(ts, a, m) =
        IF m < k THEN Trades!Overlap(B[a - 1], B[a], C[m - 1], C[m])
        ELSE IF m = k THEN Trades!Overlap(B[a - 1], B[a], C[k - 1], f)
        ELSE 0
  BY DEF Paired
<2>3. CASE m # k
<3>1. Trades!Units(Append(ts, trip), a, m) = Trades!Units(ts, a, m)
  BY <2>1, <2>3
<3> QED
  BY <2>2, <2>3, <3>1
<2>4. CASE m = k
<3>1. ~(m < k)
  BY <2>4
<3>2. PICK lo \in Nat, hi \in Nat, s \in Nat :
        lo = B[a - 1] /\ hi = B[a] /\ s = C[k - 1] /\ lo <= hi /\ s <= f
<4>1. a - 1 \in 0..N /\ a \in 0..N /\ k - 1 \in 0..N /\ a - 1 <= a
  BY <1>1
<4>2. B[a - 1] <= B[a]
  BY <4>1 DEF Tallies
<4> QED
  BY <1>1, <4>1, <4>2
<3>3. Extends(lo, hi, s, f, c)
  BY <3>2, OverlapGrows
<3>4. CASE a = b
<4>1. Trades!Overlap(lo, hi, s, f + c) = Trades!Overlap(lo, hi, s, f) + c
  BY <3>2, <3>3, <3>4 DEF Extends
<4>2. Trades!Units(Append(ts, trip), a, m) = Trades!Units(ts, a, m) + c
  BY <2>1, <2>4, <3>4
<4> QED
  BY <2>2, <2>4, <3>1, <3>2, <4>1, <4>2
<3>5. CASE a # b
<4>1. hi <= f \/ f + c <= lo
<5>1. a - 1 \in 0..N /\ a \in 0..N /\ b - 1 \in 0..N /\ b \in 0..N
  BY <1>1
<5>2. CASE a < b
<6>1. a <= b - 1
  BY <5>2
<6>2. B[a] <= B[b - 1] /\ B[b - 1] \in Nat
  BY <1>1, <5>1, <6>1 DEF Tallies
<6> QED
  BY <3>2, <6>2
<5>3. CASE a > b
<6>1. b <= a - 1
  BY <5>3
<6>2. B[b] <= B[a - 1] /\ B[b] \in Nat
  BY <1>1, <5>1, <6>1 DEF Tallies
<6> QED
  BY <3>2, <6>2
<5> QED
  BY <3>5, <5>2, <5>3
<4>2. Trades!Overlap(lo, hi, s, f + c) = Trades!Overlap(lo, hi, s, f)
  BY <3>3, <4>1 DEF Extends
<4>3. Trades!Units(Append(ts, trip), a, m) = Trades!Units(ts, a, m)
  BY <2>1, <3>5
<4> QED
  BY <2>2, <2>4, <3>1, <3>2, <4>2, <4>3
<3> QED
  BY <3>4, <3>5
<2> QED
  BY <2>3, <2>4
<1> QED
  BY <1>2, <1>3, <1>4 DEF Paired

\* CloseOne takes SoldSoFar from one position to the next.
LEMMA SoldGoesOn ==
  ASSUME NEW ss, NEW N, Dealt(ss, N), NEW B, NEW C, Tallies(ss, N, B, C), NEW k \in 1..N,
         NEW open, Queue(open, N, B, C[k - 1], B[k]), NEW j \in 1..Len(open),
         NEW acc, SoldSoFar(acc, ss, N, B, C, k, j - 1, open)
  PROVE  SoldSoFar(Trades!CloseOne(ss, k, acc, open[j]), ss, N, B, C, k, j, open)
<1>1. PICK M \in Nat : M = Len(open)
  BY DEF Queue
<1>2. /\ N \in Nat /\ B \in [0..N -> Nat] /\ ss[k].qty \in Nat
      /\ \A n \in 0..N : B[n] \in Nat /\ C[n] \in Nat
  BY DEF Tallies, Dealt
<1>3. PICK q \in Nat, from \in Nat, due \in Nat :
        q = ss[k].qty /\ from = C[k - 1] /\ due = from + q
<2>1. k - 1 \in 0..N
  BY <1>2
<2> QED
  BY <1>2, <2>1
<1>4. PICK upto \in Nat :
        /\ upto = (IF j - 1 = 0 THEN from ELSE B[open[j - 1].buy]) /\ from <= upto
        /\ acc \in Books(ss, N) /\ acc.left <= q
        /\ acc.left # 0 => acc.open = <<>> /\ due - acc.left = upto
        /\ acc.left = 0 => Queue(acc.open, N, B, due, upto)
        /\ Paired(acc.trips, ss, N, B, C, k, due - acc.left)
  BY <1>3 DEF SoldSoFar
<1>5. PICK pos \in Pos(N) : pos = open[j]
<2>1. open \in Seq(Pos(N))
  BY DEF Queue
<2>2. j \in 1..M
  BY <1>1
<2>3. open[j] \in Pos(N)
  BY <1>1, <2>1, <2>2, ElementOfSeq
<2> QED
  BY <2>3
<1>6. pos.qty \in Nat /\ pos.buy \in 1..N /\ pos.buy \in 0..N /\ pos.buy - 1 \in 0..N
<2>1. pos.qty \in Nat /\ pos.buy \in 1..N
  BY PosHas
<2>2. N \in Nat
  BY <1>2
<2>3. \A i \in 1..N : i \in 0..N /\ i - 1 \in 0..N
  BY <2>2
<2> QED
  BY <2>1, <2>3
<1>7. B[pos.buy] = upto + pos.qty /\ B[pos.buy - 1] <= upto
<2>1. B[pos.buy] = upto + pos.qty
<3>1. CASE j = 1
  BY <1>1, <1>3, <1>4, <1>5, <3>1 DEF Queue
<3>2. CASE j # 1
<4>1. j - 1 \in 1..(Len(open) - 1) /\ (j - 1) + 1 = j /\ j - 1 # 0
  BY <1>1, <3>2
<4>2. B[open[j].buy] = B[open[j - 1].buy] + open[j].qty
  BY <4>1 DEF Queue
<4> QED
  BY <1>4, <1>5, <4>1, <4>2
<3> QED
  BY <3>1, <3>2
<2>2. B[pos.buy - 1] <= B[pos.buy] - pos.qty
  BY <1>5 DEF Queue
<2> QED
  BY <1>2, <1>6, <2>1, <2>2
<1>8. PICK left \in Nat : left = acc.left /\ left <= q
  BY <1>4 DEF Books
<1>9. PICK new \in Books(ss, N), c \in Nat :
        new = Trades!CloseOne(ss, k, acc, pos) /\ ClosesOne(new, acc, pos, ss, k, c)
  BY <1>2, <1>4, <1>5, CloseOneIs
<1>14. PICK size \in Nat : size = pos.qty
  BY <1>6
<1>10. B[open[j].buy] = upto + pos.qty /\ j # 0
  BY <1>5, <1>7
<1>11. ASSUME /\ new.left <= q
              /\ new.left # 0 => new.open = <<>> /\ due - new.left = upto + pos.qty
              /\ new.left = 0 => Queue(new.open, N, B, due, upto + pos.qty)
              /\ Paired(new.trips, ss, N, B, C, k, due - new.left)
       PROVE  SoldSoFar(new, ss, N, B, C, k, j, open)
<2>1. PICK end2 \in Nat : end2 = upto + pos.qty /\ from <= end2
<3>1. from <= upto
  BY <1>4
<3>2. upto + size \in Nat /\ from <= upto + size
  BY <3>1
<3> QED
  BY <1>14, <3>2
<2>2. (IF j = 0 THEN C[k - 1] ELSE B[open[j].buy]) = end2
  BY <1>10, <2>1
<2>3. /\ C[k - 1] = from /\ C[k - 1] + ss[k].qty = due /\ new.left <= ss[k].qty
      /\ C[k - 1] <= end2
  BY <1>3, <1>11, <2>1
<2>4. /\ new.left # 0 => new.open = <<>> /\ due - new.left = end2
      /\ new.left = 0 => Queue(new.open, N, B, due, end2)
      /\ Paired(new.trips, ss, N, B, C, k, due - new.left)
  BY <1>11, <2>1
<2> QED
  BY <2>2, <2>3, <2>4 DEF SoldSoFar
<1>12. CASE left = 0
<2>1. new.left = 0 /\ new.open = Append(acc.open, pos) /\ new.trips = acc.trips
  BY <1>8, <1>9, <1>12 DEF ClosesOne
<2>2. Queue(new.open, N, B, due, upto + pos.qty)
  BY <1>2, <1>4, <1>7, <1>8, <1>12, <2>1, QueueGrows
<2>3. Paired(new.trips, ss, N, B, C, k, due - new.left)
  BY <1>4, <1>8, <1>12, <2>1
<2>4. SoldSoFar(new, ss, N, B, C, k, j, open)
  BY <1>11, <2>1, <2>2, <2>3
<2> QED
  BY <1>5, <1>9, <2>4
<1>13. CASE left # 0
<2>1. /\ c = (IF left <= size THEN left ELSE size)
      /\ new.left = left - c
      /\ new.open = (IF size - c > 0 THEN Append(acc.open, [buy |-> pos.buy, qty |-> size - c])
                     ELSE acc.open)
      /\ new.trips = Append(acc.trips, Trades!Trip(ss, pos.buy, k, c))
  BY <1>8, <1>9, <1>13, <1>14 DEF ClosesOne
<2>0. acc.open = <<>>
  BY <1>4, <1>8, <1>13
<2>2. due = upto + left
<3>1. due - left = upto
  BY <1>4, <1>8, <1>13
<3> QED
  BY <3>1
<2>10. /\ c <= size /\ c <= left /\ new.left = left - c /\ (new.left # 0 => c = size)
       /\ due - new.left = upto + c
<3>1. c = (IF left <= size THEN left ELSE size) /\ new.left = left - c
  BY <2>1
<3> QED
  BY <2>2, <3>1
<2>3. Paired(new.trips, ss, N, B, C, k, upto + c)
<3>1. B[pos.buy - 1] <= upto /\ upto + c <= B[pos.buy] /\ C[k - 1] <= upto
<4>1. B[pos.buy] = upto + size /\ B[pos.buy - 1] <= upto
  BY <1>7, <1>14
<4>2. upto + c <= upto + size
  BY <2>10
<4> QED
  BY <1>3, <1>4, <4>1, <4>2
<3>2. Paired(acc.trips, ss, N, B, C, k, upto)
<4>1. due - acc.left = upto
  BY <1>4, <1>8, <1>13
<4> QED
  BY <1>4, <4>1
<3>3. Paired(Append(acc.trips, Trades!Trip(ss, pos.buy, k, c)), ss, N, B, C, k, upto + c)
  BY <1>6, <3>1, <3>2, PairedGrows
<3> QED
  BY <2>1, <3>3
<2>4. due - new.left = upto + c
  BY <2>10
<2>5. new.left <= q
  BY <1>8, <2>10
<2>6. ASSUME new.left # 0 PROVE new.open = <<>> /\ due - new.left = upto + size
<3>1. c = size /\ ~(size - c > 0)
  BY <2>6, <2>10
<3> QED
  BY <2>0, <2>1, <2>10, <3>1
<2>7. ASSUME new.left = 0 PROVE Queue(new.open, N, B, due, upto + size)
<3>1. c = left /\ due = upto + c /\ c <= size
  BY <2>2, <2>7, <2>10
<3>2. CASE size - c > 0
<4>1. PICK rest \in Pos(N) : rest = [buy |-> pos.buy, qty |-> size - c]
<5>1. size - c \in Nat
  BY <1>14, <3>1
<5> QED
  BY <1>6, <1>14, <5>1 DEF Pos
<4>2. rest.buy = pos.buy /\ rest.qty = size - c /\ new.open = Append(<<>>, rest)
  BY <2>0, <2>1, <3>2, <4>1
<4>3. Queue(<<>>, N, B, due, due)
  BY <1>3 DEF Queue
<4>4. B[rest.buy] = due + rest.qty /\ B[rest.buy - 1] <= due
<5>1. B[pos.buy] = upto + size /\ B[pos.buy - 1] <= upto /\ B[pos.buy - 1] \in Nat
  BY <1>2, <1>6, <1>7, <1>14
<5>2. due + rest.qty = upto + size /\ upto <= due
  BY <3>1, <4>2
<5> QED
  BY <4>2, <5>1, <5>2
<4>5. Queue(new.open, N, B, due, due + rest.qty)
  BY <1>2, <4>2, <4>3, <4>4, QueueGrows
<4>6. due + rest.qty = upto + size
  BY <1>14, <3>1, <4>2
<4> QED
  BY <4>5, <4>6
<3>3. CASE ~(size - c > 0)
<4>1. new.open = <<>> /\ due = upto + size
  BY <2>0, <2>1, <3>1, <3>3
<4>2. Queue(<<>>, N, B, due, due)
  BY <1>3 DEF Queue
<4> QED
  BY <4>1, <4>2
<3> QED
  BY <3>2, <3>3
<2>8. Paired(new.trips, ss, N, B, C, k, due - new.left)
  BY <2>3, <2>4
<2>9. SoldSoFar(new, ss, N, B, C, k, j, open)
  BY <1>11, <1>14, <2>5, <2>6, <2>7, <2>8
<2> QED
  BY <1>5, <1>9, <2>9
<1> QED
  BY <1>8, <1>12, <1>13

\* The sells before k are paired as they ought to be, and so is the one at k: it
\* is the turn of the next.
LEMMA NextTurn ==
  ASSUME NEW ss, NEW N, Dealt(ss, N), NEW B, NEW C, Tallies(ss, N, B, C), NEW k \in 0..N,
         NEW ts, k > 0 => Paired(ts, ss, N, B, C, k, C[k]), k = 0 => ts = <<>>
  PROVE  Paired(ts, ss, N, B, C, k + 1, C[k])
<1>1. N \in Nat /\ \A n \in 0..N : B[n] \in Nat /\ C[n] \in Nat
  BY DEF Tallies, Dealt
<1>2. ts \in Seq(TripsOf(ss, N))
<2>1. k = 0 \/ k > 0
  BY <1>1
<2>2. <<>> \in Seq(TripsOf(ss, N))
  OBVIOUS
<2> QED
  BY <2>1, <2>2 DEF Paired
<1>3. ASSUME NEW b \in 1..N, NEW m \in 1..N
      PROVE  Trades!Units(ts, b, m) =
               IF m < k + 1 THEN Trades!Overlap(B[b - 1], B[b], C[m - 1], C[m])
               ELSE IF m = k + 1 THEN Trades!Overlap(B[b - 1], B[b], C[(k + 1) - 1], C[k])
               ELSE 0
<2>1. Trades!Overlap(B[b - 1], B[b], C[k], C[k]) = 0
<3>1. b - 1 \in 0..N /\ b \in 0..N /\ b - 1 <= b
  BY <1>1
<3>2. PICK lo \in Nat, hi \in Nat, s \in Nat :
        lo = B[b - 1] /\ hi = B[b] /\ s = C[k] /\ lo <= hi
  BY <1>1, <3>1 DEF Tallies
<3> QED
  BY <3>2, NoOverlap
<2>2. (k + 1) - 1 = k /\ k \in Nat
  BY <1>1
<2>3. CASE k = 0
<3>1. Trades!Units(ts, b, m) = 0
<4> DEFINE w == [n \in DOMAIN ts |->
                   IF ts[n].buy = b /\ ts[n].sell = m THEN ts[n].qty ELSE 0]
<4>1. ts = <<>> /\ Len(ts) = 0 /\ DOMAIN ts = {}
  BY <2>3
<4>2. w \in Seq(Nat) /\ Len(w) = 0
  BY <4>1
<4>3. Adds(Trades!Sums(w), w, 0)
  BY <4>2, SumsAdd
<4>4. Trades!Units(ts, b, m) = Trades!Sums(w)[0]
  BY <4>1 DEF Trades!Units
<4> HIDE DEF w
<4> QED
  BY <4>3, <4>4 DEF Adds
<3>2. ~(m < k + 1)
  BY <2>3
<3> QED
  BY <2>1, <2>2, <3>1, <3>2
<2>4. CASE k # 0
<3>1. Trades!Units(ts, b, m) =
        IF m < k THEN Trades!Overlap(B[b - 1], B[b], C[m - 1], C[m])
        ELSE IF m = k THEN Trades!Overlap(B[b - 1], B[b], C[k - 1], C[k])
        ELSE 0
  BY <1>1, <2>4 DEF Paired
<3>2. CASE m < k
  BY <1>1, <3>1, <3>2
<3>3. CASE m = k
  BY <1>1, <3>1, <3>3
<3>4. CASE m > k
<4>1. Trades!Units(ts, b, m) = 0 /\ ~(m < k + 1)
  BY <1>1, <3>1, <3>4
<4> QED
  BY <2>1, <2>2, <4>1
<3> QED
  BY <1>1, <3>2, <3>3, <3>4
<2> QED
  BY <2>3, <2>4
<1> QED
  BY <1>2, <1>3 DEF Paired

\* The books after k swaps.
Booked(acc, ss, N, B, C, k) ==
  /\ acc \in Books(ss, N)
  /\ Queue(acc.open, N, B, C[k], B[k])
  /\ Paired(acc.trips, ss, N, B, C, k + 1, C[k])

\* A buy and a sell keep the books in order.
LEMMA BuyBooked ==
  ASSUME NEW ss, NEW N, Dealt(ss, N), NEW B, NEW C, Tallies(ss, N, B, C), NEW k \in 1..N,
         ss[k].side = "buy", NEW acc, Booked(acc, ss, N, B, C, k - 1)
  PROVE  Booked(Trades!Buy(ss, k, acc), ss, N, B, C, k)
<1>1. /\ N \in Nat /\ B \in [0..N -> Nat] /\ ss[k].qty \in Nat
      /\ k \in 0..N /\ k - 1 \in 0..N /\ (k - 1) + 1 = k /\ k > 0 /\ k # 0
      /\ B[k] = B[k - 1] + ss[k].qty /\ C[k] = C[k - 1] /\ B[k - 1] \in Nat
  BY DEF Tallies, Dealt
<1>2. PICK pos \in Pos(N) : pos = [buy |-> k, qty |-> ss[k].qty]
  BY <1>1 DEF Pos
<1>3. acc.open \in Seq(Pos(N)) /\ acc \in Books(ss, N)
  BY DEF Booked, Books
<1>4. PICK op \in Seq(Pos(N)) : op = Append(acc.open, pos)
  BY <1>3, AppendProperties
<1>5. PICK new : new = Trades!Buy(ss, k, acc) /\ new = [acc EXCEPT !.open = op]
  BY <1>2, <1>4 DEF Trades!Buy
<1>6. new \in Books(ss, N) /\ new.open = op /\ new.trips = acc.trips
  BY <1>3, <1>4, <1>5 DEF Books
<1>7. Queue(op, N, B, C[k], B[k])
<2>1. Queue(acc.open, N, B, C[k - 1], B[k - 1])
  BY DEF Booked
<2>2. pos.buy = k /\ pos.qty = ss[k].qty
  BY <1>2
<2>3. B[pos.buy] = B[k - 1] + pos.qty /\ B[pos.buy - 1] <= B[k - 1]
  BY <1>1, <2>2
<2>4. Queue(op, N, B, C[k - 1], B[k - 1] + pos.qty)
  BY <1>1, <1>4, <2>1, <2>3, QueueGrows
<2> QED
  BY <1>1, <2>2, <2>4
<1>8. Paired(new.trips, ss, N, B, C, k + 1, C[k])
<2>1. Paired(new.trips, ss, N, B, C, k, C[k])
  BY <1>1, <1>6 DEF Booked
<2>2. Paired(new.trips, ss, N, B, C, k + 1, C[k])
  BY <1>1, <2>1, NextTurn
<2> QED
  BY <2>2
<1>9. new.open = op
  BY <1>6
<1>10. Queue(new.open, N, B, C[k], B[k])
  BY <1>7, <1>9
<1>11. Booked(new, ss, N, B, C, k)
  BY <1>6, <1>8, <1>10 DEF Booked
<1> QED
  BY <1>5, <1>11

LEMMA SellBooked ==
  ASSUME NEW ss, NEW N, Dealt(ss, N), NEW B, NEW C, Tallies(ss, N, B, C), NEW k \in 1..N,
         ss[k].side # "buy", NEW acc, Booked(acc, ss, N, B, C, k - 1)
  PROVE  Booked(Trades!Sell(ss, k, acc), ss, N, B, C, k)
<1>1. /\ N \in Nat /\ ss[k].qty \in Nat
      /\ k \in 0..N /\ k - 1 \in 0..N /\ (k - 1) + 1 = k /\ k > 0 /\ k # 0
  BY DEF Tallies, Dealt
<1>2. PICK q \in Nat, from \in Nat, to \in Nat, due \in Nat :
        /\ q = ss[k].qty /\ from = C[k - 1] /\ to = B[k] /\ due = from + q
        /\ B[k - 1] = to /\ C[k] = IF to <= due THEN to ELSE due
<2>3. B \in [0..N -> Nat] /\ C \in [0..N -> Nat]
  BY DEF Tallies
<2>4. B[k] \in Nat /\ C[k - 1] \in Nat
<3>1. k \in 0..N /\ k - 1 \in 0..N
  BY <1>1
<3>2. B[k] \in Nat
  BY <2>3, <3>1
<3>3. C[k - 1] \in Nat
  BY <2>3, <3>1
<3> QED
  BY <3>2, <3>3
<2>1. B[k] \in Nat /\ C[k - 1] \in Nat /\ C[k - 1] + ss[k].qty \in Nat
<3>1. \A c, q \in Nat : c + q \in Nat
  OBVIOUS
<3> QED
  BY <1>1, <2>4, <3>1
<2>2. B[k] = B[k - 1] /\ C[k] = IF B[k] <= C[k - 1] + ss[k].qty THEN B[k]
                              ELSE C[k - 1] + ss[k].qty
  BY <1>1 DEF Tallies
<2> QED
  BY <1>1, <2>1, <2>2
<1>3. acc \in Books(ss, N) /\ acc.open \in Seq(Pos(N)) /\ acc.trips \in Seq(TripsOf(ss, N))
  BY DEF Booked, Books
<1>4. PICK open \in Seq(Pos(N)), M \in Nat : open = acc.open /\ M = Len(open)
  BY <1>3
<1>5. Queue(open, N, B, from, to)
  BY <1>1, <1>2, <1>4 DEF Booked
<1>6. PICK g : Sells(g, ss, N, k, acc) /\ Trades!Sell(ss, k, acc) = g[M]
  BY <1>3, <1>4, SellRuns
<1>7. /\ g \in [0..M -> Books(ss, N)]
      /\ g[0] = [left |-> q, open |-> <<>>, trips |-> acc.trips]
      /\ \A j \in 1..M : g[j] = Trades!CloseOne(ss, k, g[j - 1], open[j])
  BY <1>2, <1>4, <1>6 DEF Sells
<1> DEFINE G == {j \in 0..M : SoldSoFar(g[j], ss, N, B, C, k, j, open)}
<1>8. 0 \in G
<2>1. PICK new \in Books(ss, N) :
        new = g[0] /\ new.left = q /\ new.open = <<>> /\ new.trips = acc.trips
  BY <1>7
<2>2. Paired(new.trips, ss, N, B, C, k, due - new.left)
<3>1. due - new.left = from
  BY <1>2, <2>1
<3>2. Paired(acc.trips, ss, N, B, C, k, from)
  BY <1>1, <1>2 DEF Booked
<3> QED
  BY <2>1, <3>1, <3>2
<2>3. new.left # 0 => new.open = <<>> /\ due - new.left = from
<3>1. due - new.left = from
  BY <1>2, <2>1
<3> QED
  BY <2>1, <3>1
<2>4. ASSUME new.left = 0 PROVE Queue(new.open, N, B, due, from)
<3>1. due = from
  BY <1>2, <2>1, <2>4
<3>2. Queue(<<>>, N, B, from, from)
  BY <1>2 DEF Queue
<3> QED
  BY <2>1, <3>1, <3>2
<2>5. new.left <= q
  BY <2>1
<2>6. SoldSoFar(new, ss, N, B, C, k, 0, open)
  BY <1>2, <2>2, <2>3, <2>4, <2>5 DEF SoldSoFar
<2> QED
  BY <2>1, <2>6
<1>9. ASSUME NEW j \in 1..M, j - 1 \in G PROVE j \in G
<2>1. SoldSoFar(g[j - 1], ss, N, B, C, k, j - 1, open)
  BY <1>9
<2>2. Queue(open, N, B, C[k - 1], B[k]) /\ j \in 1..Len(open)
  BY <1>2, <1>4, <1>5
<2>3. SoldSoFar(Trades!CloseOne(ss, k, g[j - 1], open[j]), ss, N, B, C, k, j, open)
  BY <2>1, <2>2, SoldGoesOn
<2> QED
  BY <1>7, <2>3
<1> HIDE DEF G
<1>10. \A j \in 0..M : j \in G
  BY <1>8, <1>9, Climb
<1>11. PICK new \in Books(ss, N) : new = g[M] /\ SoldSoFar(new, ss, N, B, C, k, M, open)
<2>1. M \in G
  BY <1>10
<2> QED
  BY <1>7, <2>1 DEF G
<1>12. (IF M = 0 THEN from ELSE B[open[M].buy]) = to
  BY <1>4, <1>5 DEF Queue
<1>13. /\ new.left # 0 => new.open = <<>> /\ due - new.left = to
       /\ new.left = 0 => Queue(new.open, N, B, due, to)
       /\ Paired(new.trips, ss, N, B, C, k, due - new.left)
  BY <1>2, <1>11, <1>12 DEF SoldSoFar
<1>14. PICK left \in Nat : left = new.left
  BY DEF Books
<1>15. Queue(new.open, N, B, C[k], to) /\ C[k] = due - left
<2>1. CASE left = 0
<3>1. Queue(new.open, N, B, due, to)
  BY <1>13, <1>14, <2>1
<3>2. due <= to
  BY <3>1 DEF Queue
<3>3. C[k] = due /\ due = due - left
  BY <1>2, <2>1, <3>2
<3> QED
  BY <3>1, <3>3
<2>2. CASE left # 0
<3>1. new.open = <<>> /\ due - left = to
  BY <1>13, <1>14, <2>2
<3>2. to <= due
  BY <3>1
<3>3. C[k] = to
  BY <1>2, <3>2
<3>4. Queue(<<>>, N, B, to, to)
  BY <1>2 DEF Queue
<3> QED
  BY <3>1, <3>3, <3>4
<2> QED
  BY <2>1, <2>2
<1>16. Paired(new.trips, ss, N, B, C, k, C[k])
  BY <1>13, <1>14, <1>15
<1>17. Paired(new.trips, ss, N, B, C, k + 1, C[k])
  BY <1>1, <1>16, NextTurn
<1>18. Booked(new, ss, N, B, C, k)
  BY <1>2, <1>15, <1>17 DEF Booked
<1> QED
  BY <1>6, <1>11, <1>18

\* They are functions on the books.
LEMMA BooksKept ==
  ASSUME NEW ss, NEW N, Dealt(ss, N), NEW k \in 1..N, NEW acc \in Books(ss, N)
  PROVE  Trades!Buy(ss, k, acc) \in Books(ss, N) /\ Trades!Sell(ss, k, acc) \in Books(ss, N)
<1>1. N \in Nat /\ ss[k].qty \in Nat /\ acc.open \in Seq(Pos(N))
  BY DEF Dealt, Books
<1>2. PICK op \in Seq(Pos(N)) : op = Append(acc.open, [buy |-> k, qty |-> ss[k].qty])
<2>1. PICK pos \in Pos(N) : pos = [buy |-> k, qty |-> ss[k].qty]
  BY <1>1 DEF Pos
<2> QED
  BY <1>1, <2>1, AppendProperties
<1>3. Trades!Buy(ss, k, acc) = [acc EXCEPT !.open = op]
  BY <1>2 DEF Trades!Buy
<1>4. Trades!Buy(ss, k, acc) \in Books(ss, N)
  BY <1>3 DEF Books
<1>5. PICK g : Sells(g, ss, N, k, acc) /\ Trades!Sell(ss, k, acc) = g[Len(acc.open)]
  BY SellRuns
<1>6. Len(acc.open) \in 0..Len(acc.open)
  BY <1>1
<1>7. Trades!Sell(ss, k, acc) \in Books(ss, N)
  BY <1>5, <1>6 DEF Sells
<1> QED
  BY <1>4, <1>7

\* The swaps in their order.
Trading(h, ss, N) ==
  /\ h \in [0..N -> Books(ss, N)] /\ h[0] = [left |-> 0, open |-> <<>>, trips |-> <<>>]
  /\ \A k \in 1..N : h[k] = IF ss[k].side = "buy" THEN Trades!Buy(ss, k, h[k - 1])
                            ELSE Trades!Sell(ss, k, h[k - 1])

\* RoundTrips goes through the swaps one by one.
LEMMA RoundTripsRun ==
  ASSUME NEW ss, NEW N, Dealt(ss, N)
  PROVE  \E h : Trading(h, ss, N) /\ Trades!RoundTrips(ss) = h[N].trips
<1> DEFINE a == [left |-> 0, open |-> <<>>, trips |-> <<>>]
           st == [x \in Books(ss, N) \X (1..N) |->
                    IF ss[x[2]].side = "buy" THEN Trades!Buy(ss, x[2], x[1])
                    ELSE Trades!Sell(ss, x[2], x[1])]
<1>1. N \in Nat /\ Len(ss) = N
  BY DEF Dealt
<1>2. a \in Books(ss, N)
  BY DEF Books
<1>3. \A b \in Books(ss, N), k \in 1..N :
        /\ Trades!Buy(ss, k, b) \in Books(ss, N) /\ Trades!Sell(ss, k, b) \in Books(ss, N)
        /\ st[<<b, k>>] = IF ss[k].side = "buy" THEN Trades!Buy(ss, k, b)
                          ELSE Trades!Sell(ss, k, b)
  BY BooksKept
<1>4. st \in [Books(ss, N) \X (1..N) -> Books(ss, N)]
  BY <1>3
<1> HIDE DEF st, a
<1>5. PICK f : Runs(f, st, Books(ss, N), a, N)
  BY <1>1, <1>2, <1>4, Iterates DEF Stepping
<1>6. ASSUME NEW k \in 1..N
      PROVE  f[k] = IF ss[k].side = "buy" THEN Trades!Buy(ss, k, f[k - 1])
                    ELSE Trades!Sell(ss, k, f[k - 1])
<2>1. f[k - 1] \in Books(ss, N) /\ f[k] = st[<<f[k - 1], k>>]
  BY <1>1, <1>5 DEF Runs
<2> QED
  BY <1>3, <2>1
<1>7. f = [k \in 0..Len(ss) |->
             IF k = 0 THEN [left |-> 0, open |-> <<>>, trips |-> <<>>]
             ELSE IF ss[k].side = "buy" THEN Trades!Buy(ss, k, f[k - 1])
             ELSE Trades!Sell(ss, k, f[k - 1])]
<2>1. f \in [0..N -> Books(ss, N)] /\ f[0] = a
  BY <1>5 DEF Runs
<2>2. \A k \in 0..N : k # 0 => k \in 1..N
  BY <1>1
<2> QED
  BY <1>1, <1>6, <2>1, <2>2 DEF a
<1> DEFINE h == CHOOSE after : after =
             [k \in 0..Len(ss) |->
                IF k = 0 THEN [left |-> 0, open |-> <<>>, trips |-> <<>>]
                ELSE IF ss[k].side = "buy" THEN Trades!Buy(ss, k, after[k - 1])
                ELSE Trades!Sell(ss, k, after[k - 1])]
<1>8. h = [k \in 0..Len(ss) |->
             IF k = 0 THEN [left |-> 0, open |-> <<>>, trips |-> <<>>]
             ELSE IF ss[k].side = "buy" THEN Trades!Buy(ss, k, h[k - 1])
             ELSE Trades!Sell(ss, k, h[k - 1])]
  BY <1>7
<1>9. Trades!RoundTrips(ss) = h[Len(ss)].trips
  BY DEF Trades!RoundTrips
<1> HIDE DEF h
<1>10. h[0] = a /\ \A k \in 1..N : h[k] = IF ss[k].side = "buy" THEN Trades!Buy(ss, k, h[k - 1])
                                          ELSE Trades!Sell(ss, k, h[k - 1])
<2>1. 0 \in 0..N /\ \A k \in 1..N : k \in 0..N /\ k # 0
  BY <1>1
<2> QED
  BY <1>1, <1>8, <2>1 DEF a
<1> DEFINE G == {k \in 0..N : h[k] \in Books(ss, N)}
<1>11. 0 \in G
  BY <1>1, <1>2, <1>10
<1>12. ASSUME NEW k \in 1..N, k - 1 \in G PROVE k \in G
<2>1. h[k - 1] \in Books(ss, N) /\ k \in 0..N
  BY <1>1, <1>12
<2>2. h[k] \in Books(ss, N)
  BY <1>3, <1>10, <2>1
<2> QED
  BY <2>1, <2>2
<1> HIDE DEF G
<1>13. \A k \in 0..N : k \in G
  BY <1>1, <1>11, <1>12, Climb
<1>14. h \in [0..N -> Books(ss, N)]
  BY <1>1, <1>8, <1>13 DEF G
<1>15. Trading(h, ss, N)
  BY <1>10, <1>14 DEF Trading, a
<1> QED
  BY <1>1, <1>9, <1>15

\* First in, first out, for every sequence of swaps.
LEMMA FirstInFirstOut ==
  ASSUME NEW ss, NEW N, Dealt(ss, N)
  PROVE  Trades!FifoExact(ss)
<1>1. PICK B, C : B = Trades!Bought(ss) /\ C = Trades!Closed(ss) /\ Tallies(ss, N, B, C)
  BY TalliesHold
<1>2. PICK h : Trading(h, ss, N) /\ Trades!RoundTrips(ss) = h[N].trips
  BY RoundTripsRun
<1>3. N \in Nat /\ B[0] = 0 /\ C[0] = 0 /\ DOMAIN ss = 1..N /\ C[N] \in Nat
  BY <1>1 DEF Dealt, Tallies
<1> DEFINE G == {k \in 0..N : Booked(h[k], ss, N, B, C, k)}
<1>4. 0 \in G
<2>1. PICK acc \in Books(ss, N) : acc = h[0] /\ acc.open = <<>> /\ acc.trips = <<>>
  BY <1>2, <1>3 DEF Trading
<2>2. Queue(<<>>, N, B, 0, 0)
  BY DEF Queue
<2>3. Paired(<<>>, ss, N, B, C, 0 + 1, C[0])
  BY <1>1, <1>3, NextTurn
<2>4. Booked(acc, ss, N, B, C, 0)
  BY <1>3, <2>1, <2>2, <2>3 DEF Booked
<2> QED
  BY <1>3, <2>1, <2>4
<1>5. ASSUME NEW k \in 1..N, k - 1 \in G PROVE k \in G
<2>1. Booked(h[k - 1], ss, N, B, C, k - 1)
  BY <1>5
<2>2. CASE ss[k].side = "buy"
<3>1. Booked(Trades!Buy(ss, k, h[k - 1]), ss, N, B, C, k)
  BY <1>1, <2>1, <2>2, BuyBooked
<3> QED
  BY <1>2, <2>2, <3>1 DEF Trading
<2>3. CASE ss[k].side # "buy"
<3>1. Booked(Trades!Sell(ss, k, h[k - 1]), ss, N, B, C, k)
  BY <1>1, <2>1, <2>3, SellBooked
<3> QED
  BY <1>2, <2>3, <3>1 DEF Trading
<2> QED
  BY <2>2, <2>3
<1> HIDE DEF G
<1>6. \A k \in 0..N : k \in G
  BY <1>3, <1>4, <1>5, Climb
<1>7. Paired(h[N].trips, ss, N, B, C, N + 1, C[N])
<2>1. N \in G
  BY <1>3, <1>6
<2> QED
  BY <2>1 DEF G, Booked
<1>8. ASSUME NEW b \in DOMAIN ss, NEW k \in DOMAIN ss
      PROVE  Trades!Units(h[N].trips, b, k)
               = Trades!Overlap(B[b - 1], B[b], C[k - 1], C[k])
<2>1. b \in 1..N /\ k \in 1..N /\ k < N + 1
  BY <1>3
<2> QED
  BY <1>7, <2>1 DEF Paired
<1> QED
  BY <1>1, <1>2, <1>8 DEF Trades!FifoExact

\* The swaps of one token are swaps.
LEMMA SwapsOfOne ==
  ASSUME NEW S, NEW ss \in Seq(S), NEW m
  PROVE  Trades!Of(m, ss) \in Seq(S)
<1>1. PICK N \in Nat : N = Len(ss) /\ \A n \in 1..N : ss[n] \in S
  BY ElementOfSeq
<1> DEFINE a == <<>>
           st == [x \in Seq(S) \X (1..N) |->
                    IF ss[x[2]].mint = m THEN Append(x[1], ss[x[2]]) ELSE x[1]]
<1>2. a \in Seq(S)
  OBVIOUS
<1>3. \A u \in Seq(S), n \in 1..N :
        /\ Append(u, ss[n]) \in Seq(S)
        /\ st[<<u, n>>] = IF ss[n].mint = m THEN Append(u, ss[n]) ELSE u
  BY <1>1, AppendProperties
<1>4. st \in [Seq(S) \X (1..N) -> Seq(S)]
  BY <1>3
<1> HIDE DEF st, a
<1>5. PICK f : Runs(f, st, Seq(S), a, N)
  BY <1>1, <1>2, <1>4, Iterates DEF Stepping
<1>6. ASSUME NEW n \in 1..N
      PROVE  f[n] = IF ss[n].mint = m THEN Append(f[n - 1], ss[n]) ELSE f[n - 1]
<2>1. f[n - 1] \in Seq(S)
<3>1. n - 1 \in 0..N
  BY <1>1
<3>2. f \in [0..N -> Seq(S)]
  BY <1>5 DEF Runs
<3> QED
  BY <3>1, <3>2
<2>2. f[n] = st[<<f[n - 1], n>>]
  BY <1>5 DEF Runs
<2> QED
  BY <1>3, <2>1, <2>2
<1>7. f = [n \in 0..Len(ss) |->
             IF n = 0 THEN <<>>
             ELSE IF ss[n].mint = m THEN Append(f[n - 1], ss[n]) ELSE f[n - 1]]
<2>1. f \in [0..N -> Seq(S)] /\ f[0] = a
  BY <1>5 DEF Runs
<2>2. \A n \in 0..N : n # 0 => n \in 1..N
  BY <1>1
<2> QED
  BY <1>1, <1>6, <2>1, <2>2 DEF a
<1> DEFINE h == CHOOSE of : of =
             [n \in 0..Len(ss) |->
                IF n = 0 THEN <<>>
                ELSE IF ss[n].mint = m THEN Append(of[n - 1], ss[n]) ELSE of[n - 1]]
<1>8. h = [n \in 0..Len(ss) |->
             IF n = 0 THEN <<>>
             ELSE IF ss[n].mint = m THEN Append(h[n - 1], ss[n]) ELSE h[n - 1]]
  BY <1>7
<1>9. Trades!Of(m, ss) = h[Len(ss)]
  BY DEF Trades!Of
<1> HIDE DEF h
<1>10. h[0] = a /\ \A n \in 1..N : h[n] = IF ss[n].mint = m THEN Append(h[n - 1], ss[n])
                                          ELSE h[n - 1]
<2>1. 0 \in 0..N /\ \A n \in 1..N : n \in 0..N /\ n # 0
  BY <1>1
<2> QED
  BY <1>1, <1>8, <2>1 DEF a
<1> DEFINE G == {n \in 0..N : h[n] \in Seq(S)}
<1>11. 0 \in G
  BY <1>1, <1>2, <1>10
<1>12. ASSUME NEW n \in 1..N, n - 1 \in G PROVE n \in G
<2>1. h[n - 1] \in Seq(S) /\ n \in 0..N
  BY <1>1, <1>12
<2>2. h[n] \in Seq(S)
  BY <1>3, <1>10, <2>1
<2> QED
  BY <2>1, <2>2
<1> HIDE DEF G
<1>13. \A n \in 0..N : n \in G
  BY <1>1, <1>11, <1>12, Climb
<1>14. N \in G
  BY <1>1, <1>13
<1> QED
  BY <1>1, <1>9, <1>14 DEF G

\* They have a side and a quantity (TradesAssumption).
LEMMA SwapsAreDealt ==
  ASSUME NEW ss \in Seq(Swap)
  PROVE  Dealt(ss, Len(ss))
<1>1. \A s \in Swap : s.side \in {"buy", "sell"} /\ s.qty \in Nat
  BY TradesAssumption DEF Swap
<1> QED
  BY <1>1, ElementOfSeq DEF Dealt

\* The rows of the wallet in the part of the model that trades.
TradesInv == part = "trades" => clock = 0 /\ swaps \in Seq(Swap)

LEMMA TradesInvStarts == MCInit => TradesInv
  BY DEF MCInit, Labels!Init, TradesInv

\* A row may come anywhere among the others.
LEMMA RowIsPut ==
  ASSUME NEW S, NEW ss \in Seq(S), NEW s \in S, NEW i \in 1..(Len(ss) + 1)
  PROVE  Trades!InsertAt(ss, i, s) \in Seq(S)
<1>1. Trades!InsertAt(ss, i, s) = SubSeq(ss, 1, i - 1) \o <<s>> \o SubSeq(ss, i, Len(ss))
  BY DEF Trades!InsertAt
<1>2. PICK N \in Nat : N = Len(ss)
  OBVIOUS
<1>7. \A n \in 1..N : ss[n] \in S
  BY <1>2, ElementOfSeq
<1>3. PICK u \in Seq(S) : u = SubSeq(ss, 1, i - 1)
<2>1. i - 1 \in 0..N
  BY <1>2
<2>2. \A n \in 1..(i - 1) : ss[n] \in S
  BY <1>7, <2>1
<2>3. SubSeq(ss, 1, i - 1) \in Seq(S)
  BY <2>1, <2>2, SubSeqProperties
<2> QED
  BY <2>3
<1>4. PICK v \in Seq(S) : v = SubSeq(ss, i, Len(ss))
<2>1. \A n \in i..N : ss[n] \in S
  BY <1>7
<2>2. SubSeq(ss, i, N) \in Seq(S)
  BY <1>2, <2>1, SubSeqProperties
<2> QED
  BY <1>2, <2>2
<1>5. u \o <<s>> \in Seq(S)
  BY ConcatProperties
<1>6. (u \o <<s>>) \o v \in Seq(S)
  BY <1>5, ConcatProperties
<1> QED
  BY <1>1, <1>3, <1>4, <1>6

LEMMA TradesInvStep == TradesInv /\ [MCNext]_mcVars => TradesInv'
<1> SUFFICES ASSUME TradesInv, [MCNext]_mcVars, part' = "trades"
             PROVE  clock' = 0 /\ swaps' \in Seq(Swap)
  BY DEF TradesInv
<1>1. CASE TradesStep
<2>1. clock = 0 /\ swaps \in Seq(Swap) /\ clock' = clock
  BY <1>1 DEF TradesStep, MoneyStep, Trades!Trade, TradesInv
<2>2. PICK kind \in TradeKinds, at \in 0..clock, i \in 1..Len(swaps) + 1 :
        swaps' = Trades!InsertAt(swaps, i,
                   [side |-> kind.side, mint |-> kind.mint, qty |-> kind.qty,
                    price |-> kind.price, at |-> at])
  BY <1>1 DEF TradesStep, MoneyStep, Trades!Trade
<2>3. PICK s \in Swap : s = [side |-> kind.side, mint |-> kind.mint, qty |-> kind.qty,
                             price |-> kind.price, at |-> at]
<3>1. at \in Nat
  BY <2>1
<3>2. [side |-> kind.side, mint |-> kind.mint, qty |-> kind.qty,
       price |-> kind.price, at |-> at] \in Swap
  BY <3>1 DEF Swap
<3> QED
  BY <3>2
<2>4. swaps' \in Seq(Swap)
  BY <2>1, <2>2, <2>3, RowIsPut
<2> QED
  BY <2>1, <2>4
<1>2. CASE ~TradesStep
<2>1. part = part' /\ UNCHANGED moneyVars
  BY <1>2 DEF MCNext, mcVars, ScoringStep, ChangepointStep, PoolStep, RingStep, LabelsStep,
              MoneyStep
<2> QED
  BY <2>1 DEF TradesInv, moneyVars
<1> QED
  BY <1>1, <1>2

\* RoundTripsExact: in whatever order the swaps of a wallet came in, a buy and a
\* sell are paired for exactly the units that lie over each other when all that
\* was bought and all that was sold is laid out in order, so a buy closed in parts
\* or a sell over several buys loses and doubles nothing
\* (compute_realized_pnl_round_trips).
THEOREM RoundTripsAreFifo == MCSpec => []RoundTripsExact
<1>1. TradesInv => RoundTripsExact
<2> SUFFICES ASSUME TradesInv, part = "trades", NEW m \in Tokens
             PROVE  Trades!FifoExact(Trades!Of(m, swaps))
  BY DEF RoundTripsExact, Trades!RoundTripsExact
<2>1. swaps \in Seq(Swap)
  BY DEF TradesInv
<2>2. PICK ss \in Seq(Swap) : ss = Trades!Of(m, swaps)
  BY <2>1, SwapsOfOne
<2>3. Dealt(ss, Len(ss))
  BY SwapsAreDealt
<2> QED
  BY <2>2, <2>3, FirstInFirstOut
<1> QED
  BY <1>1, TradesInvStarts, TradesInvStep, PTL DEF MCSpec
=============================================================================
