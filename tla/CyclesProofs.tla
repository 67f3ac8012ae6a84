---------------------------- MODULE CyclesProofs ----------------------------
(***************************************************************************)
(* The search for rings (Cycles), for every graph: Tarjan's stack gives    *)
(* out the strongly connected components, and Johnson's circuit reports    *)
(* closed walks only, none twice, and when the length is no limit the      *)
(* rings of the components, all of them unless the cap is reached.         *)
(***************************************************************************)
EXTENDS Cycles, TLAPS, FiniteSetTheorems, SequenceTheorems

Less == {ss \in Nat \X Nat : ss[1] < ss[2]}

\* A set of natural numbers that is not empty has a least one: what stands in
\* for induction.
LEMMA Least ==
  ASSUME NEW T \in SUBSET Nat, T # {}
  PROVE  \E n \in T : \A m \in T : n <= m
<1>1. IsWellFoundedOn(Less, Nat)
  BY NatLessThanWellFounded DEF OpToRel, Less
<1>2. PICK n \in T : \A m \in T : ~(<<m, n>> \in Less)
  BY <1>1, WFMin
<1>3. \A m \in T : ~(m < n)
  BY <1>2 DEF Less
<1> QED
  BY <1>3

\* And when it is bounded, a greatest.
LEMMA Greatest ==
  ASSUME NEW N \in Nat, NEW T \in SUBSET (0..N), T # {}
  PROVE  \E n \in T : \A m \in T : m <= n
<1> DEFINE U == {k \in 0..N : \A m \in T : m <= k}
<1>1. U \in SUBSET Nat /\ N \in U
  OBVIOUS
<1>2. PICK n \in U : \A m \in U : n <= m
  BY <1>1, Least
<1>3. n \in T
<2> SUFFICES ASSUME n \notin T PROVE FALSE
  OBVIOUS
<2>1. PICK t \in T : TRUE
  OBVIOUS
<2>2. \A m \in T : m <= n /\ m # n /\ m \in Nat
  BY <1>2
<2>3. n - 1 \in 0..N /\ \A m \in T : m <= n - 1
  BY <2>1, <2>2
<2> QED
  BY <1>2, <2>3
<1> QED
  BY <1>2, <1>3

\* A property of the numbers up to N that holds at the beginning and goes on.
LEMMA Climb ==
  ASSUME NEW N \in Nat, NEW G, 0 \in G, \A k \in 1..N : k - 1 \in G => k \in G
  PROVE  \A k \in 0..N : k \in G
<1> DEFINE T == {k \in 0..N : k \notin G}
<1>1. T \in SUBSET Nat
  OBVIOUS
<1>2. ASSUME T # {} PROVE FALSE
<2>1. PICK n \in T : \A m \in T : n <= m
  BY <1>1, <1>2, Least
<2>2. n \in 1..N /\ n \notin G
  OBVIOUS
<2>3. n - 1 \in 0..N /\ n - 1 \notin T
  BY <2>1, <2>2
<2>4. n - 1 \in G
  BY <2>3
<2> QED
  BY <2>2, <2>4
<1> QED
  BY <1>2

\* The least vertex of a set.
LEMMA MinIs ==
  ASSUME NEW S \in SUBSET Nat, S # {}
  PROVE  Min(S) \in S /\ \A x \in S : Min(S) <= x
<1>1. \E x \in S : \A y \in S : x <= y
  BY Least
<1> QED
  BY <1>1 DEF Min

LEMMA MaxIs ==
  ASSUME NEW N \in Nat, NEW S \in SUBSET (0..N), S # {}
  PROVE  Max(S) \in S /\ \A x \in S : x <= Max(S)
<1>1. \E x \in S : \A y \in S : y <= x
  BY Greatest
<1>2. \E x \in S : \A y \in S : x >= y
  BY <1>1
<1> QED
  BY <1>2 DEF Max

(***************************************************************************)
(* Reachability.                                                           *)
(***************************************************************************)
Steps == [Vertex -> SUBSET Vertex]

\* A set that step does not leave.
Closed(S, step) == \A w \in S : step[w] \subseteq S

More(X, step) == X \cup UNION {step[w] : w \in X}

\* f spreads from v, n steps.
Spreads(f, v, step, n) ==
  /\ f \in [0..n -> SUBSET Vertex] /\ f[0] = {v}
  /\ \A k \in 1..n : f[k] = More(f[k - 1], step)

LEMMA SpreadRuns ==
  ASSUME CyclesAssumption, NEW step \in Steps, NEW v \in Vertex
  PROVE  \E f : Spreads(f, v, step, Wallets) /\ Spread(v, step) = f[Wallets]
<1>0. Wallets \in Nat
  BY DEF CyclesAssumption
<1> DEFINE G == {n \in 0..Wallets : \E f : Spreads(f, v, step, n)}
<1>1. 0 \in G
<2>1. Spreads([k \in 0..0 |-> {v}], v, step, 0)
  BY DEF Spreads
<2> QED
  BY <1>0, <2>1
<1>2. ASSUME NEW n \in 1..Wallets, n - 1 \in G PROVE n \in G
<2>1. PICK f : Spreads(f, v, step, n - 1)
  BY <1>2
<2>2. n \in Nat /\ n - 1 \in 0..(n - 1) /\ f[n - 1] \in SUBSET Vertex
  BY <1>0, <2>1 DEF Spreads
<2>3. More(f[n - 1], step) \in SUBSET Vertex
  BY <2>2 DEF Steps, More
<2>4. PICK X \in SUBSET Vertex : X = More(f[n - 1], step)
  BY <2>3
<2> DEFINE g == [m \in 0..n |-> IF m = n THEN X ELSE f[m]]
<2>5. g \in [0..n -> SUBSET Vertex] /\ g[0] = {v}
  BY <1>0, <2>1 DEF Spreads
<2>6. ASSUME NEW m \in 1..n PROVE g[m] = More(g[m - 1], step)
<3>1. CASE m = n
  BY <2>2, <2>4, <3>1
<3>2. CASE m # n
<4>1. m \in 1..(n - 1) /\ m \in 0..n /\ m - 1 \in 0..n /\ m - 1 # n
  BY <2>2, <3>2
<4> QED
  BY <2>1, <3>2, <4>1 DEF Spreads
<3> QED
  BY <3>1, <3>2
<2>7. Spreads(g, v, step, n)
  BY <2>5, <2>6 DEF Spreads
<2> HIDE DEF g
<2> QED
  BY <1>0, <2>7
<1> HIDE DEF G
<1>3. Wallets \in G
<2>1. \A k \in 0..Wallets : k \in G
  BY <1>0, <1>1, <1>2, Climb
<2> QED
  BY <1>0, <2>1
<1>4. PICK f : Spreads(f, v, step, Wallets)
  BY <1>3 DEF G
<1>5. f \in [0..Wallets -> SUBSET Vertex] /\ \A k \in 0..Wallets : k # 0 => k \in 1..Wallets
  BY <1>0, <1>4 DEF Spreads
<1> DEFINE Body(h) == [n \in 0..Wallets |->
              IF n = 0 THEN {v}
              ELSE LET nearer == h[n - 1] IN nearer \cup UNION {step[w] : w \in nearer}]
           in == CHOOSE h : h = Body(h)
<1>6. f = Body(f)
  BY <1>4, <1>5 DEF Spreads, More
<1>7. in = Body(in)
  BY <1>6
<1>8. Spread(v, step) = in[Wallets]
  BY DEF Spread
<1> HIDE DEF in
<1> DEFINE H == {n \in 0..Wallets : in[n] = f[n]}
<1>9. 0 \in H
  BY <1>0, <1>4, <1>7 DEF Spreads
<1>10. ASSUME NEW k \in 1..Wallets, k - 1 \in H PROVE k \in H
<2>1. f[k] = More(f[k - 1], step) /\ in[k - 1] = f[k - 1] /\ k \in 0..Wallets /\ k # 0
  BY <1>0, <1>4, <1>10 DEF Spreads
<2>2. in[k] = More(in[k - 1], step)
  BY <1>7, <2>1 DEF More
<2> QED
  BY <2>1, <2>2
<1> HIDE DEF H
<1>11. Wallets \in H
<2>1. \A k \in 0..Wallets : k \in H
  BY <1>0, <1>9, <1>10, Climb
<2> QED
  BY <1>0, <2>1
<1>12. Spread(v, step) = f[Wallets]
  BY <1>8, <1>11 DEF H
<1> QED
  BY <1>4, <1>12

\* What is reached is the least set with v that step does not leave.
LEMMA SpreadLeast ==
  ASSUME CyclesAssumption, NEW step \in Steps, NEW v \in Vertex
  PROVE  /\ Spread(v, step) \in SUBSET Vertex /\ v \in Spread(v, step)
         /\ Closed(Spread(v, step), step)
         /\ \A S : v \in S /\ Closed(S, step) => Spread(v, step) \subseteq S
<1>0. Wallets \in Nat
  BY DEF CyclesAssumption
<1>1. PICK f : Spreads(f, v, step, Wallets) /\ Spread(v, step) = f[Wallets]
  BY SpreadRuns
<1>2. ASSUME NEW k \in 0..Wallets
      PROVE  f[k] \in SUBSET Vertex /\ IsFiniteSet(f[k]) /\ Cardinality(f[k]) \in Nat
<2>1. IsFiniteSet(Vertex)
  BY <1>0, FS_Interval DEF Vertex
<2>2. f[k] \in SUBSET Vertex
  BY <1>1 DEF Spreads
<2> QED
  BY <2>1, <2>2, FS_Subset, FS_CardinalityType
<1>3. ASSUME NEW k \in 1..Wallets
      PROVE  /\ f[k - 1] \subseteq f[k]
             /\ \A w \in f[k - 1] : step[w] \subseteq f[k]
             /\ \A S : f[k - 1] \subseteq S /\ Closed(S, step) => f[k] \subseteq S
  BY <1>1 DEF Spreads, More, Closed
<1> DEFINE G == {k \in 0..Wallets : v \in f[k] /\ (Closed(f[k], step) \/ Cardinality(f[k]) >= k + 1)}
<1>4. 0 \in G
<2>1. f[0] = {v}
  BY <1>1 DEF Spreads
<2>2. Cardinality({v}) = 1
  BY FS_Singleton
<2> QED
  BY <1>0, <2>1, <2>2
<1>5. ASSUME NEW k \in 1..Wallets, k - 1 \in G PROVE k \in G
<2>1. k - 1 \in 0..Wallets /\ k \in 0..Wallets /\ k \in Nat
  BY <1>0
<2>2. v \in f[k - 1] /\ v \in f[k]
  BY <1>3, <1>5
<2>3. CASE Closed(f[k - 1], step)
<3>1. f[k] \subseteq f[k - 1]
  BY <1>3, <2>3
<3>2. f[k] = f[k - 1]
  BY <1>3, <3>1
<3> QED
  BY <2>1, <2>2, <2>3, <3>2
<2>4. CASE ~Closed(f[k - 1], step)
<3>1. PICK w \in f[k - 1] : \E x \in step[w] : x \notin f[k - 1]
  BY <2>4 DEF Closed
<3>2. f[k] # f[k - 1]
  BY <1>3, <3>1
<3>3. Cardinality(f[k - 1]) >= k
  BY <1>5, <2>1, <2>4
<3>4. Cardinality(f[k - 1]) <= Cardinality(f[k]) /\ Cardinality(f[k - 1]) # Cardinality(f[k])
<4>1. f[k - 1] \in SUBSET f[k] /\ IsFiniteSet(f[k])
  BY <1>2, <1>3, <2>1
<4> QED
  BY <3>2, <4>1, FS_Subset
<3>5. Cardinality(f[k]) >= k + 1
  BY <1>2, <2>1, <3>3, <3>4
<3> QED
  BY <2>1, <2>2, <3>5
<2> QED
  BY <2>3, <2>4
<1> HIDE DEF G
<1>6. Wallets \in G
<2>1. \A k \in 0..Wallets : k \in G
  BY <1>0, <1>4, <1>5, Climb
<2> QED
  BY <1>0, <2>1
<1>7. v \in f[Wallets] /\ (Closed(f[Wallets], step) \/ Cardinality(f[Wallets]) >= Wallets + 1)
  BY <1>6 DEF G
<1>8. Cardinality(f[Wallets]) <= Wallets
<2>1. IsFiniteSet(Vertex) /\ Cardinality(Vertex) = Wallets
<3>1. 0 \in Int /\ Wallets - 1 \in Int
  BY <1>0
<3>2. IsFiniteSet(0..Wallets - 1)
      /\ Cardinality(0..Wallets - 1) = IF 0 > Wallets - 1 THEN 0 ELSE (Wallets - 1) - 0 + 1
  BY <3>1, FS_Interval
<3> QED
  BY <1>0, <3>2 DEF Vertex
<2>2. f[Wallets] \in SUBSET Vertex
  BY <1>0, <1>2
<2>3. Cardinality(f[Wallets]) <= Cardinality(Vertex)
  BY <2>1, <2>2, FS_Subset
<2> QED
  BY <2>1, <2>3
<1>9. Closed(f[Wallets], step)
<2>1. Cardinality(f[Wallets]) \in Nat
  BY <1>0, <1>2
<2> QED
  BY <1>0, <1>7, <1>8, <2>1
<1>10. ASSUME NEW S, v \in S, Closed(S, step) PROVE f[Wallets] \subseteq S
<2> DEFINE H == {k \in 0..Wallets : f[k] \subseteq S}
<2>1. 0 \in H
  BY <1>0, <1>1, <1>10 DEF Spreads
<2>2. ASSUME NEW k \in 1..Wallets, k - 1 \in H PROVE k \in H
  BY <1>0, <1>3, <1>10, <2>2
<2> HIDE DEF H
<2>3. \A k \in 0..Wallets : k \in H
  BY <1>0, <2>1, <2>2, Climb
<2> QED
  BY <1>0, <2>3 DEF H
<1>11. f[Wallets] \in SUBSET Vertex
  BY <1>0, <1>2
<1> QED
  BY <1>1, <1>7, <1>9, <1>10, <1>11

\* Reachability holds for a vertex itself, along an edge, and from one to the next.
LEMMA Reaches ==
  ASSUME CyclesAssumption, NEW adj \in Steps, NEW u \in Vertex
  PROVE  /\ Spread(u, adj) \subseteq Vertex /\ u \in Spread(u, adj)
         /\ \A v \in Spread(u, adj) : adj[v] \subseteq Spread(u, adj)
         /\ \A v \in Spread(u, adj) : Spread(v, adj) \subseteq Spread(u, adj)
<1>1. /\ Spread(u, adj) \subseteq Vertex /\ u \in Spread(u, adj)
      /\ Closed(Spread(u, adj), adj)
  BY SpreadLeast
<1>2. ASSUME NEW v \in Spread(u, adj) PROVE Spread(v, adj) \subseteq Spread(u, adj)
  BY <1>1, <1>2, SpreadLeast
<1> QED
  BY <1>1, <1>2 DEF Closed

(***************************************************************************)
(* Tarjan's search, with ix[v] the index of a discovered vertex v, K the   *)
(* vertices on its stack and ds the depth-first search.                    *)
(***************************************************************************)
Frame == [v : Vertex, todo : SUBSET Vertex]

\* The edges of a vertex that were looked at.
Seen(adj, ds, u) ==
  {w \in adj[u] : \A i \in 1..Len(ds) : ds[i].v = u => w \notin ds[i].todo}

Frames(adj, ix, lo, K, ds) ==
  /\ adj \in Steps /\ lo \in [Vertex -> Nat]
  /\ ix \in [DOMAIN ix -> Nat] /\ DOMAIN ix \subseteq Vertex /\ K \subseteq DOMAIN ix
  /\ ds \in Seq(Frame)
  /\ \A i \in 1..Len(ds) : ds[i].v \in K /\ ds[i].todo \subseteq adj[ds[i].v]
  /\ \A i, j \in 1..Len(ds) : i < j => ix[ds[i].v] < ix[ds[j].v]

\* From what is off the stack no edge leads back to it.
Behind(adj, ix, K) ==
  \A u \in DOMAIN ix \ K : adj[u] \subseteq DOMAIN ix \ K

\* A vertex of the search reaches what lies above it on the stack.
Down(adj, ix, K, ds) ==
  \A i \in 1..Len(ds), u \in K : ix[ds[i].v] <= ix[u] => u \in Spread(ds[i].v, adj)

\* A vertex on the stack reaches one of the search below it.
Up(adj, ix, K, ds) ==
  \A u \in K : \E i \in 1..Len(ds) : ix[ds[i].v] <= ix[u] /\ ds[i].v \in Spread(u, adj)

\* A lowlink is the index of a vertex on the stack that is reached.
LowReached(adj, ix, lo, K, ds) ==
  \A i \in 1..Len(ds) : \E x \in K :
    lo[ds[i].v] = ix[x] /\ ix[x] <= ix[ds[i].v] /\ x \in Spread(ds[i].v, adj)

\* Vertex u lies on the stack between the i-th vertex of the search and the next.
Between(ix, ds, i, u) ==
  ix[ds[i].v] <= ix[u] /\ (i < Len(ds) => ix[u] < ix[ds[i + 1].v])

\* No edge seen from there leads below the lowlink.
LowBounds(adj, ix, lo, K, ds) ==
  \A i \in 1..Len(ds), u \in K, w \in K :
    Between(ix, ds, i, u) /\ w \in Seen(adj, ds, u) => lo[ds[i].v] <= ix[w]

Search(adj, ix, lo, K, ds) ==
  /\ Frames(adj, ix, lo, K, ds) /\ Behind(adj, ix, K)
  /\ Down(adj, ix, K, ds) /\ Up(adj, ix, K, ds)
  /\ LowReached(adj, ix, lo, K, ds) /\ LowBounds(adj, ix, lo, K, ds)

Looked(adj, ds, F, G) == \A u \in F : Seen(adj, ds, u) \subseteq G

\* w is discovered, with the greatest index.
Pushes(adj, ix, lo, K, ds, w, N, ix2, lo2, ds2) ==
  /\ w \in Vertex \ DOMAIN ix /\ N \in Nat /\ \A u \in DOMAIN ix : ix[u] < N
  /\ Len(ds) > 0 => w \in adj[ds[Len(ds)].v]
  /\ ix2 = [u \in DOMAIN ix \cup {w} |-> IF u = w THEN N ELSE ix[u]]
  /\ lo2 = [lo EXCEPT ![w] = N]
  /\ ds2 = Append(ds, [v |-> w, todo |-> adj[w]])

Pushed(adj, ix, lo, K, ds, w, N, ix2, lo2, ds2) ==
  /\ Len(ds) \in Nat /\ Len(ds2) = Len(ds) + 1 /\ ds2 \in Seq(Frame)
  /\ \A i \in 1..Len(ds) : ds2[i] = ds[i] /\ ds2[i].v \in K
  /\ ds2[Len(ds) + 1].v = w /\ ds2[Len(ds) + 1].todo = adj[w]
  /\ \A u \in DOMAIN ix :
       /\ u # w /\ u \in Vertex /\ ix2[u] = ix[u] /\ ix[u] \in Nat /\ ix[u] < N
       /\ lo2[u] = lo[u] /\ lo2[u] \in Nat
  /\ ix2[w] = N /\ lo2[w] = N /\ DOMAIN ix2 = DOMAIN ix \cup {w}
  /\ N \in Nat /\ w \notin K /\ \A u \in K : u \in DOMAIN ix

LEMMA PushIs ==
  ASSUME NEW adj, NEW ix, NEW lo, NEW K, NEW ds, NEW w, NEW N, NEW ix2, NEW lo2, NEW ds2,
         Search(adj, ix, lo, K, ds), Pushes(adj, ix, lo, K, ds, w, N, ix2, lo2, ds2)
  PROVE  Pushed(adj, ix, lo, K, ds, w, N, ix2, lo2, ds2)
<1>1. [v |-> w, todo |-> adj[w]] \in Frame
  BY DEF Search, Frames, Pushes, Steps, Frame
<1>2. /\ ds2 \in Seq(Frame) /\ Len(ds2) = Len(ds) + 1
      /\ \A i \in 1..Len(ds) : ds2[i] = ds[i]
      /\ ds2[Len(ds) + 1] = [v |-> w, todo |-> adj[w]]
  BY <1>1, AppendProperties DEF Search, Frames, Pushes
<1>3. Len(ds) \in Nat /\ \A i \in 1..Len(ds) : ds2[i].v \in K
  BY <1>2 DEF Search, Frames
<1>4. /\ \A u \in DOMAIN ix : u # w /\ u \in Vertex /\ ix2[u] = ix[u] /\ ix[u] \in Nat /\ ix[u] < N
      /\ ix2[w] = N /\ DOMAIN ix2 = DOMAIN ix \cup {w}
      /\ N \in Nat /\ w \notin K /\ \A u \in K : u \in DOMAIN ix
  BY DEF Search, Frames, Pushes
<1>5. lo2[w] = N /\ \A u \in DOMAIN ix : lo2[u] = lo[u] /\ lo2[u] \in Nat
  BY <1>4 DEF Search, Frames, Pushes
<1> QED
  BY <1>2, <1>3, <1>4, <1>5 DEF Pushed

SeenAfter(adj, ix, ds, w, ds2) ==
  /\ Seen(adj, ds2, w) = {}
  /\ \A u \in DOMAIN ix : Seen(adj, ds2, u) = Seen(adj, ds, u)

LEMMA SeenPush ==
  ASSUME NEW adj, NEW ix, NEW lo, NEW K, NEW ds, NEW w, NEW N, NEW ix2, NEW lo2, NEW ds2,
         Search(adj, ix, lo, K, ds), Pushes(adj, ix, lo, K, ds, w, N, ix2, lo2, ds2)
  PROVE  SeenAfter(adj, ix, ds, w, ds2)
<1>0. Pushed(adj, ix, lo, K, ds, w, N, ix2, lo2, ds2)
  BY PushIs
<1>1. Len(ds) + 1 \in 1..Len(ds2) /\ \A i \in 1..Len(ds2) : i # Len(ds) + 1 => i \in 1..Len(ds)
  BY <1>0 DEF Pushed
<1>2. Seen(adj, ds2, w) = {}
  BY <1>0, <1>1 DEF Seen, Pushed
<1>3. ASSUME NEW u \in DOMAIN ix PROVE Seen(adj, ds2, u) = Seen(adj, ds, u)
<2>1. \A i \in 1..Len(ds) : i \in 1..Len(ds2) /\ ds2[i] = ds[i]
  BY <1>0 DEF Pushed
<2>2. u # w /\ ds2[Len(ds) + 1].v = w
  BY <1>0, <1>3 DEF Pushed
<2> QED
  BY <1>1, <2>1, <2>2 DEF Seen
<1> QED
  BY <1>2, <1>3 DEF SeenAfter

LEMMA SearchPush ==
  ASSUME CyclesAssumption,
         NEW adj, NEW ix, NEW lo, NEW K, NEW ds, NEW w, NEW N, NEW ix2, NEW lo2, NEW ds2,
         Search(adj, ix, lo, K, ds), Pushes(adj, ix, lo, K, ds, w, N, ix2, lo2, ds2),
         Looked(adj, ds, DOMAIN ix, DOMAIN ix \cup {w})
  PROVE  Search(adj, ix2, lo2, K \cup {w}, ds2) /\ Looked(adj, ds2, DOMAIN ix2, DOMAIN ix2)
<1> DEFINE n == Len(ds)
           K2 == K \cup {w}
<1> HIDE DEF n
<1>a. Pushed(adj, ix, lo, K, ds, w, N, ix2, lo2, ds2)
  BY PushIs
<1>0. /\ n \in Nat /\ Len(ds2) = n + 1 /\ ds2 \in Seq(Frame)
      /\ \A i \in 1..n : i \in 1..(n + 1) /\ ds2[i] = ds[i] /\ ds[i].v \in K
      /\ ds2[n + 1].v = w /\ ds2[n + 1].todo = adj[w] /\ n + 1 \in 1..(n + 1)
      /\ \A i \in 1..(n + 1) : i # n + 1 => i \in 1..n /\ (i # n => i + 1 \in 1..n)
<2>1. /\ n \in Nat /\ Len(ds2) = n + 1 /\ ds2 \in Seq(Frame)
      /\ \A i \in 1..n : ds2[i] = ds[i] /\ ds2[i].v \in K
      /\ ds2[n + 1].v = w /\ ds2[n + 1].todo = adj[w]
  BY <1>a DEF Pushed, n
<2> QED
  BY <2>1
<1>1. /\ \A u \in DOMAIN ix : u # w /\ u \in Vertex /\ ix2[u] = ix[u] /\ ix[u] \in Nat /\ ix[u] < N
                              /\ lo2[u] = lo[u] /\ lo2[u] \in Nat
      /\ ix2[w] = N /\ lo2[w] = N /\ DOMAIN ix2 = DOMAIN ix \cup {w}
      /\ N \in Nat /\ w \notin K /\ \A u \in K : u \in DOMAIN ix
  BY <1>a DEF Pushed
<1>2. /\ Seen(adj, ds2, w) = {}
      /\ \A u \in DOMAIN ix : Seen(adj, ds2, u) = Seen(adj, ds, u)
  BY SeenPush DEF SeenAfter
<1>3. adj \in Steps /\ w \in Vertex /\ adj[w] \subseteq Vertex
  BY DEF Search, Frames, Pushes, Steps
<1>4. Frames(adj, ix2, lo2, K2, ds2)
<2>1. lo2 \in [Vertex -> Nat]
  BY DEF Search, Frames, Pushes
<2>2. ix2 \in [DOMAIN ix2 -> Nat] /\ DOMAIN ix2 \subseteq Vertex
  BY DEF Search, Frames, Pushes
<2>3. K2 \subseteq DOMAIN ix2
  BY <1>1
<2>4. ASSUME NEW i \in 1..(n + 1) PROVE ds2[i].v \in K2 /\ ds2[i].todo \subseteq adj[ds2[i].v]
<3>1. CASE i = n + 1
  BY <1>0, <3>1
<3>2. CASE i # n + 1
  BY <1>0, <3>2 DEF Search, Frames, n
<3> QED
  BY <3>1, <3>2
<2>5. ASSUME NEW i \in 1..(n + 1), NEW j \in 1..(n + 1), i < j
      PROVE  ix2[ds2[i].v] < ix2[ds2[j].v]
<3>1. i \in 1..n
  BY <1>0, <2>5
<3>2. ds2[i] = ds[i] /\ ds[i].v \in DOMAIN ix /\ ix2[ds[i].v] = ix[ds[i].v] /\ ix[ds[i].v] < N
  BY <1>0, <1>1, <3>1
<3>3. CASE j = n + 1
  BY <1>0, <1>1, <3>2, <3>3
<3>4. CASE j # n + 1
<4>1. j \in 1..n
  BY <1>0, <3>4
<4>2. ds2[j] = ds[j] /\ ix2[ds[j].v] = ix[ds[j].v]
  BY <1>0, <1>1, <4>1
<4>3. ix[ds[i].v] < ix[ds[j].v]
  BY <2>5, <3>1, <4>1 DEF Search, Frames, n
<4> QED
  BY <3>2, <4>2, <4>3
<3> QED
  BY <3>3, <3>4
<2> QED
  BY <1>0, <1>3, <2>1, <2>2, <2>3, <2>4, <2>5 DEF Frames
<1>5. Behind(adj, ix2, K2)
<2>1. DOMAIN ix2 \ K2 = DOMAIN ix \ K
  BY <1>1
<2> QED
  BY <2>1 DEF Search, Behind
<1>6. ASSUME NEW i \in 1..n PROVE w \in Spread(ds[i].v, adj)
<2>1. n \in 1..n /\ n > 0
  BY <1>0
<2>2. w \in adj[ds[n].v]
  BY <2>1 DEF Pushes, n
<2>3. ds[n].v \in Spread(ds[i].v, adj)
<3>1. ix[ds[i].v] <= ix[ds[n].v]
<4>1. i < n => ix[ds[i].v] < ix[ds[n].v]
  BY <2>1 DEF Search, Frames, n
<4>2. ix[ds[i].v] \in Nat /\ ix[ds[n].v] \in Nat
  BY <1>0, <1>1, <2>1
<4> QED
  BY <1>0, <4>1, <4>2
<3> QED
  BY <1>0, <2>1, <3>1 DEF Search, Down, n
<2>4. ds[i].v \in Vertex
  BY <1>0, <1>1
<2> QED
  BY <1>3, <2>2, <2>3, <2>4, Reaches
<1>7. Down(adj, ix2, K2, ds2)
<2> SUFFICES ASSUME NEW i \in 1..(n + 1), NEW u \in K2, ix2[ds2[i].v] <= ix2[u]
             PROVE  u \in Spread(ds2[i].v, adj)
  BY <1>0 DEF Down
<2>1. CASE i = n + 1
<3>1. u = w
  BY <1>0, <1>1, <2>1
<3> QED
  BY <1>0, <1>3, <2>1, <3>1, Reaches
<2>2. CASE i # n + 1
<3>1. i \in 1..n /\ ds2[i] = ds[i] /\ ix2[ds[i].v] = ix[ds[i].v]
  BY <1>0, <1>1, <2>2
<3>2. CASE u = w
  BY <1>6, <3>1, <3>2
<3>3. CASE u # w
<4>1. u \in K /\ ix2[u] = ix[u]
  BY <1>1, <3>3
<4> QED
  BY <3>1, <4>1 DEF Search, Down, n
<3> QED
  BY <3>2, <3>3
<2> QED
  BY <2>1, <2>2
<1>8. Up(adj, ix2, K2, ds2)
<2> SUFFICES ASSUME NEW u \in K2
             PROVE  \E i \in 1..(n + 1) : ix2[ds2[i].v] <= ix2[u] /\ ds2[i].v \in Spread(u, adj)
  BY <1>0 DEF Up
<2>1. CASE u = w
  BY <1>0, <1>1, <1>3, <2>1, Reaches
<2>2. CASE u # w
<3>1. u \in K /\ ix2[u] = ix[u]
  BY <1>1, <2>2
<3>2. PICK i \in 1..n : ix[ds[i].v] <= ix[u] /\ ds[i].v \in Spread(u, adj)
  BY <3>1 DEF Search, Up, n
<3>3. i \in 1..(n + 1) /\ ds2[i] = ds[i] /\ ix2[ds[i].v] = ix[ds[i].v]
  BY <1>0, <1>1, <3>2
<3> QED
  BY <3>1, <3>2, <3>3
<2> QED
  BY <2>1, <2>2
<1>9. LowReached(adj, ix2, lo2, K2, ds2)
<2> SUFFICES ASSUME NEW i \in 1..(n + 1)
             PROVE  \E x \in K2 : /\ lo2[ds2[i].v] = ix2[x] /\ ix2[x] <= ix2[ds2[i].v]
                                  /\ x \in Spread(ds2[i].v, adj)
  BY <1>0 DEF LowReached
<2>1. CASE i = n + 1
  BY <1>0, <1>1, <1>3, <2>1, Reaches
<2>2. CASE i # n + 1
<3>1. i \in 1..n /\ ds2[i] = ds[i] /\ ix2[ds[i].v] = ix[ds[i].v] /\ lo2[ds[i].v] = lo[ds[i].v]
  BY <1>0, <1>1, <2>2
<3>2. PICK x \in K : lo[ds[i].v] = ix[x] /\ ix[x] <= ix[ds[i].v] /\ x \in Spread(ds[i].v, adj)
  BY <3>1 DEF Search, LowReached, n
<3>3. x \in K2 /\ ix2[x] = ix[x]
  BY <1>1, <3>2
<3> QED
  BY <3>1, <3>2, <3>3
<2> QED
  BY <2>1, <2>2
<1>10. LowBounds(adj, ix2, lo2, K2, ds2)
<2> SUFFICES ASSUME NEW i \in 1..(n + 1), NEW u \in K2, NEW x \in K2,
                    Between(ix2, ds2, i, u), x \in Seen(adj, ds2, u)
             PROVE  lo2[ds2[i].v] <= ix2[x]
  BY <1>0 DEF LowBounds
<2>1. u # w /\ u \in K /\ ix2[u] = ix[u] /\ ix[u] < N /\ ix[u] \in Nat
  BY <1>1, <1>2
<2>2. i \in 1..n /\ ds2[i] = ds[i] /\ ix2[ds[i].v] = ix[ds[i].v] /\ lo2[ds[i].v] = lo[ds[i].v]
<3>1. i # n + 1
  BY <1>0, <1>1, <2>1 DEF Between
<3> QED
  BY <1>0, <1>1, <3>1
<2>3. PICK y \in K : lo[ds[i].v] = ix[y]
  BY <2>2 DEF Search, LowReached, n
<2>4. CASE x = w
  BY <1>1, <2>2, <2>3, <2>4
<2>5. CASE x # w
<3>1. x \in K /\ ix2[x] = ix[x] /\ x \in Seen(adj, ds, u)
  BY <1>1, <1>2, <2>1, <2>5
<3>2. Between(ix, ds, i, u)
<4>1. ix[ds[i].v] <= ix[u]
  BY <2>1, <2>2 DEF Between
<4>2. ASSUME i < n PROVE ix[u] < ix[ds[i + 1].v]
<5>1. i + 1 \in 1..n /\ i < n + 1
  BY <1>0, <2>2, <4>2
<5>2. ds2[i + 1] = ds[i + 1] /\ ix2[ds[i + 1].v] = ix[ds[i + 1].v]
  BY <1>0, <1>1, <5>1
<5> QED
  BY <1>0, <2>1, <5>1, <5>2 DEF Between
<4> QED
  BY <4>1, <4>2 DEF Between, n
<3>3. lo[ds[i].v] <= ix[x]
  BY <2>1, <2>2, <3>1, <3>2 DEF Search, LowBounds, n
<3> QED
  BY <2>2, <3>1, <3>3
<2> QED
  BY <2>4, <2>5
<1>11. Looked(adj, ds2, DOMAIN ix2, DOMAIN ix2)
  BY <1>1, <1>2 DEF Looked
<1> QED
  BY <1>4, <1>5, <1>7, <1>8, <1>9, <1>10, <1>11 DEF Search

LEMMA LesserIndex ==
  ASSUME NEW a \in Nat, NEW b \in Nat
  PROVE  Min({a, b}) \in Nat /\ Min({a, b}) = IF a <= b THEN a ELSE b
<1> DEFINE m == IF a <= b THEN a ELSE b
<1>1. m \in {a, b} /\ \A y \in {a, b} : m <= y
  OBVIOUS
<1>2. \A x \in {a, b} : (\A y \in {a, b} : x <= y) => x = m
  OBVIOUS
<1> QED
  BY <1>1, <1>2 DEF Min

\* The last vertex of the search looks at its edge to w.
Looks(adj, ix, lo, K, ds, w, lo2, ds2) ==
  /\ Len(ds) > 0 /\ w \in ds[Len(ds)].todo
  /\ lo2 = IF w \in K THEN [lo EXCEPT ![ds[Len(ds)].v] = Min({lo[ds[Len(ds)].v], ix[w]})]
           ELSE lo
  /\ ds2 \in Seq(Frame) /\ Len(ds2) = Len(ds)
  /\ \A i \in 1..Len(ds) : i # Len(ds) => ds2[i] = ds[i]
  /\ ds2[Len(ds)].v = ds[Len(ds)].v /\ ds2[Len(ds)].todo = ds[Len(ds)].todo \ {w}

LEMMA SearchLooks ==
  ASSUME CyclesAssumption,
         NEW adj, NEW ix, NEW lo, NEW K, NEW ds, NEW w, NEW lo2, NEW ds2,
         Search(adj, ix, lo, K, ds), Looked(adj, ds, DOMAIN ix, DOMAIN ix),
         Looks(adj, ix, lo, K, ds, w, lo2, ds2)
  PROVE  Search(adj, ix, lo2, K, ds2) /\ Looked(adj, ds2, DOMAIN ix, DOMAIN ix \cup {w})
<1> DEFINE n == Len(ds)
           v == ds[n].v
<1> HIDE DEF n, v
<1>0. /\ n \in 1..n /\ n \in Nat /\ Len(ds2) = n /\ ds2 \in Seq(Frame)
      /\ w \in ds[n].todo /\ v = ds[n].v /\ ds2[n].v = v /\ ds2[n].todo = ds[n].todo \ {w}
      /\ \A i \in 1..n : i # n => ds2[i] = ds[i]
      /\ \A i \in 1..n : i < n => i + 1 \in 1..n
  BY DEF Search, Frames, Looks, n, v
<1>1. /\ adj \in Steps /\ lo \in [Vertex -> Nat]
      /\ \A u \in DOMAIN ix : u \in Vertex /\ ix[u] \in Nat
      /\ \A u \in K : u \in DOMAIN ix
      /\ ix \in [DOMAIN ix -> Nat] /\ DOMAIN ix \subseteq Vertex
  BY DEF Search, Frames
<1>2. /\ \A i \in 1..n : ds[i].v \in K /\ ds[i].todo \subseteq adj[ds[i].v]
      /\ \A i, j \in 1..n : i < j => ix[ds[i].v] < ix[ds[j].v]
  BY DEF Search, Frames, n
<1>3. \A i \in 1..n : ds2[i].v = ds[i].v /\ ds2[i].todo \subseteq ds[i].todo
  BY <1>0
<1>4. v \in K /\ v \in Vertex /\ w \in adj[v]
  BY <1>0, <1>1, <1>2
<1>5. \A i \in 1..n : i # n => ds[i].v # v
<2> SUFFICES ASSUME NEW i \in 1..n, i # n PROVE ds[i].v # v
  OBVIOUS
<2>1. ix[ds[i].v] < ix[v]
  BY <1>0, <1>2
<2> QED
  BY <1>1, <1>4, <2>1
\* What is seen: w from v, and nothing else is new.
<1>6. \A u \in DOMAIN ix : \A x \in Seen(adj, ds2, u) : x \in Seen(adj, ds, u) \/ (u = v /\ x = w)
<2> SUFFICES ASSUME NEW u, NEW x \in Seen(adj, ds2, u), ~(u = v /\ x = w)
             PROVE  x \in Seen(adj, ds, u)
  OBVIOUS
<2>1. x \in adj[u] /\ \A i \in 1..n : ds2[i].v = u => x \notin ds2[i].todo
  BY <1>0 DEF Seen
<2>2. ASSUME NEW i \in 1..n, ds[i].v = u PROVE x \notin ds[i].todo
<3>1. x \notin ds2[i].todo
  BY <1>3, <2>1, <2>2
<3>2. CASE i = n
  BY <1>0, <2>2, <3>1, <3>2
<3>3. CASE i # n
  BY <1>0, <3>1, <3>3
<3> QED
  BY <3>2, <3>3
<2> QED
  BY <2>1, <2>2 DEF Seen, n
<1>7. Looked(adj, ds2, DOMAIN ix, DOMAIN ix \cup {w})
  BY <1>6 DEF Looked
\* The lowlink of v may get less, to the index of w.
<1>8. /\ lo2 \in [Vertex -> Nat] /\ \A u \in Vertex : u # v => lo2[u] = lo[u]
      /\ lo2[v] <= lo[v] /\ (w \in K => lo2[v] <= ix[w])
      /\ lo2[v] = lo[v] \/ (w \in K /\ lo2[v] = ix[w] /\ ix[w] <= lo[v])
<2>1. CASE w \in K
<3>1. lo2 = [lo EXCEPT ![v] = Min({lo[v], ix[w]})]
  BY <2>1 DEF Looks, n, v
<3>2. lo[v] \in Nat /\ ix[w] \in Nat
  BY <1>1, <1>4, <2>1
<3>3. Min({lo[v], ix[w]}) \in Nat /\ Min({lo[v], ix[w]}) = IF lo[v] <= ix[w] THEN lo[v] ELSE ix[w]
  BY <3>2, LesserIndex
<3>4. lo2[v] = Min({lo[v], ix[w]})
  BY <1>1, <1>4, <3>1
<3>5. lo2 \in [Vertex -> Nat] /\ \A u \in Vertex : u # v => lo2[u] = lo[u]
  BY <1>1, <1>4, <3>1, <3>3
<3> QED
  BY <2>1, <3>2, <3>3, <3>4, <3>5
<2>2. CASE w \notin K
<3>1. lo2 = lo
  BY <2>2 DEF Looks
<3> QED
  BY <1>1, <1>4, <2>2, <3>1
<2> QED
  BY <2>1, <2>2
<1>9. Frames(adj, ix, lo2, K, ds2)
<2>1. \A i \in 1..n : ds2[i].v \in K /\ ds2[i].todo \subseteq adj[ds2[i].v]
  BY <1>2, <1>3
<2>2. \A i, j \in 1..n : i < j => ix[ds2[i].v] < ix[ds2[j].v]
  BY <1>2, <1>3
<2> QED
  BY <1>0, <1>1, <1>8, <2>1, <2>2 DEF Frames
<1>10. Behind(adj, ix, K)
  BY DEF Search
<1>11. Down(adj, ix, K, ds2)
<2>1. Down(adj, ix, K, ds)
  BY DEF Search
<2> QED
  BY <1>0, <1>3, <2>1 DEF Down, n
<1>12. Up(adj, ix, K, ds2)
<2>1. Up(adj, ix, K, ds)
  BY DEF Search
<2> SUFFICES ASSUME NEW u \in K
             PROVE  \E i \in 1..n : ix[ds2[i].v] <= ix[u] /\ ds2[i].v \in Spread(u, adj)
  BY <1>0 DEF Up
<2>2. PICK i \in 1..n : ix[ds[i].v] <= ix[u] /\ ds[i].v \in Spread(u, adj)
  BY <2>1 DEF Up, n
<2> QED
  BY <1>3, <2>2
<1>13. LowReached(adj, ix, lo2, K, ds2)
<2> SUFFICES ASSUME NEW i \in 1..n
             PROVE  \E x \in K : /\ lo2[ds[i].v] = ix[x] /\ ix[x] <= ix[ds[i].v]
                                 /\ x \in Spread(ds[i].v, adj)
  BY <1>0, <1>3 DEF LowReached
<2>1. PICK x \in K : lo[ds[i].v] = ix[x] /\ ix[x] <= ix[ds[i].v] /\ x \in Spread(ds[i].v, adj)
  BY DEF Search, LowReached, n
<2>2. ds[i].v \in Vertex
  BY <1>1, <1>2
<2>3. CASE lo2[ds[i].v] = lo[ds[i].v]
  BY <2>1, <2>3
<2>4. CASE lo2[ds[i].v] # lo[ds[i].v]
<3>1. i = n /\ ds[i].v = v /\ w \in K /\ lo2[v] = ix[w] /\ ix[w] <= lo[v]
  BY <1>0, <1>5, <1>8, <2>2, <2>4
<3>2. w \in Spread(v, adj)
  BY <1>1, <1>4, Reaches
<3>3. ix[w] <= ix[v]
<4>1. lo[v] <= ix[v] /\ lo[v] \in Nat /\ ix[w] \in Nat /\ ix[v] \in Nat
  BY <1>1, <1>4, <2>1, <3>1
<4> QED
  BY <3>1, <4>1
<3> QED
  BY <3>1, <3>2, <3>3
<2> QED
  BY <2>3, <2>4
<1>14. LowBounds(adj, ix, lo2, K, ds2)
<2> SUFFICES ASSUME NEW i \in 1..n, NEW u \in K, NEW x \in K,
                    Between(ix, ds2, i, u), x \in Seen(adj, ds2, u)
             PROVE  lo2[ds[i].v] <= ix[x]
  BY <1>0, <1>3 DEF LowBounds
<2>1. Between(ix, ds, i, u)
<3>1. ix[ds[i].v] <= ix[u]
  BY <1>3 DEF Between
<3>2. ASSUME i < n PROVE ix[u] < ix[ds[i + 1].v]
<4>1. i + 1 \in 1..n
  BY <1>0, <3>2
<4>2. ix[u] < ix[ds2[i + 1].v]
  BY <1>0, <3>2 DEF Between
<4> QED
  BY <1>3, <4>1, <4>2
<3> QED
  BY <3>1, <3>2 DEF Between, n
<2>2. ds[i].v \in Vertex /\ lo2[ds[i].v] \in Nat /\ lo[ds[i].v] \in Nat /\ ix[x] \in Nat
      /\ lo2[ds[i].v] <= lo[ds[i].v]
<3>1. ds[i].v \in Vertex
  BY <1>1, <1>2
<3> QED
  BY <1>1, <1>8, <3>1
<2>3. CASE x \in Seen(adj, ds, u)
<3>1. lo[ds[i].v] <= ix[x]
  BY <2>1, <2>3 DEF Search, LowBounds, n
<3> QED
  BY <2>2, <3>1
<2>4. CASE x \notin Seen(adj, ds, u)
<3>1. u = v /\ x = w
  BY <1>1, <1>6, <2>4
<3>2. i = n
<4>1. ASSUME i # n PROVE FALSE
<5>1. i < n /\ i + 1 \in 1..n
  BY <1>0, <4>1
<5>2. ix[u] < ix[ds[i + 1].v]
  BY <2>1, <5>1 DEF Between, n
<5>3. i + 1 < n => ix[ds[i + 1].v] < ix[v]
  BY <1>0, <1>2, <5>1
<5>4. i + 1 = n => ds[i + 1].v = v
  BY <1>0
<5>5. ix[v] \in Nat /\ ix[ds[i + 1].v] \in Nat
  BY <1>1, <1>2, <1>4, <5>1
<5> QED
  BY <1>0, <3>1, <5>1, <5>2, <5>3, <5>4, <5>5
<4> QED
  BY <4>1
<3> QED
  BY <1>0, <1>8, <3>1, <3>2
<2> QED
  BY <2>3, <2>4
<1> QED
  BY <1>7, <1>9, <1>10, <1>11, <1>12, <1>13, <1>14 DEF Search

\* The strongly connected component of a vertex, and all of them.
Mutual(adj, v) == {w \in Vertex : w \in Spread(v, adj) /\ v \in Spread(w, adj)}
Comps(adj) == {Mutual(adj, v) : v \in Vertex}

\* The last vertex of the search is done.
Retreats(adj, ix, lo, K, ds, lo2, ds2) ==
  /\ Len(ds) > 0 /\ ds[Len(ds)].todo = {}
  /\ ds2 \in Seq(Frame) /\ Len(ds2) = Len(ds) - 1
  /\ \A i \in 1..Len(ds) - 1 : ds2[i] = ds[i]
  /\ lo2 = IF Len(ds) = 1 THEN lo
           ELSE [lo EXCEPT ![ds[Len(ds) - 1].v] =
                   Min({lo[ds[Len(ds) - 1].v], lo[ds[Len(ds)].v]})]

\* What is seen does not change.
LEMMA SeenRetreat ==
  ASSUME NEW adj, NEW ix, NEW lo, NEW K, NEW ds, NEW lo2, NEW ds2,
         Search(adj, ix, lo, K, ds), Retreats(adj, ix, lo, K, ds, lo2, ds2), NEW u
  PROVE  Seen(adj, ds2, u) = Seen(adj, ds, u)
<1>1. PICK n \in Nat : n = Len(ds) /\ n > 0 /\ Len(ds2) = n - 1
  BY DEF Search, Frames, Retreats
<1>2. ds[n].todo = {} /\ \A i \in 1..n - 1 : ds2[i] = ds[i]
  BY <1>1 DEF Retreats
<1>3. \A i \in 1..n : i # n => i \in 1..n - 1
  BY <1>1
<1>4. \A i \in 1..n - 1 : i \in 1..n
  BY <1>1
<1>5. Seen(adj, ds2, u) \subseteq Seen(adj, ds, u)
  BY <1>1, <1>2, <1>3 DEF Seen
<1>6. Seen(adj, ds, u) \subseteq Seen(adj, ds2, u)
  BY <1>1, <1>2, <1>4 DEF Seen
<1> QED
  BY <1>5, <1>6

\* From the vertex on the stack that is done everything was seen.
LEMMA SeenAll ==
  ASSUME NEW adj, NEW ix, NEW lo, NEW K, NEW ds,
         Search(adj, ix, lo, K, ds), Len(ds) > 0, ds[Len(ds)].todo = {},
         NEW u \in K, ix[ds[Len(ds)].v] <= ix[u]
  PROVE  Seen(adj, ds, u) = adj[u]
<1>1. PICK n \in Nat : n = Len(ds) /\ n > 0
  BY DEF Search, Frames
<1>2. /\ \A i \in 1..n : ds[i].v \in K
      /\ \A i \in 1..n : i < n => ix[ds[i].v] < ix[ds[n].v]
      /\ \A x \in K : ix[x] \in Nat
  BY <1>1 DEF Search, Frames
<1>3. ASSUME NEW i \in 1..n, ds[i].v = u PROVE ds[i].todo = {}
<2>1. i = n
<3>1. ASSUME i < n PROVE FALSE
<4>1. ix[ds[i].v] < ix[ds[n].v] /\ ix[ds[n].v] <= ix[ds[i].v]
  BY <1>1, <1>2, <1>3, <3>1
<4>2. ix[ds[i].v] \in Nat /\ ix[ds[n].v] \in Nat
  BY <1>1, <1>2
<4> QED
  BY <4>1, <4>2
<3> QED
  BY <1>1, <3>1
<2> QED
  BY <1>1, <2>1
<1> QED
  BY <1>1, <1>3 DEF Seen

\* The vertex is the first of a component, which goes off the stack.
Pops(ix, lo, K, ds, K2) ==
  LET v == ds[Len(ds)].v IN lo[v] = ix[v] /\ K2 = {u \in K : ix[u] < ix[v]}

\* The vertex is not: it stays, and its parent inherits.
Inherits(ix, lo, K, ds, K2) ==
  LET v == ds[Len(ds)].v IN lo[v] # ix[v] /\ K2 = K

LEMMA RetreatTypes ==
  ASSUME NEW adj, NEW ix, NEW lo, NEW K, NEW ds, NEW lo2, NEW ds2,
         Search(adj, ix, lo, K, ds), Retreats(adj, ix, lo, K, ds, lo2, ds2)
  PROVE  /\ lo2 \in [Vertex -> Nat]
         /\ \A i \in 1..Len(ds) : i < Len(ds) - 1 => lo2[ds[i].v] = lo[ds[i].v]
         /\ \A i \in 1..Len(ds) : i = Len(ds) - 1 =>
              lo2[ds[i].v] = IF lo[ds[i].v] <= lo[ds[Len(ds)].v] THEN lo[ds[i].v]
                             ELSE lo[ds[Len(ds)].v]
<1>1. PICK n \in Nat : n = Len(ds) /\ n > 0
  BY DEF Search, Frames, Retreats
<1>2. /\ \A i \in 1..n : ds[i].v \in K
      /\ \A i, j \in 1..n : i < j => ix[ds[i].v] < ix[ds[j].v]
      /\ \A x \in K : ix[x] \in Nat /\ x \in Vertex /\ lo[x] \in Nat
      /\ lo \in [Vertex -> Nat]
  BY <1>1 DEF Search, Frames
<1>3. CASE n = 1
<2>1. lo2 = lo /\ \A i \in 1..n : ~(i < n - 1) /\ i # n - 1
  BY <1>1, <1>3 DEF Retreats
<2> QED
  BY <1>1, <1>2, <2>1
<1>4. CASE n # 1
<2>1. n - 1 \in 1..n /\ n \in 1..n
  BY <1>1, <1>4
<2>2. PICK p \in Vertex, v \in Vertex : p = ds[n - 1].v /\ v = ds[n].v
  BY <1>2, <2>1
<2>3. lo2 = [lo EXCEPT ![p] = Min({lo[p], lo[v]})]
  BY <1>1, <1>4, <2>2 DEF Retreats
<2>4. Min({lo[p], lo[v]}) \in Nat /\ Min({lo[p], lo[v]}) = IF lo[p] <= lo[v] THEN lo[p] ELSE lo[v]
  BY <1>2, LesserIndex
<2>5. lo2 \in [Vertex -> Nat] /\ lo2[p] = IF lo[p] <= lo[v] THEN lo[p] ELSE lo[v]
  BY <1>2, <2>3, <2>4
<2>6. ASSUME NEW i \in 1..n, i < n - 1 PROVE lo2[ds[i].v] = lo[ds[i].v]
<3>1. ix[ds[i].v] < ix[p] /\ ix[p] \in Nat
  BY <1>2, <2>1, <2>2, <2>6
<3>2. ds[i].v # p /\ ds[i].v \in Vertex
  BY <1>2, <3>1
<3> QED
  BY <1>2, <2>3, <3>2
<2> QED
  BY <1>1, <2>2, <2>5, <2>6
<1> QED
  BY <1>3, <1>4

\* What goes off the stack is the component of the vertex.
LEMMA PoppedComponent ==
  ASSUME CyclesAssumption, NEW adj, NEW ix, NEW lo, NEW K, NEW ds, NEW K2,
         Search(adj, ix, lo, K, ds), Looked(adj, ds, DOMAIN ix, DOMAIN ix),
         Len(ds) > 0, ds[Len(ds)].todo = {}, Pops(ix, lo, K, ds, K2)
  PROVE  Behind(adj, ix, K2) /\ K \ K2 = Mutual(adj, ds[Len(ds)].v)
<1>1. PICK n \in Nat : n = Len(ds) /\ n > 0 /\ n \in 1..n
<2>1. ds \in Seq(Frame)
  BY DEF Search, Frames
<2>2. Len(ds) \in Nat
  BY <2>1, LenProperties
<2> QED
  BY <2>2
<1>2. PICK v : v = ds[n].v /\ v \in K
  BY <1>1 DEF Search, Frames
<1>3. /\ \A i \in 1..n : ds[i].v \in K
      /\ \A i \in 1..n : i < n => ix[ds[i].v] < ix[v]
      /\ \A x \in DOMAIN ix : ix[x] \in Nat /\ x \in Vertex
      /\ \A x \in K : x \in DOMAIN ix
      /\ adj \in Steps
  BY <1>1, <1>2 DEF Search, Frames
<1>4. lo[v] = ix[v] /\ K2 = {u \in K : ix[u] < ix[v]}
  BY <1>1, <1>2 DEF Pops
<1>5. \A u \in K : u \notin K2 <=> ix[v] <= ix[u]
  BY <1>2, <1>3, <1>4
<1>6. ASSUME NEW u \in K \ K2 PROVE adj[u] \subseteq DOMAIN ix \ K2
<2> SUFFICES ASSUME NEW w \in adj[u] PROVE w \in DOMAIN ix \ K2
  OBVIOUS
<2>1. Seen(adj, ds, u) = adj[u]
  BY <1>1, <1>2, <1>5, <1>6, SeenAll
<2>2. w \in DOMAIN ix
  BY <1>3, <1>6, <2>1 DEF Looked
<2>3. CASE w \in K
<3>1. Between(ix, ds, n, u)
  BY <1>1, <1>2, <1>5, <1>6 DEF Between
<3>2. lo[v] <= ix[w]
  BY <1>1, <1>2, <1>6, <2>1, <2>3, <3>1 DEF Search, LowBounds
<3> QED
  BY <1>4, <1>5, <2>2, <2>3, <3>2
<2> QED
  BY <1>4, <2>2, <2>3
<1>7. Behind(adj, ix, K2)
<2> SUFFICES ASSUME NEW u \in DOMAIN ix \ K2 PROVE adj[u] \subseteq DOMAIN ix \ K2
  BY DEF Behind
<2>1. CASE u \in K
  BY <1>6, <2>1
<2>2. CASE u \notin K
<3>1. adj[u] \subseteq DOMAIN ix \ K
  BY <2>2 DEF Search, Behind
<3> QED
  BY <1>4, <3>1
<2> QED
  BY <2>1, <2>2
<1>8. v \in Vertex /\ v \notin K2
  BY <1>2, <1>3, <1>4
\* Everything in the component reaches v and is reached.
<1>9. ASSUME NEW u \in K \ K2 PROVE u \in Mutual(adj, v)
<2>1. u \in Vertex /\ ix[v] <= ix[u]
  BY <1>3, <1>5, <1>9
<2>2. u \in Spread(v, adj)
  BY <1>1, <1>2, <1>9, <2>1 DEF Search, Down
<2>3. PICK i \in 1..n : ds[i].v \in Spread(u, adj)
  BY <1>1, <1>9 DEF Search, Up
<2>4. v \in Spread(ds[i].v, adj)
<3>1. ix[ds[i].v] <= ix[v]
<4>1. CASE i = n
  BY <1>2, <1>3, <4>1
<4>2. CASE i # n
  BY <1>1, <1>2, <1>3, <4>2
<4> QED
  BY <4>1, <4>2
<3> QED
  BY <1>1, <1>2, <3>1 DEF Search, Down
<2>5. v \in Spread(u, adj)
  BY <1>3, <2>1, <2>3, <2>4, Reaches
<2> QED
  BY <2>1, <2>2, <2>5 DEF Mutual
\* Nothing else does.
<1>10. ASSUME NEW u \in Mutual(adj, v) PROVE u \in K \ K2
<2>1. u \in Vertex /\ u \in Spread(v, adj) /\ v \in Spread(u, adj)
  BY <1>10 DEF Mutual
<2>2. Spread(v, adj) \subseteq DOMAIN ix \ K2
<3>1. v \in DOMAIN ix \ K2
  BY <1>2, <1>3, <1>8
<3>2. Closed(DOMAIN ix \ K2, adj)
  BY <1>7 DEF Behind, Closed
<3> QED
  BY <1>3, <1>8, <3>1, <3>2, SpreadLeast
<2>3. ASSUME u \notin K PROVE FALSE
<3>1. u \in DOMAIN ix \ K
  BY <2>1, <2>2, <2>3
<3>2. Closed(DOMAIN ix \ K, adj)
  BY DEF Search, Behind, Closed
<3>3. Spread(u, adj) \subseteq DOMAIN ix \ K
  BY <1>3, <2>1, <3>1, <3>2, SpreadLeast
<3> QED
  BY <1>2, <2>1, <3>3
<2> QED
  BY <2>1, <2>2, <2>3
<1>11. K \ K2 = Mutual(adj, v)
  BY <1>9, <1>10
<1> QED
  BY <1>1, <1>2, <1>7, <1>11

\* What of a search holds for the vertices that stay, whichever these are.
LEMMA RetreatKeeps ==
  ASSUME NEW adj, NEW ix, NEW lo, NEW K, NEW ds, NEW lo2, NEW ds2, NEW K2,
         Search(adj, ix, lo, K, ds), Retreats(adj, ix, lo, K, ds, lo2, ds2),
         Pops(ix, lo, K, ds, K2) \/ Inherits(ix, lo, K, ds, K2)
  PROVE  Frames(adj, ix, lo2, K2, ds2) /\ Down(adj, ix, K2, ds2)
<1>1. PICK n \in Nat : n = Len(ds) /\ n > 0 /\ n \in 1..n /\ Len(ds2) = n - 1
  BY DEF Search, Frames, Retreats
<1>2. ds2 \in Seq(Frame) /\ \A i \in 1..n - 1 : ds2[i] = ds[i] /\ i \in 1..n /\ i < n
  BY <1>1 DEF Retreats
<1>3. /\ \A i \in 1..n : ds[i].v \in K /\ ds[i].todo \subseteq adj[ds[i].v]
      /\ \A i, j \in 1..n : i < j => ix[ds[i].v] < ix[ds[j].v]
      /\ ix \in [DOMAIN ix -> Nat] /\ DOMAIN ix \subseteq Vertex /\ K \subseteq DOMAIN ix
      /\ adj \in Steps
  BY <1>1 DEF Search, Frames
<1>4. K2 \subseteq K
  BY DEF Pops, Inherits
<1>5. ASSUME NEW i \in 1..n - 1 PROVE ds2[i].v \in K2
<2>1. ix[ds[i].v] < ix[ds[n].v] /\ ds[i].v \in K
  BY <1>1, <1>2, <1>3
<2> QED
  BY <1>1, <1>2, <2>1 DEF Pops, Inherits
<1>6. \A i, j \in 1..n - 1 : i < j => ix[ds2[i].v] < ix[ds2[j].v]
  BY <1>2, <1>3
<1>7. \A i \in 1..n - 1 : ds2[i].todo \subseteq adj[ds2[i].v]
  BY <1>2, <1>3
<1>8. lo2 \in [Vertex -> Nat]
  BY RetreatTypes
<1>9. Frames(adj, ix, lo2, K2, ds2)
  BY <1>1, <1>2, <1>3, <1>4, <1>5, <1>6, <1>7, <1>8 DEF Frames
<1>10. Down(adj, ix, K2, ds2)
<2>1. Down(adj, ix, K, ds)
  BY DEF Search
<2> QED
  BY <1>1, <1>2, <1>4, <2>1 DEF Down
<1> QED
  BY <1>9, <1>10

LEMMA SearchPops ==
  ASSUME CyclesAssumption,
         NEW adj, NEW ix, NEW lo, NEW K, NEW ds, NEW lo2, NEW ds2, NEW K2,
         Search(adj, ix, lo, K, ds), Looked(adj, ds, DOMAIN ix, DOMAIN ix),
         Retreats(adj, ix, lo, K, ds, lo2, ds2), Pops(ix, lo, K, ds, K2)
  PROVE  Search(adj, ix, lo2, K2, ds2)
<1>1. PICK n \in Nat : n = Len(ds) /\ n > 0 /\ n \in 1..n /\ Len(ds2) = n - 1
  BY DEF Search, Frames, Retreats
<1>2. \A i \in 1..n - 1 : ds2[i] = ds[i] /\ i \in 1..n /\ i < n
  BY <1>1 DEF Retreats
<1>3. PICK v : v = ds[n].v /\ v \in K /\ lo[v] = ix[v] /\ K2 = {u \in K : ix[u] < ix[v]}
  BY <1>1 DEF Search, Frames, Pops
<1>4. /\ \A i \in 1..n : ds[i].v \in K /\ ds[i].v \in Vertex
      /\ \A i \in 1..n : i < n => ix[ds[i].v] < ix[v]
      /\ \A x \in K : ix[x] \in Nat
      /\ lo \in [Vertex -> Nat]
  BY <1>1, <1>3 DEF Search, Frames
<1>5. Frames(adj, ix, lo2, K2, ds2) /\ Down(adj, ix, K2, ds2)
  BY RetreatKeeps
<1>6. Behind(adj, ix, K2)
<2>1. Len(ds) > 0 /\ ds[Len(ds)].todo = {}
  BY DEF Retreats
<2> QED
  BY <2>1, PoppedComponent
<1>7. Up(adj, ix, K2, ds2)
<2> SUFFICES ASSUME NEW u \in K2
             PROVE  \E i \in 1..n - 1 : ix[ds[i].v] <= ix[u] /\ ds[i].v \in Spread(u, adj)
  BY <1>1, <1>2 DEF Up
<2>1. PICK i \in 1..n : ix[ds[i].v] <= ix[u] /\ ds[i].v \in Spread(u, adj)
  BY <1>1, <1>3 DEF Search, Up
<2>2. i # n
  BY <1>3, <1>4, <2>1
<2>3. i \in 1..n - 1
  BY <1>1, <2>2
<2> QED
  BY <2>1, <2>3
\* The parent's lowlink is less than the index of v.
<1>8. ASSUME NEW i \in 1..n - 1
      PROVE  \E x \in K2 : /\ lo[ds[i].v] = ix[x] /\ ix[x] <= ix[ds[i].v]
                           /\ x \in Spread(ds[i].v, adj) /\ lo2[ds[i].v] = lo[ds[i].v]
<2>1. PICK x \in K : lo[ds[i].v] = ix[x] /\ ix[x] <= ix[ds[i].v] /\ x \in Spread(ds[i].v, adj)
  BY <1>1, <1>2 DEF Search, LowReached
<2>2. ix[ds[i].v] < ix[v] /\ ix[x] \in Nat /\ ix[v] \in Nat /\ ix[ds[i].v] \in Nat
  BY <1>2, <1>3, <1>4
<2>3. ix[x] < ix[v]
  BY <2>1, <2>2
<2>4. lo2[ds[i].v] = lo[ds[i].v]
<3>1. CASE i < n - 1
  BY <1>1, <1>2, <3>1, RetreatTypes
<3>2. CASE ~(i < n - 1)
<4>1. i = n - 1 /\ i \in 1..n
  BY <1>1, <1>2, <3>2
<4>2. lo2[ds[i].v] = IF lo[ds[i].v] <= lo[v] THEN lo[ds[i].v] ELSE lo[v]
  BY <1>1, <1>3, <4>1, RetreatTypes
<4>3. lo[ds[i].v] <= lo[v]
  BY <1>3, <2>1, <2>2, <2>3
<4> QED
  BY <4>2, <4>3
<3> QED
  BY <3>1, <3>2
<2> QED
  BY <1>3, <2>1, <2>3, <2>4
<1>9. LowReached(adj, ix, lo2, K2, ds2)
  BY <1>1, <1>2, <1>8 DEF LowReached
<1>10. LowBounds(adj, ix, lo2, K2, ds2)
<2> SUFFICES ASSUME NEW i \in 1..n - 1, NEW u \in K2, NEW w \in K2,
                    Between(ix, ds2, i, u), w \in Seen(adj, ds2, u)
             PROVE  lo2[ds[i].v] <= ix[w]
  BY <1>1, <1>2 DEF LowBounds
<2>1. w \in Seen(adj, ds, u)
  BY SeenRetreat
<2>2. Between(ix, ds, i, u)
<3>1. ix[ds[i].v] <= ix[u]
  BY <1>2 DEF Between
<3>2. CASE i = n - 1
  BY <1>1, <1>3, <3>1, <3>2 DEF Between
<3>3. CASE i # n - 1
<4>1. i + 1 \in 1..n - 1 /\ i < n - 1
  BY <1>1, <3>3
<4>2. ix[u] < ix[ds[i + 1].v]
  BY <1>1, <1>2, <4>1 DEF Between
<4> QED
  BY <3>1, <4>2 DEF Between
<3> QED
  BY <3>2, <3>3
<2>3. lo[ds[i].v] <= ix[w]
  BY <1>1, <1>2, <1>3, <2>1, <2>2 DEF Search, LowBounds
<2> QED
  BY <1>8, <2>3
<1> QED
  BY <1>5, <1>6, <1>7, <1>9, <1>10 DEF Search

LEMMA SearchInherits ==
  ASSUME CyclesAssumption,
         NEW adj, NEW ix, NEW lo, NEW K, NEW ds, NEW lo2, NEW ds2,
         Search(adj, ix, lo, K, ds), Retreats(adj, ix, lo, K, ds, lo2, ds2),
         Inherits(ix, lo, K, ds, K)
  PROVE  Search(adj, ix, lo2, K, ds2)
<1>1. PICK n \in Nat : n = Len(ds) /\ n > 0 /\ n \in 1..n /\ Len(ds2) = n - 1
  BY DEF Search, Frames, Retreats
<1>2. \A i \in 1..n - 1 : ds2[i] = ds[i] /\ i \in 1..n /\ i < n
  BY <1>1 DEF Retreats
<1>3. PICK v : v = ds[n].v /\ v \in K /\ lo[v] # ix[v]
  BY <1>1 DEF Search, Frames, Inherits
<1>4. /\ \A i \in 1..n : ds[i].v \in K
      /\ \A i \in 1..n : i < n => ix[ds[i].v] < ix[v]
      /\ \A x \in K : ix[x] \in Nat /\ x \in Vertex /\ lo[x] \in Nat
      /\ adj \in Steps
  BY <1>1, <1>3 DEF Search, Frames
<1>5. Frames(adj, ix, lo2, K, ds2) /\ Down(adj, ix, K, ds2)
  BY RetreatKeeps
<1>6. Behind(adj, ix, K)
  BY DEF Search
\* v reaches a vertex below it on the stack, and that one of the search.
<1>7. PICK x \in K : lo[v] = ix[x] /\ ix[x] < ix[v] /\ x \in Spread(v, adj)
<2>1. PICK x \in K : lo[v] = ix[x] /\ ix[x] <= ix[v] /\ x \in Spread(v, adj)
  BY <1>1, <1>3 DEF Search, LowReached
<2>2. ix[x] # ix[v] /\ ix[x] \in Nat /\ ix[v] \in Nat
  BY <1>3, <1>4, <2>1
<2> QED
  BY <2>1, <2>2
<1>8. PICK j \in 1..n : ix[ds[j].v] <= ix[x] /\ ds[j].v \in Spread(x, adj)
  BY <1>1 DEF Search, Up
<1>9. j \in 1..n - 1
<2>1. j # n
  BY <1>3, <1>4, <1>7, <1>8
<2> QED
  BY <1>1, <2>1
<1>10. Up(adj, ix, K, ds2)
<2> SUFFICES ASSUME NEW u \in K
             PROVE  \E i \in 1..n - 1 : ix[ds[i].v] <= ix[u] /\ ds[i].v \in Spread(u, adj)
  BY <1>1, <1>2 DEF Up
<2>1. PICK i \in 1..n : ix[ds[i].v] <= ix[u] /\ ds[i].v \in Spread(u, adj)
  BY <1>1 DEF Search, Up
<2>2. CASE i # n
<3>1. i \in 1..n - 1
  BY <1>1, <2>2
<3> QED
  BY <2>1, <3>1
<2>3. CASE i = n
<3>1. x \in Spread(u, adj)
  BY <1>3, <1>4, <1>7, <2>1, <2>3, Reaches
<3>2. ds[j].v \in Spread(u, adj)
  BY <1>4, <1>8, <3>1, Reaches
<3>3. ix[ds[j].v] <= ix[u]
<4>1. ix[ds[j].v] \in Nat /\ ix[x] \in Nat /\ ix[v] \in Nat /\ ix[u] \in Nat /\ ix[v] <= ix[u]
  BY <1>3, <1>4, <2>1, <2>3
<4> QED
  BY <1>7, <1>8, <4>1
<3> QED
  BY <1>9, <3>2, <3>3
<2> QED
  BY <2>2, <2>3
<1>11. ASSUME NEW i \in 1..n - 1
       PROVE  /\ lo2[ds[i].v] \in Nat /\ lo2[ds[i].v] <= lo[ds[i].v]
              /\ i = n - 1 => lo2[ds[i].v] <= lo[v]
              /\ lo2[ds[i].v] = lo[ds[i].v]
                 \/ (i = n - 1 /\ lo2[ds[i].v] = lo[v] /\ lo[v] <= lo[ds[i].v])
<2>1. i \in 1..n /\ lo[ds[i].v] \in Nat /\ lo[v] \in Nat
  BY <1>2, <1>3, <1>4
<2>2. CASE i < n - 1
<3>1. lo2[ds[i].v] = lo[ds[i].v]
  BY <1>1, <2>1, <2>2, RetreatTypes
<3> QED
  BY <1>1, <2>1, <2>2, <3>1
<2>3. CASE ~(i < n - 1)
<3>1. i = n - 1
  BY <1>1, <2>3
<3>2. lo2[ds[i].v] = IF lo[ds[i].v] <= lo[v] THEN lo[ds[i].v] ELSE lo[v]
  BY <1>1, <1>3, <2>1, <3>1, RetreatTypes
<3> QED
  BY <2>1, <3>1, <3>2
<2> QED
  BY <2>2, <2>3
<1>12. LowReached(adj, ix, lo2, K, ds2)
<2> SUFFICES ASSUME NEW i \in 1..n - 1
             PROVE  \E y \in K : /\ lo2[ds[i].v] = ix[y] /\ ix[y] <= ix[ds[i].v]
                                 /\ y \in Spread(ds[i].v, adj)
  BY <1>1, <1>2 DEF LowReached
<2>1. PICK y \in K : lo[ds[i].v] = ix[y] /\ ix[y] <= ix[ds[i].v] /\ y \in Spread(ds[i].v, adj)
  BY <1>1, <1>2 DEF Search, LowReached
<2>2. CASE lo2[ds[i].v] = lo[ds[i].v]
  BY <2>1, <2>2
<2>3. CASE lo2[ds[i].v] # lo[ds[i].v]
<3>1. lo2[ds[i].v] = lo[v] /\ lo[v] <= lo[ds[i].v]
  BY <1>11, <2>3
<3>2. v \in Spread(ds[i].v, adj)
<4>1. ix[ds[i].v] <= ix[v]
  BY <1>2, <1>3, <1>4
<4> QED
  BY <1>1, <1>2, <1>3, <4>1 DEF Search, Down
<3>3. x \in Spread(ds[i].v, adj)
<4>1. ds[i].v \in Vertex
  BY <1>2, <1>4
<4> QED
  BY <1>4, <1>7, <3>2, <4>1, Reaches
<3>4. ix[x] <= ix[ds[i].v]
<4>1. ix[x] <= ix[y] /\ ix[x] \in Nat /\ ix[y] \in Nat /\ ix[ds[i].v] \in Nat
  BY <1>2, <1>4, <1>7, <2>1, <3>1
<4> QED
  BY <2>1, <4>1
<3> QED
  BY <1>7, <3>1, <3>3, <3>4
<2> QED
  BY <2>2, <2>3
<1>13. LowBounds(adj, ix, lo2, K, ds2)
<2> SUFFICES ASSUME NEW i \in 1..n - 1, NEW u \in K, NEW w \in K,
                    Between(ix, ds2, i, u), w \in Seen(adj, ds2, u)
             PROVE  lo2[ds[i].v] <= ix[w]
  BY <1>1, <1>2 DEF LowBounds
<2>1. w \in Seen(adj, ds, u)
  BY SeenRetreat
<2>2. ix[ds[i].v] <= ix[u]
  BY <1>2 DEF Between
<2>3. ix[w] \in Nat /\ lo[v] \in Nat /\ lo[ds[i].v] \in Nat /\ ix[u] \in Nat /\ ix[v] \in Nat
  BY <1>2, <1>3, <1>4
<2>4. CASE Between(ix, ds, i, u)
<3>1. lo[ds[i].v] <= ix[w]
  BY <1>1, <1>2, <2>1, <2>4 DEF Search, LowBounds
<3> QED
  BY <1>11, <2>3, <3>1
<2>5. CASE ~Between(ix, ds, i, u)
<3>1. i = n - 1 /\ ix[v] <= ix[u]
<4>1. ASSUME i # n - 1 PROVE FALSE
<5>1. i + 1 \in 1..n - 1 /\ i < n - 1
  BY <1>1, <4>1
<5>2. ix[u] < ix[ds[i + 1].v]
  BY <1>1, <1>2, <5>1 DEF Between
<5> QED
  BY <2>2, <2>5, <5>2 DEF Between
<4>2. i + 1 = n /\ i < n
  BY <1>1, <4>1
<4>3. ~(ix[u] < ix[v])
  BY <1>1, <1>3, <2>2, <2>5, <4>2 DEF Between
<4> QED
  BY <2>3, <4>1, <4>3
<3>2. Between(ix, ds, n, u)
  BY <1>1, <1>3, <3>1 DEF Between
<3>3. lo[v] <= ix[w]
  BY <1>1, <1>3, <2>1, <3>2 DEF Search, LowBounds
<3> QED
  BY <1>11, <2>3, <3>1, <3>3
<2> QED
  BY <2>4, <2>5
<1> QED
  BY <1>5, <1>6, <1>10, <1>12, <1>13 DEF Search

(***************************************************************************)
(* The sequences of the search.                                            *)
(***************************************************************************)
Injective(s) == \A i, j \in 1..Len(s) : s[i] = s[j] => i = j

\* The index of every vertex discovered.
Ranks(fo) == [u \in ToSet(fo) |-> CHOOSE i \in DOMAIN fo : fo[i] = u]

LEMMA ToSetIs ==
  ASSUME NEW S, NEW s \in Seq(S)
  PROVE  /\ ToSet(s) \subseteq S /\ Len(s) \in Nat /\ DOMAIN s = 1..Len(s)
         /\ \A x : x \in ToSet(s) <=> \E i \in 1..Len(s) : s[i] = x
         /\ \A i \in 1..Len(s) : s[i] \in ToSet(s)
<1>1. Len(s) \in Nat /\ DOMAIN s = 1..Len(s) /\ \A i \in 1..Len(s) : s[i] \in S
  BY LenProperties, ElementOfSeq
<1> QED
  BY <1>1 DEF ToSet

LEMMA ToSetAppend ==
  ASSUME NEW S, NEW s \in Seq(S), NEW x \in S
  PROVE  ToSet(Append(s, x)) = ToSet(s) \cup {x}
<1>1. PICK t \in Seq(S) : t = Append(s, x)
  BY AppendProperties
<1>2. PICK n \in Nat : n = Len(s)
  BY ToSetIs
<1>3. Len(t) = n + 1 /\ t[n + 1] = x /\ \A i \in 1..n : t[i] = s[i]
  BY <1>1, <1>2, AppendProperties
<1>4. \A y : y \in ToSet(t) <=> \E i \in 1..(n + 1) : t[i] = y
  BY <1>3, ToSetIs
<1>5. \A y : y \in ToSet(s) <=> \E i \in 1..n : s[i] = y
  BY <1>2, ToSetIs
<1>6. \A y \in ToSet(t) : y \in ToSet(s) \cup {x}
<2> SUFFICES ASSUME NEW y \in ToSet(t), y # x PROVE y \in ToSet(s)
  OBVIOUS
<2>1. PICK i \in 1..(n + 1) : t[i] = y
  BY <1>4
<2>2. i \in 1..n
  BY <1>3, <2>1
<2> QED
  BY <1>3, <1>5, <2>1, <2>2
<1>7. \A y \in ToSet(s) : y \in ToSet(t)
<2> SUFFICES ASSUME NEW y \in ToSet(s) PROVE y \in ToSet(t)
  OBVIOUS
<2>1. PICK i \in 1..n : s[i] = y
  BY <1>5
<2>2. i \in 1..(n + 1)
  OBVIOUS
<2> QED
  BY <1>3, <1>4, <2>1, <2>2
<1>8. x \in ToSet(t)
<2>1. n + 1 \in 1..(n + 1)
  OBVIOUS
<2> QED
  BY <1>3, <1>4, <2>1
<1> QED
  BY <1>1, <1>6, <1>7, <1>8

\* All but the last element.
LEMMA FrontIs ==
  ASSUME NEW S, NEW s \in Seq(S), Len(s) > 0
  PROVE  /\ Len(s) \in Nat /\ Len(s) \in 1..Len(s) /\ Last(s) = s[Len(s)] /\ Last(s) \in S
         /\ Front(s) \in Seq(S) /\ Len(Front(s)) = Len(s) - 1
         /\ \A i \in 1..Len(s) - 1 : Front(s)[i] = s[i]
<1>1. PICK n \in Nat : n = Len(s) /\ n > 0 /\ n \in 1..n
  BY ToSetIs
<1>2. \A i \in 1..n : s[i] \in S
  BY <1>1, ElementOfSeq
<1>3. \A i \in 1..n - 1 : s[i] \in S
  BY <1>2
<1>4. 1 \in Int /\ n - 1 \in Int
  BY <1>1
<1>5. /\ SubSeq(s, 1, n - 1) \in Seq(S)
      /\ Len(SubSeq(s, 1, n - 1)) = IF 1 <= n - 1 THEN (n - 1) - 1 + 1 ELSE 0
      /\ \A i \in 1..(n - 1) - 1 + 1 : SubSeq(s, 1, n - 1)[i] = s[1 + i - 1]
  BY <1>3, <1>4, SubSeqProperties
<1>6. Front(s) = SubSeq(s, 1, n - 1)
  BY <1>1 DEF Front
<1>7. Len(Front(s)) = n - 1
  BY <1>1, <1>5, <1>6
<1>8. ASSUME NEW i \in 1..n - 1 PROVE Front(s)[i] = s[i]
<2>1. i \in 1..(n - 1) - 1 + 1 /\ 1 + i - 1 = i
  BY <1>1
<2> QED
  BY <1>5, <1>6, <2>1
<1> QED
  BY <1>1, <1>2, <1>5, <1>6, <1>7, <1>8 DEF Last

\* The last element replaced.
LEMMA ReplaceLast ==
  ASSUME NEW S, NEW s \in Seq(S), Len(s) > 0, NEW e \in S
  PROVE  /\ Append(Front(s), e) \in Seq(S) /\ Len(Append(Front(s), e)) = Len(s)
         /\ Append(Front(s), e)[Len(s)] = e
         /\ \A i \in 1..Len(s) : i # Len(s) => Append(Front(s), e)[i] = s[i]
<1>1. PICK n \in Nat : n = Len(s) /\ n > 0 /\ n - 1 \in Nat /\ (n - 1) + 1 = n
  BY FrontIs
<1>2. PICK f \in Seq(S) : f = Front(s) /\ Len(f) = n - 1 /\ \A i \in 1..n - 1 : f[i] = s[i]
  BY <1>1, FrontIs
<1>3. PICK t \in Seq(S) : t = Append(f, e)
  BY AppendProperties
<1>4. /\ Len(t) = Len(f) + 1 /\ t[Len(f) + 1] = e
      /\ \A i \in 1..Len(f) : t[i] = f[i]
  BY <1>3, AppendProperties
<1>5. \A i \in 1..n : i # n => i \in 1..n - 1
  BY <1>1
<1>6. Len(t) = n /\ t[n] = e /\ \A i \in 1..n : i # n => t[i] = s[i]
  BY <1>1, <1>2, <1>4, <1>5
<1> QED
  BY <1>1, <1>2, <1>3, <1>6

RanksOf(fo) ==
  /\ DOMAIN Ranks(fo) = ToSet(fo) /\ ToSet(fo) \subseteq Vertex
  /\ \A i \in 1..Len(fo) : fo[i] \in ToSet(fo) /\ Ranks(fo)[fo[i]] = i
  /\ \A u \in ToSet(fo) : Ranks(fo)[u] \in 1..Len(fo) /\ fo[Ranks(fo)[u]] = u

LEMMA RanksIs ==
  ASSUME NEW fo \in Seq(Vertex), Injective(fo)
  PROVE  RanksOf(fo)
<1>1. /\ ToSet(fo) \subseteq Vertex /\ Len(fo) \in Nat /\ DOMAIN fo = 1..Len(fo)
      /\ \A x : x \in ToSet(fo) <=> \E i \in 1..Len(fo) : fo[i] = x
      /\ \A i \in 1..Len(fo) : fo[i] \in ToSet(fo)
  BY ToSetIs
<1>2. ASSUME NEW u \in ToSet(fo) PROVE Ranks(fo)[u] \in 1..Len(fo) /\ fo[Ranks(fo)[u]] = u
  BY <1>1, <1>2 DEF Ranks
<1>3. ASSUME NEW i \in 1..Len(fo) PROVE Ranks(fo)[fo[i]] = i
  BY <1>1, <1>2 DEF Injective
<1>4. DOMAIN Ranks(fo) = ToSet(fo)
  BY DEF Ranks
<1> QED
  BY <1>1, <1>2, <1>3, <1>4 DEF RanksOf

LEMMA RanksAppend ==
  ASSUME NEW fo \in Seq(Vertex), Injective(fo), NEW w \in Vertex \ ToSet(fo)
  PROVE  /\ Append(fo, w) \in Seq(Vertex) /\ Injective(Append(fo, w))
         /\ ToSet(Append(fo, w)) = ToSet(fo) \cup {w}
         /\ Ranks(Append(fo, w)) = [u \in ToSet(fo) \cup {w} |->
                                      IF u = w THEN Len(fo) + 1 ELSE Ranks(fo)[u]]
<1>1. PICK t \in Seq(Vertex) : t = Append(fo, w)
  BY AppendProperties
<1>2. PICK n \in Nat : n = Len(fo)
  BY ToSetIs
<1>3. Len(t) = n + 1 /\ t[n + 1] = w /\ \A i \in 1..n : t[i] = fo[i]
  BY <1>1, <1>2, AppendProperties
<1>4. ToSet(t) = ToSet(fo) \cup {w}
  BY <1>1, ToSetAppend
<1>5. \A i \in 1..n : fo[i] \in ToSet(fo) /\ fo[i] # w
  BY <1>2, ToSetIs
<1>6. Injective(t)
<2> SUFFICES ASSUME NEW i \in 1..(n + 1), NEW j \in 1..(n + 1), t[i] = t[j] PROVE i = j
  BY <1>3 DEF Injective
<2>1. \A k \in 1..(n + 1) : k # n + 1 => k \in 1..n
  OBVIOUS
<2>2. CASE i = n + 1
  BY <1>3, <1>5, <2>1, <2>2
<2>3. CASE i # n + 1
<3>1. i \in 1..n /\ t[i] = fo[i] /\ fo[i] # w
  BY <1>3, <1>5, <2>1, <2>3
<3>2. j \in 1..n /\ t[j] = fo[j]
  BY <1>3, <2>1, <3>1
<3> QED
  BY <1>2, <3>1, <3>2 DEF Injective
<2> QED
  BY <2>2, <2>3
<1>7. RanksOf(t) /\ RanksOf(fo)
  BY <1>6, RanksIs
<1> DEFINE r == [u \in ToSet(fo) \cup {w} |-> IF u = w THEN n + 1 ELSE Ranks(fo)[u]]
<1>8. ASSUME NEW u \in ToSet(t) PROVE Ranks(t)[u] = r[u]
<2>1. CASE u = w
<3>1. n + 1 \in 1..Len(t)
  BY <1>3
<3> QED
  BY <1>3, <1>4, <1>7, <2>1, <3>1 DEF RanksOf
<2>2. CASE u # w
<3>1. PICK i \in 1..n : i = Ranks(fo)[u] /\ fo[i] = u
  BY <1>2, <1>4, <1>7, <2>2 DEF RanksOf
<3>2. i \in 1..Len(t) /\ t[i] = u
  BY <1>3, <3>1
<3>3. Ranks(t)[u] = i
  BY <1>7, <3>2 DEF RanksOf
<3> QED
  BY <1>4, <2>2, <3>1, <3>3
<2> QED
  BY <2>1, <2>2
<1>9. Ranks(t) = r
<2>1. Ranks(t) = [u \in ToSet(t) |-> Ranks(t)[u]]
  BY DEF Ranks
<2> QED
  BY <1>4, <1>8, <2>1
<1> QED
  BY <1>1, <1>2, <1>4, <1>6, <1>9

\* The stack is in the order of the indices.
Rising(ix, st) == \A i, j \in 1..Len(st) : i < j => ix[st[i]] < ix[st[j]]

LEMMA RisingPush ==
  ASSUME NEW st \in Seq(Vertex), NEW ix, NEW ix2, NEW w \in Vertex, NEW N \in Nat, Rising(ix, st),
         \A u \in ToSet(st) : ix2[u] = ix[u] /\ ix[u] < N, ix2[w] = N
  PROVE  Rising(ix2, Append(st, w))
<1>1. PICK t \in Seq(Vertex) : t = Append(st, w)
  BY AppendProperties
<1>2. PICK n \in Nat : n = Len(st)
  BY ToSetIs
<1>3. Len(t) = n + 1 /\ t[n + 1] = w /\ \A i \in 1..n : t[i] = st[i]
  BY <1>1, <1>2, AppendProperties
<1>4. \A i \in 1..n : st[i] \in ToSet(st)
  BY <1>2, ToSetIs
<1> SUFFICES ASSUME NEW i \in 1..(n + 1), NEW j \in 1..(n + 1), i < j
             PROVE  ix2[t[i]] < ix2[t[j]]
  BY <1>1, <1>3 DEF Rising
<1>5. i \in 1..n /\ ix2[t[i]] = ix[st[i]] /\ ix[st[i]] < N
<2>1. i \in 1..n
  OBVIOUS
<2> QED
  BY <1>3, <1>4, <2>1
<1>6. CASE j = n + 1
  BY <1>3, <1>5, <1>6
<1>7. CASE j # n + 1
<2>1. j \in 1..n
  BY <1>7
<2>2. ix2[t[j]] = ix[st[j]]
  BY <1>3, <1>4, <2>1
<2> QED
  BY <1>2, <1>5, <2>1, <2>2 DEF Rising
<1> QED
  BY <1>6, <1>7

\* Cutting the stack off below v leaves what has a lesser index.
LEMMA RisingPop ==
  ASSUME NEW st \in Seq(Vertex), NEW ix, Rising(ix, st), \A u \in ToSet(st) : ix[u] \in Nat,
         NEW v \in ToSet(st), NEW at \in 1..Len(st), st[at] = v
  PROVE  /\ SubSeq(st, 1, at - 1) \in Seq(Vertex) /\ Rising(ix, SubSeq(st, 1, at - 1))
         /\ ToSet(SubSeq(st, 1, at - 1)) = {u \in ToSet(st) : ix[u] < ix[v]}
         /\ {st[i] : i \in at..Len(st)} = {u \in ToSet(st) : ~(ix[u] < ix[v])}
<1>1. PICK n \in Nat : n = Len(st) /\ DOMAIN st = 1..n
  BY ToSetIs
<1>2. PICK k \in 1..n : k = at /\ st[k] = v
  BY <1>1
<1>3. \A i \in 1..n : st[i] \in Vertex /\ st[i] \in ToSet(st) /\ ix[st[i]] \in Nat
<2>1. \A i \in 1..n : st[i] \in ToSet(st) /\ st[i] \in Vertex
  BY <1>1, ToSetIs, ElementOfSeq
<2> QED
  BY <2>1
<1>4. PICK t : t = SubSeq(st, 1, k - 1)
  OBVIOUS
<1>5. k - 1 \in Nat /\ 1 \in Int /\ k - 1 \in Int /\ \A i \in 1..k - 1 : i \in 1..n /\ i < k
  OBVIOUS
<1>6. /\ t \in Seq(Vertex) /\ Len(t) = k - 1
      /\ \A i \in 1..k - 1 : t[i] = st[i]
<2>1. /\ SubSeq(st, 1, k - 1) \in Seq(Vertex)
      /\ Len(SubSeq(st, 1, k - 1)) = IF 1 <= k - 1 THEN (k - 1) - 1 + 1 ELSE 0
      /\ \A i \in 1..(k - 1) - 1 + 1 : SubSeq(st, 1, k - 1)[i] = st[1 + i - 1]
  BY <1>3, <1>5, SubSeqProperties
<2>2. \A i \in 1..k - 1 : i \in 1..(k - 1) - 1 + 1 /\ 1 + i - 1 = i
  BY <1>5
<2>3. Len(t) = k - 1
  BY <1>4, <1>5, <2>1
<2> QED
  BY <1>4, <2>1, <2>2, <2>3
<1>7. Rising(ix, t)
  BY <1>1, <1>5, <1>6 DEF Rising
<1>8. \A i \in 1..n : ix[st[i]] < ix[v] <=> i < k
<2> SUFFICES ASSUME NEW i \in 1..n PROVE ix[st[i]] < ix[v] <=> i < k
  OBVIOUS
<2>1. i < k => ix[st[i]] < ix[v]
  BY <1>1, <1>2 DEF Rising
<2>2. k < i => ix[v] < ix[st[i]]
  BY <1>1, <1>2 DEF Rising
<2>3. i = k => ix[st[i]] = ix[v]
  BY <1>2
<2>4. ix[st[i]] \in Nat /\ ix[v] \in Nat /\ i \in Nat /\ k \in Nat
  BY <1>2, <1>3
<2> QED
  BY <2>1, <2>2, <2>3, <2>4
<1>9. ToSet(t) = {u \in ToSet(st) : ix[u] < ix[v]}
<2>1. ASSUME NEW u \in ToSet(t) PROVE u \in ToSet(st) /\ ix[u] < ix[v]
<3>1. PICK i \in 1..k - 1 : t[i] = u
  BY <1>6, ToSetIs
<3> QED
  BY <1>3, <1>5, <1>6, <1>8, <3>1
<2>2. ASSUME NEW u \in ToSet(st), ix[u] < ix[v] PROVE u \in ToSet(t)
<3>1. PICK i \in 1..n : st[i] = u
  BY <1>1, ToSetIs
<3>2. i < k
  BY <1>8, <2>2, <3>1
<3>3. i \in 1..k - 1 /\ t[i] = u
  BY <1>2, <1>6, <3>1, <3>2
<3> QED
  BY <1>6, <3>3, ToSetIs
<2> QED
  BY <2>1, <2>2
<1>10. {st[i] : i \in k..n} = {u \in ToSet(st) : ~(ix[u] < ix[v])}
<2>1. ASSUME NEW i \in k..n PROVE st[i] \in ToSet(st) /\ ~(ix[st[i]] < ix[v])
<3>1. i \in 1..n /\ ~(i < k)
  BY <1>2
<3> QED
  BY <1>3, <1>8, <3>1
<2>2. ASSUME NEW u \in ToSet(st), ~(ix[u] < ix[v]) PROVE \E i \in k..n : st[i] = u
<3>1. PICK i \in 1..n : st[i] = u
  BY <1>1, ToSetIs
<3>2. ~(i < k)
  BY <1>8, <2>2, <3>1
<3>3. i \in k..n
  BY <3>2
<3> QED
  BY <3>1, <3>3
<2> QED
  BY <2>1, <2>2
<1> QED
  BY <1>1, <1>2, <1>4, <1>6, <1>7, <1>9, <1>10

(***************************************************************************)
(* Tarjan's search is what the component does.                             *)
(***************************************************************************)
Onward == [v \in Vertex |-> Adj(v)]

TarjanInv ==
  /\ found \in Seq(Vertex) /\ Injective(found)
  /\ stack \in Seq(Vertex) /\ Rising(Ranks(found), stack)
  /\ Search(Onward, Ranks(found), low, ToSet(stack), dfs)
  /\ Looked(Onward, dfs, ToSet(found), ToSet(found))
  /\ sccs \subseteq Comps(Onward) /\ UNION sccs = ToSet(found) \ ToSet(stack)

LEMMA OnwardType == Onward \in Steps
  BY DEF Onward, Adj, Steps

LEMMA SearchStarts == CyclesAssumption /\ Init => TarjanInv
<1> SUFFICES ASSUME CyclesAssumption, Init PROVE TarjanInv
  OBVIOUS
<1>1. found = <<>> /\ stack = <<>> /\ dfs = <<>> /\ sccs = {} /\ low \in [Vertex -> Nat]
  BY DEF Init
<1>2. <<>> \in Seq(Vertex) /\ <<>> \in Seq(Frame) /\ Len(<<>>) = 0
  BY EmptySeq
<1>3. ToSet(<<>>) = {}
<2>1. \A x : x \in ToSet(<<>>) <=> \E i \in 1..Len(<<>>) : <<>>[i] = x
  BY <1>2, ToSetIs
<2> QED
  BY <1>2, <2>1
<1>4. Injective(<<>>)
  BY <1>2 DEF Injective
<1>5. RanksOf(<<>>)
  BY <1>2, <1>4, RanksIs
<1>6. DOMAIN Ranks(<<>>) = {} /\ Ranks(<<>>) \in [{} -> Nat]
  BY <1>3 DEF Ranks
<1>7. Rising(Ranks(<<>>), <<>>)
  BY <1>2 DEF Rising
<1>8. Frames(Onward, Ranks(<<>>), low, {}, <<>>)
  BY <1>1, <1>2, <1>6, OnwardType DEF Frames
<1>9. Search(Onward, Ranks(<<>>), low, {}, <<>>)
  BY <1>2, <1>6, <1>8 DEF Search, Behind, Down, Up, LowReached, LowBounds
<1>10. Looked(Onward, <<>>, {}, {})
  BY DEF Looked
<1> QED
  BY <1>1, <1>2, <1>3, <1>4, <1>7, <1>9, <1>10 DEF TarjanInv

\* The order of the search after a vertex was discovered.
LEMMA VisitKeeps ==
  ASSUME CyclesAssumption, TarjanInv, NEW w \in Vertex \ ToSet(found), NEW below,
         Search(Onward, Ranks(found), low, ToSet(stack), below),
         Looked(Onward, below, ToSet(found), ToSet(found) \cup {w}),
         Len(below) > 0 => w \in Onward[below[Len(below)].v],
         Visit(w, below), UNCHANGED <<edges, sccs>>
  PROVE  TarjanInv'
<1> DEFINE ix == Ranks(found)
           K == ToSet(stack)
           N == Len(found) + 1
<1>1. found \in Seq(Vertex) /\ Injective(found) /\ stack \in Seq(Vertex)
  BY DEF TarjanInv
<1>2. RanksOf(found) /\ Len(found) \in Nat
  BY <1>1, RanksIs, ToSetIs
<1>3. DOMAIN ix = ToSet(found) /\ \A u \in ToSet(found) : ix[u] \in Nat /\ ix[u] < N
  BY <1>2 DEF RanksOf
<1>4. /\ found' = Append(found, w) /\ stack' = Append(stack, w)
      /\ low' = [low EXCEPT ![w] = N] /\ dfs' = Append(below, [v |-> w, todo |-> Adj(w)])
  BY DEF Visit
<1>5. /\ found' \in Seq(Vertex) /\ Injective(found')
      /\ ToSet(found') = ToSet(found) \cup {w}
      /\ Ranks(found') = [u \in ToSet(found) \cup {w} |-> IF u = w THEN N ELSE ix[u]]
  BY <1>1, <1>4, RanksAppend
<1>6. K \subseteq ToSet(found)
<2>1. K \subseteq DOMAIN ix
  BY DEF TarjanInv, Search, Frames
<2> QED
  BY <1>3, <2>1
<1>7. stack' \in Seq(Vertex) /\ ToSet(stack') = K \cup {w}
  BY <1>1, <1>4, AppendProperties, ToSetAppend
<1>8. N \in Nat /\ Onward[w] = Adj(w)
  BY <1>2 DEF Onward
<1>9. Pushes(Onward, ix, low, K, below, w, N, Ranks(found'), low', dfs')
  BY <1>3, <1>4, <1>5, <1>8 DEF Pushes
<1> HIDE DEF ix, K, N
<1>10. Search(Onward, ix, low, K, below) /\ Looked(Onward, below, DOMAIN ix, DOMAIN ix \cup {w})
  BY <1>3 DEF ix, K
<1>11. /\ Search(Onward, Ranks(found'), low', K \cup {w}, dfs')
       /\ Looked(Onward, dfs', DOMAIN Ranks(found'), DOMAIN Ranks(found'))
  BY <1>9, <1>10, SearchPush
<1>12. DOMAIN Ranks(found') = ToSet(found')
  BY DEF Ranks
<1>13. Rising(Ranks(found'), stack')
<2>1. Rising(ix, stack)
  BY DEF TarjanInv, ix
<2>2. \A u \in ToSet(stack) : Ranks(found')[u] = ix[u] /\ ix[u] < N
  BY <1>3, <1>5, <1>6 DEF K
<2>3. Ranks(found')[w] = N
  BY <1>5
<2> QED
  BY <1>1, <1>4, <1>8, <2>1, <2>2, <2>3, RisingPush
<1>14. Onward' = Onward /\ sccs' = sccs
  BY DEF Onward, Adj, Vertex
<1>15. ToSet(found') \ ToSet(stack') = ToSet(found) \ ToSet(stack)
  BY <1>5, <1>6, <1>7 DEF K
<1>16. sccs \subseteq Comps(Onward) /\ UNION sccs = ToSet(found) \ ToSet(stack)
  BY DEF TarjanInv
<1>17. /\ Search(Onward', Ranks(found'), low', ToSet(stack'), dfs')
       /\ Looked(Onward', dfs', ToSet(found'), ToSet(found'))
  BY <1>7, <1>11, <1>12, <1>14
<1>18. sccs' \subseteq Comps(Onward') /\ UNION sccs' = ToSet(found') \ ToSet(stack')
  BY <1>14, <1>15, <1>16
<1> QED
  BY <1>5, <1>7, <1>13, <1>17, <1>18 DEF TarjanInv

LEMMA StartSearchKeeps ==
  ASSUME CyclesAssumption, TarjanInv, StartSearch
  PROVE  TarjanInv'
<1>1. PICK w : w = Min(Vertex \ ToSet(found))
  OBVIOUS
<1>2. Visit(w, dfs) /\ dfs = <<>> /\ ToSet(found) # Vertex /\ UNCHANGED <<edges, sccs>>
  BY <1>1 DEF StartSearch
<1>3. ToSet(found) \subseteq Vertex
  BY ToSetIs DEF TarjanInv
<1>4. w \in Vertex \ ToSet(found)
<2>1. Vertex \ ToSet(found) # {}
  BY <1>2, <1>3
<2>2. Vertex \in SUBSET Nat
  BY DEF Vertex, CyclesAssumption
<2>3. Vertex \ ToSet(found) \in SUBSET Nat
  BY <2>2
<2> QED
  BY <1>1, <2>1, <2>3, MinIs
<1>5. /\ Search(Onward, Ranks(found), low, ToSet(stack), dfs)
      /\ Looked(Onward, dfs, ToSet(found), ToSet(found) \cup {w})
  BY DEF TarjanInv, Looked
<1>6. ~(Len(dfs) > 0)
  BY <1>2, EmptySeq
<1> QED
  BY <1>2, <1>4, <1>5, <1>6, VisitKeeps

\* The search with the edge of the last vertex taken.
LEMMA EdgeTaken ==
  ASSUME TarjanInv, TakeEdge
  PROVE  \E w, below, lo2 :
           /\ Looks(Onward, Ranks(found), low, ToSet(stack), dfs, w, lo2, below)
           /\ w \in Vertex /\ Len(below) > 0 /\ w \in Onward[below[Len(below)].v]
           /\ \/ w \notin ToSet(found) /\ lo2 = low /\ Visit(w, below)
              \/ w \in ToSet(found) /\ low' = lo2 /\ dfs' = below /\ UNCHANGED <<found, stack>>
<1>1. dfs \in Seq(Frame) /\ dfs # <<>> /\ Last(dfs).todo # {}
  BY DEF TarjanInv, Search, Frames, TakeEdge
<1>2. Len(dfs) > 0
  BY <1>1
<1>3. PICK n \in Nat : n = Len(dfs) /\ n \in 1..n
  BY <1>1, <1>2, FrontIs
<1>4. PICK top \in Frame : top = Last(dfs) /\ top = dfs[n]
  BY <1>1, <1>2, <1>3, FrontIs
<1>5. PICK w : w = Min(top.todo)
  OBVIOUS
<1>6. w \in top.todo /\ w \in Vertex
<2>1. top.todo \in SUBSET Vertex
  BY <1>4 DEF Frame
<2>2. top.todo \in SUBSET Nat /\ top.todo # {}
  BY <1>1, <1>4, <2>1 DEF Vertex
<2>3. w \in top.todo
  BY <1>5, <2>2, MinIs
<2> QED
  BY <2>1, <2>3
<1>7. PICK left \in Frame : left = [top EXCEPT !.todo = @ \ {w}]
                            /\ left.v = top.v /\ left.todo = top.todo \ {w}
<2>1. top.v \in Vertex /\ top.todo \ {w} \in SUBSET Vertex
  BY <1>4 DEF Frame
<2>2. [top EXCEPT !.todo = @ \ {w}] = [v |-> top.v, todo |-> top.todo \ {w}]
  BY <1>4 DEF Frame
<2>3. [v |-> top.v, todo |-> top.todo \ {w}] \in Frame
  BY <2>1 DEF Frame
<2> QED
  BY <2>2, <2>3
<1>8. PICK below \in Seq(Frame) :
        /\ below = Append(Front(dfs), left) /\ Len(below) = n /\ below[n] = left
        /\ \A i \in 1..n : i # n => below[i] = dfs[i]
<2>1. /\ Append(Front(dfs), left) \in Seq(Frame) /\ Len(Append(Front(dfs), left)) = Len(dfs)
      /\ Append(Front(dfs), left)[Len(dfs)] = left
      /\ \A i \in 1..Len(dfs) : i # Len(dfs) => Append(Front(dfs), left)[i] = dfs[i]
  BY <1>1, <1>2, ReplaceLast
<2> QED
  BY <1>3, <2>1
<1>9. \/ w \notin ToSet(found) /\ Visit(w, below)
      \/ /\ w \in ToSet(found) /\ low' = [low EXCEPT ![top.v] = LowlinkOf(top.v, w)]
         /\ dfs' = below /\ UNCHANGED <<found, stack>>
  BY <1>4, <1>5, <1>7, <1>8 DEF TakeEdge
<1> DEFINE lo2 == IF w \in ToSet(stack)
                  THEN [low EXCEPT ![top.v] = Min({low[top.v], Ranks(found)[w]})]
                  ELSE low
<1>10. Looks(Onward, Ranks(found), low, ToSet(stack), dfs, w, lo2, below)
  BY <1>2, <1>3, <1>4, <1>6, <1>7, <1>8 DEF Looks
<1>11. top.v \in Vertex /\ top.todo \subseteq Onward[top.v] /\ w \in Onward[below[n].v]
<2>1. top.todo \subseteq Onward[top.v]
  BY <1>3, <1>4 DEF TarjanInv, Search, Frames
<2> QED
  BY <1>4, <1>6, <1>7, <1>8, <2>1 DEF Frame
<1>12. ToSet(stack) \subseteq ToSet(found) /\ low \in [Vertex -> Nat]
<2>1. DOMAIN Ranks(found) = ToSet(found)
  BY DEF Ranks
<2> QED
  BY <2>1 DEF TarjanInv, Search, Frames
<1>13. w \notin ToSet(found) => lo2 = low
  BY <1>12
<1>14. w \in ToSet(found) => [low EXCEPT ![top.v] = LowlinkOf(top.v, w)] = lo2
<2> SUFFICES ASSUME w \in ToSet(found)
             PROVE  [low EXCEPT ![top.v] = LowlinkOf(top.v, w)] = lo2
  OBVIOUS
<2>1. Index(w) = Ranks(found)[w]
  BY DEF Index, Ranks
<2>2. CASE w \in ToSet(stack)
  BY <2>1, <2>2 DEF LowlinkOf
<2>3. CASE w \notin ToSet(stack)
<3>1. LowlinkOf(top.v, w) = low[top.v]
  BY <2>3 DEF LowlinkOf
<3> QED
  BY <1>11, <1>12, <2>3, <3>1
<2> QED
  BY <2>2, <2>3
<1> HIDE DEF lo2
<1>15. \/ w \notin ToSet(found) /\ lo2 = low /\ Visit(w, below)
       \/ w \in ToSet(found) /\ low' = lo2 /\ dfs' = below /\ UNCHANGED <<found, stack>>
  BY <1>9, <1>13, <1>14
<1> QED
  BY <1>2, <1>3, <1>6, <1>8, <1>10, <1>11, <1>15

LEMMA TakeEdgeKeeps ==
  ASSUME CyclesAssumption, TarjanInv, TakeEdge
  PROVE  TarjanInv'
<1>1. PICK w, below, lo2 :
           /\ Looks(Onward, Ranks(found), low, ToSet(stack), dfs, w, lo2, below)
           /\ w \in Vertex /\ Len(below) > 0 /\ w \in Onward[below[Len(below)].v]
           /\ \/ w \notin ToSet(found) /\ lo2 = low /\ Visit(w, below)
              \/ w \in ToSet(found) /\ low' = lo2 /\ dfs' = below /\ UNCHANGED <<found, stack>>
  BY EdgeTaken
<1>2. UNCHANGED <<edges, sccs>>
  BY DEF TakeEdge
<1>3. DOMAIN Ranks(found) = ToSet(found)
  BY DEF Ranks
<1>4. /\ Search(Onward, Ranks(found), low, ToSet(stack), dfs)
      /\ Looked(Onward, dfs, DOMAIN Ranks(found), DOMAIN Ranks(found))
  BY <1>3 DEF TarjanInv
<1>5. /\ Search(Onward, Ranks(found), lo2, ToSet(stack), below)
      /\ Looked(Onward, below, ToSet(found), ToSet(found) \cup {w})
  BY <1>1, <1>3, <1>4, SearchLooks
<1>6. CASE w \notin ToSet(found) /\ lo2 = low /\ Visit(w, below)
  BY <1>1, <1>2, <1>5, <1>6, VisitKeeps
<1>7. CASE w \in ToSet(found) /\ low' = lo2 /\ dfs' = below /\ UNCHANGED <<found, stack>>
<2>1. ToSet(found) \cup {w} = ToSet(found)
  BY <1>7
<2>2. Looked(Onward, below, ToSet(found), ToSet(found))
  BY <1>5, <2>1
<2>3. Onward' = Onward /\ sccs' = sccs /\ found' = found /\ stack' = stack
  BY <1>2, <1>7 DEF Onward, Adj, Vertex
<2>4. /\ Search(Onward', Ranks(found'), low', ToSet(stack'), dfs')
      /\ Looked(Onward', dfs', ToSet(found'), ToSet(found'))
  BY <1>5, <1>7, <2>2, <2>3
<2>5. /\ found' \in Seq(Vertex) /\ Injective(found') /\ stack' \in Seq(Vertex)
      /\ Rising(Ranks(found'), stack')
      /\ sccs' \subseteq Comps(Onward') /\ UNION sccs' = ToSet(found') \ ToSet(stack')
  BY <2>3 DEF TarjanInv
<2> QED
  BY <2>4, <2>5 DEF TarjanInv
<1> QED
  BY <1>1, <1>6, <1>7

LEMMA RetreatSteps ==
  ASSUME CyclesAssumption, TarjanInv, Retreat
  PROVE  /\ TarjanInv'
         /\ UNION sccs \subseteq UNION sccs'
         /\ \/ sccs' = sccs /\ todo' = todo
            \/ \E scc \in Comps(Onward) :
                 /\ sccs' = sccs \cup {scc}
                 /\ todo' = IF Cardinality(scc) >= cfg.scc THEN todo \cup {scc} ELSE todo
<1>1. dfs \in Seq(Frame) /\ dfs # <<>> /\ Last(dfs).todo = {}
  BY DEF TarjanInv, Search, Frames, Retreat
<1>2. PICK n \in Nat : n = Len(dfs) /\ n > 0 /\ n \in 1..n
  BY <1>1, FrontIs
<1>3. PICK rest \in Seq(Frame) :
        /\ rest = Front(dfs) /\ Len(rest) = n - 1 /\ \A i \in 1..n - 1 : rest[i] = dfs[i]
  BY <1>1, <1>2, FrontIs
<1>4. PICK v \in Vertex : v = dfs[n].v /\ Last(dfs) = dfs[n] /\ v \in ToSet(stack)
<2>1. dfs[n].v \in ToSet(stack) /\ Last(dfs) = dfs[n]
  BY <1>1, <1>2, FrontIs DEF TarjanInv, Search, Frames
<2>2. ToSet(stack) \subseteq Vertex
  BY ToSetIs DEF TarjanInv
<2> QED
  BY <2>1, <2>2
<1> DEFINE at == CHOOSE i \in DOMAIN stack : stack[i] = v
           scc == {stack[i] : i \in at..Len(stack)}
<1>5. /\ dfs' = rest
      /\ low' = IF rest = <<>> THEN low
                ELSE [low EXCEPT ![Last(rest).v] = Min({@, low[v]})]
      /\ IF low[v] = Index(v)
         THEN /\ stack' = SubSeq(stack, 1, at - 1) /\ sccs' = sccs \cup {scc}
              /\ todo' = IF Cardinality(scc) >= cfg.scc THEN todo \cup {scc} ELSE todo
         ELSE UNCHANGED <<stack, sccs, todo>>
      /\ found' = found /\ edges' = edges
<2>1. Last(dfs).v = v /\ Front(dfs) = rest
  BY <1>3, <1>4
<2>2. /\ dfs' = rest
      /\ low' = IF rest = <<>> THEN low
                ELSE [low EXCEPT ![Last(rest).v] = Min({@, low[v]})]
  BY <2>1 DEF Retreat
<2>3. IF low[v] = Index(v)
      THEN /\ stack' = SubSeq(stack, 1, at - 1) /\ sccs' = sccs \cup {scc}
           /\ todo' = IF Cardinality(scc) >= cfg.scc THEN todo \cup {scc} ELSE todo
      ELSE UNCHANGED <<stack, sccs, todo>>
  BY <2>1 DEF Retreat
<2>4. found' = found /\ edges' = edges
  BY DEF Retreat
<2> QED
  BY <2>2, <2>3, <2>4
<1>6. DOMAIN Ranks(found) = ToSet(found) /\ ToSet(stack) \subseteq ToSet(found)
<2>1. DOMAIN Ranks(found) = ToSet(found)
  BY DEF Ranks
<2> QED
  BY <2>1 DEF TarjanInv, Search, Frames
<1>7. Index(v) = Ranks(found)[v]
  BY <1>4, <1>6 DEF Index, Ranks
<1>8. low' = IF n = 1 THEN low
             ELSE [low EXCEPT ![dfs[n - 1].v] = Min({low[dfs[n - 1].v], low[dfs[n].v]})]
<2>1. CASE n = 1
<3>1. rest = <<>>
  BY <1>3, <2>1, EmptySeq
<3> QED
  BY <1>5, <2>1, <3>1
<2>2. CASE n # 1
<3>1. n - 1 \in 1..n - 1 /\ Len(rest) > 0
  BY <1>2, <1>3, <2>2
<3>2. rest # <<>> /\ Last(rest) = dfs[n - 1]
  BY <1>3, <3>1, EmptySeq DEF Last
<3> QED
  BY <1>4, <1>5, <2>2, <3>2
<2> QED
  BY <2>1, <2>2
<1>9. Retreats(Onward, Ranks(found), low, ToSet(stack), dfs, low', rest)
  BY <1>1, <1>2, <1>3, <1>4, <1>8 DEF Retreats
<1>10. /\ Search(Onward, Ranks(found), low, ToSet(stack), dfs)
       /\ Looked(Onward, dfs, DOMAIN Ranks(found), DOMAIN Ranks(found))
  BY <1>6 DEF TarjanInv
<1>11. Looked(Onward, rest, ToSet(found), ToSet(found))
<2>1. \A u : Seen(Onward, rest, u) = Seen(Onward, dfs, u)
  BY <1>9, <1>10, SeenRetreat
<2> QED
  BY <1>6, <1>10, <2>1 DEF Looked
<1>12. Onward' = Onward
  BY <1>5 DEF Onward, Adj, Vertex
<1>13. CASE low[v] # Index(v)
<2>1. Inherits(Ranks(found), low, ToSet(stack), dfs, ToSet(stack))
  BY <1>2, <1>4, <1>7, <1>13 DEF Inherits
<2>2. Search(Onward, Ranks(found), low', ToSet(stack), rest)
  BY <1>9, <1>10, <2>1, SearchInherits
<2>3. stack' = stack /\ sccs' = sccs /\ todo' = todo
  BY <1>5, <1>13
<2>4. /\ Search(Onward', Ranks(found'), low', ToSet(stack'), dfs')
      /\ Looked(Onward', dfs', ToSet(found'), ToSet(found'))
  BY <1>5, <1>11, <1>12, <2>2, <2>3
<2>5. /\ found' \in Seq(Vertex) /\ Injective(found') /\ stack' \in Seq(Vertex)
      /\ Rising(Ranks(found'), stack')
      /\ sccs' \subseteq Comps(Onward') /\ UNION sccs' = ToSet(found') \ ToSet(stack')
  BY <1>5, <1>12, <2>3 DEF TarjanInv
<2>6. TarjanInv'
  BY <2>4, <2>5 DEF TarjanInv
<2> QED
  BY <2>3, <2>6
<1>14. CASE low[v] = Index(v)
<2> DEFINE K2 == {u \in ToSet(stack) : Ranks(found)[u] < Ranks(found)[v]}
<2>1. Pops(Ranks(found), low, ToSet(stack), dfs, K2)
  BY <1>2, <1>4, <1>7, <1>14 DEF Pops
<2>2. /\ stack' = SubSeq(stack, 1, at - 1) /\ sccs' = sccs \cup {scc}
      /\ todo' = IF Cardinality(scc) >= cfg.scc THEN todo \cup {scc} ELSE todo
  BY <1>5, <1>14
<2>3. \A u \in ToSet(stack) : Ranks(found)[u] \in Nat
<3>1. RanksOf(found)
  BY RanksIs DEF TarjanInv
<3> QED
  BY <1>6, <3>1 DEF RanksOf
<2>4. /\ stack' \in Seq(Vertex) /\ Rising(Ranks(found), stack') /\ ToSet(stack') = K2
      /\ scc = {u \in ToSet(stack) : ~(Ranks(found)[u] < Ranks(found)[v])}
<3>1. stack \in Seq(Vertex) /\ Rising(Ranks(found), stack)
  BY DEF TarjanInv
<3>2. PICK a : a = at
  OBVIOUS
<3>3. a \in 1..Len(stack) /\ stack[a] = v
<4>1. DOMAIN stack = 1..Len(stack) /\ \E i \in 1..Len(stack) : stack[i] = v
  BY <1>4, <3>1, ToSetIs
<4> QED
  BY <3>2, <4>1
<3>4. scc = {stack[i] : i \in a..Len(stack)}
  BY <3>2
<3>5. stack' = SubSeq(stack, 1, a - 1)
  BY <2>2, <3>2
<3> HIDE DEF at, scc
<3>6. /\ SubSeq(stack, 1, a - 1) \in Seq(Vertex) /\ Rising(Ranks(found), SubSeq(stack, 1, a - 1))
      /\ ToSet(SubSeq(stack, 1, a - 1)) = {u \in ToSet(stack) : Ranks(found)[u] < Ranks(found)[v]}
      /\ {stack[i] : i \in a..Len(stack)}
           = {u \in ToSet(stack) : ~(Ranks(found)[u] < Ranks(found)[v])}
<4>1. PICK ix : ix = Ranks(found)
  OBVIOUS
<4>2. v \in ToSet(stack) /\ stack \in Seq(Vertex) /\ Rising(ix, stack)
  BY <1>4, <3>1, <4>1
<4>3. \A u \in ToSet(stack) : ix[u] \in Nat
  BY <2>3, <4>1
<4>4. /\ SubSeq(stack, 1, a - 1) \in Seq(Vertex) /\ Rising(ix, SubSeq(stack, 1, a - 1))
      /\ ToSet(SubSeq(stack, 1, a - 1)) = {u \in ToSet(stack) : ix[u] < ix[v]}
      /\ {stack[i] : i \in a..Len(stack)} = {u \in ToSet(stack) : ~(ix[u] < ix[v])}
  BY <3>3, <4>2, <4>3, RisingPop
<4> QED
  BY <4>1, <4>4
<3> QED
  BY <3>4, <3>5, <3>6
<2>5. scc = ToSet(stack) \ K2 /\ K2 \subseteq ToSet(stack)
  BY <2>4
<2> HIDE DEF scc, K2, at
<2>6. Search(Onward, Ranks(found), low', K2, rest)
  BY <1>9, <1>10, <2>1, SearchPops
<2>7. scc = Mutual(Onward, v)
<3>1. Len(dfs) > 0 /\ dfs[Len(dfs)].todo = {}
  BY <1>1, <1>2, <1>4
<3>2. ToSet(stack) \ K2 = Mutual(Onward, dfs[Len(dfs)].v)
  BY <1>10, <2>1, <3>1, PoppedComponent
<3> QED
  BY <1>2, <1>4, <2>5, <3>2
<2>8. scc \in Comps(Onward)
  BY <1>4, <2>7 DEF Comps
<2>9. /\ Search(Onward', Ranks(found'), low', ToSet(stack'), dfs')
      /\ Looked(Onward', dfs', ToSet(found'), ToSet(found'))
  BY <1>5, <1>11, <1>12, <2>4, <2>6
<2>10. /\ found' \in Seq(Vertex) /\ Injective(found') /\ stack' \in Seq(Vertex)
       /\ Rising(Ranks(found'), stack')
  BY <1>5, <2>4 DEF TarjanInv
<2>11. sccs' \subseteq Comps(Onward')
  BY <1>12, <2>2, <2>8 DEF TarjanInv
<2>12. UNION sccs' = ToSet(found') \ ToSet(stack')
<3>1. UNION sccs = ToSet(found) \ ToSet(stack)
  BY DEF TarjanInv
<3>2. sccs' = sccs \cup {scc}
  BY <2>2
<3>3. UNION (sccs \cup {scc}) = (UNION sccs) \cup scc
  OBVIOUS
<3> QED
  BY <1>5, <1>6, <2>4, <2>5, <3>1, <3>2, <3>3
<2>13. TarjanInv'
  BY <2>9, <2>10, <2>11, <2>12 DEF TarjanInv
<2>14. UNION sccs \subseteq UNION sccs'
  BY <2>2
<2> QED
  BY <2>2, <2>8, <2>13, <2>14
<1> QED
  BY <1>13, <1>14

\* The search for cycles leaves all of this alone.
LEMMA TarjanRests ==
  ASSUME TarjanInv, UNCHANGED <<edges, found, low, stack, dfs, sccs>>
  PROVE  TarjanInv'
<1>1. Onward' = Onward
  BY DEF Onward, Adj, Vertex
<1>2. /\ found' \in Seq(Vertex) /\ Injective(found') /\ stack' \in Seq(Vertex)
      /\ Rising(Ranks(found'), stack')
      /\ sccs' \subseteq Comps(Onward') /\ UNION sccs' = ToSet(found') \ ToSet(stack')
  BY <1>1 DEF TarjanInv
<1>3. /\ Search(Onward', Ranks(found'), low', ToSet(stack'), dfs')
      /\ Looked(Onward', dfs', ToSet(found'), ToSet(found'))
  BY <1>1 DEF TarjanInv
<1> QED
  BY <1>2, <1>3 DEF TarjanInv

(***************************************************************************)
(* The components.                                                         *)
(***************************************************************************)
LEMMA MutualOne ==
  ASSUME CyclesAssumption, NEW adj \in Steps, NEW u \in Vertex, NEW v \in Mutual(adj, u)
  PROVE  v \in Vertex /\ Mutual(adj, v) = Mutual(adj, u)
<1>1. v \in Vertex /\ v \in Spread(u, adj) /\ u \in Spread(v, adj)
  BY DEF Mutual
<1>2. Spread(v, adj) = Spread(u, adj)
  BY <1>1, Reaches
<1>3. \A w \in Vertex : u \in Spread(w, adj) <=> v \in Spread(w, adj)
  BY <1>1, Reaches
<1> QED
  BY <1>1, <1>2, <1>3 DEF Mutual

LEMMA MutualSelf ==
  ASSUME CyclesAssumption, NEW adj \in Steps, NEW u \in Vertex
  PROVE  u \in Mutual(adj, u)
  BY Reaches DEF Mutual

LEMMA ComponentsAre == CyclesAssumption => Components = Comps(Onward)
<1> SUFFICES ASSUME CyclesAssumption PROVE Components = Comps(Onward)
  OBVIOUS
<1> DEFINE reached == UNION {{<<v, w>> : w \in Spread(v, Onward)} : v \in Vertex}
<1>1. \A v, w \in Vertex : <<v, w>> \in reached <=> w \in Spread(v, Onward)
  OBVIOUS
<1>2. Components = {{w \in Vertex : {<<v, w>>, <<w, v>>} \subseteq reached} : v \in Vertex}
  BY DEF Components, Onward
<1> HIDE DEF reached
<1>3. ASSUME NEW v \in Vertex
      PROVE  {w \in Vertex : {<<v, w>>, <<w, v>>} \subseteq reached} = Mutual(Onward, v)
  BY <1>1 DEF Mutual
<1> QED
  BY <1>2, <1>3 DEF Comps

LEMMA SccsAreFound == CyclesAssumption /\ TarjanInv => SccsFound
<1> SUFFICES ASSUME CyclesAssumption, TarjanInv PROVE SccsFound
  OBVIOUS
<1>1. sccs \subseteq Components
  BY ComponentsAre DEF TarjanInv
<1>2. ASSUME Searched, NEW c \in Components PROVE c \in sccs
<2>1. dfs = <<>> /\ ToSet(found) = Vertex
  BY <1>2 DEF Searched
<2>2. ToSet(stack) = {}
  BY <2>1, EmptySeq DEF TarjanInv, Search, Up
<2>3. UNION sccs = Vertex
  BY <2>1, <2>2 DEF TarjanInv
<2>4. PICK v \in Vertex : c = Mutual(Onward, v)
  BY <1>2, ComponentsAre DEF Comps
<2>5. PICK d \in sccs : v \in d
  BY <2>3
<2>6. PICK u \in Vertex : d = Mutual(Onward, u)
  BY <2>5 DEF TarjanInv, Comps
<2>7. c = d
  BY <2>4, <2>5, <2>6, OnwardType, MutualOne
<2> QED
  BY <2>5, <2>7
<1> QED
  BY <1>1, <1>2 DEF SccsFound

(***************************************************************************)
(* The component that is searched for cycles.                              *)
(***************************************************************************)
\* The components found: they are not empty and meet only in themselves.
LEMMA SccIs ==
  ASSUME CyclesAssumption, NEW c \in Comps(Onward)
  PROVE  /\ c \in SUBSET Vertex /\ c \in SUBSET Nat /\ c # {}
         /\ IsFiniteSet(c) /\ Cardinality(c) \in 0..Wallets
         /\ \A u \in c : c = Mutual(Onward, u)
         /\ \A d \in Comps(Onward), u \in c : u \in d => c = d
<1>1. PICK v \in Vertex : c = Mutual(Onward, v)
  BY DEF Comps
<1>2. c \in SUBSET Vertex /\ v \in c
  BY <1>1, OnwardType, MutualSelf DEF Mutual
<1>3. Wallets \in Nat /\ Vertex \in SUBSET Nat
  BY DEF CyclesAssumption, Vertex
<1>4. IsFiniteSet(Vertex) /\ Cardinality(Vertex) = Wallets
<2>1. 0 \in Int /\ Wallets - 1 \in Int
  BY <1>3
<2>2. /\ IsFiniteSet(0..Wallets - 1)
      /\ Cardinality(0..Wallets - 1) = IF 0 > Wallets - 1 THEN 0 ELSE (Wallets - 1) - 0 + 1
  BY <2>1, FS_Interval
<2> QED
  BY <1>3, <2>2 DEF Vertex
<1>5. IsFiniteSet(c) /\ Cardinality(c) \in 0..Wallets
<2>1. IsFiniteSet(c) /\ Cardinality(c) <= Cardinality(Vertex)
  BY <1>2, <1>4, FS_Subset
<2>2. Cardinality(c) \in Nat
  BY <2>1, FS_CardinalityType
<2> QED
  BY <1>3, <1>4, <2>1, <2>2
<1>6. \A u \in c : c = Mutual(Onward, u)
  BY <1>1, OnwardType, MutualOne
<1>7. ASSUME NEW d \in Comps(Onward), NEW u \in c, u \in d PROVE c = d
<2>1. PICK x \in Vertex : d = Mutual(Onward, x)
  BY DEF Comps
<2>2. d = Mutual(Onward, u)
  BY <1>7, <2>1, OnwardType, MutualOne
<2> QED
  BY <1>6, <2>2
<1> QED
  BY <1>2, <1>3, <1>5, <1>6, <1>7

\* There is a component that comes first.
LEMMA SccChosen ==
  ASSUME CyclesAssumption, todo \subseteq Comps(Onward), todo # {}
  PROVE  Scc \in todo
<1>1. Wallets \in Nat
  BY DEF CyclesAssumption
<1>2. \A c \in todo : Cardinality(c) \in 0..Wallets /\ c \in SUBSET Nat /\ c # {}
  BY SccIs
<1>3. PICK m \in {Cardinality(c) : c \in todo} : \A k \in {Cardinality(c) : c \in todo} : k <= m
<2>1. {Cardinality(c) : c \in todo} \in SUBSET (0..Wallets)
  BY <1>2
<2>2. {Cardinality(c) : c \in todo} # {}
  OBVIOUS
<2> QED
  BY <1>1, <2>1, <2>2, Greatest
<1> DEFINE big == {c \in todo : Cardinality(c) = m}
<1>4. \A c \in todo : Min(c) \in c /\ Min(c) \in Nat
<2> SUFFICES ASSUME NEW c \in todo PROVE Min(c) \in c /\ Min(c) \in Nat
  OBVIOUS
<2>1. c \in SUBSET Nat /\ c # {}
  BY <1>2
<2>2. Min(c) \in c
  BY <2>1, MinIs
<2> QED
  BY <2>1, <2>2
<1>5. PICK l \in {Min(c) : c \in big} : \A k \in {Min(c) : c \in big} : l <= k
<2>1. {Min(c) : c \in big} \in SUBSET Nat
  BY <1>4
<2>2. {Min(c) : c \in big} # {}
  BY <1>3
<2> QED
  BY <2>1, <2>2, Least
<1>6. PICK c \in todo : Cardinality(c) = m /\ Min(c) = l
  BY <1>5
<1>7. ASSUME NEW d \in todo \ {c} PROVE Before(c, d)
<2>1. Cardinality(d) <= Cardinality(c) /\ Cardinality(d) \in Nat /\ Cardinality(c) \in Nat
  BY <1>2, <1>3, <1>6
<2>2. CASE Cardinality(d) = Cardinality(c)
<3>1. Min(c) <= Min(d) /\ Min(c) \in Nat /\ Min(d) \in Nat
  BY <1>4, <1>5, <1>6, <2>2
<3>2. Min(c) # Min(d)
<4>1. Min(c) \in c /\ Min(d) \in d
  BY <1>4
<4>2. c \in Comps(Onward) /\ d \in Comps(Onward) /\ c # d
  OBVIOUS
<4> QED
  BY <4>1, <4>2, SccIs
<3> QED
  BY <2>2, <3>1, <3>2 DEF Before
<2>3. CASE Cardinality(d) # Cardinality(c)
  BY <2>1, <2>3 DEF Before
<2> QED
  BY <2>2, <2>3
<1>8. \E x \in todo : \A d \in todo \ {x} : Before(x, d)
  BY <1>6, <1>7
<1> QED
  BY <1>8 DEF Scc

\* How circuit looks on from each vertex.
Aheads(s) == [v \in Vertex |-> Ahead(v, s)]

LEMMA AheadsType == \A s : Aheads(s) \in Steps
  BY DEF Aheads, Ahead, Adj, Steps

(***************************************************************************)
(* Walks and rings.                                                        *)
(***************************************************************************)
\* What follows the j-th vertex of a closed walk.
After(c, j) == IF j = Len(c) THEN c[1] ELSE c[j + 1]

IsClosed(c) ==
  /\ \A i \in 1..Len(c) : c[1] <= c[i]
  /\ \A i \in 1..Len(c) : After(c, i) \in Adj(c[i])

LEMMA WalkIs ==
  ASSUME CyclesAssumption, NEW c \in Seq(Vertex)
  PROVE  IsWalk(c) <=> IsClosed(c)
<1>1. PICK n \in Nat : n = Len(c) /\ DOMAIN c = 1..n
  BY ToSetIs
<1>2. ASSUME NEW i \in 1..n PROVE c[(i % n) + 1] = After(c, i) /\ After(c, i) \in Vertex
<2>1. \A k \in Nat : k > 0 => k % k = 0
  OBVIOUS
<2>2. \A j, k \in Nat : j < k => j % k = j
  OBVIOUS
<2>3. CASE i = n
<3>1. i % n = 0 /\ (i % n) + 1 = 1 /\ 1 \in 1..n
  BY <2>1, <2>3
<3> QED
  BY <1>1, <2>3, <3>1, ElementOfSeq DEF After
<2>4. CASE i # n
<3>1. i < n /\ i \in Nat /\ i + 1 \in 1..n
  BY <2>4
<3>2. i % n = i
  BY <2>2, <3>1
<3> QED
  BY <1>1, <2>4, <3>1, <3>2, ElementOfSeq DEF After
<2> QED
  BY <2>3, <2>4
<1>3. \A i \in 1..n : <<c[i], After(c, i)>> \in edges <=> After(c, i) \in Adj(c[i])
  BY <1>2 DEF Adj
<1> QED
  BY <1>1, <1>2, <1>3 DEF IsWalk, IsClosed

\* A closed walk does not leave its component.
LEMMA WalkStays ==
  ASSUME CyclesAssumption, NEW c \in Seq(Vertex), Len(c) > 0, IsClosed(c),
         NEW S \in Comps(Onward), c[1] \in S
  PROVE  \A i \in 1..Len(c) : c[i] \in S
<1>1. PICK n \in Nat : n = Len(c) /\ n > 0
  BY ToSetIs
<1>2. \A i \in 1..n : c[i] \in Vertex /\ After(c, i) \in Onward[c[i]]
  BY <1>1, ElementOfSeq DEF IsClosed, Onward
<1>3. S = Mutual(Onward, c[1])
  BY SccIs
<1>4. \A i \in 1..n : /\ c[i] \in Spread(c[i], Onward)
                      /\ Onward[c[i]] \subseteq Spread(c[i], Onward)
                      /\ \A v \in Spread(c[i], Onward) : Spread(v, Onward) \subseteq Spread(c[i], Onward)
                      /\ Spread(c[i], Onward) \subseteq Vertex
<2> SUFFICES ASSUME NEW i \in 1..n
             PROVE  /\ c[i] \in Spread(c[i], Onward)
                    /\ Onward[c[i]] \subseteq Spread(c[i], Onward)
                    /\ \A v \in Spread(c[i], Onward) : Spread(v, Onward) \subseteq Spread(c[i], Onward)
                    /\ Spread(c[i], Onward) \subseteq Vertex
  OBVIOUS
<2> QED
  BY <1>2, OnwardType, Reaches
<1>5. \A i \in 1..n : c[i] \in Spread(c[1], Onward)
<2> DEFINE T == {i \in 1..n : c[i] \notin Spread(c[1], Onward)}
<2>1. T \in SUBSET Nat
  OBVIOUS
<2>2. ASSUME T # {} PROVE FALSE
<3>1. PICK i \in T : \A m \in T : i <= m
  BY <2>1, <2>2, Least
<3>2. i \in 1..n /\ c[i] \notin Spread(c[1], Onward) /\ 1 \in 1..n
  BY <1>1
<3>3. i # 1
  BY <1>4, <3>2
<3>4. PICK k \in 1..n : k + 1 = i
<4>1. i - 1 \in 1..n /\ (i - 1) + 1 = i
  BY <3>2, <3>3
<4> QED
  BY <4>1
<3>5. k \notin T
<4>1. ~(i <= k)
  BY <3>4
<4> QED
  BY <3>1, <4>1
<3>6. c[k] \in Spread(c[1], Onward) /\ k # n
  BY <3>2, <3>4, <3>5
<3>7. c[i] \in Onward[c[k]]
  BY <1>1, <1>2, <3>4, <3>6 DEF After
<3>8. Onward[c[k]] \subseteq Spread(c[1], Onward)
  BY <1>4, <3>2, <3>6
<3> QED
  BY <3>2, <3>7, <3>8
<2> QED
  BY <2>2
<1>6. \A i \in 1..n : c[1] \in Spread(c[i], Onward)
<2> DEFINE T == {i \in 1..n : c[1] \notin Spread(c[i], Onward)}
<2>1. T \in SUBSET (0..n)
  OBVIOUS
<2>2. ASSUME T # {} PROVE FALSE
<3>1. PICK i \in T : \A m \in T : m <= i
  BY <2>1, <2>2, Greatest
<3>2. i \in 1..n /\ c[1] \notin Spread(c[i], Onward)
  OBVIOUS
<3>3. After(c, i) \in Spread(c[i], Onward)
  BY <1>2, <1>4, <3>2
<3>4. i # n
  BY <1>1, <3>2, <3>3 DEF After
<3>5. PICK k \in 1..n : k = i + 1
  BY <3>2, <3>4
<3>6. k \notin T
<4>1. ~(k <= i)
  BY <3>5
<4> QED
  BY <3>1, <4>1
<3>7. After(c, i) = c[k] /\ c[1] \in Spread(c[k], Onward)
  BY <1>1, <3>4, <3>5, <3>6 DEF After
<3> QED
  BY <1>4, <3>2, <3>3, <3>7
<2> QED
  BY <2>2
<1> QED
  BY <1>1, <1>2, <1>3, <1>5, <1>6 DEF Mutual

(***************************************************************************)
(* The calls of circuit, with ah[v] what it looks at from v, and the walks *)
(* they are still to take.                                                 *)
(***************************************************************************)
Calls == [v : Vertex, todo : SUBSET Vertex, hit : BOOLEAN]

On(ps) == {ps[i].v : i \in 1..Len(ps)}

Chain(ah, s, ps) ==
  /\ ah \in Steps /\ ps \in Seq(Calls)
  /\ Len(ps) > 0 => ps[1].v = s
  /\ \A i \in 1..Len(ps) : s <= ps[i].v /\ ps[i].todo \subseteq ah[ps[i].v]
  /\ \A i \in 1..Len(ps) : i < Len(ps) => ps[i + 1].v \in ah[ps[i].v] \ ps[i].todo

Agrees(c, ps, j) == j \in 1..Len(c) /\ \A i \in 1..j : c[i] = ps[i].v

\* The calls have still to come to walk c.
Awaited(c, ps) == \E j \in 1..Len(ps) : Agrees(c, ps, j) /\ After(c, j) \in ps[j].todo

\* One more neighbour w of the last call: circuit is called for it or not.
Tries(ps, w, hit, ps2) ==
  /\ Len(ps) > 0 /\ w \in ps[Len(ps)].todo
  /\ ps2 \in Seq(Calls)
  /\ \A i \in 1..Len(ps) : i # Len(ps) => ps2[i] = ps[i]
  /\ ps2[Len(ps)] = [v |-> ps[Len(ps)].v, todo |-> ps[Len(ps)].todo \ {w}, hit |-> hit]

Skips(s, ps, w, ps2) ==
  Tries(ps, w, ps[Len(ps)].hit \/ w = s, ps2) /\ Len(ps2) = Len(ps)

Enters(ah, ps, w, ps2) ==
  /\ Tries(ps, w, ps[Len(ps)].hit, ps2) /\ Len(ps2) = Len(ps) + 1
  /\ ps2[Len(ps) + 1] = [v |-> w, todo |-> ah[w], hit |-> FALSE]

\* The last call returns: the one before learns whether there was a hit.
Leaves(ps, ps2) ==
  /\ Len(ps) > 0 /\ ps2 \in Seq(Calls) /\ Len(ps2) = Len(ps) - 1
  /\ \A i \in 1..Len(ps) : i < Len(ps) =>
       /\ ps2[i].v = ps[i].v /\ ps2[i].todo = ps[i].todo
       /\ ps2[i].hit = (ps[i].hit \/ (i = Len(ps) - 1 /\ ps[Len(ps)].hit))

LEMMA ChainSkips ==
  ASSUME NEW ah, NEW s, NEW ps, NEW w, NEW ps2, Chain(ah, s, ps), Skips(s, ps, w, ps2)
  PROVE  Chain(ah, s, ps2)
<1>1. PICK n \in Nat : n = Len(ps) /\ n > 0 /\ n = Len(ps2)
  BY ToSetIs DEF Chain, Skips, Tries
<1>2. \A i \in 1..n : ps2[i].v = ps[i].v /\ ps2[i].todo \subseteq ps[i].todo
  BY <1>1 DEF Skips, Tries
<1>3. n \in 1..n /\ 1 \in 1..n /\ \A i \in 1..n : i < n => i + 1 \in 1..n
  BY <1>1
<1> QED
  BY <1>1, <1>2, <1>3 DEF Chain, Skips, Tries

LEMMA ChainEnters ==
  ASSUME CyclesAssumption, NEW ah, NEW s, NEW ps, NEW w, NEW ps2,
         Chain(ah, s, ps), Enters(ah, ps, w, ps2), s <= w
  PROVE  Chain(ah, s, ps2)
<1>1. PICK n \in Nat : n = Len(ps) /\ n > 0 /\ n + 1 = Len(ps2)
  BY ToSetIs DEF Chain, Enters, Tries
<1>2. \A i \in 1..n : ps2[i].v = ps[i].v /\ ps2[i].todo \subseteq ps[i].todo
  BY <1>1 DEF Enters, Tries
<1>3. /\ ps2[n + 1].v = w /\ ps2[n + 1].todo = ah[w] /\ w \in ps[n].todo /\ w \notin ps2[n].todo
  BY <1>1 DEF Enters, Tries
<1>4. /\ n \in 1..n /\ 1 \in 1..n /\ \A i \in 1..n : i < n => i + 1 \in 1..n
      /\ \A i \in 1..n + 1 : i < n + 1 => i \in 1..n
      /\ \A i \in 1..n + 1 : i \in 1..n \/ i = n + 1
      /\ \A i \in 1..n : i < n \/ i = n
  BY <1>1
<1>5. \A i \in 1..n : s <= ps[i].v /\ ps[i].todo \subseteq ah[ps[i].v]
  BY <1>1 DEF Chain
<1>6. \A i \in 1..n : i < n => ps[i + 1].v \in ah[ps[i].v] \ ps[i].todo
  BY <1>1 DEF Chain
<1>7. ASSUME NEW i \in 1..n + 1 PROVE s <= ps2[i].v /\ ps2[i].todo \subseteq ah[ps2[i].v]
<2>1. CASE i = n + 1
  BY <1>3, <2>1
<2>2. CASE i # n + 1
<3>1. i \in 1..n
  BY <1>4, <2>2
<3> QED
  BY <1>2, <1>5, <3>1
<2> QED
  BY <2>1, <2>2
<1>8. ASSUME NEW i \in 1..n + 1, i < n + 1 PROVE ps2[i + 1].v \in ah[ps2[i].v] \ ps2[i].todo
<2>1. i \in 1..n
  BY <1>4, <1>8
<2>2. CASE i = n
  BY <1>2, <1>3, <1>4, <1>5, <2>2
<2>3. CASE i # n
<3>1. i < n /\ i + 1 \in 1..n
  BY <1>4, <2>1, <2>3
<3> QED
  BY <1>2, <1>6, <2>1, <3>1
<2> QED
  BY <2>2, <2>3
<1>9. ah \in Steps /\ ps2 \in Seq(Calls) /\ ps2[1].v = s
  BY <1>1, <1>2, <1>4 DEF Chain, Enters, Tries
<1> QED
  BY <1>1, <1>7, <1>8, <1>9 DEF Chain

LEMMA ChainLeaves ==
  ASSUME NEW ah, NEW s, NEW ps, NEW ps2, Chain(ah, s, ps), Leaves(ps, ps2)
  PROVE  Chain(ah, s, ps2)
<1>1. PICK n \in Nat : n = Len(ps) /\ n > 0 /\ n - 1 = Len(ps2)
  BY ToSetIs DEF Chain, Leaves
<1>2. \A i \in 1..n - 1 : i \in 1..n /\ i < n /\ (i < n - 1 => i + 1 \in 1..n - 1)
  BY <1>1
<1>3. \A i \in 1..n - 1 : ps2[i].v = ps[i].v /\ ps2[i].todo = ps[i].todo
  BY <1>1, <1>2 DEF Leaves
<1>4. n - 1 > 0 => 1 \in 1..n - 1
  BY <1>1
<1>5. n - 1 > 0 => ps2[1].v = s
  BY <1>1, <1>3, <1>4 DEF Chain
<1>6. \A i \in 1..n - 1 : s <= ps2[i].v /\ ps2[i].todo \subseteq ah[ps2[i].v]
  BY <1>1, <1>2, <1>3 DEF Chain
<1>7. \A i \in 1..n - 1 : i < n - 1 => ps2[i + 1].v \in ah[ps2[i].v] \ ps2[i].todo
  BY <1>1, <1>2, <1>3 DEF Chain
<1>8. ah \in Steps /\ ps2 \in Seq(Calls)
  BY DEF Chain, Leaves
<1> QED
  BY <1>1, <1>5, <1>6, <1>7, <1>8 DEF Chain

LEMMA AgreesTries ==
  ASSUME NEW c, NEW ps \in Seq(Calls), NEW w, NEW hit, NEW ps2, Tries(ps, w, hit, ps2)
  PROVE  \A j \in 1..Len(ps) : Agrees(c, ps2, j) <=> Agrees(c, ps, j)
<1>1. PICK n \in Nat : n = Len(ps) /\ n > 0
  BY ToSetIs DEF Tries
<1>2. \A i \in 1..n : ps2[i].v = ps[i].v
  BY <1>1 DEF Tries
<1>3. \A j \in 1..n : \A i \in 1..j : i \in 1..n
  OBVIOUS
<1>4. \A j \in 1..n : (\A i \in 1..j : c[i] = ps2[i].v) <=> (\A i \in 1..j : c[i] = ps[i].v)
  BY <1>2, <1>3
<1> QED
  BY <1>1, <1>4 DEF Agrees

LEMMA AwaitedTries ==
  ASSUME NEW c, NEW ps \in Seq(Calls), NEW w, NEW hit, NEW ps2, Tries(ps, w, hit, ps2),
         Len(ps) <= Len(ps2), Len(ps2) \in Nat, Awaited(c, ps)
  PROVE  Awaited(c, ps2) \/ (Agrees(c, ps, Len(ps)) /\ After(c, Len(ps)) = w)
<1>1. PICK n \in Nat : n = Len(ps) /\ n > 0 /\ \A j \in 1..n : j \in 1..Len(ps2)
<2>1. Len(ps) \in Nat
  BY ToSetIs
<2> QED
  BY <2>1 DEF Tries
<1>2. PICK j \in 1..n : Agrees(c, ps, j) /\ After(c, j) \in ps[j].todo
  BY <1>1 DEF Awaited
<1>3. /\ Agrees(c, ps2, j)
      /\ j # n => ps2[j].todo = ps[j].todo
      /\ j = n => ps2[j].todo = ps[j].todo \ {w}
<2>1. \A k \in 1..Len(ps) : Agrees(c, ps2, k) <=> Agrees(c, ps, k)
  BY AgreesTries
<2>2. /\ \A k \in 1..Len(ps) : k # Len(ps) => ps2[k].todo = ps[k].todo
      /\ ps2[Len(ps)].todo = ps[Len(ps)].todo \ {w}
  BY DEF Tries
<2> QED
  BY <1>1, <1>2, <2>1, <2>2
<1>4. CASE After(c, j) \in ps2[j].todo
  BY <1>1, <1>2, <1>3, <1>4 DEF Awaited
<1>5. CASE After(c, j) \notin ps2[j].todo
  BY <1>1, <1>2, <1>3, <1>5
<1> QED
  BY <1>4, <1>5

LEMMA NotAwaitedSkips ==
  ASSUME NEW c, NEW s, NEW ps \in Seq(Calls), NEW w, NEW ps2, Skips(s, ps, w, ps2),
         Awaited(c, ps2)
  PROVE  Awaited(c, ps)
<1>1. PICK n \in Nat : n = Len(ps) /\ Len(ps2) = n
  BY ToSetIs DEF Skips
<1>2. PICK j \in 1..n : Agrees(c, ps2, j) /\ After(c, j) \in ps2[j].todo
  BY <1>1 DEF Awaited
<1>3. PICK hit : Tries(ps, w, hit, ps2)
  BY DEF Skips
<1>4. Agrees(c, ps, j) /\ ps2[j].todo \subseteq ps[j].todo
<2>1. \A k \in 1..Len(ps) : Agrees(c, ps2, k) <=> Agrees(c, ps, k)
  BY <1>3, AgreesTries
<2>2. \A k \in 1..Len(ps) : k # Len(ps) => ps2[k].todo = ps[k].todo
  BY <1>3 DEF Tries
<2>3. ps2[Len(ps)].todo = ps[Len(ps)].todo \ {w}
  BY <1>3 DEF Tries
<2> QED
  BY <1>1, <1>2, <2>1, <2>2, <2>3
<1> QED
  BY <1>1, <1>2, <1>4 DEF Awaited

LEMMA NotAwaitedEnters ==
  ASSUME NEW c, NEW ah, NEW ps \in Seq(Calls), NEW w, NEW ps2, Enters(ah, ps, w, ps2),
         Len(c) \in Nat, Awaited(c, ps2)
  PROVE  Awaited(c, ps)
<1>1. PICK n \in Nat : n = Len(ps) /\ Len(ps2) = n + 1 /\ n > 0
  BY ToSetIs DEF Enters, Tries
<1>2. PICK j \in 1..n + 1 : Agrees(c, ps2, j) /\ After(c, j) \in ps2[j].todo
  BY <1>1 DEF Awaited
<1>3. PICK hit : Tries(ps, w, hit, ps2) /\ ps2[n + 1].v = w /\ w \in ps[n].todo
<2>1. PICK hit : Tries(ps, w, hit, ps2)
  BY DEF Enters
<2>2. ps2[n + 1].v = w
  BY <1>1 DEF Enters
<2>3. w \in ps[n].todo
  BY <1>1, <2>1 DEF Tries
<2> QED
  BY <2>1, <2>2, <2>3
<1>4. /\ \A k \in 1..n : Agrees(c, ps2, k) <=> Agrees(c, ps, k)
      /\ \A k \in 1..n : ps2[k].todo \subseteq ps[k].todo
<2>1. \A k \in 1..Len(ps) : Agrees(c, ps2, k) <=> Agrees(c, ps, k)
  BY <1>3, AgreesTries
<2>2. \A k \in 1..Len(ps) : k # Len(ps) => ps2[k].todo = ps[k].todo
  BY <1>3 DEF Tries
<2>3. ps2[Len(ps)].todo = ps[Len(ps)].todo \ {w}
  BY <1>3 DEF Tries
<2> QED
  BY <1>1, <2>1, <2>2, <2>3
<1>5. CASE j # n + 1
<2>1. j \in 1..n
  BY <1>5
<2> QED
  BY <1>1, <1>2, <1>4, <2>1 DEF Awaited
<1>6. CASE j = n + 1
<2>1. n + 1 \in 1..Len(c) /\ \A i \in 1..n + 1 : c[i] = ps2[i].v
  BY <1>2, <1>6 DEF Agrees
<2>2. n \in 1..n /\ n \in 1..Len(c) /\ n # Len(c) /\ n + 1 \in 1..n + 1
      /\ \A i \in 1..n : i \in 1..n + 1
  BY <1>1, <2>1
<2>3. Agrees(c, ps2, n)
  BY <2>1, <2>2 DEF Agrees
<2>4. Agrees(c, ps, n)
  BY <1>4, <2>2, <2>3
<2>5. After(c, n) = w
  BY <1>3, <2>1, <2>2 DEF After
<2> QED
  BY <1>1, <1>3, <2>2, <2>4, <2>5 DEF Awaited
<1> QED
  BY <1>5, <1>6

\* What was awaited behind w still is when circuit is called for w.
LEMMA AwaitedEnters ==
  ASSUME NEW c, NEW ah, NEW ps \in Seq(Calls), NEW w, NEW ps2, Enters(ah, ps, w, ps2),
         Len(c) \in Nat, Len(ps) # Len(c), Agrees(c, ps, Len(ps)), After(c, Len(ps)) = w,
         After(c, Len(ps) + 1) \in ah[w]
  PROVE  Awaited(c, ps2)
<1>1. PICK n \in Nat : n = Len(ps) /\ Len(ps2) = n + 1 /\ n > 0
  BY ToSetIs DEF Enters, Tries
<1>2. Tries(ps, w, ps[n].hit, ps2) /\ ps2[n + 1].v = w /\ ps2[n + 1].todo = ah[w]
  BY <1>1 DEF Enters
<1>3. n \in 1..n /\ n + 1 \in 1..n + 1 /\ \A i \in 1..n + 1 : i \in 1..n \/ i = n + 1
  BY <1>1
<1>4. n \in 1..Len(c) /\ \A i \in 1..n : c[i] = ps[i].v
  BY <1>1 DEF Agrees
<1>5. n + 1 \in 1..Len(c)
  BY <1>1, <1>4
<1>6. \A i \in 1..n : ps2[i].v = ps[i].v
  BY <1>1, <1>2 DEF Tries
<1>7. c[n + 1] = w
  BY <1>1 DEF After
<1>8. Agrees(c, ps2, n + 1)
<2>1. \A i \in 1..n + 1 : c[i] = ps2[i].v
  BY <1>2, <1>3, <1>4, <1>6, <1>7
<2> QED
  BY <1>5, <2>1 DEF Agrees
<1> QED
  BY <1>1, <1>2, <1>3, <1>8 DEF Awaited

LEMMA AwaitedLeaves ==
  ASSUME NEW c, NEW ps \in Seq(Calls), NEW ps2, Leaves(ps, ps2)
  PROVE  /\ Awaited(c, ps2) => Awaited(c, ps)
         /\ Awaited(c, ps) /\ ps[Len(ps)].todo = {} => Awaited(c, ps2)
<1>1. PICK n \in Nat : n = Len(ps) /\ Len(ps2) = n - 1 /\ n > 0
  BY ToSetIs DEF Leaves
<1>2. \A i \in 1..n : i # n => i \in 1..n - 1 /\ i < n
  BY <1>1
<1>3. \A i \in 1..n - 1 : i \in 1..n /\ i < n /\ \A k \in 1..i : k \in 1..n - 1
  BY <1>1
<1>4. \A i \in 1..n - 1 : ps2[i].v = ps[i].v /\ ps2[i].todo = ps[i].todo
  BY <1>1, <1>3 DEF Leaves
<1>5. \A j \in 1..n - 1 : Agrees(c, ps2, j) <=> Agrees(c, ps, j)
<2>1. \A j \in 1..n - 1 : (\A i \in 1..j : c[i] = ps2[i].v) <=> (\A i \in 1..j : c[i] = ps[i].v)
  BY <1>3, <1>4
<2> QED
  BY <2>1 DEF Agrees
<1>6. ASSUME Awaited(c, ps2) PROVE Awaited(c, ps)
<2>1. PICK j \in 1..n - 1 : Agrees(c, ps2, j) /\ After(c, j) \in ps2[j].todo
  BY <1>1, <1>6 DEF Awaited
<2> QED
  BY <1>1, <1>3, <1>4, <1>5, <2>1 DEF Awaited
<1>7. ASSUME Awaited(c, ps), ps[n].todo = {} PROVE Awaited(c, ps2)
<2>1. PICK j \in 1..n : Agrees(c, ps, j) /\ After(c, j) \in ps[j].todo
  BY <1>1, <1>7 DEF Awaited
<2>2. j \in 1..n - 1
  BY <1>2, <1>7, <2>1
<2> QED
  BY <1>1, <1>4, <1>5, <2>1, <2>2 DEF Awaited
<1> QED
  BY <1>1, <1>6, <1>7

\* The walk that the calls spell out.
Spelt(ps) == [i \in DOMAIN ps |-> ps[i].v]

LEMMA SpeltIs ==
  ASSUME NEW ps \in Seq(Calls)
  PROVE  /\ Spelt(ps) \in Seq(Vertex) /\ Len(Spelt(ps)) = Len(ps)
         /\ \A i \in 1..Len(ps) : Spelt(ps)[i] = ps[i].v
         /\ \A c \in Seq(Vertex) : Len(c) = Len(ps) /\ (\A i \in 1..Len(ps) : c[i] = ps[i].v)
                                     => c = Spelt(ps)
<1>1. PICK n \in Nat : n = Len(ps) /\ DOMAIN ps = 1..n
  BY ToSetIs
<1>2. \A i \in 1..n : ps[i].v \in Vertex
<2>1. \A i \in 1..n : ps[i] \in Calls
  BY <1>1, ElementOfSeq
<2> QED
  BY <2>1 DEF Calls
<1>3. Spelt(ps) = [i \in 1..n |-> ps[i].v]
  BY <1>1 DEF Spelt
<1>4. Spelt(ps) \in Seq(Vertex) /\ Len(Spelt(ps)) = n
<2>1. Spelt(ps) \in [1..n -> Vertex]
  BY <1>2, <1>3
<2>2. Spelt(ps) \in Seq(Vertex)
  BY <2>1, SeqDef
<2>3. DOMAIN Spelt(ps) = 1..n
  BY <1>3
<2> QED
  BY <2>2, <2>3, LenProperties
<1>5. ASSUME NEW c \in Seq(Vertex), Len(c) = n, \A i \in 1..n : c[i] = ps[i].v
      PROVE  c = Spelt(ps)
<2>1. c = [i \in 1..n |-> c[i]]
  BY <1>5, LenProperties
<2> QED
  BY <1>3, <1>5, <2>1
<1> QED
  BY <1>1, <1>3, <1>4, <1>5

\* The neighbours in S that are not below s.
Within(S, s) == [v \in Vertex |-> {w \in Adj(v) : w \in S /\ w >= s}]

\* The walk spelt out is closed where circuit comes upon s; it was not there before,
\* and is not awaited again.
LEMMA SpeltCloses ==
  ASSUME CyclesAssumption, NEW ah, NEW s, NEW ps, NEW ps2, Chain(ah, s, ps), Skips(s, ps, s, ps2),
         NEW S \in SUBSET Vertex, ah = Within(S, s)
  PROVE  /\ IsClosed(Spelt(ps)) /\ Spelt(ps)[1] = s
         /\ Awaited(Spelt(ps), ps) /\ ~Awaited(Spelt(ps), ps2)
         /\ \A c \in Seq(Vertex) :
              Agrees(c, ps, Len(ps)) /\ After(c, Len(ps)) = s /\ IsInjective(c) /\ c[1] = s
                => c = Spelt(ps)
<1>1. PICK n \in Nat : n = Len(ps) /\ n > 0 /\ Len(ps2) = n
  BY ToSetIs DEF Chain, Skips, Tries
<1>2. PICK c0 \in Seq(Vertex) : /\ c0 = Spelt(ps) /\ Len(c0) = n
                                /\ \A i \in 1..n : c0[i] = ps[i].v
  BY <1>1, SpeltIs DEF Chain
<1>3. n \in 1..n /\ 1 \in 1..n /\ \A i \in 1..n : i # n => i < n /\ i + 1 \in 1..n
  BY <1>1
<1>4. c0[1] = s /\ s \in ps[n].todo /\ ps2[n].todo = ps[n].todo \ {s}
  BY <1>1, <1>2, <1>3 DEF Chain, Skips, Tries
<1>5. \A i \in 1..n : s <= ps[i].v /\ ps[i].todo \subseteq ah[ps[i].v] /\ ps[i].v \in Vertex
<2>1. \A i \in 1..n : ps[i].v \in Vertex
  BY <1>2, ElementOfSeq
<2> QED
  BY <1>1, <2>1 DEF Chain
<1>6. \A i \in 1..n : After(c0, i) \in ah[ps[i].v]
<2> SUFFICES ASSUME NEW i \in 1..n PROVE After(c0, i) \in ah[ps[i].v]
  OBVIOUS
<2>1. CASE i = n
  BY <1>2, <1>3, <1>4, <1>5, <2>1 DEF After
<2>2. CASE i # n
<3>1. After(c0, i) = ps[i + 1].v
  BY <1>2, <1>3, <2>2 DEF After
<3> QED
  BY <1>1, <1>3, <2>2, <3>1 DEF Chain
<2> QED
  BY <2>1, <2>2
<1>7. \A i \in 1..n : After(c0, i) \notin ps2[i].todo
<2>1. \A i \in 1..n : i # n => ps2[i].todo = ps[i].todo
  BY <1>1 DEF Skips, Tries
<2> SUFFICES ASSUME NEW i \in 1..n PROVE After(c0, i) \notin ps2[i].todo
  OBVIOUS
<2>2. CASE i = n
  BY <1>2, <1>3, <1>4, <2>2 DEF After
<2>3. CASE i # n
<3>1. After(c0, i) = ps[i + 1].v /\ ps2[i].todo = ps[i].todo
  BY <1>2, <1>3, <2>1, <2>3 DEF After
<3> QED
  BY <1>1, <1>3, <2>3, <3>1 DEF Chain
<2> QED
  BY <2>2, <2>3
<1>8. IsClosed(c0)
  BY <1>2, <1>4, <1>5, <1>6 DEF IsClosed, Within
<1>9. Awaited(c0, ps)
<2>1. Agrees(c0, ps, n) /\ After(c0, n) = s
  BY <1>2, <1>3, <1>4 DEF Agrees, After
<2> QED
  BY <1>1, <1>3, <1>4, <2>1 DEF Awaited
<1>10. ~Awaited(c0, ps2)
  BY <1>1, <1>7 DEF Awaited
<1>11. ASSUME NEW c \in Seq(Vertex), Agrees(c, ps, n), After(c, n) = s, IsInjective(c), c[1] = s
       PROVE  c = Spelt(ps)
<2>1. PICK m \in Nat : m = Len(c) /\ n \in 1..m /\ DOMAIN c = 1..m
  BY <1>11, ToSetIs DEF Agrees
<2>2. n = m
<3> SUFFICES ASSUME n # m PROVE FALSE
  OBVIOUS
<3>1. n + 1 \in 1..m /\ 1 \in 1..m /\ n + 1 # 1
  BY <1>1, <2>1
<3>2. c[n + 1] = c[1]
  BY <1>11, <2>1 DEF After
<3> QED
  BY <1>11, <2>1, <3>1, <3>2 DEF IsInjective
<2>3. \A i \in 1..n : c[i] = ps[i].v
  BY <1>11 DEF Agrees
<2> QED
  BY <1>1, <2>1, <2>2, <2>3, SpeltIs DEF Chain
<1>12. \A c \in Seq(Vertex) :
         Agrees(c, ps, Len(ps)) /\ After(c, Len(ps)) = s /\ IsInjective(c) /\ c[1] = s
           => c = Spelt(ps)
  BY <1>1, <1>11
<1>13. /\ IsClosed(Spelt(ps)) /\ Spelt(ps)[1] = s
       /\ Awaited(Spelt(ps), ps) /\ ~Awaited(Spelt(ps), ps2)
  BY <1>2, <1>4, <1>8, <1>9, <1>10
<1> QED
  BY <1>12, <1>13

(***************************************************************************)
(* What is blocked, bl, and what waits for each vertex, bs.                *)
(***************************************************************************)
Apart(ps) == \A i, j \in 1..Len(ps) : ps[i].v = ps[j].v => i = j
Below(ps, j) == {ps[i].v : i \in 1..j - 1}

\* Blocked vertices off the path from which circuit gets no further than the
\* calls below the j-th.
Walled(ah, ps, bl, j) ==
  UNION {Y \in SUBSET (bl \ On(ps)) : \A u \in Y : ah[u] \subseteq Y \cup Below(ps, j)}

\* Off the path, what is blocked leads only to what is blocked and waits for it.
Shut(ah, s, ps, bl, bs) ==
  \A y \in bl \ On(ps) : s \notin ah[y] /\ ah[y] \subseteq bl /\ \A w \in ah[y] : y \in bs[w]

\* A call without a hit, nor one behind it, found nothing open.
Tried(ah, s, ps, bl) ==
  \A i \in 1..Len(ps) : (\A k \in i..Len(ps) : ~ps[k].hit) =>
    ah[ps[i].v] \ ps[i].todo \subseteq bl \ {s}

\* What a vertex of the path still waits for is not unblocked before it leaves.
Held(ah, ps, bl, bs) ==
  \A j \in 1..Len(ps), w \in Vertex :
    ps[j].v \in bs[w] => w \in Walled(ah, ps, bl, j) \cup Below(ps, j)

Blocking(ah, s, ps, bl, bs) ==
  /\ On(ps) \subseteq bl /\ bl \subseteq Vertex /\ bs \in Steps
  /\ \A y \in Vertex \ bl : bs[y] = {}
  /\ \A w \in Vertex : \A x \in bs[w] : w \in ah[x]
  /\ Shut(ah, s, ps, bl, bs) /\ Tried(ah, s, ps, bl) /\ Held(ah, ps, bl, bs)

LEMMA WalledIs ==
  ASSUME NEW ah, NEW ps, NEW bl, NEW j
  PROVE  /\ Walled(ah, ps, bl, j) \subseteq bl \ On(ps)
         /\ \A u \in Walled(ah, ps, bl, j) :
              ah[u] \subseteq Walled(ah, ps, bl, j) \cup Below(ps, j)
         /\ \A Y \in SUBSET (bl \ On(ps)) :
              (\A u \in Y : ah[u] \subseteq Y \cup Below(ps, j)) => Y \subseteq Walled(ah, ps, bl, j)
<1> DEFINE W == Walled(ah, ps, bl, j)
           Ys == {Y \in SUBSET (bl \ On(ps)) : \A u \in Y : ah[u] \subseteq Y \cup Below(ps, j)}
<1>1. W = UNION Ys
  BY DEF Walled
<1>2. \A Y : Y \in Ys <=> /\ Y \in SUBSET (bl \ On(ps))
                          /\ \A u \in Y : ah[u] \subseteq Y \cup Below(ps, j)
  OBVIOUS
<1> HIDE DEF W, Ys
<1>3. W \subseteq bl \ On(ps)
  BY <1>1, <1>2
<1>4. ASSUME NEW u \in W PROVE ah[u] \subseteq W \cup Below(ps, j)
<2>1. PICK Y \in Ys : u \in Y
  BY <1>1
<2>2. ah[u] \subseteq Y \cup Below(ps, j) /\ Y \subseteq W
  BY <1>1, <1>2, <2>1
<2> QED
  BY <2>2
<1>5. ASSUME NEW Y \in SUBSET (bl \ On(ps)), \A u \in Y : ah[u] \subseteq Y \cup Below(ps, j)
      PROVE  Y \subseteq W
  BY <1>1, <1>2, <1>5
<1> QED
  BY <1>3, <1>4, <1>5 DEF W

\* A wall stands while what it consists of stays blocked and off the path and the
\* calls below are the same or more.
LEMMA WalledGrows ==
  ASSUME NEW ah, NEW ps, NEW bl, NEW j, NEW ps2, NEW bl2, NEW j2,
         Walled(ah, ps, bl, j) \subseteq bl2 \ On(ps2), Below(ps, j) \subseteq Below(ps2, j2)
  PROVE  Walled(ah, ps, bl, j) \subseteq Walled(ah, ps2, bl2, j2)
<1> DEFINE W == Walled(ah, ps, bl, j)
<1>1. \A u \in W : ah[u] \subseteq W \cup Below(ps, j)
  BY WalledIs
<1>2. W \in SUBSET (bl2 \ On(ps2)) /\ \A u \in W : ah[u] \subseteq W \cup Below(ps2, j2)
  BY <1>1
<1> HIDE DEF W
<1>3. W \subseteq Walled(ah, ps2, bl2, j2)
  BY <1>2, WalledIs
<1> QED
  BY <1>3 DEF W

Entered(ps, w, ps2) ==
  /\ On(ps2) = On(ps) \cup {w} /\ Below(ps2, Len(ps) + 1) = On(ps)
  /\ \A j \in 1..Len(ps) : Below(ps2, j) = Below(ps, j) /\ ps2[j].v = ps[j].v
  /\ Apart(ps) /\ w \notin On(ps) => Apart(ps2)

LEMMA PathEnters ==
  ASSUME NEW ah, NEW ps \in Seq(Calls), NEW w, NEW ps2, Enters(ah, ps, w, ps2)
  PROVE  Entered(ps, w, ps2)
<1>1. PICK n \in Nat : n = Len(ps) /\ Len(ps2) = n + 1 /\ n > 0
  BY ToSetIs DEF Enters, Tries
<1>2. (\A i \in 1..n : ps2[i].v = ps[i].v) /\ ps2[n + 1].v = w
  BY <1>1 DEF Enters, Tries
<1>3. /\ \A i \in 1..n : i \in 1..n + 1 /\ i # n + 1
      /\ \A i \in 1..n + 1 : i \in 1..n \/ i = n + 1
      /\ n + 1 \in 1..n + 1 /\ (n + 1) - 1 = n
      /\ \A j \in 1..n : \A i \in 1..j - 1 : i \in 1..n
  BY <1>1
<1>4. On(ps2) = On(ps) \cup {w}
<2>1. \A x : x \in On(ps2) <=> \E i \in 1..n + 1 : x = ps2[i].v
  BY <1>1 DEF On
<2>2. \A x : x \in On(ps) <=> \E i \in 1..n : x = ps[i].v
  BY <1>1 DEF On
<2>3. ASSUME NEW x \in On(ps2) PROVE x \in On(ps) \cup {w}
  BY <1>2, <1>3, <2>1, <2>2
<2>4. ASSUME NEW x \in On(ps) \cup {w} PROVE x \in On(ps2)
  BY <1>2, <1>3, <2>1, <2>2
<2> QED
  BY <2>3, <2>4
<1>5. Below(ps2, n + 1) = On(ps)
  BY <1>1, <1>2, <1>3 DEF Below, On
<1>6. \A j \in 1..n : Below(ps2, j) = Below(ps, j)
  BY <1>2, <1>3 DEF Below
<1>7. ASSUME Apart(ps), w \notin On(ps) PROVE Apart(ps2)
<2>1. \A i \in 1..n : ps[i].v # w
  BY <1>1, <1>7 DEF On
<2>2. \A i, j \in 1..n : ps[i].v = ps[j].v => i = j
  BY <1>1, <1>7 DEF Apart
<2>3. \A i, j \in 1..n + 1 : ps2[i].v = ps2[j].v => i = j
  BY <1>2, <1>3, <2>1, <2>2
<2> QED
  BY <1>1, <2>3 DEF Apart
<1> QED
  BY <1>1, <1>2, <1>4, <1>5, <1>6, <1>7 DEF Entered

LEMMA PathSkips ==
  ASSUME NEW s, NEW ps \in Seq(Calls), NEW w, NEW ps2, Skips(s, ps, w, ps2)
  PROVE  /\ On(ps2) = On(ps)
         /\ \A j \in 1..Len(ps) : Below(ps2, j) = Below(ps, j) /\ ps2[j].v = ps[j].v
         /\ Apart(ps) => Apart(ps2)
<1>1. PICK n \in Nat : n = Len(ps) /\ Len(ps2) = n /\ n > 0
  BY ToSetIs DEF Skips, Tries
<1>2. \A i \in 1..n : ps2[i].v = ps[i].v
  BY <1>1 DEF Skips, Tries
<1>3. \A j \in 1..n : \A i \in 1..j - 1 : i \in 1..n
  BY <1>1
<1>4. \A j \in 1..n : Below(ps2, j) = Below(ps, j)
  BY <1>2, <1>3 DEF Below
<1> QED
  BY <1>1, <1>2, <1>4 DEF On, Apart

LEMMA PathLeaves ==
  ASSUME NEW ps \in Seq(Calls), NEW ps2, Leaves(ps, ps2), Apart(ps)
  PROVE  /\ On(ps2) = On(ps) \ {ps[Len(ps)].v} /\ Below(ps, Len(ps)) = On(ps2)
         /\ ps[Len(ps)].v \in On(ps)
         /\ \A j \in 1..Len(ps2) : /\ j \in 1..Len(ps) /\ j # Len(ps)
                                   /\ Below(ps2, j) = Below(ps, j) /\ ps2[j].v = ps[j].v
         /\ Apart(ps2)
<1>1. PICK n \in Nat : n = Len(ps) /\ Len(ps2) = n - 1 /\ n > 0
  BY ToSetIs DEF Leaves
<1>2. \A i \in 1..n - 1 : i \in 1..n /\ i < n /\ i # n
  BY <1>1
<1>3. \A i \in 1..n - 1 : ps2[i].v = ps[i].v
  BY <1>1, <1>2 DEF Leaves
<1>4. \A i \in 1..n : i \in 1..n - 1 \/ i = n
  BY <1>1
<1>5. \A j \in 1..n - 1 : \A i \in 1..j - 1 : i \in 1..n - 1
  BY <1>1
<1>6. \A i, j \in 1..n : ps[i].v = ps[j].v => i = j
  BY <1>1 DEF Apart
<1>7. On(ps2) = {ps[i].v : i \in 1..n - 1}
  BY <1>1, <1>3 DEF On
<1>8. On(ps) = {ps[i].v : i \in 1..n} /\ n \in 1..n
  BY <1>1 DEF On
<1>9. On(ps2) = On(ps) \ {ps[n].v}
  BY <1>2, <1>4, <1>6, <1>7, <1>8
<1>10. Below(ps, n) = On(ps2)
  BY <1>7 DEF Below
<1>11. \A j \in 1..n - 1 : Below(ps2, j) = Below(ps, j)
  BY <1>3, <1>5 DEF Below
<1>12. Apart(ps2)
  BY <1>1, <1>2, <1>3, <1>6 DEF Apart
<1>13. ps[n].v \in On(ps)
  BY <1>8
<1> QED
  BY <1>1, <1>2, <1>3, <1>9, <1>10, <1>11, <1>12, <1>13

LEMMA BlockingStarts ==
  ASSUME NEW ah \in Steps, NEW s \in Vertex, NEW ps,
         ps = <<[v |-> s, todo |-> ah[s], hit |-> FALSE]>>
  PROVE  /\ ps \in Seq(Calls) /\ Len(ps) = 1 /\ Apart(ps)
         /\ s <= s => Chain(ah, s, ps)
         /\ Blocking(ah, s, ps, {s}, [v \in Vertex |-> {}])
<1>1. ps \in Seq(Calls)
  BY DEF Calls, Steps
<1>2. Len(ps) = 1 /\ ps[1].v = s /\ ps[1].todo = ah[s] /\ 1..1 = {1}
  OBVIOUS
<1>3. Apart(ps) /\ On(ps) = {s}
  BY <1>2 DEF Apart, On
<1>4. s <= s => Chain(ah, s, ps)
  BY <1>1, <1>2 DEF Chain
<1> DEFINE bs == [v \in Vertex |-> {}]
<1>5. bs \in Steps /\ \A w \in Vertex : bs[w] = {}
  BY DEF Steps
<1> HIDE DEF bs
<1>6. Shut(ah, s, ps, {s}, bs) /\ Tried(ah, s, ps, {s}) /\ Held(ah, ps, {s}, bs)
  BY <1>2, <1>3, <1>5 DEF Shut, Tried, Held
<1>7. Blocking(ah, s, ps, {s}, bs)
  BY <1>3, <1>5, <1>6 DEF Blocking
<1> QED
  BY <1>1, <1>2, <1>3, <1>4, <1>7 DEF bs

\* The neighbour closes a cycle or is blocked.
LEMMA BlockingSkips ==
  ASSUME NEW ah, NEW s, NEW ps, NEW w, NEW ps2, NEW bl, NEW bs,
         Chain(ah, s, ps), Blocking(ah, s, ps, bl, bs), Skips(s, ps, w, ps2), w = s \/ w \in bl
  PROVE  Blocking(ah, s, ps2, bl, bs)
<1>1. PICK n \in Nat : n = Len(ps) /\ Len(ps2) = n /\ n > 0 /\ n \in 1..n
  BY ToSetIs DEF Chain, Skips, Tries
<1>2. /\ On(ps2) = On(ps)
      /\ \A j \in 1..n : Below(ps2, j) = Below(ps, j) /\ ps2[j].v = ps[j].v
<2>1. ps \in Seq(Calls)
  BY DEF Chain
<2>2. On(ps2) = On(ps)
  BY <2>1, PathSkips
<2>3. \A j \in 1..Len(ps) : Below(ps2, j) = Below(ps, j) /\ ps2[j].v = ps[j].v
  BY <2>1, PathSkips
<2> QED
  BY <1>1, <2>2, <2>3
<1>3. /\ \A i \in 1..n : i # n => ps2[i] = ps[i]
      /\ ps2[n].todo = ps[n].todo \ {w} /\ (ps2[n].hit <=> (ps[n].hit \/ w = s))
<2>1. \A i \in 1..n : i # n => ps2[i] = ps[i]
  BY <1>1 DEF Skips, Tries
<2>2. ps2[n] = [v |-> ps[n].v, todo |-> ps[n].todo \ {w}, hit |-> ps[n].hit \/ w = s]
  BY <1>1 DEF Skips, Tries
<2>3. ps2[n].todo = ps[n].todo \ {w}
  BY <2>2
<2>4. ps2[n].hit = (ps[n].hit \/ w = s)
  BY <2>2
<2> QED
  BY <2>1, <2>3, <2>4
<1>4. Shut(ah, s, ps2, bl, bs)
  BY <1>2 DEF Blocking, Shut
<1>5. Tried(ah, s, ps2, bl)
<2> SUFFICES ASSUME NEW i \in 1..n, \A k \in i..n : ~ps2[k].hit
             PROVE  ah[ps2[i].v] \ ps2[i].todo \subseteq bl \ {s}
  BY <1>1 DEF Tried
<2>1. n \in i..n /\ \A k \in i..n : k \in 1..n
  OBVIOUS
<2>2. ~ps[n].hit /\ w # s
  BY <1>3, <2>1
<2>3. \A k \in i..n : ~ps[k].hit
  BY <1>3, <2>1, <2>2
<2>4. ah[ps[i].v] \ ps[i].todo \subseteq bl \ {s}
  BY <1>1, <2>3 DEF Blocking, Tried
<2>5. w \in bl \ {s}
  BY <2>2
<2>6. ps2[i].todo = ps[i].todo \/ ps2[i].todo = ps[i].todo \ {w}
  BY <1>3
<2>7. ps2[i].v = ps[i].v
  BY <1>2
<2> QED
  BY <2>4, <2>5, <2>6, <2>7
<1>6. Held(ah, ps2, bl, bs)
<2> SUFFICES ASSUME NEW j \in 1..n, NEW x \in Vertex, ps2[j].v \in bs[x]
             PROVE  x \in Walled(ah, ps2, bl, j) \cup Below(ps2, j)
  BY <1>1 DEF Held
<2>1. x \in Walled(ah, ps, bl, j) \cup Below(ps, j)
  BY <1>1, <1>2 DEF Blocking, Held
<2>2. Walled(ah, ps2, bl, j) = Walled(ah, ps, bl, j)
  BY <1>2 DEF Walled
<2> QED
  BY <1>2, <2>1, <2>2
<1> QED
  BY <1>2, <1>4, <1>5, <1>6 DEF Blocking

\* circuit is called for the neighbour, which was open.
LEMMA BlockingEnters ==
  ASSUME NEW ah, NEW s, NEW ps, NEW w \in Vertex, NEW ps2, NEW bl, NEW bs,
         Chain(ah, s, ps), Blocking(ah, s, ps, bl, bs), Enters(ah, ps, w, ps2),
         w # s, w \notin bl
  PROVE  Blocking(ah, s, ps2, bl \cup {w}, bs)
<1>1. PICK n \in Nat : n = Len(ps) /\ Len(ps2) = n + 1 /\ n > 0
  BY ToSetIs DEF Chain, Enters, Tries
<1>2. /\ On(ps2) = On(ps) \cup {w} /\ Below(ps2, n + 1) = On(ps)
      /\ \A j \in 1..n : Below(ps2, j) = Below(ps, j) /\ ps2[j].v = ps[j].v
<2>1. ps \in Seq(Calls)
  BY DEF Chain
<2>2. Entered(ps, w, ps2)
  BY <2>1, PathEnters
<2> QED
  BY <1>1, <2>2 DEF Entered
<1>3. /\ \A i \in 1..n : i # n => ps2[i] = ps[i]
      /\ ps2[n].todo = ps[n].todo \ {w} /\ (ps2[n].hit <=> ps[n].hit)
      /\ ps2[n + 1].v = w /\ ps2[n + 1].todo = ah[w]
  BY <1>1 DEF Enters, Tries
<1>4. n \in 1..n /\ \A i \in 1..n + 1 : i \in 1..n \/ i = n + 1
  BY <1>1
<1>5. (bl \cup {w}) \ On(ps2) = bl \ On(ps)
  BY <1>2 DEF Blocking
<1>6. Shut(ah, s, ps2, bl \cup {w}, bs)
  BY <1>5 DEF Blocking, Shut
<1>7. Tried(ah, s, ps2, bl \cup {w})
<2> SUFFICES ASSUME NEW i \in 1..n + 1, \A k \in i..n + 1 : ~ps2[k].hit
             PROVE  ah[ps2[i].v] \ ps2[i].todo \subseteq (bl \cup {w}) \ {s}
  BY <1>1 DEF Tried
<2>1. CASE i = n + 1
  BY <1>3, <2>1
<2>2. CASE i # n + 1
<3>1. i \in 1..n /\ \A k \in i..n : k \in 1..n /\ k \in i..n + 1
  BY <1>4, <2>2
<3>2. \A k \in i..n : ~ps[k].hit
  BY <1>3, <3>1
<3>3. ah[ps[i].v] \ ps[i].todo \subseteq bl \ {s}
  BY <1>1, <3>1, <3>2 DEF Blocking, Tried
<3>4. ps2[i].todo = ps[i].todo \/ ps2[i].todo = ps[i].todo \ {w}
  BY <1>3, <3>1
<3>5. ps2[i].v = ps[i].v
  BY <1>2, <3>1
<3> QED
  BY <3>3, <3>4, <3>5
<2> QED
  BY <2>1, <2>2
<1>8. Held(ah, ps2, bl \cup {w}, bs)
<2> SUFFICES ASSUME NEW j \in 1..n + 1, NEW x \in Vertex, ps2[j].v \in bs[x]
             PROVE  x \in Walled(ah, ps2, bl \cup {w}, j) \cup Below(ps2, j)
  BY <1>1 DEF Held
<2>1. CASE j = n + 1
<3>1. x \in bl
  BY DEF Blocking
<3> DEFINE Z == bl \ On(ps)
<3>2. \A u \in Z : ah[u] \subseteq Z \cup Below(ps2, n + 1)
  BY <1>2 DEF Blocking, Shut
<3>3. Z \subseteq (bl \cup {w}) \ On(ps2)
  BY <1>5
<3> HIDE DEF Z
<3>4. Z \subseteq Walled(ah, ps2, bl \cup {w}, n + 1)
  BY <3>2, <3>3, WalledIs
<3>5. x \in Z \cup Below(ps2, n + 1)
  BY <1>2, <3>1 DEF Z
<3> QED
  BY <2>1, <3>4, <3>5
<2>2. CASE j # n + 1
<3>1. j \in 1..n
  BY <1>4, <2>2
<3>2. x \in Walled(ah, ps, bl, j) \cup Below(ps, j)
  BY <1>1, <1>2, <3>1 DEF Blocking, Held
<3>3. Walled(ah, ps, bl, j) \subseteq (bl \cup {w}) \ On(ps2)
  BY <1>5, WalledIs
<3>4. Walled(ah, ps, bl, j) \subseteq Walled(ah, ps2, bl \cup {w}, j)
  BY <1>2, <3>1, <3>3, WalledGrows
<3> QED
  BY <1>2, <3>1, <3>2, <3>4
<2> QED
  BY <2>1, <2>2
<1>9. On(ps2) \subseteq bl \cup {w} /\ bl \cup {w} \subseteq Vertex
  BY <1>2 DEF Blocking
<1> QED
  BY <1>6, <1>7, <1>8, <1>9 DEF Blocking

\* circuit returns without a hit and its vertex stays blocked.
LEMMA BlockingStays ==
  ASSUME NEW ah, NEW s, NEW ps, NEW ps2, NEW bl, NEW bs, NEW bs2, NEW v,
         Chain(ah, s, ps), Apart(ps), Blocking(ah, s, ps, bl, bs), Leaves(ps, ps2),
         v = ps[Len(ps)].v, ps[Len(ps)].todo = {}, ~ps[Len(ps)].hit,
         bs2 = [w \in Vertex |-> IF w \in ah[v] THEN bs[w] \cup {v} ELSE bs[w]]
  PROVE  Blocking(ah, s, ps2, bl, bs2)
<1>1. PICK n \in Nat : n = Len(ps) /\ Len(ps2) = n - 1 /\ n > 0 /\ n \in 1..n
<2>1. Len(ps) \in Nat
  BY ToSetIs DEF Chain
<2> QED
  BY <2>1 DEF Leaves
<1>2. /\ On(ps2) = On(ps) \ {v} /\ v \in On(ps)
      /\ \A j \in 1..n - 1 : /\ j \in 1..n /\ j # n
                             /\ Below(ps2, j) = Below(ps, j) /\ ps2[j].v = ps[j].v
  BY <1>1, PathLeaves DEF Chain
<1>3. ah \in Steps /\ bs \in Steps /\ bl \subseteq Vertex /\ v \in bl /\ ah[v] \subseteq Vertex
  BY <1>2 DEF Chain, Blocking, Steps
<1>4. ah[v] \subseteq bl \ {s}
<2>1. \A k \in n..n : ~ps[k].hit
  BY <1>1
<2> QED
  BY <1>1, <2>1 DEF Blocking, Tried
<1>5. bs2 \in Steps /\ \A w \in Vertex : bs2[w] = IF w \in ah[v] THEN bs[w] \cup {v} ELSE bs[w]
  BY <1>3 DEF Steps
<1>6. \A y \in Vertex \ bl : bs2[y] = {}
  BY <1>4, <1>5 DEF Blocking
<1>7. \A w \in Vertex : \A x \in bs2[w] : w \in ah[x]
  BY <1>5 DEF Blocking
<1>8. Shut(ah, s, ps2, bl, bs2)
<2> SUFFICES ASSUME NEW y \in bl \ On(ps2)
             PROVE  s \notin ah[y] /\ ah[y] \subseteq bl /\ \A w \in ah[y] : y \in bs2[w]
  BY DEF Shut
<2>1. CASE y = v
  BY <1>3, <1>4, <1>5, <2>1
<2>2. CASE y # v
<3>1. y \in bl \ On(ps)
  BY <1>2, <2>2
<3>2. s \notin ah[y] /\ ah[y] \subseteq bl /\ \A w \in ah[y] : y \in bs[w]
  BY <3>1 DEF Blocking, Shut
<3> QED
  BY <1>3, <1>5, <3>2
<2> QED
  BY <2>1, <2>2
<1>9. Tried(ah, s, ps2, bl)
<2> SUFFICES ASSUME NEW i \in 1..n - 1, \A k \in i..n - 1 : ~ps2[k].hit
             PROVE  ah[ps2[i].v] \ ps2[i].todo \subseteq bl \ {s}
  BY <1>1 DEF Tried
<2>1. i \in 1..n /\ i < n /\ \A k \in i..n : k = n \/ (k \in i..n - 1 /\ k \in 1..n /\ k < n)
  BY <1>1
<2>2. \A k \in i..n : ~ps[k].hit
  BY <1>1, <2>1 DEF Leaves
<2>3. ps2[i].v = ps[i].v /\ ps2[i].todo = ps[i].todo
  BY <1>1, <2>1 DEF Leaves
<2> QED
  BY <1>1, <2>1, <2>2, <2>3 DEF Blocking, Tried
<1>10. Held(ah, ps2, bl, bs2)
<2> SUFFICES ASSUME NEW j \in 1..n - 1, NEW x \in Vertex, ps2[j].v \in bs2[x]
             PROVE  x \in Walled(ah, ps2, bl, j) \cup Below(ps2, j)
  BY <1>1 DEF Held
<2>1. ps2[j].v = ps[j].v /\ ps[j].v # v /\ j \in 1..n
  BY <1>1, <1>2 DEF Apart
<2>2. ps[j].v \in bs[x]
  BY <1>5, <2>1
<2>3. x \in Walled(ah, ps, bl, j) \cup Below(ps, j)
  BY <1>1, <2>1, <2>2 DEF Blocking, Held
<2>4. Walled(ah, ps, bl, j) \subseteq bl \ On(ps2)
  BY <1>2, WalledIs
<2>5. Walled(ah, ps, bl, j) \subseteq Walled(ah, ps2, bl, j)
  BY <1>2, <2>4, WalledGrows
<2> QED
  BY <1>2, <2>3, <2>5
<1>11. On(ps2) \subseteq bl
  BY <1>2 DEF Blocking
<1> QED
  BY <1>3, <1>5, <1>6, <1>7, <1>8, <1>9, <1>10, <1>11 DEF Blocking

\* F is freed with v.
Frees(bl, bs, v, F) ==
  /\ v \in F /\ \A w \in F : bs[w] \cap bl \subseteq F
  /\ \A S \in SUBSET Vertex : v \in S /\ (\A w \in S : bs[w] \cap bl \subseteq S) => F \subseteq S

\* circuit returns with a hit: none of the vertices of the path are freed with its own.
LEMMA FreedMisses ==
  ASSUME NEW ah, NEW s, NEW ps, NEW bl, NEW bs, NEW v, NEW F,
         Chain(ah, s, ps), Apart(ps), Blocking(ah, s, ps, bl, bs), Len(ps) > 0,
         v = ps[Len(ps)].v, Frees(bl, bs, v, F)
  PROVE  F \cap (Walled(ah, ps, bl, Len(ps)) \cup Below(ps, Len(ps))) = {}
<1>1. PICK n \in Nat : n = Len(ps) /\ n > 0 /\ n \in 1..n /\ \A i \in 1..n - 1 : i \in 1..n /\ i # n
<2>1. Len(ps) \in Nat
  BY ToSetIs DEF Chain
<2> QED
  BY <2>1
<1> DEFINE W == Walled(ah, ps, bl, n)
           B == Below(ps, n)
           R == Vertex \ (W \cup B)
<1>2. W \subseteq bl \ On(ps) /\ \A u \in W : ah[u] \subseteq W \cup B
  BY WalledIs
<1>3. v \in R
<2>1. v \in On(ps) /\ v \in Vertex
  BY <1>1 DEF On, Blocking
<2>2. v \notin B
  BY <1>1 DEF Apart, Below
<2> QED
  BY <1>2, <2>1, <2>2
<1>4. ASSUME NEW w \in R, NEW u \in bs[w] \cap bl PROVE u \in R
<2>1. w \in ah[u] /\ u \in Vertex
  BY <1>4 DEF Blocking
<2>2. u \notin W
  BY <1>2, <2>1
<2>3. u \notin B
<3> SUFFICES ASSUME u \in B PROVE FALSE
  OBVIOUS
<3>1. PICK j \in 1..n - 1 : u = ps[j].v
  BY DEF Below
<3>2. w \in Walled(ah, ps, bl, j) \cup Below(ps, j)
  BY <1>1, <1>4, <3>1 DEF Blocking, Held
<3>3. Below(ps, j) \subseteq B
<4>1. \A i \in 1..j - 1 : i \in 1..n - 1
  BY <1>1
<4> QED
  BY <4>1 DEF Below
<3>4. Walled(ah, ps, bl, j) \subseteq W
<4>1. Walled(ah, ps, bl, j) \subseteq bl \ On(ps)
  BY WalledIs
<4> QED
  BY <3>3, <4>1, WalledGrows
<3> QED
  BY <3>2, <3>3, <3>4
<2> QED
  BY <2>1, <2>2, <2>3
<1>5. F \subseteq R
  BY <1>3, <1>4 DEF Frees
<1> QED
  BY <1>1, <1>5

LEMMA BlockingFrees ==
  ASSUME NEW ah, NEW s, NEW ps, NEW ps2, NEW bl, NEW bs, NEW bs2, NEW v, NEW F,
         Chain(ah, s, ps), Apart(ps), Blocking(ah, s, ps, bl, bs), Leaves(ps, ps2),
         v = ps[Len(ps)].v, ps[Len(ps)].hit,
         Frees(bl, bs, v, F),
         bs2 = [w \in Vertex |-> IF w \in F THEN {} ELSE bs[w]]
  PROVE  Blocking(ah, s, ps2, bl \ F, bs2)
<1>1. PICK n \in Nat : n = Len(ps) /\ Len(ps2) = n - 1 /\ n > 0 /\ n \in 1..n
<2>1. Len(ps) \in Nat
  BY ToSetIs DEF Chain
<2> QED
  BY <2>1 DEF Leaves
<1>2. /\ v \in F /\ On(ps2) = On(ps) \ {v} /\ Below(ps, n) = On(ps2)
      /\ \A j \in 1..n - 1 : /\ j \in 1..n /\ j # n
                             /\ Below(ps2, j) = Below(ps, j) /\ ps2[j].v = ps[j].v
  BY <1>1, PathLeaves DEF Chain, Frees
<1>3. F \cap (Walled(ah, ps, bl, n) \cup Below(ps, n)) = {}
<2>1. Len(ps) > 0
  BY <1>1
<2>2. F \cap (Walled(ah, ps, bl, Len(ps)) \cup Below(ps, Len(ps))) = {}
  BY <2>1, FreedMisses
<2> QED
  BY <1>1, <2>2
<1>4. ah \in Steps /\ bs \in Steps /\ bl \subseteq Vertex
  BY DEF Chain, Blocking
<1>5. bs2 \in Steps /\ \A w \in Vertex : bs2[w] = IF w \in F THEN {} ELSE bs[w]
  BY <1>4 DEF Steps
<1>6. \A y \in Vertex \ (bl \ F) : bs2[y] = {}
  BY <1>5 DEF Blocking
<1>7. \A w \in Vertex : \A x \in bs2[w] : w \in ah[x]
  BY <1>5 DEF Blocking
<1>8. Shut(ah, s, ps2, bl \ F, bs2)
<2> SUFFICES ASSUME NEW y \in (bl \ F) \ On(ps2)
             PROVE  s \notin ah[y] /\ ah[y] \subseteq bl \ F /\ \A w \in ah[y] : y \in bs2[w]
  BY DEF Shut
<2>1. y \in bl \ On(ps)
  BY <1>2
<2>2. s \notin ah[y] /\ ah[y] \subseteq bl /\ \A w \in ah[y] : y \in bs[w]
  BY <2>1 DEF Blocking, Shut
<2>3. \A w \in ah[y] : w \notin F
  BY <2>2 DEF Frees
<2> QED
  BY <1>4, <1>5, <2>2, <2>3
<1>9. Tried(ah, s, ps2, bl \ F)
<2> SUFFICES ASSUME NEW i \in 1..n - 1, \A k \in i..n - 1 : ~ps2[k].hit PROVE FALSE
  BY <1>1 DEF Tried
<2>1. n - 1 \in i..n - 1 /\ n - 1 \in 1..n /\ n - 1 < n
  BY <1>1
<2>2. ps2[n - 1].hit
  BY <1>1, <2>1 DEF Leaves
<2> QED
  BY <2>1, <2>2
<1>10. Held(ah, ps2, bl \ F, bs2)
<2> SUFFICES ASSUME NEW j \in 1..n - 1, NEW x \in Vertex, ps2[j].v \in bs2[x]
             PROVE  x \in Walled(ah, ps2, bl \ F, j) \cup Below(ps2, j)
  BY <1>1 DEF Held
<2>1. ps2[j].v = ps[j].v /\ j \in 1..n
  BY <1>2
<2>2. ps[j].v \in bs[x]
  BY <1>5, <2>1
<2>3. x \in Walled(ah, ps, bl, j) \cup Below(ps, j)
  BY <1>1, <2>1, <2>2 DEF Blocking, Held
<2>4. Walled(ah, ps, bl, j) \subseteq Walled(ah, ps, bl, n)
<3>1. Below(ps, j) \subseteq Below(ps, n)
<4>1. \A i \in 1..j - 1 : i \in 1..n - 1
  BY <1>1
<4> QED
  BY <4>1 DEF Below
<3>2. Walled(ah, ps, bl, j) \subseteq bl \ On(ps)
  BY WalledIs
<3> QED
  BY <3>1, <3>2, WalledGrows
<2>5. Walled(ah, ps, bl, j) \subseteq (bl \ F) \ On(ps2)
<3>1. Walled(ah, ps, bl, j) \subseteq bl \ On(ps)
  BY WalledIs
<3> QED
  BY <1>2, <1>3, <2>4, <3>1
<2>6. Walled(ah, ps, bl, j) \subseteq Walled(ah, ps2, bl \ F, j)
  BY <1>2, <2>5, WalledGrows
<2> QED
  BY <1>2, <2>3, <2>6
<1>11. On(ps2) \subseteq bl \ F /\ bl \ F \subseteq Vertex
  BY <1>2, <1>3, <1>4 DEF Blocking
<1> QED
  BY <1>5, <1>6, <1>7, <1>8, <1>9, <1>10, <1>11 DEF Blocking

\* A ring that goes on from the path to what is blocked never closes.
LEMMA ShutOff ==
  ASSUME NEW ah, NEW s, NEW ps, NEW bl, NEW bs, Chain(ah, s, ps), Blocking(ah, s, ps, bl, bs),
         NEW c \in Seq(Vertex), IsInjective(c), c[1] = s,
         \A i \in 1..Len(c) : After(c, i) \in ah[c[i]],
         Len(ps) > 0, Agrees(c, ps, Len(ps)), Len(c) # Len(ps)
  PROVE  After(c, Len(ps)) \notin bl
<1>1. PICK n \in Nat : n = Len(ps) /\ n > 0
<2>1. Len(ps) \in Nat
  BY ToSetIs DEF Chain
<2> QED
  BY <2>1
<1>2. PICK m \in Nat : m = Len(c) /\ DOMAIN c = 1..m
  BY ToSetIs
<1>3. n \in 1..m /\ n # m /\ n + 1 \in n + 1..m /\ \A i \in 1..n : c[i] = ps[i].v
  BY <1>1, <1>2 DEF Agrees
<1>4. ASSUME NEW i \in n + 1..m PROVE i \in 1..m /\ c[i] \notin On(ps)
<2>1. i \in 1..m /\ \A j \in 1..n : j \in 1..m /\ j # i
  BY <1>3
<2> QED
  BY <1>1, <1>2, <1>3, <2>1 DEF On, IsInjective
<1> SUFFICES ASSUME After(c, n) \in bl PROVE FALSE
  BY <1>1
<1>5. c[n + 1] \in bl
  BY <1>2, <1>3 DEF After
<1> DEFINE T == {i \in n + 1..m : c[i] \notin bl}
<1>6. ASSUME T # {} PROVE FALSE
<2>1. T \in SUBSET Nat
  OBVIOUS
<2>2. PICK i \in T : \A k \in T : i <= k
  BY <1>6, <2>1, Least
<2>3. i \in n + 1..m /\ c[i] \notin bl /\ i # n + 1
  BY <1>5, <2>2
<2>4. PICK k \in n + 1..m : k + 1 = i /\ k # m
<3>1. i - 1 \in n + 1..m /\ (i - 1) + 1 = i /\ i - 1 # m
  BY <2>3
<3> QED
  BY <3>1
<2>5. k \notin T
<3>1. ~(i <= k)
  BY <2>4
<3> QED
  BY <2>2, <3>1
<2>6. c[k] \in bl \ On(ps)
  BY <1>4, <2>5
<2>7. After(c, k) \in ah[c[k]] /\ After(c, k) = c[i]
  BY <1>2, <1>4, <2>4 DEF After
<2> QED
  BY <2>3, <2>6, <2>7 DEF Blocking, Shut
<1>7. m \in n + 1..m /\ c[m] \in bl \ On(ps)
<2>1. m \in n + 1..m
  BY <1>3
<2> QED
  BY <1>4, <1>6, <2>1
<1>8. s \in ah[c[m]]
  BY <1>2, <1>4, <1>7 DEF After
<1> QED
  BY <1>7, <1>8 DEF Blocking, Shut

(***************************************************************************)
(* The steps of circuit, as such changes of the path.                      *)
(***************************************************************************)
\* The last element replaced and another appended.
LEMMA ReplaceAndPush ==
  ASSUME NEW S, NEW s \in Seq(S), Len(s) > 0, NEW a \in S, NEW b \in S
  PROVE  /\ Front(s) \o <<a, b>> \in Seq(S) /\ Len(Front(s) \o <<a, b>>) = Len(s) + 1
         /\ (Front(s) \o <<a, b>>)[Len(s)] = a /\ (Front(s) \o <<a, b>>)[Len(s) + 1] = b
         /\ \A i \in 1..Len(s) : i # Len(s) => (Front(s) \o <<a, b>>)[i] = s[i]
<1>1. PICK n \in Nat : n = Len(s) /\ n > 0 /\ n - 1 \in Nat
  BY FrontIs
<1>2. PICK f \in Seq(S) : f = Front(s) /\ Len(f) = n - 1 /\ \A i \in 1..n - 1 : f[i] = s[i]
  BY <1>1, FrontIs
<1>3. PICK ab \in Seq(S) : ab = <<a, b>> /\ Len(ab) = 2 /\ ab[1] = a /\ ab[2] = b
<2>1. <<a, b>> \in Seq(S)
  OBVIOUS
<2>2. Len(<<a, b>>) = 2 /\ <<a, b>>[1] = a /\ <<a, b>>[2] = b
  OBVIOUS
<2> QED
  BY <2>1, <2>2
<1>4. PICK t \in Seq(S) : t = f \o ab
  BY ConcatProperties
<1>5. /\ Len(t) = (n - 1) + 2
      /\ \A i \in 1..(n - 1) + 2 : t[i] = IF i <= n - 1 THEN f[i] ELSE ab[i - (n - 1)]
  BY <1>2, <1>3, <1>4, ConcatProperties
<1>6. /\ (n - 1) + 2 = n + 1 /\ n \in 1..n + 1 /\ n + 1 \in 1..n + 1
      /\ ~(n <= n - 1) /\ ~(n + 1 <= n - 1) /\ n - (n - 1) = 1 /\ (n + 1) - (n - 1) = 2
      /\ \A i \in 1..n : i # n => i \in 1..n - 1 /\ i <= n - 1 /\ i \in 1..n + 1
  BY <1>1
<1>7. Len(t) = n + 1 /\ t[n] = a /\ t[n + 1] = b
  BY <1>3, <1>5, <1>6
<1>8. \A i \in 1..n : i # n => t[i] = s[i]
  BY <1>2, <1>5, <1>6
<1> QED
  BY <1>1, <1>2, <1>3, <1>4, <1>7, <1>8

\* circuit takes neighbour w: it is called for it or passes it over.
Takes(w) ==
  /\ \/ /\ Enters(Aheads(root), path, w, path')
        /\ w # root /\ w \notin blocked /\ Len(path) < cfg.length /\ blocked' = blocked \cup {w}
     \/ /\ Skips(root, path, w, path') /\ blocked' = blocked
        /\ w = root \/ w \in blocked \/ ~(Len(path) < cfg.length)
  /\ detected' = IF w = root /\ Len(path) >= 2 THEN Append(detected, Spelt(path)) ELSE detected

LEMMA NeighbourMoves ==
  ASSUME CyclesAssumption, path \in Seq(Calls), Neighbour
  PROVE  \E w \in Vertex : Len(path) > 0 /\ w \in path[Len(path)].todo /\ Takes(w)
<1>1. path # <<>> /\ Last(path).todo # {} /\ ~Full
  BY DEF Neighbour
<1>2. PICK n \in Nat : n = Len(path) /\ n > 0 /\ n \in 1..n
<2>1. Len(path) > 0
  BY <1>1
<2> QED
  BY <2>1, FrontIs
<1>3. PICK top \in Calls : top = Last(path) /\ top = path[n]
  BY <1>2, FrontIs
<1>4. PICK w : w = Min(top.todo)
  OBVIOUS
<1>5. top.v \in Vertex /\ top.todo \in SUBSET Vertex /\ top.hit \in BOOLEAN
  BY <1>3 DEF Calls
<1>6. w \in top.todo /\ w \in Vertex
<2>1. Vertex \in SUBSET Nat
  BY DEF Vertex, CyclesAssumption
<2>2. top.todo \in SUBSET Nat /\ top.todo # {}
  BY <1>1, <1>3, <1>5, <2>1
<2>3. w \in top.todo
  BY <1>4, <2>2, MinIs
<2> QED
  BY <1>5, <2>3
<1> DEFINE left == [top EXCEPT !.todo = @ \ {w}]
           enters == w # root /\ w \notin blocked /\ Len(path) < cfg.length
<1>7. /\ path' = IF enters THEN Front(path) \o <<left, Call(w, root)>>
                 ELSE Append(Front(path), [left EXCEPT !.hit = @ \/ w = root])
      /\ blocked' = IF enters THEN blocked \cup {w} ELSE blocked
      /\ detected' = IF w = root /\ Len(path) >= 2 THEN Append(detected, Vertices) ELSE detected
  BY <1>3, <1>4 DEF Neighbour
<1>8. left = [v |-> top.v, todo |-> top.todo \ {w}, hit |-> top.hit]
<2>1. PICK x, y, z : top = [v |-> x, todo |-> y, hit |-> z]
  BY <1>3 DEF Calls
<2>2. PICK u : u = top.todo \ {w}
  OBVIOUS
<2>3. left = [top EXCEPT !.todo = u]
  BY <2>2
<2>4. [[v |-> x, todo |-> y, hit |-> z] EXCEPT !.todo = u] = [v |-> x, todo |-> u, hit |-> z]
  OBVIOUS
<2>5. top.v = x /\ top.todo = y /\ top.hit = z
  BY <2>1
<2> HIDE DEF left
<2> QED
  BY <2>1, <2>2, <2>3, <2>4, <2>5
<1>9. [left EXCEPT !.hit = @ \/ w = root]
        = [v |-> top.v, todo |-> top.todo \ {w}, hit |-> top.hit \/ w = root]
<2>1. PICK x, y, z : x = top.v /\ y = top.todo \ {w} /\ z = top.hit
  OBVIOUS
<2>2. [[v |-> x, todo |-> y, hit |-> z] EXCEPT !.hit = @ \/ w = root]
        = [v |-> x, todo |-> y, hit |-> z \/ w = root]
  OBVIOUS
<2> QED
  BY <1>8, <2>1, <2>2
<1>10. Call(w, root) = [v |-> w, todo |-> Aheads(root)[w], hit |-> FALSE]
  BY <1>6 DEF Call, Aheads
<1> HIDE DEF left, enters
<1>11. Vertices = Spelt(path)
  BY DEF Vertices, Spelt
<1>12. CASE enters
<2>1. PICK a \in Calls : a = left
  BY <1>5, <1>8 DEF Calls
<2>2. PICK b \in Calls : b = Call(w, root)
<3>1. Aheads(root)[w] \in SUBSET Vertex
  BY <1>6, AheadsType DEF Steps
<3> QED
  BY <1>6, <1>10, <3>1 DEF Calls
<2>3. path' = Front(path) \o <<a, b>>
  BY <1>7, <1>12, <2>1, <2>2
<2>4. /\ path' \in Seq(Calls) /\ Len(path') = n + 1
      /\ path'[n] = a /\ path'[n + 1] = b
      /\ \A i \in 1..n : i # n => path'[i] = path[i]
  BY <1>2, <2>3, ReplaceAndPush
<2>5. Tries(path, w, path[Len(path)].hit, path')
<3>1. path'[n] = [v |-> path[n].v, todo |-> path[n].todo \ {w}, hit |-> path[n].hit]
  BY <1>3, <1>8, <2>1, <2>4
<3> QED
  BY <1>2, <1>3, <1>6, <2>4, <3>1 DEF Tries
<2>6. Enters(Aheads(root), path, w, path')
  BY <1>2, <1>10, <2>2, <2>4, <2>5 DEF Enters
<2>7. w # root /\ w \notin blocked /\ Len(path) < cfg.length
  BY <1>12 DEF enters
<2>8. Takes(w)
  BY <1>7, <1>11, <1>12, <2>6, <2>7 DEF Takes
<2> QED
  BY <1>2, <1>3, <1>6, <2>8
<1>13. CASE ~enters
<2>1. PICK a \in Calls : a = [v |-> top.v, todo |-> top.todo \ {w}, hit |-> top.hit \/ w = root]
  BY <1>5 DEF Calls
<2>2. path' = Append(Front(path), a)
  BY <1>7, <1>9, <1>13, <2>1
<2>3. /\ path' \in Seq(Calls) /\ Len(path') = n /\ path'[n] = a
      /\ \A i \in 1..n : i # n => path'[i] = path[i]
  BY <1>2, <2>2, ReplaceLast
<2>4. Tries(path, w, path[Len(path)].hit \/ w = root, path')
<3>1. path'[n] = [v |-> path[n].v, todo |-> path[n].todo \ {w}, hit |-> path[n].hit \/ w = root]
  BY <1>3, <2>1, <2>3
<3> QED
  BY <1>2, <1>3, <1>6, <2>3, <3>1 DEF Tries
<2>5. Skips(root, path, w, path')
  BY <1>2, <2>3, <2>4 DEF Skips
<2>6. w = root \/ w \in blocked \/ ~(Len(path) < cfg.length)
  BY <1>13 DEF enters
<2>7. blocked' = blocked
  BY <1>7, <1>13
<2>8. detected' = IF w = root /\ Len(path) >= 2 THEN Append(detected, Spelt(path)) ELSE detected
  BY <1>7, <1>11
<2>9. Takes(w)
  BY <2>5, <2>6, <2>7, <2>8 DEF Takes
<2> QED
  BY <1>2, <1>3, <1>6, <2>9
<1> QED
  BY <1>12, <1>13

\* circuit returns.
LEMMA ReturnMoves ==
  ASSUME path \in Seq(Calls), Return
  PROVE  /\ Leaves(path, path') /\ (path[Len(path)].todo = {} \/ Full)
         /\ blocked' = IF path[Len(path)].hit THEN Unblocked(path[Len(path)].v) ELSE blocked
         /\ blockers' = IF path[Len(path)].hit THEN Unblocks(path[Len(path)].v)
                        ELSE Blocks(path[Len(path)].v)
<1>1. path # <<>> /\ (Last(path).todo = {} \/ Full)
  BY DEF Return
<1>2. PICK n \in Nat : n = Len(path) /\ n > 0 /\ n \in 1..n
<2>1. Len(path) > 0
  BY <1>1
<2> QED
  BY <2>1, FrontIs
<1>3. PICK top \in Calls : top = Last(path) /\ top = path[n]
  BY <1>2, FrontIs
<1>4. PICK rest \in Seq(Calls) :
        rest = Front(path) /\ Len(rest) = n - 1 /\ \A i \in 1..n - 1 : rest[i] = path[i]
  BY <1>2, FrontIs
<1>5. /\ blocked' = IF top.hit THEN Unblocked(top.v) ELSE blocked
      /\ blockers' = IF top.hit THEN Unblocks(top.v) ELSE Blocks(top.v)
      /\ path' = IF rest = <<>> THEN <<>>
                 ELSE Append(Front(rest), [Last(rest) EXCEPT !.hit = @ \/ top.hit])
  BY <1>3, <1>4 DEF Return
<1>6. \A i \in 1..n : i < n => i \in 1..n - 1
  BY <1>2
<1>7. Leaves(path, path')
<2>1. CASE n = 1
<3>1. rest = <<>>
  BY <1>4, <2>1
<3>2. path' = <<>> /\ path' \in Seq(Calls) /\ Len(path') = 0
  BY <1>5, <3>1
<3>3. \A i \in 1..n : ~(i < n)
  BY <2>1
<3> QED
  BY <1>2, <2>1, <3>2, <3>3 DEF Leaves
<2>2. CASE n # 1
<3>1. n - 1 > 0 /\ n - 1 \in 1..n - 1
  BY <1>2, <2>2
<3>2. rest # <<>> /\ Last(rest) = rest[n - 1] /\ rest[n - 1] = path[n - 1] /\ rest[n - 1] \in Calls
<4>1. Len(rest) > 0 /\ rest # <<>>
  BY <1>4, <3>1
<4>2. Last(rest) = rest[Len(rest)] /\ Last(rest) \in Calls
  BY <4>1, FrontIs
<4> QED
  BY <1>4, <3>1, <4>1, <4>2
<3>3. PICK p \in Calls : p = path[n - 1]
  BY <3>2
<3>4. [p EXCEPT !.hit = @ \/ top.hit] = [v |-> p.v, todo |-> p.todo, hit |-> p.hit \/ top.hit]
  BY <3>3 DEF Calls
<3>5. PICK a \in Calls : a = [v |-> p.v, todo |-> p.todo, hit |-> p.hit \/ top.hit]
<4>1. p.v \in Vertex /\ p.todo \in SUBSET Vertex
  BY <3>3 DEF Calls
<4>2. (p.hit \/ top.hit) \in BOOLEAN
  OBVIOUS
<4> QED
  BY <4>1, <4>2 DEF Calls
<3>6. path' = Append(Front(rest), a)
  BY <1>5, <3>2, <3>3, <3>4, <3>5
<3>7. /\ path' \in Seq(Calls) /\ Len(path') = n - 1 /\ path'[n - 1] = a
      /\ \A i \in 1..n - 1 : i # n - 1 => path'[i] = rest[i]
  BY <1>4, <3>1, <3>6, ReplaceLast
<3>8. a.v = p.v /\ a.todo = p.todo /\ a.hit = (p.hit \/ top.hit)
  BY <3>5
<3>9. ASSUME NEW i \in 1..n, i < n
      PROVE  /\ path'[i].v = path[i].v /\ path'[i].todo = path[i].todo
             /\ path'[i].hit = (path[i].hit \/ (i = n - 1 /\ path[n].hit))
<4>1. CASE i = n - 1
  BY <1>3, <3>3, <3>7, <3>8, <4>1
<4>2. CASE i # n - 1
<5>1. path'[i] = path[i] /\ path[i] \in Calls
  BY <1>2, <1>4, <1>6, <3>7, <3>9, <4>2, ElementOfSeq
<5>2. path[i].hit \in BOOLEAN
  BY <5>1 DEF Calls
<5> QED
  BY <4>2, <5>1, <5>2
<4> QED
  BY <4>1, <4>2
<3> QED
  BY <1>2, <3>7, <3>9 DEF Leaves
<2> QED
  BY <2>1, <2>2
<1> QED
  BY <1>1, <1>2, <1>3, <1>5, <1>7

(***************************************************************************)
(* The invariant.                                                          *)
(***************************************************************************)
Large == {c \in sccs : Cardinality(c) >= cfg.scc}
Unlimited == cfg.length >= Wallets
Uncut == Len(cycles) + Len(detected) < cfg.cycles

Walk(c) ==
  /\ c \in Seq(Vertex) /\ Len(c) \in 2..cfg.length /\ IsClosed(c)
  /\ Unlimited => IsInjective(c)

\* The components are searched one after another when all are found.
PhaseInv ==
  /\ cfg \in Configs /\ todo \subseteq Large
  /\ ~Searched => todo = Large /\ root = Nowhere /\ cycles = <<>>
  /\ IF root = Nowhere THEN path = <<>> /\ detected = <<>>
     ELSE Searched /\ todo # {} /\ root \in Scc

PathInv ==
  /\ Chain(Aheads(root), root, path) /\ Len(path) <= cfg.length
  /\ Unlimited =>
       /\ Apart(path)
       /\ ~Full /\ path # <<>> => Blocking(Aheads(root), root, path, blocked, blockers)

DetectedInv ==
  /\ detected \in Seq(Seq(Vertex)) /\ Injective(detected) /\ Len(detected) <= cfg.cycles
  /\ \A c \in ToSet(detected) : /\ Walk(c) /\ c[1] \in Scc /\ c[1] <= root
                                /\ c[1] = root => ~Awaited(c, path)

KeptInv ==
  /\ cycles \in Seq(Seq(Vertex)) /\ Injective(cycles)
  /\ \A c \in ToSet(cycles) : Walk(c) /\ c[1] \in UNION (Large \ todo)

Ring(c) == c \in Seq(Vertex) /\ Len(c) \in 2..cfg.length /\ IsClosed(c) /\ IsInjective(c)

\* circuit has been past c.
Past(c) ==
  /\ root # Nowhere /\ c[1] \in Scc /\ c[1] <= root
  /\ c[1] = root => ~Awaited(c, path)

\* Every ring of a component that is done was reported, and of the one at hand
\* every ring that circuit has been past.
CompleteInv ==
  Unlimited /\ Uncut =>
    \A c \in Seq(Vertex) : Ring(c) =>
      /\ c[1] \in UNION (Large \ todo) => c \in ToSet(cycles)
      /\ Past(c) => c \in ToSet(detected)

JohnsonInv == PhaseInv /\ PathInv /\ DetectedInv /\ KeptInv /\ CompleteInv

LEMMA CfgIs ==
  ASSUME CyclesAssumption, cfg \in Configs
  PROVE  /\ Wallets \in Nat /\ cfg.length \in Nat /\ cfg.length > 0
         /\ cfg.cycles \in Nat /\ cfg.scc \in Nat /\ cfg.scc > 0
<1>1. cfg \in [length : Nat \ {0}, cycles : Nat, scc : Nat \ {0}] /\ Wallets \in Nat
  BY DEF CyclesAssumption
<1> QED
  BY <1>1

LEMMA EmptyIs ==
  /\ <<>> \in Seq(Seq(Vertex)) /\ <<>> \in Seq(Calls) /\ Len(<<>>) = 0
  /\ ToSet(<<>>) = {} /\ Injective(<<>>) /\ Apart(<<>>)
  /\ \A c : ~Awaited(c, <<>>)
  /\ \A ah \in Steps : \A s : Chain(ah, s, <<>>)
<1>1. <<>> \in Seq(Seq(Vertex)) /\ <<>> \in Seq(Calls) /\ Len(<<>>) = 0
  BY EmptySeq
<1>2. \A i : i \notin 1..0
  OBVIOUS
<1>3. ToSet(<<>>) = {}
<2>1. \A x : x \in ToSet(<<>>) <=> \E i \in 1..Len(<<>>) : <<>>[i] = x
  BY <1>1, ToSetIs
<2> QED
  BY <1>1, <2>1
<1> QED
  BY <1>1, <1>2, <1>3 DEF Injective, Apart, Awaited, Chain

LEMMA NowhereIs == CyclesAssumption => Nowhere \notin Vertex /\ Vertex \in SUBSET Nat
  BY DEF CyclesAssumption, Nowhere, Vertex

LEMMA SccHere ==
  ASSUME CyclesAssumption, TarjanInv, PhaseInv, todo # {}
  PROVE  Scc \in todo /\ Scc \in Large /\ Scc \in Comps(Onward)
<1>1. todo \subseteq Large /\ Large \subseteq Comps(Onward)
  BY DEF PhaseInv, TarjanInv, Large
<1>2. Scc \in todo
  BY <1>1, SccChosen
<1> QED
  BY <1>1, <1>2

LEMMA RootIs ==
  ASSUME CyclesAssumption, TarjanInv, PhaseInv, root # Nowhere
  PROVE  /\ Scc \in todo /\ Scc \in Large /\ Scc \in Comps(Onward)
         /\ Scc \in SUBSET Vertex /\ Scc \in SUBSET Nat /\ root \in Scc /\ Searched
<1>1. todo # {} /\ root \in Scc /\ Searched
  BY DEF PhaseInv
<1>2. Scc \in todo /\ Scc \in Large /\ Scc \in Comps(Onward)
  BY <1>1, SccHere
<1> QED
  BY <1>1, <1>2, SccIs

\* Before the components are found nothing else has happened.
LEMMA JohnsonWaits ==
  ASSUME CyclesAssumption, PhaseInv, ~Searched, UNCHANGED <<cfg, edges>>,
         UNCHANGED <<root, path, blocked, detected, cycles>>, todo' = Large'
  PROVE  JohnsonInv'
<1>1. /\ cfg' \in Configs /\ root' = Nowhere /\ path' = <<>> /\ detected' = <<>> /\ cycles' = <<>>
      /\ Large' \ todo' = {}
  BY DEF PhaseInv
<1>2. cfg'.length \in Nat /\ cfg'.cycles \in Nat
  BY <1>1, CfgIs DEF PhaseInv
<1>3. PhaseInv'
  BY <1>1 DEF PhaseInv, Nowhere
<1>4. Aheads(root)' \in Steps
  BY DEF Aheads, Ahead, Adj, Steps, Vertex
<1>5. PathInv'
  BY <1>1, <1>2, <1>4, EmptyIs DEF PathInv
<1>6. DetectedInv'
  BY <1>1, <1>2, EmptyIs DEF DetectedInv, Vertex
<1>7. KeptInv'
  BY <1>1, EmptyIs DEF KeptInv, Vertex
<1>8. CompleteInv'
<2>1. UNION (Large' \ todo') = {}
  BY <1>1
<2> QED
  BY <1>1, <2>1 DEF CompleteInv, Past, Nowhere
<1> QED
  BY <1>3, <1>5, <1>6, <1>7, <1>8 DEF JohnsonInv

LEMMA JohnsonStarts == CyclesAssumption /\ Init => JohnsonInv
<1> SUFFICES ASSUME CyclesAssumption, Init PROVE JohnsonInv
  OBVIOUS
<1>1. /\ cfg \in Configs /\ root = Nowhere /\ path = <<>> /\ detected = <<>> /\ cycles = <<>>
      /\ todo = {} /\ sccs = {} /\ Large = {}
  BY DEF Init, Large
<1>2. cfg.length \in Nat /\ cfg.cycles \in Nat
  BY <1>1, CfgIs
<1>3. PhaseInv
  BY <1>1 DEF PhaseInv
<1>4. PathInv
  BY <1>1, <1>2, EmptyIs, AheadsType DEF PathInv
<1>5. DetectedInv /\ KeptInv
  BY <1>1, <1>2, EmptyIs DEF DetectedInv, KeptInv
<1>6. CompleteInv
<2>1. UNION (Large \ todo) = {}
  BY <1>1
<2> QED
  BY <1>1, <2>1 DEF CompleteInv, Past
<1> QED
  BY <1>3, <1>4, <1>5, <1>6 DEF JohnsonInv

\* What the search for cycles leaves as it is.
Fixed ==
  /\ Large' = Large /\ (Unlimited' <=> Unlimited) /\ (Searched' <=> Searched) /\ cfg' = cfg
  /\ \A c : (IsClosed(c)' <=> IsClosed(c)) /\ (Walk(c)' <=> Walk(c)) /\ (Ring(c)' <=> Ring(c))

LEMMA FixedIs ==
  ASSUME UNCHANGED <<cfg, edges, tarjan>>
  PROVE  Fixed
<1>1. \A c : IsClosed(c)' <=> IsClosed(c)
  BY DEF IsClosed, Adj, Vertex, After
<1>2. (Unlimited' <=> Unlimited) /\ cfg' = cfg
  BY DEF Unlimited
<1>3. \A c : Walk(c)' <=> Walk(c)
  BY <1>1, <1>2 DEF Walk, Vertex
<1>4. \A c : Ring(c)' <=> Ring(c)
  BY <1>1, <1>2 DEF Ring, Vertex
<1>5. Large' = Large /\ (Searched' <=> Searched)
  BY DEF Large, Searched, tarjan, Vertex
<1> QED
  BY <1>1, <1>2, <1>3, <1>4, <1>5 DEF Fixed

LEMMA SameScc ==
  ASSUME todo' = todo, edges' = edges
  PROVE  Scc' = Scc /\ \A s : Aheads(s)' = Aheads(s)
<1>1. Scc' = Scc
  BY DEF Scc, Before
<1> QED
  BY <1>1 DEF Aheads, Ahead, Adj, Vertex

\* A ring of the component looks where circuit does.
LEMMA RingAhead ==
  ASSUME CyclesAssumption, NEW c \in Seq(Vertex), Len(c) > 0, IsClosed(c),
         Scc \in Comps(Onward), c[1] \in Scc
  PROVE  \A i \in 1..Len(c) : c[i] \in Scc /\ After(c, i) \in Aheads(c[1])[c[i]]
<1>1. \A i \in 1..Len(c) : c[i] \in Scc
  BY WalkStays
<1>2. Len(c) \in Nat
  BY ToSetIs
<1>3. Scc \in SUBSET Vertex /\ Vertex \in SUBSET Nat
  BY SccIs, NowhereIs
<1> SUFFICES ASSUME NEW i \in 1..Len(c) PROVE After(c, i) \in Aheads(c[1])[c[i]]
  BY <1>1
<1>4. PICK k \in 1..Len(c) : After(c, i) = c[k]
<2>1. CASE i = Len(c)
<3>1. 1 \in 1..Len(c)
  BY <1>2
<3> QED
  BY <2>1, <3>1 DEF After
<2>2. CASE i # Len(c)
<3>1. i + 1 \in 1..Len(c)
  BY <1>2, <2>2
<3> QED
  BY <2>2, <3>1 DEF After
<2> QED
  BY <2>1, <2>2
<1>5. After(c, i) \in Adj(c[i]) /\ c[1] <= c[k] /\ c[k] \in Scc /\ c[i] \in Vertex
  BY <1>1, <1>3 DEF IsClosed
<1>6. c[k] >= c[1]
<2>1. c[1] \in Nat /\ c[k] \in Nat
  BY <1>3, <1>5
<2> QED
  BY <1>5, <2>1
<1> QED
  BY <1>4, <1>5, <1>6 DEF Aheads, Ahead

(***************************************************************************)
(* The steps keep it.                                                      *)
(***************************************************************************)
LEMMA NextRootKeeps ==
  ASSUME CyclesAssumption, TarjanInv, JohnsonInv, NextRoot
  PROVE  JohnsonInv'
<1>1. PhaseInv /\ PathInv /\ DetectedInv /\ KeptInv /\ CompleteInv
  BY DEF JohnsonInv
<1>2. PICK s \in Scc :
        /\ IF root = Nowhere THEN s = Min(Scc)
           ELSE s > root /\ \A t \in Scc : t > root => s <= t
        /\ root' = s /\ path' = <<Call(s, s)>> /\ blocked' = {s}
  BY DEF NextRoot
<1>3. /\ Searched /\ todo # {} /\ path = <<>> /\ ~Full /\ blockers' = [v \in Vertex |-> {}]
      /\ UNCHANGED <<cfg, edges, tarjan>> /\ todo' = todo /\ edges' = edges
      /\ detected' = detected /\ cycles' = cycles
  BY DEF NextRoot
<1>4. Fixed /\ Scc' = Scc /\ \A t : Aheads(t)' = Aheads(t)
  BY <1>3, FixedIs, SameScc
<1>5. Scc \in todo /\ Scc \in Comps(Onward)
  BY <1>1, <1>3, SccHere
<1>6. Scc \in SUBSET Vertex /\ Scc \in SUBSET Nat /\ Nowhere \notin Vertex /\ s \in Vertex /\ s \in Nat
<2>1. Scc \in SUBSET Vertex /\ Scc \in SUBSET Nat
  BY <1>5, SccIs
<2> QED
  BY <2>1, NowhereIs
<1>7. cfg.length \in Nat /\ cfg.length > 0
  BY <1>1, CfgIs DEF PhaseInv
<1>8. Aheads(root)' = Aheads(s)
  BY <1>2, <1>4 DEF Aheads, Ahead, Adj, Vertex
<1>9. root # Nowhere => root \in Nat /\ root < s
  BY <1>1, <1>2, <1>6 DEF PhaseInv
<1>10. PhaseInv'
  BY <1>1, <1>2, <1>3, <1>4, <1>6 DEF PhaseInv, Fixed, Nowhere
<1>11. /\ path' \in Seq(Calls) /\ Len(path') = 1 /\ Apart(path')
       /\ Chain(Aheads(s), s, path')
       /\ Blocking(Aheads(s), s, path', {s}, [v \in Vertex |-> {}])
<2>1. Call(s, s) = [v |-> s, todo |-> Aheads(s)[s], hit |-> FALSE]
  BY <1>6 DEF Call, Aheads
<2>2. path' = <<[v |-> s, todo |-> Aheads(s)[s], hit |-> FALSE]>>
  BY <1>2, <2>1
<2>3. Aheads(s) \in Steps /\ s <= s
  BY <1>6, AheadsType
<2>4. path' \in Seq(Calls) /\ Len(path') = 1 /\ Apart(path')
  BY <1>6, <2>2, <2>3, BlockingStarts
<2>5. Chain(Aheads(s), s, path')
  BY <1>6, <2>2, <2>3, BlockingStarts
<2>6. Blocking(Aheads(s), s, path', {s}, [v \in Vertex |-> {}])
  BY <1>6, <2>2, <2>3, BlockingStarts
<2> QED
  BY <2>4, <2>5, <2>6
<1>12. PathInv'
<2>1. Chain(Aheads(root)', root', path')
  BY <1>2, <1>8, <1>11
<2>2. Len(path') <= cfg'.length
  BY <1>4, <1>7, <1>11 DEF Fixed
<2>3. Blocking(Aheads(root)', root', path', blocked', blockers')
  BY <1>2, <1>3, <1>8, <1>11
<2> QED
  BY <1>11, <2>1, <2>2, <2>3 DEF PathInv
<1>13. DetectedInv'
<2>1. detected' \in Seq(Seq(Vertex)) /\ Injective(detected') /\ Len(detected') <= cfg'.cycles
  BY <1>1, <1>3, <1>4 DEF DetectedInv, Fixed
<2>2. ASSUME NEW c \in ToSet(detected)
      PROVE  Walk(c) /\ c[1] \in Scc /\ c[1] <= s /\ c[1] # s
<3>1. root # Nowhere
  BY <1>1, <2>2, EmptyIs DEF PhaseInv
<3>2. Walk(c) /\ c[1] \in Scc /\ c[1] <= root
  BY <1>1 DEF DetectedInv
<3>3. c[1] \in Nat
  BY <1>6, <3>2
<3> QED
  BY <1>6, <1>9, <3>1, <3>2, <3>3
<2> QED
  BY <1>2, <1>3, <1>4, <2>1, <2>2 DEF DetectedInv, Fixed, Vertex
<1>14. KeptInv'
  BY <1>1, <1>3, <1>4 DEF KeptInv, Fixed, Vertex
<1>15. CompleteInv'
<2> SUFFICES ASSUME Unlimited, Uncut, NEW c \in Seq(Vertex), Ring(c)
             PROVE  /\ c[1] \in UNION (Large \ todo) => c \in ToSet(cycles)
                    /\ Past(c)' => c \in ToSet(detected)
  BY <1>3, <1>4 DEF CompleteInv, Fixed, Uncut, Vertex
<2>1. /\ c[1] \in UNION (Large \ todo) => c \in ToSet(cycles)
      /\ Past(c) => c \in ToSet(detected)
  BY <1>1 DEF CompleteInv
<2>2. ASSUME Past(c)' PROVE Past(c)
<3>1. c[1] \in Scc /\ c[1] <= s /\ (c[1] = s => ~Awaited(c, path'))
  BY <1>2, <1>4, <2>2 DEF Past
<3>2. Len(c) \in Nat /\ Len(c) > 0 /\ 1 \in 1..Len(c) /\ IsClosed(c)
<4>1. Len(c) \in 2..cfg.length /\ IsClosed(c)
  BY DEF Ring
<4> QED
  BY <1>7, <4>1
<3>3. c[1] # s
<4> SUFFICES ASSUME c[1] = s PROVE FALSE
  OBVIOUS
<4>1. After(c, 1) \in Aheads(s)[s]
  BY <1>5, <3>1, <3>2, RingAhead
<4>2. path'[1].v = s /\ path'[1].todo = Aheads(s)[s] /\ 1 \in 1..1 /\ \A i \in 1..1 : i = 1
  BY <1>2, <1>6 DEF Call, Aheads
<4>3. Awaited(c, path')
  BY <1>11, <3>2, <4>1, <4>2 DEF Awaited, Agrees
<4> QED
  BY <3>1, <4>3
<3>4. c[1] \in Nat /\ c[1] < s
<4>1. c[1] \in Nat
  BY <1>6, <3>1
<4>2. \A a, b \in Nat : a <= b /\ a # b => a < b
  OBVIOUS
<4> QED
  BY <1>6, <3>1, <3>3, <4>1, <4>2
<3>5. root # Nowhere
<4> SUFFICES ASSUME root = Nowhere PROVE FALSE
  OBVIOUS
<4>1. s = Min(Scc) /\ Scc # {}
  BY <1>2
<4>2. s <= c[1]
  BY <1>6, <3>1, <4>1, MinIs
<4> QED
  BY <1>6, <3>4, <4>2
<3>6. c[1] <= root
  BY <1>2, <1>6, <1>9, <3>1, <3>4, <3>5
<3> QED
  BY <1>3, <3>1, <3>5, <3>6, EmptyIs DEF Past
<2> QED
  BY <2>1, <2>2
<1> QED
  BY <1>10, <1>12, <1>13, <1>14, <1>15 DEF JohnsonInv

\* A path of distinct vertices leaves none out when it is as long as there are any.
LEMMA PathShort ==
  ASSUME CyclesAssumption, NEW ps \in Seq(Calls), Apart(ps), NEW w \in Vertex \ On(ps)
  PROVE  Len(ps) < Wallets
<1>1. PICK n \in Nat : n = Len(ps)
  BY ToSetIs
<1>2. \A i \in 1..n : ps[i].v \in Vertex /\ ps[i].v # w
<2>1. \A i \in 1..n : ps[i] \in Calls
  BY <1>1, ElementOfSeq
<2> QED
  BY <1>1, <2>1 DEF Calls, On
<1> DEFINE f == [i \in 1..n + 1 |-> IF i = n + 1 THEN w ELSE ps[i].v]
<1>3. \A i \in 1..n + 1 : i \in 1..n \/ i = n + 1
  OBVIOUS
<1>4. f \in [1..n + 1 -> Vertex]
  BY <1>2, <1>3
<1>5. \A i, j \in 1..n + 1 : f[i] = f[j] => i = j
<2>1. \A i, j \in 1..n : ps[i].v = ps[j].v => i = j
  BY <1>1 DEF Apart
<2> QED
  BY <1>2, <1>3, <2>1
<1> HIDE DEF f
<1>6. f \in Injection(1..n + 1, Vertex)
  BY <1>4, <1>5 DEF Injection, IsInjective
<1>7. Wallets \in Nat
  BY DEF CyclesAssumption
<1>8. IsFiniteSet(Vertex) /\ Cardinality(Vertex) = Wallets
<2>1. 0 \in Int /\ Wallets - 1 \in Int
  BY <1>7
<2>2. /\ IsFiniteSet(0..Wallets - 1)
      /\ Cardinality(0..Wallets - 1) = IF 0 > Wallets - 1 THEN 0 ELSE (Wallets - 1) - 0 + 1
  BY <2>1, FS_Interval
<2> QED
  BY <1>7, <2>2 DEF Vertex
<1>9. Cardinality(1..n + 1) <= Cardinality(Vertex)
  BY <1>6, <1>8, FS_Injection
<1>10. Cardinality(1..n + 1) = n + 1
<2>1. 1 \in Int /\ n + 1 \in Int
  OBVIOUS
<2>2. Cardinality(1..n + 1) = IF 1 > n + 1 THEN 0 ELSE (n + 1) - 1 + 1
  BY <2>1, FS_Interval
<2> QED
  BY <2>2
<1> QED
  BY <1>1, <1>7, <1>8, <1>9, <1>10

\* A sequence without doubles, with something new appended.
LEMMA InjectiveAppend ==
  ASSUME NEW S, NEW q \in Seq(S), Injective(q), NEW x \in S \ ToSet(q)
  PROVE  Injective(Append(q, x))
<1>1. PICK n \in Nat : n = Len(q)
  BY ToSetIs
<1>2. PICK t \in Seq(S) : /\ t = Append(q, x) /\ Len(t) = n + 1 /\ t[n + 1] = x
                          /\ \A i \in 1..n : t[i] = q[i]
<2>1. /\ Append(q, x) \in Seq(S) /\ Len(Append(q, x)) = Len(q) + 1
      /\ \A i \in 1.. Len(q) : Append(q, x)[i] = q[i]
      /\ Append(q, x)[Len(q) + 1] = x
  BY AppendProperties
<2> QED
  BY <1>1, <2>1
<1>3. \A i \in 1..n : q[i] # x
  BY <1>1, ToSetIs
<1>4. \A i, j \in 1..n : q[i] = q[j] => i = j
  BY <1>1 DEF Injective
<1>5. \A i \in 1..n + 1 : i \in 1..n \/ i = n + 1
  OBVIOUS
<1>6. \A i, j \in 1..n + 1 : t[i] = t[j] => i = j
  BY <1>2, <1>3, <1>4, <1>5
<1> QED
  BY <1>2, <1>6 DEF Injective

\* Two of them that share nothing.
LEMMA InjectiveConcat ==
  ASSUME NEW S, NEW p \in Seq(S), NEW q \in Seq(S), Injective(p), Injective(q),
         \A x \in ToSet(p) : x \notin ToSet(q)
  PROVE  /\ p \o q \in Seq(S) /\ Injective(p \o q) /\ Len(p \o q) = Len(p) + Len(q)
         /\ ToSet(p \o q) = ToSet(p) \cup ToSet(q)
<1>1. PICK m \in Nat : m = Len(p) /\ \A i \in 1..m : p[i] \in ToSet(p)
  BY ToSetIs
<1>2. PICK n \in Nat : n = Len(q) /\ \A i \in 1..n : q[i] \in ToSet(q)
  BY ToSetIs
<1>3. PICK t \in Seq(S) : t = p \o q
  BY ConcatProperties
<1>4. /\ Len(t) = m + n
      /\ \A i \in 1..m + n : t[i] = IF i <= m THEN p[i] ELSE q[i - m]
  BY <1>1, <1>2, <1>3, ConcatProperties
<1>5. \A i \in 1..m : i \in 1..m + n /\ i <= m
  OBVIOUS
<1>6. \A i \in 1..n : i + m \in 1..m + n /\ ~(i + m <= m) /\ (i + m) - m = i
  OBVIOUS
<1>7. (\A i \in 1..m : t[i] = p[i]) /\ (\A i \in 1..n : t[i + m] = q[i])
  BY <1>4, <1>5, <1>6
<1>8. \A i \in 1..m + n : i \in 1..m \/ (i - m \in 1..n /\ (i - m) + m = i)
  OBVIOUS
<1>9. (\A i, j \in 1..m : p[i] = p[j] => i = j) /\ (\A i, j \in 1..n : q[i] = q[j] => i = j)
  BY <1>1, <1>2 DEF Injective
<1>10. ASSUME NEW i \in 1..m + n, NEW j \in 1..m + n, t[i] = t[j] PROVE i = j
<2>1. CASE i \in 1..m /\ j \in 1..m
  BY <1>7, <1>9, <1>10, <2>1
<2>2. CASE i \in 1..m /\ j \notin 1..m
<3>1. t[i] \in ToSet(p)
  BY <1>1, <1>7, <2>2
<3>2. t[j] \in ToSet(q)
  BY <1>2, <1>7, <1>8, <2>2
<3> QED
  BY <1>10, <3>1, <3>2
<2>3. CASE i \notin 1..m /\ j \in 1..m
<3>1. t[j] \in ToSet(p)
  BY <1>1, <1>7, <2>3
<3>2. t[i] \in ToSet(q)
  BY <1>2, <1>7, <1>8, <2>3
<3> QED
  BY <1>10, <3>1, <3>2
<2>4. CASE i \notin 1..m /\ j \notin 1..m
<3>1. PICK k \in 1..n : k + m = i
  BY <1>8, <2>4
<3>2. PICK l \in 1..n : l + m = j
  BY <1>8, <2>4
<3>3. t[i] = q[k] /\ t[j] = q[l]
  BY <1>7, <3>1, <3>2
<3>4. k = l
  BY <1>9, <1>10, <3>3
<3> QED
  BY <3>1, <3>2, <3>4
<2> QED
  BY <2>1, <2>2, <2>3, <2>4
<1>11. ToSet(t) = ToSet(p) \cup ToSet(q)
<2>1. /\ \A x : x \in ToSet(t) <=> \E i \in 1..m + n : t[i] = x
      /\ \A x : x \in ToSet(p) <=> \E i \in 1..m : p[i] = x
      /\ \A x : x \in ToSet(q) <=> \E i \in 1..n : q[i] = x
<3>1. \A x : x \in ToSet(t) <=> \E i \in 1..Len(t) : t[i] = x
  BY ToSetIs
<3>2. \A x : x \in ToSet(p) <=> \E i \in 1..Len(p) : p[i] = x
  BY ToSetIs
<3>3. \A x : x \in ToSet(q) <=> \E i \in 1..Len(q) : q[i] = x
  BY ToSetIs
<3> QED
  BY <1>1, <1>2, <1>4, <3>1, <3>2, <3>3
<2>2. ASSUME NEW x \in ToSet(t) PROVE x \in ToSet(p) \cup ToSet(q)
<3>1. PICK i \in 1..m + n : t[i] = x
  BY <2>1
<3>2. CASE i \in 1..m
  BY <1>7, <2>1, <3>1, <3>2
<3>3. CASE i \notin 1..m
<4>1. PICK k \in 1..n : k + m = i
  BY <1>8, <3>3
<4> QED
  BY <1>7, <2>1, <3>1, <4>1
<3> QED
  BY <3>2, <3>3
<2>3. ASSUME NEW x \in ToSet(p) PROVE x \in ToSet(t)
  BY <1>5, <1>7, <2>1
<2>4. ASSUME NEW x \in ToSet(q) PROVE x \in ToSet(t)
<3>1. PICK k \in 1..n : q[k] = x
  BY <2>1
<3>2. k + m \in 1..m + n /\ t[k + m] = x
  BY <1>6, <1>7, <3>1
<3> QED
  BY <2>1, <3>2
<2> QED
  BY <2>2, <2>3, <2>4
<1>12. Injective(t)
  BY <1>4, <1>10 DEF Injective
<1> QED
  BY <1>1, <1>2, <1>3, <1>4, <1>11, <1>12

\* circuit takes neighbour w: the path.
LEMMA TakesPath ==
  ASSUME CyclesAssumption, TarjanInv, JohnsonInv, Fixed, root' = root, Aheads(root)' = Aheads(root),
         path # <<>>, ~Full, blockers' = blockers,
         NEW w \in Vertex, w \in path[Len(path)].todo, Takes(w)
  PROVE  PathInv' /\ (Skips(root, path, w, path') /\ Unlimited => w = root \/ w \in blocked)
<1>1. /\ Chain(Aheads(root), root, path) /\ path \in Seq(Calls)
      /\ Unlimited => Apart(path) /\ Blocking(Aheads(root), root, path, blocked, blockers)
  BY DEF JohnsonInv, PathInv, Chain
<1>2. PICK n \in Nat : n = Len(path) /\ n > 0
<2>1. Len(path) \in Nat /\ Len(path) # 0
  BY <1>1, ToSetIs
<2> QED
  BY <2>1
<1>3. cfg.length \in Nat /\ Wallets \in Nat /\ n <= cfg.length
  BY <1>2, CfgIs DEF JohnsonInv, PhaseInv, PathInv
<1>4. root <= w
<2>1. root # Nowhere
  BY <1>2 DEF JohnsonInv, PhaseInv
<2>2. root \in Nat /\ w \in Nat
  BY <2>1, RootIs, NowhereIs DEF JohnsonInv
<2>3. path[n].todo \subseteq Aheads(root)[path[n].v] /\ path[n].v \in Vertex
<3>1. n \in 1..n /\ path[n] \in Calls
  BY <1>1, <1>2, ElementOfSeq
<3> QED
  BY <1>1, <1>2, <3>1 DEF Chain, Calls
<2>4. w >= root
  BY <1>2, <2>3 DEF Aheads, Ahead
<2> QED
  BY <2>2, <2>4
<1>5. Unlimited /\ w \notin On(path) => n < cfg.length
<2> SUFFICES ASSUME Unlimited, w \notin On(path) PROVE n < cfg.length
  OBVIOUS
<2>1. Len(path) < Wallets
  BY <1>1, PathShort
<2> QED
  BY <1>2, <1>3, <2>1 DEF Unlimited
<1>6. Unlimited => On(path) \subseteq blocked
  BY <1>1 DEF Blocking
<1>7. CASE /\ Enters(Aheads(root), path, w, path')
           /\ w # root /\ w \notin blocked /\ Len(path) < cfg.length /\ blocked' = blocked \cup {w}
<2>1. Chain(Aheads(root), root, path')
  BY <1>1, <1>4, <1>7, ChainEnters
<2>2. Len(path') <= cfg.length
<3>1. Len(path') = n + 1
  BY <1>2, <1>7 DEF Enters
<3> QED
  BY <1>2, <1>3, <1>7, <3>1
<2>3. ASSUME Unlimited
      PROVE  Apart(path') /\ Blocking(Aheads(root), root, path', blocked', blockers')
<3>1. Entered(path, w, path')
  BY <1>1, <1>7, PathEnters
<3>2. Apart(path')
  BY <1>1, <1>6, <1>7, <2>3, <3>1 DEF Entered
<3>3. Blocking(Aheads(root), root, path', blocked \cup {w}, blockers)
  BY <1>1, <1>7, <2>3, BlockingEnters
<3> QED
  BY <1>7, <3>2, <3>3
<2>4. PathInv'
  BY <2>1, <2>2, <2>3 DEF PathInv, Fixed
<2>5. ~Skips(root, path, w, path')
<3>1. Len(path') = n + 1
  BY <1>2, <1>7 DEF Enters
<3> QED
  BY <1>2, <3>1 DEF Skips
<2> QED
  BY <2>4, <2>5
<1>8. CASE /\ Skips(root, path, w, path') /\ blocked' = blocked
           /\ w = root \/ w \in blocked \/ ~(Len(path) < cfg.length)
<2>1. Chain(Aheads(root), root, path')
  BY <1>1, <1>8, ChainSkips
<2>2. Len(path') <= cfg.length
  BY <1>2, <1>3, <1>8 DEF Skips
<2>3. Unlimited => w = root \/ w \in blocked
  BY <1>2, <1>5, <1>6, <1>8
<2>4. ASSUME Unlimited
      PROVE  Apart(path') /\ Blocking(Aheads(root), root, path', blocked', blockers')
<3>1. Apart(path')
  BY <1>1, <1>8, <2>4, PathSkips
<3>2. Blocking(Aheads(root), root, path', blocked, blockers)
  BY <1>1, <1>8, <2>3, <2>4, BlockingSkips
<3> QED
  BY <1>8, <3>1, <3>2
<2>5. PathInv'
  BY <2>1, <2>2, <2>4 DEF PathInv, Fixed
<2> QED
  BY <2>3, <2>5
<1> QED
  BY <1>7, <1>8 DEF Takes

\* No walk comes to be awaited by what circuit does next.
LEMMA TakesAwaits ==
  ASSUME path \in Seq(Calls), NEW w, Takes(w), NEW c \in Seq(Vertex), ~Awaited(c, path)
  PROVE  ~Awaited(c, path')
<1>1. Len(c) \in Nat
  BY ToSetIs
<1>2. CASE Enters(Aheads(root), path, w, path')
  BY <1>1, <1>2, NotAwaitedEnters
<1>3. CASE Skips(root, path, w, path')
  BY <1>3, NotAwaitedSkips
<1> QED
  BY <1>2, <1>3 DEF Takes

\* The walk spelt out is like those reported.
LEMMA SpeltWalk ==
  ASSUME CyclesAssumption, TarjanInv, JohnsonInv, path # <<>>, Skips(root, path, root, path'),
         Len(path) >= 2
  PROVE  /\ Walk(Spelt(path)) /\ Spelt(path)[1] = root
         /\ Awaited(Spelt(path), path) /\ ~Awaited(Spelt(path), path')
         /\ \A c \in Seq(Vertex) :
              /\ Agrees(c, path, Len(path)) /\ After(c, Len(path)) = root
              /\ IsInjective(c) /\ c[1] = root
              => c = Spelt(path)
<1>1. /\ Chain(Aheads(root), root, path) /\ path \in Seq(Calls) /\ Len(path) <= cfg.length
      /\ Unlimited => Apart(path)
  BY DEF JohnsonInv, PathInv, Chain
<1>2. Scc \in SUBSET Vertex /\ cfg.length \in Nat
<2>1. root # Nowhere
  BY DEF JohnsonInv, PhaseInv
<2> QED
  BY <2>1, RootIs, CfgIs DEF JohnsonInv, PhaseInv
<1>3. Aheads(root) = Within(Scc, root)
  BY DEF Aheads, Ahead, Within
<1>4. IsClosed(Spelt(path)) /\ Spelt(path)[1] = root
  BY <1>1, <1>2, <1>3, SpeltCloses
<1>5. Awaited(Spelt(path), path) /\ ~Awaited(Spelt(path), path')
  BY <1>1, <1>2, <1>3, SpeltCloses
<1>6. \A c \in Seq(Vertex) :
        Agrees(c, path, Len(path)) /\ After(c, Len(path)) = root /\ IsInjective(c) /\ c[1] = root
          => c = Spelt(path)
  BY <1>1, <1>2, <1>3, SpeltCloses
<1>7. PICK n \in Nat : n = Len(path)
  BY <1>1, ToSetIs
<1>8. PICK c \in Seq(Vertex) : c = Spelt(path) /\ Len(c) = n /\ \A i \in 1..n : c[i] = path[i].v
  BY <1>1, <1>7, SpeltIs
<1>9. Len(c) \in 2..cfg.length
  BY <1>1, <1>2, <1>7, <1>8
<1>10. Unlimited => IsInjective(c)
<2>1. DOMAIN c = 1..n
  BY <1>8, ToSetIs
<2> QED
  BY <1>1, <1>7, <1>8, <2>1 DEF Apart, IsInjective
<1>11. Walk(Spelt(path))
  BY <1>4, <1>8, <1>9, <1>10 DEF Walk
<1> QED
  BY <1>4, <1>5, <1>6, <1>11

LEMMA NeighbourKeeps ==
  ASSUME CyclesAssumption, TarjanInv, JohnsonInv, Neighbour
  PROVE  JohnsonInv'
<1>1. PhaseInv /\ PathInv /\ DetectedInv /\ KeptInv /\ CompleteInv
  BY DEF JohnsonInv
<1>2. path \in Seq(Calls) /\ Chain(Aheads(root), root, path)
  BY <1>1 DEF PathInv, Chain
<1>3. PICK w \in Vertex : Len(path) > 0 /\ w \in path[Len(path)].todo /\ Takes(w)
  BY <1>2, NeighbourMoves
<1>4. /\ path # <<>> /\ ~Full
      /\ UNCHANGED <<cfg, edges, tarjan>> /\ todo' = todo /\ edges' = edges
      /\ root' = root /\ blockers' = blockers /\ cycles' = cycles
  BY DEF Neighbour
<1>5. Fixed /\ Scc' = Scc /\ \A t : Aheads(t)' = Aheads(t)
  BY <1>4, FixedIs, SameScc
<1>6. /\ Searched /\ todo # {} /\ root \in Scc /\ root # Nowhere
      /\ Scc \in Comps(Onward) /\ Scc \in SUBSET Vertex /\ Scc \in SUBSET Nat
<2>1. root # Nowhere /\ Searched /\ todo # {}
  BY <1>1, <1>4 DEF PhaseInv
<2> QED
  BY <1>1, <2>1, RootIs
<1>7. PhaseInv'
  BY <1>1, <1>4, <1>5, <1>6 DEF PhaseInv, Fixed, Nowhere
<1>8. Aheads(root)' = Aheads(root)
  BY <1>4, <1>5 DEF Aheads, Ahead, Adj, Vertex
<1>9. PathInv' /\ (Skips(root, path, w, path') /\ Unlimited => w = root \/ w \in blocked)
  BY <1>3, <1>4, <1>5, <1>8, TakesPath
<1>10. cfg.length \in Nat /\ cfg.cycles \in Nat /\ Len(detected) \in Nat /\ Len(cycles) \in Nat
<2>1. cfg.length \in Nat /\ cfg.cycles \in Nat
  BY <1>1, CfgIs DEF PhaseInv
<2>2. Len(detected) \in Nat
  BY <1>1, ToSetIs DEF DetectedInv
<2>3. Len(cycles) \in Nat
  BY <1>1, ToSetIs DEF KeptInv
<2> QED
  BY <2>1, <2>2, <2>3
<1>11. ToSet(detected) \subseteq Seq(Vertex)
  BY <1>1 DEF DetectedInv, Walk
<1>12. \A c \in ToSet(detected) : /\ Walk(c) /\ c[1] \in Scc /\ c[1] <= root
                                  /\ c[1] = root => ~Awaited(c, path')
  BY <1>1, <1>2, <1>3, <1>11, TakesAwaits DEF DetectedInv
<1>13. CASE w = root /\ Len(path) >= 2
<2>1. detected' = Append(detected, Spelt(path)) /\ Skips(root, path, root, path')
  BY <1>3, <1>13 DEF Takes
<2>2. /\ Walk(Spelt(path)) /\ Spelt(path)[1] = root
      /\ Awaited(Spelt(path), path) /\ ~Awaited(Spelt(path), path')
  BY <1>4, <1>13, <2>1, SpeltWalk
<2>3. \A c \in Seq(Vertex) :
        Agrees(c, path, Len(path)) /\ After(c, Len(path)) = root /\ IsInjective(c) /\ c[1] = root
          => c = Spelt(path)
  BY <1>4, <1>13, <2>1, SpeltWalk
<2>4. Spelt(path) \in Seq(Vertex) /\ Spelt(path) \notin ToSet(detected)
  BY <1>1, <2>2 DEF DetectedInv, Walk
<2>5. /\ detected' \in Seq(Seq(Vertex)) /\ Injective(detected')
      /\ ToSet(detected') = ToSet(detected) \cup {Spelt(path)}
      /\ Len(detected') = Len(detected) + 1
<3>1. detected \in Seq(Seq(Vertex)) /\ Injective(detected)
  BY <1>1 DEF DetectedInv
<3>2. detected' \in Seq(Seq(Vertex)) /\ Len(detected') = Len(detected) + 1
  BY <2>1, <2>4, <3>1, AppendProperties
<3>3. Injective(detected')
  BY <2>1, <2>4, <3>1, InjectiveAppend
<3>4. ToSet(detected') = ToSet(detected) \cup {Spelt(path)}
  BY <2>1, <2>4, <3>1, ToSetAppend
<3> QED
  BY <3>2, <3>3, <3>4
<2>6. DetectedInv'
<3>1. Len(detected') <= cfg.cycles
  BY <1>4, <1>10, <2>5 DEF Full
<3>2. \A c \in ToSet(detected') : /\ Walk(c) /\ c[1] \in Scc /\ c[1] <= root
                                  /\ c[1] = root => ~Awaited(c, path')
  BY <1>6, <1>12, <2>2, <2>5
<3> QED
  BY <1>4, <1>5, <2>5, <3>1, <3>2 DEF DetectedInv, Fixed, Vertex
<2>7. CompleteInv'
<3> SUFFICES ASSUME Unlimited, Uncut', NEW c \in Seq(Vertex), Ring(c)
             PROVE  /\ c[1] \in UNION (Large \ todo) => c \in ToSet(cycles)
                    /\ Past(c)' => c \in ToSet(detected')
  BY <1>4, <1>5 DEF CompleteInv, Fixed, Vertex
<3>1. Uncut
  BY <1>4, <1>5, <1>10, <2>5 DEF Uncut, Fixed
<3>2. /\ c[1] \in UNION (Large \ todo) => c \in ToSet(cycles)
      /\ Past(c) => c \in ToSet(detected)
  BY <1>1, <3>1 DEF CompleteInv
<3>3. ASSUME Past(c)', ~Past(c) PROVE c = Spelt(path)
<4>1. c[1] = root /\ Awaited(c, path) /\ ~Awaited(c, path')
  BY <1>4, <1>5, <3>3 DEF Past
<4>2. Agrees(c, path, Len(path)) /\ After(c, Len(path)) = w
<5>1. PICK hit : Tries(path, w, hit, path')
  BY <1>13, <2>1 DEF Skips
<5>2. Len(path) <= Len(path') /\ Len(path') \in Nat
<6>1. Len(path') = Len(path) /\ Len(path) \in Nat
  BY <1>2, <2>1, ToSetIs DEF Skips
<6> QED
  BY <6>1
<5> QED
  BY <1>2, <4>1, <5>1, <5>2, AwaitedTries
<4> QED
  BY <1>13, <2>3, <4>1, <4>2 DEF Ring
<3> QED
  BY <2>5, <3>2, <3>3
<2>8. KeptInv'
  BY <1>1, <1>4, <1>5 DEF KeptInv, Fixed, Vertex
<2> QED
  BY <1>7, <1>9, <2>6, <2>7, <2>8 DEF JohnsonInv
<1>14. CASE ~(w = root /\ Len(path) >= 2)
<2>1. detected' = detected
  BY <1>3, <1>14 DEF Takes
<2>2. DetectedInv'
<3>1. detected' \in Seq(Seq(Vertex)) /\ Injective(detected') /\ Len(detected') <= cfg'.cycles
  BY <1>1, <1>5, <2>1 DEF DetectedInv, Fixed
<3> QED
  BY <1>4, <1>5, <1>12, <2>1, <3>1 DEF DetectedInv, Fixed, Vertex
<2>3. KeptInv'
  BY <1>1, <1>4, <1>5 DEF KeptInv, Fixed, Vertex
<2>4. CompleteInv'
<3> SUFFICES ASSUME Unlimited, Uncut, NEW c \in Seq(Vertex), Ring(c)
             PROVE  /\ c[1] \in UNION (Large \ todo) => c \in ToSet(cycles)
                    /\ Past(c)' => c \in ToSet(detected)
  BY <1>4, <1>5, <2>1 DEF CompleteInv, Fixed, Uncut, Vertex
<3>1. /\ c[1] \in UNION (Large \ todo) => c \in ToSet(cycles)
      /\ Past(c) => c \in ToSet(detected)
  BY <1>1 DEF CompleteInv
<3>2. ASSUME Past(c)', ~Past(c) PROVE FALSE
<4>1. c[1] = root /\ Awaited(c, path) /\ ~Awaited(c, path')
  BY <1>4, <1>5, <3>2 DEF Past
<4>2. PICK n \in Nat : n = Len(path) /\ n > 0
  BY <1>2, <1>3, ToSetIs
<4>3. PICK m \in Nat : m = Len(c) /\ m >= 2 /\ IsClosed(c) /\ IsInjective(c)
<5>1. Len(c) \in 2..cfg.length /\ IsClosed(c) /\ IsInjective(c)
  BY DEF Ring
<5> QED
  BY <1>10, <5>1
<4>4. Agrees(c, path, n) /\ After(c, n) = w
<5>1. PICK hit : Tries(path, w, hit, path')
  BY <1>3 DEF Takes, Enters, Skips
<5>2. Len(path) <= Len(path') /\ Len(path') \in Nat
<6>1. Len(path') = n \/ Len(path') = n + 1
  BY <1>3, <4>2 DEF Takes, Enters, Skips
<6> QED
  BY <4>2, <6>1
<5> QED
  BY <1>2, <4>1, <4>2, <5>1, <5>2, AwaitedTries
<4>5. \A i \in 1..m : After(c, i) \in Aheads(root)[c[i]]
  BY <1>6, <4>1, <4>3, RingAhead
<4>6. n \in 1..m
  BY <4>3, <4>4 DEF Agrees
<4>7. w # root
<5> SUFFICES ASSUME w = root PROVE FALSE
  OBVIOUS
<5>1. n # m
  BY <1>14, <4>2, <4>3
<5>2. n + 1 \in 1..m /\ 1 \in 1..m /\ n + 1 # 1 /\ DOMAIN c = 1..m
  BY <4>2, <4>3, <4>6, <5>1, ToSetIs
<5>3. c[n + 1] = c[1]
  BY <4>1, <4>3, <4>4, <5>1 DEF After
<5> QED
  BY <4>3, <5>2, <5>3 DEF IsInjective
<4>8. n # m
  BY <4>1, <4>3, <4>4, <4>7 DEF After
<4>9. n + 1 \in 1..m /\ c[n + 1] = w
  BY <4>2, <4>3, <4>4, <4>6, <4>8 DEF After
<4>10. CASE Enters(Aheads(root), path, w, path')
<5>1. After(c, n + 1) \in Aheads(root)[w]
  BY <4>5, <4>9
<5> QED
  BY <1>2, <4>1, <4>2, <4>3, <4>4, <4>8, <4>10, <5>1, AwaitedEnters
<4>11. CASE Skips(root, path, w, path')
<5>1. w \in blocked
  BY <1>9, <4>7, <4>11
<5>2. Blocking(Aheads(root), root, path, blocked, blockers)
  BY <1>1, <1>4 DEF PathInv
<5>3. After(c, n) \notin blocked
  BY <1>2, <4>1, <4>2, <4>3, <4>4, <4>5, <4>8, <5>2, ShutOff
<5> QED
  BY <4>4, <5>1, <5>3
<4> QED
  BY <1>3, <4>10, <4>11 DEF Takes
<3> QED
  BY <3>1, <3>2
<2> QED
  BY <1>7, <1>9, <2>2, <2>3, <2>4 DEF JohnsonInv
<1> QED
  BY <1>13, <1>14

LEMMA ReturnKeeps ==
  ASSUME CyclesAssumption, TarjanInv, JohnsonInv, Return
  PROVE  JohnsonInv'
<1>1. PhaseInv /\ PathInv /\ DetectedInv /\ KeptInv /\ CompleteInv
  BY DEF JohnsonInv
<1>2. path \in Seq(Calls) /\ Chain(Aheads(root), root, path)
  BY <1>1 DEF PathInv, Chain
<1>3. PICK v : v = path[Len(path)].v
  OBVIOUS
<1>4. /\ Leaves(path, path') /\ (path[Len(path)].todo = {} \/ Full)
      /\ blocked' = IF path[Len(path)].hit THEN Unblocked(v) ELSE blocked
      /\ blockers' = IF path[Len(path)].hit THEN Unblocks(v) ELSE Blocks(v)
  BY <1>2, <1>3, ReturnMoves
<1>5. /\ path # <<>>
      /\ UNCHANGED <<cfg, edges, tarjan>> /\ todo' = todo /\ edges' = edges
      /\ root' = root /\ cycles' = cycles /\ detected' = detected
  BY DEF Return
<1>6. Fixed /\ Scc' = Scc /\ \A t : Aheads(t)' = Aheads(t)
  BY <1>5, FixedIs, SameScc
<1>7. root \in Scc /\ root # Nowhere /\ Searched /\ todo # {}
  BY <1>1, <1>5 DEF PhaseInv
<1>8. PhaseInv'
  BY <1>1, <1>5, <1>6, <1>7 DEF PhaseInv, Fixed, Nowhere
<1>9. Aheads(root)' = Aheads(root)
  BY <1>5, <1>6 DEF Aheads, Ahead, Adj, Vertex
<1>10. PathInv'
<2>1. Chain(Aheads(root), root, path')
  BY <1>2, <1>4, ChainLeaves
<2>2. Len(path') <= cfg.length
<3>1. Len(path) \in Nat /\ cfg.length \in Nat /\ Len(path) <= cfg.length
  BY <1>1, <1>2, ToSetIs, CfgIs DEF PhaseInv, PathInv
<3> QED
  BY <1>4, <3>1 DEF Leaves
<2>3. Unlimited => Apart(path')
  BY <1>1, <1>2, <1>4, PathLeaves DEF PathInv
<2>4. ASSUME Unlimited, ~Full, path' # <<>>
      PROVE  Blocking(Aheads(root), root, path', blocked', blockers')
<3>1. Apart(path) /\ Blocking(Aheads(root), root, path, blocked, blockers)
  BY <1>1, <1>5, <2>4 DEF PathInv
<3>2. CASE path[Len(path)].hit
<4> DEFINE step == [w \in Vertex |-> blockers[w] \cap blocked]
<4>1. blockers \in Steps /\ blocked \subseteq Vertex /\ v \in Vertex
<5>1. blockers \in Steps /\ blocked \subseteq Vertex /\ On(path) \subseteq blocked
  BY <3>1 DEF Blocking
<5>2. v \in On(path)
  BY <1>2, <1>3, <1>4, <3>1, PathLeaves
<5> QED
  BY <5>1, <5>2
<4>2. step \in Steps /\ \A w \in Vertex : step[w] = blockers[w] \cap blocked
  BY <4>1 DEF Steps
<4>3. PICK F : F = Freed(v) /\ F = Spread(v, step)
  BY DEF Freed
<4> HIDE DEF step
<4>4. /\ F \in SUBSET Vertex /\ v \in F /\ Closed(F, step)
      /\ \A S : v \in S /\ Closed(S, step) => F \subseteq S
  BY <4>1, <4>2, <4>3, SpreadLeast
<4>5. Frees(blocked, blockers, v, F)
<5>1. \A w \in F : blockers[w] \cap blocked \subseteq F
  BY <4>2, <4>4 DEF Closed
<5>2. \A S \in SUBSET Vertex :
        v \in S /\ (\A w \in S : blockers[w] \cap blocked \subseteq S) => F \subseteq S
  BY <4>2, <4>4 DEF Closed
<5> QED
  BY <4>4, <5>1, <5>2 DEF Frees
<4>6. blocked' = blocked \ F /\ blockers' = [w \in Vertex |-> IF w \in F THEN {} ELSE blockers[w]]
  BY <1>4, <3>2, <4>3 DEF Unblocked, Unblocks
<4>7. Blocking(Aheads(root), root, path', blocked \ F, blockers')
  BY <1>2, <1>3, <1>4, <3>1, <3>2, <4>5, <4>6, BlockingFrees
<4> QED
  BY <4>6, <4>7
<3>3. CASE ~path[Len(path)].hit
<4>1. blocked' = blocked
  BY <1>4, <3>3
<4>2. blockers' = [w \in Vertex |-> IF w \in Aheads(root)[v] THEN blockers[w] \cup {v}
                                    ELSE blockers[w]]
<5>1. v \in Vertex
<6>1. v \in On(path) /\ On(path) \subseteq Vertex
  BY <1>2, <1>3, <1>4, <3>1, PathLeaves DEF Blocking
<6> QED
  BY <6>1
<5>2. Aheads(root)[v] = Ahead(v, root)
  BY <5>1 DEF Aheads
<5> QED
  BY <1>4, <3>3, <5>2 DEF Blocks
<4>3. path[Len(path)].todo = {}
  BY <1>4, <2>4
<4>4. Blocking(Aheads(root), root, path', blocked, blockers')
  BY <1>2, <1>3, <1>4, <3>1, <3>3, <4>2, <4>3, BlockingStays
<4> QED
  BY <4>1, <4>4
<3> QED
  BY <3>2, <3>3
<2>5. Full' <=> Full
  BY <1>5 DEF Full
<2> QED
  BY <1>5, <1>6, <1>9, <2>1, <2>2, <2>3, <2>4, <2>5 DEF PathInv, Fixed
<1>11. DetectedInv'
<2>1. \A c : ~Awaited(c, path) => ~Awaited(c, path')
  BY <1>2, <1>4, AwaitedLeaves
<2>2. \A c \in ToSet(detected) : /\ Walk(c) /\ c[1] \in Scc /\ c[1] <= root
                                 /\ c[1] = root => ~Awaited(c, path')
  BY <1>1, <2>1 DEF DetectedInv
<2>3. detected' \in Seq(Seq(Vertex)) /\ Injective(detected') /\ Len(detected') <= cfg'.cycles
  BY <1>1, <1>5, <1>6 DEF DetectedInv, Fixed
<2> QED
  BY <1>5, <1>6, <2>2, <2>3 DEF DetectedInv, Fixed, Vertex
<1>12. KeptInv'
  BY <1>1, <1>5, <1>6 DEF KeptInv, Fixed, Vertex
<1>13. CompleteInv'
<2> SUFFICES ASSUME Unlimited, Uncut, NEW c \in Seq(Vertex), Ring(c)
             PROVE  /\ c[1] \in UNION (Large \ todo) => c \in ToSet(cycles)
                    /\ Past(c)' => c \in ToSet(detected)
  BY <1>5, <1>6 DEF CompleteInv, Fixed, Uncut, Vertex
<2>1. /\ c[1] \in UNION (Large \ todo) => c \in ToSet(cycles)
      /\ Past(c) => c \in ToSet(detected)
  BY <1>1 DEF CompleteInv
<2>2. path[Len(path)].todo = {}
<3>1. Len(detected) \in Nat /\ Len(cycles) \in Nat /\ cfg.cycles \in Nat
<4>1. Len(detected) \in Nat
  BY <1>1, ToSetIs DEF DetectedInv
<4>2. Len(cycles) \in Nat
  BY <1>1, ToSetIs DEF KeptInv
<4> QED
  BY <1>1, <4>1, <4>2, CfgIs DEF PhaseInv
<3>2. ~Full
  BY <3>1 DEF Uncut, Full
<3> QED
  BY <1>4, <3>2
<2>3. Past(c)' => Past(c)
<3>1. ~Awaited(c, path') => ~Awaited(c, path)
  BY <1>2, <1>4, <2>2, AwaitedLeaves
<3> QED
  BY <1>5, <1>6, <1>7, <3>1 DEF Past
<2> QED
  BY <2>1, <2>3
<1> QED
  BY <1>8, <1>10, <1>11, <1>12, <1>13 DEF JohnsonInv

LEMMA SccDoneKeeps ==
  ASSUME CyclesAssumption, TarjanInv, JohnsonInv, SccDone
  PROVE  JohnsonInv'
<1>1. PhaseInv /\ PathInv /\ DetectedInv /\ KeptInv /\ CompleteInv
  BY DEF JohnsonInv
<1>2. /\ Searched /\ todo # {} /\ path = <<>> /\ (Full \/ root = Max(Scc))
      /\ UNCHANGED <<cfg, edges, tarjan>> /\ edges' = edges /\ path' = path
      /\ cycles' = cycles \o detected /\ detected' = <<>>
      /\ todo' = todo \ {Scc} /\ root' = Nowhere
  BY DEF SccDone
<1>3. Fixed
  BY <1>2, FixedIs
<1>4. Scc \in todo /\ Scc \in Large /\ Scc \in Comps(Onward)
  BY <1>1, <1>2, SccHere
<1>5. cfg.length \in Nat /\ cfg.cycles \in Nat /\ Wallets \in Nat
  BY <1>1, CfgIs DEF PhaseInv
<1>6. PICK S : S = Scc
  OBVIOUS
<1>7. \A c \in ToSet(detected) : Walk(c) /\ c[1] \in S
  BY <1>1, <1>6 DEF DetectedInv
<1>8. \A c \in ToSet(cycles) : c[1] \notin S
<2> SUFFICES ASSUME NEW c \in ToSet(cycles), c[1] \in S PROVE FALSE
  OBVIOUS
<2>1. PICK D \in Large \ todo : c[1] \in D
  BY <1>1 DEF KeptInv
<2>2. D \in Comps(Onward)
  BY <1>1, <2>1 DEF Large, TarjanInv
<2>3. S = D
  BY <1>4, <1>6, <2>1, <2>2, SccIs
<2> QED
  BY <1>4, <1>6, <2>1, <2>3
<1>9. /\ cycles' \in Seq(Seq(Vertex)) /\ Injective(cycles')
      /\ Len(cycles') = Len(cycles) + Len(detected)
      /\ ToSet(cycles') = ToSet(cycles) \cup ToSet(detected)
<2>1. /\ cycles \in Seq(Seq(Vertex)) /\ Injective(cycles)
      /\ detected \in Seq(Seq(Vertex)) /\ Injective(detected)
  BY <1>1 DEF KeptInv, DetectedInv
<2>2. \A x \in ToSet(cycles) : x \notin ToSet(detected)
  BY <1>7, <1>8
<2> QED
  BY <1>2, <2>1, <2>2, InjectiveConcat
<1>10. PhaseInv'
  BY <1>1, <1>2, <1>3 DEF PhaseInv, Fixed, Nowhere
<1>11. PathInv'
<2>1. Aheads(root)' \in Steps
  BY DEF Aheads, Ahead, Adj, Steps, Vertex
<2> QED
  BY <1>2, <1>3, <1>5, <2>1, EmptyIs DEF PathInv, Fixed
<1>12. DetectedInv'
  BY <1>2, <1>3, <1>5, EmptyIs DEF DetectedInv, Fixed, Vertex
<1>13. S \in Large' \ todo' /\ Large \ todo \subseteq Large' \ todo'
       /\ \A D \in Large' \ todo' : D \in Large \ todo \/ D = S
  BY <1>2, <1>3, <1>4, <1>6 DEF Fixed
<1>14. KeptInv'
<2>1. ASSUME NEW c \in ToSet(cycles') PROVE Walk(c) /\ c[1] \in UNION (Large' \ todo')
<3>1. CASE c \in ToSet(cycles)
<4>1. Walk(c) /\ c[1] \in UNION (Large \ todo)
  BY <1>1, <3>1 DEF KeptInv
<4> QED
  BY <1>13, <4>1
<3>2. CASE c \in ToSet(detected)
  BY <1>7, <1>13, <3>2
<3> QED
  BY <1>9, <3>1, <3>2
<2> QED
  BY <1>3, <1>9, <2>1 DEF KeptInv, Fixed, Vertex
<1>15. CompleteInv'
<2> SUFFICES ASSUME Unlimited, Uncut', NEW c \in Seq(Vertex), Ring(c),
                    c[1] \in UNION (Large' \ todo')
             PROVE  c \in ToSet(cycles')
  BY <1>2, <1>3 DEF CompleteInv, Fixed, Past, Nowhere, Vertex
<2>1. Len(detected) \in Nat /\ Len(cycles) \in Nat
<3>1. Len(detected) \in Nat
  BY <1>1, ToSetIs DEF DetectedInv
<3>2. Len(cycles) \in Nat
  BY <1>1, ToSetIs DEF KeptInv
<3> QED
  BY <3>1, <3>2
<2>2. Uncut /\ ~Full
  BY <1>2, <1>3, <1>5, <1>9, <2>1, EmptyIs DEF Uncut, Full, Fixed
<2>3. /\ c[1] \in UNION (Large \ todo) => c \in ToSet(cycles)
      /\ Past(c) => c \in ToSet(detected)
  BY <1>1, <2>2 DEF CompleteInv
<2>4. PICK D \in Large' \ todo' : c[1] \in D
  OBVIOUS
<2>5. CASE D = S
<3>1. root = Max(Scc)
  BY <1>2, <2>2
<3>2. Scc \in SUBSET (0..Wallets) /\ Scc # {} /\ Scc \in SUBSET Vertex
<4>1. Scc \in SUBSET Vertex /\ Scc # {}
  BY <1>4, SccIs
<4>2. Vertex \in SUBSET (0..Wallets)
  BY <1>5 DEF Vertex
<4> QED
  BY <4>1, <4>2
<3>3. root \in Scc /\ \A x \in Scc : x <= root
  BY <1>5, <3>1, <3>2, MaxIs
<3>4. root # Nowhere /\ c[1] \in Scc /\ c[1] <= root
  BY <1>6, <2>4, <2>5, <3>2, <3>3, NowhereIs
<3>5. Past(c)
  BY <1>2, <3>4, EmptyIs DEF Past
<3> QED
  BY <1>9, <2>3, <3>5
<2>6. CASE D \in Large \ todo
  BY <1>9, <2>3, <2>4, <2>6
<2> QED
  BY <1>13, <2>4, <2>5, <2>6
<1> QED
  BY <1>10, <1>11, <1>12, <1>14, <1>15 DEF JohnsonInv

(***************************************************************************)
(* The theorems.                                                           *)
(***************************************************************************)
CyclesInv == CyclesAssumption /\ TarjanInv /\ JohnsonInv

LEMMA CyclesInvStarts == CyclesAssumption /\ Init => CyclesInv
  BY SearchStarts, JohnsonStarts DEF CyclesInv

LEMMA SearchStepKeeps ==
  ASSUME CyclesInv, StartSearch \/ TakeEdge \/ Retreat
  PROVE  TarjanInv' /\ JohnsonInv'
<1>1. CyclesAssumption /\ TarjanInv /\ JohnsonInv /\ PhaseInv
  BY DEF CyclesInv, JohnsonInv
<1>2. ~Searched
  BY DEF StartSearch, TakeEdge, Retreat, Searched
<1>3. todo = Large
  BY <1>1, <1>2 DEF PhaseInv
<1>4. CASE StartSearch \/ TakeEdge
<2>1. TarjanInv'
  BY <1>1, <1>4, StartSearchKeeps, TakeEdgeKeeps
<2>2. /\ UNCHANGED <<cfg, edges>> /\ UNCHANGED <<root, path, blocked, detected, cycles>>
      /\ todo' = todo /\ sccs' = sccs
  BY <1>4 DEF StartSearch, TakeEdge, johnson
<2>3. todo' = Large'
  BY <1>3, <2>2 DEF Large
<2> QED
  BY <1>1, <1>2, <2>1, <2>2, <2>3, JohnsonWaits
<1>5. CASE Retreat
<2>1. /\ TarjanInv'
      /\ \/ sccs' = sccs /\ todo' = todo
         \/ \E scc \in Comps(Onward) :
              /\ sccs' = sccs \cup {scc}
              /\ todo' = IF Cardinality(scc) >= cfg.scc THEN todo \cup {scc} ELSE todo
  BY <1>1, <1>5, RetreatSteps
<2>2. UNCHANGED <<cfg, edges>> /\ UNCHANGED <<root, path, blocked, detected, cycles>>
  BY <1>5 DEF Retreat
<2>3. todo' = Large'
<3>1. CASE sccs' = sccs /\ todo' = todo
  BY <1>3, <2>2, <3>1 DEF Large
<3>2. ASSUME NEW scc, sccs' = sccs \cup {scc},
             todo' = IF Cardinality(scc) >= cfg.scc THEN todo \cup {scc} ELSE todo
      PROVE  todo' = Large'
  BY <1>3, <2>2, <3>2 DEF Large
<3> QED
  BY <2>1, <3>1, <3>2
<2> QED
  BY <1>1, <1>2, <2>1, <2>2, <2>3, JohnsonWaits
<1> QED
  BY <1>4, <1>5

LEMMA CyclesInvKept == CyclesInv /\ [Next]_vars => CyclesInv'
<1> SUFFICES ASSUME CyclesInv, [Next]_vars PROVE CyclesInv'
  OBVIOUS
<1>1. CyclesAssumption /\ TarjanInv /\ JohnsonInv /\ CyclesAssumption'
  BY DEF CyclesInv, CyclesAssumption
<1>2. CASE StartSearch \/ TakeEdge \/ Retreat
  BY <1>1, <1>2, SearchStepKeeps DEF CyclesInv
<1>3. CASE NextRoot
<2>1. UNCHANGED <<edges, found, low, stack, dfs, sccs>>
  BY <1>3 DEF NextRoot, tarjan
<2> QED
  BY <1>1, <1>3, <2>1, TarjanRests, NextRootKeeps DEF CyclesInv
<1>4. CASE Neighbour
<2>1. UNCHANGED <<edges, found, low, stack, dfs, sccs>>
  BY <1>4 DEF Neighbour, tarjan
<2> QED
  BY <1>1, <1>4, <2>1, TarjanRests, NeighbourKeeps DEF CyclesInv
<1>5. CASE Return
<2>1. UNCHANGED <<edges, found, low, stack, dfs, sccs>>
  BY <1>5 DEF Return, tarjan
<2> QED
  BY <1>1, <1>5, <2>1, TarjanRests, ReturnKeeps DEF CyclesInv
<1>6. CASE SccDone
<2>1. UNCHANGED <<edges, found, low, stack, dfs, sccs>>
  BY <1>6 DEF SccDone, tarjan
<2> QED
  BY <1>1, <1>6, <2>1, TarjanRests, SccDoneKeeps DEF CyclesInv
<1>7. CASE UNCHANGED vars
<2>1. /\ UNCHANGED <<edges, found, low, stack, dfs, sccs>> /\ UNCHANGED <<cfg, edges, tarjan>>
      /\ UNCHANGED <<todo, root, path, blocked, blockers, detected, cycles>>
  BY <1>7 DEF vars, tarjan, johnson
<2>2. Fixed /\ Scc' = Scc
  BY <2>1, FixedIs, SameScc
<2>3. Aheads(root)' = Aheads(root)
  BY <2>1, <2>2 DEF Aheads, Ahead, Adj, Vertex
<2>4. PhaseInv'
  BY <1>1, <2>1, <2>2 DEF JohnsonInv, PhaseInv, Fixed, Nowhere
<2>5. PathInv'
  BY <1>1, <2>1, <2>2, <2>3 DEF JohnsonInv, PathInv, Fixed, Full
<2>6. DetectedInv'
  BY <1>1, <2>1, <2>2 DEF JohnsonInv, DetectedInv, Fixed, Vertex
<2>7. KeptInv'
  BY <1>1, <2>1, <2>2 DEF JohnsonInv, KeptInv, Fixed, Vertex
<2>8. CompleteInv'
  BY <1>1, <2>1, <2>2 DEF JohnsonInv, CompleteInv, Past, Uncut, Fixed, Vertex, Nowhere
<2> QED
  BY <1>1, <2>1, <2>4, <2>5, <2>6, <2>7, <2>8, TarjanRests DEF CyclesInv, JohnsonInv
<1> QED
  BY <1>2, <1>3, <1>4, <1>5, <1>6, <1>7 DEF Next

\* What is reported has no doubles.
LEMMA FoundIs ==
  ASSUME CyclesInv
  PROVE  /\ Found \in Seq(Seq(Vertex)) /\ Injective(Found)
         /\ ToSet(Found) = ToSet(cycles) \cup ToSet(detected)
         /\ \A c \in ToSet(Found) : Walk(c)
<1>1. /\ CyclesAssumption /\ TarjanInv
      /\ PhaseInv /\ PathInv /\ DetectedInv /\ KeptInv /\ CompleteInv
  BY DEF CyclesInv, JohnsonInv
<1>2. \A x \in ToSet(cycles) : x \notin ToSet(detected)
<2> SUFFICES ASSUME NEW x \in ToSet(cycles), x \in ToSet(detected) PROVE FALSE
  OBVIOUS
<2>1. root # Nowhere
  BY <1>1, EmptyIs DEF PhaseInv
<2>2. Scc \in todo /\ Scc \in Comps(Onward) /\ x[1] \in Scc
  BY <1>1, <2>1, RootIs DEF DetectedInv
<2>3. PICK D \in Large \ todo : x[1] \in D
  BY <1>1 DEF KeptInv
<2>4. D \in Comps(Onward)
  BY <1>1, <2>3 DEF Large, TarjanInv
<2>5. Scc = D
  BY <1>1, <2>2, <2>3, <2>4, SccIs
<2> QED
  BY <2>2, <2>3, <2>5
<1>3. /\ Found \in Seq(Seq(Vertex)) /\ Injective(Found)
      /\ ToSet(Found) = ToSet(cycles) \cup ToSet(detected)
<2>1. /\ cycles \in Seq(Seq(Vertex)) /\ Injective(cycles)
      /\ detected \in Seq(Seq(Vertex)) /\ Injective(detected)
  BY <1>1 DEF KeptInv, DetectedInv
<2> QED
  BY <1>2, <2>1, InjectiveConcat DEF Found
<1>4. \A c \in ToSet(Found) : Walk(c)
  BY <1>1, <1>3 DEF DetectedInv, KeptInv
<1> QED
  BY <1>3, <1>4

LEMMA CyclesInvExact == CyclesInv => CyclesExact
<1> SUFFICES ASSUME CyclesInv PROVE CyclesExact
  OBVIOUS
<1>1. /\ CyclesAssumption /\ TarjanInv
      /\ PhaseInv /\ PathInv /\ DetectedInv /\ KeptInv /\ CompleteInv
  BY DEF CyclesInv, JohnsonInv
<1>2. SccsFound
  BY <1>1, SccsAreFound
<1>3. \A c \in ToSet(Found) : /\ c \in Seq(Vertex) /\ IsWalk(c) /\ Len(c) \in 2..cfg.length
                              /\ Unlimited => IsInjective(c)
  BY <1>1, FoundIs, WalkIs DEF Walk
<1>4. IsInjective(Found)
<2>1. DOMAIN Found = 1..Len(Found) /\ Injective(Found)
  BY FoundIs, ToSetIs
<2> QED
  BY <2>1 DEF Injective, IsInjective
<1>5. Len(detected) <= cfg.cycles
  BY <1>1 DEF DetectedInv
<1>6. cfg.length \in Nat /\ Wallets \in Nat /\ cfg.cycles \in Nat
  BY <1>1, CfgIs DEF PhaseInv
<1>7. ASSUME Unlimited, Done, Len(cycles) < cfg.cycles
      PROVE  ToSet(cycles) = RingsUpTo(cfg.length)
<2>1. Searched /\ todo = {} /\ root = Nowhere /\ detected = <<>>
  BY <1>1, <1>7 DEF Done, PhaseInv
<2>2. sccs = Components
  BY <1>2, <2>1 DEF SccsFound
<2> DEFINE large == UNION {c \in Components : Cardinality(c) >= cfg.scc}
           ups == UNION {[1..k -> Vertex] : k \in 2..cfg.length}
<2>3. large = UNION (Large \ todo)
  BY <2>1, <2>2 DEF Large
<2>4. RingsUpTo(cfg.length) = {c \in ups : c[1] \in large /\ IsRing(c)}
  BY DEF RingsUpTo
<2>5. Uncut
<3>1. Len(cycles) \in Nat /\ Len(detected) = 0
<4>1. Len(cycles) \in Nat
  BY <1>1, ToSetIs DEF KeptInv
<4> QED
  BY <2>1, <4>1
<3> QED
  BY <1>6, <1>7, <3>1 DEF Uncut
<2> HIDE DEF large, ups
<2>6. ASSUME NEW c \in ToSet(cycles) PROVE c \in ups /\ c[1] \in large /\ IsRing(c)
<3>1. c \in Seq(Vertex) /\ Len(c) \in 2..cfg.length /\ IsWalk(c) /\ IsInjective(c)
  BY <1>3, <1>7, FoundIs
<3>2. c \in [1..Len(c) -> Vertex]
  BY <3>1, LenProperties
<3>3. c \in ups
  BY <3>1, <3>2 DEF ups
<3>4. c[1] \in large
  BY <1>1, <2>3 DEF KeptInv
<3> QED
  BY <3>1, <3>3, <3>4 DEF IsRing
<2>7. ASSUME NEW c \in ups, c[1] \in large, IsRing(c) PROVE c \in ToSet(cycles)
<3>1. PICK k \in 2..cfg.length : c \in [1..k -> Vertex]
  BY DEF ups
<3>2. c \in Seq(Vertex) /\ Len(c) = k
<4>1. c \in Seq(Vertex)
  BY <1>6, <3>1, SeqDef
<4>2. DOMAIN c = 1..k /\ k \in Nat
  BY <1>6, <3>1
<4> QED
  BY <4>1, <4>2, LenProperties
<3>3. Ring(c)
  BY <1>1, <2>7, <3>1, <3>2, WalkIs DEF Ring, IsRing
<3> QED
  BY <1>1, <1>7, <2>3, <2>5, <2>7, <3>2, <3>3 DEF CompleteInv
<2>8. \A c : c \in ToSet(cycles) <=> c \in RingsUpTo(cfg.length)
  BY <2>4, <2>6, <2>7
<2> QED
  BY <2>8
<1>8. ASSUME cfg.length >= Wallets
      PROVE  /\ \A c \in ToSet(Found) : IsRing(c)
             /\ (Done /\ Len(cycles) < cfg.cycles) => ToSet(cycles) = RingsUpTo(cfg.length)
<2>1. Unlimited
  BY <1>8 DEF Unlimited
<2>2. \A c \in ToSet(Found) : IsRing(c)
  BY <1>3, <2>1 DEF IsRing
<2> QED
  BY <1>7, <2>1, <2>2
<1> QED
  BY <1>2, <1>3, <1>4, <1>5, <1>8 DEF CyclesExact

\* Tarjan's stack gives out components of the transfer graph, each of them once
\* the search is over: tarjan_scc on any graph.
THEOREM ComponentsAreFound == CyclesAssumption /\ Spec => []SccsFound
<1>1. CyclesAssumption /\ Init => CyclesInv
  BY CyclesInvStarts
<1>2. CyclesInv /\ [Next]_vars => CyclesInv'
  BY CyclesInvKept
<1>3. CyclesInv => SccsFound
  BY SccsAreFound DEF CyclesInv
<1> QED
  BY <1>1, <1>2, <1>3, PTL DEF Spec

\* detect_cycles reports closed walks within the limits and none twice and, where the
\* length is no limit, the rings of the large components and no others: for any
\* number of wallets, any transfers and any limits.
THEOREM CyclesAreExact == CyclesAssumption /\ Spec => []CyclesExact
<1>1. CyclesAssumption /\ Init => CyclesInv
  BY CyclesInvStarts
<1>2. CyclesInv /\ [Next]_vars => CyclesInv'
  BY CyclesInvKept
<1>3. CyclesInv => CyclesExact
  BY CyclesInvExact
<1> QED
  BY <1>1, <1>2, <1>3, PTL DEF Spec
=============================================================================
