------------------------------- MODULE Cycles -------------------------------
(***************************************************************************)
(* Rings of wallets for D05's signal B: detect_cycles in                   *)
(* crates/graph/src/cycles.rs.  An iterative Tarjan finds the strongly     *)
(* connected components of the transfer graph, Johnson's circuit then      *)
(* enumerates the elementary cycles of each large one, cut off at a length *)
(* and at a number.  The edges are given, deduplicated and without loops;  *)
(* their amounts and times ride along and decide nothing.                  *)
(***************************************************************************)
EXTENDS Naturals, Sequences, FiniteSets, FiniteSetsExt, SequencesExt

CONSTANTS
  Wallets,   \* number of vertices
  Configs    \* CycleDetectionConfig: [length, cycles, scc], the greatest length
             \* of a cycle and number per component, the least component

VARIABLES
  cfg,
  edges,    \* the transfer graph, a set of pairs
  found,    \* the vertices discovered, in the order of their index
  low,      \* lowlink
  stack,    \* Tarjan's stack
  dfs,      \* its depth-first search: [v, todo], todo the neighbours ahead
  sccs,     \* the components found
  todo,     \* those still to be searched for cycles
  root,     \* s, the least vertex of the cycles looked for
  path,     \* the calls of circuit: [v, todo, hit]
  blocked,  \* the vertices circuit does not enter
  blockers, \* vertex -> those to unblock with it
  detected, \* the cycles of the component at hand
  cycles    \* those of the components before

tarjan == <<found, low, stack, dfs, sccs>>
johnson == <<todo, root, path, blocked, blockers, detected, cycles>>
vars == <<cfg, edges, tarjan, johnson>>

Vertex == 0..Wallets - 1
Nowhere == Wallets
Adj(v) == {w \in Vertex : <<v, w>> \in edges}

\* A cycle has an edge at least, a component a vertex.
CyclesAssumption ==
  /\ Wallets \in Nat
  /\ Configs \subseteq [length : Nat \ {0}, cycles : Nat, scc : Nat \ {0}]

\* What is reached from a vertex when step leads to the next ones.
Spread(v, step) ==
  LET in[n \in 0..Wallets] ==
        IF n = 0 THEN {v}
        ELSE LET nearer == in[n - 1] IN nearer \cup UNION {step[w] : w \in nearer}
  IN  in[Wallets]

Init ==
  /\ cfg \in Configs
  /\ edges \in SUBSET {e \in Vertex \X Vertex : e[1] # e[2]}
  /\ found = <<>> /\ low = [v \in Vertex |-> 0] /\ stack = <<>> /\ dfs = <<>>
  /\ sccs = {} /\ todo = {}
  /\ root = Nowhere /\ path = <<>> /\ blocked = {}
  /\ blockers = [v \in Vertex |-> {}] /\ detected = <<>> /\ cycles = <<>>

(***************************************************************************)
(* tarjan_scc.                                                             *)
(***************************************************************************)
Index(v) == CHOOSE i \in DOMAIN found : found[i] = v

Visit(v, below) ==
  /\ found' = Append(found, v) /\ low' = [low EXCEPT ![v] = Len(found) + 1]
  /\ stack' = Append(stack, v)
  /\ dfs' = Append(below, [v |-> v, todo |-> Adj(v)])

\* The for loop over the vertices: the next undiscovered one.
StartSearch ==
  /\ dfs = <<>> /\ ToSet(found) # Vertex
  /\ Visit(Min(Vertex \ ToSet(found)), <<>>)
  /\ UNCHANGED <<cfg, edges, sccs, johnson>>

LowlinkOf(v, w) == IF w \in ToSet(stack) THEN Min({low[v], Index(w)}) ELSE low[v]

TakeEdge ==
  /\ dfs # <<>> /\ Last(dfs).todo # {}
  /\ LET top   == Last(dfs)
         w     == Min(top.todo)
         below == Append(Front(dfs), [top EXCEPT !.todo = @ \ {w}])
     IN  \/ w \notin ToSet(found) /\ Visit(w, below)
         \/ /\ w \in ToSet(found)
            /\ low' = [low EXCEPT ![top.v] = LowlinkOf(top.v, w)]
            /\ dfs' = below /\ UNCHANGED <<found, stack>>
  /\ UNCHANGED <<cfg, edges, sccs, johnson>>

\* A vertex is done: its parent inherits the lowlink, and what lies on the
\* stack from a root up is its component.
Retreat ==
  /\ dfs # <<>> /\ Last(dfs).todo = {}
  /\ LET v == Last(dfs).v
         rest == Front(dfs)
         at == CHOOSE i \in DOMAIN stack : stack[i] = v
     IN  /\ dfs' = rest
         /\ low' = IF rest = <<>> THEN low
                   ELSE [low EXCEPT ![Last(rest).v] = Min({@, low[v]})]
         /\ IF low[v] = Index(v)
            THEN LET scc == {stack[i] : i \in at..Len(stack)} IN
                 /\ stack' = SubSeq(stack, 1, at - 1)
                 /\ sccs' = sccs \cup {scc}
                 /\ todo' = IF Cardinality(scc) >= cfg.scc THEN todo \cup {scc} ELSE todo
            ELSE UNCHANGED <<stack, sccs, todo>>
  /\ UNCHANGED <<cfg, edges, found, root, path, blocked, blockers, detected, cycles>>

Searched == dfs = <<>> /\ ToSet(found) = Vertex

(***************************************************************************)
(* enumerate_cycles_in_scc.                                                *)
(***************************************************************************)
\* The components come by descending size, then by their least vertex.
Before(a, b) ==
  \/ Cardinality(a) > Cardinality(b)
  \/ Cardinality(a) = Cardinality(b) /\ Min(a) < Min(b)
Scc == CHOOSE c \in todo : \A d \in todo \ {c} : Before(c, d)

\* The neighbours circuit looks at: in the component, and not below s.
Ahead(v, s) == {w \in Adj(v) : w \in Scc /\ w >= s}
Call(v, s) == [v |-> v, todo |-> Ahead(v, s), hit |-> FALSE]

Full == Len(detected) >= cfg.cycles

\* The next s, with the blocks of the vertices from s on reset.
NextRoot ==
  /\ Searched /\ todo # {} /\ path = <<>> /\ ~Full
  /\ \E s \in Scc :
       /\ IF root = Nowhere THEN s = Min(Scc)
          ELSE s > root /\ \A t \in Scc : t > root => s <= t
       /\ root' = s /\ path' = <<Call(s, s)>> /\ blocked' = {s}
  /\ blockers' = [v \in Vertex |-> {}]
  /\ UNCHANGED <<cfg, edges, tarjan, todo, detected, cycles>>

\* Every s was tried, or the cap is reached.
SccDone ==
  /\ Searched /\ todo # {} /\ path = <<>>
  /\ Full \/ root = Max(Scc)
  /\ cycles' = cycles \o detected /\ detected' = <<>>
  /\ todo' = todo \ {Scc} /\ root' = Nowhere
  /\ UNCHANGED <<cfg, edges, tarjan, path, blocked, blockers>>

Vertices == [i \in DOMAIN path |-> path[i].v]

\* The for loop of circuit for one neighbour: the cycle is closed, the
\* neighbour is entered, or it is blocked or too far away.
Neighbour ==
  /\ path # <<>> /\ Last(path).todo # {} /\ ~Full
  /\ LET top  == Last(path)
         w    == Min(top.todo)
         left == [top EXCEPT !.todo = @ \ {w}]
         enters == w # root /\ w \notin blocked /\ Len(path) < cfg.length
     IN  /\ path' = IF enters THEN Front(path) \o <<left, Call(w, root)>>
                    ELSE Append(Front(path), [left EXCEPT !.hit = @ \/ w = root])
         /\ blocked' = IF enters THEN blocked \cup {w} ELSE blocked
         /\ detected' = IF w = root /\ Len(path) >= 2
                        THEN Append(detected, Vertices) ELSE detected
  /\ UNCHANGED <<cfg, edges, tarjan, todo, root, blockers, cycles>>

\* unblock: v, what waits for it and is blocked, and so on.
Freed(v) == Spread(v, [w \in Vertex |-> blockers[w] \cap blocked])

\* Altered Unblocked: unblock is not recursive.
UnblockedAlone(v) == blocked \ {v}
Unblocked(v) == blocked \ Freed(v)

Blocks(v) == [w \in Vertex |-> IF w \in Ahead(v, root) THEN blockers[w] \cup {v}
                               ELSE blockers[w]]
Unblocks(v) == [w \in Vertex |-> IF w \in Freed(v) THEN {} ELSE blockers[w]]

\* circuit returns.  With the cap reached it leaves its loop early.
Return ==
  /\ path # <<>> /\ (Last(path).todo = {} \/ Full)
  /\ LET top == Last(path)
         rest == Front(path)
     IN  /\ blocked' = IF top.hit THEN Unblocked(top.v) ELSE blocked
         /\ blockers' = IF top.hit THEN Unblocks(top.v) ELSE Blocks(top.v)
         /\ path' = IF rest = <<>> THEN <<>>
                    ELSE Append(Front(rest), [Last(rest) EXCEPT !.hit = @ \/ top.hit])
  /\ UNCHANGED <<cfg, edges, tarjan, todo, root, detected, cycles>>

Next ==
  \/ StartSearch \/ TakeEdge \/ Retreat
  \/ NextRoot \/ Neighbour \/ Return \/ SccDone

Spec == Init /\ [][Next]_vars
----------------------------------------------------------------------------
(***************************************************************************)
(* Properties.                                                             *)
(***************************************************************************)
\* The classes of vertices that reach one another.
Components ==
  LET ahead == [v \in Vertex |-> Adj(v)]
      reached == UNION {{<<v, w>> : w \in Spread(v, ahead)} : v \in Vertex}
  IN  {{w \in Vertex : {<<v, w>>, <<w, v>>} \subseteq reached} : v \in Vertex}

\* What Tarjan's stack gives out are the components of the graph, and in the
\* end all of them, whatever the order of the vertices (tarjan_scc).
SccsFound ==
  /\ sccs \subseteq Components
  /\ Searched => sccs = Components

\* A walk along the edges back to where it begins, its least vertex.
IsWalk(c) ==
  /\ \A i \in DOMAIN c : c[1] <= c[i]
  /\ \A i \in DOMAIN c : <<c[i], c[(i % Len(c)) + 1]>> \in edges

\* An elementary cycle.
IsRing(c) == IsWalk(c) /\ IsInjective(c)

RingsUpTo(n) ==
  LET large == UNION {c \in Components : Cardinality(c) >= cfg.scc}
  IN  {c \in UNION {[1..k -> Vertex] : k \in 2..n} : c[1] \in large /\ IsRing(c)}

Found == cycles \o detected
Done == Searched /\ todo = {}

\* The components are those of the graph, and what is reported are closed walks,
\* none longer than the limit, none twice, of no component more than the cap.
\* When the length is no limit they are rings of wallets and, with the cap not
\* reached, all there are: the blocking of circuit cuts off only what leads
\* nowhere.
CyclesExact ==
  /\ SccsFound
  /\ \A c \in ToSet(Found) : IsWalk(c) /\ Len(c) \in 2..cfg.length
  /\ IsInjective(Found)
  /\ Len(detected) <= cfg.cycles
  /\ cfg.length >= Wallets =>
       /\ \A c \in ToSet(Found) : IsRing(c)
       /\ (Done /\ Len(cycles) < cfg.cycles) => ToSet(cycles) = RingsUpTo(cfg.length)

(***************************************************************************)
(* What documentation says and the code does not do.                       *)
(***************************************************************************)
\* cycles.rs: "One elementary directed cycle detected in the transfer graph.
\* [...] Length = number of distinct wallets = number of hops."
WalletsDistinct == \A c \in ToSet(Found) : IsInjective(c)
=============================================================================
