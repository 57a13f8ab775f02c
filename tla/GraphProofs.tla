---------------------------- MODULE GraphProofs ----------------------------
(***************************************************************************)
(* What the provenance graph keeps for any set of nodes and any bounds:    *)
(* called by anybody in any order (ProvGraph), and by the ingest goroutine *)
(* beside the retention sweep, together with what the scorer makes of it   *)
(* (Ingest).  The first lemmas are about one graph record and the          *)
(* operations of GraphOps; both sets of theorems rest on them.             *)
(***************************************************************************)
EXTENDS Ingest, SequenceTheorems, FiniteSetTheorems, TLAPS

-----------------------------------------------------------------------------
(* The invariants, of one graph *)

\* The record has its type and its live edges were appended.
Typed(g) == g \in Graphs /\ g.edges \subseteq 1..Len(g.made) /\ Len(g.made) <= MaxEdges

Linked(g) ==
    /\ \A e \in g.edges : {g.made[e].src, g.made[e].dst} \subseteq g.nodes
    /\ \A n \in NodeIds :
          /\ g.out[n] = {e \in g.edges : g.made[e].src = n}
          /\ g.in[n] = {e \in g.edges : g.made[e].dst = n}

Ranked(g) ==
    \A n, m \in NodeIds :
        /\ g.seen[n] <= g.clock
        /\ (n \in g.nodes) <=> (g.seen[n] > 0)
        /\ n \in g.nodes /\ n # m => g.seen[n] # g.seen[m]

Bounded(g) == maxNodes > 0 => Cardinality(g.nodes) <= maxNodes

\* The nodes touched after v.
Above(g, v) == {w \in g.nodes : g.seen[w] > g.seen[v]}

-----------------------------------------------------------------------------
(* Remove *)

\* Removing nodes leaves a record of the same type.
LEMMA RemoveTyped ==
    ASSUME NEW g, Typed(g), NEW V
    PROVE  Typed(Remove(g, V))
<1> DEFINE live == g.edges \ DeadEdges(g, V)
           h == Remove(g, V)
<1>1. /\ h.nodes = g.nodes \ V /\ h.edges = live /\ h.made = g.made
      /\ h.out = [n \in NodeIds |-> IF n \in V THEN {} ELSE g.out[n] \cap live]
      /\ h.in = [n \in NodeIds |-> IF n \in V THEN {} ELSE g.in[n] \cap live]
      /\ h.seen = [n \in NodeIds |-> IF n \in V THEN 0 ELSE g.seen[n]]
      /\ h.clock = g.clock
  BY DEF Remove, Typed, Graphs
<1>2. live \subseteq g.edges
  OBVIOUS
<1>3. /\ h.out \in [NodeIds -> SUBSET EdgeIds] /\ h.in \in [NodeIds -> SUBSET EdgeIds]
      /\ h.seen \in [NodeIds -> Nat]
  BY <1>1 DEF Typed, Graphs
<1>4. h \in Graphs
  BY <1>1, <1>2, <1>3 DEF Remove, Typed, Graphs
<1> QED
  BY <1>1, <1>2, <1>4 DEF Typed

\* Compaction keeps the two lists and the edge set in step.
LEMMA RemoveLinked ==
    ASSUME NEW g, Typed(g), Linked(g), NEW V
    PROVE  Linked(Remove(g, V))
<1> DEFINE live == g.edges \ DeadEdges(g, V)
           h == Remove(g, V)
<1>1. /\ h.nodes = g.nodes \ V /\ h.edges = live /\ h.made = g.made
      /\ \A n \in NodeIds :
            /\ h.out[n] = IF n \in V THEN {} ELSE g.out[n] \cap live
            /\ h.in[n] = IF n \in V THEN {} ELSE g.in[n] \cap live
  BY DEF Remove, Typed, Graphs
<1>2. ASSUME NEW e \in live
      PROVE  /\ g.made[e].src \in g.nodes \ V
             /\ g.made[e].dst \in g.nodes \ V
  <2>1. e \in g.edges /\ g.made[e].src \in g.nodes /\ g.made[e].dst \in g.nodes
    BY DEF Linked
  <2>2. g.nodes \subseteq NodeIds
    BY DEF Typed, Graphs
  <2>3. e \in g.out[g.made[e].src] /\ e \in g.in[g.made[e].dst]
    BY <2>1, <2>2 DEF Linked
  <2>4. \A v \in V : e \notin g.out[v] \cup g.in[v]
    BY <2>1 DEF DeadEdges
  <2> QED
    BY <2>1, <2>3, <2>4
<1>3. \A e \in h.edges : {h.made[e].src, h.made[e].dst} \subseteq h.nodes
  BY <1>1, <1>2
<1>4. ASSUME NEW n \in NodeIds
      PROVE  /\ h.out[n] = {e \in h.edges : h.made[e].src = n}
             /\ h.in[n] = {e \in h.edges : h.made[e].dst = n}
  <2>1. /\ g.out[n] = {e \in g.edges : g.made[e].src = n}
        /\ g.in[n] = {e \in g.edges : g.made[e].dst = n}
    BY DEF Linked
  <2>2. CASE n \in V
    BY <1>1, <1>2, <2>2
  <2>3. CASE n \notin V
    BY <1>1, <2>1, <2>3
  <2> QED
    BY <2>2, <2>3
<1> HIDE DEF h
<1> QED
  BY <1>3, <1>4 DEF Linked, h

\* Survivors keep their recency, victims lose theirs.
LEMMA RemoveRanked ==
    ASSUME NEW g, Typed(g), Ranked(g), NEW V
    PROVE  Ranked(Remove(g, V))
<1> DEFINE h == Remove(g, V)
<1>1. /\ h.nodes = g.nodes \ V /\ h.clock = g.clock
      /\ \A n \in NodeIds : h.seen[n] = IF n \in V THEN 0 ELSE g.seen[n]
  BY DEF Remove, Typed, Graphs
<1>2. g.clock \in Nat /\ \A n \in NodeIds : g.seen[n] \in Nat
  BY DEF Typed, Graphs
<1> HIDE DEF h
<1> SUFFICES ASSUME NEW n \in NodeIds, NEW m \in NodeIds
             PROVE  /\ h.seen[n] <= h.clock
                    /\ (n \in h.nodes) <=> (h.seen[n] > 0)
                    /\ n \in h.nodes /\ n # m => h.seen[n] # h.seen[m]
  BY DEF Ranked, h
<1> QED
  BY <1>1, <1>2 DEF Ranked

-----------------------------------------------------------------------------
(* Insert and Seat *)

\* A created node has the newest recency; nothing else moves.
LEMMA InsertKeeps ==
    ASSUME NEW g, Typed(g), Linked(g), Ranked(g), NEW n \in NodeIds
    PROVE  LET h == Insert(g, n) IN
           /\ Typed(h) /\ Linked(h) /\ Ranked(h)
           /\ g.nodes \subseteq h.nodes /\ h.made = g.made
           /\ \A v \in g.nodes : g.seen[v] <= h.seen[v]
<1> DEFINE h == Insert(g, n)
<1>1. CASE n \in g.nodes
  <2>1. h = g
    BY <1>1 DEF Insert
  <2>2. \A v \in g.nodes : g.seen[v] <= g.seen[v]
    BY DEF Typed, Graphs
  <2> QED
    BY <2>1, <2>2
<1>2. CASE n \notin g.nodes
  <2>1. /\ h.nodes = g.nodes \cup {n} /\ h.edges = g.edges /\ h.made = g.made
        /\ h.out = g.out /\ h.in = g.in /\ h.clock = g.clock + 1
        /\ h.seen = [g.seen EXCEPT ![n] = g.clock + 1]
    BY <1>2 DEF Insert, Touch, Typed, Graphs
  <2>2. h \in Graphs
    <3>1. h = [nodes |-> g.nodes \cup {n}, edges |-> g.edges, made |-> g.made,
               out |-> g.out, in |-> g.in,
               seen |-> [g.seen EXCEPT ![n] = g.clock + 1], clock |-> g.clock + 1]
      BY <1>2 DEF Insert, Touch, Typed, Graphs
    <3>2. /\ [g.seen EXCEPT ![n] = g.clock + 1] \in [NodeIds -> Nat]
          /\ g.clock + 1 \in Nat
      BY DEF Typed, Graphs
    <3> QED
      BY <3>1, <3>2 DEF Typed, Graphs
  <2>3. g.clock \in Nat /\ g.seen \in [NodeIds -> Nat] /\ g.nodes \subseteq NodeIds
    BY DEF Typed, Graphs
  <2> HIDE DEF h
  <2>4. Typed(h)
    BY <2>1, <2>2 DEF Typed
  <2>5. Linked(h)
    BY <2>1 DEF Linked
  <2>6. Ranked(h)
    BY <2>1, <2>3 DEF Ranked
  <2>7. \A v \in g.nodes : g.seen[v] <= h.seen[v]
    BY <2>1, <2>3 DEF Ranked
  <2> QED
    BY <2>1, <2>4, <2>5, <2>6, <2>7 DEF h
<1> QED
  BY <1>1, <1>2

\* A touch advances the clock and gives it to the node.
LEMMA TouchFields ==
    ASSUME NEW g \in Graphs, NEW n \in NodeIds
    PROVE  /\ Touch(g, n) \in Graphs
           /\ Touch(g, n).nodes = g.nodes /\ Touch(g, n).edges = g.edges
           /\ Touch(g, n).made = g.made
           /\ Touch(g, n).out = g.out /\ Touch(g, n).in = g.in
           /\ Touch(g, n).clock = g.clock + 1
           /\ Touch(g, n).seen = [g.seen EXCEPT ![n] = g.clock + 1]
<1>1. [g.seen EXCEPT ![n] = g.clock + 1] \in [NodeIds -> Nat] /\ g.clock + 1 \in Nat
  BY DEF Graphs
<1>2. Touch(g, n) \in Graphs
  BY <1>1 DEF Touch, Graphs
<1> QED
  BY <1>2 DEF Touch, Graphs

\* h is g with the edge (s, d, t) seated in it.
Seated(g, h, s, d, t) ==
    /\ h \in Graphs
    /\ h.nodes = g.nodes \cup {s, d}
    /\ h.edges = g.edges \cup {Len(g.made) + 1}
    /\ h.made = Append(g.made, [src |-> s, dst |-> d, ts |-> t])
    /\ h.out = [g.out EXCEPT ![s] = @ \cup {Len(g.made) + 1}]
    /\ h.in = [g.in EXCEPT ![d] = @ \cup {Len(g.made) + 1}]
    /\ h.clock = g.clock + 2
    /\ h.seen = [[g.seen EXCEPT ![s] = g.clock + 1] EXCEPT ![d] = g.clock + 2]

\* The fields of the graph with a new edge in it.
LEMMA SeatFields ==
    ASSUME NEW g, Typed(g), NEW s \in NodeIds, NEW d \in NodeIds, NEW t \in Times,
           Len(g.made) < MaxEdges
    PROVE  Seated(g, Seat(g, s, d, t), s, d, t)
<1> DEFINE e == Len(g.made) + 1
           r == [src |-> s, dst |-> d, ts |-> t]
           k == [g EXCEPT !.nodes = @ \cup {s, d},
                          !.edges = @ \cup {e},
                          !.made = Append(@, r),
                          !.out[s] = @ \cup {e},
                          !.in[d] = @ \cup {e}]
<1>1. Seat(g, s, d, t) = Touch(Touch(k, s), d)
  BY DEF Seat
<1>2. g \in Graphs
  BY DEF Typed
<1>3. e \in EdgeIds
  BY <1>2, GraphAssumption DEF EdgeIds, Graphs
<1>4. r \in EdgeRecs
  BY DEF EdgeRecs
<1> HIDE DEF e, r
<1>5. /\ Append(g.made, r) \in Seq(EdgeRecs)
      /\ [g.out EXCEPT ![s] = @ \cup {e}] \in [NodeIds -> SUBSET EdgeIds]
      /\ [g.in EXCEPT ![d] = @ \cup {e}] \in [NodeIds -> SUBSET EdgeIds]
      /\ g.nodes \cup {s, d} \subseteq NodeIds /\ g.edges \cup {e} \subseteq EdgeIds
  BY <1>2, <1>3, <1>4 DEF Graphs
<1>6. k \in Graphs
  BY <1>2, <1>5 DEF Graphs
<1>7. /\ k.nodes = g.nodes \cup {s, d} /\ k.edges = g.edges \cup {e}
      /\ k.made = Append(g.made, r)
      /\ k.out = [g.out EXCEPT ![s] = @ \cup {e}]
      /\ k.in = [g.in EXCEPT ![d] = @ \cup {e}]
      /\ k.seen = g.seen /\ k.clock = g.clock
  BY <1>2 DEF Graphs
<1> HIDE DEF k
<1>8. /\ Touch(k, s) \in Graphs
      /\ Touch(k, s).nodes = k.nodes /\ Touch(k, s).edges = k.edges
      /\ Touch(k, s).made = k.made
      /\ Touch(k, s).out = k.out /\ Touch(k, s).in = k.in
      /\ Touch(k, s).clock = k.clock + 1
      /\ Touch(k, s).seen = [k.seen EXCEPT ![s] = k.clock + 1]
  BY <1>6, TouchFields
<1> DEFINE l == Touch(k, s)
<1>9. /\ Touch(l, d) \in Graphs
      /\ Touch(l, d).nodes = l.nodes /\ Touch(l, d).edges = l.edges
      /\ Touch(l, d).made = l.made
      /\ Touch(l, d).out = l.out /\ Touch(l, d).in = l.in
      /\ Touch(l, d).clock = l.clock + 1
      /\ Touch(l, d).seen = [l.seen EXCEPT ![d] = l.clock + 1]
  BY <1>8, TouchFields
<1>10. g.clock + 1 + 1 = g.clock + 2
  BY <1>2 DEF Graphs
<1> QED
  BY <1>1, <1>7, <1>8, <1>9, <1>10 DEF e, r, Seated

\* A new edge is in both lists, its endpoints are live and the newest.
LEMMA SeatKeeps ==
    ASSUME NEW g, Typed(g), Linked(g), Ranked(g),
           NEW s \in NodeIds, NEW d \in NodeIds, NEW t \in Times,
           Len(g.made) < MaxEdges
    PROVE  LET h == Seat(g, s, d, t) IN
           /\ Typed(h) /\ Linked(h) /\ Ranked(h)
           /\ g.nodes \subseteq h.nodes
           /\ \A v \in g.nodes : g.seen[v] <= h.seen[v]
<1> DEFINE e == Len(g.made) + 1
           r == [src |-> s, dst |-> d, ts |-> t]
           h == Seat(g, s, d, t)
<1>1. /\ h \in Graphs
      /\ h.nodes = g.nodes \cup {s, d} /\ h.edges = g.edges \cup {e}
      /\ h.made = Append(g.made, r)
      /\ h.out = [g.out EXCEPT ![s] = @ \cup {e}]
      /\ h.in = [g.in EXCEPT ![d] = @ \cup {e}]
      /\ h.clock = g.clock + 2
      /\ h.seen = [[g.seen EXCEPT ![s] = g.clock + 1] EXCEPT ![d] = g.clock + 2]
  <2>1. Seated(g, h, s, d, t)
    BY SeatFields
  <2> HIDE DEF h
  <2> QED
    BY <2>1 DEF Seated
<1> HIDE DEF h
<1>2. /\ g.nodes \subseteq NodeIds /\ g.edges \subseteq 1..Len(g.made)
      /\ g.made \in Seq(EdgeRecs) /\ r \in EdgeRecs /\ Len(g.made) \in Nat
      /\ g.out \in [NodeIds -> SUBSET EdgeIds] /\ g.in \in [NodeIds -> SUBSET EdgeIds]
      /\ g.seen \in [NodeIds -> Nat] /\ g.clock \in Nat
  BY DEF Typed, Graphs, EdgeRecs
<1>3. /\ Len(h.made) = e /\ h.made[e] = r
      /\ \A x \in g.edges : x # e /\ h.made[x] = g.made[x]
  BY <1>1, <1>2
<1>4. Typed(h)
  <2>1. e <= MaxEdges
    BY <1>2, GraphAssumption
  <2>2. h.edges \subseteq 1..Len(h.made)
    BY <1>1, <1>2, <1>3
  <2> QED
    BY <1>1, <1>3, <2>1, <2>2 DEF Typed
<1> HIDE DEF e, r
<1>5. h.made[e].src = s /\ h.made[e].dst = d
  BY <1>3 DEF r
<1>6. Linked(h)
  <2>1. ASSUME NEW x \in h.edges
        PROVE  {h.made[x].src, h.made[x].dst} \subseteq h.nodes
    <3>1. CASE x = e
      BY <1>1, <1>5, <3>1
    <3>2. CASE x \in g.edges
      <4>1. g.made[x].src \in g.nodes /\ g.made[x].dst \in g.nodes
        BY <3>2 DEF Linked
      <4>2. h.made[x] = g.made[x]
        BY <1>3, <3>2
      <4> QED
        BY <1>1, <4>1, <4>2
    <3> QED
      BY <1>1, <3>1, <3>2
  <2>2. ASSUME NEW n \in NodeIds
        PROVE  /\ h.out[n] = {x \in h.edges : h.made[x].src = n}
               /\ h.in[n] = {x \in h.edges : h.made[x].dst = n}
    <3>1. /\ g.out[n] = {x \in g.edges : g.made[x].src = n}
          /\ g.in[n] = {x \in g.edges : g.made[x].dst = n}
      BY DEF Linked
    <3>2. /\ h.out[n] = IF n = s THEN g.out[n] \cup {e} ELSE g.out[n]
          /\ h.in[n] = IF n = d THEN g.in[n] \cup {e} ELSE g.in[n]
      BY <1>1, <1>2
    <3>3. h.edges = g.edges \cup {e} /\ \A x \in g.edges : x # e /\ h.made[x] = g.made[x]
      BY <1>1, <1>3
    <3>4. h.out[n] = {x \in h.edges : h.made[x].src = n}
      BY <1>5, <3>1, <3>2, <3>3
    <3>5. h.in[n] = {x \in h.edges : h.made[x].dst = n}
      BY <1>5, <3>1, <3>2, <3>3
    <3> QED
      BY <3>4, <3>5
  <2> QED
    BY <2>1, <2>2 DEF Linked
<1>7. \A n \in NodeIds : h.seen[n] = IF n = d THEN g.clock + 2
                                     ELSE IF n = s THEN g.clock + 1 ELSE g.seen[n]
  BY <1>1, <1>2
<1>8. Ranked(h)
  <2> SUFFICES ASSUME NEW n \in NodeIds, NEW m \in NodeIds
               PROVE  /\ h.seen[n] <= h.clock
                      /\ (n \in h.nodes) <=> (h.seen[n] > 0)
                      /\ n \in h.nodes /\ n # m => h.seen[n] # h.seen[m]
    BY DEF Ranked
  <2>1. /\ g.seen[n] \in Nat /\ g.seen[m] \in Nat
        /\ g.seen[n] <= g.clock /\ g.seen[m] <= g.clock
        /\ (n \in g.nodes) <=> (g.seen[n] > 0)
        /\ n \in g.nodes /\ n # m => g.seen[n] # g.seen[m]
    BY <1>2 DEF Ranked
  <2> QED
    BY <1>1, <1>2, <1>7, <2>1
<1>9. \A v \in g.nodes : g.seen[v] <= h.seen[v]
  BY <1>2, <1>7 DEF Ranked
<1> QED
  BY <1>1, <1>4, <1>6, <1>8, <1>9 DEF h

-----------------------------------------------------------------------------
(* Eviction *)

\* There are finitely many nodes, hence finitely many above any of them.
LEMMA NodesFinite ==
    ASSUME NEW g, Typed(g)
    PROVE  /\ IsFiniteSet(g.nodes) /\ Cardinality(g.nodes) \in Nat
           /\ \A v \in NodeIds : /\ IsFiniteSet(Above(g, v))
                                 /\ Cardinality(Above(g, v)) \in Nat
<1>1. IsFiniteSet(g.nodes)
  BY GraphAssumption, FS_Subset DEF Typed, Graphs
<1>2. ASSUME NEW v \in NodeIds PROVE IsFiniteSet(Above(g, v))
  BY <1>1, FS_Subset DEF Above
<1> QED
  BY <1>1, <1>2, FS_CardinalityType

\* A node touched later has fewer nodes above it.
LEMMA AboveShrinks ==
    ASSUME NEW g, Typed(g), NEW v \in g.nodes, NEW w \in g.nodes, g.seen[v] < g.seen[w]
    PROVE  Cardinality(Above(g, w)) < Cardinality(Above(g, v))
<1>1. v \in NodeIds /\ w \in NodeIds /\ g.seen \in [NodeIds -> Nat] /\ g.nodes \subseteq NodeIds
  BY DEF Typed, Graphs
<1>2. Above(g, w) \in SUBSET Above(g, v)
  BY <1>1 DEF Above
<1>3. w \in Above(g, v) /\ w \notin Above(g, w)
  BY <1>1 DEF Above
<1>4. /\ IsFiniteSet(Above(g, v))
      /\ Cardinality(Above(g, v)) \in Nat /\ Cardinality(Above(g, w)) \in Nat
  BY <1>1, NodesFinite
<1>5. Cardinality(Above(g, w)) <= Cardinality(Above(g, v))
  BY <1>2, <1>4, FS_Subset
<1>6. Cardinality(Above(g, v)) = Cardinality(Above(g, w)) => Above(g, v) = Above(g, w)
  BY <1>2, <1>4, FS_Subset
<1> QED
  BY <1>3, <1>4, <1>5, <1>6

\* Whatever overflows was touched before whatever stays.
LEMMA OverflowIsOldest ==
    ASSUME NEW g, Typed(g), Ranked(g), NEW v \in Overflow(g),
           NEW w \in g.nodes \ Overflow(g)
    PROVE  v \in g.nodes /\ g.seen[v] < g.seen[w]
<1>1. /\ v \in g.nodes /\ w \in g.nodes
      /\ Cardinality(Above(g, v)) >= maxNodes
      /\ ~(Cardinality(Above(g, w)) >= maxNodes)
  BY DEF Overflow, Above
<1>2. /\ v \in NodeIds /\ w \in NodeIds /\ g.seen[v] \in Nat /\ g.seen[w] \in Nat
      /\ v # w => g.seen[v] # g.seen[w]
  BY <1>1 DEF Typed, Graphs, Ranked
<1>3. /\ Cardinality(Above(g, v)) \in Nat /\ Cardinality(Above(g, w)) \in Nat
  BY <1>2, NodesFinite
<1>4. ~(g.seen[w] < g.seen[v])
  BY <1>1, <1>3, AboveShrinks, GraphAssumption
<1> QED
  BY <1>1, <1>2, <1>4

\* The survivors have distinct ranks below the bound, so they fit it.
LEMMA EvictBounded ==
    ASSUME NEW g, Typed(g), Ranked(g)
    PROVE  Bounded(Evict(g))
<1> DEFINE S == g.nodes \ Overflow(g)
<1>1. Evict(g).nodes = S
  BY DEF Evict, Remove, Typed, Graphs
<1>2. IsFiniteSet(S) /\ Cardinality(S) \in Nat /\ Cardinality(g.nodes) \in Nat
  <2>1. IsFiniteSet(g.nodes) /\ S \in SUBSET g.nodes
    BY NodesFinite
  <2> QED
    BY <2>1, FS_Subset, FS_CardinalityType
<1>3. CASE maxNodes = 0
  BY <1>3 DEF Bounded
<1>4. CASE Cardinality(g.nodes) <= maxNodes
  <2>1. S = g.nodes
    BY <1>4 DEF Overflow
  <2> QED
    BY <1>1, <1>4, <2>1 DEF Bounded
<1>5. CASE maxNodes > 0 /\ ~(Cardinality(g.nodes) <= maxNodes)
  <2> DEFINE rank == [w \in S |-> Cardinality(Above(g, w))]
  <2>1. \A w \in S : w \in NodeIds /\ Cardinality(Above(g, w)) \in Nat
    BY NodesFinite DEF Typed, Graphs
  <2>2. \A w \in S : ~(Cardinality(Above(g, w)) >= maxNodes)
    <3>1. Overflow(g) = {v \in g.nodes : Cardinality(Above(g, v)) >= maxNodes}
      BY <1>5 DEF Overflow, Above
    <3> QED
      BY <3>1
  <2>3. rank \in [S -> 0..(maxNodes - 1)]
    BY <2>1, <2>2, GraphAssumption
  <2> DEFINE T == 0..(maxNodes - 1)
  <2>4. IsFiniteSet(T) /\ Cardinality(T) = maxNodes
    <3>1. 0 \in Int /\ maxNodes - 1 \in Int /\ ~(0 > maxNodes - 1)
      BY <1>5, GraphAssumption
    <3>2. /\ IsFiniteSet(T)
          /\ Cardinality(T) = IF 0 > maxNodes - 1 THEN 0 ELSE (maxNodes - 1) - 0 + 1
      BY <3>1, FS_Interval
    <3>3. (maxNodes - 1) - 0 + 1 = maxNodes
      BY GraphAssumption
    <3> QED
      BY <3>1, <3>2, <3>3
  <2>5. \A x, y \in S : rank[x] = rank[y] => x = y
    <3> SUFFICES ASSUME NEW x \in S, NEW y \in S, rank[x] = rank[y], x # y
                 PROVE  FALSE
      OBVIOUS
    <3>1. g.seen[x] \in Nat /\ g.seen[y] \in Nat /\ g.seen[x] # g.seen[y]
      BY <2>1 DEF Typed, Graphs, Ranked
    <3>2. /\ Cardinality(Above(g, x)) = Cardinality(Above(g, y))
          /\ Cardinality(Above(g, x)) \in Nat
      BY <2>1 DEF rank
    <3>3. g.seen[x] < g.seen[y] \/ g.seen[y] < g.seen[x]
      BY <3>1
    <3> QED
      BY <3>2, <3>3, AboveShrinks
  <2> HIDE DEF rank, S, T
  <2>6. ~(maxNodes < Cardinality(S))
    <3> SUFFICES ASSUME Cardinality(T) < Cardinality(S) PROVE FALSE
      BY <2>4
    <3>1. rank \in [S -> T]
      BY <2>3 DEF T
    <3>2. \E x, y \in S : x # y /\ rank[x] = rank[y]
      BY <1>2, <2>4, <3>1, FS_PigeonHole
    <3> QED
      BY <2>5, <3>2
  <2> QED
    BY <1>1, <1>2, <2>6, GraphAssumption DEF Bounded
<1> QED
  BY <1>3, <1>4, <1>5, GraphAssumption

\* A bound of two or more spares both endpoints of a new edge, and with them
\* the edge.
LEMMA NewEdgeStays ==
    ASSUME NEW g, Typed(g), Linked(g), Ranked(g),
           NEW s \in NodeIds, NEW d \in NodeIds, NEW t \in Times,
           Len(g.made) < MaxEdges, maxNodes # 1
    PROVE  Len(g.made) + 1 \in WithEdge(g, s, d, t).edges
<1> DEFINE e == Len(g.made) + 1
           h == Seat(g, s, d, t)
<1>1. /\ Typed(h) /\ Linked(h) /\ Ranked(h)
  BY SeatKeeps
<1>2. /\ h.nodes = g.nodes \cup {s, d} /\ h.edges = g.edges \cup {e}
      /\ h.made = Append(g.made, [src |-> s, dst |-> d, ts |-> t])
      /\ h.clock = g.clock + 2
      /\ h.seen = [[g.seen EXCEPT ![s] = g.clock + 1] EXCEPT ![d] = g.clock + 2]
  <2>1. Seated(g, h, s, d, t)
    BY SeatFields
  <2> HIDE DEF h
  <2> QED
    BY <2>1 DEF Seated
<1>3. h.made[e].src = s /\ h.made[e].dst = d
  <2>1. g.made \in Seq(EdgeRecs)
    BY DEF Typed, Graphs
  <2>a. [src |-> s, dst |-> d, ts |-> t] \in EdgeRecs
    BY DEF EdgeRecs
  <2>2. Append(g.made, [src |-> s, dst |-> d, ts |-> t])[e]
          = [src |-> s, dst |-> d, ts |-> t]
    BY <2>1, <2>a
  <2> QED
    BY <1>2, <2>2
<1>4. /\ g.clock \in Nat /\ g.seen \in [NodeIds -> Nat]
      /\ \A n \in NodeIds : g.seen[n] <= g.clock
  BY DEF Typed, Graphs, Ranked
<1> HIDE DEF h, e
<1>5. Above(h, d) = {} /\ Above(h, s) \in SUBSET {d}
  <2>1. h.nodes \subseteq NodeIds
    BY <1>1 DEF Typed, Graphs
  <2>a. \A n \in NodeIds : h.seen[n] = IF n = d THEN g.clock + 2
                                       ELSE IF n = s THEN g.clock + 1 ELSE g.seen[n]
    BY <1>2, <1>4
  <2>2. \A n \in NodeIds : /\ h.seen[n] <= g.clock + 2
                           /\ n # d => h.seen[n] <= g.clock + 1
    BY <1>4, <2>a
  <2>3. h.seen[d] = g.clock + 2 /\ h.seen[s] >= g.clock + 1
    BY <1>4, <2>a
  <2>4. \A n \in NodeIds : h.seen[n] \in Nat
    BY <1>1 DEF Typed, Graphs
  <2> QED
    BY <1>4, <2>1, <2>2, <2>3, <2>4 DEF Above
<1>6. Cardinality(Above(h, d)) = 0 /\ Cardinality(Above(h, s)) \in {0, 1}
  <2>1. Cardinality({d}) = 1 /\ Cardinality({}) = 0
    BY FS_Singleton, FS_EmptySet
  <2>2. Above(h, s) = {} \/ Above(h, s) = {d}
    BY <1>5
  <2> QED
    BY <1>5, <2>1, <2>2
<1>7. s \notin Overflow(h) /\ d \notin Overflow(h)
  BY <1>6, GraphAssumption DEF Overflow, Above
<1>8. e \notin DeadEdges(h, Overflow(h))
  <2> SUFFICES ASSUME NEW v \in Overflow(h), e \in h.out[v] \cup h.in[v]
               PROVE  FALSE
    BY DEF DeadEdges
  <2>1. v \in NodeIds
    BY <1>1 DEF Overflow, Typed, Graphs
  <2>2. v = s \/ v = d
    BY <1>1, <1>3, <2>1 DEF Linked
  <2> QED
    BY <1>7, <2>2
<1>9. Evict(h).edges = h.edges \ DeadEdges(h, Overflow(h))
  BY <1>1 DEF Evict, Remove, Typed, Graphs
<1> QED
  BY <1>2, <1>8, <1>9 DEF WithEdge, h, e

\* The three parts that any operation keeps, of one graph.
Good(g) == Typed(g) /\ Linked(g) /\ Ranked(g)

\* Eviction keeps a good graph good.
LEMMA EvictGood ==
    ASSUME NEW g, Good(g)
    PROVE  Good(Evict(g))
  BY RemoveTyped, RemoveLinked, RemoveRanked DEF Evict, Good

\* What an insert that evicts takes out was touched before what it keeps.
LEMMA EvictOldest ==
    ASSUME NEW g, Good(g), NEW h, Good(h), g.nodes \subseteq h.nodes,
           \A v \in g.nodes : g.seen[v] <= h.seen[v],
           NEW v \in g.nodes \ Evict(h).nodes, NEW w \in Evict(h).nodes
    PROVE  g.seen[v] < Evict(h).seen[w]
<1>1. /\ Evict(h).nodes = h.nodes \ Overflow(h)
      /\ Evict(h).seen = [n \in NodeIds |-> IF n \in Overflow(h) THEN 0 ELSE h.seen[n]]
  BY DEF Evict, Remove, Good, Typed, Graphs
<1>2. v \in Overflow(h) /\ w \in h.nodes \ Overflow(h)
  BY <1>1
<1>3. h.seen[v] < h.seen[w]
  BY <1>2, OverflowIsOldest DEF Good
<1>4. /\ v \in NodeIds /\ w \in NodeIds
      /\ g.seen[v] \in Nat /\ h.seen[v] \in Nat /\ h.seen[w] \in Nat
  BY <1>2 DEF Good, Typed, Graphs
<1>5. Evict(h).seen[w] = h.seen[w]
  BY <1>1, <1>2, <1>4
<1> QED
  BY <1>3, <1>4, <1>5

-----------------------------------------------------------------------------
(* What a step makes of the graph *)

\* Removing nodes keeps the invariants, the bound included.
LEMMA PruneStep ==
    ASSUME NEW g, Good(g), Bounded(g), NEW V
    PROVE  Good(Remove(g, V)) /\ Bounded(Remove(g, V))
<1>1. Good(Remove(g, V))
  BY RemoveTyped, RemoveLinked, RemoveRanked DEF Good
<1>2. Remove(g, V).nodes \in SUBSET g.nodes
  BY DEF Remove, Good, Typed, Graphs
<1>3. IsFiniteSet(g.nodes) /\ Cardinality(g.nodes) \in Nat
  BY NodesFinite DEF Good
<1>4. /\ Cardinality(Remove(g, V).nodes) <= Cardinality(g.nodes)
      /\ Cardinality(Remove(g, V).nodes) \in Nat
  BY <1>2, <1>3, FS_Subset, FS_CardinalityType
<1> QED
  BY <1>1, <1>3, <1>4, GraphAssumption DEF Bounded

\* What a step makes of the graph, whoever takes it: nothing, the creation of a
\* node, an edge, or a sweep.
Moves(g, h) ==
    \/ h = g
    \/ \E n \in NodeIds : h = Evict(Insert(g, n))
    \/ \E s, d \in NodeIds, t \in Times :
          Len(g.made) < MaxEdges /\ h = Evict(Seat(g, s, d, t))
    \/ \E c \in Times : h = Remove(g, Aged(g, c))

\* Every step keeps the invariants.
LEMMA MoveKeeps ==
    ASSUME NEW g, NEW h, Good(g), Bounded(g), Moves(g, h)
    PROVE  Good(h) /\ Bounded(h)
<1>1. ASSUME NEW n \in NodeIds, h = Evict(Insert(g, n)) PROVE Good(h) /\ Bounded(h)
  <2>1. Good(Insert(g, n))
    BY InsertKeeps DEF Good
  <2> QED
    BY <1>1, <2>1, EvictGood, EvictBounded DEF Good
<1>2. ASSUME NEW s \in NodeIds, NEW d \in NodeIds, NEW t \in Times,
             Len(g.made) < MaxEdges, h = Evict(Seat(g, s, d, t))
      PROVE  Good(h) /\ Bounded(h)
  <2>1. Good(Seat(g, s, d, t))
    BY <1>2, SeatKeeps DEF Good
  <2> QED
    BY <1>2, <2>1, EvictGood, EvictBounded DEF Good
<1>3. ASSUME NEW c \in Times, h = Remove(g, Aged(g, c)) PROVE Good(h) /\ Bounded(h)
  BY <1>3, PruneStep
<1> QED
  BY <1>1, <1>2, <1>3 DEF Moves

\* A step that touches a node removes only what was touched before all it keeps.
LEMMA MoveEvictsOldest ==
    ASSUME NEW g, NEW h, Good(g), Moves(g, h), h.clock > g.clock,
           NEW v \in g.nodes \ h.nodes, NEW w \in h.nodes
    PROVE  g.seen[v] < h.seen[w]
<1>1. g.clock \in Nat
  BY DEF Good, Typed, Graphs
<1>2. ASSUME NEW n \in NodeIds, h = Evict(Insert(g, n)) PROVE g.seen[v] < h.seen[w]
  <2>1. /\ Good(Insert(g, n)) /\ g.nodes \subseteq Insert(g, n).nodes
        /\ \A x \in g.nodes : g.seen[x] <= Insert(g, n).seen[x]
    BY InsertKeeps DEF Good
  <2> QED
    BY <1>2, <2>1, EvictOldest
<1>3. ASSUME NEW s \in NodeIds, NEW d \in NodeIds, NEW t \in Times,
             Len(g.made) < MaxEdges, h = Evict(Seat(g, s, d, t))
      PROVE  g.seen[v] < h.seen[w]
  <2>1. /\ Good(Seat(g, s, d, t)) /\ g.nodes \subseteq Seat(g, s, d, t).nodes
        /\ \A x \in g.nodes : g.seen[x] <= Seat(g, s, d, t).seen[x]
    BY <1>3, SeatKeeps DEF Good
  <2> QED
    BY <1>3, <2>1, EvictOldest
<1>4. ASSUME NEW c \in Times, h = Remove(g, Aged(g, c)) PROVE FALSE
  <2>1. h.clock = g.clock
    BY <1>4 DEF Remove, Good, Typed, Graphs
  <2> QED
    BY <1>1, <2>1
<1>5. h # g
  BY <1>1
<1> QED
  BY <1>2, <1>3, <1>4, <1>5 DEF Moves

\* An edge just made is in the graph that its step leaves.
LEMMA MoveKeepsNew ==
    ASSUME NEW g, NEW h, Good(g), Moves(g, h), Len(h.made) > Len(g.made), maxNodes # 1
    PROVE  Len(h.made) \in h.edges
<1>1. Len(g.made) \in Nat
  BY DEF Good, Typed, Graphs
<1>2. ASSUME NEW n \in NodeIds, h = Evict(Insert(g, n)) PROVE FALSE
  <2>1. Insert(g, n).made = g.made /\ Good(Insert(g, n))
    BY InsertKeeps DEF Good
  <2>2. Evict(Insert(g, n)).made = Insert(g, n).made
    BY <2>1 DEF Evict, Remove, Good, Typed, Graphs
  <2> QED
    BY <1>1, <1>2, <2>1, <2>2
<1>3. ASSUME NEW s \in NodeIds, NEW d \in NodeIds, NEW t \in Times,
             Len(g.made) < MaxEdges, h = Evict(Seat(g, s, d, t))
      PROVE  Len(h.made) \in h.edges
  <2>1. Seated(g, Seat(g, s, d, t), s, d, t) /\ Good(Seat(g, s, d, t))
    BY <1>3, SeatFields, SeatKeeps DEF Good
  <2>2. h.made = Seat(g, s, d, t).made
    BY <1>3, <2>1 DEF Evict, Remove, Good, Typed, Graphs
  <2>3. Len(Seat(g, s, d, t).made) = Len(g.made) + 1
    <3>1. g.made \in Seq(EdgeRecs) /\ [src |-> s, dst |-> d, ts |-> t] \in EdgeRecs
      BY DEF Good, Typed, Graphs, EdgeRecs
    <3>2. Seat(g, s, d, t).made = Append(g.made, [src |-> s, dst |-> d, ts |-> t])
      BY <2>1 DEF Seated
    <3> QED
      BY <3>1, <3>2
  <2>4. Len(g.made) + 1 \in h.edges
    BY <1>3, NewEdgeStays DEF Good, WithEdge
  <2> QED
    BY <2>2, <2>3, <2>4
<1>4. ASSUME NEW c \in Times, h = Remove(g, Aged(g, c)) PROVE FALSE
  <2>1. h.made = g.made
    BY <1>4 DEF Remove, Good, Typed, Graphs
  <2> QED
    BY <1>1, <2>1
<1>5. h # g
  BY <1>1
<1> QED
  BY <1>2, <1>3, <1>4, <1>5 DEF Moves

\* A sweep spares every edge at or after its cutoff, and every node without edges.
LEMMA SweepSpares ==
    ASSUME NEW g, Good(g), NEW c \in Times
    PROVE  LET h == Remove(g, Aged(g, c)) IN
           /\ \A e \in g.edges : g.made[e].ts >= c => e \in h.edges
           /\ \A n \in g.nodes : g.out[n] \cup g.in[n] = {} => n \in h.nodes
<1> DEFINE V == Aged(g, c)
           h == Remove(g, V)
<1>1. h.nodes = g.nodes \ V /\ h.edges = g.edges \ DeadEdges(g, V)
  BY DEF Remove, Good, Typed, Graphs
<1>2. ASSUME NEW e \in g.edges, g.made[e].ts >= c
      PROVE  e \notin DeadEdges(g, V)
  <2>1. g.made \in Seq(EdgeRecs) /\ e \in 1..Len(g.made)
    BY DEF Good, Typed, Graphs
  <2>2. g.made[e] \in EdgeRecs
    BY <2>1
  <2>3. g.made[e].ts \in Times
    BY <2>2 DEF EdgeRecs
  <2>4. g.made[e].ts \in Nat /\ c \in Nat
    BY <2>3, GraphAssumption
  <2> QED
    BY <1>2, <2>4 DEF DeadEdges, Aged
<1>3. \A n \in V : g.out[n] \cup g.in[n] # {}
  BY DEF Aged
<1> QED
  BY <1>1, <1>2, <1>3

\* The invariants of the variable are those of the record.
GraphInv == WellLinked /\ RecencyTotal /\ WithinBound

LEMMA GraphInvParts ==
    /\ GraphInv <=> Linked(graph) /\ Ranked(graph) /\ Bounded(graph)
    /\ GraphInv' <=> Linked(graph') /\ Ranked(graph') /\ Bounded(graph')
BY DEF GraphInv, WellLinked, RecencyTotal, WithinBound, Linked, Ranked, Bounded

-----------------------------------------------------------------------------
(* The graph as an object that anybody calls *)

CONSTANT MaxTouch
VARIABLE known

Object == INSTANCE ProvGraph

ObjectInv == Object!TypeOK /\ GraphInv

\* What each call does, in the operations the lemmas are about.
LEMMA ObjectOps ==
    ASSUME NEW g, NEW n, NEW s, NEW d, NEW t
    PROVE  /\ Object!WithNode(g, n) = WithNode(g, n)
           /\ Object!WithEdge(g, s, d, t) = WithEdge(g, s, d, t)
           /\ Object!Remove(g, Object!Aged(g, t)) = Remove(g, Aged(g, t))
<1>1. \A S : Object!Cardinality(S) = Cardinality(S)
  BY DEF Object!Cardinality, Cardinality
<1>2. Object!Aged(g, t) = Aged(g, t)
  BY DEF Object!Aged, Aged
<1>3. \A h, W : Object!Remove(h, W) = Remove(h, W)
  BY DEF Object!Remove, Remove, Object!DeadEdges, DeadEdges
<1>4. \A h : Object!Overflow(h) = Overflow(h)
  BY <1>1 DEF Object!Overflow, Overflow
<1>5. \A h : Object!Evict(h) = Evict(h)
  BY <1>3, <1>4 DEF Object!Evict, Evict
<1>6. Object!Insert(g, n) = Insert(g, n)
  BY DEF Object!Insert, Insert, Object!Touch, Touch
<1>7. Object!WithNode(g, n) = WithNode(g, n)
  BY <1>5, <1>6 DEF Object!WithNode, WithNode
<1>8. Object!Seat(g, s, d, t) = Seat(g, s, d, t)
  BY DEF Object!Seat, Seat, Object!Touch, Touch
<1>9. Object!WithEdge(g, s, d, t) = WithEdge(g, s, d, t)
  BY <1>5, <1>8 DEF Object!WithEdge, WithEdge
<1> QED
  BY <1>2, <1>3, <1>7, <1>9

\* The object's type is that of the record.
LEMMA ObjectTyped ==
    /\ Object!TypeOK <=> Typed(graph) /\ known \subseteq NodeIds
    /\ Object!TypeOK' <=> Typed(graph') /\ known' \subseteq NodeIds
<1>1. Object!Graphs = Graphs
  BY DEF Object!Graphs, Graphs, Object!EdgeIds, EdgeIds, Object!EdgeRecs, EdgeRecs
<1> QED
  BY <1>1 DEF Object!TypeOK, Typed

\* Every call is one of the moves.
LEMMA ObjectMoves ==
    ASSUME [Object!Next]_Object!vars, known \subseteq NodeIds
    PROVE  Moves(graph, graph') /\ known' \subseteq NodeIds
<1>1. ASSUME NEW n \in NodeIds, Object!FindOrCreateNode(n)
      PROVE  Moves(graph, graph') /\ known' \subseteq NodeIds
  <2>1. graph' = WithNode(graph, n) /\ known' = known \cup {n}
    BY <1>1, ObjectOps DEF Object!FindOrCreateNode
  <2>2. graph' = graph \/ graph' = Evict(Insert(graph, n))
    BY <2>1 DEF WithNode
  <2> QED
    BY <2>1, <2>2 DEF Moves
<1>2. ASSUME NEW s \in NodeIds, NEW d \in NodeIds, NEW t \in Times, Object!AppendEdge(s, d, t)
      PROVE  Moves(graph, graph') /\ known' \subseteq NodeIds
  <2>1. /\ graph' = WithEdge(graph, s, d, t) /\ known' = known
        /\ Len(graph.made) < MaxEdges
    BY <1>2, ObjectOps DEF Object!AppendEdge
  <2> QED
    BY <2>1 DEF Moves, WithEdge
<1>3. ASSUME NEW c \in Times, Object!PruneOlderThan(c)
      PROVE  Moves(graph, graph') /\ known' \subseteq NodeIds
  <2>1. graph' = Remove(graph, Aged(graph, c)) /\ known' = known
    BY <1>3, ObjectOps DEF Object!PruneOlderThan, Object!Prune
  <2> QED
    BY <2>1 DEF Moves
<1>4. CASE UNCHANGED Object!vars
  BY <1>4 DEF Object!vars, Moves
<1> QED
  BY <1>1, <1>2, <1>3, <1>4 DEF Object!Next

\* The empty graph satisfies the invariant.
LEMMA EmptyKeeps == Good(EmptyGraph) /\ Bounded(EmptyGraph)
<1>1. EmptyGraph \in Graphs
  BY GraphAssumption DEF EmptyGraph, Graphs
<1>2. Typed(EmptyGraph)
  BY <1>1, GraphAssumption DEF Typed, EmptyGraph
<1>3. Linked(EmptyGraph) /\ Ranked(EmptyGraph)
  BY DEF EmptyGraph, Linked, Ranked
<1>4. Bounded(EmptyGraph)
  BY FS_EmptySet, GraphAssumption DEF EmptyGraph, Bounded
<1> QED
  BY <1>2, <1>3, <1>4 DEF Good

\* It holds at first, and every call keeps it.
LEMMA ObjectInit == Object!Init => ObjectInv
<1> SUFFICES ASSUME Object!Init PROVE ObjectInv
  OBVIOUS
<1>1. graph = EmptyGraph /\ known = {}
  BY DEF Object!Init, Object!EmptyGraph, EmptyGraph
<1> QED
  BY <1>1, EmptyKeeps, ObjectTyped, GraphInvParts DEF ObjectInv, Good

LEMMA ObjectStep == ObjectInv /\ [Object!Next]_Object!vars => ObjectInv'
<1> SUFFICES ASSUME ObjectInv, [Object!Next]_Object!vars PROVE ObjectInv'
  OBVIOUS
<1>1. Good(graph) /\ Bounded(graph) /\ known \subseteq NodeIds
  BY ObjectTyped, GraphInvParts DEF ObjectInv, Good
<1>2. Moves(graph, graph') /\ known' \subseteq NodeIds
  BY <1>1, ObjectMoves
<1>3. Good(graph') /\ Bounded(graph')
  BY <1>1, <1>2, MoveKeeps
<1> QED
  BY <1>2, <1>3, ObjectTyped, GraphInvParts DEF ObjectInv, Good

\* What the invariant and a step give the action properties.
LEMMA ObjectGood ==
    ASSUME ObjectInv, [Object!Next]_Object!vars
    PROVE  Good(graph) /\ Moves(graph, graph')
BY ObjectTyped, GraphInvParts, ObjectMoves DEF ObjectInv, Good

\* The inductive invariant of the graph, whoever calls it.
THEOREM ObjectInvariant == Object!Spec => []ObjectInv
BY ObjectInit, ObjectStep, PTL DEF Object!Spec

\* The graph keeps its type, and the callers hold pointers to nodes.
THEOREM ObjectTypeCorrect == Object!Spec => []Object!TypeOK
<1>1. ObjectInv => Object!TypeOK
  BY DEF ObjectInv
<1> QED
  BY <1>1, ObjectInvariant, PTL

\* No edge ever dangles and no adjacency list holds a dead edge, whatever was
\* evicted while a caller held a node (graph.go:146-177, :411-428).
THEOREM LinksHold == Object!Spec => []WellLinked
<1>1. ObjectInv => WellLinked
  BY DEF ObjectInv, GraphInv
<1> QED
  BY <1>1, ObjectInvariant, PTL

\* The count bound holds after every operation, for every bound.
THEOREM BoundHolds == Object!Spec => []WithinBound
<1>1. ObjectInv => WithinBound
  BY DEF ObjectInv, GraphInv
<1> QED
  BY <1>1, ObjectInvariant, PTL

\* Recency is a total order of the live nodes.
THEOREM OrderTotal == Object!Spec => []RecencyTotal
<1>1. ObjectInv => RecencyTotal
  BY DEF ObjectInv, GraphInv
<1> QED
  BY <1>1, ObjectInvariant, PTL

\* Eviction takes the least recently touched, whichever operation triggers it.
THEOREM EvictsOldest == Object!Spec => LeastRecentFirst
<1> DEFINE A == graph'.clock > graph.clock =>
                   \A v \in graph.nodes \ graph'.nodes, w \in graph'.nodes :
                      graph.seen[v] < graph'.seen[w]
<1>1. ObjectInv /\ [Object!Next]_Object!vars => [A]_graph
  BY ObjectGood, MoveEvictsOldest
<1> QED
  BY <1>1, ObjectInvariant, PTL DEF Object!Spec, LeastRecentFirst

\* The age sweep spares every edge at or after its cutoff and every node that
\* has no edge yet (graph.go:341-405).
THEOREM SweepSparesFresh == Object!Spec => SweepKeepsFresh
<1> DEFINE A == \A c \in Times : Prune(c) =>
                  /\ \A e \in graph.edges : graph.made[e].ts >= c => e \in graph'.edges
                  /\ \A n \in graph.nodes :
                        graph.out[n] \cup graph.in[n] = {} => n \in graph'.nodes
<1>1. ObjectInv /\ [Object!Next]_Object!vars => [A]_graph
  BY ObjectGood, SweepSpares DEF Prune
<1> QED
  BY <1>1, ObjectInvariant, PTL DEF Object!Spec, SweepKeepsFresh

\* The edge AppendEdge returns is in the graph it leaves, for every bound but 1.
THEOREM AppendedEdgeKept == Object!Spec => AppendedEdgeLives
<1> DEFINE A == Len(graph'.made) > Len(graph.made) /\ maxNodes # 1
                  => Len(graph'.made) \in graph'.edges
<1>1. ObjectInv /\ [Object!Next]_Object!vars => [A]_graph
  BY ObjectGood, MoveKeepsNew
<1> QED
  BY <1>1, ObjectInvariant, PTL DEF Object!Spec, AppendedEdgeLives

-----------------------------------------------------------------------------
(* The ingest goroutine, the scorer and the sweep *)

Ops   == [op : {"node", "edge"}, s : NodeIds, d : NodeIds]
Emits == [hot : NodeIds, incident : Nat]

\* What a script may still hold, when l edges have been made.
ScriptOK(s, l) ==
    /\ s \in Seq(Ops)
    \* Every node is created for an edge that is still to come ...
    /\ \A j \in 1..Len(s) : s[j].op = "node" =>
          \E k \in 1..Len(s) : /\ j < k /\ s[k].op = "edge"
                              /\ s[j].s \in {s[k].s, s[k].d}
    \* ... of which there are at most two, and room for both.
    /\ \A j, k, m \in 1..Len(s) :
          j < k /\ k < m => "node" \in {s[j].op, s[k].op, s[m].op}
    /\ \A j \in 1..Len(s) : s[j].op = "edge" => l + 1 <= MaxEdges
    /\ \A j, k \in 1..Len(s) :
          j < k /\ s[j].op = "edge" /\ s[k].op = "edge" => l + 2 <= MaxEdges

ScriptInv == ScriptOK(script, Len(graph.made))

PhaseInv ==
    /\ pc = "idle" => updates = <<>>
    /\ pc # "materialize" => script = <<>>
    /\ pc \in {"touch", "record", "walk", "sum", "emit"} => updates # <<>>
    /\ pc # "walk" => half = None /\ frontier = {}
    /\ pc \notin {"walk", "sum"} => seenNodes = {} /\ seenEdges = {}
    /\ pc # "emit" => emit = None

\* What the scorer holds are edges that were made, and signals what it says.
DataInv ==
    /\ when \in Times /\ auth \in BOOLEAN
    /\ \A k \in 1..Len(updates) : updates[k] \in 1..Len(graph.made)
    /\ edgeScores \cup authKinds \cup seenEdges \subseteq 1..Len(graph.made)
    /\ emit \in Emits \cup {None} /\ signals \in Seq(Emits)
    /\ doomed \in [nodes : SUBSET NodeIds, edges : SUBSET EdgeIds]
    /\ sweeps \in Nat /\ sweeps <= MaxSweeps

\* While a sweep is at work an edge is missing.
SweepInv == gmu # "free" => ~Unevicted /\ sweeps > 0

StateInv == TypeOK /\ Good(graph) /\ ScriptInv /\ PhaseInv /\ DataInv /\ SweepInv

-----------------------------------------------------------------------------
(* Components, while no edge has been evicted *)

\* No set of nodes separates n from m by the edges of M.
Joined(M, n, m) ==
    \A S \in SUBSET NodeIds :
        n \in S /\ (\A k \in 1..Len(M) : (M[k].src \in S) = (M[k].dst \in S)) => m \in S

Ends(M, k) == {M[k].src, M[k].dst}

\* Node n has an edge in M.
Touched(M, n) == \E k \in 1..Len(M) : n \in Ends(M, k)

\* Edge e is still to be given to an incident.
Unnamed(e) == \E k \in 1..Len(updates) : updates[k] = e /\ ~(k = 1 /\ pc = "emit")

\* A live node has an edge, or the script will give it one.
LiveInv == \A n \in graph.nodes :
               \/ Touched(graph.made, n)
               \/ \E j \in 1..Len(script) : /\ script[j].op = "edge"
                                           /\ n \in {script[j].s, script[j].d}

\* The two ends of an edge are of one incident; only what has an edge is of
\* one; and nodes of one incident are joined.
IncidentInv ==
    /\ \A e \in 1..Len(graph.made) : ~Unnamed(e) =>
          /\ nodeIncident[graph.made[e].src] = nodeIncident[graph.made[e].dst]
          /\ nodeIncident[graph.made[e].src] # 0
    /\ \A n \in NodeIds : nodeIncident[n] # 0 => Touched(graph.made, n)
    /\ \A n, m \in NodeIds :
          nodeIncident[n] = nodeIncident[m] /\ nodeIncident[n] # 0
             => Joined(graph.made, n, m)

\* The walk has both lists of every node it is done with, the ends of every
\* edge in those, and nothing but what is joined to the edge being scored.
WalkInv ==
    LET met == seenNodes \cup frontier IN
    /\ pc \in {"walk", "sum"} => Ends(graph.made, edge) \subseteq met
    /\ \A e \in seenEdges : Ends(graph.made, e) \subseteq met
    /\ half # None => half \in seenNodes
    /\ \A n \in seenNodes : /\ graph.out[n] \subseteq seenEdges
                            /\ n # half => graph.in[n] \subseteq seenEdges
    /\ \A n \in met : Touched(graph.made, n) /\ Joined(graph.made, graph.made[edge].src, n)

\* A signal names the incident of its hot node or one absorbed into it.
Names(s) == nodeIncident[s.hot] \in 1..s.incident
NameInv  == /\ \A i \in 1..Len(signals) : Names(signals[i])
            /\ emit # None => Names(emit)

ComponentInv == Unevicted => LiveInv /\ IncidentInv /\ WalkInv /\ NameInv

-----------------------------------------------------------------------------
(* What the scorer keeps too long *)

\* The bound, if any, has room for the three nodes of one event.
Fits == maxNodes \notin {1, 2}

\* The event's nodes: those of the script and the ends of the edges it made.
\* Nothing was touched after one of those ends, while its edge is there, but
\* one of the event's nodes.
FreshInv ==
    pc = "materialize" => \E a, b, c \in NodeIds :
        /\ \A j \in 1..Len(script) : {script[j].s, script[j].d} \subseteq {a, b, c}
        /\ \A k \in 1..Len(updates) : updates[k] \in graph.edges =>
              \A v \in Ends(graph.made, updates[k]) :
                 v \in {a, b, c} /\ Above(graph, v) \subseteq {a, b, c}

\* An event makes at most two edges.
PairInv ==
    /\ Len(updates) <= 2
    /\ (\E j \in 1..Len(script) : script[j].op = "edge") => Len(updates) <= 1
    /\ (\E j, k \in 1..Len(script) :
           j < k /\ script[j].op = "edge" /\ script[k].op = "edge") => updates = <<>>

\* The edges that are gone, and that the scorer holds and no sweep is about to
\* take from it, or has still to be given.
Pending == {updates[k] : k \in 1..Len(updates)}
Kept    == (edgeScores \cup authKinds) \ (graph.edges \cup doomed.edges)
Left    == Kept \cup (Pending \ graph.edges)

\* Only a sweep adds to them, and at most the edges of one event.
LeakInv == /\ FreshInv /\ PairInv
           /\ gmu = "free" => doomed.edges = {}
           /\ Cardinality(Left) <= 2 * sweeps

\* Without retention nothing is left.
Roomy == MaxSweeps = 0 /\ Fits

FollowInv ==
    /\ ScorerFollowsGraph
    /\ \A k \in 1..Len(updates) : updates[k] \in graph.edges
    /\ seenNodes \cup frontier \subseteq graph.nodes

IInv == StateInv /\ ComponentInv /\ (Fits => LeakInv) /\ (Roomy => FollowInv)

-----------------------------------------------------------------------------
(* Scripts *)

\* A script without its first call.
LEMMA TailOps ==
    ASSUME NEW S, NEW s \in Seq(S), s # <<>>
    PROVE  /\ Tail(s) \in Seq(S) /\ Len(s) \in Nat /\ Len(s) >= 1
           /\ Head(s) \in S /\ Head(s) = s[1] /\ Len(Tail(s)) = Len(s) - 1
           /\ \A j \in 1..Len(s) - 1 : Tail(s)[j] = s[j + 1]
<1>1. /\ Tail(s) \in Seq(S) /\ Head(s) \in S
      /\ Len(Tail(s)) = Len(s) - 1
      /\ \A j \in 1..Len(s) - 1 : Tail(s)[j] = s[j + 1]
  BY HeadTailProperties
<1>2. Len(s) \in Nat /\ Len(s) >= 1 /\ Head(s) = s[1]
  BY EmptySeq
<1> QED BY <1>1, <1>2

\* materialize has made one more of its calls.
LEMMA ScriptGoesOn ==
    ASSUME NEW l \in Nat, NEW s, ScriptOK(s, l), s # <<>>
    PROVE  /\ Tail(s) \in Seq(Ops) /\ Head(s) \in Ops
           /\ Head(s).op = "node" => ScriptOK(Tail(s), l)
           /\ Head(s).op = "edge" => l + 1 <= MaxEdges /\ ScriptOK(Tail(s), l + 1)
<1> DEFINE t == Tail(s)
<1>1. s \in Seq(Ops)
  BY DEF ScriptOK
<1>2. /\ t \in Seq(Ops) /\ Len(s) \in Nat /\ Len(s) >= 1
      /\ Head(s) \in Ops /\ Head(s) = s[1] /\ Len(t) = Len(s) - 1
      /\ \A j \in 1..Len(s) - 1 : t[j] = s[j + 1]
  BY <1>1, TailOps
<1> HIDE DEF t
<1>3. Len(t) \in Nat /\ \A j \in 1..Len(t) : j \in Nat /\ j + 1 \in 1..Len(s) /\ t[j] = s[j + 1]
  BY <1>2
<1>4. ASSUME NEW j \in 1..Len(t), t[j].op = "node"
      PROVE  \E k \in 1..Len(t) : /\ j < k /\ t[k].op = "edge"
                                 /\ t[j].s \in {t[k].s, t[k].d}
  <2>1. PICK k \in 1..Len(s) : /\ j + 1 < k /\ s[k].op = "edge"
                               /\ s[j + 1].s \in {s[k].s, s[k].d}
    BY <1>3, <1>4 DEF ScriptOK
  <2>2. k - 1 \in 1..Len(t) /\ j < k - 1 /\ (k - 1) + 1 = k
    BY <1>2, <1>3, <2>1
  <2>3. t[k - 1] = s[k] /\ t[j] = s[j + 1]
    BY <1>3, <2>2
  <2> QED BY <2>1, <2>2, <2>3
<1>5. ASSUME NEW j \in 1..Len(t), NEW k \in 1..Len(t), NEW m \in 1..Len(t), j < k, k < m
      PROVE  "node" \in {t[j].op, t[k].op, t[m].op}
  <2>1. j + 1 < k + 1 /\ k + 1 < m + 1
    BY <1>3, <1>5
  <2>2. "node" \in {s[j + 1].op, s[k + 1].op, s[m + 1].op}
    BY <1>3, <2>1 DEF ScriptOK
  <2> QED BY <1>3, <2>2
<1>6. ASSUME Head(s).op = "node" PROVE ScriptOK(t, l)
  <2>1. \A j \in 1..Len(t) : t[j].op = "edge" => l + 1 <= MaxEdges
    BY <1>3 DEF ScriptOK
  <2>2. ASSUME NEW j \in 1..Len(t), NEW k \in 1..Len(t), j < k, t[j].op = "edge", t[k].op = "edge"
        PROVE  l + 2 <= MaxEdges
    <3>1. j + 1 < k + 1
      BY <1>3, <2>2
    <3> QED BY <1>3, <2>2, <3>1 DEF ScriptOK
  <2> QED BY <1>2, <1>4, <1>5, <2>1, <2>2 DEF ScriptOK
<1>7. ASSUME Head(s).op = "edge" PROVE l + 1 <= MaxEdges /\ ScriptOK(t, l + 1)
  <2>1. 1 \in 1..Len(s) /\ s[1].op = "edge"
    BY <1>2, <1>7
  <2>2. l + 1 <= MaxEdges
    BY <2>1 DEF ScriptOK
  <2>3. ASSUME NEW j \in 1..Len(t), t[j].op = "edge" PROVE (l + 1) + 1 <= MaxEdges
    <3>1. 1 < j + 1
      BY <1>3
    <3>2. l + 2 <= MaxEdges
      BY <1>3, <2>1, <2>3, <3>1 DEF ScriptOK
    <3> QED BY <3>2
  <2>4. ASSUME NEW j \in 1..Len(t), NEW k \in 1..Len(t), j < k, t[j].op = "edge", t[k].op = "edge"
        PROVE  FALSE
    <3>1. 1 < j + 1 /\ j + 1 < k + 1
      BY <1>3, <2>4
    <3>2. "node" \in {s[1].op, s[j + 1].op, s[k + 1].op}
      BY <1>3, <2>1, <3>1 DEF ScriptOK
    <3> QED BY <1>3, <2>1, <2>4, <3>2
  <2> QED BY <1>2, <1>4, <1>5, <2>2, <2>3, <2>4 DEF ScriptOK
<1> QED BY <1>2, <1>6, <1>7 DEF t

\* The calls of one event, of at most three nodes.
LEMMA ScriptBegins ==
    ASSUME NEW s \in Scripts, NEW l \in Nat, l + 2 <= MaxEdges
    PROVE  /\ ScriptOK(s, l)
           /\ \E a, b, c \in NodeIds :
                 \A j \in 1..Len(s) : {s[j].s, s[j].d} \subseteq {a, b, c}
<1>1. ASSUME NEW a \in NodeIds, NEW b \in NodeIds, s = PairScript(a, b)
      PROVE  /\ ScriptOK(s, l)
             /\ \A j \in 1..Len(s) : {s[j].s, s[j].d} \subseteq {a, b, b}
  <2>1. s = <<Node(a), Node(b), Edge(a, b)>>
    BY <1>1 DEF PairScript
  <2>2. Node(a) \in Ops /\ Node(b) \in Ops /\ Edge(a, b) \in Ops
    BY DEF Ops, Node, Edge
  <2>3. s \in Seq(Ops)
    BY <2>1, <2>2
  <2>4. /\ Len(s) = 3
        /\ s[1] = Node(a) /\ s[2] = Node(b) /\ s[3] = Edge(a, b)
    BY <2>1
  <2>5. /\ s[1].op = "node" /\ s[1].s = a /\ s[1].d = a
        /\ s[2].op = "node" /\ s[2].s = b /\ s[2].d = b
        /\ s[3].op = "edge" /\ s[3].s = a /\ s[3].d = b
    BY <2>4 DEF Node, Edge
  <2>6. \A j \in 1..Len(s) : j \in {1, 2, 3}
    BY <2>4
  <2>7. l + 1 <= MaxEdges
    BY GraphAssumption
  <2> QED BY <2>3, <2>4, <2>5, <2>6, <2>7 DEF ScriptOK
<1>2. ASSUME NEW a \in NodeIds, NEW g \in NodeIds, NEW m \in NodeIds, s = MemberScript(a, g, m)
      PROVE  /\ ScriptOK(s, l)
             /\ \A j \in 1..Len(s) : {s[j].s, s[j].d} \subseteq {a, g, m}
  <2> DEFINE p == <<Node(a), Node(g), Edge(a, g)>>
             q == <<Node(m), Edge(m, g)>>
  <2>1. s = p \o q
    BY <1>2 DEF MemberScript, PairScript
  <2>2. /\ Node(a) \in Ops /\ Node(g) \in Ops /\ Edge(a, g) \in Ops
        /\ Node(m) \in Ops /\ Edge(m, g) \in Ops
    BY DEF Ops, Node, Edge
  <2>3. p \in Seq(Ops) /\ q \in Seq(Ops) /\ Len(p) = 3 /\ Len(q) = 2
    BY <2>2
  <2>a. /\ p[1] = Node(a) /\ p[2] = Node(g) /\ p[3] = Edge(a, g)
        /\ q[1] = Node(m) /\ q[2] = Edge(m, g)
    OBVIOUS
  <2> HIDE DEF p, q
  <2>4. /\ s \in Seq(Ops) /\ Len(s) = 5
        /\ \A i \in 1..5 : s[i] = IF i <= 3 THEN p[i] ELSE q[i - 3]
    <3>1. /\ p \o q \in Seq(Ops) /\ Len(p \o q) = Len(p) + Len(q)
          /\ \A i \in 1..Len(p) + Len(q) :
                (p \o q)[i] = IF i <= Len(p) THEN p[i] ELSE q[i - Len(p)]
      BY <2>3, ConcatProperties
    <3>2. Len(p) + Len(q) = 5
      BY <2>3
    <3> QED BY <2>1, <2>3, <3>1, <3>2
  <2>b. /\ s[1] = Node(a) /\ s[2] = Node(g) /\ s[3] = Edge(a, g)
        /\ s[4] = Node(m) /\ s[5] = Edge(m, g)
    BY <2>a, <2>4
  <2>5. /\ s[1].op = "node" /\ s[1].s = a /\ s[1].d = a
        /\ s[2].op = "node" /\ s[2].s = g /\ s[2].d = g
        /\ s[3].op = "edge" /\ s[3].s = a /\ s[3].d = g
        /\ s[4].op = "node" /\ s[4].s = m /\ s[4].d = m
        /\ s[5].op = "edge" /\ s[5].s = m /\ s[5].d = g
    BY <2>b DEF Node, Edge
  <2>6. \A j \in 1..Len(s) : j \in {1, 2, 3, 4, 5}
    BY <2>4
  <2>7. l + 1 <= MaxEdges
    BY GraphAssumption
  <2>8. \A j \in 1..Len(s) : s[j].op = "node" =>
           \E k \in 1..Len(s) : /\ j < k /\ s[k].op = "edge"
                               /\ s[j].s \in {s[k].s, s[k].d}
    BY <2>4, <2>5, <2>6
  <2>9. \A j, k, n \in 1..Len(s) :
           j < k /\ k < n => "node" \in {s[j].op, s[k].op, s[n].op}
    BY <2>4, <2>5, <2>6
  <2>10. \A j \in 1..Len(s) : {s[j].s, s[j].d} \subseteq {a, g, m}
    BY <2>5, <2>6
  <2> QED BY <2>4, <2>7, <2>8, <2>9, <2>10 DEF ScriptOK
<1>3. CASE \E a, b \in NodeIds : s = PairScript(a, b)
  BY <1>1, <1>3
<1>4. CASE \E a, g, m \in NodeIds : s = MemberScript(a, g, m)
  BY <1>2, <1>4
<1> QED BY <1>3, <1>4 DEF Scripts

-----------------------------------------------------------------------------
(* The graph under ingest *)

Whole(g) == g.edges = 1..Len(g.made)

\* What is known of the edges of a good graph.
LEMMA MadeTyped ==
    ASSUME NEW g, Good(g)
    PROVE  /\ Len(g.made) \in Nat /\ Len(g.made) <= MaxEdges
           /\ g.nodes \subseteq NodeIds /\ g.edges \subseteq 1..Len(g.made)
           /\ 1..Len(g.made) \subseteq EdgeIds
           /\ \A e \in 1..Len(g.made) :
                 /\ g.made[e].src \in NodeIds /\ g.made[e].dst \in NodeIds
                 /\ g.made[e].ts \in Times
           /\ \A e \in g.edges : g.made[e].src \in g.nodes /\ g.made[e].dst \in g.nodes
           /\ \A n \in NodeIds :
                 /\ g.out[n] \subseteq g.edges /\ g.in[n] \subseteq g.edges
                 /\ \A e \in g.out[n] : g.made[e].src = n
                 /\ \A e \in g.in[n] : g.made[e].dst = n
<1>1. g.made \in Seq(EdgeRecs) /\ g.nodes \subseteq NodeIds
  BY DEF Good, Typed, Graphs
<1>2. \A e \in 1..Len(g.made) : g.made[e] \in EdgeRecs
  BY <1>1
<1>3. \A e \in 1..Len(g.made) :
         /\ g.made[e].src \in NodeIds /\ g.made[e].dst \in NodeIds
         /\ g.made[e].ts \in Times
  BY <1>2 DEF EdgeRecs
<1>4. Len(g.made) \in Nat /\ Len(g.made) <= MaxEdges /\ g.edges \subseteq 1..Len(g.made)
  BY <1>1 DEF Good, Typed
<1>5. 1..Len(g.made) \subseteq EdgeIds
  BY <1>4, GraphAssumption DEF EdgeIds
<1>6. \A e \in g.edges : g.made[e].src \in g.nodes /\ g.made[e].dst \in g.nodes
  BY DEF Good, Linked
<1>7. \A n \in NodeIds :
         /\ g.out[n] \subseteq g.edges /\ g.in[n] \subseteq g.edges
         /\ \A e \in g.out[n] : g.made[e].src = n
         /\ \A e \in g.in[n] : g.made[e].dst = n
  BY DEF Good, Linked
<1> QED BY <1>1, <1>3, <1>4, <1>5, <1>6, <1>7

\* What a removal does, and that it can leave every edge only by taking
\* nodes that have none.
LEMMA RemoveFacts ==
    ASSUME NEW h, Good(h), NEW V \in SUBSET h.nodes
    PROVE  LET g == Remove(h, V) IN
           /\ Good(g) /\ g.made = h.made
           /\ g.nodes = h.nodes \ V /\ g.edges = h.edges \ DeadEdges(h, V)
           /\ \A n \in NodeIds : g.seen[n] = IF n \in V THEN 0 ELSE h.seen[n]
           /\ Whole(g) => Whole(h) /\ \A v \in V : ~Touched(h.made, v)
<1> DEFINE g == Remove(h, V)
<1>1. Good(g)
  BY RemoveTyped, RemoveLinked, RemoveRanked DEF Good
<1>2. /\ g.made = h.made /\ g.nodes = h.nodes \ V /\ g.edges = h.edges \ DeadEdges(h, V)
      /\ \A n \in NodeIds : g.seen[n] = IF n \in V THEN 0 ELSE h.seen[n]
  BY DEF Remove, Good, Typed, Graphs
<1> HIDE DEF g
<1>3. ASSUME Whole(g) PROVE Whole(h) /\ \A v \in V : ~Touched(h.made, v)
  <2>1. h.edges = 1..Len(h.made) /\ DeadEdges(h, V) \cap h.edges = {}
    <3>1. h.edges \subseteq 1..Len(h.made)
      BY DEF Good, Typed
    <3>2. g.edges = 1..Len(h.made)
      BY <1>2, <1>3 DEF Whole
    <3> QED BY <1>2, <3>1, <3>2
  <2>2. ASSUME NEW v \in V, NEW e \in 1..Len(h.made), v \in Ends(h.made, e) PROVE FALSE
    <3>1. e \in h.edges /\ v \in NodeIds /\ (h.made[e].src = v \/ h.made[e].dst = v)
      BY <2>1, <2>2, MadeTyped DEF Ends
    <3>2. e \in h.out[v] \cup h.in[v]
      BY <3>1 DEF Good, Linked
    <3> QED BY <2>1, <3>1, <3>2 DEF DeadEdges
  <2> QED BY <2>1, <2>2 DEF Whole, Touched
<1> QED BY <1>1, <1>2, <1>3 DEF g

\* Only live nodes are over the bound.
LEMMA OverflowLive ==
    ASSUME NEW h PROVE Overflow(h) \in SUBSET h.nodes
BY DEF Overflow

\* FindOrCreateNode before eviction.
LEMMA InsertFacts ==
    ASSUME NEW g, Good(g), NEW n \in NodeIds
    PROVE  LET h == Insert(g, n) IN
           /\ Good(h) /\ h.made = g.made /\ h.edges = g.edges
           /\ h.nodes = g.nodes \cup {n}
           /\ \A v \in g.nodes : h.seen[v] = g.seen[v]
<1> DEFINE h == Insert(g, n)
<1>1. Good(h)
  BY InsertKeeps DEF Good
<1>2. CASE n \in g.nodes
  BY <1>1, <1>2 DEF Insert
<1>3. CASE n \notin g.nodes
  <2>1. /\ h.nodes = g.nodes \cup {n} /\ h.edges = g.edges /\ h.made = g.made
        /\ h.seen = [g.seen EXCEPT ![n] = g.clock + 1]
    BY <1>3 DEF Insert, Touch, Good, Typed, Graphs
  <2>2. \A v \in g.nodes : h.seen[v] = g.seen[v]
    BY <1>3, <2>1 DEF Good, Typed, Graphs
  <2> QED BY <1>1, <2>1, <2>2
<1> QED BY <1>2, <1>3

\* AppendEdge before eviction.
LEMMA SeatFacts ==
    ASSUME NEW g, Good(g), NEW s \in NodeIds, NEW d \in NodeIds, NEW t \in Times,
           Len(g.made) + 1 <= MaxEdges
    PROVE  LET h == Seat(g, s, d, t)
               e == Len(g.made) + 1
           IN  /\ Good(h) /\ h.edges = g.edges \cup {e} /\ h.nodes = g.nodes \cup {s, d}
               /\ Len(h.made) = e /\ h.made[e].src = s /\ h.made[e].dst = d
               /\ \A k \in 1..Len(g.made) : h.made[k] = g.made[k]
               /\ \A v \in NodeIds :
                     h.seen[v] = IF v = d THEN g.clock + 2
                                 ELSE IF v = s THEN g.clock + 1 ELSE g.seen[v]
<1> DEFINE h == Seat(g, s, d, t)
           e == Len(g.made) + 1
           r == [src |-> s, dst |-> d, ts |-> t]
<1>1. Len(g.made) < MaxEdges /\ g.made \in Seq(EdgeRecs)
  BY MadeTyped, GraphAssumption DEF Good, Typed, Graphs
<1>2. Good(h) /\ Seated(g, h, s, d, t)
  BY <1>1, SeatKeeps, SeatFields DEF Good
<1>3. r \in EdgeRecs /\ r.src = s /\ r.dst = d
  BY DEF EdgeRecs
<1>4. /\ h.edges = g.edges \cup {e} /\ h.nodes = g.nodes \cup {s, d}
      /\ h.made = Append(g.made, r)
      /\ h.seen = [[g.seen EXCEPT ![s] = g.clock + 1] EXCEPT ![d] = g.clock + 2]
  BY <1>2 DEF Seated
<1> HIDE DEF h, r
<1>5. /\ Len(h.made) = e /\ h.made[e] = r
      /\ \A k \in 1..Len(g.made) : h.made[k] = g.made[k]
  BY <1>1, <1>3, <1>4, AppendProperties
<1>6. \A v \in NodeIds :
         h.seen[v] = IF v = d THEN g.clock + 2 ELSE IF v = s THEN g.clock + 1 ELSE g.seen[v]
  BY <1>4 DEF Good, Typed, Graphs
<1> QED BY <1>2, <1>3, <1>4, <1>5, <1>6 DEF h

-----------------------------------------------------------------------------
(* The state, step by step *)

\* The edge being scored.
LEMMA EdgeInHand ==
    ASSUME StateInv, updates # <<>>
    PROVE  /\ edge \in 1..Len(graph.made) /\ edge \in EdgeIds
           /\ edge = updates[1] /\ 1 \in 1..Len(updates)
           /\ graph.made[edge].src \in NodeIds /\ graph.made[edge].dst \in NodeIds
<1>1. updates \in Seq(EdgeIds) /\ \A k \in 1..Len(updates) : updates[k] \in 1..Len(graph.made)
  BY DEF StateInv, TypeOK, DataInv
<1>2. edge = updates[1] /\ 1 \in 1..Len(updates)
  BY <1>1, TailOps DEF edge
<1>3. edge \in 1..Len(graph.made)
  BY <1>1, <1>2
<1> QED BY <1>2, <1>3, MadeTyped DEF StateInv

\* The initial state.
LEMMA InitState == Init => StateInv
<1> SUFFICES ASSUME Init PROVE StateInv
  OBVIOUS
<1>1. /\ graph.nodes = {} /\ graph.edges = {} /\ graph.made = <<>> /\ graph.clock = 0
      /\ graph.out = [n \in NodeIds |-> {}] /\ graph.in = [n \in NodeIds |-> {}]
      /\ graph.seen = [n \in NodeIds |-> 0]
  BY DEF Init, EmptyGraph
<1>2. graph \in Graphs
  BY DEF Init, EmptyGraph, Graphs
<1>3. Good(graph)
  BY <1>1, <1>2, GraphAssumption DEF Good, Typed, Linked, Ranked
<1>4. TypeOK
  BY <1>2, IngestAssumption DEF Init, TypeOK
<1>5. ScriptInv
  BY DEF Init, ScriptInv, ScriptOK
<1>6. PhaseInv /\ SweepInv
  BY DEF Init, PhaseInv, SweepInv
<1>7. DataInv
  <2>1. signals = <<>> /\ updates = <<>> /\ Len(updates) = 0
    BY DEF Init
  <2>2. when \in Times /\ auth \in BOOLEAN
    BY DEF Init
  <2>3. signals \in Seq(Emits) /\ emit = None
    BY <2>1 DEF Init
  <2>4. sweeps \in Nat /\ sweeps <= MaxSweeps
    BY IngestAssumption DEF Init
  <2>5. edgeScores = {} /\ authKinds = {} /\ seenEdges = {}
    BY DEF Init
  <2>6. doomed \in [nodes : SUBSET NodeIds, edges : SUBSET EdgeIds]
    BY DEF Init
  <2> QED BY <2>1, <2>2, <2>3, <2>4, <2>5, <2>6 DEF DataInv
<1> QED BY <1>3, <1>4, <1>5, <1>6, <1>7 DEF StateInv

\* An event begins.
LEMMA BeginState ==
    ASSUME StateInv, NEW s \in Scripts, NEW t \in Times, NEW k \in BOOLEAN, Begin(s, t, k)
    PROVE  StateInv'
<1>1. Good(graph') /\ graph' = graph /\ Len(graph.made) \in Nat
  BY MadeTyped DEF StateInv, Begin
<1>2. ScriptInv'
  BY <1>1, ScriptBegins DEF ScriptInv, Begin
<1>3. TypeOK'
  BY IngestAssumption DEF StateInv, TypeOK, Begin, walk, maps, names, sweep
<1>4. PhaseInv'
  BY DEF StateInv, PhaseInv, Begin, walk
<1>5. DataInv'
  BY DEF StateInv, DataInv, Begin, walk, maps, sweep
<1>6. SweepInv'
  BY DEF StateInv, SweepInv, Begin, sweep, Unevicted
<1> QED BY <1>1, <1>2, <1>3, <1>4, <1>5, <1>6 DEF StateInv

\* Steps that leave the graph and the script alone.
LEMMA GraphKept ==
    ASSUME StateInv, UNCHANGED <<graph, script>>
    PROVE  Good(graph') /\ ScriptInv'
BY DEF StateInv, ScriptInv

\* The first steps of scoring an edge.
LEMMA ScoringState ==
    ASSUME StateInv, SetAuthKind \/ EventDone \/ ObserveTouch \/ RecordScore
    PROVE  StateInv'
<1>1. Good(graph') /\ ScriptInv' /\ graph' = graph
  BY GraphKept DEF SetAuthKind, EventDone, ObserveTouch, RecordScore, event
<1>2. SweepInv'
  BY DEF StateInv, SweepInv, Unevicted, SetAuthKind, EventDone, ObserveTouch, RecordScore, sweep
<1>3. ASSUME SetAuthKind PROVE TypeOK' /\ PhaseInv' /\ DataInv'
  <2>1. edge \in 1..Len(graph.made) /\ edge \in EdgeIds
    BY <1>3, EdgeInHand DEF SetAuthKind
  <2>2. TypeOK'
    BY <1>3, <2>1 DEF StateInv, TypeOK, SetAuthKind, event, walk, names, sweep
  <2>3. PhaseInv'
    BY <1>3 DEF StateInv, PhaseInv, SetAuthKind, event, walk
  <2>4. DataInv'
    BY <1>3, <2>1 DEF StateInv, DataInv, SetAuthKind, event, walk, sweep
  <2> QED BY <2>2, <2>3, <2>4
<1>4. ASSUME EventDone PROVE TypeOK' /\ PhaseInv' /\ DataInv'
  <2>2. TypeOK'
    BY <1>4 DEF StateInv, TypeOK, EventDone, event, walk, maps, names, sweep
  <2>3. PhaseInv'
    BY <1>4 DEF StateInv, PhaseInv, EventDone, event, walk
  <2>4. DataInv'
    BY <1>4 DEF StateInv, DataInv, EventDone, event, walk, maps, sweep
  <2> QED BY <2>2, <2>3, <2>4
<1>5. ASSUME ObserveTouch PROVE TypeOK' /\ PhaseInv' /\ DataInv'
  <2>1. graph.made[edge].src \in NodeIds /\ graph.made[edge].dst \in NodeIds
    BY <1>5, EdgeInHand DEF ObserveTouch, StateInv, PhaseInv
  <2>2. TypeOK'
    BY <1>5, <2>1 DEF StateInv, TypeOK, ObserveTouch, event, walk, names, sweep
  <2>3. PhaseInv'
    BY <1>5 DEF StateInv, PhaseInv, ObserveTouch, event, walk
  <2>4. DataInv'
    BY <1>5 DEF StateInv, DataInv, ObserveTouch, event, walk, sweep
  <2> QED BY <2>2, <2>3, <2>4
<1>6. ASSUME RecordScore PROVE TypeOK' /\ PhaseInv' /\ DataInv'
  <2>1. /\ edge \in 1..Len(graph.made) /\ edge \in EdgeIds
        /\ graph.made[edge].src \in NodeIds /\ graph.made[edge].dst \in NodeIds
    BY <1>6, EdgeInHand DEF RecordScore, StateInv, PhaseInv
  <2>2. TypeOK'
    BY <1>6, <2>1 DEF StateInv, TypeOK, RecordScore, event, names, sweep
  <2>3. PhaseInv'
    BY <1>6 DEF StateInv, PhaseInv, RecordScore, event
  <2>4. DataInv'
    BY <1>6, <2>1 DEF StateInv, DataInv, RecordScore, event, sweep
  <2> QED BY <2>2, <2>3, <2>4
<1> QED BY <1>1, <1>2, <1>3, <1>4, <1>5, <1>6 DEF StateInv, TypeOK

\* The walk.
LEMMA WalkState ==
    ASSUME StateInv, (\E n \in NodeIds : WalkOut(n)) \/ WalkIn \/ WalkDone
    PROVE  StateInv'
<1>1. Good(graph') /\ ScriptInv' /\ graph' = graph
  BY GraphKept DEF WalkOut, WalkIn, WalkDone, event
<1>2. SweepInv'
  BY DEF StateInv, SweepInv, Unevicted, WalkOut, WalkIn, WalkDone, sweep
<1>m. /\ 1..Len(graph.made) \subseteq EdgeIds
      /\ \A e \in 1..Len(graph.made) :
            graph.made[e].src \in NodeIds /\ graph.made[e].dst \in NodeIds
      /\ \A n \in NodeIds : graph.out[n] \cup graph.in[n] \subseteq 1..Len(graph.made)
  BY MadeTyped DEF StateInv
<1>3. ASSUME NEW n \in NodeIds, WalkOut(n) PROVE TypeOK' /\ PhaseInv' /\ DataInv'
  <2>1. /\ seenNodes' \subseteq NodeIds /\ seenEdges' \subseteq EdgeIds
        /\ frontier' \subseteq NodeIds /\ half' \in NodeIds
        /\ seenEdges' \subseteq 1..Len(graph.made)
    BY <1>m, <1>3 DEF StateInv, TypeOK, DataInv, WalkOut
  <2>2. TypeOK'
    BY <1>3, <2>1 DEF StateInv, TypeOK, WalkOut, event, maps, names, sweep
  <2>3. PhaseInv'
    BY <1>3 DEF StateInv, PhaseInv, WalkOut, event
  <2>4. DataInv'
    BY <1>3, <2>1 DEF StateInv, DataInv, WalkOut, event, maps, sweep
  <2> QED BY <2>2, <2>3, <2>4
<1>4. ASSUME WalkIn PROVE TypeOK' /\ PhaseInv' /\ DataInv'
  <2>1. /\ seenNodes' \subseteq NodeIds /\ seenEdges' \subseteq EdgeIds
        /\ frontier' \subseteq NodeIds /\ half' = None
        /\ seenEdges' \subseteq 1..Len(graph.made)
    BY <1>m, <1>4 DEF StateInv, TypeOK, DataInv, WalkIn
  <2>2. TypeOK'
    BY <1>4, <2>1 DEF StateInv, TypeOK, WalkIn, event, maps, names, sweep
  <2>3. PhaseInv'
    BY <1>4 DEF StateInv, PhaseInv, WalkIn, event
  <2>4. DataInv'
    BY <1>4, <2>1 DEF StateInv, DataInv, WalkIn, event, maps, sweep
  <2> QED BY <2>2, <2>3, <2>4
<1>5. ASSUME WalkDone PROVE TypeOK' /\ PhaseInv' /\ DataInv'
  <2>2. TypeOK'
    BY <1>5 DEF StateInv, TypeOK, WalkDone, event, walk, maps, names, sweep
  <2>3. PhaseInv'
    BY <1>5 DEF StateInv, PhaseInv, WalkDone, event, walk
  <2>4. DataInv'
    BY <1>5 DEF StateInv, DataInv, WalkDone, event, walk, maps, sweep
  <2> QED BY <2>2, <2>3, <2>4
<1> QED BY <1>1, <1>2, <1>3, <1>4, <1>5 DEF StateInv

\* A set of numbers has a least one.
LEMMA Least ==
    ASSUME NEW T \in SUBSET Nat, T # {}
    PROVE  \E i \in T : \A j \in T : i <= j
<1> DEFINE Up == {1..i : i \in T}
<1>1. \A i \in T : i \in Int /\ 1..i \subseteq Nat
  OBVIOUS
<1>2. \A i \in T : IsFiniteSet(1..i)
  BY <1>1, FS_Interval
<1>3. Up \subseteq FiniteSubsetsOf(Nat) /\ Up # {}
  BY <1>1, <1>2 DEF FiniteSubsetsOf
<1>4. \E x \in Up : \A y \in Up : ~(<<y, x>> \in StrictSubsetOrdering(Nat))
  BY <1>3, FS_StrictSubsetOrderingWellFounded, WFMin
<1>5. PICK i \in T : \A j \in T : ~(<<1..j, 1..i>> \in StrictSubsetOrdering(Nat))
  BY <1>4
<1>6. ASSUME NEW j \in T, j < i PROVE FALSE
  <2>1. 1..j \subseteq 1..i /\ i \in 1..i /\ i \notin 1..j /\ 1..i \subseteq Nat
    BY <1>6
  <2>2. <<1..j, 1..i>> \in StrictSubsetOrdering(Nat)
    BY <2>1 DEF StrictSubsetOrdering
  <2> QED BY <1>5, <2>2
<1> QED BY <1>6

\* The minimum of the incidents held, or a new one.
LEMMA ResolveIncidentIs ==
    ASSUME TypeOK, NEW M \in SUBSET NodeIds
    PROVE  LET i == ResolveIncident(M) IN
           \/ /\ i = incidentSeq + 1 /\ \A n \in M : nodeIncident[n] = 0
           \/ /\ i \in 1..incidentSeq
              /\ \E n \in M : nodeIncident[n] = i
              /\ \A n \in M : nodeIncident[n] # 0 => i <= nodeIncident[n]
<1> DEFINE held == {nodeIncident[n] : n \in M} \ {0}
<1>1. incidentSeq \in Nat /\ nodeIncident \in [NodeIds -> 0..incidentSeq]
  BY DEF TypeOK
<1>2. held \subseteq 1..incidentSeq
  BY <1>1
<1>3. CASE held = {}
  <2>1. ResolveIncident(M) = incidentSeq + 1
    BY <1>3 DEF ResolveIncident
  <2> QED BY <1>3, <2>1
<1>4. CASE held # {}
  <2>1. \E i \in held : \A j \in held : i <= j
    <3>1. held \in SUBSET Nat
      BY <1>1, <1>2
    <3> QED BY <1>4, <3>1, Least
  <2>2. ResolveIncident(M) = CHOOSE i \in held : \A j \in held : i <= j
    BY <1>4 DEF ResolveIncident
  <2> HIDE DEF held
  <2>3. PICK i : i \in held /\ (\A j \in held : i <= j) /\ i = ResolveIncident(M)
    BY <2>1, <2>2
  <2>4. i \in 1..incidentSeq
    BY <1>2, <2>3
  <2> QED BY <2>3, <2>4 DEF held
<1> QED BY <1>3, <1>4

\* The hot node is the destination of one of the edges it is chosen from.
LEMMA HotNodesOf ==
    ASSUME NEW E, NEW h \in HotNodes(E)
    PROVE  \E e \in E : h = graph.made[e].dst
BY DEF HotNodes

\* The incident is resolved, and the signal made.
LEMMA SumState ==
    ASSUME StateInv, NEW crosses \in BOOLEAN, SumComponent(crosses)
    PROVE  StateInv'
<1>1. Good(graph') /\ ScriptInv' /\ graph' = graph
  BY GraphKept DEF SumComponent, event
<1>2. SweepInv'
  BY DEF StateInv, SweepInv, Unevicted, SumComponent, sweep
<1>3. TypeOK /\ seenNodes \in SUBSET NodeIds /\ incidentSeq \in Nat
  BY DEF StateInv, TypeOK
<1>4. PICK i : i = ResolveIncident(seenNodes)
  OBVIOUS
<1>5. i \in Nat /\ i <= incidentSeq + 1
  BY <1>3, <1>4, ResolveIncidentIs
<1>6. /\ nodeIncident' = MapMembers(seenNodes, i)
      /\ incidentSeq' = IF i > incidentSeq THEN i ELSE incidentSeq
      /\ \/ \E h \in HotNodes(seenEdges \cap edgeScores) : emit' = [hot |-> h, incident |-> i]
         \/ emit' = None
      /\ smu' = "free" /\ pc' = "emit" /\ seenNodes' = {} /\ seenEdges' = {}
      /\ UNCHANGED <<graph, event, frontier, half, maps, signals, sweep>> /\ pc = "sum"
  BY <1>4 DEF SumComponent
<1>7. incidentSeq' \in Nat /\ incidentSeq <= incidentSeq' /\ i <= incidentSeq'
  BY <1>3, <1>5, <1>6
<1>8. nodeIncident' \in [NodeIds -> 0..incidentSeq']
  <2>1. nodeIncident \in [NodeIds -> 0..incidentSeq]
    BY <1>3 DEF TypeOK
  <2>2. \A n \in NodeIds : nodeIncident[n] \in 0..incidentSeq' /\ i \in 0..incidentSeq'
    BY <1>3, <1>5, <1>7, <2>1
  <2> QED BY <1>6, <2>2 DEF MapMembers
<1>9. emit' \in Emits \cup {None}
  <2>1. CASE emit' = None
    BY <2>1
  <2>2. ASSUME NEW h \in HotNodes(seenEdges \cap edgeScores), emit' = [hot |-> h, incident |-> i]
        PROVE  emit' \in Emits
    <3>1. PICK e \in seenEdges : h = graph.made[e].dst
      BY HotNodesOf
    <3>2. e \in 1..Len(graph.made)
      BY DEF StateInv, DataInv
    <3>3. h \in NodeIds
      BY <3>1, <3>2, MadeTyped DEF StateInv
    <3> QED BY <1>5, <2>2, <3>3 DEF Emits
  <2> QED BY <1>6, <2>1, <2>2
<1>10. TypeOK'
  BY <1>3, <1>6, <1>7, <1>8 DEF TypeOK, event, maps, sweep
<1>11. PhaseInv'
  BY <1>6 DEF StateInv, PhaseInv, event
<1>12. DataInv'
  BY <1>6, <1>9 DEF StateInv, DataInv, event, maps, sweep
<1> QED BY <1>1, <1>2, <1>10, <1>11, <1>12 DEF StateInv

\* Signals come and go.
LEMMA SignalState ==
    ASSUME StateInv, OfferSignal \/ TakeSignal
    PROVE  StateInv'
<1>1. Good(graph') /\ ScriptInv' /\ graph' = graph
  BY GraphKept DEF OfferSignal, TakeSignal, event
<1>2. SweepInv'
  BY DEF StateInv, SweepInv, Unevicted, OfferSignal, TakeSignal, sweep
<1>s. signals \in Seq(Emits) /\ Len(signals) <= SignalBuffer
  BY DEF StateInv, DataInv, TypeOK
<1>3. ASSUME OfferSignal PROVE TypeOK' /\ PhaseInv' /\ DataInv'
  <2>1. updates \in Seq(EdgeIds) /\ updates # <<>>
    BY <1>3 DEF StateInv, TypeOK, PhaseInv, OfferSignal
  <2>2. /\ Tail(updates) \in Seq(EdgeIds) /\ Len(updates) \in Nat
        /\ Len(Tail(updates)) = Len(updates) - 1
        /\ \A j \in 1..Len(updates) - 1 : Tail(updates)[j] = updates[j + 1]
    BY <2>1, TailOps
  <2>3. /\ updates' = Tail(updates) /\ updates' \in Seq(EdgeIds)
        /\ \A k \in 1..Len(updates') : updates'[k] \in 1..Len(graph.made)
    <3>1. \A k \in 1..Len(updates) : updates[k] \in 1..Len(graph.made)
      BY DEF StateInv, DataInv
    <3>2. \A j \in 1..Len(updates) - 1 : j + 1 \in 1..Len(updates)
      BY <2>2
    <3> QED BY <1>3, <2>2, <3>1, <3>2 DEF OfferSignal
  <2>4. signals' \in Seq(Emits) /\ Len(signals') <= SignalBuffer
    <3>1. emit \in Emits \cup {None}
      BY DEF StateInv, DataInv
    <3>2. CASE emit # None /\ Len(signals) < SignalBuffer
      <4>1. signals' = Append(signals, emit) /\ emit \in Emits
        BY <1>3, <3>1, <3>2 DEF OfferSignal
      <4>2. signals' \in Seq(Emits) /\ Len(signals') = Len(signals) + 1 /\ Len(signals) \in Nat
        BY <1>s, <4>1, AppendProperties
      <4> QED BY <3>2, <4>2, IngestAssumption
    <3>3. CASE ~(emit # None /\ Len(signals) < SignalBuffer)
      BY <1>3, <1>s, <3>3 DEF OfferSignal
    <3> QED BY <3>2, <3>3
  <2>5. TypeOK'
    BY <1>3, <2>3, <2>4 DEF StateInv, TypeOK, OfferSignal, maps, names, sweep
  <2>6. PhaseInv'
    BY <1>3 DEF StateInv, PhaseInv, OfferSignal
  <2>7. DataInv'
    BY <1>3, <2>3, <2>4 DEF StateInv, DataInv, OfferSignal, maps, sweep
  <2> QED BY <2>5, <2>6, <2>7
<1>4. ASSUME TakeSignal PROVE TypeOK' /\ PhaseInv' /\ DataInv'
  <2>1. signals' \in Seq(Emits) /\ Len(signals') <= SignalBuffer
    <3>1. signals' = Tail(signals) /\ signals # <<>>
      BY <1>4 DEF TakeSignal
    <3>2. signals' \in Seq(Emits) /\ Len(signals') = Len(signals) - 1 /\ Len(signals) \in Nat
      BY <1>s, <3>1, TailOps
    <3> QED BY <1>s, <3>2, IngestAssumption
  <2>2. TypeOK'
    BY <1>4, <2>1 DEF StateInv, TypeOK, TakeSignal, event, walk, maps, names, sweep
  <2>3. PhaseInv'
    BY <1>4 DEF StateInv, PhaseInv, TakeSignal, event, walk
  <2>4. DataInv'
    BY <1>4, <2>1 DEF StateInv, DataInv, TakeSignal, event, walk, maps, sweep
  <2> QED BY <2>2, <2>3, <2>4
<1> QED BY <1>1, <1>2, <1>3, <1>4 DEF StateInv

\* What the callbacks take from the scorer's maps leaves them typed.
LEMMA ForgetTypes ==
    ASSUME TypeOK, NEW V, ForgetNodes(V), UNCHANGED incidentSeq
    PROVE  /\ nodeLastTS' \subseteq NodeIds
           /\ incidentSeq' \in Nat /\ nodeIncident' \in [NodeIds -> 0..incidentSeq']
<1>1. nodeLastTS' \subseteq NodeIds
  BY DEF TypeOK, ForgetNodes
<1>2. incidentSeq \in Nat /\ nodeIncident \in [NodeIds -> 0..incidentSeq]
  BY DEF TypeOK
<1>3. \A n \in NodeIds : nodeIncident[n] \in 0..incidentSeq /\ 0 \in 0..incidentSeq
  BY <1>2
<1>4. nodeIncident' \in [NodeIds -> 0..incidentSeq]
  BY <1>3 DEF ForgetNodes
<1> QED BY <1>1, <1>2, <1>4

\* The sweep and its callbacks.
LEMMA SweepState ==
    ASSUME StateInv, (\E c \in Times : Sweep(c)) \/ SweepForgetsNodes \/ SweepForgetsEdges
    PROVE  StateInv'
<1>1. ASSUME NEW c \in Times, Sweep(c) PROVE StateInv'
  <2> DEFINE V == Aged(graph, c)
  <2>1. /\ V \in SUBSET graph.nodes /\ V # {} /\ graph' = Remove(graph, V)
        /\ \A v \in V : graph.out[v] \cup graph.in[v] # {}
    BY <1>1 DEF Sweep, Prune, Aged
  <2>2. Good(graph) /\ graph.nodes \subseteq NodeIds /\ graph.edges \subseteq EdgeIds
    BY DEF StateInv, Good, Typed, Graphs
  <2> HIDE DEF V
  <2>3. /\ Good(graph') /\ graph'.made = graph.made
        /\ Whole(graph') => \A v \in V : ~Touched(graph.made, v)
    BY <2>1, <2>2, RemoveFacts
  <2>4. ~Whole(graph')
    <3>1. PICK v \in V : \E e \in graph.out[v] \cup graph.in[v] : TRUE
      BY <2>1
    <3>2. v \in NodeIds
      BY <2>1, <2>2
    <3>3. PICK e \in 1..Len(graph.made) : v \in Ends(graph.made, e)
      BY <2>2, <3>1, <3>2, MadeTyped DEF Ends
    <3> QED BY <2>3, <3>3 DEF Touched
  <2>5. sweeps \in Nat /\ sweeps' = sweeps + 1 /\ sweeps < MaxSweeps /\ gmu' = "sweep-nodes"
    BY <1>1 DEF Sweep, Prune, StateInv, DataInv
  <2>6. TypeOK'
    <3>1. graph' \in Graphs
      BY <2>3 DEF Good, Typed
    <3> QED BY <1>1, <2>5, <3>1 DEF StateInv, TypeOK, Sweep, Prune, event, walk, maps, names
  <2>7. ScriptInv' /\ PhaseInv'
    BY <1>1, <2>3 DEF StateInv, ScriptInv, PhaseInv, Sweep, Prune, event, walk
  <2>8. DataInv'
    <3>1. doomed' \in [nodes : SUBSET NodeIds, edges : SUBSET EdgeIds]
      BY <1>1, <2>1, <2>2 DEF Sweep, Prune, DeadEdges, V
    <3>2. sweeps' \in Nat /\ sweeps' <= MaxSweeps
      BY <2>5, IngestAssumption
    <3> QED BY <1>1, <2>3, <3>1, <3>2 DEF StateInv, DataInv, Sweep, Prune, event, walk, maps
  <2>9. SweepInv'
    BY <2>4, <2>5 DEF SweepInv, Unevicted, Whole
  <2> QED BY <2>3, <2>6, <2>7, <2>8, <2>9 DEF StateInv
<1>2. ASSUME SweepForgetsNodes PROVE StateInv'
  <2>1. Good(graph') /\ ScriptInv' /\ graph' = graph
    BY <1>2, GraphKept DEF SweepForgetsNodes, event
  <2>2. /\ nodeLastTS' \subseteq NodeIds
        /\ incidentSeq' \in Nat /\ nodeIncident' \in [NodeIds -> 0..incidentSeq']
    BY <1>2, ForgetTypes DEF SweepForgetsNodes, StateInv
  <2>3. TypeOK'
    BY <1>2, <2>2 DEF StateInv, TypeOK, SweepForgetsNodes, event, walk
  <2>4. PhaseInv'
    BY <1>2 DEF StateInv, PhaseInv, SweepForgetsNodes, event, walk
  <2>5. DataInv'
    BY <1>2 DEF StateInv, DataInv, SweepForgetsNodes, event, walk
  <2>6. SweepInv'
    BY <1>2 DEF StateInv, SweepInv, SweepForgetsNodes, Unevicted
  <2> QED BY <2>1, <2>3, <2>4, <2>5, <2>6 DEF StateInv
<1>3. ASSUME SweepForgetsEdges PROVE StateInv'
  <2>1. Good(graph') /\ ScriptInv' /\ graph' = graph
    BY <1>3, GraphKept DEF SweepForgetsEdges, event
  <2>3. TypeOK'
    BY <1>3 DEF StateInv, TypeOK, SweepForgetsEdges, ForgetEdges, event, walk, names
  <2>4. PhaseInv'
    BY <1>3 DEF StateInv, PhaseInv, SweepForgetsEdges, event, walk
  <2>5. DataInv'
    BY <1>3 DEF StateInv, DataInv, SweepForgetsEdges, ForgetEdges, event, walk
  <2>6. SweepInv'
    BY <1>3 DEF StateInv, SweepInv, SweepForgetsEdges
  <2> QED BY <2>1, <2>3, <2>4, <2>5, <2>6 DEF StateInv
<1> QED BY <1>1, <1>2, <1>3

\* What evicting from h, a graph one call ahead of the goroutine's, does.
LEMMA EvictState ==
    ASSUME StateInv, NEW h, Good(h), EvictAndForget(h), UNCHANGED incidentSeq
    PROVE  LET V == Overflow(h) IN
           /\ Good(graph') /\ graph'.made = h.made
           /\ graph'.nodes = h.nodes \ V /\ graph'.edges = h.edges \ DeadEdges(h, V)
           /\ \A n \in NodeIds : graph'.seen[n] = IF n \in V THEN 0 ELSE h.seen[n]
           /\ Whole(graph') => Whole(h) /\ \A v \in V : ~Touched(h.made, v)
           /\ edgeScores' = edgeScores \ DeadEdges(h, V)
           /\ authKinds' = authKinds \ DeadEdges(h, V)
           /\ nodeLastTS' = nodeLastTS \ V /\ nodeLastTS' \subseteq NodeIds
           /\ incidentSeq' \in Nat /\ nodeIncident' \in [NodeIds -> 0..incidentSeq']
           /\ \A n \in NodeIds : nodeIncident'[n] = IF n \in V THEN 0 ELSE nodeIncident[n]
<1> DEFINE V == Overflow(h)
<1>1. /\ graph' = Remove(h, V) /\ ForgetNodes(V) /\ ForgetEdges(DeadEdges(h, V))
      /\ V \in SUBSET h.nodes
  BY OverflowLive DEF EvictAndForget
<1> HIDE DEF V
<1>2. /\ Good(graph') /\ graph'.made = h.made
      /\ graph'.nodes = h.nodes \ V /\ graph'.edges = h.edges \ DeadEdges(h, V)
      /\ \A n \in NodeIds : graph'.seen[n] = IF n \in V THEN 0 ELSE h.seen[n]
      /\ Whole(graph') => Whole(h) /\ \A v \in V : ~Touched(h.made, v)
  BY <1>1, RemoveFacts
<1>3. /\ edgeScores' = edgeScores \ DeadEdges(h, V)
      /\ authKinds' = authKinds \ DeadEdges(h, V)
      /\ nodeLastTS' = nodeLastTS \ V
      /\ \A n \in NodeIds : nodeIncident'[n] = IF n \in V THEN 0 ELSE nodeIncident[n]
  BY <1>1 DEF ForgetNodes, ForgetEdges
<1>4. /\ nodeLastTS' \subseteq NodeIds
      /\ incidentSeq' \in Nat /\ nodeIncident' \in [NodeIds -> 0..incidentSeq']
  BY <1>1, ForgetTypes DEF StateInv
<1> QED BY <1>2, <1>3, <1>4 DEF V

\* materialize creates a node.
LEMMA CreateNodeState ==
    ASSUME StateInv, CreateNode
    PROVE  StateInv'
<1>1. /\ Good(graph) /\ Len(graph.made) \in Nat
      /\ ScriptOK(script, Len(graph.made)) /\ script # <<>> /\ Head(script).op = "node"
  BY MadeTyped DEF StateInv, ScriptInv, CreateNode
<1>2. Head(script) \in Ops /\ ScriptOK(Tail(script), Len(graph.made))
  BY <1>1, ScriptGoesOn
<1>3. PICK n \in NodeIds : n = Head(script).s
  BY <1>2 DEF Ops
<1> DEFINE h == Insert(graph, n)
<1>4. Good(h) /\ h.made = graph.made /\ h.edges = graph.edges
  BY <1>1, InsertFacts
<1>5. EvictAndForget(h) /\ UNCHANGED incidentSeq
  BY <1>3 DEF CreateNode
<1> HIDE DEF h
<1>6. /\ Good(graph') /\ graph'.made = graph.made
      /\ edgeScores' \subseteq edgeScores /\ authKinds' \subseteq authKinds
      /\ nodeLastTS' \subseteq NodeIds
      /\ incidentSeq' \in Nat /\ nodeIncident' \in [NodeIds -> 0..incidentSeq']
      /\ graph' \in Graphs
  BY <1>4, <1>5, EvictState DEF Good, Typed
<1>7. TypeOK'
  BY <1>6 DEF StateInv, TypeOK, CreateNode, walk, sweep
<1>8. ScriptInv' /\ PhaseInv'
  <2>1. script' = Tail(script)
    BY DEF CreateNode
  <2>2. ScriptInv'
    BY <1>2, <1>6, <2>1 DEF ScriptInv
  <2> QED BY <2>2 DEF StateInv, PhaseInv, CreateNode, walk
<1>9. DataInv'
  BY <1>6 DEF StateInv, DataInv, CreateNode, walk, sweep
<1>10. SweepInv'
  BY DEF StateInv, SweepInv, CreateNode, sweep
<1> QED BY <1>6, <1>7, <1>8, <1>9, <1>10 DEF StateInv

\* One more edge was made by this event.
LEMMA UpdatesGrow ==
    ASSUME StateInv, CreateEdge
    PROVE  /\ updates' = Append(updates, Len(graph.made) + 1)
           /\ updates' \in Seq(EdgeIds)
           /\ Len(updates) \in Nat /\ Len(updates') = Len(updates) + 1
           /\ updates'[Len(updates')] = Len(graph.made) + 1
           /\ \A k \in 1..Len(updates) : updates'[k] = updates[k]
           /\ Len(graph.made) \in Nat /\ Len(graph.made) + 1 <= MaxEdges
           /\ Head(script) \in Ops /\ ScriptOK(Tail(script), Len(graph.made) + 1)
<1>1. /\ Len(graph.made) \in Nat /\ script # <<>>
      /\ ScriptOK(script, Len(graph.made)) /\ Head(script).op = "edge"
  BY MadeTyped DEF StateInv, ScriptInv, CreateEdge
<1>2. /\ Head(script) \in Ops /\ ScriptOK(Tail(script), Len(graph.made) + 1)
      /\ Len(graph.made) + 1 <= MaxEdges
  BY <1>1, ScriptGoesOn
<1>3. PICK e \in EdgeIds : e = Len(graph.made) + 1
  BY <1>1, <1>2, GraphAssumption DEF EdgeIds
<1>4. updates \in Seq(EdgeIds) /\ updates' = Append(updates, e)
  BY <1>3 DEF StateInv, TypeOK, CreateEdge
<1>5. /\ updates' \in Seq(EdgeIds) /\ Len(updates) \in Nat /\ Len(updates') = Len(updates) + 1
      /\ updates'[Len(updates) + 1] = e
      /\ \A k \in 1..Len(updates) : updates'[k] = updates[k]
  BY <1>4, AppendProperties
<1> QED BY <1>1, <1>2, <1>3, <1>4, <1>5

\* materialize appends an edge.
LEMMA CreateEdgeState ==
    ASSUME StateInv, CreateEdge
    PROVE  StateInv'
<1>1. /\ updates' \in Seq(EdgeIds)
      /\ Len(updates) \in Nat /\ Len(updates') = Len(updates) + 1
      /\ updates'[Len(updates')] = Len(graph.made) + 1
      /\ \A k \in 1..Len(updates) : updates'[k] = updates[k]
      /\ Len(graph.made) \in Nat /\ Len(graph.made) + 1 <= MaxEdges
      /\ Head(script) \in Ops /\ ScriptOK(Tail(script), Len(graph.made) + 1)
  BY UpdatesGrow
<1>2. PICK s \in NodeIds, d \in NodeIds : s = Head(script).s /\ d = Head(script).d
  BY <1>1 DEF Ops
<1>3. Good(graph) /\ when \in Times
  BY DEF StateInv, DataInv
<1> DEFINE h == Seat(graph, s, d, when)
<1>4. Good(h) /\ Len(h.made) = Len(graph.made) + 1
  BY <1>1, <1>3, SeatFacts
<1>5. EvictAndForget(h) /\ UNCHANGED incidentSeq
  BY <1>2 DEF CreateEdge
<1> HIDE DEF h
<1>6. /\ Good(graph') /\ Len(graph'.made) = Len(graph.made) + 1
      /\ edgeScores' \subseteq edgeScores /\ authKinds' \subseteq authKinds
      /\ nodeLastTS' \subseteq NodeIds
      /\ incidentSeq' \in Nat /\ nodeIncident' \in [NodeIds -> 0..incidentSeq']
      /\ graph' \in Graphs
  BY <1>4, <1>5, EvictState DEF Good, Typed
<1>7. TypeOK'
  BY <1>1, <1>6 DEF StateInv, TypeOK, CreateEdge, walk, sweep
<1>8. ScriptInv'
  BY <1>1, <1>6 DEF ScriptInv, CreateEdge
<1>9. PhaseInv'
  BY DEF StateInv, PhaseInv, CreateEdge, walk
<1>10. DataInv'
  <2>1. \A k \in 1..Len(updates') : updates'[k] \in 1..Len(graph'.made)
    <3>1. \A k \in 1..Len(updates) : updates[k] \in 1..Len(graph.made)
      BY DEF StateInv, DataInv
    <3> QED BY <1>1, <1>6, <3>1
  <2>2. edgeScores' \cup authKinds' \cup seenEdges' \subseteq 1..Len(graph'.made)
    BY <1>1, <1>6 DEF StateInv, DataInv, CreateEdge, walk
  <2> QED BY <2>1, <2>2 DEF StateInv, DataInv, CreateEdge, walk, sweep
<1>11. SweepInv'
  BY DEF StateInv, SweepInv, CreateEdge, sweep
<1> QED BY <1>6, <1>7, <1>8, <1>9, <1>10, <1>11 DEF StateInv

\* Every step keeps the state as it should be.
LEMMA StateStep ==
    ASSUME StateInv, [Next]_vars
    PROVE  StateInv'
<1>1. CASE UNCHANGED vars
  BY <1>1 DEF vars, event, walk, maps, names, sweep, StateInv, TypeOK, ScriptInv, PhaseInv,
              DataInv, SweepInv, Unevicted
<1>2. CASE Next
  BY <1>2, BeginState, ScoringState, WalkState, SumState, SignalState, SweepState,
     CreateNodeState, CreateEdgeState DEF Next, IngestStep, SweepStep
<1> QED BY <1>1, <1>2

-----------------------------------------------------------------------------
(* Joined nodes *)

\* N begins with M.
Extends(M, N) == /\ Len(M) \in Nat /\ Len(N) \in Nat /\ Len(M) <= Len(N)
                 /\ \A k \in 1..Len(M) : N[k] = M[k]

\* Every node is joined to itself, and what is joined to a joined node is joined.
LEMMA JoinedTrans ==
    ASSUME NEW M, NEW n, NEW m, NEW k
    PROVE  Joined(M, n, n) /\ (Joined(M, n, m) /\ Joined(M, m, k) => Joined(M, n, k))
BY DEF Joined

\* A set separates two nodes exactly when its complement does.
LEMMA JoinedBack ==
    ASSUME NEW M, NEW n \in NodeIds, NEW m \in NodeIds, Joined(M, n, m),
           \A k \in 1..Len(M) : M[k].src \in NodeIds /\ M[k].dst \in NodeIds
    PROVE  Joined(M, m, n)
<1> SUFFICES ASSUME NEW S \in SUBSET NodeIds, m \in S, n \notin S,
                    \A k \in 1..Len(M) : (M[k].src \in S) = (M[k].dst \in S)
             PROVE  FALSE
  BY DEF Joined
<1> DEFINE C == NodeIds \ S
<1>1. C \in SUBSET NodeIds /\ n \in C /\ m \notin C
  OBVIOUS
<1>2. ASSUME NEW k \in 1..Len(M)
      PROVE  (M[k].src \in C) = (M[k].dst \in C)
  <2>1. M[k].src \in S <=> M[k].dst \in S
    OBVIOUS
  <2> QED BY <2>1
<1> HIDE DEF C
<1> QED BY <1>1, <1>2 DEF Joined

\* An edge joins its ends.
LEMMA JoinedEdge ==
    ASSUME NEW M, NEW k \in 1..Len(M)
    PROVE  Joined(M, M[k].src, M[k].dst) /\ Joined(M, M[k].dst, M[k].src)
BY DEF Joined

\* What is joined stays joined while edges are added.
LEMMA JoinedGrows ==
    ASSUME NEW M, NEW N, Extends(M, N), NEW n, NEW m
    PROVE  /\ Joined(M, n, m) => Joined(N, n, m)
           /\ Touched(M, n) => Touched(N, n)
<1>1. 1..Len(M) \subseteq 1..Len(N)
  BY DEF Extends
<1>2. ASSUME Joined(M, n, m) PROVE Joined(N, n, m)
  <2> SUFFICES ASSUME NEW S \in SUBSET NodeIds, n \in S,
                      \A k \in 1..Len(N) : (N[k].src \in S) = (N[k].dst \in S)
               PROVE  m \in S
    BY DEF Joined
  <2>1. \A k \in 1..Len(M) : (M[k].src \in S) = (M[k].dst \in S)
    BY <1>1 DEF Extends
  <2> QED BY <1>2, <2>1 DEF Joined
<1>3. ASSUME Touched(M, n) PROVE Touched(N, n)
  <2>1. PICK k \in 1..Len(M) : n \in Ends(M, k)
    BY <1>3 DEF Touched
  <2>2. k \in 1..Len(N) /\ Ends(N, k) = Ends(M, k)
    BY <1>1 DEF Extends, Ends
  <2> QED BY <2>1, <2>2 DEF Touched
<1> QED BY <1>2, <1>3

-----------------------------------------------------------------------------
(* While every edge is there *)

\* An edge once evicted stays so, and a sweep evicts one.
LEMMA WholeStep ==
    ASSUME StateInv, Next, Unevicted'
    PROVE  /\ Unevicted /\ gmu = "free"
           /\ \/ \E s \in Scripts, t \in Times, k \in BOOLEAN : Begin(s, t, k)
              \/ IngestStep
              \/ TakeSignal
<1>1. StateInv'
  BY StateStep
<1>2. gmu' = "free"
  BY <1>1 DEF StateInv, SweepInv
<1>3. Good(graph) /\ Len(graph.made) \in Nat /\ graph.edges \subseteq 1..Len(graph.made)
  BY MadeTyped DEF StateInv
<1>4. CASE UNCHANGED graph
  <2>1. Unevicted /\ gmu = "free"
    BY <1>4 DEF Unevicted, StateInv, SweepInv
  <2> QED BY <1>2, <2>1 DEF Next, Sweep, Prune, SweepStep, SweepForgetsNodes, SweepForgetsEdges
<1>5. CASE CreateNode
  <2>1. Head(script) \in Ops
    BY <1>3, <1>5, ScriptGoesOn DEF StateInv, ScriptInv, CreateNode
  <2>2. PICK n \in NodeIds : n = Head(script).s
    BY <2>1 DEF Ops
  <2>3. PICK h : h = Insert(graph, n)
    OBVIOUS
  <2>4. Good(h) /\ h.made = graph.made /\ h.edges = graph.edges
    BY <1>3, <2>3, InsertFacts
  <2>5. EvictAndForget(h) /\ UNCHANGED incidentSeq
    BY <1>5, <2>2, <2>3 DEF CreateNode
  <2>6. Whole(h)
    BY <2>4, <2>5, EvictState DEF Whole, Unevicted
  <2> QED BY <1>5, <2>4, <2>6 DEF Whole, Unevicted, CreateNode, IngestStep
<1>6. CASE CreateEdge
  <2>1. Head(script) \in Ops /\ Len(graph.made) + 1 <= MaxEdges /\ when \in Times
    BY <1>6, UpdatesGrow DEF StateInv, DataInv
  <2>2. PICK s \in NodeIds, d \in NodeIds : s = Head(script).s /\ d = Head(script).d
    BY <2>1 DEF Ops
  <2>3. PICK h : h = Seat(graph, s, d, when)
    OBVIOUS
  <2>4. /\ Good(h) /\ Len(h.made) = Len(graph.made) + 1
        /\ h.edges = graph.edges \cup {Len(graph.made) + 1}
    BY <1>3, <2>1, <2>3, SeatFacts
  <2>5. EvictAndForget(h) /\ UNCHANGED incidentSeq
    BY <1>6, <2>2, <2>3 DEF CreateEdge
  <2>6. Whole(h)
    BY <2>4, <2>5, EvictState DEF Whole, Unevicted
  <2>7. graph.edges = 1..Len(graph.made)
    <3>1. graph.edges \cup {Len(graph.made) + 1} = 1..(Len(graph.made) + 1)
      BY <2>4, <2>6 DEF Whole
    <3>2. 1..Len(graph.made) \subseteq graph.edges \cup {Len(graph.made) + 1}
      BY <1>3, <3>1
    <3>3. \A k \in 1..Len(graph.made) : k # Len(graph.made) + 1
      BY <1>3
    <3> QED BY <1>3, <3>2, <3>3
  <2> QED BY <1>6, <2>7 DEF Unevicted, CreateEdge, IngestStep
<1>7. CASE \E c \in Times : Sweep(c)
  BY <1>2, <1>7 DEF Sweep, Prune
<1> QED BY <1>4, <1>5, <1>6, <1>7 DEF Next, IngestStep, SweepStep, Begin, SetAuthKind, EventDone,
        ObserveTouch, RecordScore, WalkOut, WalkIn, WalkDone, SumComponent, OfferSignal,
        TakeSignal, SweepForgetsNodes, SweepForgetsEdges

\* While every edge is there, an eviction takes only nodes without edges, of
\* which the scorer knows nothing.
LEMMA EvictSpares ==
    ASSUME StateInv, IncidentInv, Unevicted',
           NEW h, Good(h), Extends(graph.made, h.made),
           EvictAndForget(h), UNCHANGED incidentSeq
    PROVE  /\ graph'.made = h.made /\ nodeIncident' = nodeIncident
           /\ graph'.nodes \subseteq h.nodes
<1> DEFINE V == Overflow(h)
<1>1. /\ graph'.made = h.made /\ graph'.nodes = h.nodes \ V
      /\ Whole(graph') => \A v \in V : ~Touched(h.made, v)
      /\ nodeIncident' \in [NodeIds -> 0..incidentSeq']
      /\ \A n \in NodeIds : nodeIncident'[n] = IF n \in V THEN 0 ELSE nodeIncident[n]
  BY EvictState
<1> HIDE DEF V
<1>2. \A v \in V : ~Touched(h.made, v)
  BY <1>1 DEF Whole, Unevicted
<1>3. ASSUME NEW v \in V, v \in NodeIds PROVE nodeIncident[v] = 0
  <2>1. ~Touched(graph.made, v)
    BY <1>2, JoinedGrows
  <2> QED BY <1>3, <2>1 DEF IncidentInv
<1>4. \A n \in NodeIds : nodeIncident'[n] = nodeIncident[n]
  BY <1>1, <1>3
<1>5. nodeIncident \in [NodeIds -> 0..incidentSeq]
  BY DEF StateInv, TypeOK
<1> QED BY <1>1, <1>4, <1>5

-----------------------------------------------------------------------------
(* Components, step by step *)

\* No signal is lost while the graph, the incidents and the signals stay.
LEMMA NamesQuiet ==
    ASSUME NameInv, UNCHANGED <<nodeIncident, emit, signals>>
    PROVE  NameInv'
BY DEF NameInv, Names

\* An event begins: every live node has an edge.
LEMMA BeginComponents ==
    ASSUME StateInv, ComponentInv, Unevicted,
           NEW s \in Scripts, NEW t \in Times, NEW k \in BOOLEAN, Begin(s, t, k)
    PROVE  LiveInv' /\ IncidentInv' /\ WalkInv' /\ NameInv'
<1>1. /\ pc = "idle" /\ pc' = "materialize"
      /\ UNCHANGED <<graph, updates, walk, maps, names, signals, smu, sweep>>
      /\ script = <<>> /\ Len(script) = 0
  BY DEF Begin, StateInv, PhaseInv
<1>2. LiveInv'
  <2>1. \A n \in graph.nodes : Touched(graph.made, n)
    BY <1>1 DEF ComponentInv, LiveInv
  <2> QED BY <1>1, <2>1 DEF LiveInv
<1>3. IncidentInv'
  <2>1. \A e : Unnamed(e)' <=> Unnamed(e)
    BY <1>1 DEF Unnamed
  <2>2. IncidentInv
    BY DEF ComponentInv
  <2> QED BY <1>1, <2>1, <2>2 DEF IncidentInv, names
<1>4. WalkInv'
  BY <1>1 DEF WalkInv, walk, StateInv, PhaseInv
<1>5. NameInv'
  BY <1>1, NamesQuiet DEF ComponentInv, walk, names
<1> QED BY <1>2, <1>3, <1>4, <1>5

\* Nothing is being walked.
LEMMA NoWalk ==
    ASSUME pc' \notin {"walk", "sum"}, seenNodes' = {}, frontier' = {}, seenEdges' = {},
           half' = None
    PROVE  WalkInv'
BY DEF WalkInv

\* A node is created: whatever is evicted has no edge.
LEMMA CreateNodeComponents ==
    ASSUME StateInv, ComponentInv, Unevicted, Unevicted', CreateNode
    PROVE  LiveInv' /\ IncidentInv' /\ WalkInv' /\ NameInv'
<1>1. /\ Good(graph) /\ Len(graph.made) \in Nat /\ script \in Seq(Ops)
      /\ ScriptOK(script, Len(graph.made)) /\ script # <<>> /\ Head(script).op = "node"
      /\ LiveInv /\ IncidentInv /\ NameInv
  BY MadeTyped DEF StateInv, ScriptInv, ScriptOK, CreateNode, ComponentInv
<1>2. /\ Head(script) \in Ops /\ Head(script) = script[1] /\ script' = Tail(script)
      /\ Len(script) \in Nat /\ Len(script') = Len(script) - 1 /\ Len(script) >= 1
      /\ \A j \in 1..Len(script) - 1 : script'[j] = script[j + 1]
  BY <1>1, TailOps DEF CreateNode
<1>3. PICK n \in NodeIds : n = Head(script).s
  BY <1>2 DEF Ops
<1>4. PICK h : h = Insert(graph, n)
  OBVIOUS
<1>5. Good(h) /\ h.made = graph.made /\ h.nodes = graph.nodes \cup {n}
  BY <1>1, <1>4, InsertFacts
<1>6. EvictAndForget(h) /\ UNCHANGED incidentSeq
  BY <1>3, <1>4 DEF CreateNode
<1>7. Extends(graph.made, h.made)
  BY <1>1, <1>5 DEF Extends
<1>8. /\ graph'.made = graph.made /\ nodeIncident' = nodeIncident
      /\ graph'.nodes \subseteq graph.nodes \cup {n}
  BY <1>1, <1>5, <1>6, <1>7, EvictSpares
<1>9. LiveInv'
  <2> SUFFICES ASSUME NEW v \in graph'.nodes, ~Touched(graph.made, v)
               PROVE  \E j \in 1..Len(script') : /\ script'[j].op = "edge"
                                                /\ v \in {script'[j].s, script'[j].d}
    BY <1>8 DEF LiveInv
  <2>1. \E j \in 1..Len(script) : /\ script[j].op = "edge"
                                 /\ v \in {script[j].s, script[j].d}
    <3>1. CASE v = n
      <4>1. 1 \in 1..Len(script) /\ script[1].op = "node" /\ script[1].s = n
        BY <1>1, <1>2, <1>3
      <4> QED BY <1>1, <3>1, <4>1 DEF ScriptOK
    <3>2. CASE v \in graph.nodes
      BY <1>1, <3>2 DEF LiveInv
    <3> QED BY <1>8, <3>1, <3>2
  <2>2. PICK j \in 1..Len(script) : script[j].op = "edge" /\ v \in {script[j].s, script[j].d}
    BY <2>1
  <2>3. j # 1
    BY <1>1, <1>2, <2>2
  <2>4. j - 1 \in 1..Len(script') /\ (j - 1) + 1 = j /\ j - 1 \in 1..Len(script) - 1
    BY <1>2, <2>3
  <2>5. script'[j - 1] = script[j]
    BY <1>2, <2>4
  <2> QED BY <2>2, <2>4, <2>5
<1>10. IncidentInv'
  <2>1. \A e : Unnamed(e)' <=> Unnamed(e)
    BY DEF CreateNode, Unnamed
  <2> QED BY <1>1, <1>8, <2>1 DEF IncidentInv
<1>11. WalkInv'
  BY NoWalk DEF CreateNode, walk, StateInv, PhaseInv
<1>12. NameInv'
  BY <1>1, <1>8, NamesQuiet DEF CreateNode, walk
<1> QED BY <1>9, <1>10, <1>11, <1>12

\* An edge is appended: it has still to be given to an incident.
LEMMA CreateEdgeComponents ==
    ASSUME StateInv, ComponentInv, Unevicted, Unevicted', CreateEdge
    PROVE  LiveInv' /\ IncidentInv' /\ WalkInv' /\ NameInv'
<1> DEFINE e == Len(graph.made) + 1
<1>1. /\ Good(graph) /\ when \in Times /\ script \in Seq(Ops) /\ script # <<>>
      /\ Head(script).op = "edge" /\ LiveInv /\ IncidentInv /\ NameInv
      /\ pc = "materialize" /\ pc' = pc
  BY DEF StateInv, ScriptInv, ScriptOK, DataInv, CreateEdge, ComponentInv
<1>2. /\ Head(script) = script[1] /\ script' = Tail(script)
      /\ Len(script) \in Nat /\ Len(script') = Len(script) - 1 /\ Len(script) >= 1
      /\ \A j \in 1..Len(script) - 1 : script'[j] = script[j + 1]
  BY <1>1, TailOps DEF CreateEdge
<1>3. /\ Len(updates) \in Nat /\ Len(updates') = Len(updates) + 1
      /\ updates'[Len(updates')] = e
      /\ \A k \in 1..Len(updates) : updates'[k] = updates[k]
      /\ Len(graph.made) \in Nat /\ e <= MaxEdges /\ Head(script) \in Ops
  BY UpdatesGrow
<1>4. PICK s \in NodeIds, d \in NodeIds : s = Head(script).s /\ d = Head(script).d
  BY <1>3 DEF Ops
<1>5. PICK h : h = Seat(graph, s, d, when)
  OBVIOUS
<1>6. /\ Good(h) /\ h.nodes = graph.nodes \cup {s, d}
      /\ Len(h.made) = e /\ h.made[e].src = s /\ h.made[e].dst = d
      /\ \A k \in 1..Len(graph.made) : h.made[k] = graph.made[k]
  BY <1>1, <1>3, <1>5, SeatFacts
<1>7. EvictAndForget(h) /\ UNCHANGED incidentSeq
  BY <1>4, <1>5 DEF CreateEdge
<1>8. Extends(graph.made, h.made)
  BY <1>3, <1>6 DEF Extends
<1>9. /\ graph'.made = h.made /\ nodeIncident' = nodeIncident
      /\ graph'.nodes \subseteq graph.nodes \cup {s, d}
  BY <1>1, <1>6, <1>7, <1>8, EvictSpares
<1>10. LiveInv'
  <2> SUFFICES ASSUME NEW v \in graph'.nodes, ~Touched(h.made, v)
               PROVE  \E j \in 1..Len(script') : /\ script'[j].op = "edge"
                                                /\ v \in {script'[j].s, script'[j].d}
    BY <1>9 DEF LiveInv
  <2>1. e \in 1..Len(h.made) /\ Ends(h.made, e) = {s, d}
    BY <1>3, <1>6 DEF Ends
  <2>2. v \notin {s, d}
    BY <2>1 DEF Touched
  <2>3. v \in graph.nodes /\ ~Touched(graph.made, v)
    BY <1>8, <1>9, <2>2, JoinedGrows
  <2>4. PICK j \in 1..Len(script) : script[j].op = "edge" /\ v \in {script[j].s, script[j].d}
    BY <1>1, <2>3 DEF LiveInv
  <2>5. j # 1
    BY <1>2, <1>4, <2>2, <2>4
  <2>6. j - 1 \in 1..Len(script') /\ (j - 1) + 1 = j /\ j - 1 \in 1..Len(script) - 1
    BY <1>2, <2>5
  <2>7. script'[j - 1] = script[j]
    BY <1>2, <2>6
  <2> QED BY <2>4, <2>6, <2>7
<1>11. IncidentInv'
  <2>1. ASSUME NEW k \in 1..Len(h.made), ~Unnamed(k)'
        PROVE  k \in 1..Len(graph.made) /\ ~Unnamed(k)
    <3>1. k # e
      <4>1. Len(updates') \in 1..Len(updates') /\ pc' # "emit"
        BY <1>1, <1>3
      <4> QED BY <1>3, <2>1, <4>1 DEF Unnamed
    <3>2. k \in 1..Len(graph.made)
      BY <1>3, <1>6, <3>1
    <3>3. ~Unnamed(k)
      <4> SUFFICES ASSUME NEW j \in 1..Len(updates), updates[j] = k PROVE FALSE
        BY DEF Unnamed
      <4>1. j \in 1..Len(updates') /\ updates'[j] = k /\ pc' # "emit"
        BY <1>1, <1>3
      <4> QED BY <2>1, <4>1 DEF Unnamed
    <3> QED BY <3>2, <3>3
  <2>2. ASSUME NEW k \in 1..Len(h.made), ~Unnamed(k)'
        PROVE  /\ nodeIncident[h.made[k].src] = nodeIncident[h.made[k].dst]
               /\ nodeIncident[h.made[k].src] # 0
    <3>1. k \in 1..Len(graph.made) /\ ~Unnamed(k)
      BY <2>1, <2>2
    <3>2. h.made[k] = graph.made[k]
      BY <1>6, <3>1
    <3> QED BY <1>1, <3>1, <3>2 DEF IncidentInv
  <2>3. \A n \in NodeIds : nodeIncident[n] # 0 => Touched(h.made, n)
    BY <1>1, <1>8, JoinedGrows DEF IncidentInv
  <2>4. \A n, m \in NodeIds :
           nodeIncident[n] = nodeIncident[m] /\ nodeIncident[n] # 0 => Joined(h.made, n, m)
    BY <1>1, <1>8, JoinedGrows DEF IncidentInv
  <2> QED BY <1>9, <2>2, <2>3, <2>4 DEF IncidentInv
<1>12. WalkInv'
  BY NoWalk DEF CreateEdge, walk, StateInv, PhaseInv
<1>13. NameInv'
  BY <1>1, <1>9, NamesQuiet DEF CreateEdge, walk
<1> QED BY <1>10, <1>11, <1>12, <1>13

\* Steps that change neither the graph nor what is known of incidents.
LEMMA ComponentsQuiet ==
    ASSUME StateInv, ComponentInv, Unevicted, Unevicted',
           UNCHANGED <<graph, script, updates, nodeIncident, emit, signals>>,
           pc # "emit", pc' # "emit"
    PROVE  LiveInv' /\ IncidentInv' /\ NameInv'
<1>1. LiveInv /\ IncidentInv /\ NameInv
  BY DEF ComponentInv
<1>2. LiveInv'
  BY <1>1 DEF LiveInv
<1>3. IncidentInv'
  <2>1. \A e : Unnamed(e)' <=> Unnamed(e)
    BY DEF Unnamed
  <2> QED BY <1>1, <2>1 DEF IncidentInv
<1> QED BY <1>1, <1>2, <1>3, NamesQuiet

\* An edge is being scored, and the walk begins at its ends.
LEMMA ScoringComponents ==
    ASSUME StateInv, ComponentInv, Unevicted, Unevicted',
           SetAuthKind \/ EventDone \/ ObserveTouch \/ RecordScore \/ WalkDone
    PROVE  LiveInv' /\ IncidentInv' /\ WalkInv' /\ NameInv'
<1>1. /\ UNCHANGED <<graph, script, updates, nodeIncident, emit, signals>>
      /\ pc # "emit" /\ pc' # "emit"
  BY DEF SetAuthKind, EventDone, ObserveTouch, RecordScore, WalkDone, event, walk, names
<1>2. LiveInv' /\ IncidentInv' /\ NameInv'
  BY <1>1, ComponentsQuiet
<1>3. CASE SetAuthKind \/ EventDone \/ ObserveTouch
  <2>1. /\ pc' \notin {"walk", "sum"} /\ pc \notin {"walk", "sum"}
        /\ UNCHANGED walk
    BY <1>3 DEF SetAuthKind, EventDone, ObserveTouch
  <2>2. seenNodes' = {} /\ frontier' = {} /\ seenEdges' = {} /\ half' = None
    BY <2>1 DEF StateInv, PhaseInv, walk
  <2> QED BY <1>2, <2>1, <2>2, NoWalk
<1>4. CASE RecordScore
  <2>1. /\ edge \in 1..Len(graph.made) /\ edge' = edge
        /\ graph.made[edge].src \in NodeIds /\ graph.made[edge].dst \in NodeIds
    BY <1>1, <1>4, EdgeInHand DEF RecordScore, StateInv, PhaseInv, edge
  <2>2. /\ seenNodes' = {} /\ seenEdges' = {} /\ half' = None
        /\ frontier' = Ends(graph.made, edge) /\ graph' = graph
    BY <1>4 DEF RecordScore, StateInv, PhaseInv, Ends
  <2>3. \A n \in Ends(graph.made, edge) :
           Touched(graph.made, n) /\ Joined(graph.made, graph.made[edge].src, n)
    BY <2>1, JoinedEdge, JoinedTrans DEF Ends, Touched
  <2>4. WalkInv'
    BY <2>1, <2>2, <2>3 DEF WalkInv
  <2> QED BY <1>2, <2>4
<1>5. CASE WalkDone
  <2>1. /\ pc = "walk" /\ UNCHANGED <<frontier, half, seenNodes, seenEdges>>
        /\ edge' = edge
    BY <1>1, <1>5 DEF WalkDone, walk, edge
  <2>2. WalkInv
    BY DEF ComponentInv
  <2> QED BY <1>1, <1>2, <2>1, <2>2 DEF WalkInv
<1> QED BY <1>3, <1>4, <1>5

\* An end of an edge of a node that was met is joined to it.
LEMMA MetGrows ==
    ASSUME StateInv, Unevicted, NEW e \in graph.edges, NEW n \in Ends(graph.made, e),
           NEW m \in Ends(graph.made, e), NEW x, Joined(graph.made, x, n)
    PROVE  Touched(graph.made, m) /\ Joined(graph.made, x, m)
<1>1. e \in 1..Len(graph.made)
  BY DEF Unevicted
<1>2. Joined(graph.made, n, m)
  BY <1>1, JoinedEdge, JoinedTrans DEF Ends
<1> QED BY <1>1, <1>2, JoinedTrans DEF Touched

\* One list of a node is read.
LEMMA WalkComponents ==
    ASSUME StateInv, ComponentInv, Unevicted, Unevicted',
           (\E n \in NodeIds : WalkOut(n)) \/ WalkIn
    PROVE  LiveInv' /\ IncidentInv' /\ WalkInv' /\ NameInv'
<1> DEFINE met == seenNodes \cup frontier
           from == graph.made[edge].src
<1>1. /\ UNCHANGED <<graph, script, updates, nodeIncident, emit, signals>>
      /\ pc = "walk" /\ pc' = "walk" /\ edge' = edge
  BY DEF WalkOut, WalkIn, event, names, edge
<1>2. LiveInv' /\ IncidentInv' /\ NameInv'
  BY <1>1, ComponentsQuiet
<1>3. /\ Ends(graph.made, edge) \subseteq met
      /\ \A e \in seenEdges : Ends(graph.made, e) \subseteq met
      /\ half # None => half \in seenNodes
      /\ \A n \in seenNodes : /\ graph.out[n] \subseteq seenEdges
                              /\ n # half => graph.in[n] \subseteq seenEdges
      /\ \A n \in met : Touched(graph.made, n) /\ Joined(graph.made, from, n)
  BY <1>1 DEF ComponentInv, WalkInv
<1>4. /\ seenNodes \subseteq NodeIds /\ half \in NodeIds \cup {None} /\ None \notin NodeIds
  BY IngestAssumption DEF StateInv, TypeOK
<1>5. \A n \in NodeIds :
         /\ graph.out[n] \subseteq graph.edges /\ graph.in[n] \subseteq graph.edges
         /\ \A e \in graph.out[n] : graph.made[e].src = n
         /\ \A e \in graph.in[n] : graph.made[e].dst = n
  BY MadeTyped DEF StateInv
<1>6. ASSUME NEW n \in NodeIds, WalkOut(n) PROVE WalkInv'
  <2> DEFINE new == {graph.made[e].dst : e \in graph.out[n] \ seenEdges}
             met1 == seenNodes' \cup frontier'
  <2>1. /\ half = None /\ n \in frontier /\ half' = n
        /\ seenNodes' = seenNodes \cup {n} /\ seenEdges' = seenEdges \cup graph.out[n]
        /\ met1 = met \cup new
    BY <1>6 DEF WalkOut
  <2>2. \A e \in graph.out[n] : Ends(graph.made, e) \subseteq met1
    <3> SUFFICES ASSUME NEW e \in graph.out[n] PROVE Ends(graph.made, e) \subseteq met1
      OBVIOUS
    <3>1. graph.made[e].src = n
      BY <1>5
    <3>2. CASE e \in seenEdges
      BY <1>3, <2>1, <3>2
    <3>3. CASE e \notin seenEdges
      BY <2>1, <3>1, <3>3 DEF Ends
    <3> QED BY <3>2, <3>3
  <2>3. \A m \in new : Touched(graph.made, m) /\ Joined(graph.made, from, m)
    <3> SUFFICES ASSUME NEW e \in graph.out[n]
                 PROVE  /\ Touched(graph.made, graph.made[e].dst)
                        /\ Joined(graph.made, from, graph.made[e].dst)
      OBVIOUS
    <3>1. /\ e \in graph.edges /\ n \in Ends(graph.made, e)
          /\ graph.made[e].dst \in Ends(graph.made, e)
      BY <1>5 DEF Ends
    <3>2. Joined(graph.made, from, n)
      BY <1>3, <2>1
    <3> HIDE DEF from
    <3> QED BY <3>1, <3>2, MetGrows
  <2> HIDE DEF new, met1, from
  <2>4. Ends(graph.made, edge) \subseteq met1
    BY <1>3, <2>1
  <2>5. \A e \in seenEdges' : Ends(graph.made, e) \subseteq met1
    BY <1>3, <2>1, <2>2
  <2>6. \A m \in seenNodes' : /\ graph.out[m] \subseteq seenEdges'
                              /\ m # half' => graph.in[m] \subseteq seenEdges'
    BY <1>3, <1>4, <2>1
  <2>7. \A m \in met1 : Touched(graph.made, m) /\ Joined(graph.made, from, m)
    BY <1>3, <2>1, <2>3
  <2> QED BY <1>1, <2>1, <2>4, <2>5, <2>6, <2>7 DEF WalkInv, met1, from
<1>7. ASSUME WalkIn PROVE WalkInv'
  <2> DEFINE new == {graph.made[e].src : e \in graph.in[half] \ seenEdges}
             met1 == seenNodes' \cup frontier'
  <2>1. /\ half # None /\ half \in seenNodes /\ half \in NodeIds /\ half' = None
        /\ seenNodes' = seenNodes /\ seenEdges' = seenEdges \cup graph.in[half]
        /\ met1 = met \cup new
    BY <1>3, <1>4, <1>7 DEF WalkIn
  <2>2. \A e \in graph.in[half] : Ends(graph.made, e) \subseteq met1
    <3> SUFFICES ASSUME NEW e \in graph.in[half] PROVE Ends(graph.made, e) \subseteq met1
      OBVIOUS
    <3>1. graph.made[e].dst = half
      BY <1>5, <2>1
    <3>2. CASE e \in seenEdges
      BY <1>3, <2>1, <3>2
    <3>3. CASE e \notin seenEdges
      BY <2>1, <3>1, <3>3 DEF Ends
    <3> QED BY <3>2, <3>3
  <2>3. \A m \in new : Touched(graph.made, m) /\ Joined(graph.made, from, m)
    <3> SUFFICES ASSUME NEW e \in graph.in[half]
                 PROVE  /\ Touched(graph.made, graph.made[e].src)
                        /\ Joined(graph.made, from, graph.made[e].src)
      OBVIOUS
    <3>1. /\ e \in graph.edges /\ half \in Ends(graph.made, e)
          /\ graph.made[e].src \in Ends(graph.made, e)
      BY <1>5, <2>1 DEF Ends
    <3>2. Joined(graph.made, from, half)
      BY <1>3, <2>1
    <3> HIDE DEF from
    <3> QED BY <3>1, <3>2, MetGrows
  <2> HIDE DEF new, met1, from
  <2>4. Ends(graph.made, edge) \subseteq met1
    BY <1>3, <2>1
  <2>5. \A e \in seenEdges' : Ends(graph.made, e) \subseteq met1
    BY <1>3, <2>1, <2>2
  <2>6. \A m \in seenNodes' : /\ graph.out[m] \subseteq seenEdges'
                              /\ m # half' => graph.in[m] \subseteq seenEdges'
    BY <1>3, <2>1
  <2>7. \A m \in met1 : Touched(graph.made, m) /\ Joined(graph.made, from, m)
    BY <1>3, <2>1, <2>3
  <2> QED BY <1>1, <2>1, <2>4, <2>5, <2>6, <2>7 DEF WalkInv, met1, from
<1> QED BY <1>2, <1>6, <1>7

\* The walk has met everything joined to where it began: an edge has both ends
\* among the nodes seen, or neither.
LEMMA WalkClosed ==
    ASSUME StateInv, ComponentInv, Unevicted, pc = "sum"
    PROVE  /\ Ends(graph.made, edge) \subseteq seenNodes
           /\ \A e \in seenEdges : Ends(graph.made, e) \subseteq seenNodes
           /\ \A e \in 1..Len(graph.made) :
                 graph.made[e].src \in seenNodes <=> graph.made[e].dst \in seenNodes
           /\ \A n \in seenNodes :
                 /\ Touched(graph.made, n)
                 /\ Joined(graph.made, graph.made[edge].src, n)
<1>1. frontier = {} /\ half = None /\ WalkInv /\ seenNodes \subseteq NodeIds
  BY DEF StateInv, TypeOK, PhaseInv, ComponentInv
<1>2. None \notin NodeIds
  BY IngestAssumption
<1>3. \A n \in seenNodes : graph.out[n] \subseteq seenEdges /\ graph.in[n] \subseteq seenEdges
  BY <1>1, <1>2 DEF WalkInv
<1>4. ASSUME NEW e \in 1..Len(graph.made)
      PROVE  graph.made[e].src \in seenNodes <=> graph.made[e].dst \in seenNodes
  <2>1. /\ e \in graph.edges
        /\ graph.made[e].src \in NodeIds /\ graph.made[e].dst \in NodeIds
    BY MadeTyped DEF Unevicted, StateInv
  <2>2. e \in graph.out[graph.made[e].src] /\ e \in graph.in[graph.made[e].dst]
    BY <2>1 DEF StateInv, Good, Linked
  <2>3. graph.made[e].src \in seenNodes => e \in seenEdges
    BY <1>3, <2>2
  <2>4. graph.made[e].dst \in seenNodes => e \in seenEdges
    BY <1>3, <2>2
  <2>5. e \in seenEdges => Ends(graph.made, e) \subseteq seenNodes
    BY <1>1 DEF WalkInv
  <2> QED BY <2>3, <2>4, <2>5 DEF Ends
<1> QED BY <1>1, <1>4 DEF WalkInv

\* The component gets its incident, and a signal names it.
LEMMA SumComponents ==
    ASSUME StateInv, ComponentInv, Unevicted, Unevicted',
           NEW crosses \in BOOLEAN, SumComponent(crosses)
    PROVE  LiveInv' /\ IncidentInv' /\ WalkInv' /\ NameInv'
<1>1. PICK i : i = ResolveIncident(seenNodes)
  OBVIOUS
<1>2. /\ nodeIncident' = MapMembers(seenNodes, i)
      /\ \/ \E h \in HotNodes(seenEdges \cap edgeScores) : emit' = [hot |-> h, incident |-> i]
         \/ emit' = None
      /\ pc = "sum" /\ pc' = "emit" /\ seenNodes' = {} /\ seenEdges' = {}
      /\ UNCHANGED <<graph, event, frontier, half, maps, signals, sweep>>
  BY <1>1 DEF SumComponent
<1>3. /\ TypeOK /\ seenNodes \in SUBSET NodeIds /\ incidentSeq \in Nat
      /\ nodeIncident \in [NodeIds -> 0..incidentSeq] /\ updates # <<>>
      /\ LiveInv /\ IncidentInv /\ NameInv
  BY <1>2 DEF StateInv, TypeOK, PhaseInv, ComponentInv
<1>4. \/ /\ i = incidentSeq + 1 /\ \A n \in seenNodes : nodeIncident[n] = 0
      \/ /\ i \in 1..incidentSeq
         /\ \E n \in seenNodes : nodeIncident[n] = i
         /\ \A n \in seenNodes : nodeIncident[n] # 0 => i <= nodeIncident[n]
  BY <1>1, <1>3, ResolveIncidentIs
<1>5. i \in Nat /\ i >= 1
  BY <1>3, <1>4
<1>6. \A n \in NodeIds :
         /\ nodeIncident'[n] = IF n \in seenNodes THEN i ELSE nodeIncident[n]
         /\ nodeIncident[n] \in Nat /\ nodeIncident[n] <= incidentSeq
  BY <1>2, <1>3 DEF MapMembers
<1>7. /\ Ends(graph.made, edge) \subseteq seenNodes
      /\ \A e \in seenEdges : Ends(graph.made, e) \subseteq seenNodes
      /\ \A e \in 1..Len(graph.made) :
            graph.made[e].src \in seenNodes <=> graph.made[e].dst \in seenNodes
      /\ \A n \in seenNodes :
            /\ Touched(graph.made, n)
            /\ Joined(graph.made, graph.made[edge].src, n)
  BY <1>2, WalkClosed
<1>8. /\ \A e \in 1..Len(graph.made) :
            graph.made[e].src \in NodeIds /\ graph.made[e].dst \in NodeIds
      /\ edge \in 1..Len(graph.made) /\ edge = updates[1] /\ graph' = graph
      /\ graph.made[edge].src \in NodeIds /\ updates' = updates /\ script' = script
  BY <1>2, <1>3, MadeTyped, EdgeInHand DEF StateInv, event
<1>9. LiveInv'
  BY <1>3, <1>8 DEF LiveInv
<1>10. IncidentInv'
  <2>1. ASSUME NEW e \in 1..Len(graph.made), ~Unnamed(e)'
        PROVE  /\ nodeIncident'[graph.made[e].src] = nodeIncident'[graph.made[e].dst]
               /\ nodeIncident'[graph.made[e].src] # 0
    <3>1. CASE e = edge
      BY <1>5, <1>6, <1>7, <1>8, <3>1 DEF Ends
    <3>2. CASE e # edge
      <4>1. ~Unnamed(e)
        <5> SUFFICES ASSUME NEW k \in 1..Len(updates), updates[k] = e PROVE FALSE
          BY DEF Unnamed
        <5>1. k # 1
          BY <1>8, <3>2
        <5> QED BY <1>8, <2>1, <5>1 DEF Unnamed
      <4>2. /\ nodeIncident[graph.made[e].src] = nodeIncident[graph.made[e].dst]
            /\ nodeIncident[graph.made[e].src] # 0
        BY <1>3, <4>1 DEF IncidentInv
      <4> QED BY <1>5, <1>6, <1>7, <1>8, <4>2
    <3> QED BY <3>1, <3>2
  <2>2. ASSUME NEW n \in NodeIds, nodeIncident'[n] # 0 PROVE Touched(graph.made, n)
    BY <1>3, <1>6, <1>7, <2>2 DEF IncidentInv
  <2> DEFINE from == graph.made[edge].src
  <2>3. ASSUME NEW n \in NodeIds, nodeIncident'[n] = i
        PROVE  Joined(graph.made, from, n)
    <3>1. CASE n \in seenNodes
      BY <1>7, <3>1
    <3>2. CASE n \notin seenNodes
      <4>1. nodeIncident[n] = i /\ i <= incidentSeq
        BY <1>6, <2>3, <3>2
      <4>2. PICK m \in seenNodes : nodeIncident[m] = i
        BY <1>3, <1>4, <4>1
      <4>3. Joined(graph.made, m, n)
        BY <1>3, <1>5, <4>1, <4>2 DEF IncidentInv
      <4> QED BY <1>7, <4>2, <4>3, JoinedTrans
    <3> QED BY <3>1, <3>2
  <2>4. ASSUME NEW n \in NodeIds, NEW m \in NodeIds,
               nodeIncident'[n] = nodeIncident'[m], nodeIncident'[n] # 0
        PROVE  Joined(graph.made, n, m)
    <3>1. CASE nodeIncident'[n] = i
      <4>1. Joined(graph.made, from, n) /\ Joined(graph.made, from, m)
        BY <2>3, <2>4, <3>1
      <4>2. Joined(graph.made, n, from)
        BY <1>8, <4>1, JoinedBack
      <4> QED BY <4>1, <4>2, JoinedTrans
    <3>2. CASE nodeIncident'[n] # i
      <4>1. nodeIncident[n] = nodeIncident[m] /\ nodeIncident[n] # 0
        BY <1>6, <2>4, <3>2
      <4> QED BY <1>3, <4>1 DEF IncidentInv
    <3> QED BY <3>1, <3>2
  <2> QED BY <1>8, <2>1, <2>2, <2>4 DEF IncidentInv
<1>11. WalkInv'
  <2>1. frontier' = {} /\ half' = None
    BY <1>2 DEF StateInv, PhaseInv
  <2> QED BY <1>2, <2>1, NoWalk
<1>12. NameInv'
  <2>1. ASSUME NEW s \in Emits, Names(s) PROVE Names(s)'
    <3>1. s.hot \in NodeIds /\ s.incident \in Nat
      BY DEF Emits
    <3>2. nodeIncident[s.hot] \in 1..s.incident
      BY <2>1 DEF Names
    <3>3. CASE s.hot \in seenNodes
      <4>1. i <= nodeIncident[s.hot]
        BY <1>4, <3>2, <3>3
      <4>2. nodeIncident'[s.hot] = i
        BY <1>6, <3>1, <3>3
      <4> QED BY <1>5, <3>1, <3>2, <4>1, <4>2 DEF Names
    <3>4. CASE s.hot \notin seenNodes
      BY <1>6, <3>1, <3>2, <3>4 DEF Names
    <3> QED BY <3>3, <3>4
  <2>2. ASSUME NEW h \in HotNodes(seenEdges \cap edgeScores), emit' = [hot |-> h, incident |-> i]
        PROVE  Names(emit)'
    <3>1. PICK e \in seenEdges : h = graph.made[e].dst
      BY HotNodesOf
    <3>2. h \in seenNodes
      BY <1>7, <3>1 DEF Ends
    <3>3. nodeIncident'[h] = i
      BY <1>3, <1>6, <3>2
    <3>4. emit'.hot = h /\ emit'.incident = i
      BY <2>2
    <3> QED BY <1>5, <3>3, <3>4 DEF Names
  <2>3. \A k \in 1..Len(signals) : signals[k] \in Emits
    BY DEF StateInv, DataInv
  <2>4. signals' = signals
    BY <1>2
  <2> QED BY <1>2, <1>3, <2>1, <2>2, <2>3, <2>4 DEF NameInv
<1> QED BY <1>9, <1>10, <1>11, <1>12

\* A signal is offered to the channel, or taken out of it.
LEMMA SignalComponents ==
    ASSUME StateInv, ComponentInv, Unevicted, Unevicted', OfferSignal \/ TakeSignal
    PROVE  LiveInv' /\ IncidentInv' /\ WalkInv' /\ NameInv'
<1>1. LiveInv /\ IncidentInv /\ WalkInv /\ NameInv /\ signals \in Seq(Emits)
  BY DEF ComponentInv, StateInv, DataInv
<1>2. UNCHANGED <<graph, script, nodeIncident>>
  BY DEF OfferSignal, TakeSignal, event, names
<1>3. LiveInv'
  BY <1>1, <1>2 DEF LiveInv
<1>4. CASE OfferSignal
  <2>1. updates \in Seq(EdgeIds) /\ updates # <<>> /\ pc = "emit"
    BY <1>4 DEF StateInv, TypeOK, PhaseInv, OfferSignal
  <2>2. /\ updates' = Tail(updates) /\ pc' = "next" /\ Len(updates) \in Nat
        /\ Len(updates') = Len(updates) - 1
        /\ \A j \in 1..Len(updates) - 1 : updates'[j] = updates[j + 1]
    BY <1>4, <2>1, TailOps DEF OfferSignal
  <2>3. ASSUME NEW e, ~Unnamed(e)' PROVE ~Unnamed(e)
    <3> SUFFICES ASSUME NEW k \in 1..Len(updates), updates[k] = e, k # 1 PROVE FALSE
      BY <2>1 DEF Unnamed
    <3>1. /\ k - 1 \in 1..Len(updates') /\ k - 1 \in 1..Len(updates) - 1
          /\ (k - 1) + 1 = k
      BY <2>2
    <3>2. updates'[k - 1] = e
      BY <2>2, <3>1
    <3> QED BY <2>2, <2>3, <3>1, <3>2 DEF Unnamed
  <2>4. IncidentInv'
    BY <1>1, <1>2, <2>3 DEF IncidentInv
  <2>5. WalkInv'
    <3>1. seenNodes' = {} /\ frontier' = {} /\ seenEdges' = {} /\ half' = None
      BY <1>4, <2>1 DEF OfferSignal, StateInv, PhaseInv
    <3> QED BY <2>2, <3>1, NoWalk
  <2>6. NameInv'
    <3>1. emit \in Emits \cup {None} /\ emit' = None
      BY <1>4 DEF StateInv, DataInv, OfferSignal
    <3>2. CASE emit # None /\ Len(signals) < SignalBuffer
      <4>1. signals' = Append(signals, emit) /\ emit \in Emits /\ Names(emit)
        BY <1>1, <1>4, <3>1, <3>2 DEF OfferSignal, NameInv
      <4>2. /\ Len(signals') = Len(signals) + 1 /\ Len(signals) \in Nat
            /\ signals'[Len(signals) + 1] = emit
            /\ \A k \in 1..Len(signals) : signals'[k] = signals[k]
        BY <1>1, <4>1, AppendProperties
      <4>3. \A k \in 1..Len(signals') : Names(signals'[k])
        BY <1>1, <4>1, <4>2 DEF NameInv
      <4> QED BY <1>2, <3>1, <4>3 DEF NameInv, Names
    <3>3. CASE ~(emit # None /\ Len(signals) < SignalBuffer)
      <4>1. signals' = signals
        BY <1>4, <3>3 DEF OfferSignal
      <4> QED BY <1>1, <1>2, <3>1, <4>1 DEF NameInv, Names
    <3> QED BY <3>2, <3>3
  <2> QED BY <1>3, <2>4, <2>5, <2>6
<1>5. CASE TakeSignal
  <2>1. /\ signals' = Tail(signals) /\ signals # <<>>
        /\ UNCHANGED <<graph, pc, event, walk, maps, names, smu, sweep>>
    BY <1>5 DEF TakeSignal
  <2>2. /\ Len(signals) \in Nat /\ Len(signals') = Len(signals) - 1
        /\ \A j \in 1..Len(signals) - 1 : signals'[j] = signals[j + 1]
    BY <1>1, <2>1, TailOps
  <2>3. IncidentInv'
    <3>1. \A e : Unnamed(e)' <=> Unnamed(e)
      BY <2>1 DEF Unnamed, event
    <3> QED BY <1>1, <1>2, <3>1 DEF IncidentInv
  <2>4. WalkInv'
    BY <1>1, <2>1 DEF WalkInv, walk, event, edge
  <2>5. NameInv'
    <3>1. \A k \in 1..Len(signals') : Names(signals'[k])
      BY <1>1, <2>2 DEF NameInv
    <3>2. emit' = emit
      BY <2>1 DEF walk
    <3> QED BY <1>1, <1>2, <3>1, <3>2 DEF NameInv, Names
  <2> QED BY <1>3, <2>3, <2>4, <2>5
<1> QED BY <1>4, <1>5

\* Every step keeps the components as they should be.
LEMMA ComponentStep ==
    ASSUME StateInv, ComponentInv, [Next]_vars
    PROVE  ComponentInv'
<1>1. CASE UNCHANGED vars
  BY <1>1 DEF vars, event, walk, maps, names, sweep, ComponentInv, LiveInv, IncidentInv, WalkInv,
              NameInv, Names, Unnamed, Unevicted, edge
<1>2. ASSUME Next, Unevicted' PROVE LiveInv' /\ IncidentInv' /\ WalkInv' /\ NameInv'
  <2>1. /\ Unevicted
        /\ \/ \E s \in Scripts, t \in Times, k \in BOOLEAN : Begin(s, t, k)
           \/ IngestStep
           \/ TakeSignal
    BY <1>2, WholeStep
  <2>2. CASE \E s \in Scripts, t \in Times, k \in BOOLEAN : Begin(s, t, k)
    BY <2>1, <2>2, BeginComponents
  <2>3. CASE CreateNode
    BY <1>2, <2>1, <2>3, CreateNodeComponents
  <2>4. CASE CreateEdge
    BY <1>2, <2>1, <2>4, CreateEdgeComponents
  <2>5. CASE SetAuthKind \/ EventDone \/ ObserveTouch \/ RecordScore \/ WalkDone
    BY <1>2, <2>1, <2>5, ScoringComponents
  <2>6. CASE (\E n \in NodeIds : WalkOut(n)) \/ WalkIn
    BY <1>2, <2>1, <2>6, WalkComponents
  <2>7. CASE \E crosses \in BOOLEAN : SumComponent(crosses)
    BY <1>2, <2>1, <2>7, SumComponents
  <2>8. CASE OfferSignal \/ TakeSignal
    BY <1>2, <2>1, <2>8, SignalComponents
  <2> QED BY <2>1, <2>2, <2>3, <2>4, <2>5, <2>6, <2>7, <2>8 DEF IngestStep
<1> QED BY <1>1, <1>2 DEF ComponentInv

-----------------------------------------------------------------------------
(* The scorer's maps, step by step *)

\* The steps that touch neither the graph nor the nodes of the scorer.
LEMMA FollowQuiet ==
    ASSUME FollowInv, UNCHANGED <<graph, edgeScores, authKinds, nodeLastTS, nodeIncident>>,
           \A k \in 1..Len(updates') : updates'[k] \in graph.edges,
           seenNodes' \cup frontier' \subseteq graph.nodes
    PROVE  FollowInv'
BY DEF FollowInv, ScorerFollowsGraph

\* Without retention nothing sweeps.
LEMMA NoSweep ==
    ASSUME StateInv, Roomy, Next
    PROVE  gmu = "free" /\ ~SweepStep /\ ~(\E c \in Times : Sweep(c))
<1>1. sweeps \in Nat /\ sweeps <= 0
  BY DEF StateInv, DataInv, Roomy
<1>2. gmu = "free"
  BY <1>1 DEF StateInv, SweepInv
<1> QED BY <1>1, <1>2 DEF SweepStep, Sweep, Prune, SweepForgetsNodes, SweepForgetsEdges, Roomy

\* Two at the most.
LEMMA PairSize ==
    ASSUME NEW x, NEW y
    PROVE  IsFiniteSet({x, y}) /\ Cardinality({x, y}) <= 2
<1>1. {x, y} = {x} \cup {y}
  OBVIOUS
<1>2. IsFiniteSet({x}) /\ Cardinality({x}) = 1
  BY FS_Singleton
<1>3. /\ IsFiniteSet({x} \cup {y})
      /\ Cardinality({x} \cup {y}) = IF y \in {x} THEN Cardinality({x}) ELSE Cardinality({x}) + 1
  BY <1>2, FS_AddElement
<1> QED BY <1>1, <1>2, <1>3

\* A node above which there are only two others is not over the bound.
LEMMA RoomLeft ==
    ASSUME Fits, NEW h, Good(h), NEW a, NEW b, NEW c, NEW v \in {a, b, c},
           v \in h.nodes, Above(h, v) \subseteq {a, b, c}
    PROVE  v \notin Overflow(h)
<1>1. PICK x, y : Above(h, v) \subseteq {x, y}
  <2>1. v \notin Above(h, v)
    BY DEF Above, Good, Typed, Graphs
  <2> QED BY <2>1
<1>2. IsFiniteSet({x, y}) /\ Cardinality({x, y}) <= 2
  BY PairSize
<1>3. Cardinality(Above(h, v)) <= Cardinality({x, y}) /\ Cardinality(Above(h, v)) \in Nat
  BY <1>1, <1>2, FS_Subset, FS_CardinalityType
<1>4. Cardinality({x, y}) \in Nat
  BY <1>2, FS_CardinalityType
<1>5. Cardinality(Above(h, v)) <= 2
  BY <1>2, <1>3, <1>4
<1> QED BY <1>3, <1>5, GraphAssumption DEF Overflow, Above, Fits

\* What the scorer holds it still finds after an eviction and its callback.
LEMMA EvictFollows ==
    ASSUME StateInv, ScorerFollowsGraph, NEW h, Good(h), EvictAndForget(h), UNCHANGED incidentSeq,
           graph.nodes \subseteq h.nodes, graph.edges \subseteq h.edges
    PROVE  ScorerFollowsGraph'
<1> DEFINE V == Overflow(h)
           D == DeadEdges(h, V)
<1>1. /\ graph'.nodes = h.nodes \ V /\ graph'.edges = h.edges \ D
      /\ edgeScores' = edgeScores \ D /\ authKinds' = authKinds \ D
      /\ nodeLastTS' = nodeLastTS \ V
      /\ \A n \in NodeIds : nodeIncident'[n] = IF n \in V THEN 0 ELSE nodeIncident[n]
  BY EvictState
<1> HIDE DEF V, D
<1> QED BY <1>1 DEF ScorerFollowsGraph

\* The edges this event made outlive the evictions of its later calls.
LEMMA EvictFresh ==
    ASSUME StateInv, Fits, NEW h, Good(h), EvictAndForget(h), UNCHANGED incidentSeq,
           NEW a \in NodeIds, NEW b \in NodeIds, NEW c \in NodeIds,
           NEW e \in h.edges,
           \A v \in Ends(h.made, e) : v \in {a, b, c} /\ Above(h, v) \subseteq {a, b, c}
    PROVE  /\ e \in graph'.edges
           /\ \A v \in Ends(h.made, e) : Above(graph', v) \subseteq {a, b, c}
<1> DEFINE V == Overflow(h)
<1>1. /\ Good(graph') /\ graph'.made = h.made
      /\ graph'.nodes = h.nodes \ V /\ graph'.edges = h.edges \ DeadEdges(h, V)
      /\ \A n \in NodeIds : graph'.seen[n] = IF n \in V THEN 0 ELSE h.seen[n]
  BY EvictState
<1>2. V \subseteq h.nodes /\ h.nodes \subseteq NodeIds
  BY OverflowLive, MadeTyped
<1>3. \A v \in Ends(h.made, e) : v \in h.nodes /\ v \notin V
  <2>1. \A v \in Ends(h.made, e) : v \in h.nodes
    BY MadeTyped DEF Ends
  <2> QED BY <2>1, RoomLeft
<1> HIDE DEF V
<1>4. \A v \in V : e \notin h.out[v] \cup h.in[v]
  BY <1>2, <1>3, MadeTyped DEF Ends
<1>5. e \in graph'.edges
  BY <1>1, <1>4 DEF DeadEdges
<1>6. \A v \in Ends(h.made, e) : Above(graph', v) \subseteq Above(h, v)
  <2> SUFFICES ASSUME NEW v \in Ends(h.made, e), NEW w \in graph'.nodes,
                      graph'.seen[w] > graph'.seen[v]
               PROVE  w \in h.nodes /\ h.seen[w] > h.seen[v]
    BY DEF Above
  <2>1. w \in h.nodes /\ w \notin V /\ v \notin V /\ v \in NodeIds /\ w \in NodeIds
    BY <1>1, <1>2, <1>3
  <2> QED BY <1>1, <2>1
<1> QED BY <1>5, <1>6

\* A node is created: the edges this event made are not evicted for it.
LEMMA CreateNodeFresh ==
    ASSUME StateInv, Fits, FreshInv, CreateNode
    PROVE  /\ FreshInv'
           /\ \A k \in 1..Len(updates) : updates[k] \in graph.edges => updates[k] \in graph'.edges
<1>1. /\ Good(graph) /\ Len(graph.made) \in Nat /\ script \in Seq(Ops)
      /\ ScriptOK(script, Len(graph.made)) /\ script # <<>> /\ pc = "materialize"
  BY MadeTyped DEF StateInv, ScriptInv, ScriptOK, CreateNode
<1>2. /\ Head(script) \in Ops /\ Head(script) = script[1] /\ script' = Tail(script)
      /\ Len(script) \in Nat /\ Len(script') = Len(script) - 1 /\ Len(script) >= 1
      /\ \A j \in 1..Len(script) - 1 : script'[j] = script[j + 1]
  BY <1>1, TailOps DEF CreateNode
<1>3. PICK n \in NodeIds : n = Head(script).s
  BY <1>2 DEF Ops
<1>4. PICK h : h = Insert(graph, n)
  OBVIOUS
<1>5. /\ Good(h) /\ h.made = graph.made /\ h.nodes = graph.nodes \cup {n} /\ h.edges = graph.edges
      /\ \A v \in graph.nodes : h.seen[v] = graph.seen[v]
  BY <1>1, <1>4, InsertFacts
<1>6. EvictAndForget(h) /\ UNCHANGED incidentSeq
  BY <1>3, <1>4 DEF CreateNode
<1>7. PICK a \in NodeIds, b \in NodeIds, c \in NodeIds :
        /\ \A j \in 1..Len(script) : {script[j].s, script[j].d} \subseteq {a, b, c}
        /\ \A k \in 1..Len(updates) : updates[k] \in graph.edges =>
              \A v \in Ends(graph.made, updates[k]) :
                 v \in {a, b, c} /\ Above(graph, v) \subseteq {a, b, c}
  BY <1>1 DEF FreshInv
<1>8. n \in {a, b, c}
  BY <1>2, <1>3, <1>7
<1>9. graph'.made = graph.made /\ graph'.edges \subseteq graph.edges
  BY <1>5, <1>6, EvictState
<1>10. ASSUME NEW k \in 1..Len(updates), updates[k] \in graph.edges
       PROVE  /\ updates[k] \in graph'.edges
              /\ \A v \in Ends(graph.made, updates[k]) :
                    v \in {a, b, c} /\ Above(graph', v) \subseteq {a, b, c}
  <2>1. PICK e \in graph.edges : e = updates[k]
    BY <1>10
  <2>2. \A v \in Ends(graph.made, e) : v \in {a, b, c} /\ Above(graph, v) \subseteq {a, b, c}
    BY <1>7, <2>1
  <2>3. \A v \in Ends(graph.made, e) : v \in graph.nodes
    BY <1>1, MadeTyped DEF Ends
  <2>4. \A v \in Ends(graph.made, e) : Above(h, v) \subseteq Above(graph, v) \cup {n}
    BY <1>5, <2>3 DEF Above
  <2>5. \A v \in Ends(h.made, e) : v \in {a, b, c} /\ Above(h, v) \subseteq {a, b, c}
    BY <1>5, <1>8, <2>2, <2>4
  <2>6. /\ e \in graph'.edges
        /\ \A v \in Ends(h.made, e) : Above(graph', v) \subseteq {a, b, c}
    BY <1>5, <1>6, <2>5, EvictFresh
  <2> QED BY <1>5, <2>1, <2>2, <2>6
<1>11. FreshInv'
  <2>1. \A j \in 1..Len(script') : {script'[j].s, script'[j].d} \subseteq {a, b, c}
    <3>1. \A j \in 1..Len(script') : j \in 1..Len(script) - 1 /\ j + 1 \in 1..Len(script)
      BY <1>2
    <3> QED BY <1>2, <1>7, <3>1
  <2>2. updates' = updates
    BY DEF CreateNode
  <2>3. \A k \in 1..Len(updates') : updates'[k] \in graph'.edges =>
           \A v \in Ends(graph'.made, updates'[k]) :
              v \in {a, b, c} /\ Above(graph', v) \subseteq {a, b, c}
    BY <1>9, <1>10, <2>2
  <2> QED BY <2>1, <2>3 DEF FreshInv
<1> QED BY <1>10, <1>11

LEMMA CreateNodeFollows ==
    ASSUME StateInv, Fits, FreshInv, FollowInv, CreateNode
    PROVE  FollowInv'
<1>1. /\ Good(graph) /\ pc = "materialize" /\ Head(script).s \in NodeIds
  <2>1. script \in Seq(Ops) /\ script # <<>>
    BY DEF StateInv, ScriptInv, ScriptOK, CreateNode
  <2>2. Head(script) \in Ops
    BY <2>1
  <2> QED BY <2>2 DEF Ops, StateInv, CreateNode
<1>2. PICK h : h = Insert(graph, Head(script).s)
  OBVIOUS
<1>3. /\ Good(h) /\ graph.nodes \subseteq h.nodes /\ graph.edges \subseteq h.edges
      /\ EvictAndForget(h) /\ UNCHANGED incidentSeq
  BY <1>1, <1>2, InsertFacts DEF CreateNode
<1>4. ScorerFollowsGraph'
  BY <1>3, EvictFollows DEF FollowInv
<1>5. seenNodes' = {} /\ frontier' = {} /\ updates' = updates
  BY <1>1 DEF CreateNode, walk, StateInv, PhaseInv
<1> QED BY <1>4, <1>5, CreateNodeFresh DEF FollowInv

\* An edge is appended: its ends are the newest nodes.
LEMMA CreateEdgeFresh ==
    ASSUME StateInv, Fits, FreshInv, CreateEdge
    PROVE  /\ FreshInv'
           /\ Len(graph.made) + 1 \in graph'.edges
           /\ \A k \in 1..Len(updates) : updates[k] \in graph.edges => updates[k] \in graph'.edges
<1> DEFINE e == Len(graph.made) + 1
<1>1. /\ Good(graph) /\ when \in Times /\ script \in Seq(Ops) /\ script # <<>>
      /\ pc = "materialize" /\ pc' = pc
  BY DEF StateInv, ScriptInv, ScriptOK, DataInv, CreateEdge
<1>2. /\ Head(script) = script[1] /\ script' = Tail(script)
      /\ Len(script) \in Nat /\ Len(script') = Len(script) - 1 /\ Len(script) >= 1
      /\ \A j \in 1..Len(script) - 1 : script'[j] = script[j + 1]
  BY <1>1, TailOps DEF CreateEdge
<1>3. /\ Len(updates) \in Nat /\ Len(updates') = Len(updates) + 1
      /\ updates'[Len(updates')] = e
      /\ \A k \in 1..Len(updates) : updates'[k] = updates[k]
      /\ Len(graph.made) \in Nat /\ e <= MaxEdges /\ Head(script) \in Ops
  BY UpdatesGrow
<1>4. PICK s \in NodeIds, d \in NodeIds : s = Head(script).s /\ d = Head(script).d
  BY <1>3 DEF Ops
<1>5. PICK h : h = Seat(graph, s, d, when)
  OBVIOUS
<1>6. /\ Good(h) /\ h.nodes = graph.nodes \cup {s, d} /\ h.edges = graph.edges \cup {e}
      /\ Len(h.made) = e /\ h.made[e].src = s /\ h.made[e].dst = d
      /\ \A k \in 1..Len(graph.made) : h.made[k] = graph.made[k]
      /\ \A v \in NodeIds :
            h.seen[v] = IF v = d THEN graph.clock + 2
                        ELSE IF v = s THEN graph.clock + 1 ELSE graph.seen[v]
  BY <1>1, <1>3, <1>5, SeatFacts
<1>7. EvictAndForget(h) /\ UNCHANGED incidentSeq
  BY <1>4, <1>5 DEF CreateEdge
<1>8. PICK a \in NodeIds, b \in NodeIds, c \in NodeIds :
        /\ \A j \in 1..Len(script) : {script[j].s, script[j].d} \subseteq {a, b, c}
        /\ \A k \in 1..Len(updates) : updates[k] \in graph.edges =>
              \A v \in Ends(graph.made, updates[k]) :
                 v \in {a, b, c} /\ Above(graph, v) \subseteq {a, b, c}
  BY <1>1 DEF FreshInv
<1>9. {s, d} \subseteq {a, b, c}
  BY <1>2, <1>4, <1>8
<1>10. /\ graph.clock \in Nat /\ graph.nodes \subseteq NodeIds
       /\ \A v \in NodeIds : graph.seen[v] \in Nat /\ graph.seen[v] <= graph.clock
  BY <1>1 DEF Good, Typed, Graphs, Ranked
<1>11. \A v \in {s, d} : Above(h, v) \subseteq {s, d}
  BY <1>6, <1>10 DEF Above
<1>12. \A k \in 1..Len(updates) : updates[k] \in 1..Len(graph.made)
  BY DEF StateInv, DataInv
<1>13. ASSUME NEW f \in h.edges,
              \A v \in Ends(h.made, f) : v \in {a, b, c} /\ Above(h, v) \subseteq {a, b, c}
       PROVE  /\ f \in graph'.edges
              /\ \A v \in Ends(h.made, f) :
                    v \in {a, b, c} /\ Above(graph', v) \subseteq {a, b, c}
  BY <1>6, <1>7, <1>13, EvictFresh
<1>14. ASSUME NEW k \in 1..Len(updates), updates[k] \in graph.edges
       PROVE  /\ updates[k] \in h.edges
              /\ \A v \in Ends(h.made, updates[k]) :
                    v \in {a, b, c} /\ Above(h, v) \subseteq {a, b, c}
  <2>1. PICK f \in graph.edges : f = updates[k]
    BY <1>14
  <2>2. f \in h.edges /\ f \in 1..Len(graph.made) /\ Ends(h.made, f) = Ends(graph.made, f)
    BY <1>1, <1>6, MadeTyped DEF Ends
  <2>3. \A v \in Ends(graph.made, f) : v \in {a, b, c} /\ Above(graph, v) \subseteq {a, b, c}
    BY <1>8, <2>1
  <2>4. \A v \in Ends(graph.made, f) : v \in graph.nodes
    BY <1>1, MadeTyped DEF Ends
  <2>5. \A v \in graph.nodes : Above(h, v) \subseteq Above(graph, v) \cup {s, d}
    BY <1>6, <1>10 DEF Above
  <2> QED BY <1>9, <2>1, <2>2, <2>3, <2>4, <2>5
<1>15. /\ e \in h.edges
       /\ \A v \in Ends(h.made, e) : v \in {a, b, c} /\ Above(h, v) \subseteq {a, b, c}
  BY <1>6, <1>9, <1>11 DEF Ends
<1>16. graph'.made = h.made /\ graph'.edges \subseteq h.edges
  BY <1>6, <1>7, EvictState
<1>17. e \notin 1..Len(graph.made)
  BY <1>3
<1>18. \A k \in 1..Len(updates) : updates[k] \in graph.edges => updates[k] \in graph'.edges
  BY <1>13, <1>14
<1> HIDE DEF e
<1>19. ASSUME NEW k \in 1..Len(updates'), updates'[k] \in graph'.edges
       PROVE  \A v \in Ends(graph'.made, updates'[k]) :
                 v \in {a, b, c} /\ Above(graph', v) \subseteq {a, b, c}
  <2> SUFFICES /\ updates'[k] \in h.edges
               /\ \A v \in Ends(h.made, updates'[k]) :
                     v \in {a, b, c} /\ Above(h, v) \subseteq {a, b, c}
    BY <1>13, <1>16
  <2>1. CASE k = Len(updates')
    BY <1>3, <1>15, <2>1
  <2>2. CASE k # Len(updates')
    <3>1. k \in 1..Len(updates) /\ updates'[k] = updates[k]
      BY <1>3, <2>2
    <3>2. updates[k] \in graph.edges
      BY <1>6, <1>12, <1>16, <1>17, <1>19, <3>1
    <3> QED BY <1>14, <3>1, <3>2
  <2> QED BY <2>1, <2>2
<1>20. FreshInv'
  <2>1. \A j \in 1..Len(script') : {script'[j].s, script'[j].d} \subseteq {a, b, c}
    <3>1. \A j \in 1..Len(script') : j \in 1..Len(script) - 1 /\ j + 1 \in 1..Len(script)
      BY <1>2
    <3> QED BY <1>2, <1>8, <3>1
  <2> QED BY <1>19, <2>1 DEF FreshInv
<1> QED BY <1>13, <1>15, <1>18, <1>20 DEF e

LEMMA CreateEdgeFollows ==
    ASSUME StateInv, Fits, FreshInv, FollowInv, CreateEdge
    PROVE  FollowInv'
<1>1. /\ Good(graph) /\ when \in Times /\ Head(script) \in Ops /\ pc = "materialize"
      /\ Len(graph.made) \in Nat /\ Len(graph.made) + 1 <= MaxEdges
      /\ Len(updates) \in Nat /\ Len(updates') = Len(updates) + 1
      /\ updates'[Len(updates')] = Len(graph.made) + 1
      /\ \A k \in 1..Len(updates) : updates'[k] = updates[k]
  BY UpdatesGrow DEF StateInv, DataInv, CreateEdge
<1>2. PICK s \in NodeIds, d \in NodeIds : s = Head(script).s /\ d = Head(script).d
  BY <1>1 DEF Ops
<1>3. PICK h : h = Seat(graph, s, d, when)
  OBVIOUS
<1>4. Good(h) /\ graph.nodes \subseteq h.nodes /\ graph.edges \subseteq h.edges
  BY <1>1, <1>3, SeatFacts
<1>5. EvictAndForget(h) /\ UNCHANGED incidentSeq
  BY <1>2, <1>3 DEF CreateEdge
<1>6. ScorerFollowsGraph'
  BY <1>4, <1>5, EvictFollows DEF FollowInv
<1>7. \A k \in 1..Len(updates') : updates'[k] \in graph'.edges
  <2> SUFFICES ASSUME NEW k \in 1..Len(updates') PROVE updates'[k] \in graph'.edges
    OBVIOUS
  <2>1. k \in 1..Len(updates) \/ k = Len(updates')
    BY <1>1
  <2> QED BY <1>1, <2>1, CreateEdgeFresh DEF FollowInv
<1>8. seenNodes' = {} /\ frontier' = {}
  BY <1>1 DEF CreateEdge, walk, StateInv, PhaseInv
<1> QED BY <1>6, <1>7, <1>8 DEF FollowInv

\* Every step keeps the scorer on live nodes and edges.
LEMMA FollowStep ==
    ASSUME StateInv, Roomy, FreshInv, FollowInv, [Next]_vars
    PROVE  FollowInv'
<1>1. /\ ScorerFollowsGraph /\ \A k \in 1..Len(updates) : updates[k] \in graph.edges
      /\ seenNodes \cup frontier \subseteq graph.nodes
  BY DEF FollowInv
<1>2. /\ graph.nodes \subseteq NodeIds
      /\ \A e \in graph.edges : graph.made[e].src \in graph.nodes /\ graph.made[e].dst \in graph.nodes
      /\ \A n \in NodeIds : graph.out[n] \subseteq graph.edges /\ graph.in[n] \subseteq graph.edges
  BY MadeTyped DEF StateInv
<1>3. updates # <<>> => edge \in graph.edges
  BY <1>1, EdgeInHand
<1>4. CASE UNCHANGED vars
  BY <1>4 DEF vars, event, walk, maps, names, sweep, FollowInv, ScorerFollowsGraph
<1>5. ASSUME NEW s \in Scripts, NEW t \in Times, NEW k \in BOOLEAN, Begin(s, t, k)
      PROVE  FollowInv'
  BY <1>1, <1>5, FollowQuiet DEF Begin, walk, maps, names
<1>6. CASE CreateNode \/ CreateEdge
  BY <1>6, CreateNodeFollows, CreateEdgeFollows DEF Roomy
<1>7. CASE SetAuthKind
  <2>1. /\ updates # <<>> /\ authKinds' \subseteq authKinds \cup {edge}
        /\ UNCHANGED <<graph, updates, edgeScores, nodeLastTS, nodeIncident, seenNodes, frontier>>
    BY <1>7 DEF SetAuthKind, event, walk, names
  <2>2. ScorerFollowsGraph'
    BY <1>1, <1>3, <2>1 DEF ScorerFollowsGraph
  <2> QED BY <1>1, <2>1, <2>2 DEF FollowInv
<1>8. CASE ObserveTouch
  <2>1. /\ updates # <<>>
        /\ nodeLastTS' = nodeLastTS \cup {graph.made[edge].src, graph.made[edge].dst}
        /\ UNCHANGED <<graph, updates, edgeScores, authKinds, nodeIncident, seenNodes, frontier>>
    BY <1>8 DEF ObserveTouch, event, walk, names, StateInv, PhaseInv
  <2>2. ScorerFollowsGraph'
    BY <1>1, <1>2, <1>3, <2>1 DEF ScorerFollowsGraph
  <2> QED BY <1>1, <2>1, <2>2 DEF FollowInv
<1>9. CASE RecordScore
  <2>1. /\ updates # <<>> /\ edgeScores' = edgeScores \cup {edge}
        /\ frontier' = {graph.made[edge].src, graph.made[edge].dst}
        /\ UNCHANGED <<graph, updates, authKinds, nodeLastTS, nodeIncident, seenNodes>>
    BY <1>9 DEF RecordScore, event, names, StateInv, PhaseInv
  <2>2. ScorerFollowsGraph'
    BY <1>1, <1>3, <2>1 DEF ScorerFollowsGraph
  <2> QED BY <1>1, <1>2, <1>3, <2>1, <2>2 DEF FollowInv
<1>10. ASSUME NEW n \in NodeIds, WalkOut(n) PROVE FollowInv'
  <2>1. /\ seenNodes' \cup frontier' \subseteq graph.nodes
        /\ UNCHANGED <<graph, updates, edgeScores, authKinds, nodeLastTS, nodeIncident>>
    BY <1>1, <1>2, <1>10 DEF WalkOut, event, maps, names
  <2> QED BY <1>1, <2>1, FollowQuiet
<1>11. CASE WalkIn
  <2>1. half \in NodeIds
    BY <1>11 DEF WalkIn, StateInv, TypeOK
  <2>2. /\ seenNodes' \cup frontier' \subseteq graph.nodes
        /\ UNCHANGED <<graph, updates, edgeScores, authKinds, nodeLastTS, nodeIncident>>
    BY <1>1, <1>2, <1>11, <2>1 DEF WalkIn, event, maps, names
  <2> QED BY <1>1, <2>2, FollowQuiet
<1>12. CASE WalkDone \/ EventDone
  <2>1. /\ UNCHANGED <<graph, updates, seenNodes, frontier>>
        /\ UNCHANGED <<edgeScores, authKinds, nodeLastTS, nodeIncident>>
    BY <1>12 DEF WalkDone, EventDone, event, walk, maps, names
  <2> QED BY <1>1, <2>1, FollowQuiet
<1>13. ASSUME NEW crosses \in BOOLEAN, SumComponent(crosses) PROVE FollowInv'
  <2>1. PICK i : nodeIncident' = MapMembers(seenNodes, i)
    BY <1>13 DEF SumComponent
  <2>2. /\ UNCHANGED <<graph, updates, frontier, edgeScores, authKinds, nodeLastTS>>
        /\ seenNodes' = {}
    BY <1>13 DEF SumComponent, event, maps
  <2>3. \A n \in NodeIds : nodeIncident'[n] # 0 => n \in graph.nodes
    BY <1>1, <2>1 DEF MapMembers, ScorerFollowsGraph
  <2>4. ScorerFollowsGraph'
    BY <1>1, <2>2, <2>3 DEF ScorerFollowsGraph
  <2> QED BY <1>1, <2>2, <2>4 DEF FollowInv
<1>14. CASE OfferSignal
  <2>1. /\ updates \in Seq(EdgeIds) /\ updates # <<>> /\ updates' = Tail(updates)
        /\ UNCHANGED <<graph, seenNodes, frontier>>
        /\ UNCHANGED <<edgeScores, authKinds, nodeLastTS, nodeIncident>>
    BY <1>14 DEF OfferSignal, maps, names, StateInv, TypeOK, PhaseInv
  <2>2. /\ Len(updates) \in Nat /\ Len(updates') = Len(updates) - 1
        /\ \A j \in 1..Len(updates) - 1 : updates'[j] = updates[j + 1]
    BY <2>1, TailOps
  <2>3. \A k \in 1..Len(updates') : k \in 1..Len(updates) - 1 /\ k + 1 \in 1..Len(updates)
    BY <2>2
  <2>4. \A k \in 1..Len(updates') : updates'[k] \in graph.edges
    BY <1>1, <2>2, <2>3
  <2> QED BY <1>1, <2>1, <2>4, FollowQuiet
<1>15. CASE TakeSignal
  BY <1>15 DEF TakeSignal, event, walk, maps, names, FollowInv, ScorerFollowsGraph
<1> QED BY <1>4, <1>5, <1>6, <1>7, <1>8, <1>9, <1>10, <1>11, <1>12, <1>13, <1>14, <1>15, NoSweep
        DEF Next, IngestStep

-----------------------------------------------------------------------------
(* What the scorer keeps too long, step by step *)

\* An event's edges are known edges, two at the most.
LEMMA PendingFew ==
    ASSUME StateInv, PairInv
    PROVE  /\ Pending \subseteq EdgeIds /\ IsFiniteSet(Pending)
           /\ Cardinality(Pending) \in Nat /\ Cardinality(Pending) <= 2
<1>1. updates \in Seq(EdgeIds) /\ Len(updates) \in Nat /\ Len(updates) <= 2
  BY DEF StateInv, TypeOK, PairInv
<1>2. Pending \subseteq {updates[1], updates[2]}
  <2>1. \A k \in 1..Len(updates) : k = 1 \/ k = 2
    BY <1>1
  <2> QED BY <2>1 DEF Pending
<1>3. PICK x, y : x = updates[1] /\ y = updates[2]
  OBVIOUS
<1>4. IsFiniteSet({x, y}) /\ Cardinality({x, y}) <= 2 /\ Cardinality({x, y}) \in Nat
  BY PairSize, FS_CardinalityType
<1>5. /\ IsFiniteSet(Pending) /\ Cardinality(Pending) <= Cardinality({x, y})
      /\ Cardinality(Pending) \in Nat
  BY <1>2, <1>3, <1>4, FS_Subset, FS_CardinalityType
<1>6. Pending \subseteq EdgeIds
  BY <1>1 DEF Pending
<1> QED BY <1>4, <1>5, <1>6

\* What is left are known edges.
LEMMA LeftFinite ==
    ASSUME StateInv
    PROVE  Left \subseteq EdgeIds /\ IsFiniteSet(Left) /\ Cardinality(Left) \in Nat
<1>1. updates \in Seq(EdgeIds) /\ edgeScores \cup authKinds \subseteq EdgeIds
  BY DEF StateInv, TypeOK
<1>2. Left \subseteq EdgeIds
  BY <1>1 DEF Left, Kept, Pending
<1>3. IsFiniteSet(EdgeIds)
  BY GraphAssumption, FS_Interval DEF EdgeIds
<1> QED BY <1>2, <1>3, FS_Subset, FS_CardinalityType

\* Where nothing more is left the bound holds on.
LEMMA CountHolds ==
    ASSUME StateInv, LeakInv, Left' \subseteq Left, UNCHANGED sweeps
    PROVE  Cardinality(Left') <= 2 * sweeps'
<1>1. IsFiniteSet(Left) /\ Cardinality(Left) \in Nat /\ sweeps \in Nat
  BY LeftFinite DEF StateInv, DataInv
<1>2. IsFiniteSet(Left') /\ Cardinality(Left') <= Cardinality(Left) /\ Cardinality(Left') \in Nat
  BY <1>1, FS_Subset, FS_CardinalityType
<1>3. Cardinality(Left) <= 2 * sweeps
  BY DEF LeakInv
<1> QED BY <1>1, <1>2, <1>3

\* The steps of scoring, and the channel: nothing is left but what was held, or
\* was still to be held.
LEMMA LeakQuiet ==
    ASSUME StateInv, LeakInv, PairInv', pc' # "materialize",
           UNCHANGED <<graph, gmu, doomed, sweeps>>,
           edgeScores' \cup authKinds' \subseteq edgeScores \cup authKinds \cup Pending,
           Pending' \subseteq Pending
    PROVE  LeakInv'
<1>1. Left' \subseteq Left
  BY DEF Left, Kept
<1>2. Cardinality(Left') <= 2 * sweeps'
  BY <1>1, CountHolds
<1>3. FreshInv' /\ (gmu' = "free" => doomed'.edges = {})
  BY DEF LeakInv, FreshInv
<1> QED BY <1>2, <1>3 DEF LeakInv

\* An event begins.
LEMMA BeginLeak ==
    ASSUME StateInv, LeakInv, NEW s \in Scripts, NEW t \in Times, NEW k \in BOOLEAN, Begin(s, t, k)
    PROVE  LeakInv'
<1>1. /\ updates = <<>> /\ updates' = <<>> /\ script' = s /\ graph' = graph
      /\ Len(graph.made) \in Nat /\ Len(graph.made) + 2 <= MaxEdges
      /\ UNCHANGED <<edgeScores, authKinds, gmu, doomed, sweeps>>
  BY MadeTyped DEF Begin, StateInv, PhaseInv, maps, sweep
<1>2. \E a, b, c \in NodeIds : \A j \in 1..Len(s) : {s[j].s, s[j].d} \subseteq {a, b, c}
  BY <1>1, ScriptBegins
<1>3. Len(updates') = 0
  BY <1>1
<1>4. FreshInv'
  BY <1>1, <1>2, <1>3 DEF FreshInv
<1>5. PairInv'
  BY <1>1, <1>3 DEF PairInv
<1>6. Left' = Left
  BY <1>1 DEF Left, Kept, Pending
<1>7. Cardinality(Left') <= 2 * sweeps'
  BY <1>1, <1>6, CountHolds
<1> QED BY <1>1, <1>4, <1>5, <1>7 DEF LeakInv

\* A node is created, and others evicted for it.
LEMMA CreateNodeLeak ==
    ASSUME StateInv, Fits, LeakInv, CreateNode
    PROVE  LeakInv'
<1>1. /\ Good(graph) /\ script \in Seq(Ops) /\ script # <<>> /\ pc = "materialize"
      /\ gmu = "free" /\ doomed.edges = {} /\ script' = Tail(script)
      /\ UNCHANGED <<updates, gmu, doomed, sweeps>>
  BY DEF StateInv, ScriptInv, ScriptOK, CreateNode, LeakInv, sweep
<1>2. /\ Head(script) \in Ops /\ Len(script) \in Nat /\ Len(script') = Len(script) - 1
      /\ \A j \in 1..Len(script) - 1 : script'[j] = script[j + 1]
  BY <1>1, TailOps
<1>3. PICK h : h = Insert(graph, Head(script).s)
  OBVIOUS
<1>4. /\ Good(h) /\ h.edges = graph.edges /\ EvictAndForget(h) /\ UNCHANGED incidentSeq
  BY <1>1, <1>2, <1>3, InsertFacts DEF CreateNode, Ops
<1>5. FreshInv' /\ \A k \in 1..Len(updates) : updates[k] \in graph.edges => updates[k] \in graph'.edges
  BY CreateNodeFresh DEF LeakInv
<1>6. PairInv'
  <2>1. \A j \in 1..Len(script') : j \in 1..Len(script) - 1 /\ j + 1 \in 1..Len(script)
    BY <1>2
  <2>2. \A j, k \in 1..Len(script') : j < k => j + 1 < k + 1
    OBVIOUS
  <2>3. PairInv
    BY DEF LeakInv
  <2> QED BY <1>1, <1>2, <2>1, <2>2, <2>3 DEF PairInv
<1>7. Left' \subseteq Left
  <2>1. Kept' \subseteq Kept
    <3> DEFINE D == DeadEdges(h, Overflow(h))
    <3>1. /\ graph'.edges = h.edges \ D
          /\ edgeScores' = edgeScores \ D /\ authKinds' = authKinds \ D
      BY <1>4, EvictState
    <3> HIDE DEF D
    <3> QED BY <1>1, <1>4, <3>1 DEF Kept
  <2>2. Pending' \ graph'.edges \subseteq Pending \ graph.edges
    BY <1>1, <1>5 DEF Pending
  <2> QED BY <2>1, <2>2 DEF Left
<1>8. Cardinality(Left') <= 2 * sweeps'
  BY <1>1, <1>7, CountHolds
<1> QED BY <1>1, <1>5, <1>6, <1>8 DEF LeakInv

\* An edge is appended: it is there, and so are those the event made before.
LEMMA CreateEdgeLeak ==
    ASSUME StateInv, Fits, LeakInv, CreateEdge
    PROVE  LeakInv'
<1>1. /\ Good(graph) /\ script \in Seq(Ops) /\ script # <<>> /\ pc = "materialize"
      /\ when \in Times /\ gmu = "free" /\ doomed.edges = {} /\ script' = Tail(script)
      /\ Head(script).op = "edge" /\ ScriptOK(script, Len(graph.made))
      /\ UNCHANGED <<gmu, doomed, sweeps>>
  BY DEF StateInv, ScriptInv, ScriptOK, DataInv, CreateEdge, LeakInv, sweep
<1>2. /\ Head(script) \in Ops /\ Head(script) = script[1]
      /\ Len(script) \in Nat /\ Len(script) >= 1 /\ Len(script') = Len(script) - 1
      /\ \A j \in 1..Len(script) - 1 : script'[j] = script[j + 1]
  BY <1>1, TailOps
<1>3. /\ Len(updates) \in Nat /\ Len(updates') = Len(updates) + 1
      /\ updates'[Len(updates')] = Len(graph.made) + 1
      /\ \A k \in 1..Len(updates) : updates'[k] = updates[k]
      /\ Len(graph.made) \in Nat /\ Len(graph.made) + 1 <= MaxEdges
  BY UpdatesGrow
<1>4. PICK h : h = Seat(graph, Head(script).s, Head(script).d, when)
  OBVIOUS
<1>5. /\ Good(h) /\ graph.edges \subseteq h.edges /\ EvictAndForget(h) /\ UNCHANGED incidentSeq
  BY <1>1, <1>2, <1>3, <1>4, SeatFacts DEF CreateEdge, Ops
<1>6. /\ FreshInv' /\ Len(graph.made) + 1 \in graph'.edges
      /\ \A k \in 1..Len(updates) : updates[k] \in graph.edges => updates[k] \in graph'.edges
  BY CreateEdgeFresh DEF LeakInv
<1>7. PairInv'
  <2>1. \A j \in 1..Len(script') : /\ j + 1 \in 1..Len(script) /\ 1 < j + 1
                                   /\ script'[j] = script[j + 1]
    BY <1>2
  <2>2. 1 \in 1..Len(script) /\ script[1].op = "edge"
    BY <1>1, <1>2
  <2>3. PairInv
    BY DEF LeakInv
  <2>4. Len(updates) <= 1
    BY <2>2, <2>3 DEF PairInv
  <2>5. ASSUME NEW j \in 1..Len(script'), script'[j].op = "edge" PROVE updates = <<>>
    BY <2>1, <2>2, <2>3, <2>5 DEF PairInv
  <2>6. ASSUME NEW j \in 1..Len(script'), NEW k \in 1..Len(script'),
               j < k, script'[j].op = "edge", script'[k].op = "edge"
        PROVE  FALSE
    <3>1. /\ j + 1 \in 1..Len(script) /\ k + 1 \in 1..Len(script)
          /\ script[j + 1].op = "edge" /\ script[k + 1].op = "edge"
      BY <2>1, <2>6
    <3>2. 1 < j + 1 /\ j + 1 < k + 1
      BY <2>1, <2>6
    <3>3. "node" \in {script[1].op, script[j + 1].op, script[k + 1].op}
      BY <1>1, <2>2, <3>1, <3>2 DEF ScriptOK
    <3> QED BY <2>2, <3>1, <3>3
  <2>7. updates = <<>> => Len(updates') <= 1
    <3>1. updates = <<>> => Len(updates) = 0
      OBVIOUS
    <3> QED BY <1>3, <3>1
  <2>8. Len(updates') <= 2
    BY <1>3, <2>4
  <2>9. (\E j \in 1..Len(script') : script'[j].op = "edge") => Len(updates') <= 1
    <3>1. (\E j \in 1..Len(script') : script'[j].op = "edge") => updates = <<>>
      BY <2>5
    <3> QED BY <2>7, <3>1
  <2>10. ~(\E j, k \in 1..Len(script') :
              j < k /\ script'[j].op = "edge" /\ script'[k].op = "edge")
    BY <2>6
  <2> QED BY <2>8, <2>9, <2>10 DEF PairInv
<1>8. Left' \subseteq Left
  <2>1. Kept' \subseteq Kept
    <3> DEFINE D == DeadEdges(h, Overflow(h))
    <3>1. /\ graph'.edges = h.edges \ D
          /\ edgeScores' = edgeScores \ D /\ authKinds' = authKinds \ D
      BY <1>5, EvictState
    <3> HIDE DEF D
    <3> QED BY <1>1, <1>5, <3>1 DEF Kept
  <2>2. Pending' \ graph'.edges \subseteq Pending \ graph.edges
    <3> SUFFICES ASSUME NEW k \in 1..Len(updates'), updates'[k] \notin graph'.edges
                 PROVE  updates'[k] \in Pending \ graph.edges
      BY DEF Pending
    <3>1. k # Len(updates')
      BY <1>3, <1>6
    <3>2. k \in 1..Len(updates) /\ updates'[k] = updates[k]
      BY <1>3, <3>1
    <3> QED BY <1>6, <3>2 DEF Pending
  <2> QED BY <2>1, <2>2 DEF Left
<1>9. Cardinality(Left') <= 2 * sweeps'
  BY <1>1, <1>8, CountHolds
<1> QED BY <1>1, <1>6, <1>7, <1>9 DEF LeakInv

\* The edge in hand is one of those to be scored.
LEMMA EdgePending ==
    ASSUME StateInv, updates # <<>>
    PROVE  edge \in Pending
BY EdgeInHand DEF Pending

\* The steps of the scoring loop.
LEMMA ScoringLeak ==
    ASSUME StateInv, LeakInv,
           \/ SetAuthKind \/ ObserveTouch \/ RecordScore \/ WalkIn \/ WalkDone \/ EventDone
           \/ (\E n \in NodeIds : WalkOut(n))
           \/ (\E crosses \in BOOLEAN : SumComponent(crosses))
    PROVE  LeakInv'
<1>1. /\ UNCHANGED <<graph, script, updates, gmu, doomed, sweeps>>
      /\ pc' # "materialize"
      /\ \/ UNCHANGED <<edgeScores, authKinds>>
         \/ /\ updates # <<>>
            /\ edgeScores' \subseteq edgeScores \cup {edge}
            /\ authKinds' \subseteq authKinds \cup {edge}
  <2>1. CASE SetAuthKind
    BY <2>1 DEF SetAuthKind, event, sweep
  <2>2. CASE ObserveTouch \/ WalkDone \/ EventDone
    BY <2>2 DEF ObserveTouch, WalkDone, EventDone, event, maps, sweep
  <2>3. CASE RecordScore
    BY <2>3 DEF RecordScore, event, sweep, StateInv, PhaseInv
  <2>4. CASE WalkIn
    BY <2>4 DEF WalkIn, event, maps, sweep
  <2>5. CASE \E n \in NodeIds : WalkOut(n)
    BY <2>5 DEF WalkOut, event, maps, sweep
  <2>6. CASE \E crosses \in BOOLEAN : SumComponent(crosses)
    BY <2>6 DEF SumComponent, event, maps, sweep
  <2> QED BY <2>1, <2>2, <2>3, <2>4, <2>5, <2>6
<1>2. edgeScores' \cup authKinds' \subseteq edgeScores \cup authKinds \cup Pending
  BY <1>1, EdgePending
<1>3. PairInv' /\ Pending' = Pending
  BY <1>1 DEF LeakInv, PairInv, Pending
<1> QED BY <1>1, <1>2, <1>3, LeakQuiet

\* An edge is done with.
LEMMA OfferLeak ==
    ASSUME StateInv, LeakInv, OfferSignal
    PROVE  LeakInv'
<1>1. /\ updates \in Seq(EdgeIds) /\ updates # <<>> /\ updates' = Tail(updates)
      /\ UNCHANGED <<graph, script, edgeScores, authKinds, gmu, doomed, sweeps>>
      /\ pc' # "materialize" /\ script = <<>> /\ Len(script) = 0
  BY DEF OfferSignal, StateInv, TypeOK, PhaseInv, maps, sweep
<1>2. /\ Len(updates) \in Nat /\ Len(updates') = Len(updates) - 1
      /\ \A j \in 1..Len(updates) - 1 : updates'[j] = updates[j + 1]
  BY <1>1, TailOps
<1>3. Pending' \subseteq Pending
  <2>1. \A k \in 1..Len(updates') : k \in 1..Len(updates) - 1 /\ k + 1 \in 1..Len(updates)
    BY <1>2
  <2> QED BY <1>2, <2>1 DEF Pending
<1>4. PairInv'
  <2>1. Len(updates) <= 2
    BY DEF LeakInv, PairInv
  <2> QED BY <1>1, <1>2, <2>1 DEF PairInv
<1> QED BY <1>1, <1>3, <1>4, LeakQuiet

\* A sweep leaves at most the edges of the event at work.
LEMMA SweepLeak ==
    ASSUME StateInv, LeakInv, NEW c \in Times, Sweep(c)
    PROVE  LeakInv'
<1>1. PICK V : V = Aged(graph, c)
  OBVIOUS
<1>2. PICK D : D = DeadEdges(graph, V)
  OBVIOUS
<1>3. /\ Good(graph) /\ V \in SUBSET graph.nodes /\ graph' = Remove(graph, V)
      /\ gmu = "free" /\ gmu' # "free" /\ doomed.edges = {} /\ doomed'.edges = D
      /\ sweeps \in Nat /\ sweeps' = sweeps + 1
      /\ UNCHANGED <<pc, script, updates, edgeScores, authKinds>>
  BY <1>1, <1>2 DEF StateInv, DataInv, Sweep, Prune, Aged, event, maps, LeakInv
<1>4. /\ Good(graph') /\ graph'.made = graph.made
      /\ graph'.nodes = graph.nodes \ V /\ graph'.edges = graph.edges \ D
      /\ \A n \in NodeIds : graph'.seen[n] = IF n \in V THEN 0 ELSE graph.seen[n]
  BY <1>2, <1>3, RemoveFacts
<1>5. FreshInv'
  <2> SUFFICES ASSUME pc = "materialize" PROVE FreshInv'
    BY <1>3 DEF FreshInv
  <2>1. PICK a \in NodeIds, b \in NodeIds, n \in NodeIds :
          /\ \A j \in 1..Len(script) : {script[j].s, script[j].d} \subseteq {a, b, n}
          /\ \A k \in 1..Len(updates) : updates[k] \in graph.edges =>
                \A v \in Ends(graph.made, updates[k]) :
                   v \in {a, b, n} /\ Above(graph, v) \subseteq {a, b, n}
    BY DEF LeakInv, FreshInv
  <2>2. ASSUME NEW f \in graph'.edges, NEW v \in Ends(graph.made, f)
        PROVE  Above(graph', v) \subseteq Above(graph, v)
    <3>1. v \in graph'.nodes /\ graph'.nodes \subseteq NodeIds
      BY <1>4, <2>2, MadeTyped DEF Ends
    <3>2. \A w \in graph'.nodes : w \in graph.nodes /\ graph'.seen[w] = graph.seen[w]
      BY <1>4, <3>1
    <3> QED BY <3>1, <3>2 DEF Above
  <2>3. ASSUME NEW k \in 1..Len(updates), updates[k] \in graph'.edges
        PROVE  \A v \in Ends(graph.made, updates[k]) :
                  v \in {a, b, n} /\ Above(graph', v) \subseteq {a, b, n}
    <3>1. PICK f \in graph'.edges : f = updates[k]
      BY <2>3
    <3>2. f \in graph.edges
      BY <1>4
    <3> QED BY <2>1, <2>2, <3>1, <3>2
  <2> QED BY <1>3, <1>4, <2>1, <2>3 DEF FreshInv
<1>6. PairInv /\ PairInv' /\ Pending' = Pending
  BY <1>3 DEF LeakInv, PairInv, Pending
<1>7. Left' \subseteq Left \cup Pending
  BY <1>3, <1>4, <1>6 DEF Left, Kept
<1>8. /\ IsFiniteSet(Left) /\ Cardinality(Left) \in Nat /\ Cardinality(Left) <= 2 * sweeps
      /\ IsFiniteSet(Pending) /\ Cardinality(Pending) \in Nat /\ Cardinality(Pending) <= 2
  BY <1>6, LeftFinite, PendingFew DEF LeakInv
<1>9. PICK U : U = Left \cup Pending
  OBVIOUS
<1>10. /\ IsFiniteSet(U) /\ Cardinality(U) \in Nat
       /\ Cardinality(U) <= Cardinality(Left) + Cardinality(Pending)
  <2>1. /\ IsFiniteSet(Left \cup Pending)
        /\ Cardinality(Left \cup Pending)
              = Cardinality(Left) + Cardinality(Pending) - Cardinality(Left \cap Pending)
    BY <1>8, FS_Union
  <2>2. IsFiniteSet(Left \cap Pending) /\ Cardinality(Left \cap Pending) \in Nat
    BY <1>8, FS_Subset, FS_CardinalityType
  <2> QED BY <1>8, <1>9, <2>1, <2>2, FS_CardinalityType
<1>11. Cardinality(Left') <= Cardinality(U) /\ Cardinality(Left') \in Nat
  BY <1>7, <1>9, <1>10, FS_Subset, FS_CardinalityType
<1>12. Cardinality(Left') <= 2 * sweeps'
  BY <1>3, <1>8, <1>10, <1>11
<1> QED BY <1>3, <1>5, <1>6, <1>12 DEF LeakInv

\* Every step keeps the bound.
LEMMA LeakStep ==
    ASSUME StateInv, Fits, LeakInv, [Next]_vars
    PROVE  LeakInv'
<1>1. ASSUME UNCHANGED <<graph, pc, script, updates, gmu, doomed, sweeps, edgeScores, authKinds>>
      PROVE  LeakInv'
  <2>1. FreshInv' /\ PairInv' /\ (gmu' = "free" => doomed'.edges = {})
    BY <1>1 DEF LeakInv, FreshInv, PairInv
  <2>2. Left' = Left
    BY <1>1 DEF Left, Kept, Pending
  <2> QED BY <1>1, <2>1, <2>2, CountHolds DEF LeakInv
<1>2. CASE UNCHANGED vars
  BY <1>1, <1>2 DEF vars, event, maps, sweep
<1>3. CASE TakeSignal
  BY <1>1, <1>3 DEF TakeSignal, event, maps, sweep
<1>4. CASE SweepStep
  <2>1. /\ UNCHANGED <<graph, pc, script, updates, sweeps>>
        /\ gmu # "free" /\ gmu' = "free" => doomed'.edges = {}
        /\ \/ UNCHANGED <<doomed, edgeScores, authKinds>>
           \/ /\ doomed'.edges = {}
              /\ edgeScores' = edgeScores \ doomed.edges
              /\ authKinds' = authKinds \ doomed.edges
    BY <1>4 DEF SweepStep, SweepForgetsNodes, SweepForgetsEdges, ForgetEdges, event
  <2>2. gmu # "free"
    BY <1>4 DEF SweepStep, SweepForgetsNodes, SweepForgetsEdges
  <2>3. Left' \subseteq Left
    BY <2>1 DEF Left, Kept, Pending
  <2>4. Cardinality(Left') <= 2 * sweeps'
    BY <2>1, <2>3, CountHolds
  <2>5. FreshInv' /\ PairInv'
    BY <2>1 DEF LeakInv, FreshInv, PairInv
  <2> QED BY <2>1, <2>2, <2>4, <2>5 DEF LeakInv
<1> QED BY <1>2, <1>3, <1>4, BeginLeak, CreateNodeLeak, CreateEdgeLeak, ScoringLeak, OfferLeak,
        SweepLeak DEF Next, IngestStep

-----------------------------------------------------------------------------
(* What ingest keeps *)

\* The initial state has no edge, no signal, and an empty scorer.
LEMMA IngestInit == Init => IInv
<1> SUFFICES ASSUME Init PROVE IInv
  OBVIOUS
<1>1. /\ graph.nodes = {} /\ graph.edges = {} /\ graph.made = <<>>
      /\ Len(graph.made) = 0 /\ pc = "idle" /\ updates = <<>> /\ Len(updates) = 0
      /\ signals = <<>> /\ Len(signals) = 0 /\ emit = None /\ half = None
      /\ frontier = {} /\ seenNodes = {} /\ seenEdges = {}
      /\ edgeScores = {} /\ authKinds = {} /\ nodeLastTS = {}
  BY DEF Init, EmptyGraph
<1>2. \A n \in NodeIds : nodeIncident[n] = 0
  BY DEF Init
<1>3. LiveInv /\ IncidentInv
  BY <1>1, <1>2 DEF LiveInv, IncidentInv
<1>4. WalkInv
  BY <1>1 DEF WalkInv
<1>5. NameInv
  BY <1>1 DEF NameInv
<1>6. FollowInv
  BY <1>1, <1>2 DEF FollowInv, ScorerFollowsGraph
<1>7. LeakInv
  <2>1. Left = {} /\ sweeps = 0 /\ doomed.edges = {}
    BY <1>1 DEF Init, Left, Kept, Pending
  <2>2. Cardinality(Left) = 0
    BY <2>1, FS_EmptySet
  <2>3. FreshInv /\ PairInv
    BY <1>1 DEF Init, FreshInv, PairInv
  <2> QED BY <2>1, <2>2, <2>3 DEF LeakInv
<1> QED BY <1>3, <1>4, <1>5, <1>6, <1>7, InitState DEF IInv, ComponentInv

\* The inductive invariant of ingest holds of every reachable state.
THEOREM IngestInvariant == Spec => []IInv
<1>1. IInv /\ [Next]_vars => IInv'
  <2> SUFFICES ASSUME IInv, [Next]_vars PROVE IInv'
    OBVIOUS
  <2>1. /\ StateInv /\ ComponentInv
        /\ Fits => LeakInv
        /\ Roomy => Fits /\ FollowInv
    BY DEF IInv, Roomy
  <2>2. StateInv' /\ ComponentInv'
    BY <2>1, StateStep, ComponentStep
  <2>3. Fits => LeakInv'
    BY <2>1, LeakStep
  <2>4. Roomy => FollowInv'
    BY <2>1, FollowStep DEF LeakInv
  <2>5. Fits' = Fits /\ Roomy' = Roomy
    BY DEF Fits, Roomy
  <2> QED BY <2>2, <2>3, <2>4, <2>5 DEF IInv
<1> QED BY <1>1, IngestInit, PTL DEF Spec

\* Every variable of the ingest goroutine, the scorer and the sweep keeps its
\* type, and no script asks for an edge beyond the bound.
THEOREM IngestTypeCorrect == Spec => []TypeOK
<1>1. IInv => TypeOK
  BY DEF IInv, StateInv
<1> QED BY <1>1, IngestInvariant, PTL

\* While no edge has been evicted, the incidents between two events are the
\* components of the graph: the walk, which reads one list at a time, met the
\* whole component, and resolveIncident merged all it met.
THEOREM IncidentsMatch == Spec => []IncidentsAreComponents
<1>1. IInv => IncidentsAreComponents
  <2> SUFFICES ASSUME IInv, pc = "idle", Unevicted, NEW n \in graph.nodes, NEW m \in graph.nodes
               PROVE  (nodeIncident[n] = nodeIncident[m]) <=> Connected(n, m)
    BY DEF IncidentsAreComponents
  <2>1. /\ StateInv /\ LiveInv /\ IncidentInv
        /\ updates = <<>> /\ Len(updates) = 0 /\ script = <<>> /\ Len(script) = 0
    BY DEF IInv, ComponentInv, StateInv, PhaseInv
  <2>2. /\ graph.nodes \subseteq NodeIds /\ graph.edges = 1..Len(graph.made)
        /\ \A e \in 1..Len(graph.made) :
              graph.made[e].src \in graph.nodes /\ graph.made[e].dst \in graph.nodes
    BY <2>1, MadeTyped DEF StateInv, Unevicted
  <2>3. \A e \in 1..Len(graph.made) :
           /\ nodeIncident[graph.made[e].src] = nodeIncident[graph.made[e].dst]
           /\ nodeIncident[graph.made[e].src] # 0
    BY <2>1 DEF IncidentInv, Unnamed
  <2>4. nodeIncident[n] # 0
    <3>1. PICK e \in 1..Len(graph.made) : n \in Ends(graph.made, e)
      BY <2>1 DEF LiveInv, Touched
    <3> QED BY <2>3, <3>1 DEF Ends
  <2>5. ASSUME nodeIncident[n] = nodeIncident[m] PROVE Connected(n, m)
    <3>1. Joined(graph.made, n, m)
      BY <2>1, <2>2, <2>4, <2>5 DEF IncidentInv
    <3> QED BY <2>2, <3>1 DEF Joined, Connected
  <2>6. ASSUME Connected(n, m) PROVE nodeIncident[n] = nodeIncident[m]
    <3> DEFINE S == {x \in graph.nodes : nodeIncident[x] = nodeIncident[n]}
    <3>1. S \in SUBSET graph.nodes /\ n \in S
      OBVIOUS
    <3>2. ASSUME NEW e \in graph.edges
          PROVE  (graph.made[e].src \in S) = (graph.made[e].dst \in S)
      <4>1. graph.made[e].src \in S <=> graph.made[e].dst \in S
        BY <2>2, <2>3
      <4> QED BY <4>1
    <3>3. m \in S
      <4> HIDE DEF S
      <4> QED BY <2>6, <3>1, <3>2 DEF Connected
    <3> QED BY <3>3
  <2> QED BY <2>5, <2>6
<1> QED BY <1>1, IngestInvariant, PTL

\* While no edge has been evicted, a signal in the channel names the incident
\* of its hot node, or one that a later merge has absorbed into it.
THEOREM SignalsName == Spec => []SignalsNameTheirIncident
<1>1. IInv => SignalsNameTheirIncident
  BY DEF IInv, ComponentInv, NameInv, Names, SignalsNameTheirIncident
<1> QED BY <1>1, IngestInvariant, PTL

\* Without retention, and with room for the three nodes of one event, the
\* eviction callback keeps the scorer on live nodes and edges: an edge is not
\* evicted between AppendEdge and its score.
THEOREM ScorerFollows == Roomy => (Spec => []ScorerFollowsGraphWhenIdle)
<1> SUFFICES ASSUME Roomy PROVE Spec => []ScorerFollowsGraphWhenIdle
  OBVIOUS
<1>1. IInv => ScorerFollowsGraphWhenIdle
  BY DEF IInv, FollowInv, ScorerFollowsGraphWhenIdle
<1> QED BY <1>1, IngestInvariant, PTL

\* With retention it does not: a sweep may remove an edge AppendEdge has made
\* and handleRaw has not scored yet, and nothing takes its score away again.
\* What the scorer keeps for ever is bounded by that: two edges, those of the
\* event at work, for each sweep that evicts something, and none for the
\* evictions of the count bound.
THEOREM LeakBounded ==
    Fits => (Spec => [](gmu = "free"
                          => Cardinality((edgeScores \cup authKinds) \ graph.edges) <= 2 * sweeps))
<1> DEFINE Bound == gmu = "free"
                     => Cardinality((edgeScores \cup authKinds) \ graph.edges) <= 2 * sweeps
<1> SUFFICES ASSUME Fits PROVE Spec => []Bound
  OBVIOUS
<1>1. IInv => Bound
  <2> SUFFICES ASSUME IInv, gmu = "free"
               PROVE  Cardinality((edgeScores \cup authKinds) \ graph.edges) <= 2 * sweeps
    OBVIOUS
  <2>1. PICK K : K = (edgeScores \cup authKinds) \ graph.edges
    OBVIOUS
  <2>2. StateInv /\ LeakInv /\ doomed.edges = {}
    BY DEF IInv, LeakInv
  <2>3. K \subseteq Left
    BY <2>1, <2>2 DEF Left, Kept
  <2>4. /\ IsFiniteSet(Left) /\ Cardinality(Left) \in Nat /\ Cardinality(Left) <= 2 * sweeps
        /\ sweeps \in Nat
    BY <2>2, LeftFinite DEF LeakInv, StateInv, DataInv
  <2>5. IsFiniteSet(K) /\ Cardinality(K) <= Cardinality(Left) /\ Cardinality(K) \in Nat
    BY <2>3, <2>4, FS_Subset, FS_CardinalityType
  <2> QED BY <2>1, <2>4, <2>5
<1> HIDE DEF Bound
<1>2. Spec => []Bound
  BY <1>1, IngestInvariant, PTL
<1> QED BY <1>2

-----------------------------------------------------------------------------
(* The engine's callers are callers of the graph *)

\* Every step of the ingest goroutine and of the sweep is one of the moves.
LEMMA IngestMoves ==
    ASSUME StateInv, [Next]_vars
    PROVE  Moves(graph, graph')
<1>1. CASE CreateNode
  <2>1. Head(script).s \in NodeIds
    <3>1. script \in Seq(Ops) /\ script # <<>>
      BY <1>1 DEF StateInv, ScriptInv, ScriptOK, CreateNode
    <3>2. Head(script) \in Ops
      BY <3>1
    <3> QED
      BY <3>2 DEF Ops
  <2>2. graph' = Evict(Insert(graph, Head(script).s))
    BY <1>1 DEF CreateNode, EvictAndForget, Evict
  <2> QED
    BY <2>1, <2>2 DEF Moves
<1>2. CASE CreateEdge
  <2>1. script \in Seq(Ops) /\ script # <<>> /\ Head(script).op = "edge"
    BY <1>2 DEF StateInv, ScriptInv, ScriptOK, CreateEdge
  <2>2. Head(script) \in Ops /\ Head(script) = script[1] /\ 1 \in 1..Len(script)
    BY <2>1
  <2>3. Len(graph.made) \in Nat /\ MaxEdges \in Nat
    BY GraphAssumption DEF StateInv, Good, Typed, Graphs
  <2>4. Len(graph.made) + 1 <= MaxEdges
    BY <2>1, <2>2 DEF StateInv, ScriptInv, ScriptOK
  <2>5. Len(graph.made) < MaxEdges
    BY <2>3, <2>4
  <2>6. graph' = Evict(Seat(graph, Head(script).s, Head(script).d, when))
    BY <1>2 DEF CreateEdge, EvictAndForget, Evict
  <2>7. Head(script).s \in NodeIds /\ Head(script).d \in NodeIds /\ when \in Times
    BY <2>2 DEF Ops, StateInv, DataInv
  <2> QED
    BY <2>5, <2>6, <2>7 DEF Moves
<1>3. CASE \E c \in Times : Sweep(c)
  BY <1>3 DEF Sweep, Prune, Moves
<1>4. CASE UNCHANGED graph
  BY <1>4 DEF Moves
<1>5. CASE \E n \in NodeIds : WalkOut(n)
  BY <1>4, <1>5 DEF WalkOut
<1>6. CASE \E crosses \in BOOLEAN : SumComponent(crosses)
  BY <1>4, <1>6 DEF SumComponent
<1>7. CASE \E s \in Scripts, t \in Times, k \in BOOLEAN : Begin(s, t, k)
  BY <1>4, <1>7 DEF Begin
<1>8. CASE SetAuthKind \/ ObserveTouch \/ RecordScore \/ WalkIn \/ WalkDone \/ EventDone
  BY <1>4, <1>8 DEF SetAuthKind, ObserveTouch, RecordScore, WalkIn, WalkDone, EventDone
<1>9. CASE OfferSignal \/ TakeSignal \/ SweepStep
  BY <1>4, <1>9 DEF OfferSignal, TakeSignal, SweepStep, SweepForgetsNodes, SweepForgetsEdges
<1>10. CASE UNCHANGED vars
  BY <1>4, <1>10 DEF vars
<1> QED
  BY <1>1, <1>2, <1>3, <1>5, <1>6, <1>7, <1>8, <1>9, <1>10 DEF Next, IngestStep

\* In the running engine too the graph has no dangling edge, keeps its bound and
\* its order, evicts the least recent first, sweeps only what is old, and holds
\* the edge it returns.
THEOREM IngestKeepsGraph ==
    Spec => /\ []WellLinked /\ []RecencyTotal /\ []WithinBound
            /\ LeastRecentFirst /\ SweepKeepsFresh /\ AppendedEdgeLives
<1> DEFINE A == graph'.clock > graph.clock =>
                   \A v \in graph.nodes \ graph'.nodes, w \in graph'.nodes :
                      graph.seen[v] < graph'.seen[w]
           B == \A c \in Times : Prune(c) =>
                  /\ \A e \in graph.edges : graph.made[e].ts >= c => e \in graph'.edges
                  /\ \A n \in graph.nodes :
                        graph.out[n] \cup graph.in[n] = {} => n \in graph'.nodes
           C == Len(graph'.made) > Len(graph.made) /\ maxNodes # 1
                  => Len(graph'.made) \in graph'.edges
<1>1. Init => GraphInv
  BY EmptyKeeps, GraphInvParts DEF Init, Good
<1>2. IInv /\ GraphInv /\ [Next]_vars => GraphInv'
  BY IngestMoves, MoveKeeps, GraphInvParts DEF IInv, StateInv, Good
<1>3. IInv /\ [Next]_vars => [A]_graph
  BY IngestMoves, MoveEvictsOldest DEF IInv, StateInv
<1>4. IInv /\ [Next]_vars => [B]_graph
  BY SweepSpares DEF IInv, StateInv, Prune
<1>5. IInv /\ [Next]_vars => [C]_graph
  BY IngestMoves, MoveKeepsNew DEF IInv, StateInv
<1>6. GraphInv => WellLinked /\ RecencyTotal /\ WithinBound
  BY DEF GraphInv
<1>7. Spec => []GraphInv
  BY <1>1, <1>2, IngestInvariant, PTL DEF Spec
<1>8. Spec => []WellLinked /\ []RecencyTotal /\ []WithinBound
  BY <1>6, <1>7, PTL
<1>9. Spec => LeastRecentFirst
  BY <1>3, IngestInvariant, PTL DEF Spec, LeastRecentFirst
<1>10. Spec => SweepKeepsFresh
  BY <1>4, IngestInvariant, PTL DEF Spec, SweepKeepsFresh
<1>11. Spec => AppendedEdgeLives
  BY <1>5, IngestInvariant, PTL DEF Spec, AppendedEdgeLives
<1> QED
  BY <1>8, <1>9, <1>10, <1>11
=============================================================================
