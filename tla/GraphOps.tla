------------------------------ MODULE GraphOps ------------------------------
(***************************************************************************)
(* The operations of the provenance graph (engine/internal/graph/graph.go) *)
(* as functions from a graph to a graph: ProvGraph states what the graph   *)
(* keeps whoever calls it, Ingest calls it the way the pipeline does.      *)
(*                                                                         *)
(* Edges are numbered in the order AppendEdge creates them; an adjacency   *)
(* list is therefore a set of edge numbers in increasing order.            *)
(***************************************************************************)
EXTENDS Integers, FiniteSets, Sequences

CONSTANTS NodeIds,   \* deterministic node ids (NodeID of a kind and a key)
          MaxEdges,  \* bound on the number of edges ever appended
          Times,     \* event times, in seconds
          maxNodes   \* the count bound; 0 is unbounded

ASSUME GraphAssumption == /\ MaxEdges \in Nat
                          /\ Times \subseteq Nat
                          /\ maxNodes \in Nat
                          /\ IsFiniteSet(NodeIds)

EdgeIds == 1..MaxEdges

\* What an edge was created with.  A caller keeps the edge it was given, so
\* this is known also after the edge has left the graph.
EdgeRecs == [src : NodeIds, dst : NodeIds, ts : Times]

Graphs == [nodes : SUBSET NodeIds,           \* g.nodes
           edges : SUBSET EdgeIds,           \* g.edges
           made  : Seq(EdgeRecs),            \* every edge ever appended; edgeSeq
           out   : [NodeIds -> SUBSET EdgeIds],
           in    : [NodeIds -> SUBSET EdgeIds],
           seen  : [NodeIds -> Nat],         \* nodeLastSeen, 0 when absent
           clock : Nat]                      \* touchSeq

-----------------------------------------------------------------------------
Touch(g, n) == [g EXCEPT !.clock = @ + 1, !.seen[n] = g.clock + 1]

\* The least recently touched nodes over the bound: those with at least
\* maxNodes nodes touched after them.
Overflow(g) ==
    IF maxNodes = 0 \/ Cardinality(g.nodes) <= maxNodes THEN {}
    ELSE {v \in g.nodes :
            Cardinality({w \in g.nodes : g.seen[w] > g.seen[v]}) >= maxNodes}

\* Slip: the sweep judges a node by its oldest edge.
SlipAgedByOldest(g, cutoff) ==
    {v \in g.nodes : \E e \in g.out[v] \cup g.in[v] : g.made[e].ts < cutoff}

\* Nodes with an edge, all of whose edges fired before the cutoff.
Aged(g, cutoff) ==
    {v \in g.nodes : /\ g.out[v] \cup g.in[v] # {}
                     /\ \A e \in g.out[v] \cup g.in[v] : g.made[e].ts < cutoff}

\* The edges that leave with the victims, as found in the victims' lists.
DeadEdges(g, V) == g.edges \cap UNION {g.out[v] \cup g.in[v] : v \in V}

\* Slips are plausible mistakes, used only to see that the properties notice
\* them: here, only the outgoing lists of the survivors are compacted.
SlipCompactOutOnly(g, V) ==
    LET live == g.edges \ DeadEdges(g, V) IN
    [g EXCEPT !.nodes = @ \ V,
              !.edges = live,
              !.out = [n \in NodeIds |-> IF n \in V THEN {} ELSE g.out[n] \cap live],
              !.in = [n \in NodeIds |-> IF n \in V THEN {} ELSE g.in[n]],
              !.seen = [n \in NodeIds |-> IF n \in V THEN 0 ELSE g.seen[n]]]

\* Remove the victims and their edges, then compact the survivors' lists.
Remove(g, V) ==
    LET live == g.edges \ DeadEdges(g, V) IN
    [g EXCEPT !.nodes = @ \ V,
              !.edges = live,
              !.out = [n \in NodeIds |-> IF n \in V THEN {} ELSE g.out[n] \cap live],
              !.in = [n \in NodeIds |-> IF n \in V THEN {} ELSE g.in[n] \cap live],
              !.seen = [n \in NodeIds |-> IF n \in V THEN 0 ELSE g.seen[n]]]

\* Slip: the nodes touched last are evicted first.
SlipEvictNewest(g) ==
    Remove(g, IF maxNodes = 0 THEN {}
              ELSE {v \in g.nodes : Cardinality({w \in g.nodes :
                                      g.seen[w] < g.seen[v]}) >= maxNodes})

\* evictLocked
Evict(g) == Remove(g, Overflow(g))

\* FindOrCreateNode, before eviction: an existing node is not touched.
Insert(g, n) ==
    IF n \in g.nodes THEN g ELSE Touch([g EXCEPT !.nodes = @ \cup {n}], n)

WithNode(g, n) == IF n \in g.nodes THEN g ELSE Evict(Insert(g, n))

\* Slip: only the destination is touched, so a relinked source stays cold.
SlipSeatTouchesDst(g, s, d, t) ==
    LET e == Len(g.made) + 1
        h == [g EXCEPT !.nodes = @ \cup {s, d}, !.edges = @ \cup {e},
                       !.made = Append(@, [src |-> s, dst |-> d, ts |-> t]),
                       !.out[s] = @ \cup {e}, !.in[d] = @ \cup {e}]
    IN  Touch(h, d)

\* AppendEdge before eviction: relink either endpoint if it has been evicted,
\* seat the edge in both lists, touch source then destination.
Seat(g, s, d, t) ==
    LET e == Len(g.made) + 1
        h == [g EXCEPT !.nodes = @ \cup {s, d},
                       !.edges = @ \cup {e},
                       !.made = Append(@, [src |-> s, dst |-> d, ts |-> t]),
                       !.out[s] = @ \cup {e},
                       !.in[d] = @ \cup {e}]
    IN  Touch(Touch(h, s), d)

\* Slip: the bound is enforced when nodes are created, not when they are
\* brought back.
SlipEdgeUnbounded(g, s, d, t) == Seat(g, s, d, t)

WithEdge(g, s, d, t) == Evict(Seat(g, s, d, t))

EmptyGraph ==
    [nodes |-> {}, edges |-> {}, made |-> <<>>,
     out |-> [n \in NodeIds |-> {}], in |-> [n \in NodeIds |-> {}],
     seen |-> [n \in NodeIds |-> 0], clock |-> 0]
=============================================================================
