----------------------------- MODULE LiveGraph -----------------------------
(***************************************************************************)
(* The provenance graph the engine holds, and what is true of it whoever   *)
(* calls: ProvGraph lets anybody call anything, Ingest is the engine's own *)
(* callers.                                                                *)
(***************************************************************************)
EXTENDS GraphOps

VARIABLE graph

\* PruneOlderThan, but for its callback.
Prune(cutoff) == graph' = Remove(graph, Aged(graph, cutoff))

-----------------------------------------------------------------------------

\* Both endpoints of every live edge are live, each live edge stands exactly
\* in its source's out list and its destination's in list, and no list holds
\* an edge that has left: Snapshot and the adjacency reads never surface a
\* dangling edge, whatever was evicted while a caller held a pointer.
WellLinked ==
    /\ \A e \in graph.edges :
          {graph.made[e].src, graph.made[e].dst} \subseteq graph.nodes
    /\ \A n \in NodeIds :
          /\ graph.out[n] = {e \in graph.edges : graph.made[e].src = n}
          /\ graph.in[n] = {e \in graph.edges : graph.made[e].dst = n}

\* After every operation the count bound holds, also when an edge brings two
\* evicted endpoints back at once.
WithinBound == maxNodes > 0 => Cardinality(graph.nodes) <= maxNodes

\* Live nodes have distinct recencies and evicted ones none, so that the
\* eviction order is total (evictLocked's tie-break never decides).
RecencyTotal ==
    \A n, m \in NodeIds :
        /\ graph.seen[n] <= graph.clock
        /\ (n \in graph.nodes) <=> (graph.seen[n] > 0)
        /\ n \in graph.nodes /\ n # m => graph.seen[n] # graph.seen[m]

\* A call that touches a node evicts the least recently touched: nothing it
\* removes was touched later than anything that stays.
LeastRecentFirst ==
    [][graph'.clock > graph.clock =>
          \A v \in graph.nodes \ graph'.nodes, w \in graph'.nodes :
             graph.seen[v] < graph'.seen[w]]_graph

\* The age sweep never removes an edge at or after its cutoff, nor a node that
\* has no edge yet.
SweepKeepsFresh ==
    [][\A c \in Times : Prune(c) =>
          /\ \A e \in graph.edges : graph.made[e].ts >= c => e \in graph'.edges
          /\ \A n \in graph.nodes :
                graph.out[n] \cup graph.in[n] = {} => n \in graph'.nodes]_graph

\* The edge AppendEdge returns is in the graph when the call returns, unless
\* the bound has no room for its two endpoints.
AppendedEdgeLives ==
    [][Len(graph'.made) > Len(graph.made) /\ maxNodes # 1
          => Len(graph'.made) \in graph'.edges]_graph
=============================================================================
