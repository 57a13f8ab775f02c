------------------------------ MODULE ProvGraph ------------------------------
(***************************************************************************)
(* The provenance graph as a shared object.  Every exported operation runs *)
(* under the graph mutex, so each is one step; any goroutine may call any  *)
(* of them in any order, and may append an edge between nodes it got from  *)
(* FindOrCreateNode however long ago.                                      *)
(***************************************************************************)
EXTENDS LiveGraph

CONSTANT MaxTouch   \* bound on the recency clock

ASSUME TouchAssumption == MaxTouch \in Nat

VARIABLE known  \* nodes some caller holds a pointer to
vars == <<graph, known>>

Init == /\ graph = EmptyGraph
        /\ known = {}

FindOrCreateNode(n) ==
    /\ graph.clock < MaxTouch
    /\ graph' = WithNode(graph, n)
    /\ known' = known \cup {n}

AppendEdge(s, d, t) ==
    /\ Len(graph.made) < MaxEdges
    /\ s \in known /\ d \in known
    /\ graph' = WithEdge(graph, s, d, t)
    /\ UNCHANGED known

PruneOlderThan(cutoff) ==
    /\ Prune(cutoff)
    /\ UNCHANGED known

Next == \/ \E n \in NodeIds : FindOrCreateNode(n)
        \/ \E s, d \in NodeIds, t \in Times : AppendEdge(s, d, t)
        \/ \E c \in Times : PruneOlderThan(c)

Spec == Init /\ [][Next]_vars

-----------------------------------------------------------------------------
\* Live edges are among those ever appended, which are never renumbered.
TypeOK == /\ graph \in Graphs
          /\ graph.edges \subseteq 1..Len(graph.made)
          /\ Len(graph.made) <= MaxEdges
          /\ known \subseteq NodeIds
=============================================================================
