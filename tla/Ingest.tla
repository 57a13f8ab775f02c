------------------------------- MODULE Ingest -------------------------------
(***************************************************************************)
(* The ingest goroutine at work on the graph and the scorer: handleRaw     *)
(* materializes an event into graph calls, then scores each new edge and   *)
(* names the incident it belongs to (pipeline.go, scorer.go).  Meanwhile   *)
(* the retention sweep prunes the graph by age (main.go), and whichever    *)
(* goroutine evicts calls back into the scorer while it holds the graph    *)
(* mutex.                                                                  *)
(*                                                                         *)
(* Scores are abstract: a component either crosses the threshold or not.   *)
(* The broadcasts between the steps touch neither graph nor scorer; see    *)
(* Broadcaster.  An id "inc-k" is the number k + 1, and 0 is no incident.  *)
(***************************************************************************)
EXTENDS LiveGraph, Sequences

CONSTANTS MaxEvents,     \* bound on the events ingested
          MaxSweeps,     \* bound on the sweeps that evict something
          SignalBuffer,  \* capacity of the signals channel
          None           \* no value

ASSUME IngestAssumption == /\ MaxEvents \in Nat /\ MaxSweeps \in Nat
                           /\ SignalBuffer \in Nat \ {0}
                           /\ None \notin NodeIds

VARIABLES \* the ingest goroutine
          pc,        \* what it does next
          script,    \* graph calls left to make for this event
          when,      \* event time of this event
          auth,      \* this event's edges carry an auth kind
          updates,   \* edges made by this event and not yet scored
          events,    \* number of events begun
          \* the walk of componentMean
          frontier, half, seenNodes, seenEdges,
          emit,      \* the signal to be offered to the channel, or None
          \* the scorer
          edgeScores, authKinds, nodeLastTS,  \* the keys of the three maps
          nodeIncident, incidentSeq,
          signals,
          \* the mutexes, and the retention sweep
          gmu, smu, doomed, sweeps

event  == <<script, when, auth, updates, events>>
walk   == <<frontier, half, seenNodes, seenEdges, emit>>
maps   == <<edgeScores, authKinds, nodeLastTS>>
names  == <<nodeIncident, incidentSeq>>
sweep  == <<gmu, doomed, sweeps>>
vars   == <<graph, pc, event, walk, maps, names, signals, smu, sweep>>

Init == /\ graph = EmptyGraph
        /\ when \in Times
        /\ pc = "idle" /\ script = <<>> /\ auth = FALSE
        /\ updates = <<>> /\ events = 0
        /\ frontier = {} /\ half = None /\ seenNodes = {} /\ seenEdges = {}
        /\ emit = None
        /\ edgeScores = {} /\ authKinds = {} /\ nodeLastTS = {}
        /\ nodeIncident = [n \in NodeIds |-> 0] /\ incidentSeq = 0
        /\ signals = <<>>
        /\ gmu = "free" /\ smu = "free" /\ doomed = [nodes |-> {}, edges |-> {}]
        /\ sweeps = 0

-----------------------------------------------------------------------------
(* materialize *)

Node(n) == [op |-> "node", s |-> n, d |-> n]
Edge(s, d) == [op |-> "edge", s |-> s, d |-> d]

\* Process creation, authentication and most AD changes: one edge.
PairScript(a, b) == <<Node(a), Node(b), Edge(a, b)>>

\* MemberAdded with a member: the actor touched the group, and the member
\* gains it.
MemberScript(a, g, m) == PairScript(a, g) \o <<Node(m), Edge(m, g)>>

Scripts == {PairScript(a, b) : a, b \in NodeIds}
             \cup {MemberScript(a, g, m) : a, g, m \in NodeIds}

Begin(s, t, k) ==
    /\ pc = "idle"
    /\ events < MaxEvents
    /\ Len(graph.made) + 2 <= MaxEdges
    /\ k => \E a, b \in NodeIds : a # b /\ s = PairScript(a, b)
    /\ pc' = "materialize"
    /\ script' = s /\ when' = t /\ auth' = k
    /\ events' = events + 1
    /\ UNCHANGED <<graph, updates, walk, maps, names, signals, smu, sweep>>

\* PruneNodes
ForgetNodes(V) ==
    /\ nodeLastTS' = nodeLastTS \ V
    /\ nodeIncident' = [n \in NodeIds |-> IF n \in V THEN 0 ELSE nodeIncident[n]]

\* PruneEdges
ForgetEdges(D) == /\ edgeScores' = edgeScores \ D
                  /\ authKinds' = authKinds \ D

\* Slip: the callback passes on the victims but not their edges.
SlipEvictForgetsNodes(h) ==
    LET V == Overflow(h) IN
    /\ graph' = Remove(h, V)
    /\ ForgetNodes(V)
    /\ UNCHANGED <<edgeScores, authKinds>>

\* The count bound applied by the ingest goroutine itself, which holds the
\* graph mutex and takes the scorer's within the callback.
EvictAndForget(h) ==
    LET V == Overflow(h) IN
    /\ smu = "free"
    /\ graph' = Remove(h, V)
    /\ ForgetNodes(V)
    /\ ForgetEdges(DeadEdges(h, V))

CreateNode ==
    /\ pc = "materialize" /\ script # <<>> /\ Head(script).op = "node"
    /\ gmu = "free"
    /\ EvictAndForget(Insert(graph, Head(script).s))
    /\ script' = Tail(script)
    /\ UNCHANGED <<pc, when, auth, updates, events, walk, incidentSeq, signals,
                   smu, sweep>>

CreateEdge ==
    /\ pc = "materialize" /\ script # <<>> /\ Head(script).op = "edge"
    /\ gmu = "free"
    /\ EvictAndForget(Seat(graph, Head(script).s, Head(script).d, when))
    /\ updates' = Append(updates, Len(graph.made) + 1)
    /\ script' = Tail(script)
    /\ UNCHANGED <<pc, when, auth, events, walk, incidentSeq, signals, smu, sweep>>

-----------------------------------------------------------------------------
(* The scoring loop of handleRaw, one edge at a time *)

edge == Head(updates)

SetAuthKind ==
    /\ pc = "materialize" \/ pc = "next"
    /\ script = <<>> /\ updates # <<>> /\ smu = "free"
    /\ authKinds' = IF auth THEN authKinds \cup {edge} ELSE authKinds
    /\ pc' = "touch"
    /\ UNCHANGED <<graph, event, walk, edgeScores, nodeLastTS, names, signals,
                   smu, sweep>>

EventDone ==
    /\ pc = "next" /\ updates = <<>>
    /\ pc' = "idle"
    /\ UNCHANGED <<graph, event, walk, maps, names, signals, smu, sweep>>

\* observeTouch
ObserveTouch ==
    /\ pc = "touch" /\ smu = "free"
    /\ nodeLastTS' = nodeLastTS \cup {graph.made[edge].src, graph.made[edge].dst}
    /\ pc' = "record"
    /\ UNCHANGED <<graph, event, walk, edgeScores, authKinds, names, signals,
                   smu, sweep>>

\* freqRarity and the assignment to edgeScores
RecordScore ==
    /\ pc = "record" /\ smu = "free" /\ gmu = "free"
    /\ edgeScores' = edgeScores \cup {edge}
    /\ frontier' = {graph.made[edge].src, graph.made[edge].dst}
    /\ pc' = "walk"
    /\ UNCHANGED <<graph, event, half, seenNodes, seenEdges, emit, authKinds, nodeLastTS, names,
                   signals, smu, sweep>>

\* The walk reads the graph one adjacency list at a time, with no lock held
\* between the reads: OutEdges of a node ...
WalkOut(n) ==
    /\ pc = "walk" /\ half = None /\ n \in frontier
    /\ gmu = "free"
    /\ seenNodes' = seenNodes \cup {n}
    /\ seenEdges' = seenEdges \cup graph.out[n]
    /\ frontier' = (frontier \cup {graph.made[e].dst : e \in graph.out[n] \ seenEdges})
                      \ seenNodes'
    /\ half' = n
    /\ UNCHANGED <<graph, pc, event, emit, maps, names, signals, smu, sweep>>

\* ... then its InEdges.
WalkIn ==
    /\ pc = "walk" /\ half # None
    /\ gmu = "free"
    /\ seenEdges' = seenEdges \cup graph.in[half]
    /\ frontier' = (frontier \cup {graph.made[e].src : e \in graph.in[half] \ seenEdges})
                      \ seenNodes
    /\ half' = None
    /\ UNCHANGED <<graph, pc, event, seenNodes, emit, maps, names, signals, smu,
                   sweep>>

WalkDone ==
    /\ pc = "walk" /\ half = None /\ frontier = {} /\ smu = "free"
    /\ smu' = "ingest"
    /\ pc' = "sum"
    /\ UNCHANGED <<graph, event, walk, maps, names, signals, sweep>>

-----------------------------------------------------------------------------
\* Slip: the newest of the merged incidents survives.
SlipResolveLatest(members) ==
    LET held == {nodeIncident[n] : n \in members} \ {0} IN
    IF held = {} THEN incidentSeq + 1
    ELSE CHOOSE i \in held : \A j \in held : i >= j

\* resolveIncident: mint, reuse, or merge into the earliest.
ResolveIncident(members) ==
    LET held == {nodeIncident[n] : n \in members} \ {0} IN
    IF held = {} THEN incidentSeq + 1
    ELSE CHOOSE i \in held : \A j \in held : i <= j

\* Slip: only the nodes new to the incident are mapped.
SlipMapNewOnly(members, i) ==
    [n \in NodeIds |-> IF n \in members /\ nodeIncident[n] = 0 THEN i
                       ELSE nodeIncident[n]]

MapMembers(members, i) ==
    [n \in NodeIds |-> IF n \in members THEN i ELSE nodeIncident[n]]

\* Where a chain would start: the destination of a freshest scored edge of the
\* component; map order decides between edges of one second.
HotNodes(E) == {graph.made[e].dst : e \in {f \in E : \A h \in E : graph.made[h].ts <= graph.made[f].ts}}

\* Slip: the timestamps are read from the graph under the scorer mutex.
SlipSumReadsGraph(crosses) ==
    LET i == ResolveIncident(seenNodes)
        scored == seenEdges \cap edgeScores
    IN
    /\ pc = "sum" /\ gmu = "free"
    /\ nodeIncident' = MapMembers(seenNodes, i)
    /\ incidentSeq' = IF i > incidentSeq THEN i ELSE incidentSeq
    /\ IF crosses /\ scored # {}
       THEN \E h \in HotNodes(scored) : emit' = [hot |-> h, incident |-> i]
       ELSE emit' = None
    /\ smu' = "free"
    /\ pc' = "emit"
    /\ seenNodes' = {} /\ seenEdges' = {}
    /\ UNCHANGED <<graph, event, frontier, half, maps, signals, sweep>>

\* The locked part of componentMean, and the threshold test.
SumComponent(crosses) ==
    LET i == ResolveIncident(seenNodes)
        scored == seenEdges \cap edgeScores
    IN
    /\ pc = "sum"
    /\ nodeIncident' = MapMembers(seenNodes, i)
    /\ incidentSeq' = IF i > incidentSeq THEN i ELSE incidentSeq
    /\ IF crosses /\ scored # {}
       THEN \E h \in HotNodes(scored) : emit' = [hot |-> h, incident |-> i]
       ELSE emit' = None
    /\ smu' = "free"
    /\ pc' = "emit"
    /\ seenNodes' = {} /\ seenEdges' = {}
    /\ UNCHANGED <<graph, event, frontier, half, maps, signals, sweep>>

\* A full channel drops the signal.
OfferSignal ==
    /\ pc = "emit"
    /\ signals' = IF emit # None /\ Len(signals) < SignalBuffer
                  THEN Append(signals, emit) ELSE signals
    /\ emit' = None
    /\ updates' = Tail(updates)
    /\ pc' = "next"
    /\ UNCHANGED <<graph, script, when, auth, events, frontier, half, seenNodes,
                   seenEdges, maps, names, smu, sweep>>

\* consumeSignals takes a signal; Pipeline follows it from there.
TakeSignal ==
    /\ signals # <<>>
    /\ signals' = Tail(signals)
    /\ UNCHANGED <<graph, pc, event, walk, maps, names, smu, sweep>>

-----------------------------------------------------------------------------
(* The retention sweep: PruneOlderThan with the callback under the graph mutex *)

Sweep(cutoff) ==
    LET V == Aged(graph, cutoff) IN
    /\ gmu = "free" /\ V # {} /\ sweeps < MaxSweeps
    /\ gmu' = "sweep-nodes"
    /\ sweeps' = sweeps + 1
    /\ doomed' = [nodes |-> V, edges |-> DeadEdges(graph, V)]
    /\ Prune(cutoff)
    /\ UNCHANGED <<pc, event, walk, maps, names, signals, smu>>

SweepForgetsNodes ==
    /\ gmu = "sweep-nodes" /\ smu = "free"
    /\ ForgetNodes(doomed.nodes)
    /\ gmu' = "sweep-edges"
    /\ UNCHANGED <<graph, pc, event, walk, edgeScores, authKinds, incidentSeq,
                   signals, smu, doomed, sweeps>>

SweepForgetsEdges ==
    /\ gmu = "sweep-edges" /\ smu = "free"
    /\ ForgetEdges(doomed.edges)
    /\ gmu' = "free"
    /\ doomed' = [nodes |-> {}, edges |-> {}]
    /\ UNCHANGED <<graph, pc, event, walk, nodeLastTS, names, signals, smu, sweeps>>

-----------------------------------------------------------------------------
IngestStep == \/ CreateNode \/ CreateEdge
              \/ SetAuthKind \/ ObserveTouch \/ RecordScore
              \/ \E n \in NodeIds : WalkOut(n)
              \/ WalkIn \/ WalkDone
              \/ \E crosses \in BOOLEAN : SumComponent(crosses)
              \/ OfferSignal \/ EventDone

SweepStep == SweepForgetsNodes \/ SweepForgetsEdges

Next == \/ \E s \in Scripts, t \in Times, k \in BOOLEAN : Begin(s, t, k)
        \/ IngestStep
        \/ TakeSignal
        \/ \E c \in Times : Sweep(c)
        \/ SweepStep

Spec == Init /\ [][Next]_vars

\* Both goroutines run when they can; a waiter on a Go mutex is not passed
\* over for ever, and sweeps are at least 15 seconds apart.
FairSpec == Spec /\ SF_vars(IngestStep) /\ WF_vars(SweepStep)

-----------------------------------------------------------------------------
TypeOK == /\ graph \in Graphs
          /\ pc \in {"idle", "materialize", "touch", "record", "walk", "sum",
                     "emit", "next"}
          /\ updates \in Seq(EdgeIds) /\ events \in 0..MaxEvents
          /\ frontier \subseteq NodeIds /\ half \in NodeIds \cup {None}
          /\ seenNodes \subseteq NodeIds /\ seenEdges \subseteq EdgeIds
          /\ edgeScores \subseteq EdgeIds /\ authKinds \subseteq EdgeIds
          /\ nodeLastTS \subseteq NodeIds
          /\ incidentSeq \in Nat /\ nodeIncident \in [NodeIds -> 0..incidentSeq]
          /\ Len(signals) <= SignalBuffer
          /\ gmu \in {"free", "sweep-nodes", "sweep-edges"}
          /\ smu \in {"free", "ingest"}

\* Two nodes are connected when no set of nodes separates them.
Connected(n, m) ==
    \A S \in SUBSET graph.nodes :
        (n \in S /\ \A e \in graph.edges : (graph.made[e].src \in S) = (graph.made[e].dst \in S))
            => m \in S

\* Between events, two nodes carry the same incident exactly when they are
\* connected: components are neither confused nor split, through any order of
\* growth and merging.  Eviction breaks this (nothing splits an incident whose
\* component has come apart), so it is asked while every edge is still there.
Unevicted == graph.edges = 1..Len(graph.made)

IncidentsAreComponents ==
    pc = "idle" /\ Unevicted => \A n, m \in graph.nodes :
                      (nodeIncident[n] = nodeIncident[m]) <=> Connected(n, m)

\* A queued signal names the incident of its hot node, or one that a later
\* merge has absorbed into it (again, while every edge is there).
SignalsNameTheirIncident ==
    Unevicted => \A i \in 1..Len(signals) :
        nodeIncident[signals[i].hot] \in 1..signals[i].incident

\* The keys of the scorer's maps are live nodes and edges.
ScorerFollowsGraph ==
    /\ edgeScores \subseteq graph.edges /\ authKinds \subseteq graph.edges
    /\ nodeLastTS \subseteq graph.nodes
    /\ \A n \in NodeIds : nodeIncident[n] # 0 => n \in graph.nodes

\* Between events nothing evicted is left in the scorer: what main.go's
\* callback is for ("so the two stay consistent").
ScorerFollowsGraphWhenIdle ==
    pc = "idle" /\ gmu = "free" => ScorerFollowsGraph

\* Every event is eventually handled and every sweep ends: the ingest goroutine and the sweep never
\* wait for each other's mutex (graph before scorer, everywhere).
GoroutinesFinish == /\ (pc # "idle") ~> (pc = "idle")
                    /\ (gmu # "free") ~> (gmu = "free")
=============================================================================
