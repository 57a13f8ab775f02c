------------------------------ MODULE Pipeline ------------------------------
(***************************************************************************)
(* Pipeline.Run (engine/internal/pipeline/pipeline.go) from the scorer's   *)
(* signals to the analyst: the ingest goroutine turns events into signals, *)
(* consumeSignals coalesces them per incident behind a debounce timer,     *)
(* extracts a chain for each pending incident and has the narrator and the *)
(* intel agent work on it before it goes on; shutdown comes from a signal  *)
(* to the process or from the idle watchdog.                               *)
(*                                                                         *)
(* What the graph knows of an incident is its level: the number of its     *)
(* events ingested.  A chain carries the level it was extracted at, and    *)
(* the level of the signal it answers.  The graph and the scorer behind    *)
(* the levels are Ingest's, the client stream behind sent is Broadcaster's.*)
(*                                                                         *)
(* Incidents are those followed here.  The engine may have any number of   *)
(* others; they are kept without a bound, as what they do to these: their  *)
(* signals fill the channel and start the shared timer again.              *)
(***************************************************************************)
EXTENDS Integers, Sequences, FiniteSets

CONSTANTS Incidents,     \* incident ids
          MaxEvents,     \* bound on the events ingested
          MaxSteps,      \* bound on the activity steps of one agent call
          SignalBuffer,  \* capacity of the signals channel
          Idle,          \* --incident-idle is given
          HasIntel,      \* an intel agent is configured
          None           \* no chain

ASSUME PipelineAssumption ==
    /\ MaxEvents \in Nat /\ MaxSteps \in Nat /\ SignalBuffer \in Nat \ {0}
    /\ {Idle, HasIntel} \subseteq BOOLEAN

Agents == {"narrator", "intel"}
Levels == 0..MaxEvents
Chains == [inc : Incidents, level : Levels, answers : Levels]

VARIABLES ctx,      \* "live", or why it was canceled
          source,   \* the events channel: "open" or "closed"
          ipc,      \* processEvents: "select", "score", "returned"
          drained,  \* processEvents has seen the source closed
          idle,     \* the idle timer: "off", "armed" or "fired"
          events,   \* number of events ingested
          scoring,  \* the incident of the event in hand, or None
          level,    \* level of each incident in the graph
          signals,  \* the scorer's channel
          cpc,      \* consumeSignals: "select", "flush", "hec", "agents", "returned"
          timer,    \* the debounce timer: "off", "armed", "fired"
          pending,  \* level of the pending signal of each incident; 0 is none
          todo,     \* incidents the current flush has still to handle
          chain,    \* the chain in hand, or None
          job,      \* the chain each agent works on, or None
          steps,    \* activity steps each agent has made for the chain it works on
          handled,  \* level at which each incident was last extracted
          sent      \* what was given to the broadcaster, in order

ingest   == <<source, ipc, drained, idle, events, scoring, level>>
consumer == <<cpc, timer, pending, todo, chain, job, steps, handled, sent>>
vars     == <<ctx, ingest, signals, consumer>>

Init == /\ ctx = "live" /\ source = "open"
        /\ ipc = "select" /\ drained = FALSE
        /\ idle = IF Idle THEN "armed" ELSE "off"
        /\ events = 0 /\ scoring = None
        /\ level = [i \in Incidents |-> 0] /\ signals = <<>>
        /\ cpc = "select" /\ timer = "off"
        /\ pending = [i \in Incidents |-> 0] /\ todo = {}
        /\ chain = None
        /\ job = [a \in Agents |-> None] /\ steps = [a \in Agents |-> 0]
        /\ handled = [i \in Incidents |-> 0]
        /\ sent = <<>>

-----------------------------------------------------------------------------
(* processEvents.  A select whose cases are ready together takes either, so  *)
(* no case is guarded by another.                                            *)

\* An event is materialized into the graph ...
Materialize(i) ==
    /\ ipc = "select" /\ source = "open"
    /\ events < MaxEvents
    /\ events' = events + 1
    /\ level' = [level EXCEPT ![i] = @ + 1]
    /\ scoring' = i
    /\ ipc' = "score"
    /\ UNCHANGED <<ctx, source, drained, idle, signals, consumer>>

\* ... then scored: a component over the threshold offers a signal, which a
\* full channel drops; what fills it may be signals of other incidents.  The
\* idle timer starts again.
Score ==
    /\ ipc = "score"
    /\ \/ UNCHANGED signals
       \/ /\ Len(signals) < SignalBuffer
          /\ signals' = Append(signals, [inc |-> scoring, level |-> level[scoring]])
    /\ idle' = IF Idle THEN "armed" ELSE "off"
    /\ ipc' = "select" /\ scoring' = None
    /\ UNCHANGED <<ctx, source, drained, events, level, consumer>>

\* The closed channel ends processEvents, or is set aside by the watchdog.
SeeClosed ==
    /\ ipc = "select" /\ source = "closed" /\ ~drained
    /\ drained' = TRUE
    /\ ipc' = IF Idle THEN "select" ELSE "returned"
    /\ UNCHANGED <<ctx, source, idle, events, scoring, level, signals, consumer>>

IngestCanceled ==
    /\ ipc = "select" /\ ctx # "live"
    /\ ipc' = "returned" /\ idle' = "off"
    /\ UNCHANGED <<ctx, source, drained, events, scoring, level, signals, consumer>>

\* OnIdle cancels the context of the whole engine.
IdleOut ==
    /\ ipc = "select" /\ idle = "fired"
    /\ ctx' = IF ctx = "live" THEN "idled" ELSE ctx
    /\ ipc' = "returned" /\ idle' = "off"
    /\ UNCHANGED <<source, drained, events, scoring, level, signals, consumer>>

-----------------------------------------------------------------------------
(* consumeSignals *)

\* Slip: the timer is stopped and drained, but not started again.
SlipTakeStopsTimer ==
    /\ cpc = "select" /\ signals # <<>>
    /\ pending' = [pending EXCEPT ![Head(signals).inc] = Head(signals).level]
    /\ timer' = "off"
    /\ signals' = Tail(signals)
    /\ UNCHANGED <<ctx, ingest, cpc, todo, chain, job, steps, handled, sent>>

\* The latest signal of an incident replaces the earlier one; the shared
\* timer is stopped, drained and started again.
TakeSignal ==
    /\ cpc = "select" /\ signals # <<>>
    /\ pending' = [pending EXCEPT ![Head(signals).inc] = Head(signals).level]
    /\ timer' = "armed"
    /\ signals' = Tail(signals)
    /\ UNCHANGED <<ctx, ingest, cpc, todo, chain, job, steps, handled, sent>>

\* The same with a signal of an incident that is not followed here.
TakeOther ==
    /\ cpc = "select"
    /\ timer' = "armed"
    /\ UNCHANGED <<ctx, ingest, signals, cpc, pending, todo, chain, job, steps, handled, sent>>

StartFlush ==
    /\ cpc = "select" /\ timer = "fired"
    /\ timer' = "off"
    /\ todo' = {i \in Incidents : pending[i] # 0}
    /\ cpc' = "flush"
    /\ UNCHANGED <<ctx, ingest, signals, pending, chain, job, steps, handled, sent>>

\* Slip: the consumer stays for as long as the source may deliver.
SlipCanceledIfClosed ==
    /\ cpc = "select" /\ ctx # "live" /\ source = "closed"
    /\ cpc' = "returned"
    /\ pending' = [i \in Incidents |-> 0] /\ timer' = "off"
    /\ UNCHANGED <<ctx, ingest, signals, todo, chain, job, steps, handled, sent>>

\* What is pending is dropped.
ConsumerCanceled ==
    /\ cpc = "select" /\ ctx # "live"
    /\ cpc' = "returned"
    /\ pending' = [i \in Incidents |-> 0] /\ timer' = "off"
    /\ UNCHANGED <<ctx, ingest, signals, todo, chain, job, steps, handled, sent>>

Report(kind, c) == [kind |-> kind, inc |-> c.inc, level |-> c.level, answers |-> c.answers]

\* handleSignal up to the chain_result broadcast.  The walk finds no step when
\* the hot node has been evicted since the signal.
Extract(i, found) ==
    /\ cpc = "flush" /\ i \in todo
    /\ todo' = todo \ {i}
    /\ handled' = [handled EXCEPT ![i] = level[i]]
    /\ LET c == [inc |-> i, level |-> level[i], answers |-> pending[i]] IN
       IF found
       THEN /\ chain' = c
            /\ sent' = Append(sent, Report("chain", c))
            /\ cpc' = "hec"
       ELSE UNCHANGED <<chain, sent, cpc>>
    /\ UNCHANGED <<ctx, ingest, signals, timer, pending, job, steps>>

\* The write-back, if any, succeeds or is given up; then the agents start.
SendHEC ==
    /\ cpc = "hec"
    /\ job' = [a \in Agents |-> IF a = "narrator" \/ HasIntel THEN chain ELSE None]
    /\ cpc' = "agents"
    /\ UNCHANGED <<ctx, ingest, signals, timer, pending, todo, chain, steps, handled, sent>>

Emit(a) ==
    /\ job[a] # None /\ steps[a] < MaxSteps
    /\ steps' = [steps EXCEPT ![a] = @ + 1]
    /\ sent' = Append(sent, Report("activity", job[a]))
    /\ UNCHANGED <<ctx, ingest, signals, cpc, timer, pending, todo, chain, job, handled>>

\* runNarration ends: a narration, or nothing after an error or a timeout.
Narrated(ok) ==
    /\ job["narrator"] # None
    /\ sent' = IF ok THEN Append(sent, Report("narration", job["narrator"])) ELSE sent
    /\ job' = [job EXCEPT !["narrator"] = None]
    /\ steps' = [steps EXCEPT !["narrator"] = 0]
    /\ UNCHANGED <<ctx, ingest, signals, cpc, timer, pending, todo, chain, handled>>

\* runIntel ends: its payload, or one that says it failed.
Enriched ==
    /\ job["intel"] # None
    /\ sent' = Append(sent, Report("threat_intel", job["intel"]))
    /\ job' = [job EXCEPT !["intel"] = None]
    /\ steps' = [steps EXCEPT !["intel"] = 0]
    /\ UNCHANGED <<ctx, ingest, signals, cpc, timer, pending, todo, chain, handled>>

\* Slip: handleSignal returns without waiting for the agents.
SlipNoWait ==
    /\ cpc = "agents"
    /\ chain' = None
    /\ cpc' = "flush"
    /\ UNCHANGED <<ctx, ingest, signals, timer, pending, todo, job, steps, handled, sent>>

AgentsDone ==
    /\ cpc = "agents"
    /\ \A a \in Agents : job[a] = None
    /\ chain' = None
    /\ cpc' = "flush"
    /\ UNCHANGED <<ctx, ingest, signals, timer, pending, todo, job, steps, handled, sent>>

\* Slip: the map of pending incidents is not replaced after a flush.
SlipFlushKeepsPending ==
    /\ cpc = "flush" /\ todo = {}
    /\ cpc' = "select"
    /\ UNCHANGED <<ctx, ingest, signals, pending, timer, todo, chain, job, steps,
                   handled, sent>>

FlushDone ==
    /\ cpc = "flush" /\ todo = {}
    /\ pending' = [i \in Incidents |-> 0]
    /\ cpc' = "select"
    /\ UNCHANGED <<ctx, ingest, signals, timer, todo, chain, job, steps, handled, sent>>

-----------------------------------------------------------------------------
(* The environment *)

SourceCloses ==
    /\ source = "open"
    /\ source' = "closed"
    /\ UNCHANGED <<ctx, ipc, drained, idle, events, scoring, level, signals, consumer>>

\* SIGINT or SIGTERM, or the server has failed.
Interrupt ==
    /\ ctx = "live"
    /\ ctx' = "interrupted"
    /\ UNCHANGED <<ingest, signals, consumer>>

TimerFires ==
    /\ timer = "armed"
    /\ timer' = "fired"
    /\ UNCHANGED <<ctx, ingest, signals, cpc, pending, todo, chain, job, steps, handled, sent>>

IdleFires ==
    /\ idle = "armed"
    /\ idle' = "fired"
    /\ UNCHANGED <<ctx, source, ipc, drained, events, scoring, level, signals, consumer>>

-----------------------------------------------------------------------------
IngestStep == Score \/ SeeClosed \/ IngestCanceled \/ IdleOut

ConsumerStep == \/ TakeSignal \/ StartFlush \/ ConsumerCanceled
                \/ \E i \in Incidents, found \in BOOLEAN : Extract(i, found)
                \/ SendHEC \/ AgentsDone \/ FlushDone

AgentStep(a) == \/ Emit(a)
                \/ a = "narrator" /\ \E ok \in BOOLEAN : Narrated(ok)
                \/ a = "intel" /\ Enriched

Next == \/ \E i \in Incidents : Materialize(i)
        \/ IngestStep
        \/ ConsumerStep
        \/ \E a \in Agents : AgentStep(a)
        \/ SourceCloses \/ Interrupt \/ TimerFires \/ IdleFires \/ TakeOther

Spec == Init /\ [][Next]_vars

\* Goroutines with something to do do it, and every agent call ends: it has a
\* timeout, and it makes finitely many steps.  A select chooses at random among
\* the cases that are ready, so it passes over none for ever.  The debounce
\* timer does not have to fire: a signal of any incident starts it again, so it
\* may stay armed for ever.  The same holds of the idle timer and the events.
\* Nothing obliges the source to deliver or close, other incidents to signal,
\* nor the operator to interrupt.
Fairness == /\ WF_vars(IngestStep) /\ WF_vars(ConsumerStep)
            /\ SF_vars(TakeSignal) /\ SF_vars(StartFlush) /\ SF_vars(ConsumerCanceled)
            /\ \A a \in Agents : WF_vars(AgentStep(a))

FairSpec == Spec /\ Fairness

-----------------------------------------------------------------------------
TypeOK == /\ ctx \in {"live", "interrupted", "idled"}
          /\ source \in {"open", "closed"}
          /\ scoring \in IF ipc = "score" THEN Incidents ELSE {None}
          /\ ipc \in {"select", "score", "returned"}
          /\ drained \in BOOLEAN /\ idle \in {"off", "armed", "fired"}
          /\ events \in Levels /\ level \in [Incidents -> Levels]
          /\ signals \in Seq([inc : Incidents, level : Levels])
          /\ Len(signals) <= SignalBuffer
          /\ cpc \in {"select", "flush", "hec", "agents", "returned"}
          /\ timer \in {"off", "armed", "fired"}
          /\ pending \in [Incidents -> Levels] /\ todo \subseteq Incidents
          /\ chain \in Chains \cup {None}
          /\ job \in [Agents -> Chains \cup {None}]
          /\ handled \in [Incidents -> Levels]

\* Everything the agents report, an activity step or a verdict, comes after
\* the chain it is about and before the incident's next chain: the analyst
\* never sees a narration of a chain that has been replaced (the wg.Wait of
\* handleSignal, against signals that keep arriving).
ReportsFollowTheirChain ==
    \A k \in 1..Len(sent) : sent[k].kind # "chain" =>
        \E j \in 1..(k - 1) :
            /\ sent[j] = [sent[k] EXCEPT !.kind = "chain"]
            /\ \A m \in (j + 1)..k : sent[m].kind = "chain" => sent[m].inc # sent[k].inc

\* A burst is answered once: a second chain of an incident answers a later
\* signal than the first.
BurstsCoalesce ==
    \A j, k \in 1..Len(sent) :
        (j < k /\ sent[j].kind = "chain" /\ sent[k].kind = "chain" /\ sent[j].inc = sent[k].inc)
            => sent[j].answers < sent[k].answers

\* Once canceled for whatever reason, Run returns: no pending incident, agent
\* or timer keeps it.
Returned == ipc = "returned" /\ cpc = "returned"
CancelEnds == (ctx # "live") ~> Returned

\* The signals, of all incidents together, pause for a debounce window now and
\* then, or stop: the timer they share does not stay armed for ever.
Pauses == []<>(timer # "armed")

\* If the signals pause, each that found room in the channel leads to an
\* extraction of its incident that sees its event, unless the engine is told to
\* stop.  Without pauses the code promises nothing: any incident's signals
\* less than a debounce window apart postpone every incident's flush.
SignalsAnswered == Pauses =>
    \A i \in Incidents, l \in 1..MaxEvents :
        (\E k \in 1..Len(signals) : signals[k] = [inc |-> i, level |-> l])
            ~> (handled[i] >= l \/ ctx # "live")
=============================================================================
