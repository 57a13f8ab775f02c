------------------------------- MODULE UiFeed -------------------------------
(***************************************************************************)
(* The browser's end of the stream: the WebSocket client with its retry    *)
(* timer (ui/src/ws.ts, EngineSocket) and the reducer it feeds             *)
(* (ui/src/App.tsx).  The engine appears as Feed describes it, a numbered  *)
(* log of which a new connection gets the last Window messages and then    *)
(* the rest, and the log is one the pipeline can publish: each extraction  *)
(* of an incident is a chain, agent steps, and at most one verdict of each *)
(* agent (see Pipeline).                                                   *)
(*                                                                         *)
(* Kept of the state is what concerns incidents; nodes, edges and logs are *)
(* keyed by id and a replay overwrites them with themselves.               *)
(***************************************************************************)
EXTENDS Integers, Sequences

CONSTANTS Incidents,
          Window,      \* messages a new connection starts with
          MaxLog,      \* bound on the messages published
          MaxSockets,  \* bound on the sockets ever opened
          InitialRetry, MaxRetry,
          None

ASSUME UiAssumption == /\ Window \in Nat /\ MaxLog \in Nat /\ MaxSockets \in Nat
                       /\ InitialRetry \in Nat \ {0}
                       /\ MaxRetry \in Nat /\ InitialRetry <= MaxRetry
                       /\ None \notin Incidents

VARIABLES
    \* the engine
    log,      \* messages published: kind, inc, and run, the chain they belong to
    work,     \* the extraction the agents are at, and the verdicts still due
    \* EngineSocket
    sockets,  \* state of each WebSocket opened so far; "silent" is open, but
              \* no longer served
    ws, intentionallyClosed, retryDelay,
    timers,   \* retries that are scheduled
    page,     \* the component that owns the client: "new", "mounted" or "unmounted"
    \* what the open socket has delivered
    pos,
    \* App
    status, incidents, active,
    \* history
    ideal,    \* incidents, for a client that has seen every message once
    at,       \* last message handled, which in a replay is an old one
    upto,     \* newest message handled
    gap,      \* a replay has started behind a message this client then needed
    torn      \* incidents whose replay starts behind their chain

engine == <<log, work, ideal>>
client == <<sockets, ws, intentionallyClosed, retryDelay, timers, page>>
app    == <<status, incidents, active>>
vars   == <<engine, client, pos, app, at, upto, gap, torn>>

Reports == {"agent_activity", "narration", "threat_intel"}

Blank == [chain |-> 0, narration |-> 0, threatIntel |-> 0,
          awaitingNarration |-> TRUE, awaitingIntel |-> TRUE, activity |-> <<>>]

Init == /\ log = <<>> /\ work = None
        /\ sockets = <<>> /\ ws = 0 /\ intentionallyClosed = FALSE
        /\ retryDelay = InitialRetry /\ timers = 0 /\ page = "new"
        /\ pos = 0
        /\ status = "connecting" /\ active = None
        /\ incidents = [i \in Incidents |-> None]
        /\ ideal = [i \in Incidents |-> None]
        /\ at = 0 /\ upto = 0 /\ gap = FALSE /\ torn = {}

-----------------------------------------------------------------------------
(* The reducer, on the incident a message names *)

\* incidentOrPlaceholder
OrPlaceholder(x) == IF x = None THEN Blank ELSE x

\* Slip: a fresh chain keeps the activity of the previous one.
SlipReduce(x, m) ==
    LET base == OrPlaceholder(x) IN
    CASE m.kind = "chain_result" ->
            [base EXCEPT !.chain = m.run, !.awaitingNarration = TRUE,
                         !.awaitingIntel = TRUE]
      [] m.kind = "narration" ->
            [base EXCEPT !.narration = m.run, !.awaitingNarration = FALSE]
      [] m.kind = "threat_intel" ->
            [base EXCEPT !.threatIntel = m.run, !.awaitingIntel = FALSE]
      [] m.kind = "agent_activity" ->
            [base EXCEPT !.activity = Append(@, m.n)]
      [] OTHER -> x

Reduce(x, m) ==
    LET base == OrPlaceholder(x) IN
    CASE m.kind = "chain_result" ->
            [base EXCEPT !.chain = m.run, !.activity = <<>>,
                         !.awaitingNarration = TRUE, !.awaitingIntel = TRUE]
      [] m.kind = "narration" ->
            [base EXCEPT !.narration = m.run, !.awaitingNarration = FALSE]
      [] m.kind = "threat_intel" ->
            [base EXCEPT !.threatIntel = m.run, !.awaitingIntel = FALSE]
      [] m.kind = "agent_activity" ->
            [base EXCEPT !.activity = Append(@, m.n)]
      [] OTHER -> x

\* A chain brings its incident to the front only the first time; a verdict
\* does so only when nothing is in front.
Activate(x, m) ==
    IF \/ m.kind = "chain_result" /\ OrPlaceholder(x).chain = 0
       \/ m.kind \in {"narration", "threat_intel"} /\ active = None
    THEN m.inc ELSE active

-----------------------------------------------------------------------------
(* The engine publishes *)

Publish(m) ==
    /\ Len(log) < MaxLog
    /\ log' = Append(log, m)
    /\ ideal' = IF m.inc = None THEN ideal
                ELSE [ideal EXCEPT ![m.inc] = Reduce(@, m)]
    /\ UNCHANGED <<client, pos, app, at, upto, gap, torn>>

Message(k, i, r) == [kind |-> k, inc |-> i, run |-> r, n |-> Len(log) + 1]

\* Between chains: graph_update, score_update, log_event.
PublishEvent == Publish(Message("event", None, 0)) /\ UNCHANGED work

PublishChain(i) ==
    /\ work = None
    /\ Publish(Message("chain_result", i, Len(log) + 1))
    /\ work' = [inc |-> i, run |-> Len(log) + 1, due |-> {"narration", "threat_intel"}]

PublishReport(k) ==
    /\ work # None
    /\ k = "agent_activity" \/ k \in work.due
    /\ Publish(Message(k, work.inc, work.run))
    /\ work' = [work EXCEPT !.due = @ \ {k}]

\* Both agents have returned; a narrator that failed has said nothing.
WorkEnds ==
    /\ work # None /\ "threat_intel" \notin work.due
    /\ work' = None
    /\ UNCHANGED <<log, ideal, client, pos, app, at, upto, gap, torn>>

-----------------------------------------------------------------------------
(* EngineSocket *)

Alive(s) == sockets[s] \in {"connecting", "open", "silent", "closing"}

Open == /\ sockets' = Append(sockets, "connecting")
        /\ ws' = Len(sockets) + 1

\* connect, when the component is mounted
Connect ==
    /\ page = "new" /\ Len(sockets) < MaxSockets
    /\ page' = "mounted"
    /\ intentionallyClosed' = FALSE /\ retryDelay' = InitialRetry
    /\ Open
    /\ UNCHANGED <<engine, timers, pos, app, at, upto, gap, torn>>

\* Slip: close leaves a scheduled retry alone.
SlipCloseKeepsTimer ==
    /\ page = "mounted"
    /\ page' = "unmounted"
    /\ intentionallyClosed' = TRUE
    /\ UNCHANGED timers
    /\ sockets' = IF ws # 0 /\ Alive(ws) THEN [sockets EXCEPT ![ws] = "closing"] ELSE sockets
    /\ ws' = 0
    /\ UNCHANGED <<engine, retryDelay, pos, app, at, upto, gap, torn>>

\* close, when it is unmounted
Close ==
    /\ page = "mounted"
    /\ page' = "unmounted"
    /\ intentionallyClosed' = TRUE
    /\ timers' = 0
    /\ sockets' = IF ws # 0 /\ Alive(ws) THEN [sockets EXCEPT ![ws] = "closing"] ELSE sockets
    /\ ws' = 0
    /\ UNCHANGED <<engine, retryDelay, pos, app, at, upto, gap, torn>>

Start == IF Len(log) < Window THEN 0 ELSE Len(log) - Window

\* The run of an agent step whose chain is not in the window any more, in
\* part already handled.
TornBy(start) ==
    {i \in Incidents : \E k \in (start + 1)..at :
        /\ log[k].inc = i /\ log[k].kind = "agent_activity" /\ log[k].run <= start}

\* onopen: the server has taken its snapshot.
OnOpen(s) ==
    /\ sockets[s] = "connecting"
    /\ sockets' = [sockets EXCEPT ![s] = "open"]
    /\ retryDelay' = InitialRetry
    /\ status' = "live"
    /\ pos' = Start
    /\ gap' = (gap \/ Start > at)
    /\ torn' = torn \cup TornBy(Start)
    /\ UNCHANGED <<engine, ws, intentionallyClosed, timers, page, incidents, active,
                   at, upto>>

\* A socket that is served goes on with the log.
OnMessage(s) ==
    LET m == log[pos + 1] IN
    /\ sockets[s] = "open" /\ pos < Len(log)
    /\ pos' = pos + 1 /\ at' = pos + 1
    /\ upto' = IF pos + 1 > upto THEN pos + 1 ELSE upto
    /\ IF m.inc = None THEN UNCHANGED <<incidents, active, torn>>
       ELSE /\ incidents' = [incidents EXCEPT ![m.inc] = Reduce(@, m)]
            /\ active' = Activate(incidents[m.inc], m)
            /\ torn' = IF m.kind = "chain_result" THEN torn \ {m.inc} ELSE torn
    /\ UNCHANGED <<engine, client, status, gap>>

\* The handler has returned (its client was dropped for being slow, the stream
\* was closed, or a write or a ping failed) and what it wrote has come in.  It
\* does not close the connection it took over, so the browser notices nothing.
HandlerReturns(s) ==
    /\ sockets[s] = "open"
    /\ sockets' = [sockets EXCEPT ![s] = "silent"]
    /\ UNCHANGED <<engine, ws, intentionallyClosed, retryDelay, timers, page, pos, app,
                   at, upto, gap, torn>>

\* Slip: onclose reports the drop and leaves it at that.
SlipNoRetry(s) ==
    /\ Alive(s)
    /\ sockets' = [sockets EXCEPT ![s] = "closed"]
    /\ UNCHANGED timers
    /\ status' = IF intentionallyClosed THEN status ELSE "reconnecting"
    /\ UNCHANGED <<engine, ws, intentionallyClosed, retryDelay, page, pos, incidents,
                   active, at, upto, gap, torn>>

\* onclose, when the connection is refused, breaks, or is closed from here.
OnClose(s) ==
    /\ Alive(s)
    /\ sockets' = [sockets EXCEPT ![s] = "closed"]
    /\ IF intentionallyClosed THEN UNCHANGED <<timers, status>>
       ELSE timers' = timers + 1 /\ status' = "reconnecting"
    /\ UNCHANGED <<engine, ws, intentionallyClosed, retryDelay, page, pos, incidents,
                   active, at, upto, gap, torn>>

Doubled == IF 2 * retryDelay > MaxRetry THEN MaxRetry ELSE 2 * retryDelay

\* Slip: an interval is set where a timeout was meant.
SlipRetryInterval ==
    /\ timers > 0 /\ Len(sockets) < MaxSockets
    /\ UNCHANGED timers
    /\ retryDelay' = Doubled
    /\ Open
    /\ UNCHANGED <<engine, intentionallyClosed, page, pos, app, at, upto, gap, torn>>

RetryFires ==
    /\ timers > 0 /\ Len(sockets) < MaxSockets
    /\ timers' = timers - 1
    /\ retryDelay' = Doubled
    /\ Open
    /\ UNCHANGED <<engine, intentionallyClosed, page, pos, app, at, upto, gap, torn>>

-----------------------------------------------------------------------------
SocketIds == 1..Len(sockets)

Next == \/ PublishEvent \/ WorkEnds
        \/ \E i \in Incidents : PublishChain(i)
        \/ \E k \in Reports : PublishReport(k)
        \/ Connect \/ Close \/ RetryFires
        \/ \E s \in SocketIds : OnOpen(s) \/ OnMessage(s) \/ HandlerReturns(s) \/ OnClose(s)

Spec == Init /\ [][Next]_vars

\* The event loop runs what is due: timers, messages, and the outcome of a
\* connection attempt.  No connection has to break, a silent one included, nor
\* the page to be left.
Fairness == /\ WF_vars(Connect) /\ WF_vars(RetryFires)
            /\ WF_vars(\E s \in SocketIds : OnOpen(s))
            /\ WF_vars(\E s \in SocketIds : OnMessage(s))

FairSpec == Spec /\ Fairness

-----------------------------------------------------------------------------
Runs == 0..MaxLog
IncidentStates ==
    [chain : Runs, narration : Runs, threatIntel : Runs, awaitingNarration : BOOLEAN,
     awaitingIntel : BOOLEAN, activity : Seq(1..MaxLog)]

\* An incident the page does not have is undefined.
ASSUME NoneAssumption == None \notin IncidentStates

TypeOK == /\ Len(log) <= MaxLog /\ Len(sockets) <= MaxSockets
          /\ ws \in 0..Len(sockets) /\ intentionallyClosed \in BOOLEAN
          /\ retryDelay \in InitialRetry..MaxRetry /\ timers \in Nat
          /\ page \in {"new", "mounted", "unmounted"}
          /\ {pos, at, upto} \subseteq 0..Len(log)
          /\ status \in {"connecting", "live", "reconnecting"}
          /\ active \in Incidents \cup {None}
          /\ incidents \in [Incidents -> IncidentStates \cup {None}]
          /\ ideal \in [Incidents -> IncidentStates \cup {None}]
          /\ gap \in BOOLEAN /\ torn \subseteq Incidents

\* There is one way at a time for messages to come in: at most one socket is
\* alive or about to be, through any sequence of drops, retries and a close.
OneSocket ==
    \A s \in SocketIds : Alive(s) => /\ timers = 0
                                     /\ \A t \in SocketIds : Alive(t) => t = s

\* A page that has been left opens no socket, schedules no retry and hears
\* nothing, whatever was under way.
SilentAfterClose ==
    [][page = "unmounted" => /\ Len(sockets') = Len(sockets) /\ timers' = 0
                             /\ UNCHANGED app]_vars

\* A reconnect shows in nothing but the status: once the replay is over, the
\* incidents look as they do to a client that never lost its connection, the
\* awaiting flags and the agents' feed included.  It takes a window that
\* reaches back to what was missed, and to the chain of every agent step in it;
\* and when a replay is itself cut short, one that reaches back to where it was.
ReplayIsTransparent ==
    at = Len(log) /\ ~gap
        => \A i \in Incidents \ torn : incidents[i] = ideal[i]

\* The socket the page holds is one the engine has stopped serving.
LeftSilent == \E s \in SocketIds : sockets[s] = "silent"

\* Every message published reaches the page, unless the window has moved past
\* it while the page was disconnected, the page is left, or the engine stops
\* serving its socket: serveWS leaves that open, and only onclose reconnects.
EventuallyShown ==
    \A k \in 1..MaxLog :
        (Len(log) >= k) ~> \/ upto >= k \/ page = "unmounted"
                           \/ Len(sockets) = MaxSockets \/ LeftSilent
=============================================================================
