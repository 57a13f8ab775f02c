# Unravel: a verification model

Unravel reads security events from Splunk, grows a provenance graph in memory, scores every
new edge, and when a connected component of the graph crosses a threshold it extracts an
attack chain, has two AI agents work on it, and streams all of this to browsers. These TLA+
modules model the engine (`engine/internal`, in Go) and the browser's end of the stream
(`ui/src`, in TypeScript), the TLC configurations check them on small instances, and the
`*Proofs` modules hold theorems that TLAPS checks for every value of the constants.

`PROJECT.json` lists the components, the runs, the definition-to-source map, the mutants, the
differences found between comments and code, the hazards and the theorems. Definitions whose
names begin with `Slip` are plausible mistakes that the mutants substitute for the real
definition; no specification uses one.

## 1. The system

```
 Splunk ──export──> RESTSource ──out──> processEvents ──> graph <── retention sweep
                                             │              │ eviction callback
                                             └──> scorer <──┘
                                                    │ signals (bounded, drops)
                                             consumeSignals ──> chain ──> narrator ┐
                                                    │                └──> intel    ┴ MCP, Gemini, HEC
                                              Broadcaster
                                             ┌──────┴──────┐
                                     handler goroutine   handler goroutine
                                             │ WebSocket
                                      EngineSocket ──> reducer (App)
```

| Component | State it keeps | Operations | Talks to | What is hard | What makes it correct |
|---|---|---|---|---|---|
| Broadcaster and handlers (`api/broadcaster.go`, `api/server.go`) | backlog, subscribers, outbox channels, closed flag | `Subscribe`, `Send`, `Unsubscribe`, `Close`; the select loop of `serveWS` | called by both pipeline goroutines; writes WebSockets | clients join, fall behind and leave while a `Send` is fanning out; channels are closed outside the mutex | no panic on a closed channel; one gapless stream per client; `Close` wakes every handler |
| Provenance graph (`graph/graph.go`) | nodes, edges, adjacency lists, recency numbers | `FindOrCreateNode`, `AppendEdge`, `PruneOlderThan` and eviction | ingest goroutine, scorer, retention sweep, callback into the scorer | callers hold pointers to evicted nodes; two bounds at once | links and adjacency agree; the bound holds; what is evicted is the oldest |
| Scorer (`scorer/scorer.go`) | edge scores, auth kinds, node times, incident ids | `SetAuthKind`, `ScoreEdge` (walk, merge, signal), `PruneNodes`, `PruneEdges` | graph, signals channel | the walk reads the graph in pieces; merging; lock order | incidents are components; nothing evicted stays |
| Pipeline (`pipeline/pipeline.go`) | pending signals, debounce timer, idle timer | `processEvents`, `handleRaw`, `consumeSignals`, `handleSignal` | everything else | two goroutines, two timers, slow agents, shutdown | reports follow their chain; bursts are answered once; a queued signal is answered if the signals pause now and then; `Run` ends |
| Live source (`splunk/rest.go`) | resume time, backoff, out channel | `Start`, `run`, `stream`, `readLines`, `Close` | Splunk, pipeline | broken responses, rows out of order, `Close` against a blocked send | no panic; nothing skipped; only the last instant repeated; `Close` returns |
| Web UI (`ui/src/ws.ts`, `ui/src/App.tsx`) | socket, retry timer, incidents | `connect`, `close`, socket callbacks, the reducer | the engine's stream | retries, page left at any moment, replays of the backlog into a reducer that appends | one socket; silence after close; a replay leaves no trace; a page that is served, or whose connection breaks, catches up |
| AI agents (`ai/*.go`) | the conversation: rounds, tool calls asked and answered | `Narrate`, `Enrich`, the tools, the fallback to the stub | Gemini, the MCP searcher, threat intel, the broadcaster | two agents side by side on one feed; many early returns; a model that fails or never stops | the model gets one response to each call; the feed is well formed whatever fails; every chain is judged |
| HEC write-back (`splunk/hec.go`) | none; one retry loop | `Send` | Splunk's event collector, called by `handleSignal` | answers that are lost, `Retry-After`, a deadline | bounded attempts; reports what happened |
| Threat intel (`intel/rest.go`) | the KEV catalogue and its load error, once | `KEV`, `CVE` | CISA, NVD; called by the intel agent | a failed load is remembered | either every lookup fails or none does, so none passes for "no match" after a failure |
| MCP searcher (`splunk/mcp_searcher.go`) | one session, tool names, a mutex | `Search`, `GenerateSPL`, `ensureSession`, `dropSession`, `resolveTools` | Splunk's MCP server; called by the narrator, of several incidents by its own promise | names read without the mutex; a late failure on a session already replaced | no session leaks; only a failed one is dropped; names fit the session |
| Engine main (`cmd/engine/main.go`) | flags, what `run` holds, two goroutines | invocation, start-up, shutdown; eviction callback, retention sweep | all | early returns between acquisitions; one goroutine fails alone; killed at any point | nothing is left behind; what ends one part ends all; the exit status is true |
| Setup (`setup/*.go`) | `~/.unravel/config.json` | `Load`, `Save`, the wizard | the user, Splunk, the disk | interrupted or concurrent saves | the saved connection is whole and was probed |
| Replay source (`splunk/mock.go`) | the timeline | `Start` | pipeline | it ends while the engine goes on | its end is no shutdown |
| Schema, MITRE (`schema/*.go`, `mitre/*.go`) | none | conversions and table lookups | pipeline, agents | — | not modelled, section 8 |

Temporal index and snapshot persistence (`graph/temporal.go`, `graph/persist.go`) are in the
repository but not wired into the engine.

## 2. The modules

| Module | Models | Uses |
|---|---|---|
| `Feed` | the abstract promise of the WebSocket: one numbered stream, joined at most `Window` back, read in order, ended early only for a reader more than `Slack` behind or by shutdown | |
| `Broadcaster` | the broadcaster and one handler goroutine for each connection; implements `Feed` | `Feed` |
| `GraphOps` | the graph's operations as functions from a graph to a graph | |
| `LiveGraph` | the variable that holds the graph, and the properties of it that both of its users keep | `GraphOps` |
| `ProvGraph` | the graph as an object that anybody calls in any order | `LiveGraph` |
| `Ingest` | the ingest goroutine: `materialize`, the scoring loop and the scorer, the eviction callback, the retention sweep, and the two mutexes | `LiveGraph` |
| `Pipeline` | from events to reports: `processEvents`, `consumeSignals`, the agents, timers and shutdown | |
| `RestSource` | the live source against an index that may answer in any order | |
| `UiFeed` | `EngineSocket` and the reducer, fed by a log such as `Pipeline` publishes and `Feed` delivers | |
| `Reports` | the abstract promise of the activity feed: what the analyst is shown of one chain after another | |
| `Investigation` | `handleSignal` in full: write-back, both agents with their tool loops, fallbacks and local variants; implements `Reports` | `Reports` |
| `McpSession` | the shared MCP session under concurrent callers | |
| `Launch` | runs of the binary: invocation, wizard and config file, start-up, the two goroutines, shutdown, crash | |
| `MCProvGraph`, `MCIngest`, `MCRestSource`, `MCMcpSession` | symmetry, values of constants, restricted environments, and statements of comments that the code does not keep | |
| `BroadcasterProofs`, `PipelineProofs`, `RestSourceProofs`, `UiFeedProofs`, `InvestigationProofs`, `McpSessionProofs`, `LaunchProofs` | theorems about the module each is named after | TLAPS |
| `GraphProofs` | lemmas about `GraphOps`, and the theorems about `ProvGraph` (as `Object!`) and `Ingest` that rest on them | TLAPS |

Cutting the system this way keeps each state space small, at these joints:

* `Ingest` takes `LiveGraph` itself, so scorer and graph are checked together, eviction
  callback included. `Pipeline` replaces both by an incident's *level*, the number of its
  events ingested; what matters downstream is whether a chain has seen the event its signal
  was raised for.
* `Pipeline` appends what it broadcasts to `sent`. `Broadcaster` takes over from there: a
  message is its number in the global order.
* `UiFeed` starts from what `Feed` promises, which `Broadcaster` is shown to implement, and
  its log grows the way `Pipeline`'s `sent` does: a chain, then agent steps, at most one
  narration and one intel verdict, then the next chain.
* `RestSource` ends in the channel that `Pipeline` begins with.
* `Investigation` opens up one step of `Pipeline`, the handling of one signal. `Reports` is the
  joint: `Pipeline` and `UiFeed` assume of the agents what `Reports` says (steps, then one
  verdict of each, then the next chain), and `Investigation` is shown to implement it.
* `McpSession` is what stands behind one search of `Investigation`, which only asks whether the
  search answers, finds nothing or fails.
* `Launch` surrounds everything: it has of the server and the pipeline only whether they run,
  and adds when they start, what ends them and what is left.

### Broadcaster

A subscriber is identified with the connection whose handler made it. `Subscribe`,
`Unsubscribe` and the first half of `Close` run wholly under the mutex on state nobody reads
without it, and are one step each. `Send` is `SendBegin` (take the mutex, number and keep the
message), one `SendTo` for each subscriber in map order, `SendDrop` for each one found full,
and `SendEnd`, because handlers receive from the outboxes without the mutex meanwhile. `Close`
detaches the subscribers under the mutex and `CloseNext` closes their outboxes after it has
been released. `Deliver`, `WriteFails`, `OutboxEnds` and `Disconnect` are the cases of the
`serveWS` select; the goroutine with which `serveWS` reads the connection is not modelled, and
outlives it where the connection does (section 5). A send on, or a second close of, a closed channel sets `panicked`.

### GraphOps, LiveGraph and ProvGraph

Edges are numbered as `AppendEdge` creates them, so an adjacency list is a set of numbers.
`seen` is `nodeLastSeen` and `clock` is `touchSeq`. `Insert`/`Seat` are the operations before
eviction (`Seat` relinks evicted endpoints and touches source, then destination), `Overflow`
the victims of the count bound, `Aged` those of the age sweep, `Remove` the removal with the
compaction of the survivors' lists. In `ProvGraph` each exported operation is one step (all
run under the graph mutex) and `known` is the set of nodes to which some caller holds a
pointer, evicted or not.

### Ingest

`pc` walks the ingest goroutine through one event: `CreateNode` and `CreateEdge` take the
calls of `materialize` one by one (`PairScript`: actor, target, edge; `MemberScript`: the
group change with a second edge), then for each edge `SetAuthKind`, `ObserveTouch`,
`RecordScore`, the walk of `componentMean` (`WalkOut` and `WalkIn` are one adjacency read each,
with no lock held in between), `SumComponent` under the scorer mutex (`ResolveIncident`,
`MapMembers`, the hot node), and `OfferSignal` to the bounded channel. Scores are abstracted
to whether the component crosses the threshold. `gmu` is held by a sweep from the removal to
the end of the two callbacks (`Sweep`, `SweepForgetsNodes`, `SweepForgetsEdges`); the ingest
goroutine's own evictions take the scorer mutex inside the graph mutex in one step
(`EvictAndForget`).

### Pipeline

`ipc` and `cpc` are the two goroutines. A `select` with several ready cases may take any, so
no action is guarded by the absence of another: in particular a canceled context does not
prevent a signal from being taken or a fired debounce timer from starting a flush. `TakeSignal` replaces
the pending signal and restarts the one timer all incidents share. `Incidents` are the ones that are
followed; there may be others, whose signals fill the channel (`Score` may drop a signal at any time) and
restart the timer (`TakeOther`). `StartFlush`, `Extract`,
`SendHEC`, `AgentsDone` and `FlushDone` are the flush, which handles the incidents one after
another in map order and waits for both agents of each. `Emit`, `Narrated` and `Enriched` are
the agents. `IdleOut` cancels the context of the whole engine, as `OnIdle` in `main.go` does.

### RestSource

`pc` is the streaming goroutine: `Connect` opens a window that starts at the newest event
delivered, inclusive; the response holds what is indexed in it and may go on (`live`) with
what is indexed meanwhile; rows come oldest first (`ReadOldest`) or not (`ReadEarly`). A row
is `good`, `malformed` (skipped) or `oversized` (it ends the stream like the end of the
response). `Offer` blocks on a full channel unless canceled; `Close` cancels, waits and
closes. `ordered` says that events have so far been indexed, and rows sent, oldest first.

### UiFeed

`sockets` is every WebSocket ever opened, `timers` the scheduled retries. `OnOpen` stands for
the accepted connection, whose first message is the start of the engine's window; `OnMessage`
applies the reducer to one message. `HandlerReturns` is `serveWS` returning, which leaves the
socket open and `silent`: nothing more comes in, and unless the connection then breaks
(`OnClose`) nothing tells the page. `ideal` is what the reducer makes of the whole log, so
comparing `incidents` with it asks whether drops and replays show.

### Reports and Investigation

`consumer` is `handleSignal`: `Extract` publishes a chain, `Post` and `Wait` are the retry
loop of `HECClient.Send` (the outcome of a post says both whether Splunk stored the chain and
what the engine learned of it), `StartAgents` the `WaitGroup`, `AgentsDone` its `Wait`. Each
agent is at a place `pc` of its loop: `ModelCalls`, `ModelReports` and `ModelFails` are the
outcomes of one request to the model; `asked` are the function calls of its answer, `todo` those
the loop over them has still to come to the end of, and `answered` the responses gathered, in order.
The loop goes on to the next call (`NextCall`) with or without a response (`Respond`), and when it
is through `NextRound` goes round or gives up after `maxRounds`. `CallTool` and `ToolReturns` are the dispatch of an ordinary tool,
`RefuseQuestion`, `AskForSPL`, `SPLRefused`, `SPLWritten`, `RunSPL` and `RunReturns` the early
returns of the natural-language search, which shows as two calls. `LocalCall` and
`LocalResult` are the agents that ask no model: the stub narrator, which also takes over from
a live one that failed (`Fail`), and the deterministic intel agent. `kev` is the catalogue
with its remembered error. `said` is the last message of each agent on the stream, `shown`
the status in it. A deadline or a canceled context is a request that fails, which any request
may do.

### McpSession

`pc` walks each caller through `Search` or `GenerateSPL`. The mutex `mu` is held from `Ensure`
over `Connect` and the request `tools/list` to the writing of the names (`WriteNames`), but
the name is read without it (`ReadName`): while somebody writes, any mixture of old and new
may be read, `Torn` included, because a Go string is two words. `DropSession` compares the
caller's session with the cached one under the mutex. `Breaks` is the server's doing. A new
session may meet a server with other tool names (`Lists`); `MatchTool` is `matchTool`.

### Launch

Each process goes through `Setup`, `Flags` or `Bare`, by way of the wizard (`Menu`, `Collect`,
`Probe`) and the steps of `Save` (`CreateTemp`, `WriteTemp`, `Rename`), into `run()`:
`LoadTLS`, `ProbeSplunk`, `Fixtures`, `Extract`, `BuildSource` and `Start` are its acquisitions,
each with its early return. `deferred` is Go's defer stack, released one by one by `Release`.
`Bind`, `ShutDown`, `Drain`, `IdleOut` and `PipeReturns` are the server and the pipeline, and
`FirstReturns` is the `select` that takes the first result and does not wait for the second.
`Kill` may come at any step and leaves what is on disk. A process that has ended has its
memory reset (`Gone`), so that states differ only in what outlives it.

## 3. The runs

| Run | Instance | Distinct states | Shows |
|---|---|---|---|
| `Broadcaster` | 2 clients, backlog 2, buffer 1, 5 messages | 39 000 | no panic; seamless streams; implements `Feed`; each client gets every message or the end of its stream; `Close` wakes every handler |
| `ProvGraph` | 4 nodes, bound 2, 3 edges, 2 times | 36 000 | links, bound, eviction order, sweep, relinking |
| `Ingest` | 5 nodes, bound 4, 3 events, no sweep | 497 000 | incidents are components; queued signals name their incident; the scorer forgets what the count bound evicts |
| `Ingest_locks` | 3 nodes, bound 2, 2 events, 1 sweep | 629 000 | neither goroutine waits for the other's mutex for ever |
| `Pipeline` | 2 incidents, 2 events, room for 1 signal, 1 step for each agent | 286 000 | reports follow their chain; bursts answered once; `Run` ends once canceled; queued signals are answered if signals pause |
| `RestSource` | 2 events, 2 times, room for 1 | 55 000 | no panic; nothing skipped; one instant repeated; `Close` returns; delivery |
| `UiFeed` | 2 incidents, window 3, 4 messages, 3 sockets | 182 000 | one socket; silence after close; transparent replay; every message shown, unless the engine stops serving the socket |
| `Investigation` | 2 chains, 2 tools for each agent, 2 rounds of up to 2 calls, 4 posts, up to 1 technique | 736 000 | one response to each call; honest write-back; implements `Reports`; a catalogue that answers alike; every chain judged |
| `McpSession` | 2 callers, 3 sessions, 2 kinds of server | 7 500 | no session leaks; only a failed one is dropped; names fit the session; calls return |
| `Launch` | 2 processes, 1 connection, 2 probes, one process with the idle watchdog | 603 000 | nothing left behind; success was asked for; the config is whole and probed; all stops together |
| `Ingest_sweepleak`, `RestSource_oversized` | the same, smaller | | differences between comments and code, section 5 |

The bounds, and why the interesting cases still happen:

* **Broadcaster.** With a backlog of 2 and a buffer of 1, an outbox holds 3 messages; five are
  enough to overflow the history, to seed a late client from a history that has lost its
  beginning, and to drop that client for being behind. Two clients are enough for one to be
  served while another leaves; they do not interact otherwise.
* **ProvGraph.** Under a bound of 2, four nodes give evictions by insertion and by an edge
  that brings two evicted nodes back at once; three edges give a node with edges on both
  sides of a cutoff. `MaxTouch` bounds the recency clock.
* **Ingest.** Three events, each of up to two edges over five nodes, merge two grown incidents
  and grow the result. The bound of 4 makes the fifth node evict. Sweeps are left to
  `Ingest_locks`: with sweeps during an event, `ScorerFollowsGraphWhenIdle` does not hold
  (`Ingest_sweepleak`).
* **Pipeline.** Two events of one incident make a burst, of two incidents a flush with two
  extractions; with room for one signal, the second waits for the first to be taken or is dropped.
  `MaxEvents` also bounds the levels. It does not bound the signals of other incidents, which may
  restart the timer for ever (`TakeOther`).
* **RestSource.** Two events of equal or different time give every relation to the resume
  point. The invariants are proved for any number (section 6).
* **UiFeed.** A window of 3 and a log of 4 let a replay start behind a chain or behind a
  message that was missed; three sockets let a replay be cut short and resumed.
* **Investigation.** Four posts is the code's own `hecMaxAttempts`. Two rounds of two calls
  give an answer that is followed by another request and one that uses up the rounds (the
  code allows three, of any number of calls; the proofs cover both), and a call answered while another waits. The narrator is offered
  an ordinary search and the natural-language one, the intel agent the catalogue and a tool
  that does not exist. Two lookups of one answer, and those of the second chain, meet the
  catalogue that the first lookup has left.
* **McpSession.** Two callers are enough for one to replace the session the other still uses;
  with three sessions the other's failure is then followed by a third. One kind of server
  has the default names, the other renames one tool and lacks the other.
* **Launch.** One process may save while another reads, saves or holds the port. One
  connection is enough since `Save` may meet any earlier content, torn or denied included.

`CHECK_DEADLOCK FALSE` is used where the system really stops: everybody may have left a closed
broadcaster, the last chain has been judged, callers may be idle with the sessions used up, `Run` has returned, a closed source or page stays closed, or (graph, ingest) the
bounded supply of calls is used up.

## 4. Fairness

* `Broadcaster`: a goroutine that can run does (`WF` of the fan-out, of each handler's
  receive, of each pending close). A deferred `Unsubscribe` needs the mutex and gets `SF`:
  Go's mutex hands itself over to a waiter that has starved for a millisecond. Nothing forces
  a client to disconnect, a `Send` to start or `Close` to be called.
* `Ingest_locks`: `SF` of the ingest goroutine for the same reason, `WF` of the sweep's
  callbacks. Sweeps are at least 15 seconds apart, hence finitely many during an event.
* `Pipeline`: both goroutines run, each agent call ends (each has a timeout) after finitely many
  steps, and `SF` of the cases of the consumer's `select` (a signal, the fired timer, the
  cancellation), since Go chooses at random among those that are ready. *No timer is obliged to
  fire*: a signal of any incident restarts the debounce timer, and an event the idle timer. That
  the debounce timer does not stay armed for ever is the hypothesis `Pauses` of `SignalsAnswered`,
  and `CancelEnds` does without it. Nothing obliges the source to deliver or to close, other
  incidents to signal or not to, or the operator to interrupt.
* `RestSource`: `CloseReturns` needs the goroutine to notice a canceled context and `Close`
  to go on. `EventuallyDelivered` further needs that a complete response ends, that a request
  repeated for ever is one day accepted (`SF(Connect)`), and that from some time on responses
  do not break before their end (`<>[][...]`). The pipeline reads only while it has not
  been canceled, so `CloseReturns` does not rest on a reader.
* `UiFeed`: the browser's event loop runs due timers, connection outcomes and the messages of a
  socket that is served. No connection has to break, in particular none that the engine has
  stopped serving, nor the page to be left.
* `Investigation`: the goroutine of `handleSignal` and those of the agents run, and every
  request they make ends: after 5 s for the whole write-back, 30 s for the model, 15 s for the
  catalogue, and at the agents' own deadlines of 20 and 30 s. Nothing obliges any request to succeed
  or the model to stop calling tools.
* `McpSession`: every request times out after 30 s, and `SF` of each caller since it may wait
  for a Go mutex (see above). Nobody has to begin a call; no session has to break or to last.
* `Launch`: `WF` of what a started process does by itself (`Run`). Users, Splunk, the
  source, the watchdog and whoever sends signals owe nothing.

## 5. Where the comments and the code differ

Each of these is a `violation` run in which TLC refutes the quoted sentence.

* `Ingest_sweepleak`: `main.go:451-452` says that pruning the scorer at eviction keeps the
  two consistent. A sweep between `AppendEdge` and `ScoreEdge` forgets an edge that the
  scorer then records; nothing will forget it again.
* `RestSource_oversized`: `rest.go:254-257` says that an oversized row must not tear the
  stream down into a reconnect loop. It does: the scanner stops, `run` reconnects from the
  newest event delivered, and the response meets the same row again.

Others were met while modelling and are recorded here in words only:

* `scorer.go:32-33` calls an incident id "a stable identifier for the connected component".
  When a sweep removes the node that joined two parts, both keep the id. No race is needed.
* `pipeline.go:108` says that `Run` blocks until the context is canceled or the source closes.
  When the source closes, `Run` waits for `consumeSignals`, which only the context ends,
  because nothing closes the signals channel. `Launch` has it so (`PipeReturns`), and
  `SuccessWasAskedFor` rests on it.
* `pipeline.go:62-64` says that the end of the idle window drains the pipeline. It cancels the
  context, and a signal queued behind a slow agent call is dropped.
* `mcp_searcher.go:192` says that a failed `tools/list` keeps the defaults. It keeps the names
  in use, which may be those of an earlier server.
* `main.go:832` computes the retention cutoff from the wall clock; `graph.go:337-339` says that
  age is judged on event time, so that a replay prunes consistently. With `--retention`, a
  replay of old events is pruned at the first sweep.
* `main.go:319` says that the browser is opened once the server is listening. It is opened
  after five seconds in any case, also when the server has failed.
* `broadcaster.go:14-15` drops a client when it is `SlowClientBuffer` messages behind; the
  outbox also has room for the backlog (line 108), so a client that has drained it is dropped
  later than that. `Feed`'s `Slack` is the whole capacity.
* The comment of `main.go:451-452` fails also without sweeps, with a node bound of 1 or 2: the
  second edge of one event evicts the first before it is scored.
* `graph.go:150-151` says that relinking never fires with a single writer. With a node bound
  of 1 the second `FindOrCreateNode` evicts the first endpoint, so it does.
* `pipeline.go:381-382` says that shutdown takes priority. A Go `select` has no priorities and
  `flush` does not look at the context, so extractions may follow the cancellation.
* `pipeline.go:362-364` says that a burst is coalesced into one extraction. A signal that
  finds the channel full is dropped, and may be the incident's last; no extraction then sees
  its event until the incident crosses the threshold again.
* `scorer.go:28-31` and `:272-274` say that the hot node is the destination of the
  highest-scoring edge. It is that of the freshest one, as the comment inside the function explains.
* `rest.go:161`: the window is inclusive, so on a quiet index every reconnect redelivers the
  newest event; that counts as a healthy delivery and resets the delay. The event is ingested
  again at every reconnect.
* A late event, indexed with a time older than the resume point, is never asked for again.
* `spec/sean-ui-lab.md:41` and `:67` say that the page reconnects on a drop. When `serveWS` returns
  (`server.go:246-265`: its client was dropped for being slow, the broadcaster was closed, a write or a ping
  failed) it does not close the connection it took over, and its reader goroutine goes on
  reading. If the connection itself is sound, the browser's socket stays open, `onclose` does not
  come, and `ws.ts` sends and expects no pings: the page shows `live` and gets nothing more until
  it is reloaded or the connection breaks. `HandlerReturns` has it so, and `EventuallyShown`
  excepts it.
* `ws.ts:161` `connect` opens a socket without closing an earlier one. The page calls it once.
* `runNarration` broadcasts nothing when its narrator fails, and the page would await a
  narration until the next chain. The engine wires only narrators that do not fail: the stub,
  or a live one behind `FallbackNarrator`.

What the code does and no comment denies, but a reader of the models should know:

* `run()` returns with the first of its two goroutines and does not wait for the other: a chain
  being written back or narrated is lost with the process.
* A signal that comes before `signal.Notify` kills the process without its deferred calls, and
  leaves the directory of embedded fixtures. `LeavesNothing` therefore excepts the killed.
* A saved config without a token is taken for a connection, so every bare launch fails until
  `unravel setup` is run again.
* Two write-backs of one chain are possible when an answer is lost.
* The HTTP client of the live source has no timeout: a half-open connection is never noticed.
* One debounce timer serves all incidents, so a steady stream of signals, less than a debounce
  window (250 ms by default) apart, postpones every flush for as long as it lasts.
* The catalogue is fetched under the context of the first lookup, and its error is kept
  (`rest.go:69-86`): if that lookup's agent runs out of time, every later lookup fails for as long
  as the process lives. `CatalogueAnswersAlike` says that they fail openly.
* `Save` writes and renames without a sync: it is safe against a process that is killed, not against
  a machine that stops, which is not modelled.
* The backlog does not tell a new client of evictions, so its graph may keep evicted nodes.

## 6. What is proved

TLAPS checks the following for every value of the constants that satisfies the named
assumptions (`CapsAssumption`, `GraphAssumption`, `IngestAssumption`,
`PipelineAssumption`, `RestAssumption`, `UiAssumption`, `NoneAssumption`, `InvestigationAssumption`,
`McpAssumption`, `LaunchAssumption`: numbers are natural, capacities positive, the set of node
ids is finite, marker values are not among the values they mark). TLC evaluates the
assumptions in the runs. Every invariant and every action property of a run is proved, and both
refinements; `ScorerFollowsGraphWhenIdle` under the hypothesis `Roomy`, see `Ingest` below.

**Broadcaster** (`BroadcasterProofs`). The inductive invariant `IInv` adds three things to
`TypeOK`, `NoPanic` and `SeamlessStream`: `BacklogInv` (the history is the newest numbers in
order), `LockInv` (only a `Send` in progress has somebody to reach or to drop, and those are
registered; a closed broadcaster has nobody), and `ChannelInv` (a channel that somebody may
still send on or close is open). `ChannelInv` is what makes `NoPanic` inductive: `Send`
closes the outbox of a client only while it is registered, `Close` takes it out of the
register before closing. `Invariance` is the theorem; `TypeCorrect`, `PanicFree`, `Seamless`
and `OrderKept` follow, and `Refinement` shows step by step that every behaviour is one of
`Feed` under the mapping `FeedPhase`, `FeedUpto`.

**Provenance graph** (`GraphProofs`, first half). `ObjectInv` is the conjunction of the type
invariant, `WellLinked`, `WithinBound` and `RecencyTotal`, and is inductive as it stands. The
lemmas are about one graph record and the functions of `GraphOps`: removal keeps type, links
and ranks; an insert or a seated edge makes its endpoints the newest; the victims of `Overflow`
were touched before all survivors; the survivors have distinct ranks below the bound, so they
fit it (a counting argument on the sets of nodes above a node). `Moves` is what any step makes of
a graph, and the lemmas `Move...` are the theorems for one step. `ProvGraph` is taken in
as `Object`, every step of it is a move, and `ObjectTypeCorrect`, `LinksHold`, `BoundHolds`, `OrderTotal` follow, with
the action properties `EvictsOldest`, `SweepSparesFresh` and `AppendedEdgeKept`, the last for
every bound but 1. Every step of `Ingest` is a move too, from which `IngestKeepsGraph` has all of
them for the running engine with its sweep.

**Ingest** (`GraphProofs`, second half). `IInv` has four layers.

* `StateInv`, always: the graph is `Good` (the same predicate as above, so the same lemmas
  serve), what is left of a script stays within the bounds (`ScriptInv`), the local variables
  fit the place `pc` (`PhaseInv`), and a sweep at work means that an edge is missing
  (`SweepInv`). `IngestTypeCorrect` follows.
* `ComponentInv`, while no edge was evicted. Components need no paths here: `Joined` says that
  no set of nodes separates two nodes, which is all the proof ever uses and never has to be
  computed by recursion. `WalkInv` is why the walk is right although it reads one list
  at a time: every node it is done with has both lists among the edges seen, every edge seen
  has both ends among the nodes met, and nothing is met that is not joined to the edge being
  scored; with an empty frontier, the nodes met are closed under edges, hence the component.
  `IncidentInv` says the same of the incidents (an edge has one incident, nodes of one
  incident are joined) except for the edges of the event in hand that are not scored yet.
  `LiveInv` says that a live node has an edge or is about to get one. `IncidentsMatch`
  follows between events. `NameInv` is `SignalsName` with the signal about to be offered; it
  survives merges since `resolveIncident` gives a merged component its smallest id.
* `LeakInv`, under `Fits` (a node bound other than 1 or 2). It says how far a sweep may leave
  the scorer behind. `Left` are the edges that are gone and that the scorer holds for good or
  has still to be given. A sweep adds at most the edges of the event at work, two by `PairInv`; an
  eviction by the count bound adds none, since no edge of an event is evicted by the
  event's own later calls (`FreshInv`: only nodes of this event are touched after its
  ends, and there are at most three). `LeakBounded` is the result: with no sweep at work, the
  scorer keeps at most two evicted edges for each sweep that evicted something. TLC
  finds states that attain it.
* `FollowInv`, under `Roomy` (`Fits` and `MaxSweeps = 0`, an engine without `--retention`, which is
  the default): the keys of the scorer's maps are live at *every* step, the edges
  waiting to be scored are live, and so is every node the walk met; `FreshInv` is
  the crux here too. `ScorerFollows` follows.

Both conditions are needed: no sweeps by `Ingest_sweepleak`; and without `Fits`
TLC finds an event of two edges whose first edge is evicted by its second before it is scored. The scorer
then records an edge that is gone, and nothing will forget it.

**Pipeline** (`PipelineProofs`). `IInv` adds to `TypeOK` and the two checked invariants `SentOK`,
`HandInv` (the chain in hand is the latest of its incident and the agents work on no
other, which is what `wg.Wait` is for), `SignalInv` (the channel holds an incident's signals in the order
of their levels, all at most its level and below the one about to be offered), `PendingInv` (a
pending signal came before those in the channel) and `AnswerInv` (every chain sent answers a
signal before all that are still to be answered). `HandInv` makes `ReportsFollow` inductive,
the other three `BurstsAnsweredOnce`: a second chain with the same answer needs a signal that
was pending again after it had been answered.

**Web UI** (`UiFeedProofs`). `IInv` is `TypeOK` with `SocketInv` and `StreamInv`. `SocketInv` counts
by the page's state: while it is mounted either the newest socket is alive or one retry is
scheduled; after that only one socket may still be closing. It gives `OneSocketAlive` and
`LeftPageIsSilent`. `StreamInv` describes a reducer state without the reducer: each field is what the last message that sets
it says (`FieldsOK`), the feed lists the steps since the chain in order (`FeedOK`). `IdealInv`
states it of the client that was never cut off, up to the end of the log, and `PageInv` of the page,
up to the last message handled, unless there is a `gap` (and, of the feed, unless `torn`). Both
descriptions determine the state, so when a replay is over they are equal, which is
`ReplayShowsNothing`. `LogOK` and `WorkInv` say what the log looks like, and `ReplayInv` that what a
replay has still to bring begins with its chain.

**Live source** (`RestSourceProofs`). `IInv` adds `ClosedAfterUse` (the channel is closed only
after the goroutine has returned), `Resumed` (everything delivered lies at or before the resume
point, which is the time of an indexed event), `Opened` (what a response still has to bring lies
in its window, and was delivered before only if it is of the window's first instant) and
`InLine` (while everything is in order, what is to come is no older than what was delivered,
the row in hand is the oldest, and what the response will not bring is no older than what it
does). `Opened` gives `ReconnectRepeatsOneInstant` in any order; `InLine` with `Resumed` gives
`ReconnectSkipsNothing`; `ClosedAfterUse` gives `NeverSendsOnClosed`.

**Investigation** (`InvestigationProofs`). `IInv` is `TypeOK` with `AgentInv` (an agent's last
message fits its place in the loop, with the tool in hand: the refinement needs it, since
`Reports` lets a result follow only its own call), `TalkInv` (`answered` followed by `todo` is
`asked`, whichever way the calls so far have ended, and nothing is left in `todo` when the model is
asked again: `CallsAnswered` alone says nothing of a loop that is not through), `KEVInv` (the last
lookup shown is what became of the catalogue, which `KEVStays` says is final:
`CatalogueIsConsistent` follows), `RoundInv` (rounds are counted only in a conversation) and `PostInv` (a post is
due only while attempts are left and every one before it can be tried again: `WriteBackHonest`
alone says nothing of the post that is yet to come). `Refinement` maps every step to one of `Reports` or to a
stutter, for any menus of tools, rounds, attempts and chains.

**MCP searcher** (`McpSessionProofs`). `IInv` adds `MutexInv` (whoever connects, lists or
writes names holds the mutex, and with it the cached session), `HaveInv` (a caller past
`ensureSession` has a session that was opened) and `CacheInv`, which contains
`NoSessionLeaks`. `NamesFollowSession` is inductive only with these: names are written by the
holder of the mutex, the session it has just opened is the cached one and nobody else's
(`HaveInv`), and every other session is closed (`CacheInv`): whoever reads a stale or torn
name meanwhile reads it for a closed session.

**Launch** (`LaunchProofs`). `IInv` is `TypeOK` with `RetryInv`, `HeldInv` (what is held is on
the stack of deferred calls, but for the directory while it is being filled),
`SaveInv` (the temporary file belongs to a process in `Save`, and at the rename it holds a
connection that was accepted), `EndInv` (at which places which exit status and which state of
the two goroutines are possible) and `LeftInv`. `LeavesNothing` follows from `HeldInv` and
`EndInv` at `End`, `SuccessWasAskedFor` from `EndInv`, `SavedIsWholeAndProbed` from `SaveInv` at
`Rename`.

**Only model-checked**: everything about liveness (delivery, `Close` returning, locks,
cancellation, answered signals, calls that return, every chain judged, the process that stops
as a whole), since fairness and `ENABLED` are out of the prover's reach.

## 7. Conditions on the properties

Some properties hold only under a condition that the code does not establish by itself. Each
condition is a conjunct of the property.

* `IncidentsAreComponents` and `SignalsNameTheirIncident` are asked while no edge has been
  evicted (`Unevicted`): eviction splits components and nothing splits incidents.
* `ScorerFollowsGraphWhenIdle` is checked and proved without sweeps, and for a node bound that
  has room for the nodes of one event (`Roomy`, section 6). With sweeps, `LeakBounded` says how
  much is left behind.
* `NothingSkipped` and `EventuallyDelivered` are asked while events are indexed and returned
  oldest first (`ordered`); delivery also while no row is oversized.
* `SignalsAnswered` is about signals that found room in the channel, while the engine has not been told
  to stop, and if the signals of all incidents together pause for a debounce window now and then
  (`Pauses`). Without pauses TLC finds the signal that is never answered.
* `EventuallyShown` excepts a page whose socket the engine has stopped serving (`LeftSilent`).
* `ReplayIsTransparent` excludes a client for which the window had moved past a message it
  still needed (`gap`) and incidents whose replay starts behind their chain (`torn`: the
  reducer appends, so steps already shown are shown twice). TLC found that `gap` has to cover
  a replay that is itself cut short: the replayed chain has raised the awaiting flags again,
  and if the next window starts behind the verdict nothing lowers them.
* `AppendedEdgeLives` excludes a bound of 1, which has no room for two endpoints.
* `CatalogueAnswersAlike` is about the live intel agent; the deterministic one reads a snapshot.
* `LeavesNothing` excepts processes that were killed. `SavedIsWholeAndProbed` is about processes
  that are killed, not about a machine that stops.
* `NamesFollowSession` is about calls that reach a session: a name read while another caller
  writes may be torn, but then the caller's session is closed and the call fails.

## 8. Not modelled, and the plan

Left out for good: JSON and event parsing, secret redaction and labels (data conversions
without state), the MITRE table, prompts and the parsing of the model's reports, the
construction of SPL, static files and token checks, opening the browser, rendering in the UI,
and the temporal index and snapshots, which the engine does not use. In the modelled parts, left
out are score arithmetic, node attributes, narration text, logging, and the length of time:
a deadline is a step that may always come.

Done, each with proofs: `Feed` and `Broadcaster`; `GraphOps` and `ProvGraph`; `Ingest`;
`Pipeline`; `RestSource`; `UiFeed`; `Reports` and `Investigation`; `McpSession`; `Launch`.

What is left, in order of importance:

1. **Composition**: `Pipeline` with merging incidents as in `Ingest`, so that a chain may be
   stamped with an id that has been absorbed; the graph view of `UiFeed`, which the stream
   does not rebuild exactly because evictions are not sent.
2. **Algorithms**: `chain.Extract` against a reference definition of the backward walk, the
   read-only check of `ai/spl_guard.go`, the window and clock of `splunk/mock.go`.
