------------------------------- MODULE Launch -------------------------------
(***************************************************************************)
(* A run of the binary (engine/cmd/engine/main.go), from how it is invoked *)
(* to its exit status: the saved Splunk connection (internal/setup), the   *)
(* wizard that collects and saves one, the start-up of run() with the      *)
(* resources it acquires and defers to release, the two goroutines it then *)
(* waits for, and shutdown by a signal, by the idle watchdog or by a port  *)
(* that is taken.  Processes share the user's config file and the port;    *)
(* any of them may be killed at any step.                                  *)
(*                                                                         *)
(* What the server and the pipeline do while they run is Broadcaster's and *)
(* Pipeline's.  Splunk, the file system and the user are external: each    *)
(* may refuse at any step.                                                 *)
(***************************************************************************)
EXTENDS Naturals, Sequences, SequencesExt

CONSTANTS Procs,       \* the processes, each one launch
          Conns,       \* connections a user may enter: URL and non-empty token
          Watched,     \* the processes given --incident-idle
          MaxRetries,  \* the wizard's
          None

\* What a file can hold that is no connection: nothing, the torn start of a
\* write, JSON without a token.  "denied" is a file the user may not read.
NoConns == {"absent", "torn", "tokenless", "denied"}
Modes   == {"live", "replay", "unknown"}  \* ai-off starts and stops as replay does

ASSUME LaunchAssumption ==
    /\ Conns \cap NoConns = {} /\ Watched \subseteq Procs
    /\ MaxRetries \in Nat \ {0} /\ None \notin Procs

VARIABLES
    file,      \* ~/.unravel/config.json
    accepted,  \* the connections a probe of Splunk has accepted
    port,      \* the process that listens on the port, or None
    pc, mode, conn,
    tries,     \* probes of the wizard that failed
    temp,      \* the temporary file of Save, "absent" when there is none
    open,      \* what run() holds: "fixtures", "source", "broadcaster"
    deferred,  \* what its deferred calls release, the first to be deferred first
    signal,    \* "none", "sent" or "taken" from the channel of signal.Notify
    ctx,       \* "live", or why it was canceled
    server,    \* "off", "binding", "listening", "failed", "down"
    pipe,      \* Pipeline.Run: "off", "running", "drained", "done"
    code       \* how the process ended: "ok", "error", "usage", "killed", or None

disk   == <<file, accepted, temp>>
wizard == <<mode, conn, tries>>
held   == <<open, deferred>>
work   == <<signal, ctx, server, pipe>>
vars   == <<disk, port, pc, wizard, held, work, code>>

Init == /\ file \in Conns \cup NoConns
        /\ accepted = {}
        /\ port = None
        /\ pc = [p \in Procs |-> "off"]
        /\ mode = [p \in Procs |-> "live"]
        /\ conn = [p \in Procs |-> "tokenless"]
        /\ tries = [p \in Procs |-> 0]
        /\ temp = [p \in Procs |-> "absent"]
        /\ open = [p \in Procs |-> {}]
        /\ deferred = [p \in Procs |-> <<>>]
        /\ signal = [p \in Procs |-> "none"]
        /\ ctx = [p \in Procs |-> "live"]
        /\ server = [p \in Procs |-> "off"]
        /\ pipe = [p \in Procs |-> "off"]
        /\ code = [p \in Procs |-> None]

Goto(p, l) == pc' = [pc EXCEPT ![p] = l]

\* run() returns, or main gives up before calling it.  What run() has deferred
\* is still to be done.
Return(p, c) == Goto(p, "return") /\ code' = [code EXCEPT ![p] = c]

-----------------------------------------------------------------------------
(* How it is invoked *)

\* `unravel setup`: the wizard, which needs a terminal.
Setup(p, tty) ==
    /\ pc[p] = "off" /\ p \notin Watched
    /\ IF tty THEN Goto(p, "collect") /\ UNCHANGED code ELSE Return(p, "usage")
    /\ UNCHANGED <<disk, port, wizard, held, work>>

\* Flags: no saved connection is looked at.  c is the token of a flag or of
\* the environment, and its URL.
Flags(p, m, c) ==
    /\ pc[p] = "off"
    /\ mode' = [mode EXCEPT ![p] = m] /\ conn' = [conn EXCEPT ![p] = c]
    /\ Goto(p, "tls")
    /\ UNCHANGED <<disk, port, tries, held, work, code>>

\* A bare `unravel`: the saved connection, whatever it is, or else the menu,
\* where nothing usable is saved and there is a terminal to ask at.
Bare(p, tty) ==
    /\ pc[p] = "off" /\ p \notin Watched
    /\ \/ /\ file \in Conns \cup {"tokenless"}
          /\ conn' = [conn EXCEPT ![p] = file] /\ mode' = [mode EXCEPT ![p] = "live"]
          /\ Goto(p, "tls") /\ UNCHANGED code
       \/ /\ file \in {"absent", "torn"} /\ tty
          /\ Goto(p, "menu") /\ UNCHANGED <<mode, conn, code>>
       \/ /\ file \in {"absent", "torn"} /\ ~tty
          /\ Return(p, "usage") /\ UNCHANGED <<mode, conn>>
       \/ /\ file = "denied"
          /\ Return(p, "error") /\ UNCHANGED <<mode, conn>>
    /\ UNCHANGED <<disk, port, tries, held, work>>

Menu(p) ==
    /\ pc[p] = "menu"
    /\ \/ Goto(p, "collect") /\ UNCHANGED <<mode, code>>
       \/ /\ mode' = [mode EXCEPT ![p] = "replay"]
          /\ Goto(p, "tls") /\ UNCHANGED code
       \/ Return(p, "error") /\ UNCHANGED mode
    /\ UNCHANGED <<disk, port, conn, tries, held, work>>

-----------------------------------------------------------------------------
(* The wizard, and setup.Save *)

\* A connection is entered, or the user gives up at some prompt.
Collect(p) ==
    /\ pc[p] = "collect"
    /\ \/ /\ \E c \in Conns : conn' = [conn EXCEPT ![p] = c]
          /\ Goto(p, "probe") /\ UNCHANGED code
       \/ Return(p, "error") /\ UNCHANGED conn
    /\ UNCHANGED <<disk, port, mode, tries, held, work>>

\* Splunk is asked with the connection; after MaxRetries refusals the wizard ends.
Probe(p, ok) ==
    /\ pc[p] = "probe"
    /\ \/ /\ ok
          /\ accepted' = accepted \cup {conn[p]}
          /\ Goto(p, "create") /\ UNCHANGED <<tries, code>>
       \/ /\ ~ok
          /\ tries' = [tries EXCEPT ![p] = @ + 1]
          /\ IF tries'[p] < MaxRetries THEN Goto(p, "collect") /\ UNCHANGED code
                                       ELSE Return(p, "error")
          /\ UNCHANGED accepted
    /\ UNCHANGED <<file, temp, port, mode, conn, held, work>>

\* Slip: the config is written in place.
SlipWriteTemp(p, ok) ==
    /\ pc[p] = "write"
    /\ file' = IF ok THEN conn[p] ELSE "torn"
    /\ temp' = [temp EXCEPT ![p] = "absent"]
    /\ IF ok THEN Goto(p, "tls") /\ UNCHANGED code ELSE Return(p, "error")
    /\ UNCHANGED <<accepted, port, wizard, held, work>>

\* The directory is made and an empty temporary file created in it.
CreateTemp(p, ok) ==
    /\ pc[p] = "create"
    /\ IF ok THEN /\ temp' = [temp EXCEPT ![p] = "torn"]
                  /\ Goto(p, "write") /\ UNCHANGED code
             ELSE Return(p, "error") /\ UNCHANGED temp
    /\ UNCHANGED <<file, accepted, port, wizard, held, work>>

\* It is written, closed and chmodded; when that fails the deferred Remove
\* takes it away.
WriteTemp(p, ok) ==
    /\ pc[p] = "write"
    /\ temp' = [temp EXCEPT ![p] = IF ok THEN conn[p] ELSE "absent"]
    /\ IF ok THEN Goto(p, "rename") /\ UNCHANGED code ELSE Return(p, "error")
    /\ UNCHANGED <<file, accepted, port, wizard, held, work>>

\* It takes the place of the config.
Rename(p, ok) ==
    /\ pc[p] = "rename"
    /\ temp' = [temp EXCEPT ![p] = "absent"]
    /\ IF ok THEN file' = temp[p] /\ Goto(p, "tls") /\ UNCHANGED code
             ELSE Return(p, "error") /\ UNCHANGED file
    /\ UNCHANGED <<accepted, port, wizard, held, work>>

-----------------------------------------------------------------------------
(* run(): what it acquires *)

Acquire(p, r) == /\ open' = [open EXCEPT ![p] = @ \cup {r}]
                 /\ deferred' = [deferred EXCEPT ![p] = Append(@, r)]

\* loadSplunkTLS
LoadTLS(p, ok) ==
    /\ pc[p] = "tls"
    /\ IF ok THEN /\ UNCHANGED code
                  /\ Goto(p, IF mode[p] = "live" THEN "splunk"
                               ELSE IF mode[p] = "replay" THEN "fixtures"
                               ELSE "source")
             ELSE Return(p, "error")
    /\ UNCHANGED <<disk, port, wizard, held, work>>

\* probeSplunk: a refusal is only logged.
ProbeSplunk(p, ok) ==
    /\ pc[p] = "splunk"
    /\ accepted' = IF ok /\ conn[p] \in Conns THEN accepted \cup {conn[p]} ELSE accepted
    /\ Goto(p, "source")
    /\ UNCHANGED <<file, temp, port, wizard, held, work, code>>

\* resolveReplayTestdata: timelines found where --testdata says, or a new
\* directory for those embedded in the binary.
Fixtures(p) ==
    /\ pc[p] = "fixtures"
    /\ \/ Goto(p, "source") /\ UNCHANGED <<open, code>>
       \/ /\ open' = [open EXCEPT ![p] = @ \cup {"fixtures"}]
          /\ Goto(p, "extract") /\ UNCHANGED code
       \/ Return(p, "error") /\ UNCHANGED open
    /\ UNCHANGED <<disk, port, wizard, deferred, work>>

\* Slip: an extraction that fails leaves the directory there.
SlipExtract(p, ok) ==
    /\ pc[p] = "extract"
    /\ IF ok THEN /\ deferred' = [deferred EXCEPT ![p] = Append(@, "fixtures")]
                  /\ Goto(p, "source") /\ UNCHANGED code
             ELSE Return(p, "error") /\ UNCHANGED deferred
    /\ UNCHANGED <<disk, port, wizard, open, work>>

\* They are written there.  When that fails the directory is removed at once,
\* for nothing has been deferred yet.
Extract(p, ok) ==
    /\ pc[p] = "extract"
    /\ IF ok THEN Acquire(p, "fixtures") /\ Goto(p, "source") /\ UNCHANGED code
             ELSE /\ open' = [open EXCEPT ![p] = @ \ {"fixtures"}]
                  /\ Return(p, "error") /\ UNCHANGED deferred
    /\ UNCHANGED <<disk, port, wizard, work>>

\* buildSource, then the broadcaster.  A live source needs a token, a replay
\* timelines that decode.
BuildSource(p, ok) ==
    /\ pc[p] = "source"
    /\ IF \/ mode[p] = "live" /\ conn[p] \in Conns
          \/ mode[p] = "replay" /\ ok
       THEN /\ open' = [open EXCEPT ![p] = @ \cup {"source", "broadcaster"}]
            /\ deferred' = [deferred EXCEPT ![p] = @ \o <<"source", "broadcaster">>]
            /\ Goto(p, "hec") /\ UNCHANGED code
       ELSE Return(p, "error") /\ UNCHANGED held
    /\ UNCHANGED <<disk, port, wizard, work>>

\* buildHEC may find its token missing; with it, signals are from here on
\* caught and the source, the server and the pipeline are started.
Start(p, ok) ==
    /\ pc[p] = "hec"
    /\ IF ok THEN /\ server' = [server EXCEPT ![p] = "binding"]
                  /\ pipe' = [pipe EXCEPT ![p] = "running"]
                  /\ Goto(p, "serving") /\ UNCHANGED code
             ELSE Return(p, "error") /\ UNCHANGED <<server, pipe>>
    /\ UNCHANGED <<disk, port, wizard, held, signal, ctx>>

-----------------------------------------------------------------------------
(* The goroutines of run() *)

Started(p) == pc[p] \in {"serving", "return"} /\ server[p] # "off"

Cancel(p, why) == ctx' = [ctx EXCEPT ![p] = IF @ = "live" THEN why ELSE @]

\* A SIGINT or SIGTERM once they are caught: the channel holds one, and only
\* one is ever taken from it.
Interrupt(p) ==
    /\ Started(p) /\ signal[p] = "none"
    /\ signal' = [signal EXCEPT ![p] = "sent"]
    /\ UNCHANGED <<disk, port, pc, wizard, held, ctx, server, pipe, code>>

TakeSignal(p) ==
    /\ Started(p) /\ signal[p] = "sent"
    /\ signal' = [signal EXCEPT ![p] = "taken"]
    /\ Cancel(p, "interrupt")
    /\ UNCHANGED <<disk, port, pc, wizard, held, server, pipe, code>>

\* The server's own goroutine binds the port; a server already told to shut
\* down does not.
Bind(p) ==
    /\ Started(p) /\ server[p] = "binding"
    /\ \/ /\ port = None /\ ctx[p] = "live"
          /\ port' = p /\ server' = [server EXCEPT ![p] = "listening"]
       \/ /\ port # None
          /\ server' = [server EXCEPT ![p] = "failed"] /\ UNCHANGED port
    /\ UNCHANGED <<disk, pc, wizard, held, signal, ctx, pipe, code>>

\* Server.ListenAndServe shuts down when the context is canceled.
ShutDown(p) ==
    /\ Started(p) /\ server[p] \in {"binding", "listening"} /\ ctx[p] # "live"
    /\ server' = [server EXCEPT ![p] = "down"]
    /\ port' = IF port = p THEN None ELSE port
    /\ UNCHANGED <<disk, pc, wizard, held, signal, ctx, pipe, code>>

\* The replayed timeline comes to its end: nothing more is ingested, and
\* Pipeline.Run goes on.
Drain(p) ==
    /\ Started(p) /\ pipe[p] = "running" /\ mode[p] = "replay"
    /\ pipe' = [pipe EXCEPT ![p] = "drained"]
    /\ UNCHANGED <<disk, port, pc, wizard, held, signal, ctx, server, code>>

\* The idle watchdog cancels the context.
IdleOut(p) ==
    /\ Started(p) /\ pipe[p] \in {"running", "drained"} /\ p \in Watched /\ ctx[p] = "live"
    /\ Cancel(p, "idle")
    /\ UNCHANGED <<disk, port, pc, wizard, held, signal, server, pipe, code>>

\* Slip: Pipeline.Run returns when its source is exhausted, as its comment says.
SlipPipeReturns(p) ==
    /\ Started(p)
    /\ \/ pipe[p] = "running" /\ ctx[p] # "live"
       \/ pipe[p] = "drained"
    /\ pipe' = [pipe EXCEPT ![p] = "done"]
    /\ UNCHANGED <<disk, port, pc, wizard, held, signal, ctx, server, code>>

\* Pipeline.Run returns once the context is canceled.
PipeReturns(p) ==
    /\ Started(p) /\ pipe[p] \in {"running", "drained"} /\ ctx[p] # "live"
    /\ pipe' = [pipe EXCEPT ![p] = "done"]
    /\ UNCHANGED <<disk, port, pc, wizard, held, signal, ctx, server, code>>

\* Slip: run() waits for the pipeline and then for the server.
SlipFirstReturns(p) ==
    /\ pc[p] = "serving"
    /\ pipe[p] = "done" /\ server[p] \in {"failed", "down"}
    /\ Return(p, IF server[p] = "failed" THEN "error" ELSE "ok")
    /\ Cancel(p, "return")
    /\ UNCHANGED <<disk, port, wizard, held, signal, server, pipe>>

\* run() takes the first result either sends, cancels and returns it.  It does
\* not wait for the other.
FirstReturns(p) ==
    /\ pc[p] = "serving"
    /\ \/ server[p] = "failed" /\ Return(p, "error")
       \/ (server[p] = "down" \/ pipe[p] = "done") /\ Return(p, "ok")
    /\ Cancel(p, "return")
    /\ UNCHANGED <<disk, port, wizard, held, signal, server, pipe>>

-----------------------------------------------------------------------------
(* The end *)

\* One deferred call: cleanup, source.Close or bcast.Close.
Release(p) ==
    /\ pc[p] = "return" /\ deferred[p] # <<>>
    /\ open' = [open EXCEPT ![p] = @ \ {Last(deferred[p])}]
    /\ deferred' = [deferred EXCEPT ![p] = Front(@)]
    /\ UNCHANGED <<disk, port, pc, wizard, work, code>>

\* What the process had in memory, and the port, go with it.
Gone(p, c) == /\ Goto(p, "ended") /\ code' = [code EXCEPT ![p] = c]
              /\ port' = IF port = p THEN None ELSE port
              /\ mode' = [mode EXCEPT ![p] = "live"]
              /\ conn' = [conn EXCEPT ![p] = "tokenless"]
              /\ tries' = [tries EXCEPT ![p] = 0]
              /\ signal' = [signal EXCEPT ![p] = "none"]
              /\ ctx' = [ctx EXCEPT ![p] = "live"]
              /\ server' = [server EXCEPT ![p] = "off"]
              /\ pipe' = [pipe EXCEPT ![p] = "off"]

\* main returns or calls os.Exit.
End(p) == /\ pc[p] = "return" /\ deferred[p] = <<>>
          /\ Gone(p, code[p])
          /\ UNCHANGED <<disk, held>>

\* A crash, or a signal that is not caught: of what it held, the directory
\* and the temporary file are on disk and stay.
Kill(p) == /\ pc[p] \notin {"off", "ended"}
           /\ Gone(p, "killed")
           /\ open' = [open EXCEPT ![p] = @ \cap {"fixtures"}]
           /\ deferred' = [deferred EXCEPT ![p] = <<>>]
           /\ UNCHANGED disk

Finished == (\A p \in Procs : pc[p] = "ended") /\ UNCHANGED vars

Invoke(p) == \/ \E tty \in BOOLEAN : Setup(p, tty) \/ Bare(p, tty)
             \/ \E c \in Conns \cup {"tokenless"} : Flags(p, "live", c)
             \/ \E m \in Modes \ {"live"} : Flags(p, m, "tokenless")

StartUp(p) == \/ Menu(p) \/ Collect(p) \/ Fixtures(p)
              \/ \E ok \in BOOLEAN :
                    \/ Probe(p, ok) \/ CreateTemp(p, ok) \/ WriteTemp(p, ok)
                    \/ Rename(p, ok) \/ LoadTLS(p, ok) \/ ProbeSplunk(p, ok)
                    \/ Extract(p, ok) \/ BuildSource(p, ok) \/ Start(p, ok)

\* What the process does by itself once it serves.
Run(p) == \/ TakeSignal(p) \/ Bind(p) \/ ShutDown(p) \/ PipeReturns(p)
          \/ FirstReturns(p) \/ Release(p) \/ End(p)

Next == \/ \E p \in Procs : \/ Invoke(p) \/ StartUp(p) \/ Run(p)
                            \/ Interrupt(p) \/ Drain(p) \/ IdleOut(p) \/ Kill(p)
        \/ Finished

Spec == Init /\ [][Next]_vars

\* Goroutines that are ready are run.  Users, Splunk, the source and the
\* watchdog owe nothing.
FairSpec == Spec /\ \A p \in Procs : WF_vars(Run(p))

-----------------------------------------------------------------------------
Stages == {"off", "menu", "collect", "probe", "create", "write", "rename", "tls", "splunk",
           "fixtures", "extract", "source", "hec", "serving", "return", "ended"}

TypeOK ==
    /\ file \in Conns \cup NoConns /\ accepted \subseteq Conns
    /\ port \in Procs \cup {None}
    /\ pc \in [Procs -> Stages]
    /\ mode \in [Procs -> Modes]
    /\ conn \in [Procs -> Conns \cup {"tokenless"}]
    /\ tries \in [Procs -> 0..MaxRetries]
    /\ temp \in [Procs -> Conns \cup {"absent", "torn"}]
    /\ open \in [Procs -> SUBSET {"fixtures", "source", "broadcaster"}]
    /\ deferred \in [Procs -> Seq({"fixtures", "source", "broadcaster"})]
    /\ signal \in [Procs -> {"none", "sent", "taken"}]
    /\ ctx \in [Procs -> {"live", "interrupt", "idle", "return"}]
    /\ server \in [Procs -> {"off", "binding", "listening", "failed", "down"}]
    /\ pipe \in [Procs -> {"off", "running", "drained", "done"}]
    /\ code \in [Procs -> {"ok", "error", "usage", "killed", None}]

\* The saved connection changes only from one whole connection, or none, to a
\* whole one Splunk has accepted, whatever fails or is killed halfway
\* (config.go:71-115, wizard.go:133-153).
SavedIsWholeAndProbed == [][file' # file => file' \in accepted]_vars

\* A process that was not killed leaves nothing behind, however it ended: no
\* temporary file, no fixtures, no source, no broadcaster, no listener.
LeavesNothing ==
    \A p \in Procs : pc[p] = "ended" /\ code[p] # "killed" =>
        temp[p] = "absent" /\ open[p] = {} /\ port # p

\* The exit status is success only after a signal or the idle watchdog asked
\* for the end: neither the end of a replay nor a lost port is one.
SuccessWasAskedFor ==
    \A p \in Procs : pc[p] = "return" /\ code[p] = "ok" => ctx[p] \in {"interrupt", "idle"}

\* Once a signal is caught, the watchdog has fired or either goroutine has
\* ended, the whole process ends (main.go:500-543).
StopsAsAWhole ==
    \A p \in Procs :
        Started(p) /\ (signal[p] # "none" \/ ctx[p] # "live"
                     \/ server[p] = "failed" \/ pipe[p] = "done")
        ~> pc[p] = "ended"
=============================================================================
