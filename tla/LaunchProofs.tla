---------------------------- MODULE LaunchProofs ----------------------------
(***************************************************************************)
(* Launch for any number of processes, connections and retries: what is    *)
(* saved is whole and was probed, a process that was not killed leaves     *)
(* nothing behind, and success is reported only when the end was asked     *)
(* for.  One lemma per variable for the types and one per part of the      *)
(* invariant IInv; each splits the step by stage of the process's life.    *)
(***************************************************************************)
EXTENDS Launch, TLAPS

StepOf(p) == \/ Invoke(p) \/ StartUp(p) \/ Run(p)
             \/ Interrupt(p) \/ Drain(p) \/ IdleOut(p) \/ Kill(p)

Held    == {"fixtures", "source", "broadcaster"}
Codes   == {"ok", "error", "usage", "killed", None}
Ctxs    == {"live", "interrupt", "idle", "return"}
Servers == {"off", "binding", "listening", "failed", "down"}
Pipes   == {"off", "running", "drained", "done"}

\* The stages before run() holds anything, those of Save included.
Before == {"off", "menu", "collect", "probe", "create", "write", "rename",
           "tls", "splunk", "fixtures"}

OnStack(r, s) == \E i \in 1..Len(s) : s[i] = r

\* Whoever may still probe has probes left.
RetryInv(p) == pc[p] \in {"off", "menu", "collect", "probe"} => tries[p] < MaxRetries

\* What is open is on the stack of deferred calls, but for a directory that is
\* just being filled.
HeldInv(p) ==
    /\ pc[p] \in Before => open[p] = {} /\ deferred[p] = <<>>
    /\ pc[p] = "extract" => open[p] = {"fixtures"} /\ deferred[p] = <<>>
    /\ pc[p] \in {"source", "hec", "serving", "return"} =>
          \A r \in open[p] : OnStack(r, deferred[p])

\* There is a temporary file only inside Save, and of a probed connection.
SaveInv(p) ==
    /\ pc[p] = "probe" => conn[p] \in Conns
    /\ pc[p] \in {"create", "write", "rename"} => conn[p] \in accepted
    /\ pc[p] = "rename" => temp[p] = conn[p]
    /\ pc[p] \notin {"write", "rename", "ended"} => temp[p] = "absent"

\* Only run() has a server, a pipeline or the port; neither goroutine ends well
\* before it is told to, and run() itself cancels last.
EndInv(p) ==
    /\ pc[p] \notin {"serving", "return"} => server[p] = "off" /\ pipe[p] = "off"
    /\ pc[p] \in {"serving", "return"} \/ port # p
    /\ server[p] = "down" \/ pipe[p] = "done" => ctx[p] # "live"
    /\ pc[p] # "return" => ctx[p] \in {"live", "interrupt", "idle"}
    /\ pc[p] = "return" /\ code[p] = "ok" => ctx[p] \in {"interrupt", "idle"}

\* What is left once it has ended.
LeftInv(p) ==
    pc[p] = "ended" /\ code[p] # "killed" => temp[p] = "absent" /\ open[p] = {}

IInv == /\ TypeOK
        /\ \A p \in Procs : RetryInv(p)
        /\ \A p \in Procs : HeldInv(p)
        /\ \A p \in Procs : SaveInv(p)
        /\ \A p \in Procs : EndInv(p)
        /\ \A p \in Procs : LeftInv(p)

-----------------------------------------------------------------------------
(* The types, a variable at a time *)

\* The stages of main, the wizard and run().
LEMMA StageNames ==
    /\ "off" \in Stages /\ "menu" \in Stages /\ "collect" \in Stages /\ "probe" \in Stages
    /\ "create" \in Stages /\ "write" \in Stages /\ "rename" \in Stages /\ "tls" \in Stages
    /\ "splunk" \in Stages /\ "fixtures" \in Stages /\ "extract" \in Stages
    /\ "source" \in Stages /\ "hec" \in Stages /\ "serving" \in Stages
    /\ "return" \in Stages /\ "ended" \in Stages
  BY DEF Stages

\* Every handler leaves the process at a stage there is.
LEMMA PcType ==
    ASSUME pc \in [Procs -> Stages],
           NEW p \in Procs, StepOf(p)
    PROVE  pc' \in [Procs -> Stages]
<1>1. CASE Invoke(p)
  BY <1>1, StageNames DEF Invoke, Setup, Flags, Bare, Goto, Return
<1>2. CASE StartUp(p)
  BY <1>2, StageNames DEF StartUp, Menu, Collect, Probe, CreateTemp, WriteTemp,
      Rename, LoadTLS,
      ProbeSplunk, Fixtures, Extract, BuildSource, Start, Goto, Return
<1>3. CASE Run(p)
  BY <1>3, StageNames DEF Run, TakeSignal, Bind, ShutDown, PipeReturns, FirstReturns,
      Release, End, Goto, Return, Gone
<1>4. CASE Interrupt(p) \/ Drain(p) \/ IdleOut(p)
  BY <1>4, StageNames DEF Interrupt, Drain, IdleOut
<1>5. CASE Kill(p)
  BY <1>5, StageNames DEF Kill, Goto, Gone
<1> QED BY <1>1, <1>2, <1>3, <1>4, <1>5 DEF StepOf

\* The exit status is one main or run() can give.
LEMMA CodeType ==
    ASSUME code \in [Procs -> Codes],
           NEW p \in Procs, StepOf(p)
    PROVE  code' \in [Procs -> Codes]
<1>1. CASE Invoke(p)
  BY <1>1 DEF Invoke, Setup, Flags, Bare, Goto, Return, Codes
<1>2. CASE StartUp(p)
  BY <1>2 DEF StartUp, Menu, Collect, Probe, CreateTemp, WriteTemp, Rename, LoadTLS,
      ProbeSplunk, Fixtures, Extract, BuildSource, Start, Goto, Return, Codes
<1>3. CASE Run(p)
  BY <1>3 DEF Run, TakeSignal, Bind, ShutDown, PipeReturns, FirstReturns,
      Release, End, Goto, Return, Gone, Codes
<1>4. CASE Interrupt(p) \/ Drain(p) \/ IdleOut(p)
  BY <1>4 DEF Interrupt, Drain, IdleOut, Codes
<1>5. CASE Kill(p)
  BY <1>5 DEF Kill, Goto, Gone, Codes
<1> QED BY <1>1, <1>2, <1>3, <1>4, <1>5 DEF StepOf

\* The mode is one buildSource knows, or none of them.
LEMMA ModeType ==
    ASSUME mode \in [Procs -> Modes],
           NEW p \in Procs, StepOf(p)
    PROVE  mode' \in [Procs -> Modes]
<1>1. CASE Invoke(p)
  BY <1>1 DEF Invoke, Setup, Flags, Bare, wizard, Modes
<1>2. CASE StartUp(p)
  BY <1>2 DEF StartUp, Menu, Collect, Probe, CreateTemp, WriteTemp, Rename, LoadTLS,
      ProbeSplunk, Fixtures, Extract, BuildSource, Start, wizard, Modes
<1>3. CASE Run(p)
  BY <1>3 DEF Run, TakeSignal, Bind, ShutDown, PipeReturns, FirstReturns,
      Release, End, Gone, wizard, Modes
<1>4. CASE Interrupt(p) \/ Drain(p) \/ IdleOut(p)
  BY <1>4 DEF Interrupt, Drain, IdleOut, wizard
<1>5. CASE Kill(p)
  BY <1>5 DEF Kill, Gone, wizard, Modes
<1> QED BY <1>1, <1>2, <1>3, <1>4, <1>5 DEF StepOf

\* The connection is one entered or saved, or lacks its token.
LEMMA ConnType ==
    ASSUME conn \in [Procs -> Conns \cup {"tokenless"}],
           NEW p \in Procs, StepOf(p)
    PROVE  conn' \in [Procs -> Conns \cup {"tokenless"}]
<1>1. CASE Invoke(p)
  BY <1>1, LaunchAssumption DEF Invoke, Setup, Flags, Bare, wizard, NoConns
<1>2. CASE StartUp(p)
  BY <1>2, LaunchAssumption DEF StartUp, Menu, Collect, Probe, CreateTemp,
      WriteTemp, Rename, LoadTLS,
      ProbeSplunk, Fixtures, Extract, BuildSource, Start, wizard, NoConns
<1>3. CASE Run(p)
  BY <1>3, LaunchAssumption DEF Run, TakeSignal, Bind, ShutDown, PipeReturns,
      FirstReturns,
      Release, End, Gone, wizard, NoConns
<1>4. CASE Interrupt(p) \/ Drain(p) \/ IdleOut(p)
  BY <1>4, LaunchAssumption DEF Interrupt, Drain, IdleOut, wizard, NoConns
<1>5. CASE Kill(p)
  BY <1>5, LaunchAssumption DEF Kill, Gone, wizard, NoConns
<1> QED BY <1>1, <1>2, <1>3, <1>4, <1>5 DEF StepOf

\* The wizard's refusals stay within its retries.
LEMMA TriesType ==
    ASSUME pc \in [Procs -> Stages],
           tries \in [Procs -> 0..MaxRetries],
           \A q \in Procs : RetryInv(q),
           NEW p \in Procs, StepOf(p)
    PROVE  tries' \in [Procs -> 0..MaxRetries] /\ \A q \in Procs : RetryInv(q)'
<1>1. CASE Invoke(p)
  BY <1>1, LaunchAssumption DEF Invoke, Setup, Flags, Bare, wizard, Goto, Return, RetryInv
<1>2. CASE StartUp(p)
  BY <1>2, LaunchAssumption DEF StartUp, Menu, Collect, Probe, CreateTemp,
      WriteTemp, Rename, LoadTLS,
      ProbeSplunk, Fixtures, Extract, BuildSource, Start, wizard, Goto, Return, RetryInv
<1>3. CASE Run(p)
  BY <1>3, LaunchAssumption DEF Run, TakeSignal, Bind, ShutDown, PipeReturns,
      FirstReturns,
      Release, End, Gone, wizard, Goto, Return, RetryInv
<1>4. CASE Interrupt(p) \/ Drain(p) \/ IdleOut(p)
  BY <1>4, LaunchAssumption DEF Interrupt, Drain, IdleOut, wizard, RetryInv
<1>5. CASE Kill(p)
  BY <1>5, LaunchAssumption DEF Kill, Gone, wizard, Goto, RetryInv
<1> QED BY <1>1, <1>2, <1>3, <1>4, <1>5 DEF StepOf

\* The temporary file of Save is empty or holds a connection.
LEMMA TempType ==
    ASSUME temp \in [Procs -> Conns \cup {"absent", "torn"}],
           conn \in [Procs -> Conns \cup {"tokenless"}],
           accepted \subseteq Conns,
           \A q \in Procs : SaveInv(q),
           NEW p \in Procs, StepOf(p)
    PROVE  temp' \in [Procs -> Conns \cup {"absent", "torn"}]
<1>1. CASE Invoke(p)
  BY <1>1 DEF Invoke, Setup, Flags, Bare, disk, SaveInv, Goto, Return
<1>2. CASE StartUp(p)
  BY <1>2 DEF StartUp, Menu, Collect, Probe, CreateTemp, WriteTemp, Rename, LoadTLS,
      ProbeSplunk, Fixtures, Extract, BuildSource, Start, disk, SaveInv, Goto, Return
<1>3. CASE Run(p)
  BY <1>3 DEF Run, TakeSignal, Bind, ShutDown, PipeReturns, FirstReturns,
      Release, End, disk, SaveInv, Goto, Return
<1>4. CASE Interrupt(p) \/ Drain(p) \/ IdleOut(p)
  BY <1>4 DEF Interrupt, Drain, IdleOut, disk, SaveInv
<1>5. CASE Kill(p)
  BY <1>5 DEF Kill, disk, SaveInv, Goto
<1> QED BY <1>1, <1>2, <1>3, <1>4, <1>5 DEF StepOf

\* run() opens the fixtures, the source and the broadcaster.
LEMMA OpenType ==
    ASSUME open \in [Procs -> SUBSET Held],
           NEW p \in Procs, StepOf(p)
    PROVE  open' \in [Procs -> SUBSET Held]
<1>1. CASE Invoke(p)
  BY <1>1 DEF Invoke, Setup, Flags, Bare, held, Held
<1>2. CASE StartUp(p)
  BY <1>2 DEF StartUp, Menu, Collect, Probe, CreateTemp, WriteTemp, Rename, LoadTLS,
      ProbeSplunk, Fixtures, Extract, BuildSource, Start, Acquire, held, Held
<1>3. CASE Run(p)
  BY <1>3 DEF Run, TakeSignal, Bind, ShutDown, PipeReturns, FirstReturns,
      Release, End, held, Held
<1>4. CASE Interrupt(p) \/ Drain(p) \/ IdleOut(p)
  BY <1>4 DEF Interrupt, Drain, IdleOut, held, Held
<1>5. CASE Kill(p)
  BY <1>5 DEF Kill, held, Held
<1> QED BY <1>1, <1>2, <1>3, <1>4, <1>5 DEF StepOf

\* The channel of signal.Notify holds one signal, once.
LEMMA SignalType ==
    ASSUME signal \in [Procs -> {"none", "sent", "taken"}],
           NEW p \in Procs, StepOf(p)
    PROVE  signal' \in [Procs -> {"none", "sent", "taken"}]
<1>1. CASE Invoke(p)
  BY <1>1 DEF Invoke, Setup, Flags, Bare, work
<1>2. CASE StartUp(p)
  BY <1>2 DEF StartUp, Menu, Collect, Probe, CreateTemp, WriteTemp, Rename, LoadTLS,
      ProbeSplunk, Fixtures, Extract, BuildSource, Start, work
<1>3. CASE Run(p)
  BY <1>3 DEF Run, TakeSignal, Bind, ShutDown, PipeReturns, FirstReturns,
      Release, End, Gone, work
<1>4. CASE Interrupt(p) \/ Drain(p) \/ IdleOut(p)
  BY <1>4 DEF Interrupt, Drain, IdleOut, work
<1>5. CASE Kill(p)
  BY <1>5 DEF Kill, Gone, work
<1> QED BY <1>1, <1>2, <1>3, <1>4, <1>5 DEF StepOf

\* The context is live, or canceled for a reason there is.
LEMMA CtxType ==
    ASSUME ctx \in [Procs -> Ctxs],
           NEW p \in Procs, StepOf(p)
    PROVE  ctx' \in [Procs -> Ctxs]
<1>1. CASE Invoke(p)
  BY <1>1 DEF Invoke, Setup, Flags, Bare, work, Ctxs
<1>2. CASE StartUp(p)
  BY <1>2 DEF StartUp, Menu, Collect, Probe, CreateTemp, WriteTemp, Rename, LoadTLS,
      ProbeSplunk, Fixtures, Extract, BuildSource, Start, work, Ctxs
<1>3. CASE Run(p)
  BY <1>3 DEF Run, TakeSignal, Bind, ShutDown, PipeReturns, FirstReturns,
      Release, End, Gone, work, Cancel, Ctxs
<1>4. CASE Interrupt(p) \/ Drain(p) \/ IdleOut(p)
  BY <1>4 DEF Interrupt, Drain, IdleOut, work, Cancel, Ctxs
<1>5. CASE Kill(p)
  BY <1>5 DEF Kill, Gone, work, Ctxs
<1> QED BY <1>1, <1>2, <1>3, <1>4, <1>5 DEF StepOf

\* The server is in one of its states.
LEMMA ServerType ==
    ASSUME server \in [Procs -> Servers],
           NEW p \in Procs, StepOf(p)
    PROVE  server' \in [Procs -> Servers]
<1>1. CASE Invoke(p)
  BY <1>1 DEF Invoke, Setup, Flags, Bare, work, Servers
<1>2. CASE StartUp(p)
  BY <1>2 DEF StartUp, Menu, Collect, Probe, CreateTemp, WriteTemp, Rename, LoadTLS,
      ProbeSplunk, Fixtures, Extract, BuildSource, Start, work, Servers
<1>3. CASE Run(p)
  BY <1>3 DEF Run, TakeSignal, Bind, ShutDown, PipeReturns, FirstReturns,
      Release, End, Gone, work, Servers
<1>4. CASE Interrupt(p) \/ Drain(p) \/ IdleOut(p)
  BY <1>4 DEF Interrupt, Drain, IdleOut, work, Servers
<1>5. CASE Kill(p)
  BY <1>5 DEF Kill, Gone, work, Servers
<1> QED BY <1>1, <1>2, <1>3, <1>4, <1>5 DEF StepOf

\* The pipeline is in one of its states.
LEMMA PipeType ==
    ASSUME pipe \in [Procs -> Pipes],
           NEW p \in Procs, StepOf(p)
    PROVE  pipe' \in [Procs -> Pipes]
<1>1. CASE Invoke(p)
  BY <1>1 DEF Invoke, Setup, Flags, Bare, work, Pipes
<1>2. CASE StartUp(p)
  BY <1>2 DEF StartUp, Menu, Collect, Probe, CreateTemp, WriteTemp, Rename, LoadTLS,
      ProbeSplunk, Fixtures, Extract, BuildSource, Start, work, Pipes
<1>3. CASE Run(p)
  BY <1>3 DEF Run, TakeSignal, Bind, ShutDown, PipeReturns, FirstReturns,
      Release, End, Gone, work, Pipes
<1>4. CASE Interrupt(p) \/ Drain(p) \/ IdleOut(p)
  BY <1>4 DEF Interrupt, Drain, IdleOut, work, Pipes
<1>5. CASE Kill(p)
  BY <1>5 DEF Kill, Gone, work, Pipes
<1> QED BY <1>1, <1>2, <1>3, <1>4, <1>5 DEF StepOf

\* The port is a process's or nobody's.
LEMMA PortType ==
    ASSUME port \in Procs \cup {None},
           NEW p \in Procs, StepOf(p)
    PROVE  port' \in Procs \cup {None}
<1>1. CASE Invoke(p)
  BY <1>1 DEF Invoke, Setup, Flags, Bare
<1>2. CASE StartUp(p)
  BY <1>2 DEF StartUp, Menu, Collect, Probe, CreateTemp, WriteTemp, Rename, LoadTLS,
      ProbeSplunk, Fixtures, Extract, BuildSource, Start
<1>3. CASE Run(p)
  BY <1>3 DEF Run, TakeSignal, Bind, ShutDown, PipeReturns, FirstReturns,
      Release, End, Gone
<1>4. CASE Interrupt(p) \/ Drain(p) \/ IdleOut(p)
  BY <1>4 DEF Interrupt, Drain, IdleOut
<1>5. CASE Kill(p)
  BY <1>5 DEF Kill, Gone
<1> QED BY <1>1, <1>2, <1>3, <1>4, <1>5 DEF StepOf

-----------------------------------------------------------------------------
(* The parts of the invariant *)

\* Save renames only what it has written whole, of a connection probed.
LEMMA SaveStep ==
    ASSUME pc \in [Procs -> Stages],
           conn \in [Procs -> Conns \cup {"tokenless"}],
           temp \in [Procs -> Conns \cup {"absent", "torn"}],
           accepted \subseteq Conns,
           \A q \in Procs : SaveInv(q),
           NEW p \in Procs, StepOf(p)
    PROVE  \A q \in Procs : SaveInv(q)'
<1>1. CASE Invoke(p)
  BY <1>1 DEF Invoke, Setup, Flags, Bare, SaveInv, Goto, Return, disk, wizard
<1>2. CASE StartUp(p)
  BY <1>2 DEF StartUp, Menu, Collect, Probe, CreateTemp, WriteTemp, Rename, LoadTLS,
      ProbeSplunk, Fixtures, Extract, BuildSource, Start, SaveInv, Goto, Return,
      disk, wizard
<1>3. CASE Run(p)
  BY <1>3 DEF Run, TakeSignal, Bind, ShutDown, PipeReturns, FirstReturns,
      Release, End, SaveInv, Goto, Return, Gone, disk, wizard
<1>4. CASE Interrupt(p) \/ Drain(p) \/ IdleOut(p)
  BY <1>4 DEF Interrupt, Drain, IdleOut, SaveInv, disk, wizard
<1>5. CASE Kill(p)
  BY <1>5 DEF Kill, SaveInv, Goto, Gone, disk, wizard
<1> QED BY <1>1, <1>2, <1>3, <1>4, <1>5 DEF StepOf

\* Neither goroutine ends well before the context is canceled.
LEMMA EndStep ==
    ASSUME pc \in [Procs -> Stages],
           code \in [Procs -> Codes],
           server \in [Procs -> Servers],
           pipe \in [Procs -> Pipes],
           ctx \in [Procs -> Ctxs],
           \A q \in Procs : EndInv(q),
           NEW p \in Procs, StepOf(p)
    PROVE  \A q \in Procs : EndInv(q)'
<1>1. CASE Invoke(p)
  BY <1>1, LaunchAssumption DEF Invoke, Setup, Flags, Bare, EndInv, Goto, Return,
      work, Codes, Servers, Pipes, Ctxs
<1>2. CASE StartUp(p)
  BY <1>2, LaunchAssumption DEF StartUp, Menu, Collect, Probe, CreateTemp,
      WriteTemp, Rename, LoadTLS,
      ProbeSplunk, Fixtures, Extract, BuildSource, Start, EndInv, Goto, Return,
      work, Codes, Servers, Pipes, Ctxs
<1>3. CASE Run(p)
  BY <1>3, LaunchAssumption DEF Run, TakeSignal, Bind, ShutDown, PipeReturns,
      FirstReturns,
      Release, End, EndInv, Goto, Return, Gone, Cancel, Started, work, Codes,
      Servers, Pipes, Ctxs
<1>4. CASE Interrupt(p) \/ Drain(p) \/ IdleOut(p)
  BY <1>4, LaunchAssumption DEF Interrupt, Drain, IdleOut, EndInv, Cancel, Started,
      work, Codes, Servers, Pipes, Ctxs
<1>5. CASE Kill(p)
  BY <1>5, LaunchAssumption DEF Kill, EndInv, Goto, Gone, work, Codes, Servers,
      Pipes, Ctxs
<1> QED BY <1>1, <1>2, <1>3, <1>4, <1>5 DEF StepOf

\* What is popped off the stack of deferred calls is the last of it.
LEMMA PopOne ==
    ASSUME NEW s \in Seq(Held), s # <<>>
    PROVE  /\ Front(s) \in Seq(Held)
           /\ \A r : OnStack(r, s) /\ r # Last(s) => OnStack(r, Front(s))
<1>1. Front(s) \in Seq(Held)
  BY DEF Front
<1>2. ASSUME NEW r, OnStack(r, s), r # Last(s) PROVE OnStack(r, Front(s))
  <2>1. PICK i \in 1..Len(s) : s[i] = r
    BY <1>2 DEF OnStack
  <2>2. i # Len(s)
    BY <1>2, <2>1 DEF Last
  <2>3. i \in 1..(Len(s) - 1) /\ Len(s) - 1 \in Nat /\ Len(s) - 1 <= Len(s)
    BY <2>1, <2>2
  <2>4. Len(Front(s)) = Len(s) - 1 /\ Front(s)[i] = s[i]
    BY <2>3 DEF Front
  <2> QED BY <2>1, <2>3, <2>4 DEF OnStack
<1> QED BY <1>1, <1>2

\* Nothing is on an empty stack.
LEMMA EmptyStack == \A r : ~OnStack(r, <<>>)
  BY DEF OnStack

\* buildSource and the broadcaster put two on top of what is there.
LEMMA PushTwo ==
    ASSUME NEW s \in Seq(Held)
    PROVE  \A r \in Held : OnStack(r, s) \/ r \in {"source", "broadcaster"}
               => OnStack(r, s \o <<"source", "broadcaster">>)
<1> DEFINE t == s \o <<"source", "broadcaster">>
<1>1. /\ Len(t) = Len(s) + 2 /\ \A i \in 1..Len(s) : t[i] = s[i]
      /\ t[Len(s) + 1] = "source" /\ t[Len(s) + 2] = "broadcaster"
  OBVIOUS
<1>2. Len(s) \in Nat
  OBVIOUS
<1> QED BY <1>1, <1>2 DEF OnStack

\* The stack stays a stack of what run() defers.
LEMMA DeferredType ==
    ASSUME deferred \in [Procs -> Seq(Held)],
           NEW p \in Procs, StepOf(p)
    PROVE  deferred' \in [Procs -> Seq(Held)]
<1>1. CASE Release(p)
  <2>1. Front(deferred[p]) \in Seq(Held)
    BY <1>1, PopOne DEF Release
  <2> QED BY <1>1, <2>1 DEF Release
<1>2. CASE StartUp(p)
  <2>1. \A s \in Seq(Held) : /\ Append(s, "fixtures") \in Seq(Held)
                             /\ s \o <<"source", "broadcaster">> \in Seq(Held)
    BY DEF Held
  <2> QED BY <1>2, <2>1 DEF StartUp, Menu, Collect, Probe, CreateTemp, WriteTemp, Rename,
            LoadTLS, ProbeSplunk, Fixtures, Extract, BuildSource, Start, Acquire, held
<1>3. CASE \/ Invoke(p) \/ TakeSignal(p) \/ Bind(p) \/ ShutDown(p) \/ PipeReturns(p)
           \/ FirstReturns(p) \/ End(p) \/ Interrupt(p) \/ Drain(p) \/ IdleOut(p)
  BY <1>3 DEF Invoke, Setup, Flags, Bare, TakeSignal, Bind, ShutDown, PipeReturns,
      FirstReturns, End, Interrupt, Drain, IdleOut, held
<1>4. CASE Kill(p)
  BY <1>4 DEF Kill
<1> QED BY <1>1, <1>2, <1>3, <1>4 DEF StepOf, Run

\* resolveReplayTestdata removes at once what it could not fill.
LEMMA ExtractHeld ==
    ASSUME pc \in [Procs -> Stages], open \in [Procs -> SUBSET Held],
           deferred \in [Procs -> Seq(Held)], \A q \in Procs : HeldInv(q),
           NEW p \in Procs, NEW ok \in BOOLEAN, Extract(p, ok)
    PROVE  \A q \in Procs : HeldInv(q)'
<1>1. open[p] = {"fixtures"} /\ deferred[p] = <<>>
  BY DEF HeldInv, Extract
<1>2. ASSUME NEW q \in Procs, q # p PROVE HeldInv(q)'
  BY <1>2 DEF HeldInv, Extract, Acquire, Goto, Return
<1>3. CASE ok
  <2>1. /\ pc'[p] = "source" /\ open'[p] = {"fixtures"}
        /\ deferred'[p] = <<"fixtures">>
    BY <1>1, <1>3 DEF Extract, Acquire, Goto
  <2>2. OnStack("fixtures", <<"fixtures">>)
    BY DEF OnStack
  <2> QED BY <1>2, <2>1, <2>2 DEF HeldInv, Before
<1>4. CASE ~ok
  <2>1. pc'[p] = "return" /\ open'[p] = {}
    BY <1>1, <1>4 DEF Extract, Return, Goto
  <2> QED BY <1>2, <2>1 DEF HeldInv, Before
<1> QED BY <1>3, <1>4

\* Source and broadcaster are deferred as they are opened.
LEMMA SourceHeld ==
    ASSUME pc \in [Procs -> Stages], open \in [Procs -> SUBSET Held],
           deferred \in [Procs -> Seq(Held)], \A q \in Procs : HeldInv(q),
           NEW p \in Procs, NEW ok \in BOOLEAN, BuildSource(p, ok)
    PROVE  \A q \in Procs : HeldInv(q)'
<1>1. deferred[p] \in Seq(Held) /\ \A r \in open[p] : OnStack(r, deferred[p])
  BY DEF HeldInv, BuildSource
<1>2. ASSUME NEW q \in Procs, q # p PROVE HeldInv(q)'
  BY <1>2 DEF HeldInv, BuildSource, held, Goto, Return
<1>3. CASE pc'[p] = "hec"
  <2>1. /\ open'[p] = open[p] \cup {"source", "broadcaster"}
        /\ deferred'[p] = deferred[p] \o <<"source", "broadcaster">>
    BY <1>3 DEF BuildSource, Return, Goto
  <2>2. \A r \in open'[p] : OnStack(r, deferred'[p])
    BY <1>1, <2>1, PushTwo DEF Held
  <2> QED BY <1>2, <1>3, <2>2 DEF HeldInv, Before
<1>4. CASE pc'[p] # "hec"
  <2>1. pc'[p] = "return" /\ open' = open /\ deferred' = deferred
    BY <1>4 DEF BuildSource, Return, Goto, held
  <2> QED BY <1>1, <1>2, <2>1 DEF HeldInv, Before
<1> QED BY <1>3, <1>4

\* A deferred call releases what it was deferred for.
LEMMA ReleaseHeld ==
    ASSUME pc \in [Procs -> Stages], open \in [Procs -> SUBSET Held],
           deferred \in [Procs -> Seq(Held)], \A q \in Procs : HeldInv(q),
           NEW p \in Procs, Release(p)
    PROVE  \A q \in Procs : HeldInv(q)'
<1>1. \A r \in open[p] \ {Last(deferred[p])} : OnStack(r, Front(deferred[p]))
  BY PopOne DEF Release, HeldInv
<1>2. /\ pc' = pc /\ open'[p] = open[p] \ {Last(deferred[p])}
      /\ deferred'[p] = Front(deferred[p]) /\ pc[p] = "return"
  BY DEF Release
<1>3. \A q \in Procs : q # p => open'[q] = open[q] /\ deferred'[q] = deferred[q]
  BY DEF Release
<1> QED BY <1>1, <1>2, <1>3 DEF HeldInv, Before

\* Whatever run() has open, its deferred calls release.
LEMMA HeldStep ==
    ASSUME pc \in [Procs -> Stages], open \in [Procs -> SUBSET Held],
           deferred \in [Procs -> Seq(Held)], \A q \in Procs : HeldInv(q),
           NEW p \in Procs, StepOf(p)
    PROVE  \A q \in Procs : HeldInv(q)'
<1>1. CASE Invoke(p)
  BY <1>1 DEF Invoke, HeldInv, Setup, Flags, Bare, Goto, Return, held, Before
<1>2. CASE StartUp(p)
  <2>1. CASE Fixtures(p)
    BY <2>1 DEF Fixtures, HeldInv, Goto, Return, Before
  <2>2. CASE \/ Menu(p) \/ Collect(p)
             \/ \E ok \in BOOLEAN :
                    \/ Probe(p, ok) \/ CreateTemp(p, ok) \/ WriteTemp(p, ok) \/ Rename(p, ok)
                    \/ LoadTLS(p, ok) \/ ProbeSplunk(p, ok) \/ Start(p, ok)
    BY <2>2 DEF Menu, Collect, Probe, CreateTemp, WriteTemp, Rename, LoadTLS,
        ProbeSplunk, Start, HeldInv, Goto, Return, held, Before
  <2> QED BY <1>2, <2>1, <2>2, ExtractHeld, SourceHeld DEF StartUp
<1>3. CASE Run(p)
  <2>1. CASE End(p)
    BY <2>1 DEF End, HeldInv, Goto, held, Before, Gone
  <2>2. CASE TakeSignal(p) \/ Bind(p) \/ ShutDown(p) \/ PipeReturns(p) \/ FirstReturns(p)
    BY <2>2 DEF TakeSignal, Bind, ShutDown, PipeReturns, FirstReturns, HeldInv,
        Goto, Return,
        held, Before
  <2> QED BY <1>3, <2>1, <2>2, ReleaseHeld DEF Run
<1>4. CASE Interrupt(p) \/ Drain(p) \/ IdleOut(p)
  BY <1>4 DEF Interrupt, Drain, IdleOut, HeldInv, held, Before
<1>5. CASE Kill(p)
  BY <1>5 DEF Kill, Gone, Goto, HeldInv, Before
<1> QED BY <1>1, <1>2, <1>3, <1>4, <1>5 DEF StepOf

\* main ends with nothing held and no temporary file.
LEMMA LeftStep ==
    ASSUME pc \in [Procs -> Stages], code \in [Procs -> Codes],
           open \in [Procs -> SUBSET Held], temp \in [Procs -> Conns \cup {"absent", "torn"}],
           \A q \in Procs : HeldInv(q), \A q \in Procs : SaveInv(q),
           \A q \in Procs : LeftInv(q), NEW p \in Procs, StepOf(p)
    PROVE  \A q \in Procs : LeftInv(q)'
<1>1. CASE Invoke(p)
  BY <1>1 DEF Invoke, Setup, Flags, Bare, LeftInv, Goto, Return, disk, held
<1>2. CASE StartUp(p)
  BY <1>2 DEF StartUp, Menu, Collect, Probe, CreateTemp, WriteTemp, Rename, LoadTLS,
      ProbeSplunk, Fixtures, Extract, BuildSource, Start, Acquire, LeftInv, Goto, Return,
      disk, held
<1>3. CASE End(p)
  <2>1. open[p] = {} /\ temp[p] = "absent"
    BY <1>3, EmptyStack DEF End, HeldInv, SaveInv
  <2> QED BY <1>3, <2>1 DEF End, Gone, Goto, LeftInv, disk, held
<1>4. CASE \/ TakeSignal(p) \/ Bind(p) \/ ShutDown(p) \/ PipeReturns(p) \/ FirstReturns(p)
           \/ Release(p) \/ Interrupt(p) \/ Drain(p) \/ IdleOut(p)
  BY <1>4 DEF TakeSignal, Bind, ShutDown, PipeReturns, FirstReturns, Release, Interrupt,
      Drain, IdleOut, LeftInv, Return, Goto, disk, held
<1>5. CASE Kill(p)
  BY <1>5 DEF Kill, Gone, Goto, LeftInv, disk
<1> QED BY <1>1, <1>2, <1>3, <1>4, <1>5 DEF StepOf, Run

\* Only Rename touches the saved connection, and what it puts there was probed.
LEMMA FileStep ==
    ASSUME accepted \subseteq Conns, conn \in [Procs -> Conns \cup {"tokenless"}],
           \A q \in Procs : SaveInv(q), NEW p \in Procs, StepOf(p)
    PROVE  /\ accepted' \subseteq Conns
           /\ file' # file => file' \in accepted
<1>1. CASE Invoke(p)
  BY <1>1 DEF Invoke, Setup, Flags, Bare, disk
<1>2. CASE StartUp(p)
  BY <1>2 DEF StartUp, Menu, Collect, Probe, CreateTemp, WriteTemp, Rename, LoadTLS,
      ProbeSplunk, Fixtures, Extract, BuildSource, Start, SaveInv, disk
<1>3. CASE Run(p)
  BY <1>3 DEF Run, TakeSignal, Bind, ShutDown, PipeReturns, FirstReturns, Release,
      End, disk
<1>4. CASE Interrupt(p) \/ Drain(p) \/ IdleOut(p) \/ Kill(p)
  BY <1>4 DEF Interrupt, Drain, IdleOut, Kill, disk
<1> QED BY <1>1, <1>2, <1>3, <1>4 DEF StepOf

-----------------------------------------------------------------------------
(* The invariant *)

\* Nothing has been started, nothing is held.
LEMMA InvInit == ASSUME Init PROVE IInv
<1>1. TypeOK
  BY LaunchAssumption DEF Init, TypeOK, Stages, Modes, NoConns
<1>2. \A p \in Procs : RetryInv(p)
  BY LaunchAssumption DEF Init, RetryInv
<1>3. \A p \in Procs : HeldInv(p) /\ SaveInv(p) /\ EndInv(p) /\ LeftInv(p)
  BY LaunchAssumption DEF Init, HeldInv, SaveInv, EndInv, LeftInv, Before
<1> QED BY <1>1, <1>2, <1>3 DEF IInv

\* The types, in the words of the lemmas.
LEMMA Types ==
    ASSUME TypeOK
    PROVE  /\ file \in Conns \cup NoConns /\ accepted \subseteq Conns
           /\ port \in Procs \cup {None}
           /\ pc \in [Procs -> Stages] /\ code \in [Procs -> Codes]
           /\ mode \in [Procs -> Modes]
           /\ conn \in [Procs -> Conns \cup {"tokenless"}]
           /\ tries \in [Procs -> 0..MaxRetries]
           /\ temp \in [Procs -> Conns \cup {"absent", "torn"}]
           /\ open \in [Procs -> SUBSET Held] /\ deferred \in [Procs -> Seq(Held)]
           /\ signal \in [Procs -> {"none", "sent", "taken"}] /\ ctx \in [Procs -> Ctxs]
           /\ server \in [Procs -> Servers] /\ pipe \in [Procs -> Pipes]
  BY Zenon DEF TypeOK, Codes, Held, Ctxs, Servers, Pipes

\* Every step of a process keeps all of it.
LEMMA InvStep == ASSUME IInv, NEW p \in Procs, StepOf(p) PROVE IInv'
<1>1. TypeOK
  BY DEF IInv
<1>2. /\ \A q \in Procs : RetryInv(q)
      /\ \A q \in Procs : HeldInv(q)
      /\ \A q \in Procs : SaveInv(q)
      /\ \A q \in Procs : EndInv(q)
      /\ \A q \in Procs : LeftInv(q)
  BY DEF IInv
<1>3. /\ accepted' \subseteq Conns
      /\ file' \in Conns \cup NoConns
  BY <1>1, <1>2, Types, FileStep
<1>4. /\ pc' \in [Procs -> Stages] /\ code' \in [Procs -> Codes] /\ mode' \in [Procs -> Modes]
  BY <1>1, Types, PcType, CodeType, ModeType
<1>5. /\ conn' \in [Procs -> Conns \cup {"tokenless"}]
      /\ temp' \in [Procs -> Conns \cup {"absent", "torn"}]
      /\ \A q \in Procs : SaveInv(q)'
  BY <1>1, <1>2, Types, ConnType, TempType, SaveStep
<1>6. /\ tries' \in [Procs -> 0..MaxRetries]
      /\ \A q \in Procs : RetryInv(q)'
  BY <1>1, <1>2, Types, TriesType
<1>7. /\ open' \in [Procs -> SUBSET Held] /\ deferred' \in [Procs -> Seq(Held)]
      /\ \A q \in Procs : HeldInv(q)'
      /\ \A q \in Procs : LeftInv(q)'
  BY <1>1, <1>2, Types, OpenType, DeferredType, HeldStep, LeftStep
<1>8. /\ signal' \in [Procs -> {"none", "sent", "taken"}] /\ ctx' \in [Procs -> Ctxs]
      /\ server' \in [Procs -> Servers] /\ pipe' \in [Procs -> Pipes]
      /\ port' \in Procs \cup {None}
      /\ \A q \in Procs : EndInv(q)'
  BY <1>1, <1>2, Types, SignalType, CtxType, ServerType, PipeType, PortType, EndStep
<1>9. TypeOK'
  BY Zenon, <1>3, <1>4, <1>5, <1>6, <1>7, <1>8 DEF TypeOK, Codes, Held, Ctxs,
      Servers, Pipes
<1> QED BY <1>5, <1>6, <1>7, <1>8, <1>9 DEF IInv

\* A step that changes nothing keeps it.
LEMMA InvStutter == ASSUME IInv, UNCHANGED vars PROVE IInv'
<1> USE DEF vars, disk, wizard, held, work
<1>1. TypeOK'
  BY DEF IInv, TypeOK
<1>2. \A q \in Procs : RetryInv(q)'
  BY DEF IInv, RetryInv
<1>3. \A q \in Procs : HeldInv(q)'
  BY DEF IInv, HeldInv
<1>4. \A q \in Procs : SaveInv(q)' /\ EndInv(q)' /\ LeftInv(q)'
  BY DEF IInv, SaveInv, EndInv, LeftInv
<1> QED BY <1>1, <1>2, <1>3, <1>4 DEF IInv

\* The types, what is held, Save, the end and what is left hold together.
THEOREM Invariant == Spec => []IInv
<1>1. Init => IInv
  BY InvInit
<1>2. IInv /\ [Next]_vars => IInv'
  BY InvStep, InvStutter DEF Next, Finished, StepOf
<1> QED BY <1>1, <1>2, PTL DEF Spec

\* The variables of main, the wizard and run() keep their types.
THEOREM TypeCorrect == Spec => []TypeOK
<1>1. IInv => TypeOK
  BY DEF IInv
<1> QED BY <1>1, Invariant, PTL

\* A process that was not killed leaves no file, source, broadcaster or listener.
THEOREM NothingLeft == Spec => []LeavesNothing
<1>1. IInv => LeavesNothing
  BY DEF IInv, LeavesNothing, LeftInv, EndInv
<1> QED BY <1>1, Invariant, PTL

\* run() gives success only after a signal or the idle watchdog.
THEOREM SuccessAskedFor == Spec => []SuccessWasAskedFor
<1>1. IInv => SuccessWasAskedFor
  BY DEF IInv, SuccessWasAskedFor, EndInv
<1> QED BY <1>1, Invariant, PTL

\* Save replaces the connection only by a whole one that Splunk accepted.
THEOREM WholeAndProbed == Spec => SavedIsWholeAndProbed
<1>1. IInv /\ [Next]_vars => [file' # file => file' \in accepted]_vars
  <2> SUFFICES ASSUME IInv, [Next]_vars
               PROVE  file' # file => file' \in accepted
    OBVIOUS
  <2>1. accepted \subseteq Conns /\ conn \in [Procs -> Conns \cup {"tokenless"}]
        /\ \A q \in Procs : SaveInv(q)
    BY Types DEF IInv
  <2>2. CASE UNCHANGED vars
    BY <2>2 DEF vars, disk
  <2> QED BY <2>1, <2>2, FileStep DEF Next, Finished, StepOf
<1> QED BY <1>1, Invariant, PTL DEF Spec, SavedIsWholeAndProbed
=============================================================================
