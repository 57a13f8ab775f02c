---------------------------- MODULE Investigation ----------------------------
(***************************************************************************)
(* Pipeline.handleSignal in full: the chain is published, written back to  *)
(* Splunk through the HTTP event collector (splunk/hec.go), and given to   *)
(* the narrator and the intel agent (ai/gemini.go, intel.go, fallback.go,  *)
(* stub.go), which run side by side, call tools and publish each step.     *)
(*                                                                         *)
(* Kept of the data is what the control depends on: which tool the model   *)
(* asks for, whether a request succeeds, what a result is shown as.  Any   *)
(* request may fail, so a deadline or a canceled context needs no state of *)
(* its own: the step that notices it is always possible.                   *)
(***************************************************************************)
EXTENDS Naturals, Sequences, SequencesExt

CONSTANTS NarratorTools,  \* what the model calls, offered to it or made up
          IntelTools,
          maxRounds,      \* requests to the model per agent call
          hecMaxAttempts, \* posts per write-back
          MaxCalls,       \* bound on the tool calls of one answer
          MaxTechs,       \* bound on the techniques of a chain
          MaxChains       \* bound on the chains

ASSUME InvestigationAssumption ==
    /\ maxRounds \in Nat \ {0} /\ hecMaxAttempts \in Nat \ {0}
    /\ MaxCalls \in Nat /\ MaxTechs \in Nat /\ MaxChains \in Nat
    /\ NarratorTools \subseteq STRING /\ IntelTools \subseteq STRING

Agents == {"narrator", "intel"}
Menu(a) == IF a = "narrator" THEN NarratorTools ELSE IntelTools
Tools == NarratorTools \cup IntelTools \cup
         {"read_chain_steps", "classify_chain_techniques", "lookup_technique_intel"}
Sources == {"tool", "generate", "run", "snapshot"}

VARIABLES
    gemini,     \* an API key is given: both agents are the live ones
    generator,  \* the searcher can also write SPL
    consumer,   \* handleSignal: "idle", "hec", "agents"
    techs,      \* number of techniques of the chain in hand
    hec,        \* the write-back: "off", "post", "wait", "ok", "failed"
    posts,      \* outcome of each post of this write-back
    pc,         \* where each agent is; "off" when it has returned
    round,      \* requests to the model so far
    asked,      \* the tool calls of the model's last answer ...
    todo,       \* ... those the loop over them has not done with ...
    answered,   \* ... and the responses gathered
    left,       \* steps a local agent has still to show
    kev,        \* the catalogue of exploited vulnerabilities
    chain,      \* chains published
    said,       \* last message of each agent about the current chain
    shown       \* the status in that message, if it is a tool result

config == <<gemini, generator>>
signal == <<consumer, chain, techs>>
talk   == <<round, asked, todo, answered>>
vars   == <<config, signal, hec, posts, pc, talk, left, kev, said, shown>>

R == INSTANCE Reports WITH MayFail <- {"intel"}

Init == /\ gemini \in BOOLEAN /\ generator \in BOOLEAN
        /\ consumer = "idle" /\ techs = 0 /\ hec = "off" /\ posts = <<>>
        /\ pc = [a \in Agents |-> "off"] /\ round = [a \in Agents |-> 0]
        /\ asked = [a \in Agents |-> <<>>] /\ todo = [a \in Agents |-> <<>>]
        /\ answered = [a \in Agents |-> <<>>]
        /\ left = [a \in Agents |-> 0]
        /\ kev = "unread"
        /\ shown = [a \in Agents |-> ""]
        /\ R!Init

Tell(a, m, status) == /\ said' = [said EXCEPT ![a] = m]
                      /\ shown' = [shown EXCEPT ![a] = status]
Say(a, m) == Tell(a, m, "")
Goto(a, l) == pc' = [pc EXCEPT ![a] = l]

-----------------------------------------------------------------------------
(* The chain, and its write-back *)

\* handleSignal: the extraction found something, and it is published.
Extract ==
    /\ consumer = "idle" /\ chain < MaxChains
    /\ chain' = chain + 1 /\ techs' \in 0..MaxTechs
    /\ said' = [a \in Agents |-> R!Silent]
    /\ shown' = [a \in Agents |-> ""]
    /\ consumer' = "hec"
    /\ hec' \in {"off", "post"}   \* not configured, or Send begins
    /\ UNCHANGED <<config, posts, pc, talk, left, kev>>

\* What comes of a post: stored; stored, but the answer is lost; not reached;
\* 429 or 5xx; or any other status, which is final.
Outcomes == {"stored", "lost", "down", "busy", "rejected"}
\* Slip: a server error is final, a refusal is tried again.
SlipRetryable(o) == o \in {"lost", "down", "rejected"}

Retryable(o) == o \in {"lost", "down", "busy"}

Post(o) ==
    /\ hec = "post"
    /\ posts' = Append(posts, o)
    /\ hec' = IF o = "stored" THEN "ok"
              ELSE IF Retryable(o) /\ Len(posts) + 1 < hecMaxAttempts THEN "wait"
              ELSE "failed"
    /\ UNCHANGED <<config, signal, pc, talk, left, kev, said, shown>>

\* Send waits for the backoff, or for what Retry-After says, unless its five
\* seconds end first.
Wait(next) ==
    /\ hec = "wait"
    /\ hec' = next
    /\ UNCHANGED <<config, signal, posts, pc, talk, left, kev, said, shown>>

\* What an agent that asks no model has to show: the stub reads the steps and
\* classifies them, the deterministic agent looks up each technique.
LocalSteps(a) == IF a = "narrator" THEN 2 ELSE techs

\* The write-back is over, whatever came of it.
StartAgents ==
    /\ consumer = "hec" /\ hec \in {"off", "ok", "failed"}
    /\ consumer' = "agents"
    /\ hec' = "off" /\ posts' = <<>>
    /\ pc' = [a \in Agents |-> IF gemini THEN "ask" ELSE "local"]
    /\ left' = [a \in Agents |-> IF gemini THEN 0 ELSE LocalSteps(a)]
    /\ UNCHANGED <<config, chain, techs, talk, kev, said, shown>>

\* wg.Wait
AgentsDone ==
    /\ consumer = "agents" /\ \A a \in Agents : pc[a] = "off"
    /\ consumer' = "idle"
    /\ UNCHANGED <<config, chain, techs, hec, posts, pc, talk, left, kev, said, shown>>

-----------------------------------------------------------------------------
(* The conversation with the model *)

hecAndSignal == <<config, signal, hec, posts>>

\* Slip: a failed enrichment is logged and nothing else, as a failed narration
\* would be.
SlipFail(a) ==
    IF a = "narrator"
    THEN Goto(a, "local") /\ left' = [left EXCEPT ![a] = LocalSteps(a)]
    ELSE Goto(a, "off") /\ UNCHANGED left

\* FallbackNarrator has the stub take over, on the same feed; a failed
\* enrichment becomes a verdict of its own.
Fail(a) ==
    IF a = "narrator"
    THEN Goto(a, "local") /\ left' = [left EXCEPT ![a] = LocalSteps(a)]
    ELSE Goto(a, "giveUp") /\ UNCHANGED left

ModelCalls(a, calls) ==
    /\ pc[a] = "ask"
    /\ round' = [round EXCEPT ![a] = @ + 1]
    /\ asked' = [asked EXCEPT ![a] = calls] /\ todo' = [todo EXCEPT ![a] = calls]
    /\ answered' = [answered EXCEPT ![a] = <<>>]
    /\ Goto(a, "dispatch")
    /\ UNCHANGED <<hecAndSignal, left, kev, said, shown>>

\* An answer without calls that parses as a report.
ModelReports(a) ==
    /\ pc[a] = "ask" /\ Goto(a, "conclude")
    /\ UNCHANGED <<hecAndSignal, talk, left, kev, said, shown>>

\* No answer, or one with neither calls nor a report.
ModelFails(a) ==
    /\ pc[a] = "ask" /\ Fail(a)
    /\ UNCHANGED <<hecAndSignal, talk, kev, said, shown>>

TurnOver(a) == todo[a] = <<>>
Current(a)  == Head(todo[a])

\* The loop over the calls goes on to the next one, with or without a response.
NextCall(a) == todo' = [todo EXCEPT ![a] = Tail(@)]

Respond(a) == /\ answered' = [answered EXCEPT ![a] = Append(@, Current(a))]
              /\ NextCall(a)

\* The loop has come to its end: the next request, with the responses there
\* are, unless the rounds are used up.
NextRound(a) ==
    /\ pc[a] = "dispatch" /\ TurnOver(a)
    /\ IF round[a] < maxRounds THEN Goto(a, "ask") /\ UNCHANGED left ELSE Fail(a)
    /\ UNCHANGED <<hecAndSignal, talk, kev, said, shown>>

-----------------------------------------------------------------------------
(* Tools *)

NL == "splunk_nl_search"

\* A natural-language search is dispatched on its own terms.
CallTool(a) ==
    /\ pc[a] = "dispatch" /\ ~TurnOver(a)
    /\ ~(a = "narrator" /\ Current(a) = NL)
    /\ Say(a, R!Call(Current(a), "tool"))
    /\ Goto(a, "tool")
    /\ UNCHANGED <<hecAndSignal, talk, left, kev>>

\* A made-up tool is an error; its name can spoil the JSON of the error, which
\* then shows as "ok".
Statuses(t) == IF t = "lookup_technique_intel" THEN {"ok"}
               ELSE IF t = "other" THEN {"error", "ok"}
               ELSE {"ok", "empty", "error"}

\* Slip: the error is the first caller's alone.
SlipLookupKEV(status) ==
    \/ kev = "unread" /\ kev' \in {"loaded", "failed"}
       /\ (status = "error") = (kev' = "failed")
    \/ kev # "unread" /\ status # "error" /\ UNCHANGED kev

\* loadKEV: fetched by the first caller, once; so is its error.
LookupKEV(status) ==
    /\ IF kev = "unread" THEN kev' \in {"loaded", "failed"} ELSE UNCHANGED kev
    /\ (status = "error") = (kev' = "failed")

ToolReturns(a, status) ==
    /\ pc[a] = "tool"
    /\ status \in Statuses(Current(a))
    /\ IF a = "intel" /\ Current(a) = "lookup_kev" THEN LookupKEV(status)
       ELSE UNCHANGED kev
    /\ Tell(a, R!Result(Current(a), "tool"), status)
    /\ Respond(a)
    /\ Goto(a, "dispatch")
    /\ UNCHANGED <<hecAndSignal, round, asked, left>>

-----------------------------------------------------------------------------
(* dispatchNLSearch *)

AtNL == pc["narrator"] = "dispatch" /\ ~TurnOver("narrator") /\ Current("narrator") = NL

\* Slip: the loop goes on from the refusal of an empty question without a
\* response.
SlipRefuseQuestion ==
    /\ AtNL
    /\ NextCall("narrator")
    /\ UNCHANGED <<hecAndSignal, pc, round, asked, answered, left, kev, said, shown>>

\* Nobody to write the SPL, or no question: nothing shows in the feed.
RefuseQuestion ==
    /\ AtNL
    /\ Respond("narrator")
    /\ UNCHANGED <<hecAndSignal, pc, round, asked, left, kev, said, shown>>

AskForSPL ==
    /\ AtNL /\ generator
    /\ Say("narrator", R!Call(NL, "generate"))
    /\ Goto("narrator", "generate")
    /\ UNCHANGED <<hecAndSignal, talk, left, kev>>

\* Slip: a query that is not read-only is dropped without a word.
SlipSPLRefused ==
    /\ pc["narrator"] = "generate"
    /\ Respond("narrator")
    /\ Goto("narrator", "dispatch")
    /\ UNCHANGED <<hecAndSignal, round, asked, left, kev, said, shown>>

\* No SPL, or one that does not only read.
SPLRefused ==
    /\ pc["narrator"] = "generate"
    /\ Tell("narrator", R!Result(NL, "generate"), "error")
    /\ Respond("narrator")
    /\ Goto("narrator", "dispatch")
    /\ UNCHANGED <<hecAndSignal, round, asked, left, kev>>

SPLWritten ==
    /\ pc["narrator"] = "generate"
    /\ Tell("narrator", R!Result(NL, "generate"), "ok")
    /\ Goto("narrator", "generated")
    /\ UNCHANGED <<hecAndSignal, talk, left, kev>>

RunSPL ==
    /\ pc["narrator"] = "generated"
    /\ Say("narrator", R!Call(NL, "run"))
    /\ Goto("narrator", "run")
    /\ UNCHANGED <<hecAndSignal, talk, left, kev>>

RunReturns(status) ==
    /\ pc["narrator"] = "run"
    /\ Tell("narrator", R!Result(NL, "run"), status)
    /\ Respond("narrator")
    /\ Goto("narrator", "dispatch")
    /\ UNCHANGED <<hecAndSignal, round, asked, left, kev>>

-----------------------------------------------------------------------------
(* Agents that ask no model, and how any agent ends *)

LocalTool(a) == IF a = "intel" THEN "lookup_technique_intel"
                ELSE IF left[a] = 2 THEN "read_chain_steps"
                ELSE "classify_chain_techniques"

LocalCall(a) ==
    /\ pc[a] = "local" /\ left[a] > 0
    /\ Say(a, R!Call(LocalTool(a), "snapshot"))
    /\ Goto(a, "localTool")
    /\ UNCHANGED <<hecAndSignal, talk, left, kev>>

LocalResult(a) ==
    /\ pc[a] = "localTool"
    /\ Tell(a, R!Result(LocalTool(a), "snapshot"),
            IF LocalTool(a) = "classify_chain_techniques" /\ techs = 0
            THEN "empty" ELSE "ok")
    /\ left' = [left EXCEPT ![a] = @ - 1]
    /\ Goto(a, "local")
    /\ UNCHANGED <<hecAndSignal, talk, kev>>

Conclude(a) ==
    /\ pc[a] = "conclude" \/ (pc[a] = "local" /\ left[a] = 0)
    /\ Say(a, R!Done)
    /\ Goto(a, "report")
    /\ UNCHANGED <<hecAndSignal, talk, left, kev>>

\* runNarration, runIntel; the conversation ends with the call.
Report(a) ==
    /\ pc[a] \in {"report", "giveUp"}
    /\ Say(a, R!Verdict(pc[a] = "report"))
    /\ Goto(a, "off")
    /\ round' = [round EXCEPT ![a] = 0]
    /\ asked' = [asked EXCEPT ![a] = <<>>] /\ todo' = [todo EXCEPT ![a] = <<>>]
    /\ answered' = [answered EXCEPT ![a] = <<>>]
    /\ UNCHANGED <<hecAndSignal, left, kev>>

-----------------------------------------------------------------------------
AllStatuses == {"ok", "empty", "error"}

Calls(a) == UNION {[1..n -> Menu(a)] : n \in 1..MaxCalls}

AgentStep(a) ==
    \/ \E calls \in Calls(a) : ModelCalls(a, calls)
    \/ ModelReports(a) \/ ModelFails(a) \/ NextRound(a)
    \/ CallTool(a) \/ \E s \in AllStatuses : ToolReturns(a, s)
    \/ LocalCall(a) \/ LocalResult(a) \/ Conclude(a) \/ Report(a)

NLStep == \/ RefuseQuestion \/ AskForSPL \/ SPLRefused \/ SPLWritten \/ RunSPL
          \/ \E s \in AllStatuses : RunReturns(s)

HECStep == (\E o \in Outcomes : Post(o)) \/ Wait("post") \/ Wait("failed")

Next == \/ Extract \/ HECStep \/ StartAgents \/ AgentsDone \/ NLStep
        \/ \E a \in Agents : AgentStep(a)

Spec == Init /\ [][Next]_vars

\* The goroutines run, and every request has a timeout: 10 s for a post, 30 s
\* for the model, 15 s for the catalogue, and the agents' own deadlines.
Fairness == /\ WF_vars(HECStep) /\ WF_vars(StartAgents)
            /\ WF_vars(AgentStep("intel")) /\ WF_vars(AgentStep("narrator") \/ NLStep)

FairSpec == Spec /\ Fairness

-----------------------------------------------------------------------------
Places == {"off", "ask", "dispatch", "tool", "generate", "generated", "run",
           "local", "localTool", "conclude", "report", "giveUp"}

TypeOK == /\ gemini \in BOOLEAN /\ generator \in BOOLEAN
          /\ consumer \in {"idle", "hec", "agents"}
          /\ chain \in 0..MaxChains /\ techs \in 0..MaxTechs
          /\ hec \in {"off", "post", "wait", "ok", "failed"}
          /\ posts \in Seq(Outcomes)
          /\ pc \in [Agents -> Places]
          /\ round \in [Agents -> 0..maxRounds]
          /\ asked \in [Agents -> Seq(NarratorTools \cup IntelTools)]
          /\ todo \in [Agents -> Seq(NarratorTools \cup IntelTools)]
          /\ answered \in [Agents -> Seq(NarratorTools \cup IntelTools)]
          /\ left \in [Agents -> Nat]
          /\ kev \in {"unread", "loaded", "failed"}
          /\ shown \in [Agents -> AllStatuses \cup {""}]

\* Whatever fails on the way (the model, a tool, the guard, a deadline, the
\* rounds), what the analyst sees is well formed: each call followed by its own
\* result, "done" once and before the verdict, one verdict of each agent, the
\* narrator's never an error, and no chain before both.
ImplementsReports == R!Spec

\* Whichever way each of them ended (a tool that failed, a query that was
\* refused, a question that was empty), the model gets one response to each of
\* its calls, under the same names and in their order, with the next request.
CallsAnswered ==
    \A a \in Agents : pc[a] = "ask" /\ round[a] > 0
        => answered[a] = asked[a] /\ answered[a] # <<>>

KEVShown(statuses) == /\ said["intel"] = R!Result("lookup_kev", "tool")
                      /\ shown["intel"] \in statuses

\* The catalogue answers alike for the life of the process: either no lookup
\* the analyst sees fails, or every one does, in this chain and in later ones.
\* None passes for a lookup without a match after another has failed for want
\* of the catalogue: loadKEV fetches it once, so the error has to outlive the
\* call that met it, as the catalogue does.
CatalogueAnswersAlike == \/ []~KEVShown({"error"})
                         \/ []~KEVShown({"ok", "empty"})

\* The write-back is reported as done exactly when the collector has said so,
\* it stores a chain twice only when an answer was lost, and is not tried again
\* after a refusal or an acknowledgment, nor more often than allowed.
WriteBackHonest ==
    /\ Len(posts) <= hecMaxAttempts
    /\ \A k \in 1..Len(posts) : k < Len(posts) => posts[k] \in {"lost", "down", "busy"}
    /\ hec = "ok" => posts # <<>> /\ Last(posts) = "stored"
    /\ hec = "failed" => posts # <<>> /\ Last(posts) # "stored"

\* Every chain gets both verdicts, whatever the collector, the model and the
\* tools do.
EveryChainJudged ==
    \A c \in 1..MaxChains :
        (chain = c) ~> \A a \in Agents : said[a].kind = "verdict"
=============================================================================
