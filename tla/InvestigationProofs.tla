------------------------- MODULE InvestigationProofs -------------------------
(***************************************************************************)
(* Investigation for any tools, rounds, attempts, techniques and chains:   *)
(* whatever fails, what the analyst is shown is what Reports promises, the *)
(* model gets a response to every call it made, the write-back is honest,  *)
(* and the catalogue answers alike from its first lookup on.               *)
(***************************************************************************)
EXTENDS Investigation, SequenceTheorems, TLAPS

\* The consumer's own steps.
ChainStep == Extract \/ HECStep \/ StartAgents \/ AgentsDone

\* One value for each agent.
Functions == /\ said = [a \in Agents |-> said[a]]
             /\ shown \in [Agents -> AllStatuses \cup {""}]
             /\ pc \in [Agents -> Places]
             /\ round \in [Agents -> 0..maxRounds]
             /\ left \in [Agents -> Nat]
             /\ asked \in [Agents -> Seq(NarratorTools \cup IntelTools)]
             /\ todo \in [Agents -> Seq(NarratorTools \cup IntelTools)]
             /\ answered \in [Agents -> Seq(NarratorTools \cup IntelTools)]

\* What an agent has said is what its place in the code lets it go on from.
AgentInv(a) ==
    /\ consumer # "agents" => pc[a] = "off"
    /\ consumer = "idle" => R!Reported(a)
    /\ consumer = "hec" => said[a] = R!Silent
    /\ consumer = "agents" /\ pc[a] = "off" => R!Reported(a)
    /\ pc[a] \in {"ask", "dispatch", "local", "conclude", "giveUp", "generated"} => R!Between(a)
    /\ pc[a] = "tool" => said[a] = R!Call(Current(a), "tool")
    /\ pc[a] = "generate" => said[a] = R!Call(NL, "generate")
    /\ pc[a] = "run" => said[a] = R!Call(NL, "run")
    /\ pc[a] = "localTool" => said[a] = R!Call(LocalTool(a), "snapshot") /\ left[a] > 0
    /\ pc[a] = "report" => said[a] = R!Done
    /\ pc[a] = "giveUp" => a = "intel"
    /\ pc[a] \in {"generate", "generated", "run"} => a = "narrator"

\* Each call of the turn has its response or is still to be done, in order.
TalkInv(a) ==
    /\ asked[a] \in Seq(Menu(a)) /\ todo[a] \in Seq(Menu(a)) /\ answered[a] \in Seq(Menu(a))
    /\ answered[a] \o todo[a] = asked[a]
    /\ pc[a] \in {"tool", "generate", "generated", "run"} => todo[a] # <<>>
    /\ pc[a] \in {"generate", "generated", "run"} => Current(a) = NL
    /\ pc[a] = "ask" /\ round[a] > 0 => todo[a] = <<>> /\ asked[a] # <<>>
    /\ pc[a] \in {"dispatch", "tool", "generate", "generated", "run"} => asked[a] # <<>>

\* What the analyst sees of a lookup is what became of the catalogue.
KEVInv == /\ KEVShown({"error"}) => kev = "failed"
          /\ KEVShown({"ok", "empty"}) => kev = "loaded"

\* A request is made while there are rounds left; each call of an agent has all.
RoundInv(a) ==
    /\ pc[a] = "ask" => round[a] < maxRounds
    /\ pc[a] = "off" => round[a] = 0

\* As long as it may post again, every post so far can be tried again.
PostInv ==
    /\ posts \in Seq(Outcomes)
    /\ consumer # "hec" => hec = "off"
    /\ hec = "off" => posts = <<>>
    /\ hec \in {"post", "wait"} => Len(posts) < hecMaxAttempts
    /\ hec \in {"post", "wait"} =>
          \A k \in 1..Len(posts) : posts[k] \in {"lost", "down", "busy"}
    /\ hec = "wait" => posts # <<>>
    /\ WriteBackHonest

-----------------------------------------------------------------------------
(* What is shown *)

\* The agents are the narrator and the intel agent.
LEMMA AgentsAre == "narrator" \in Agents /\ "intel" \in Agents
                   /\ \A a \in Agents : a = "narrator" \/ a = "intel"
  BY DEF Agents

\* The kinds of message Between and Reported tell apart.
LEMMA Kinds ==
    /\ R!Silent.kind = "silent" /\ R!Done.kind = "done"
    /\ \A ok : R!Verdict(ok).kind = "verdict"
    /\ \A t, s : R!Result(t, s).kind = "tool_result"
  BY DEF R!Silent, R!Done, R!Verdict, R!Result

\* An agent is not disturbed by what another one, or the write-back, does.
LEMMA AgentFrame ==
    ASSUME NEW b \in Agents, AgentInv(b), consumer' = consumer,
           pc'[b] = pc[b], said'[b] = said[b], todo'[b] = todo[b], left'[b] = left[b]
    PROVE  AgentInv(b)'
<1>1. Current(b)' = Current(b) /\ LocalTool(b)' = LocalTool(b)
  BY DEF Current, LocalTool
<1>2. (R!Between(b)' <=> R!Between(b)) /\ (R!Reported(b)' <=> R!Reported(b))
  BY DEF R!Between, R!Reported
<1> QED BY <1>1, <1>2 DEF AgentInv

\* handleSignal starts the agents silent and waits for both verdicts.
LEMMA AgentChain ==
    ASSUME Functions, \A a \in Agents : AgentInv(a), ChainStep
    PROVE  \A a \in Agents : AgentInv(a)'
<1> USE AgentsAre, Kinds DEF Functions, config, signal, talk
<1>1. CASE Extract
  BY <1>1 DEF Extract, AgentInv, R!Reported
<1>2. CASE HECStep
  <2>1. UNCHANGED <<consumer, pc, said, todo, left>>
    BY <1>2 DEF HECStep, Post, Wait
  <2> QED BY <2>1, AgentFrame
<1>3. CASE StartAgents
  BY <1>3 DEF StartAgents, AgentInv, R!Reported, R!Between
<1>4. CASE AgentsDone
  BY <1>4 DEF AgentsDone, AgentInv, R!Reported, R!Between
<1> QED BY <1>1, <1>2, <1>3, <1>4 DEF ChainStep

\* The other agent is where it was.
MineOnly(a) == \A b \in Agents : b # a =>
    /\ pc'[b] = pc[b] /\ said'[b] = said[b] /\ asked'[b] = asked[b]
    /\ todo'[b] = todo[b] /\ answered'[b] = answered[b] /\ left'[b] = left[b]

\* A conversation with the model is its agent's own.
LEMMA ModelMine ==
    ASSUME Functions, NEW a \in Agents,
           \/ \E calls \in Calls(a) : ModelCalls(a, calls)
           \/ ModelReports(a) \/ ModelFails(a) \/ NextRound(a)
    PROVE  MineOnly(a) /\ consumer' = consumer
  BY DEF Functions, MineOnly, ModelCalls, ModelReports, ModelFails, NextRound,
      Fail, Goto, hecAndSignal, config,
   signal, talk
\* So is a tool call.
LEMMA ToolMine ==
    ASSUME Functions, NEW a \in Agents,
           CallTool(a) \/ (\E s \in AllStatuses : ToolReturns(a, s))
    PROVE  MineOnly(a) /\ consumer' = consumer
  BY DEF Functions, MineOnly, CallTool, ToolReturns, Say, Tell, Respond, NextCall, Goto,
      hecAndSignal, config,
   signal, talk
\* A natural-language search is the narrator's.
LEMMA NLMine ==
    ASSUME Functions, NLStep
    PROVE  MineOnly("narrator") /\ consumer' = consumer
  BY AgentsAre DEF Functions, MineOnly, NLStep, RefuseQuestion, AskForSPL,
      SPLRefused, SPLWritten, RunSPL, RunReturns, AtNL, Say, Tell, Respond, NextCall, Goto,
      hecAndSignal, config,
   signal, talk
\* What an agent shows without a model is its own.
LEMMA LocalMine ==
    ASSUME Functions, NEW a \in Agents,
           LocalCall(a) \/ LocalResult(a) \/ Conclude(a) \/ Report(a)
    PROVE  MineOnly(a) /\ consumer' = consumer
  BY DEF Functions, MineOnly, LocalCall, LocalResult, Conclude, Report, Say, Tell,
      Goto, hecAndSignal, config,
   signal, talk

\* Asking the model shows nothing.
LEMMA AgentModel ==
    ASSUME Functions, NEW a \in Agents, AgentInv(a),
           \/ \E calls \in Calls(a) : ModelCalls(a, calls)
           \/ ModelReports(a) \/ ModelFails(a) \/ NextRound(a)
    PROVE  AgentInv(a)'
<1>1. consumer = "agents" /\ consumer' = "agents"
  BY ModelMine DEF AgentInv, ModelCalls, ModelReports, ModelFails, NextRound
<1>2. said' = said /\ R!Between(a)
  BY DEF AgentInv, ModelCalls, ModelReports, ModelFails, NextRound
<1>3. pc'[a] \in {"ask", "dispatch", "conclude", "local"} \/ (pc'[a] = "giveUp" /\ a = "intel")
  BY AgentsAre DEF Functions, ModelCalls, ModelReports, ModelFails, NextRound, Fail, Goto
<1>4. R!Between(a)'
  BY <1>2 DEF R!Between
<1> QED BY <1>1, <1>3, <1>4 DEF AgentInv

\* A tool is called and then answered.
LEMMA AgentTool ==
    ASSUME Functions, NEW a \in Agents, AgentInv(a),
           CallTool(a) \/ (\E s \in AllStatuses : ToolReturns(a, s))
    PROVE  AgentInv(a)'
<1>1. consumer = "agents" /\ consumer' = "agents"
  BY ToolMine DEF AgentInv, CallTool, ToolReturns
<1>2. CASE CallTool(a)
  <2>1. pc'[a] = "tool" /\ said'[a] = R!Call(Current(a), "tool") /\ UNCHANGED talk
    BY <1>2 DEF Functions, CallTool, Say, Tell, Goto
  <2>2. Current(a)' = Current(a)
    BY <2>1 DEF Current, talk
  <2> QED BY <1>1, <2>1, <2>2 DEF AgentInv
<1>3. ASSUME NEW s \in AllStatuses, ToolReturns(a, s) PROVE AgentInv(a)'
  <2>1. pc'[a] = "dispatch" /\ said'[a] = R!Result(Current(a), "tool")
    BY <1>3 DEF Functions, ToolReturns, Tell, Goto
  <2>2. R!Between(a)'
    BY <2>1, Kinds DEF R!Between
  <2> QED BY <1>1, <2>1, <2>2 DEF AgentInv
<1> QED BY <1>2, <1>3

\* dispatchNLSearch generates and runs, or shows why not.
LEMMA AgentNL ==
    ASSUME Functions, AgentInv("narrator"), NLStep
    PROVE  AgentInv("narrator")'
<1> DEFINE a == "narrator"
<1> USE AgentsAre
<1>1. consumer = "agents" /\ consumer' = "agents"
  BY NLMine DEF AgentInv, NLStep, RefuseQuestion, AskForSPL, SPLRefused,
      SPLWritten, RunSPL,
      RunReturns, AtNL
<1>2. CASE RefuseQuestion
  <2>1. pc'[a] = "dispatch" /\ said' = said /\ pc[a] = "dispatch"
    BY <1>2 DEF RefuseQuestion, AtNL
  <2>2. R!Between(a)'
    BY <2>1 DEF AgentInv, R!Between
  <2> QED BY <1>1, <2>1, <2>2 DEF AgentInv
<1>3. CASE AskForSPL \/ RunSPL
  <2>1. \/ pc'[a] = "generate" /\ said'[a] = R!Call(NL, "generate")
        \/ pc'[a] = "run" /\ said'[a] = R!Call(NL, "run")
    BY <1>3 DEF Functions, AskForSPL, RunSPL, Say, Tell, Goto
  <2> QED BY <1>1, <2>1 DEF AgentInv
<1>4. CASE SPLRefused \/ SPLWritten \/ \E s \in AllStatuses : RunReturns(s)
  <2>1. /\ pc'[a] \in {"dispatch", "generated"}
        /\ said'[a] = R!Result(NL, "generate") \/ said'[a] = R!Result(NL, "run")
    BY <1>4 DEF Functions, SPLRefused, SPLWritten, RunReturns, Tell, Goto
  <2>2. R!Between(a)'
    BY <2>1, Kinds DEF R!Between
  <2> QED BY <1>1, <2>1, <2>2 DEF AgentInv
<1> QED BY <1>2, <1>3, <1>4 DEF NLStep

\* The local agents look up, conclude and report.
LEMMA AgentLocal ==
    ASSUME Functions, NEW a \in Agents, AgentInv(a),
           LocalCall(a) \/ LocalResult(a) \/ Conclude(a) \/ Report(a)
    PROVE  AgentInv(a)'
<1>1. consumer = "agents" /\ consumer' = "agents"
  BY LocalMine DEF AgentInv, LocalCall, LocalResult, Conclude, Report
<1>2. CASE LocalCall(a)
  <2>1. /\ pc'[a] = "localTool" /\ said'[a] = R!Call(LocalTool(a), "snapshot")
        /\ left' = left /\ left[a] > 0
    BY <1>2 DEF Functions, LocalCall, Say, Tell, Goto
  <2>2. LocalTool(a)' = LocalTool(a)
    BY <2>1 DEF LocalTool
  <2> QED BY <1>1, <2>1, <2>2 DEF AgentInv
<1>3. CASE LocalResult(a)
  <2>1. pc'[a] = "local" /\ said'[a] = R!Result(LocalTool(a), "snapshot")
    BY <1>3 DEF Functions, LocalResult, Tell, Goto
  <2>2. R!Between(a)'
    BY <2>1, Kinds DEF R!Between
  <2> QED BY <1>1, <2>1, <2>2 DEF AgentInv
<1>4. CASE Conclude(a)
  <2>1. pc'[a] = "report" /\ said'[a] = R!Done
    BY <1>4 DEF Functions, Conclude, Say, Tell, Goto
  <2> QED BY <1>1, <2>1 DEF AgentInv
<1>5. CASE Report(a)
  <2>1. pc'[a] = "off" /\ said'[a] = R!Verdict(pc[a] = "report")
    BY <1>5 DEF Functions, Report, Say, Tell, Goto
  <2>2. R!Reported(a)'
    BY <2>1, Kinds DEF R!Reported
  <2> QED BY <1>1, <2>1, <2>2 DEF AgentInv
<1> QED BY <1>2, <1>3, <1>4, <1>5

\* Every step leaves every agent where what it has said lets it be.
LEMMA AgentInvStep ==
    ASSUME Functions, \A a \in Agents : AgentInv(a), Next
    PROVE  \A a \in Agents : AgentInv(a)'
<1>1. ASSUME NEW a \in Agents, AgentStep(a) PROVE \A b \in Agents : AgentInv(b)'
  <2>1. AgentInv(a)' /\ MineOnly(a) /\ consumer' = consumer
    BY <1>1, ModelMine, ToolMine, LocalMine, AgentModel, AgentTool,
        AgentLocal DEF AgentStep
  <2> QED BY <2>1, AgentFrame DEF MineOnly
<1>2. CASE NLStep
  <2>1. AgentInv("narrator")' /\ MineOnly("narrator") /\ consumer' = consumer
    BY <1>2, NLMine, AgentNL, AgentsAre
  <2> QED BY <2>1, AgentFrame DEF MineOnly
<1> QED BY <1>1, <1>2, AgentChain DEF Next, ChainStep

-----------------------------------------------------------------------------
(* What is asked and answered *)

\* A turn is not disturbed by another agent's.
LEMMA TalkFrame ==
    ASSUME NEW b \in Agents, TalkInv(b),
           pc'[b] = pc[b], round'[b] = round[b], asked'[b] = asked[b],
           todo'[b] = todo[b], answered'[b] = answered[b]
    PROVE  TalkInv(b)'
<1>1. Current(b)' = Current(b)
  BY DEF Current
<1> QED BY <1>1 DEF TalkInv

\* The call in hand is one of the agent's tools.
LEMMA CurrentIsTool ==
    ASSUME NEW a \in Agents, TalkInv(a), todo[a] # <<>>
    PROVE  Current(a) \in Menu(a)
  BY HeadTailProperties DEF TalkInv, Current

\* A list does not change when its middle one moves from the rest to the front.
LEMMA MoveOne ==
    ASSUME NEW S, NEW front \in Seq(S), NEW rest \in Seq(S), rest # <<>>
    PROVE  /\ Append(front, Head(rest)) \in Seq(S) /\ Tail(rest) \in Seq(S)
           /\ Append(front, Head(rest)) \o Tail(rest) = front \o rest
<1>1. Head(rest) \in S /\ Tail(rest) \in Seq(S)
  BY HeadTailProperties
<1>2. <<Head(rest)>> \in Seq(S) /\ rest = <<Head(rest)>> \o Tail(rest)
  BY <1>1, HeadTailProperties
<1>3. Append(front, Head(rest)) = front \o <<Head(rest)>>
  BY <1>1, AppendIsConcat
<1>4. (front \o <<Head(rest)>>) \o Tail(rest) = front \o (<<Head(rest)>> \o Tail(rest))
  BY <1>1, <1>2, ConcatAssociative
<1>5. Append(front, Head(rest)) \in Seq(S)
  BY <1>1, AppendProperties
<1> QED BY <1>1, <1>2, <1>3, <1>4, <1>5

\* Respond answers the call in hand and goes on to the next one.
LEMMA Responds ==
    ASSUME Functions, NEW a \in Agents, TalkInv(a), todo[a] # <<>>,
           Respond(a), asked' = asked
    PROVE  /\ asked'[a] \in Seq(Menu(a)) /\ todo'[a] \in Seq(Menu(a))
           /\ answered'[a] \in Seq(Menu(a))
           /\ answered'[a] \o todo'[a] = asked'[a]
<1>1. answered'[a] = Append(answered[a], Head(todo[a])) /\ todo'[a] = Tail(todo[a])
  BY DEF Functions, Respond, NextCall, Current
<1>2. /\ asked[a] \in Seq(Menu(a)) /\ todo[a] \in Seq(Menu(a)) /\ answered[a] \in Seq(Menu(a))
      /\ answered[a] \o todo[a] = asked[a]
  BY DEF TalkInv
<1>3. /\ Append(answered[a], Head(todo[a])) \in Seq(Menu(a)) /\ Tail(todo[a]) \in Seq(Menu(a))
      /\ Append(answered[a], Head(todo[a])) \o Tail(todo[a]) = answered[a] \o todo[a]
  BY <1>2, MoveOne
<1>4. asked'[a] = asked[a]
  OBVIOUS
<1> QED BY <1>1, <1>2, <1>3, <1>4

\* An answer with calls is a non-empty list of tools.
LEMMA CallsAreTools ==
    ASSUME NEW a \in Agents, NEW calls \in Calls(a)
    PROVE  calls \in Seq(Menu(a)) /\ calls # <<>>
<1>1. PICK n \in 1..MaxCalls : calls \in [1..n -> Menu(a)]
  BY DEF Calls
<1>2. n \in Nat /\ n # 0
  BY InvestigationAssumption
<1>3. calls \in Seq(Menu(a))
  BY <1>1, <1>2, SeqDef
<1>4. 1 \in DOMAIN calls
  BY <1>1, <1>2
<1> QED BY <1>3, <1>4

\* A new turn starts only when the last one is over.
LEMMA TalkModel ==
    ASSUME Functions, NEW a \in Agents, TalkInv(a),
           \/ \E calls \in Calls(a) : ModelCalls(a, calls)
           \/ ModelReports(a) \/ ModelFails(a) \/ NextRound(a)
    PROVE  TalkInv(a)'
<1>1. ASSUME NEW calls \in Calls(a), ModelCalls(a, calls) PROVE TalkInv(a)'
  <2>1. /\ pc'[a] = "dispatch" /\ asked'[a] = calls
        /\ todo'[a] = calls /\ answered'[a] = <<>>
    BY <1>1 DEF Functions, ModelCalls, Goto
  <2>2. calls \in Seq(Menu(a)) /\ calls # <<>>
    BY CallsAreTools
  <2>3. <<>> \o calls = calls /\ <<>> \in Seq(Menu(a))
    BY <2>2, ConcatEmptySeq
  <2> QED BY <2>1, <2>2, <2>3 DEF TalkInv
<1>2. CASE ModelReports(a) \/ ModelFails(a)
  <2>1. /\ pc'[a] \in {"conclude", "local", "giveUp"}
        /\ asked' = asked /\ todo' = todo /\ answered' = answered
    BY <1>2 DEF Functions, ModelReports, ModelFails, Fail, Goto, talk
  <2> QED BY <2>1 DEF TalkInv
<1>3. CASE NextRound(a)
  <2>1. /\ pc'[a] \in {"ask", "local", "giveUp"}
        /\ asked' = asked /\ todo' = todo /\ answered' = answered
        /\ todo[a] = <<>> /\ pc[a] = "dispatch"
    BY <1>3 DEF Functions, NextRound, TurnOver, Fail, Goto, talk
  <2> QED BY <2>1 DEF TalkInv
<1> QED BY <1>1, <1>2, <1>3

\* ToolReturns answers the call it was asked.
LEMMA TalkTool ==
    ASSUME Functions, NEW a \in Agents, TalkInv(a),
           CallTool(a) \/ (\E s \in AllStatuses : ToolReturns(a, s))
    PROVE  TalkInv(a)'
<1>1. CASE CallTool(a)
  <2>1. /\ pc'[a] = "tool" /\ pc[a] = "dispatch" /\ todo[a] # <<>>
        /\ asked' = asked /\ todo' = todo /\ answered' = answered
    BY <1>1 DEF Functions, CallTool, TurnOver, Goto, talk
  <2> QED BY <2>1 DEF TalkInv
<1>2. ASSUME NEW s \in AllStatuses, ToolReturns(a, s) PROVE TalkInv(a)'
  <2>1. pc'[a] = "dispatch" /\ asked' = asked /\ pc[a] = "tool" /\ Respond(a)
    BY <1>2 DEF Functions, ToolReturns, Goto
  <2>2. todo[a] # <<>> /\ asked[a] # <<>>
    BY <2>1 DEF TalkInv
  <2> QED BY <2>1, <2>2, Responds DEF TalkInv
<1> QED BY <1>1, <1>2

\* So does each way out of dispatchNLSearch.
LEMMA TalkNL ==
    ASSUME Functions, TalkInv("narrator"), NLStep
    PROVE  TalkInv("narrator")'
<1> DEFINE a == "narrator"
<1> USE AgentsAre
<1>1. CASE RefuseQuestion \/ SPLRefused \/ \E s \in AllStatuses : RunReturns(s)
  <2>1. pc'[a] = "dispatch" /\ asked' = asked /\ Respond(a)
    BY <1>1 DEF Functions, RefuseQuestion, AtNL, SPLRefused, RunReturns, Goto
  <2>2. todo[a] # <<>> /\ asked[a] # <<>>
    BY <1>1 DEF TalkInv, RefuseQuestion, AtNL, TurnOver, SPLRefused, RunReturns
  <2> QED BY <2>1, <2>2, Responds DEF TalkInv
<1>2. CASE AskForSPL \/ SPLWritten \/ RunSPL
  <2>1. /\ pc'[a] \in {"generate", "generated", "run"}
        /\ asked' = asked /\ todo' = todo /\ answered' = answered
        /\ pc[a] \in {"dispatch", "generate", "generated"}
    BY <1>2 DEF Functions, AskForSPL, AtNL, SPLWritten, RunSPL, Goto, talk
  <2>2. todo[a] # <<>> /\ Current(a) = NL
    BY <1>2 DEF TalkInv, AskForSPL, AtNL, TurnOver, SPLWritten, RunSPL
  <2>3. Current(a)' = Current(a)
    BY <2>1 DEF Current
  <2> QED BY <2>1, <2>2, <2>3 DEF TalkInv
<1> QED BY <1>1, <1>2 DEF NLStep

\* A local agent asks nothing.
LEMMA TalkLocal ==
    ASSUME Functions, NEW a \in Agents, TalkInv(a),
           LocalCall(a) \/ LocalResult(a) \/ Conclude(a) \/ Report(a)
    PROVE  TalkInv(a)'
<1>1. CASE LocalCall(a) \/ LocalResult(a) \/ Conclude(a)
  <2>1. /\ pc'[a] \in {"localTool", "local", "report"}
        /\ asked' = asked /\ todo' = todo /\ answered' = answered
    BY <1>1 DEF Functions, LocalCall, LocalResult, Conclude, Goto, talk
  <2> QED BY <2>1 DEF TalkInv
<1>2. CASE Report(a)
  <2>1. pc'[a] = "off" /\ asked'[a] = <<>> /\ todo'[a] = <<>> /\ answered'[a] = <<>>
    BY <1>2 DEF Functions, Report, Goto
  <2>2. <<>> \in Seq(Menu(a)) /\ <<>> \o <<>> = <<>>
    BY ConcatEmptySeq
  <2> QED BY <2>1, <2>2 DEF TalkInv
<1> QED BY <1>1, <1>2

\* The agents of the next chain start a conversation of their own.
LEMMA TalkChain ==
    ASSUME Functions, \A a \in Agents : AgentInv(a), \A a \in Agents : RoundInv(a),
           \A a \in Agents : TalkInv(a), ChainStep
    PROVE  \A a \in Agents : TalkInv(a)'
<1>1. CASE Extract \/ HECStep \/ AgentsDone
  BY <1>1, TalkFrame DEF Extract, HECStep, Post, Wait, AgentsDone, talk
<1>2. CASE StartAgents
  <2>1. ASSUME NEW a \in Agents
        PROVE  /\ pc'[a] \in {"ask", "local"} /\ round' = round
               /\ asked' = asked /\ todo' = todo /\ answered' = answered
               /\ pc[a] = "off"
    BY <1>2, <2>1 DEF Functions, AgentInv, StartAgents, talk
  <2>2. \A a \in Agents : ~(round'[a] > 0)
    BY <2>1 DEF RoundInv
  <2> QED BY <2>1, <2>2 DEF TalkInv
<1> QED BY <1>1, <1>2 DEF ChainStep

\* Every step keeps calls and responses together.
LEMMA TalkInvStep ==
    ASSUME Functions, \A a \in Agents : AgentInv(a), \A a \in Agents : RoundInv(a),
           \A a \in Agents : TalkInv(a), Next
    PROVE  \A a \in Agents : TalkInv(a)'
<1>1. ASSUME NEW a \in Agents, AgentStep(a) PROVE \A b \in Agents : TalkInv(b)'
  <2>1. TalkInv(a)' /\ MineOnly(a)
    BY <1>1, ModelMine, ToolMine, LocalMine, TalkModel, TalkTool, TalkLocal DEF AgentStep
  <2>2. \A b \in Agents : b # a => round'[b] = round[b]
    BY <1>1 DEF AgentStep, Functions, ModelCalls, ModelReports, ModelFails,
        NextRound, CallTool,
        ToolReturns, LocalCall, LocalResult, Conclude, Report, talk
  <2> QED BY <2>1, <2>2, TalkFrame DEF MineOnly
<1>2. CASE NLStep
  <2>1. TalkInv("narrator")' /\ MineOnly("narrator") /\ round' = round
    BY <1>2, NLMine, TalkNL, AgentsAre DEF NLStep, RefuseQuestion, AskForSPL, SPLRefused,
        SPLWritten, RunSPL, RunReturns, talk
  <2> QED BY <2>1, TalkFrame DEF MineOnly
<1> QED BY <1>1, <1>2, TalkChain DEF Next, ChainStep

\* A request is made only while there are rounds left, and the next agent call
\* starts with all of them.
LEMMA RoundStep ==
    ASSUME Functions, \A a \in Agents : RoundInv(a), \A a \in Agents : AgentInv(a), Next
    PROVE  /\ \A a \in Agents : RoundInv(a)'
           /\ round' \in [Agents -> 0..maxRounds]
<1> USE InvestigationAssumption
<1>1. CASE Extract \/ HECStep \/ AgentsDone
  BY <1>1 DEF Extract, HECStep, Post, Wait, AgentsDone, talk, RoundInv, Functions
<1>2. CASE StartAgents
  <2>1. \A a \in Agents : pc[a] = "off" /\ pc'[a] \in {"ask", "local"}
    BY <1>2 DEF StartAgents, AgentInv, Functions
  <2>2. round' = round /\ \A a \in Agents : round[a] = 0
    BY <1>2, <2>1 DEF StartAgents, talk, RoundInv
  <2>3. 0 < maxRounds
    OBVIOUS
  <2> QED BY <2>1, <2>2, <2>3 DEF RoundInv, Functions
<1>3. CASE NLStep
  BY <1>3 DEF NLStep, RefuseQuestion, AskForSPL, SPLRefused, SPLWritten, RunSPL,
      RunReturns,
      talk, RoundInv, Functions, Goto
<1>4. ASSUME NEW a \in Agents, AgentStep(a)
      PROVE  (\A b \in Agents : RoundInv(b)') /\ round' \in [Agents -> 0..maxRounds]
  <2>1. ASSUME NEW calls \in Calls(a), ModelCalls(a, calls)
        PROVE  (\A b \in Agents : RoundInv(b)') /\ round' \in [Agents -> 0..maxRounds]
    <3>1. /\ round' = [round EXCEPT ![a] = @ + 1] /\ pc' = [pc EXCEPT ![a] = "dispatch"]
          /\ pc[a] = "ask"
      BY <2>1 DEF ModelCalls, Goto
    <3>2. round[a] \in 0..maxRounds /\ round[a] < maxRounds
      BY <3>1 DEF Functions, RoundInv
    <3>3. round[a] + 1 \in 0..maxRounds
      BY <3>2
    <3>4. round' \in [Agents -> 0..maxRounds]
      BY <3>1, <3>3 DEF Functions
    <3>5. \A b \in Agents : RoundInv(b)'
      BY <3>1 DEF RoundInv, Functions
    <3> QED BY <3>4, <3>5
  <2>2. CASE ModelReports(a) \/ ModelFails(a) \/ NextRound(a)
    BY <2>2 DEF ModelReports, ModelFails, NextRound, Fail, Goto, talk, RoundInv, Functions
  <2>3. CASE CallTool(a) \/ \E s \in AllStatuses : ToolReturns(a, s)
    BY <2>3 DEF CallTool, ToolReturns, Goto, talk, RoundInv, Functions
  <2>4. CASE LocalCall(a) \/ LocalResult(a) \/ Conclude(a)
    BY <2>4 DEF LocalCall, LocalResult, Conclude, Goto, talk, RoundInv, Functions
  <2>5. CASE Report(a)
    <3>1. round' = [round EXCEPT ![a] = 0] /\ pc' = [pc EXCEPT ![a] = "off"]
      BY <2>5 DEF Report, Goto
    <3>2. 0 \in 0..maxRounds
      OBVIOUS
    <3> QED BY <3>1, <3>2 DEF RoundInv, Functions
  <2> QED BY <1>4, <2>1, <2>2, <2>3, <2>4, <2>5 DEF AgentStep
<1> QED BY <1>1, <1>2, <1>3, <1>4 DEF Next

-----------------------------------------------------------------------------
(* The write-back *)

\* One more post, and what it means.
LEMMA PostStep == ASSUME PostInv, NEW o \in Outcomes, Post(o) PROVE PostInv'
<1>1. /\ posts' = Append(posts, o) /\ hec = "post" /\ consumer' = consumer
      /\ hec' = IF o = "stored" THEN "ok"
                ELSE IF Retryable(o) /\ Len(posts) + 1 < hecMaxAttempts THEN "wait"
                ELSE "failed"
  BY DEF Post, signal
<1>2. /\ posts' \in Seq(Outcomes) /\ Len(posts') = Len(posts) + 1 /\ posts' # <<>>
      /\ \A k \in 1..Len(posts) : posts'[k] = posts[k]
      /\ posts'[Len(posts) + 1] = o /\ Len(posts) \in Nat
  BY <1>1, AppendProperties DEF PostInv
<1>3. Last(posts') = o
  BY <1>2 DEF Last
<1>4. \A k \in 1..Len(posts') : k < Len(posts') => posts'[k] \in {"lost", "down", "busy"}
  BY <1>1, <1>2 DEF PostInv
<1>5. WriteBackHonest'
  BY <1>1, <1>2, <1>3, <1>4, InvestigationAssumption DEF PostInv, WriteBackHonest
<1>6. hec' = "wait" => /\ Len(posts') < hecMaxAttempts
                       /\ \A k \in 1..Len(posts') : posts'[k] \in {"lost", "down", "busy"}
  BY <1>1, <1>2 DEF PostInv, Retryable
<1>7. consumer' = "hec" /\ hec' \in {"ok", "wait", "failed"}
  BY <1>1 DEF PostInv
<1>8. /\ posts' \in Seq(Outcomes)
      /\ consumer' # "hec" => hec' = "off"
      /\ hec' = "off" => posts' = <<>>
      /\ hec' = "wait" => posts' # <<>>
  BY <1>2, <1>7
<1>9. hec' \in {"post", "wait"} => Len(posts') < hecMaxAttempts
  BY <1>6, <1>7
<1>10. hec' \in {"post", "wait"} =>
          \A k \in 1..Len(posts') : posts'[k] \in {"lost", "down", "busy"}
  BY <1>6, <1>7
<1> QED BY Zenon, <1>5, <1>8, <1>9, <1>10 DEF PostInv

\* Send keeps its account of its posts, and nobody else touches it.
LEMMA PostInvStep == ASSUME PostInv, \A a \in Agents : AgentInv(a), Next PROVE PostInv'
<1>1. CASE Extract
  <2>1. posts = <<>> /\ posts' = <<>> /\ consumer' = "hec" /\ hec' \in {"off", "post"}
    BY <1>1 DEF Extract, PostInv
  <2> QED BY <2>1, InvestigationAssumption DEF PostInv, WriteBackHonest
<1>2. CASE Wait("post") \/ Wait("failed")
  <2>1. posts # <<>> /\ Last(posts) \in {"lost", "down", "busy"}
    <3>1. posts # <<>> /\ posts \in Seq(Outcomes) /\ hec = "wait"
      BY <1>2 DEF Wait, PostInv
    <3>2. Len(posts) \in 1..Len(posts)
      BY <3>1
    <3> QED BY <3>1, <3>2 DEF PostInv, Last
  <2>2. posts' = posts /\ consumer' = consumer /\ hec = "wait" /\ hec' \in {"post", "failed"}
    BY <1>2 DEF Wait, signal
  <2>3. Last(posts') = Last(posts)
    BY <2>2
  <2>4. WriteBackHonest'
    BY <2>1, <2>2, <2>3 DEF PostInv, WriteBackHonest
  <2> QED BY <2>1, <2>2, <2>4 DEF PostInv
<1>3. CASE StartAgents
  BY <1>3, InvestigationAssumption DEF StartAgents, PostInv, WriteBackHonest
<1>4. CASE AgentsDone
  BY <1>4 DEF AgentsDone, PostInv, WriteBackHonest
<1>5. CASE NLStep \/ \E a \in Agents : AgentStep(a)
  <2>1. UNCHANGED hecAndSignal
    BY <1>5 DEF NLStep, AgentStep, RefuseQuestion, AskForSPL, SPLRefused,
        SPLWritten, RunSPL,
        RunReturns, ModelCalls, ModelReports, ModelFails, NextRound, CallTool,
        ToolReturns, LocalCall, LocalResult, Conclude, Report
  <2> QED BY <2>1 DEF hecAndSignal, signal, PostInv, WriteBackHonest
<1> QED BY <1>1, <1>2, <1>3, <1>4, <1>5, PostStep DEF Next, HECStep

-----------------------------------------------------------------------------
(* The variables' types *)

SaidStep == /\ said' = [a \in Agents |-> said'[a]]
            /\ shown' \in [Agents -> AllStatuses \cup {""}]

\* Each step leaves a message of each agent, and a status a result can have.
LEMMA SaidType == ASSUME Functions, Next PROVE SaidStep
<1> USE AgentsAre DEF Functions, SaidStep, AllStatuses
<1>1. CASE Extract \/ HECStep \/ StartAgents \/ AgentsDone
  BY <1>1 DEF Extract, HECStep, Post, Wait, StartAgents, AgentsDone
<1>2. CASE NLStep
  BY <1>2 DEF NLStep, RefuseQuestion, AskForSPL, SPLRefused, SPLWritten, RunSPL,
      RunReturns,
      Say, Tell
<1>3. ASSUME NEW a \in Agents, AgentStep(a) PROVE SaidStep
  BY <1>3 DEF AgentStep, ModelCalls, ModelReports, ModelFails, NextRound, CallTool,
      ToolReturns,
      LocalCall, LocalResult, Conclude, Report, Say, Tell
<1> QED BY <1>1, <1>2, <1>3 DEF Next

\* Each step leaves an agent at a place there is.
LEMMA PlaceType == ASSUME Functions, Next PROVE pc' \in [Agents -> Places]
<1> USE AgentsAre DEF Functions, Places, Goto
<1>1. CASE Extract \/ HECStep \/ StartAgents \/ AgentsDone
  BY <1>1 DEF Extract, HECStep, Post, Wait, StartAgents, AgentsDone
<1>2. CASE NLStep
  BY <1>2 DEF NLStep, RefuseQuestion, AskForSPL, SPLRefused, SPLWritten, RunSPL,
      RunReturns
<1>3. ASSUME NEW a \in Agents, AgentStep(a) PROVE pc' \in [Agents -> Places]
  BY <1>3 DEF AgentStep, ModelCalls, ModelReports, ModelFails, Fail, NextRound, CallTool,
      ToolReturns, LocalCall, LocalResult, Conclude, Report
<1> QED BY <1>1, <1>2, <1>3 DEF Next

\* One step fewer is still a number of steps.
LEMMA GreaterThanZero == \A n \in Nat : n > 0 => n - 1 \in Nat
  OBVIOUS

\* A local agent has no fewer than no steps left.
LEMMA LeftType ==
    ASSUME Functions, \A a \in Agents : AgentInv(a), techs \in Nat, Next
    PROVE  left' \in [Agents -> Nat]
<1> USE AgentsAre DEF Functions
<1>1. CASE Extract \/ HECStep \/ AgentsDone
  BY <1>1 DEF Extract, HECStep, Post, Wait, AgentsDone
<1>2. CASE StartAgents
  BY <1>2 DEF StartAgents, LocalSteps
<1>3. CASE NLStep
  BY <1>3 DEF NLStep, RefuseQuestion, AskForSPL, SPLRefused, SPLWritten, RunSPL,
      RunReturns
<1>4. ASSUME NEW a \in Agents, AgentStep(a) PROVE left' \in [Agents -> Nat]
  <2>1. CASE LocalResult(a)
    <3>1. pc[a] = "localTool" /\ left' = [left EXCEPT ![a] = left[a] - 1]
      BY <2>1 DEF LocalResult
    <3>2. left[a] > 0
      BY <3>1 DEF AgentInv
    <3>3. left[a] \in Nat
      BY DEF Functions
    <3>4. left[a] - 1 \in Nat
      BY <3>2, <3>3, GreaterThanZero
    <3> QED BY <3>1, <3>4
  <2>2. CASE ModelFails(a) \/ NextRound(a)
    <3>1. LocalSteps(a) \in Nat
      BY DEF LocalSteps
    <3>2. left' = left \/ left' = [left EXCEPT ![a] = LocalSteps(a)]
      BY <2>2 DEF ModelFails, NextRound, Fail
    <3> QED BY <3>1, <3>2
  <2> QED BY <1>4, <2>1, <2>2 DEF AgentStep, ModelCalls, ModelReports, CallTool, ToolReturns,
             LocalCall, Conclude, Report
<1> QED BY <1>1, <1>2, <1>3, <1>4 DEF Next

\* A list over a set is a list over a larger one.
LEMMA WiderSeq ==
    ASSUME NEW S, NEW T, S \subseteq T, NEW s \in Seq(S) PROVE s \in Seq(T)
  OBVIOUS

\* Calls and responses are lists, of either agent.
LEMMA ListType ==
    ASSUME Functions, Next, \A a \in Agents : TalkInv(a)'
    PROVE  /\ asked' \in [Agents -> Seq(NarratorTools \cup IntelTools)]
           /\ todo' \in [Agents -> Seq(NarratorTools \cup IntelTools)]
           /\ answered' \in [Agents -> Seq(NarratorTools \cup IntelTools)]
<1> DEFINE Lists == /\ asked' = [b \in Agents |-> asked'[b]]
                    /\ todo' = [b \in Agents |-> todo'[b]]
                    /\ answered' = [b \in Agents |-> answered'[b]]
<1> USE AgentsAre DEF Functions
<1>1. Lists
  <2>1. CASE Extract \/ HECStep \/ StartAgents \/ AgentsDone
    BY <2>1 DEF Extract, HECStep, Post, Wait, StartAgents, AgentsDone, talk
  <2>2. CASE NLStep
    BY <2>2 DEF NLStep, RefuseQuestion, AskForSPL, SPLRefused, SPLWritten, RunSPL,
        RunReturns, Respond, NextCall, talk
  <2>3. ASSUME NEW a \in Agents, AgentStep(a) PROVE Lists
    BY <2>3 DEF AgentStep, ModelCalls, ModelReports, ModelFails, NextRound, CallTool,
        ToolReturns, LocalCall, LocalResult, Conclude, Report, Respond, NextCall, talk
  <2> QED BY <2>1, <2>2, <2>3 DEF Next
<1>2. \A a \in Agents : Menu(a) \subseteq NarratorTools \cup IntelTools
  BY DEF Menu
<1>3. ASSUME NEW a \in Agents, NEW s \in Seq(Menu(a))
      PROVE  s \in Seq(NarratorTools \cup IntelTools)
  BY <1>2, WiderSeq
<1>4. \A a \in Agents : /\ asked'[a] \in Seq(Menu(a)) /\ todo'[a] \in Seq(Menu(a))
                        /\ answered'[a] \in Seq(Menu(a))
  BY DEF TalkInv
<1>5. \A a \in Agents : /\ asked'[a] \in Seq(NarratorTools \cup IntelTools)
                        /\ todo'[a] \in Seq(NarratorTools \cup IntelTools)
                        /\ answered'[a] \in Seq(NarratorTools \cup IntelTools)
  BY <1>3, <1>4
<1> QED BY <1>1, <1>5

-----------------------------------------------------------------------------
(* Every step is one of Reports, or shows nothing *)

Shows == R!Next \/ UNCHANGED <<chain, said>>

\* Only a new chain silences the agents, once both have reported.
LEMMA ShownChain ==
    ASSUME \A a \in Agents : AgentInv(a), ChainStep PROVE Shows
<1>1. CASE Extract
  <2>1. R!Publish
    BY <1>1 DEF Extract, AgentInv, R!Publish
  <2> QED BY <2>1 DEF Shows, R!Next
<1>2. CASE HECStep \/ StartAgents \/ AgentsDone
  BY <1>2 DEF HECStep, Post, Wait, StartAgents, AgentsDone, signal, Shows
<1> QED BY <1>1, <1>2 DEF ChainStep

\* A tool that is called, and its result, are as Reports has them.
LEMMA ShownCall ==
    ASSUME NEW a \in Agents, NEW t \in Tools, NEW s \in Sources,
           chain' = chain,
           \/ R!Between(a) /\ said' = [said EXCEPT ![a] = R!Call(t, s)]
           \/ said[a] = R!Call(t, s) /\ said' = [said EXCEPT ![a] = R!Result(t, s)]
    PROVE  Shows
<1>1. R!UseTool(a, t, s) \/ R!Answer(a, t, s)
  BY DEF R!UseTool, R!Answer, R!Say
<1> QED BY <1>1 DEF Shows, R!Next

\* What is called or shown is a tool Reports knows.
LEMMA ToolNames ==
    /\ \A a \in Agents : Menu(a) \subseteq Tools /\ LocalTool(a) \in Tools
    /\ {"tool", "generate", "run", "snapshot"} = Sources
  BY DEF Menu, Tools, LocalTool, Sources

\* dispatch shows a call and its result.
LEMMA ShownTool ==
    ASSUME NEW a \in Agents, AgentInv(a), TalkInv(a),
           CallTool(a) \/ (\E s \in AllStatuses : ToolReturns(a, s))
    PROVE  Shows
<1>1. chain' = chain
  BY DEF CallTool, ToolReturns, hecAndSignal, signal
<1>2. todo[a] # <<>>
  BY DEF CallTool, TurnOver, ToolReturns, TalkInv
<1>3. Current(a) \in Tools /\ "tool" \in Sources
  BY <1>2, CurrentIsTool, ToolNames
<1>4. \/ R!Between(a) /\ said' = [said EXCEPT ![a] = R!Call(Current(a), "tool")]
      \/ /\ said[a] = R!Call(Current(a), "tool")
         /\ said' = [said EXCEPT ![a] = R!Result(Current(a), "tool")]
  BY DEF CallTool, ToolReturns, Say, Tell, AgentInv
<1> QED BY <1>1, <1>3, <1>4, ShownCall

\* dispatchNLSearch shows up to two calls, each with its result.
LEMMA ShownNL ==
    ASSUME AgentInv("narrator"), TalkInv("narrator"), NLStep
    PROVE  Shows
<1> DEFINE a == "narrator"
<1> USE AgentsAre
<1>1. chain' = chain
  BY DEF NLStep, RefuseQuestion, AskForSPL, SPLRefused, SPLWritten, RunSPL, RunReturns,
      hecAndSignal, signal
<1>2. CASE RefuseQuestion
  BY <1>1, <1>2 DEF RefuseQuestion, Shows
<1>3. CASE ~RefuseQuestion
  <2>1. Current(a) = NL /\ todo[a] # <<>>
    BY <1>3 DEF NLStep, AskForSPL, AtNL, TurnOver, SPLRefused, SPLWritten, RunSPL,
        RunReturns, TalkInv
  <2>2. NL \in Tools /\ "generate" \in Sources /\ "run" \in Sources
    BY <2>1, CurrentIsTool, ToolNames
  <2>3. \E s \in {"generate", "run"} :
           \/ R!Between(a) /\ said' = [said EXCEPT ![a] = R!Call(NL, s)]
           \/ said[a] = R!Call(NL, s) /\ said' = [said EXCEPT ![a] = R!Result(NL, s)]
    BY <1>3 DEF NLStep, AskForSPL, AtNL, SPLRefused, SPLWritten, RunSPL,
        RunReturns, Say, Tell, AgentInv
  <2> QED BY <1>1, <2>2, <2>3, ShownCall
<1> QED BY <1>2, <1>3

\* The local agents show their steps, done and the verdict.
LEMMA ShownLocal ==
    ASSUME NEW a \in Agents, AgentInv(a),
           LocalCall(a) \/ LocalResult(a) \/ Conclude(a) \/ Report(a)
    PROVE  Shows
<1>1. chain' = chain
  BY DEF LocalCall, LocalResult, Conclude, Report, hecAndSignal, signal
<1>2. CASE LocalCall(a) \/ LocalResult(a)
  <2>1. LocalTool(a) \in Tools /\ "snapshot" \in Sources
    BY ToolNames
  <2>2. \/ R!Between(a) /\ said' = [said EXCEPT ![a] = R!Call(LocalTool(a), "snapshot")]
        \/ /\ said[a] = R!Call(LocalTool(a), "snapshot")
           /\ said' = [said EXCEPT ![a] = R!Result(LocalTool(a), "snapshot")]
    BY <1>2 DEF LocalCall, LocalResult, Say, Tell, AgentInv
  <2> QED BY <1>1, <2>1, <2>2, ShownCall
<1>3. CASE Conclude(a)
  <2>1. R!Conclude(a)
    BY <1>1, <1>3 DEF Conclude, Say, Tell, AgentInv, R!Conclude, R!Say
  <2> QED BY <2>1 DEF Shows, R!Next
<1>4. CASE Report(a)
  <2>1. CASE pc[a] = "report"
    <3>1. said[a] = R!Done /\ said' = [said EXCEPT ![a] = R!Verdict(TRUE)]
      BY <1>4, <2>1 DEF Report, Say, Tell, AgentInv
    <3>2. R!Report(a)
      BY <1>1, <3>1 DEF R!Report, R!Say
    <3> QED BY <3>2 DEF Shows, R!Next
  <2>2. CASE pc[a] = "giveUp"
    <3>1. /\ a = "intel" /\ R!Between(a) /\ (pc[a] = "report") = FALSE
          /\ said' = [said EXCEPT ![a] = R!Verdict(pc[a] = "report")]
      BY <1>4, <2>2 DEF Report, Say, Tell, AgentInv
    <3>2. R!GiveUp(a)
      BY <1>1, <3>1 DEF R!GiveUp, R!Say
    <3> QED BY <3>2 DEF Shows, R!Next
  <2> QED BY <1>4, <2>1, <2>2 DEF Report
<1> QED BY <1>2, <1>3, <1>4

\* Every step shows what Reports allows, or nothing.
LEMMA ShownStep ==
    ASSUME \A a \in Agents : AgentInv(a), \A a \in Agents : TalkInv(a), Next
    PROVE  Shows
<1>1. ASSUME NEW a \in Agents, AgentStep(a) PROVE Shows
  <2>1. CASE \/ (\E calls \in Calls(a) : ModelCalls(a, calls))
             \/ ModelReports(a) \/ ModelFails(a) \/ NextRound(a)
    BY <2>1 DEF ModelCalls, ModelReports, ModelFails, NextRound, hecAndSignal,
        signal, Shows
  <2> QED BY <1>1, <2>1, ShownTool, ShownLocal DEF AgentStep
<1> QED BY <1>1, ShownChain, ShownNL, AgentsAre DEF Next, ChainStep

-----------------------------------------------------------------------------
(* The catalogue *)

\* Once it was fetched, or was not, that stays so.
LEMMA KEVStays ==
    ASSUME kev \in {"loaded", "failed"}, Next PROVE kev' = kev
  BY DEF Next, Extract, HECStep, Post, Wait, StartAgents, AgentsDone, NLStep,
      RefuseQuestion, AskForSPL, SPLRefused, SPLWritten, RunSPL, RunReturns, AgentStep,
      ModelCalls, ModelReports, ModelFails, NextRound, CallTool, ToolReturns,
      LookupKEV, LocalCall, LocalResult, Conclude, Report

\* Only a lookup shows one, or touches the catalogue.
LEMMA OtherSteps ==
    ASSUME Functions, Next, ~\E s \in AllStatuses : ToolReturns("intel", s)
    PROVE  /\ kev' = kev
           /\ \/ said'["intel"] = said["intel"] /\ shown'["intel"] = shown["intel"]
              \/ said'["intel"] # R!Result("lookup_kev", "tool")
<1> USE AgentsAre
<1>1. /\ R!Result("lookup_kev", "tool") # R!Done /\ R!Result("lookup_kev", "tool") # R!Silent
      /\ \A ok : R!Result("lookup_kev", "tool") # R!Verdict(ok)
      /\ \A t, r : R!Result("lookup_kev", "tool") # R!Call(t, r)
      /\ \A t : R!Result("lookup_kev", "tool") # R!Result(t, "snapshot")
  BY DEF R!Result, R!Done, R!Silent, R!Verdict, R!Call
<1>2. CASE ChainStep
  BY <1>1, <1>2 DEF ChainStep, Extract, HECStep, Post, Wait, StartAgents, AgentsDone
<1>3. ASSUME NEW m, NEW st, Tell("narrator", m, st)
      PROVE  said'["intel"] = said["intel"] /\ shown'["intel"] = shown["intel"]
  BY <1>3 DEF Tell, Functions
<1>4. CASE NLStep
  BY <1>3, <1>4 DEF NLStep, RefuseQuestion, AskForSPL, SPLRefused, SPLWritten, RunSPL,
      RunReturns, Say
<1>5. CASE AgentStep("narrator")
  BY <1>3, <1>5 DEF AgentStep, ModelCalls, ModelReports, ModelFails, NextRound, CallTool,
      ToolReturns, LocalCall, LocalResult, Conclude, Report, Say
<1>6. ASSUME NEW m, NEW st, Tell("intel", m, st) PROVE said'["intel"] = m
  BY <1>6 DEF Tell, Functions
<1>7. CASE AgentStep("intel")
  <2>1. CASE \/ CallTool("intel") \/ LocalCall("intel") \/ LocalResult("intel")
             \/ Conclude("intel") \/ Report("intel")
    BY <1>1, <1>6, <2>1 DEF CallTool, LocalCall, LocalResult, Conclude, Report, Say
  <2>2. CASE \/ ModelReports("intel") \/ ModelFails("intel") \/ NextRound("intel")
             \/ \E calls \in Calls("intel") : ModelCalls("intel", calls)
    BY <2>2 DEF ModelCalls, ModelReports, ModelFails, NextRound
  <2> QED BY <1>7, <2>1, <2>2 DEF AgentStep
<1> QED BY <1>2, <1>4, <1>5, <1>7 DEF Next, ChainStep

\* A lookup shows what became of the catalogue, which does not change again.
LEMMA KEVStep ==
    ASSUME Functions, kev \in {"unread", "loaded", "failed"}, KEVInv, Next
    PROVE  KEVInv'
<1> USE AgentsAre
<1>1. ASSUME NEW s \in AllStatuses, ToolReturns("intel", s) PROVE KEVInv'
  <2>1. said'["intel"] = R!Result(Current("intel"), "tool") /\ shown'["intel"] = s
    BY <1>1 DEF ToolReturns, Tell, Functions
  <2>2. CASE Current("intel") = "lookup_kev"
    <3>1. LookupKEV(s)
      BY <1>1, <2>2 DEF ToolReturns
    <3>2. kev' \in {"loaded", "failed"}
      BY <3>1, KEVStays DEF LookupKEV
    <3>3. s = "error" <=> kev' = "failed"
      BY <3>1 DEF LookupKEV
    <3> QED BY <2>1, <3>2, <3>3 DEF KEVInv, KEVShown
  <2>3. CASE Current("intel") # "lookup_kev"
    <3>1. said'["intel"] # R!Result("lookup_kev", "tool")
      BY <2>1, <2>3 DEF R!Result
    <3> QED BY <3>1 DEF KEVInv, KEVShown
  <2> QED BY <2>2, <2>3
<1>2. CASE ~\E s \in AllStatuses : ToolReturns("intel", s)
  BY <1>2, OtherSteps DEF KEVInv, KEVShown
<1> QED BY <1>1, <1>2

-----------------------------------------------------------------------------
(* The invariant *)

IInv == /\ TypeOK /\ said = [a \in Agents |-> said[a]]
        /\ \A a \in Agents : AgentInv(a)
        /\ \A a \in Agents : TalkInv(a)
        /\ \A a \in Agents : RoundInv(a)
        /\ PostInv /\ KEVInv

\* The rest of the variables: set at the start, or by the consumer, the
\* collector and the catalogue alone.
LEMMA RestType ==
    ASSUME TypeOK, Next
    PROVE  /\ gemini' \in BOOLEAN /\ generator' \in BOOLEAN
           /\ consumer' \in {"idle", "hec", "agents"}
           /\ chain' \in 0..MaxChains /\ techs' \in 0..MaxTechs
           /\ hec' \in {"off", "post", "wait", "ok", "failed"}
           /\ kev' \in {"unread", "loaded", "failed"}
<1>0. /\ gemini \in BOOLEAN /\ generator \in BOOLEAN
      /\ consumer \in {"idle", "hec", "agents"}
      /\ chain \in 0..MaxChains /\ techs \in 0..MaxTechs
      /\ hec \in {"off", "post", "wait", "ok", "failed"}
      /\ kev \in {"unread", "loaded", "failed"}
  BY DEF TypeOK
<1> USE <1>0, InvestigationAssumption DEF config, signal, hecAndSignal
<1>1. UNCHANGED config
  BY DEF Next, Extract, HECStep, Post, Wait, StartAgents, AgentsDone, NLStep,
      RefuseQuestion,
      AskForSPL, SPLRefused, SPLWritten, RunSPL, RunReturns, AgentStep, ModelCalls,
      ModelReports,
      ModelFails, NextRound, CallTool, ToolReturns, LocalCall, LocalResult,
      Conclude, Report
<1>2. CASE Extract
  <2>1. chain' = chain + 1 /\ chain < MaxChains
    BY <1>2 DEF Extract
  <2>2. chain' \in 0..MaxChains
    BY <2>1, <1>0, InvestigationAssumption
  <2>3. consumer' = "hec" /\ techs' \in 0..MaxTechs /\ hec' \in {"off", "post"} /\ kev' = kev
    BY <1>2 DEF Extract
  <2> QED BY <1>0, <1>1, <2>2, <2>3
<1>5. CASE HECStep \/ StartAgents \/ AgentsDone
  BY <1>1, <1>5 DEF HECStep, Post, Wait, StartAgents, AgentsDone
<1>3. CASE NLStep
  BY <1>1, <1>3 DEF NLStep, RefuseQuestion, AskForSPL, SPLRefused, SPLWritten,
      RunSPL, RunReturns
<1>4. ASSUME NEW a \in Agents, AgentStep(a)
      PROVE  UNCHANGED hecAndSignal /\ kev' \in {"unread", "loaded", "failed"}
  BY <1>4 DEF AgentStep, ModelCalls, ModelReports, ModelFails, NextRound, CallTool,
      ToolReturns,
      LookupKEV, LocalCall, LocalResult, Conclude, Report
<1> QED BY <1>1, <1>2, <1>3, <1>4, <1>5 DEF Next

\* Nothing asked, nothing posted, no chain yet.
LEMMA InvInit == ASSUME Init PROVE IInv
<1>1. TypeOK
  <2>1. /\ gemini \in BOOLEAN /\ generator \in BOOLEAN /\ consumer = "idle"
        /\ kev = "unread" /\ hec = "off" /\ posts = <<>> /\ chain = 0 /\ techs = 0
    BY DEF Init, R!Init
  <2>2. chain \in 0..MaxChains /\ techs \in 0..MaxTechs /\ posts \in Seq(Outcomes)
    BY <2>1, InvestigationAssumption
  <2>3. /\ pc = [a \in Agents |-> "off"] /\ shown = [a \in Agents |-> ""]
        /\ round = [a \in Agents |-> 0] /\ left = [a \in Agents |-> 0]
        /\ asked = [a \in Agents |-> <<>>] /\ todo = [a \in Agents |-> <<>>]
        /\ answered = [a \in Agents |-> <<>>]
    BY DEF Init
  <2>4. pc \in [Agents -> Places] /\ shown \in [Agents -> AllStatuses \cup {""}]
    BY <2>3 DEF Places
  <2>5. round \in [Agents -> 0..maxRounds] /\ left \in [Agents -> Nat]
    <3>1. 0 \in 0..maxRounds
      BY InvestigationAssumption
    <3> QED BY <2>3, <3>1
  <2>6. /\ asked \in [Agents -> Seq(NarratorTools \cup IntelTools)]
        /\ todo \in [Agents -> Seq(NarratorTools \cup IntelTools)]
        /\ answered \in [Agents -> Seq(NarratorTools \cup IntelTools)]
    <3>1. <<>> \in Seq(NarratorTools \cup IntelTools)
      BY EmptySeq
    <3>2. \A e : [a \in Agents |-> <<>>] = e
             => e \in [Agents -> Seq(NarratorTools \cup IntelTools)]
      BY <3>1
    <3> QED BY <2>3, <3>2
  <2> QED BY <2>1, <2>2, <2>4, <2>5, <2>6 DEF TypeOK
<1>2. said = [a \in Agents |-> said[a]]
  BY DEF Init, R!Init
<1>3. \A a \in Agents : R!Reported(a)
  BY Kinds DEF Init, R!Init, R!Reported
<1>4. \A a \in Agents : AgentInv(a)
  BY <1>3 DEF AgentInv, Init
<1>5. ASSUME NEW a \in Agents PROVE TalkInv(a) /\ RoundInv(a)
  <2>1. /\ pc[a] = "off" /\ round[a] = 0
        /\ asked[a] = <<>> /\ todo[a] = <<>> /\ answered[a] = <<>>
    BY DEF Init
  <2>2. <<>> \in Seq(Menu(a)) /\ <<>> \o <<>> = <<>>
    BY ConcatEmptySeq
  <2> QED BY <2>1, <2>2 DEF TalkInv, RoundInv
<1>6. PostInv
  <2>1. posts = <<>> /\ hec = "off" /\ consumer = "idle"
    BY DEF Init
  <2>2. posts \in Seq(Outcomes) /\ Len(posts) = 0 /\ 0 <= hecMaxAttempts
    BY <2>1, InvestigationAssumption
  <2> QED BY <2>1, <2>2 DEF PostInv, WriteBackHonest
<1>7. KEVInv
  BY AgentsAre, Kinds DEF Init, R!Init, KEVInv, KEVShown
<1> QED BY <1>1, <1>2, <1>4, <1>5, <1>6, <1>7 DEF IInv

\* Every step keeps all parts of the invariant.
LEMMA InvNext == ASSUME IInv, Next PROVE IInv'
<1>1. Functions /\ techs \in Nat
  <2>1. Functions
    BY Zenon DEF IInv, TypeOK, Functions
  <2>2. techs \in Nat
    <3>1. techs \in 0..MaxTechs
      BY DEF IInv, TypeOK
    <3> QED BY <3>1, InvestigationAssumption
  <2> QED BY <2>1, <2>2
<1>2. /\ \A a \in Agents : AgentInv(a)
      /\ \A a \in Agents : TalkInv(a)
      /\ \A a \in Agents : RoundInv(a)
      /\ PostInv /\ KEVInv /\ TypeOK /\ kev \in {"unread", "loaded", "failed"}
  BY DEF IInv, TypeOK
<1>3. \A a \in Agents : AgentInv(a)'
  BY <1>1, <1>2, AgentInvStep
<1>4. \A a \in Agents : TalkInv(a)'
  BY <1>1, <1>2, TalkInvStep
<1>5. (\A a \in Agents : RoundInv(a)') /\ round' \in [Agents -> 0..maxRounds]
  BY <1>1, <1>2, RoundStep
<1>6. PostInv'
  BY <1>2, PostInvStep
<1>7. said' = [a \in Agents |-> said'[a]] /\ shown' \in [Agents -> AllStatuses \cup {""}]
  BY <1>1, SaidType DEF SaidStep
<1>8. /\ pc' \in [Agents -> Places] /\ left' \in [Agents -> Nat]
      /\ asked' \in [Agents -> Seq(NarratorTools \cup IntelTools)]
      /\ todo' \in [Agents -> Seq(NarratorTools \cup IntelTools)]
      /\ answered' \in [Agents -> Seq(NarratorTools \cup IntelTools)]
  BY <1>1, <1>2, <1>4, PlaceType, LeftType, ListType
<1>9. posts' \in Seq(Outcomes)
  BY <1>6 DEF PostInv
<1>10. TypeOK'
  BY <1>2, <1>5, <1>7, <1>8, <1>9, RestType DEF TypeOK
<1>11. KEVInv'
  BY <1>1, <1>2, KEVStep
<1> QED BY <1>3, <1>4, <1>5, <1>6, <1>7, <1>10, <1>11 DEF IInv

\* A step that changes nothing keeps them.
LEMMA InvStutter == ASSUME IInv, UNCHANGED vars PROVE IInv'
<1> USE DEF vars, config, signal, talk
<1>1. TypeOK' /\ said' = [a \in Agents |-> said'[a]]
  BY DEF IInv, TypeOK
<1>2. \A a \in Agents : AgentInv(a)'
  BY AgentFrame DEF IInv
<1>3. \A a \in Agents : TalkInv(a)'
  BY TalkFrame DEF IInv
<1>4. (\A a \in Agents : RoundInv(a)') /\ PostInv' /\ KEVInv'
  BY DEF IInv, RoundInv, PostInv, WriteBackHonest, KEVInv, KEVShown
<1> QED BY <1>1, <1>2, <1>3, <1>4 DEF IInv

\* Messages, calls, rounds and posts keep together.
THEOREM Invariant == Spec => []IInv
<1>1. IInv /\ [Next]_vars => IInv'
  BY InvNext, InvStutter
<1> QED BY <1>1, InvInit, PTL DEF Spec

\* The variables of handleSignal, Send and the agents keep their types.
THEOREM TypeCorrect == Spec => []TypeOK
<1>1. IInv => TypeOK
  BY DEF IInv
<1> QED BY <1>1, Invariant, PTL

\* The agents and handleSignal implement what Reports promises the analyst.
THEOREM Refinement == Spec => ImplementsReports
<1>1. Init => R!Init
  BY DEF Init
<1>2. IInv /\ [Next]_vars => [R!Next]_<<chain, said>>
  BY ShownStep DEF IInv, Shows, vars, signal
<1> QED BY <1>1, <1>2, Invariant, PTL DEF Spec, ImplementsReports, R!Spec

\* However the loop over the calls went, each has its response, in order, when
\* generateContent is called again.
THEOREM AllCallsAnswered == Spec => []CallsAnswered
<1>1. ASSUME IInv PROVE CallsAnswered
  <2> SUFFICES ASSUME NEW a \in Agents, pc[a] = "ask", round[a] > 0
               PROVE  answered[a] = asked[a] /\ answered[a] # <<>>
    BY DEF CallsAnswered
  <2>1. /\ answered[a] \in Seq(Menu(a)) /\ answered[a] \o todo[a] = asked[a]
        /\ todo[a] = <<>> /\ asked[a] # <<>>
    BY <1>1 DEF IInv, TalkInv
  <2> QED BY <2>1, ConcatEmptySeq
<1> QED BY <1>1, Invariant, PTL

\* Send tells the truth about its posts, and makes no more than it may.
THEOREM WriteBackIsHonest == Spec => []WriteBackHonest
<1>1. IInv => WriteBackHonest
  BY DEF IInv, PostInv
<1> QED BY <1>1, Invariant, PTL

\* One life of the process has one catalogue, or one error, for every lookup_kev.
THEOREM CatalogueIsConsistent == Spec => CatalogueAnswersAlike
<1> DEFINE Failed == kev = "failed"
           Loaded == kev = "loaded"
           Refused == KEVShown({"error"})
           Served == KEVShown({"ok", "empty"})
<1>1. IInv => (Refused => Failed) /\ (Served => Loaded) /\ ~(Failed /\ Loaded)
  BY DEF IInv, KEVInv
<1>2. (Failed \/ Loaded) /\ [Next]_vars => (Failed => Failed') /\ (Loaded => Loaded')
  BY KEVStays DEF vars
<1> HIDE DEF Failed, Loaded, Refused, Served
<1>3. Spec => []~Refused \/ []~Served
  BY <1>1, <1>2, Invariant, PTL DEF Spec
<1> QED BY <1>3 DEF CatalogueAnswersAlike, Refused, Served
=============================================================================
