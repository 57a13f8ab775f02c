------------------------------- MODULE Reports -------------------------------
(***************************************************************************)
(* What the analyst is shown of one chain after another: each agent's feed *)
(* of steps (agent_activity) and its verdict (narration, threat_intel).    *)
(* Every tool call is followed by its own result, "done" is said once and  *)
(* last, a verdict that was not announced is an error, and no chain comes  *)
(* before both verdicts on the one before.  UiFeed and Pipeline rest on    *)
(* this; Investigation implements it.                                      *)
(***************************************************************************)
EXTENDS Naturals

CONSTANTS Agents,     \* narrator and intel
          MayFail,    \* agents whose verdict may be an error
          Tools,      \* tools that show in a feed
          Sources     \* back ends named in a feed

VARIABLES chain,   \* number of chains published
          said     \* last message of each agent about the current one

Silent    == [kind |-> "silent"]
Call(t, s)   == [kind |-> "tool_call", tool |-> t, source |-> s]
Result(t, s) == [kind |-> "tool_result", tool |-> t, source |-> s]
Done      == [kind |-> "done"]
Verdict(ok)  == [kind |-> "verdict", ok |-> ok]

Reported(a) == said[a].kind = "verdict"

Init == chain = 0 /\ said = [a \in Agents |-> Verdict(TRUE)]

Publish ==
    /\ \A a \in Agents : Reported(a)
    /\ chain' = chain + 1
    /\ said' = [a \in Agents |-> Silent]

Between(a) == said[a].kind \in {"silent", "tool_result"}

Say(a, m) == said' = [said EXCEPT ![a] = m] /\ UNCHANGED chain

UseTool(a, t, s) == Between(a) /\ Say(a, Call(t, s))
Answer(a, t, s)  == said[a] = Call(t, s) /\ Say(a, Result(t, s))
Conclude(a)      == Between(a) /\ Say(a, Done)
Report(a)        == said[a] = Done /\ Say(a, Verdict(TRUE))
GiveUp(a)        == a \in MayFail /\ Between(a) /\ Say(a, Verdict(FALSE))

Next == \/ Publish
        \/ \E a \in Agents :
              \/ \E t \in Tools, s \in Sources : UseTool(a, t, s) \/ Answer(a, t, s)
              \/ Conclude(a) \/ Report(a) \/ GiveUp(a)

Spec == Init /\ [][Next]_<<chain, said>>
=============================================================================
