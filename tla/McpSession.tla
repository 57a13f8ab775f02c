----------------------------- MODULE McpSession -----------------------------
(***************************************************************************)
(* MCPSearcher (engine/internal/splunk/mcp_searcher.go): "one MCPSearcher  *)
(* instance serves concurrent incidents", which share one session with the *)
(* Splunk MCP server.  It is opened by the first caller that needs it, and *)
(* dropped by a caller whose call fails; each time it is opened, the names *)
(* of the server's tools are looked up again.                              *)
(*                                                                         *)
(* The server is external: a session may break at any moment, and each one *)
(* may meet a server that has renamed its tools.                           *)
(***************************************************************************)
EXTENDS Naturals, Sequences

CONSTANTS Callers,
          Purposes,      \* what a tool is for: run a query, generate SPL
          Names,         \* tool names
          Exact,         \* the default name for each purpose
          Aliased,       \* the names that contain an alias, for each purpose
          Lists,         \* what a server may answer to tools/list
          Torn,          \* a name read while it is written
          MaxSessions,   \* bound on the sessions
          None

ASSUME McpAssumption ==
    /\ Exact \in [Purposes -> Names] /\ Aliased \in [Purposes -> SUBSET Names]
    /\ Lists \subseteq Seq(Names)
    /\ Torn \notin Names /\ None \notin Callers /\ MaxSessions \in Nat

VARIABLES
    mu,       \* the mutex: the caller that holds it, or None
    session,  \* the cached session, or 0
    tool,     \* runQueryTool and generateSPLTool
    listed,   \* the names being written to tool, under the mutex
    sessions, \* every session opened: "open", "broken", "closed"
    pc, purpose,
    have,     \* the session each caller works with, a local variable
    name      \* the tool it calls

shared == <<mu, session, tool, listed, sessions>>
vars   == <<shared, pc, purpose, have, name>>

Init == /\ mu = None /\ session = 0 /\ tool = Exact /\ listed = Exact
        /\ sessions = <<>>
        /\ pc = [c \in Callers |-> "idle"]
        /\ purpose \in [Callers -> Purposes]
        /\ have = [c \in Callers |-> 0]
        /\ name = [c \in Callers |-> None]

\* matchTool, with the name to keep when nothing matches.
MatchTool(list, p, keep) ==
    LET hits == {i \in 1..Len(list) : list[i] \in Aliased[p]} IN
    IF Exact[p] \in {list[i] : i \in 1..Len(list)} THEN Exact[p]
    ELSE IF hits = {} THEN keep
    ELSE list[CHOOSE i \in hits : \A j \in hits : i <= j]

Goto(c, l) == pc' = [pc EXCEPT ![c] = l]

\* Search or GenerateSPL is called.
Begin(c, p) ==
    /\ pc[c] = "idle"
    /\ purpose' = [purpose EXCEPT ![c] = p]
    /\ Goto(c, "ensure")
    /\ UNCHANGED <<shared, have, name>>

-----------------------------------------------------------------------------
(* ensureSession *)

\* Slip: whether there is a session is found out before the mutex is taken.
SlipEnsure(c) ==
    /\ pc[c] = "ensure"
    /\ IF session # 0
       THEN /\ have' = [have EXCEPT ![c] = session]
            /\ Goto(c, "readName")
       ELSE UNCHANGED have /\ Goto(c, "connect")
    /\ UNCHANGED <<shared, purpose, name>>

\* The session there is, or the mutex kept until there is one.
Ensure(c) ==
    /\ pc[c] = "ensure" /\ mu = None
    /\ IF session # 0
       THEN /\ have' = [have EXCEPT ![c] = session]
            /\ Goto(c, "readName") /\ UNCHANGED mu
       ELSE /\ mu' = c /\ Goto(c, "connect") /\ UNCHANGED have
    /\ UNCHANGED <<session, tool, listed, sessions, purpose, name>>

Connect(c) ==
    /\ pc[c] = "connect" /\ Len(sessions) < MaxSessions
    /\ sessions' = Append(sessions, "open")
    /\ session' = Len(sessions) + 1
    /\ have' = [have EXCEPT ![c] = Len(sessions) + 1]
    /\ Goto(c, "list")
    /\ UNCHANGED <<mu, tool, listed, purpose, name>>

ConnectFails(c) ==
    /\ pc[c] = "connect"
    /\ mu' = None
    /\ Goto(c, "idle")
    /\ UNCHANGED <<session, tool, listed, sessions, purpose, have, name>>

\* Slip: the mutex is released before the names are written.
SlipResolve(c, list) ==
    /\ pc[c] = "list" /\ sessions[have[c]] = "open"
    /\ listed' = [p \in Purposes |-> MatchTool(list, p, tool[p])]
    /\ mu' = None
    /\ Goto(c, "writeNames")
    /\ UNCHANGED <<session, tool, sessions, purpose, have, name>>

\* resolveTools: the answer to tools/list, to be written name by name.
Resolve(c, list) ==
    /\ pc[c] = "list" /\ sessions[have[c]] = "open"
    /\ listed' = [p \in Purposes |-> MatchTool(list, p, tool[p])]
    /\ Goto(c, "writeNames")
    /\ UNCHANGED <<mu, session, tool, sessions, purpose, have, name>>

\* No answer: the names stay as they are.
ResolveFails(c) ==
    /\ pc[c] = "list"
    /\ mu' = None
    /\ Goto(c, "readName")
    /\ UNCHANGED <<session, tool, listed, sessions, purpose, have, name>>

WriteNames(c) ==
    /\ pc[c] = "writeNames"
    /\ tool' = listed
    /\ mu' = None
    /\ Goto(c, "readName")
    /\ UNCHANGED <<session, listed, sessions, purpose, have, name>>

-----------------------------------------------------------------------------
(* The call *)

\* The name is read without the mutex: while another caller writes it, any
\* mixture of the two may be read.
NamesRead(p) == IF \E c \in Callers : pc[c] = "writeNames"
                THEN {tool[p], listed[p], Torn} ELSE {tool[p]}

ReadName(c) ==
    /\ pc[c] = "readName"
    /\ \E n \in NamesRead(purpose[c]) : name' = [name EXCEPT ![c] = n]
    /\ Goto(c, "call")
    /\ UNCHANGED <<shared, purpose, have>>

Forget(c) == /\ have' = [have EXCEPT ![c] = 0] /\ name' = [name EXCEPT ![c] = None]

\* Rows, SPL, or an error the tool reports itself.
CallReturns(c) ==
    /\ pc[c] = "call" /\ sessions[have[c]] = "open"
    /\ Forget(c)
    /\ Goto(c, "idle")
    /\ UNCHANGED <<shared, purpose>>

CallFails(c) ==
    /\ pc[c] = "call"
    /\ Goto(c, "drop")
    /\ UNCHANGED <<shared, purpose, have, name>>

\* Slip: whatever session is cached is dropped.
SlipDropSession(c) ==
    /\ pc[c] = "drop" /\ mu = None
    /\ session' = 0
    /\ sessions' = IF session # 0 THEN [sessions EXCEPT ![session] = "closed"] ELSE sessions
    /\ Forget(c)
    /\ Goto(c, "idle")
    /\ UNCHANGED <<mu, tool, listed, purpose>>

\* Slip: the cached session is forgotten but not closed.
SlipDropOpen(c) ==
    /\ pc[c] = "drop" /\ mu = None
    /\ session' = IF session = have[c] THEN 0 ELSE session
    /\ Forget(c)
    /\ Goto(c, "idle")
    /\ UNCHANGED <<mu, tool, listed, sessions, purpose>>

\* dropSession
DropSession(c) ==
    /\ pc[c] = "drop" /\ mu = None
    /\ IF session = have[c]
       THEN /\ session' = 0
            /\ sessions' = [sessions EXCEPT ![have[c]] = "closed"]
       ELSE UNCHANGED <<session, sessions>>
    /\ Forget(c)
    /\ Goto(c, "idle")
    /\ UNCHANGED <<mu, tool, listed, purpose>>

\* The connection is lost, or the server restarts.
Breaks(s) ==
    /\ sessions[s] = "open"
    /\ sessions' = [sessions EXCEPT ![s] = "broken"]
    /\ UNCHANGED <<mu, session, tool, listed, pc, purpose, have, name>>

-----------------------------------------------------------------------------
CallStep(c) == \/ Ensure(c) \/ Connect(c) \/ ConnectFails(c)
               \/ \E list \in Lists : Resolve(c, list)
               \/ ResolveFails(c) \/ WriteNames(c)
               \/ ReadName(c) \/ CallReturns(c) \/ CallFails(c) \/ DropSession(c)

Next == \/ \E c \in Callers : CallStep(c) \/ \E p \in Purposes : Begin(c, p)
        \/ \E s \in 1..Len(sessions) : Breaks(s)

Spec == Init /\ [][Next]_vars

\* Requests time out after 30 s; a waiter on a Go mutex is not passed over for
\* ever.
FairSpec == Spec /\ \A c \in Callers : SF_vars(CallStep(c))

-----------------------------------------------------------------------------
TypeOK == /\ mu \in Callers \cup {None}
          /\ session \in 0..Len(sessions)
          /\ tool \in [Purposes -> Names] /\ listed \in [Purposes -> Names]
          /\ sessions \in Seq({"open", "broken", "closed"})
          /\ pc \in [Callers -> {"idle", "ensure", "connect", "list", "writeNames",
                                 "readName", "call", "drop"}]
          /\ purpose \in [Callers -> Purposes]
          /\ have \in [Callers -> 0..Len(sessions)]
          /\ name \in [Callers -> Names \cup {Torn, None}]

\* No session is left open behind the cached one, however calls fail together.
NoSessionLeaks ==
    \A s \in 1..Len(sessions) : sessions[s] # "closed" => s = session

\* A session is closed only by a caller whose own call on it has failed: a late
\* failure on an old session does not take the new one down.
OnlyFailedAreDropped ==
    [][\A s \in 1..Len(sessions) : sessions[s] # "closed" /\ sessions'[s] = "closed"
          => \E c \in Callers : pc[c] = "drop" /\ have[c] = s]_vars

\* The names are read without the mutex, and yet a call that reaches the server
\* uses the names that session was opened with: a name that is torn, or another
\* session's, goes to a session that has been closed.
NamesFollowSession ==
    \A c \in Callers : pc[c] = "call" /\ sessions[have[c]] # "closed"
        => name[c] = tool[purpose[c]]

\* Every call returns, and the session it failed on is not kept.
CallsReturn ==
    /\ \A c \in Callers : (pc[c] # "idle") ~> (pc[c] = "idle")
    /\ \A s \in 1..MaxSessions :
          (\E c \in Callers : pc[c] = "drop" /\ have[c] = s) 
              ~> (s \in 1..Len(sessions) /\ sessions[s] = "closed")
=============================================================================
