-------------------------- MODULE McpSessionProofs --------------------------
(***************************************************************************)
(* McpSession for any number of callers, purposes, names and sessions: one *)
(* session at a time is open, it is closed only by a caller whose call on  *)
(* it failed, and a call that reaches the server uses the names of that    *)
(* session although they are read without the mutex.                       *)
(***************************************************************************)
EXTENDS McpSession, SequenceTheorems, FiniteSetTheorems, TLAPS

States == {"open", "broken", "closed"}
Busy   == {"connect", "list", "writeNames"}

\* ensureSession is in one caller at a time, and the mutex is its.
MutexInv == \A c \in Callers : pc[c] \in Busy <=> mu = c

\* A caller has a session from ensureSession to the end of its call.
HaveInv ==
    \A c \in Callers :
        /\ pc[c] \in {"idle", "ensure", "connect"} => have[c] = 0
        /\ pc[c] = "connect" => session = 0
        /\ pc[c] \in {"list", "writeNames"} =>
              /\ have[c] = session /\ session # 0
              /\ \A d \in Callers : d # c => have[d] # session
        /\ pc[c] \in {"readName", "call", "drop"} => have[c] # 0

\* The cached session alone is not closed.
CacheInv == /\ NoSessionLeaks
            /\ session # 0 => sessions[session] # "closed"

IInv == TypeOK /\ MutexInv /\ HaveInv /\ CacheInv /\ NamesFollowSession

-----------------------------------------------------------------------------
\* A session changes its state, and nothing else about the sessions does.
LEMMA OneChanges ==
    ASSUME NEW s \in Seq(States), NEW i \in 1..Len(s), NEW x \in States
    PROVE  /\ [s EXCEPT ![i] = x] \in Seq(States)
           /\ Len([s EXCEPT ![i] = x]) = Len(s)
           /\ \A j \in 1..Len(s) : [s EXCEPT ![i] = x][j] = IF j = i THEN x ELSE s[j]
  BY ExceptSeq

\* One more is opened.
LEMMA OneMore ==
    ASSUME NEW s \in Seq(States)
    PROVE  /\ Append(s, "open") \in Seq(States)
           /\ Len(Append(s, "open")) = Len(s) + 1 /\ Len(s) \in Nat
           /\ \A j \in 1..Len(s) : Append(s, "open")[j] = s[j]
           /\ Append(s, "open")[Len(s) + 1] = "open"
  BY DEF States

\* matchTool stops at the first hit, for there is one when there is any.
LEMMA FirstHit ==
    ASSUME NEW T \in SUBSET Nat, T # {}
    PROVE  \E i \in T : \A j \in T : i <= j
<1> DEFINE Up == {1..i : i \in T}
<1>1. \A i \in T : i \in Int /\ 1..i \subseteq Nat
  OBVIOUS
<1>2. \A i \in T : IsFiniteSet(1..i)
  BY <1>1, FS_Interval
<1>3. Up \subseteq FiniteSubsetsOf(Nat) /\ Up # {}
  BY <1>1, <1>2 DEF FiniteSubsetsOf
<1>4. \E x \in Up : \A y \in Up : ~(<<y, x>> \in StrictSubsetOrdering(Nat))
  BY <1>3, FS_StrictSubsetOrderingWellFounded, WFMin
<1>5. PICK i \in T : \A j \in T : ~(<<1..j, 1..i>> \in StrictSubsetOrdering(Nat))
  BY <1>4
<1>6. ASSUME NEW j \in T, j < i PROVE FALSE
  <2>1. 1..j \subseteq 1..i /\ i \in 1..i /\ i \notin 1..j /\ 1..i \subseteq Nat
    BY <1>6
  <2>2. <<1..j, 1..i>> \in StrictSubsetOrdering(Nat)
    BY <2>1 DEF StrictSubsetOrdering
  <2> QED BY <1>5, <2>2
<1> QED BY <1>6

\* matchTool gives a name the server offers, or the one to keep.
LEMMA MatchIsName ==
    ASSUME NEW list \in Seq(Names), NEW p \in Purposes, NEW keep \in Names
    PROVE  MatchTool(list, p, keep) \in Names
<1> DEFINE hits == {i \in 1..Len(list) : list[i] \in Aliased[p]}
<1>1. CASE hits = {}
  BY <1>1, McpAssumption DEF MatchTool
<1>2. CASE hits # {}
  <2>1. hits \in SUBSET Nat /\ hits # {}
    BY <1>2
  <2>2. \E i \in hits : \A j \in hits : i <= j
    BY <2>1, FirstHit
  <2>3. (CHOOSE i \in hits : \A j \in hits : i <= j) \in hits
    BY <2>2
  <2> QED BY <2>3, McpAssumption DEF MatchTool
<1> QED BY <1>1, <1>2

-----------------------------------------------------------------------------
(* The steps that change the sessions *)

\* Connect, before any other caller can have the new session.
LEMMA ConnectStep == ASSUME IInv, NEW c \in Callers, Connect(c) PROVE IInv'
<1> DEFINE n == Len(sessions)
<1>1. /\ n \in Nat /\ sessions' \in Seq(States) /\ Len(sessions') = n + 1
      /\ \A s \in 1..n : sessions'[s] = sessions[s]
      /\ sessions'[n + 1] = "open"
  BY OneMore DEF IInv, TypeOK, Connect, States
<1>2. pc[c] = "connect" /\ session = 0 /\ mu = c
  BY DEF IInv, Connect, HaveInv, MutexInv, Busy
<1>3. TypeOK'
  BY <1>1 DEF IInv, TypeOK, Connect, States, Goto
<1>4. MutexInv'
  BY <1>2 DEF IInv, TypeOK, MutexInv, Connect, Goto, Busy
<1>5. HaveInv'
  BY <1>1, <1>2 DEF IInv, TypeOK, HaveInv, MutexInv, Connect, Goto, Busy
<1>6. CacheInv'
  BY <1>1, <1>2 DEF IInv, CacheInv, NoSessionLeaks, Connect
<1>7. NamesFollowSession'
  <2>1. ASSUME NEW d \in Callers, pc'[d] = "call" PROVE d # c /\ have[d] \in 1..n
    BY <1>1, <1>2, <2>1 DEF IInv, TypeOK, HaveInv, Connect, Goto
  <2> QED BY <1>1, <2>1 DEF IInv, TypeOK, NamesFollowSession, Connect, Goto
<1> QED BY <1>3, <1>4, <1>5, <1>6, <1>7 DEF IInv

\* dropSession, of the cached session or of one that has been replaced.
LEMMA DropStep == ASSUME IInv, NEW c \in Callers, DropSession(c) PROVE IInv'
<1>1. have[c] \in 1..Len(sessions) /\ mu = None /\ pc[c] = "drop"
  BY DEF IInv, TypeOK, HaveInv, DropSession
<1>2. /\ sessions' \in Seq(States) /\ Len(sessions') = Len(sessions)
      /\ \A s \in 1..Len(sessions) :
            sessions'[s] = IF session = have[c] /\ s = have[c] THEN "closed" ELSE sessions[s]
  BY <1>1, OneChanges DEF IInv, TypeOK, DropSession, States
<1>3. /\ session' = IF session = have[c] THEN 0 ELSE session
      /\ pc' = [pc EXCEPT ![c] = "idle"] /\ have' = [have EXCEPT ![c] = 0]
      /\ name' = [name EXCEPT ![c] = None]
      /\ UNCHANGED <<mu, tool, listed, purpose>>
  BY DEF DropSession, Forget, Goto
<1>4. TypeOK'
  BY <1>2, <1>3 DEF IInv, TypeOK, States
<1>5. \A d \in Callers : pc[d] \notin Busy
  BY <1>1, McpAssumption DEF IInv, MutexInv
<1>6. MutexInv'
  BY <1>1, <1>3, <1>5 DEF IInv, TypeOK, MutexInv, Busy
<1>7. HaveInv'
  BY <1>3, <1>5 DEF IInv, TypeOK, HaveInv, Busy
<1>8. CacheInv'
  BY <1>1, <1>2, <1>3 DEF IInv, TypeOK, CacheInv, NoSessionLeaks
<1>9. NamesFollowSession'
  <2>1. ASSUME NEW d \in Callers, pc'[d] = "call", sessions'[have'[d]] # "closed"
        PROVE  name'[d] = tool'[purpose'[d]]
    <3>1. d # c /\ pc[d] = "call" /\ have'[d] = have[d] /\ name'[d] = name[d]
      BY <1>3, <2>1 DEF IInv, TypeOK
    <3>2. have[d] \in 1..Len(sessions)
      BY <3>1 DEF IInv, TypeOK, HaveInv
    <3>3. sessions[have[d]] # "closed"
      BY <1>2, <2>1, <3>1, <3>2
    <3> QED BY <1>3, <3>1, <3>3 DEF IInv, NamesFollowSession
  <2> QED BY <2>1 DEF NamesFollowSession
<1> QED BY <1>4, <1>6, <1>7, <1>8, <1>9 DEF IInv

\* A session breaks under whoever uses it.
LEMMA BreaksStep ==
    ASSUME IInv, NEW s \in 1..Len(sessions), Breaks(s) PROVE IInv'
<1>1. /\ sessions' \in Seq(States) /\ Len(sessions') = Len(sessions)
      /\ \A t \in 1..Len(sessions) :
            sessions'[t] = IF t = s THEN "broken" ELSE sessions[t]
      /\ sessions[s] = "open"
  BY OneChanges DEF IInv, TypeOK, Breaks, States
<1>2. UNCHANGED <<mu, session, tool, listed, pc, purpose, have, name>>
  BY DEF Breaks
<1>3. TypeOK'
  BY <1>1, <1>2 DEF IInv, TypeOK, States
<1>4. MutexInv' /\ HaveInv'
  BY <1>2 DEF IInv, MutexInv, HaveInv
<1>5. CacheInv'
  BY <1>1, <1>2 DEF IInv, TypeOK, CacheInv, NoSessionLeaks
<1>6. NamesFollowSession'
  <2>1. \A d \in Callers : pc[d] = "call" => have[d] \in 1..Len(sessions)
    BY DEF IInv, TypeOK, HaveInv
  <2> QED BY <1>1, <1>2, <2>1 DEF IInv, NamesFollowSession
<1> QED BY <1>3, <1>4, <1>5, <1>6 DEF IInv

-----------------------------------------------------------------------------
(* The other steps of a caller *)

Same == UNCHANGED <<session, sessions>>

\* ensureSession, with or without a session there.
LEMMA EnsureStep ==
    ASSUME IInv, NEW c \in Callers, Ensure(c) \/ ConnectFails(c) PROVE IInv'
<1> USE DEF Ensure, ConnectFails, Goto
<1>1. Same
  BY DEF Same
<1>2. TypeOK'
  BY <1>1 DEF IInv, TypeOK, Same
<1>3. MutexInv'
  BY McpAssumption DEF IInv, TypeOK, MutexInv, Busy
<1>4. HaveInv'
  BY McpAssumption DEF IInv, TypeOK, HaveInv, MutexInv, Busy
<1>5. CacheInv'
  BY <1>1 DEF IInv, CacheInv, NoSessionLeaks, Same
<1>6. NamesFollowSession'
  BY <1>1 DEF IInv, TypeOK, NamesFollowSession, Same
<1> QED BY <1>2, <1>3, <1>4, <1>5, <1>6 DEF IInv

\* resolveTools, and the write of the names, which no reader of this session sees.
LEMMA NamesStep ==
    ASSUME IInv, NEW c \in Callers,
           (\E list \in Lists : Resolve(c, list)) \/ ResolveFails(c) \/ WriteNames(c)
    PROVE  IInv'
<1>1. Same
  BY DEF Same, Resolve, ResolveFails, WriteNames
<1>2. listed' \in [Purposes -> Names]
  <2>1. ASSUME NEW list \in Lists, Resolve(c, list) PROVE listed' \in [Purposes -> Names]
    BY <2>1, MatchIsName, McpAssumption DEF IInv, TypeOK, Resolve
  <2> QED BY <2>1 DEF ResolveFails, WriteNames, IInv, TypeOK
<1>3. TypeOK'
  BY <1>1, <1>2 DEF IInv, TypeOK, Same, Resolve, ResolveFails, WriteNames, Goto
<1>4. pc[c] \in {"list", "writeNames"}
  BY DEF Resolve, ResolveFails, WriteNames
<1>5. MutexInv'
  BY <1>4, McpAssumption DEF IInv, TypeOK, MutexInv, Busy, Resolve, ResolveFails,
      WriteNames, Goto
<1>6. HaveInv'
  BY <1>1, <1>4 DEF IInv, TypeOK, HaveInv, Same, Resolve, ResolveFails, WriteNames, Goto
<1>7. CacheInv'
  BY <1>1 DEF IInv, CacheInv, NoSessionLeaks, Same
<1>8. NamesFollowSession'
  <2>1. ASSUME NEW d \in Callers, pc'[d] = "call" PROVE sessions'[have'[d]] = "closed"
    <3>1. d # c /\ pc[d] = "call" /\ have' = have
      BY <2>1, <1>4 DEF IInv, TypeOK, Resolve, ResolveFails, WriteNames, Goto
    <3>2. have[d] \in 1..Len(sessions) /\ have[d] # session
      BY <1>4, <3>1 DEF IInv, TypeOK, HaveInv
    <3> QED BY <1>1, <3>1, <3>2 DEF IInv, CacheInv, NoSessionLeaks, Same
  <2> QED BY <2>1 DEF NamesFollowSession
<1> QED BY <1>3, <1>5, <1>6, <1>7, <1>8 DEF IInv

\* The name is read, torn or whole.
LEMMA ReadStep == ASSUME IInv, NEW c \in Callers, ReadName(c) PROVE IInv'
<1>1. Same /\ UNCHANGED <<mu, tool, listed, purpose, have>>
  BY DEF Same, ReadName, shared
<1>2. NamesRead(purpose[c]) \subseteq Names \cup {Torn}
  BY DEF NamesRead, IInv, TypeOK
<1>3. PICK n \in NamesRead(purpose[c]) : name' = [name EXCEPT ![c] = n]
  BY DEF ReadName
<1>4. pc' = [pc EXCEPT ![c] = "call"] /\ pc[c] = "readName"
  BY DEF ReadName, Goto
<1>5. TypeOK'
  BY <1>1, <1>2, <1>3, <1>4 DEF IInv, TypeOK, Same
<1>6. MutexInv'
  BY <1>1, <1>4 DEF IInv, TypeOK, MutexInv, Busy
<1>7. HaveInv'
  BY <1>1, <1>4 DEF IInv, TypeOK, HaveInv, Same
<1>8. CacheInv'
  BY <1>1 DEF IInv, CacheInv, NoSessionLeaks, Same
<1>9. NamesFollowSession'
  <2>1. CASE \E d \in Callers : pc[d] = "writeNames"
    <3>1. PICK d \in Callers : pc[d] = "writeNames"
      BY <2>1
    <3>2. \A e \in Callers : pc'[e] = "call" => e # d
      BY <1>4, <3>1 DEF IInv, TypeOK
    <3>3. \A e \in Callers : pc'[e] = "call"
              => have[e] \in 1..Len(sessions) /\ have[e] # session
      BY <1>4, <3>1, <3>2 DEF IInv, TypeOK, HaveInv
    <3> QED BY <1>1, <3>3 DEF IInv, CacheInv, NoSessionLeaks, NamesFollowSession, Same
  <2>2. CASE ~\E d \in Callers : pc[d] = "writeNames"
    <3>1. n = tool[purpose[c]]
      BY <2>2, <1>3 DEF NamesRead
    <3> QED BY <1>1, <1>3, <1>4, <3>1 DEF IInv, TypeOK, NamesFollowSession, Same
  <2> QED BY <2>1, <2>2
<1> QED BY <1>5, <1>6, <1>7, <1>8, <1>9 DEF IInv

\* A call begins, returns or fails.
LEMMA CallStepInv ==
    ASSUME IInv, NEW c \in Callers,
           CallReturns(c) \/ CallFails(c) \/ \E p \in Purposes : Begin(c, p)
    PROVE  IInv'
<1> USE DEF CallReturns, CallFails, Begin, Goto, Forget, shared
<1>1. Same /\ UNCHANGED <<mu, tool, listed>>
  BY DEF Same
<1>2. TypeOK'
  <2>1. /\ pc' \in [Callers -> {"idle", "ensure", "connect", "list", "writeNames",
                              "readName", "call", "drop"}]
        /\ purpose' \in [Callers -> Purposes]
    BY DEF IInv, TypeOK
  <2>2. /\ have' \in [Callers -> 0..Len(sessions)]
        /\ name' \in [Callers -> Names \cup {Torn, None}]
    <3>1. 0 \in 0..Len(sessions)
      BY DEF IInv, TypeOK
    <3>2. have' = have \/ have' = [have EXCEPT ![c] = 0]
      OBVIOUS
    <3>3. name' = name \/ name' = [name EXCEPT ![c] = None]
      OBVIOUS
    <3>4. /\ have \in [Callers -> 0..Len(sessions)]
          /\ name \in [Callers -> Names \cup {Torn, None}]
      BY DEF IInv, TypeOK
    <3>5. have' \in [Callers -> 0..Len(sessions)]
      BY <3>1, <3>2, <3>4
    <3>6. name' \in [Callers -> Names \cup {Torn, None}]
      BY <3>3, <3>4
    <3> QED BY <3>5, <3>6
  <2> QED BY <1>1, <2>1, <2>2 DEF IInv, TypeOK, Same
<1>3. MutexInv'
  BY <1>1 DEF IInv, TypeOK, MutexInv, Busy
<1>4. HaveInv'
  BY <1>1 DEF IInv, TypeOK, HaveInv, Same
<1>5. CacheInv'
  BY <1>1 DEF IInv, CacheInv, NoSessionLeaks, Same
<1>6. NamesFollowSession'
  BY <1>1 DEF IInv, TypeOK, NamesFollowSession, Same
<1> QED BY <1>2, <1>3, <1>4, <1>5, <1>6 DEF IInv

-----------------------------------------------------------------------------
(* The theorems *)

\* No session, no caller at work.
LEMMA InvInit == ASSUME Init PROVE IInv
<1>1. TypeOK
  BY McpAssumption DEF Init, TypeOK
<1>2. MutexInv /\ HaveInv /\ CacheInv /\ NamesFollowSession
  BY McpAssumption DEF Init, MutexInv, HaveInv, CacheInv, NoSessionLeaks,
      NamesFollowSession, Busy
<1> QED BY <1>1, <1>2 DEF IInv

\* Mutex, sessions and names keep together.
LEMMA InvStep == ASSUME IInv, [Next]_vars PROVE IInv'
<1>1. CASE UNCHANGED vars
  BY <1>1 DEF vars, shared, IInv, TypeOK, MutexInv, HaveInv, CacheInv, NoSessionLeaks,
      NamesFollowSession
<1> QED BY <1>1, ConnectStep, DropStep, BreaksStep, EnsureStep, NamesStep, ReadStep, CallStepInv
        DEF Next, CallStep

\* The invariant of ensureSession, resolveTools and dropSession together.
THEOREM Invariant == Spec => []IInv
<1> QED BY InvInit, InvStep, PTL DEF Spec

\* The fields of MCPSearcher keep their types.
THEOREM TypeCorrect == Spec => []TypeOK
<1>1. IInv => TypeOK
  BY DEF IInv
<1> QED BY <1>1, Invariant, PTL

\* ensureSession and dropSession leave no session open but the cached one.
THEOREM NoLeaks == Spec => []NoSessionLeaks
<1>1. IInv => NoSessionLeaks
  BY DEF IInv, CacheInv
<1> QED BY <1>1, Invariant, PTL

\* A call that reaches the server uses the names of its session.
THEOREM NamesAreTheSessions == Spec => []NamesFollowSession
<1>1. IInv => NamesFollowSession
  BY DEF IInv
<1> QED BY <1>1, Invariant, PTL

\* dropSession closes only a session on which its caller's own call failed.
THEOREM FailedAreDropped == Spec => OnlyFailedAreDropped
<1> DEFINE P == \A s \in 1..Len(sessions) : sessions[s] # "closed" /\ sessions'[s] = "closed"
                    => \E c \in Callers : pc[c] = "drop" /\ have[c] = s
<1>1. IInv /\ [Next]_vars => [P]_vars
  <2> SUFFICES ASSUME IInv, [Next]_vars,
                      NEW s \in 1..Len(sessions), sessions[s] # "closed", sessions'[s] = "closed"
               PROVE  \E c \in Callers : pc[c] = "drop" /\ have[c] = s
    OBVIOUS
  <2>1. sessions \in Seq(States)
    BY DEF IInv, TypeOK, States
  <2>2. CASE UNCHANGED sessions
    BY <2>2
  <2>3. ASSUME NEW c \in Callers, Connect(c) PROVE FALSE
    BY <2>1, <2>3, OneMore DEF Connect
  <2>4. ASSUME NEW t \in 1..Len(sessions), Breaks(t) PROVE FALSE
    BY <2>1, <2>4, OneChanges DEF Breaks, States
  <2>5. ASSUME NEW c \in Callers, DropSession(c), sessions' # sessions
        PROVE  pc[c] = "drop" /\ have[c] = s
    <3>1. have[c] \in 1..Len(sessions) /\ sessions' = [sessions EXCEPT ![have[c]] = "closed"]
      BY <2>5 DEF IInv, TypeOK, HaveInv, DropSession
    <3> QED BY <2>1, <2>5, <3>1, OneChanges DEF DropSession, States
  <2> QED BY <2>2, <2>3, <2>4, <2>5 DEF Next, CallStep, vars, shared, Ensure, ConnectFails,
             Resolve, ResolveFails, WriteNames, ReadName, CallReturns, CallFails, Begin
<1> QED BY <1>1, Invariant, PTL DEF Spec, OnlyFailedAreDropped
=============================================================================
