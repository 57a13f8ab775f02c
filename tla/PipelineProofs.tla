--------------------------- MODULE PipelineProofs ---------------------------
(***************************************************************************)
(* What consumeSignals promises the analyst, proved for any incidents,     *)
(* numbers of events and steps, and size of the signals channel: reports   *)
(* follow the chain they are about, and bursts are coalesced.              *)
(***************************************************************************)
EXTENDS Pipeline, SequenceTheorems, TLAPS

Kinds    == {"chain", "activity", "narration", "threat_intel"}
Messages == [kind : Kinds, inc : Incidents, level : Levels, answers : Levels]
Signals  == [inc : Incidents, level : Levels]

\* What the agents count and what was sent, and no incident has more events
\* than were ingested.
SentOK == /\ steps \in [Agents -> Nat]
          /\ sent \in Seq(Messages)
          /\ \A i \in Incidents : level[i] <= events

-----------------------------------------------------------------------------
(* Reports *)

\* The last chain of its incident among the first n messages is c, at j.
LatestAt(j, c, n) ==
    /\ j \in 1..n /\ sent[j] = Report("chain", c)
    /\ \A m \in (j + 1)..n : sent[m].kind = "chain" => sent[m].inc # c.inc

Latest(c) == \E j \in 1..Len(sent) : LatestAt(j, c, Len(sent))

\* handleSignal has the latest chain of its incident in hand, and the agents
\* work on no other (wg.Wait).
HandInv ==
    /\ cpc \in {"hec", "agents"} => chain \in Chains /\ Latest(chain)
    /\ \A a \in Agents : job[a] # None => cpc = "agents" /\ job[a] = chain

-----------------------------------------------------------------------------
(* Bursts *)

\* A level of incident i that every signal still to be handled is above: the
\* one about to be offered, and those in the channel.
Passed(i, l) ==
    /\ l <= level[i]
    /\ ipc = "score" /\ scoring = i => l < level[i]
    /\ \A k \in 1..Len(signals) : signals[k].inc = i => l < signals[k].level

\* The channel holds each incident's signals in the order of their levels.
SignalInv ==
    /\ \A k \in 1..Len(signals) :
          /\ signals[k].level <= level[signals[k].inc]
          /\ ipc = "score" /\ scoring = signals[k].inc
                => signals[k].level < level[signals[k].inc]
    /\ \A j, k \in 1..Len(signals) :
          j < k /\ signals[j].inc = signals[k].inc => signals[j].level < signals[k].level

\* The incidents a flush has still to handle are pending, and each pending
\* signal came before those in the channel.
PendingInv ==
    /\ cpc \in {"select", "returned"} => todo = {}
    /\ \A i \in Incidents, l \in Levels : pending[i] = l => Passed(i, l)

\* i's pending signal has still to be answered.
Due(i) == i \in todo \/ (cpc = "select" /\ pending[i] # 0)

\* A chain of i that answers its signal at level l was sent.
Answered(i, l) == \E k \in 1..Len(sent) : /\ sent[k].kind = "chain"
                                         /\ sent[k].inc = i /\ sent[k].answers = l

\* Every chain sent answers a signal before those still to be answered.
AnswerInv == \A i \in Incidents, l \in Levels : Answered(i, l) =>
                 Passed(i, l) /\ (Due(i) => l < pending[i])

IInv == /\ TypeOK /\ SentOK
        /\ HandInv /\ ReportsFollowTheirChain
        /\ SignalInv /\ PendingInv /\ AnswerInv /\ BurstsCoalesce

-----------------------------------------------------------------------------
(* Types *)

\* The initial state is of the right type.
LEMMA InitTypes == Init => TypeOK /\ SentOK
<1> SUFFICES ASSUME Init PROVE TypeOK /\ SentOK
  OBVIOUS
<1>1. 0 \in Levels
  BY PipelineAssumption DEF Levels
<1>2. signals \in Seq([inc : Incidents, level : Levels]) /\ Len(signals) <= SignalBuffer
  BY PipelineAssumption DEF Init
<1>3. SentOK
  BY DEF Init, SentOK
<1> QED BY <1>1, <1>2, <1>3 DEF Init, TypeOK

\* An event in hand raises the level of its incident.
LEMMA MaterializeTypes ==
    ASSUME TypeOK, SentOK, NEW i \in Incidents, Materialize(i)
    PROVE  TypeOK' /\ SentOK'
<1>1. events' = events + 1 /\ events < MaxEvents /\ events \in Nat /\ level[i] \in Nat /\ level[i] <= events
  BY PipelineAssumption DEF TypeOK, SentOK, Materialize, Levels
<1>2. events' \in Levels /\ level[i] + 1 \in Levels /\ level[i] + 1 <= events'
  BY <1>1, PipelineAssumption DEF Levels
<1>3. level' = [level EXCEPT ![i] = level[i] + 1] /\ level \in [Incidents -> Levels]
  BY DEF Materialize, TypeOK
<1>4. level' \in [Incidents -> Levels]
  BY <1>2, <1>3
<1>5. \A k \in Incidents : level[k] \in Nat /\ level[k] <= events
  BY DEF SentOK, TypeOK, Levels
<1>6. \A k \in Incidents : level'[k] <= events'
  BY <1>1, <1>2, <1>3, <1>5
<1>7. scoring' = i /\ ipc' = "score" /\ UNCHANGED <<ctx, source, drained, idle, signals, consumer>>
  BY DEF Materialize
<1>8. SentOK'
  BY <1>6, <1>7 DEF SentOK, consumer
<1>9. TypeOK'
  BY <1>2, <1>4, <1>7 DEF TypeOK, consumer
<1> QED BY <1>8, <1>9

\* So does the goroutine that scores it ...
LEMMA ScoreTypes ==
    ASSUME TypeOK, SentOK, Score
    PROVE  TypeOK' /\ SentOK'
<1> DEFINE s == [inc |-> scoring, level |-> level[scoring]]
<1>2. s \in [inc : Incidents, level : Levels]
  BY DEF TypeOK, Score
<1>3. signals' = signals \/ (signals' = Append(signals, s) /\ Len(signals) < SignalBuffer)
  BY DEF Score
<1> HIDE DEF s
<1>4. signals' \in Seq([inc : Incidents, level : Levels]) /\ Len(signals') <= SignalBuffer
  <2>1. /\ signals \in Seq(Signals) /\ s \in Signals
        /\ Len(signals) <= SignalBuffer /\ Len(signals) \in Nat /\ SignalBuffer \in Nat
    BY <1>2, PipelineAssumption DEF TypeOK, Signals
  <2>2. Append(signals, s) \in Seq(Signals) /\ Len(Append(signals, s)) = Len(signals) + 1
    BY <2>1, AppendProperties
  <2>3. signals' \in Seq(Signals) /\ Len(signals') <= SignalBuffer
    BY <1>3, <2>1, <2>2
  <2> QED BY <2>3 DEF Signals
<1>5. /\ UNCHANGED <<ctx, source, drained, events, level, consumer>>
      /\ idle' \in {"off", "armed"} /\ ipc' = "select" /\ scoring' = None
  BY DEF Score
<1>6. SentOK'
  BY <1>5 DEF SentOK, consumer
<1>7. TypeOK'
  BY <1>4, <1>5 DEF TypeOK, consumer
<1> QED BY <1>6, <1>7

\* ... and ends.
LEMMA IngestTypes ==
    ASSUME TypeOK, SentOK, SeeClosed \/ IngestCanceled \/ IdleOut
    PROVE  TypeOK' /\ SentOK'
BY DEF TypeOK, SentOK, consumer, SeeClosed, IngestCanceled, IdleOut

\* What is sent about a chain carries what the chain carries.
LEMMA ReportTyped ==
    ASSUME NEW k \in Kinds, NEW c \in Chains
    PROVE  /\ Report(k, c) \in Messages
           /\ Report(k, c).kind = k /\ Report(k, c).inc = c.inc
           /\ Report(k, c).answers = c.answers
BY DEF Report, Kinds, Messages, Chains

\* The chain a message is about.
LEMMA ReportOfChain ==
    ASSUME NEW k \in Kinds, NEW c \in Chains, NEW m \in Messages, m = Report(k, c)
    PROVE  Report("chain", c) = [m EXCEPT !.kind = "chain"]
BY DEF Report, Kinds, Messages, Chains

\* One message more is sent.
LEMMA SentGrows ==
    ASSUME SentOK, NEW m \in Messages, sent' = Append(sent, m)
    PROVE  /\ sent' \in Seq(Messages) /\ Len(sent) \in Nat
           /\ Len(sent') = Len(sent) + 1 /\ sent'[Len(sent) + 1] = m
           /\ \A k \in 1..Len(sent) : sent'[k] = sent[k] /\ sent[k] \in Messages
<1>1. sent \in Seq(Messages)
  BY DEF SentOK
<1> QED BY <1>1

\* The chain handleSignal extracts is one, ...
LEMMA ExtractTypes ==
    ASSUME TypeOK, SentOK, NEW i \in Incidents, NEW found \in BOOLEAN, Extract(i, found)
    PROVE  TypeOK' /\ SentOK'
<1> DEFINE c == [inc |-> i, level |-> level[i], answers |-> pending[i]]
<1>1. c \in Chains
  BY DEF Chains, TypeOK
<1>2. \/ chain' = c /\ sent' = Append(sent, Report("chain", c)) /\ cpc' = "hec"
      \/ UNCHANGED <<chain, sent, cpc>>
  BY DEF Extract
<1>3. /\ todo' = todo \ {i} /\ handled' = [handled EXCEPT ![i] = level[i]]
      /\ UNCHANGED <<ctx, ingest, signals, timer, pending, job, steps>>
  BY DEF Extract
<1> HIDE DEF c
<1>4. sent' \in Seq(Messages)
  BY <1>1, <1>2, ReportTyped, SentGrows DEF SentOK, Kinds
<1>5. chain' \in Chains \cup {None} /\ cpc' \in {"select", "flush", "hec", "agents", "returned"}
  BY <1>1, <1>2 DEF TypeOK
<1>6. handled' \in [Incidents -> Levels] /\ todo' \subseteq Incidents
  BY <1>3 DEF TypeOK
<1>7. SentOK'
  BY <1>3, <1>4 DEF SentOK, ingest
<1>8. TypeOK'
  BY <1>3, <1>5, <1>6 DEF TypeOK, ingest
<1> QED BY <1>7, <1>8

\* ... and so is what the consumer takes, hands over and puts away.
LEMMA ConsumerTypes ==
    ASSUME TypeOK, SentOK, HandInv,
           TakeSignal \/ StartFlush \/ ConsumerCanceled \/ SendHEC \/ AgentsDone \/ FlushDone
    PROVE  TypeOK' /\ SentOK'
<1> USE DEF ingest
<1>1. CASE TakeSignal
  <2>1. /\ Len(signals) \in Nat /\ signals # <<>>
        /\ signals \in Seq([inc : Incidents, level : Levels])
    BY <1>1 DEF TakeSignal, TypeOK
  <2>2. Head(signals) \in [inc : Incidents, level : Levels]
    BY <2>1, HeadTailProperties
  <2>3. Tail(signals) \in Seq([inc : Incidents, level : Levels]) /\ Len(Tail(signals)) = Len(signals) - 1
    BY <2>1
  <2>4. pending' \in [Incidents -> Levels]
    BY <1>1, <2>2 DEF TakeSignal, TypeOK
  <2>5. Len(signals') <= SignalBuffer
    BY <1>1, <2>1, <2>3, PipelineAssumption DEF TakeSignal, TypeOK
  <2>6. /\ signals' = Tail(signals) /\ timer' = "armed"
        /\ UNCHANGED <<ctx, ingest, cpc, todo, chain, job, steps, handled, sent>>
    BY <1>1 DEF TakeSignal
  <2>7. SentOK'
    BY <2>6 DEF SentOK
  <2>8. TypeOK'
    BY <2>3, <2>4, <2>5, <2>6 DEF TypeOK
  <2> QED BY <2>7, <2>8
<1>2. CASE StartFlush
  BY <1>2 DEF StartFlush, TypeOK, SentOK
<1>3. CASE ConsumerCanceled
  <2>1. pending' \in [Incidents -> Levels]
    BY <1>3, PipelineAssumption DEF ConsumerCanceled, Levels
  <2> QED BY <1>3, <2>1 DEF ConsumerCanceled, TypeOK, SentOK
<1>4. CASE SendHEC
  <2>1. job' \in [Agents -> Chains \cup {None}] /\ cpc' = "agents"
    BY <1>4 DEF SendHEC, TypeOK
  <2>2. UNCHANGED <<ctx, ingest, signals, timer, pending, todo, chain, steps, handled, sent>>
    BY <1>4 DEF SendHEC
  <2> QED BY <2>1, <2>2 DEF TypeOK, SentOK
<1>5. CASE AgentsDone
  BY <1>5 DEF AgentsDone, TypeOK, SentOK
<1>6. CASE FlushDone
  <2>1. pending' \in [Incidents -> Levels]
    BY <1>6, PipelineAssumption DEF FlushDone, Levels
  <2> QED BY <1>6, <2>1 DEF FlushDone, TypeOK, SentOK
<1> QED BY <1>1, <1>2, <1>3, <1>4, <1>5, <1>6

\* An agent only reports and ends.
LEMMA AgentActs ==
    ASSUME TypeOK, NEW a \in Agents, AgentStep(a)
    PROVE  /\ job[a] # None /\ job[a] \in Chains
           /\ job' = job \/ job' = [job EXCEPT ![a] = None]
           /\ \/ steps' = [steps EXCEPT ![a] = 0]
              \/ steps' = [steps EXCEPT ![a] = steps[a] + 1]
           /\ \/ sent' = sent
              \/ \E k \in Kinds \ {"chain"} : sent' = Append(sent, Report(k, job[a]))
           /\ UNCHANGED <<ctx, ingest, signals, cpc, timer, pending, todo, chain, handled>>
<1>1. CASE Emit(a)
  BY <1>1 DEF Emit, Kinds, TypeOK
<1>2. ASSUME a = "narrator", NEW ok \in BOOLEAN, Narrated(ok)
      PROVE  /\ job[a] # None /\ job' = [job EXCEPT ![a] = None] /\ steps' = [steps EXCEPT ![a] = 0]
             /\ \/ sent' = sent
                \/ sent' = Append(sent, Report("narration", job[a]))
             /\ UNCHANGED <<ctx, ingest, signals, cpc, timer, pending, todo, chain, handled>>
  BY <1>2 DEF Narrated
<1>3. CASE a = "intel" /\ Enriched
  BY <1>3 DEF Enriched, Kinds, TypeOK
<1>4. a = "narrator" /\ (\E ok \in BOOLEAN : Narrated(ok)) =>
          /\ job[a] # None /\ job' = [job EXCEPT ![a] = None] /\ steps' = [steps EXCEPT ![a] = 0]
          /\ \/ sent' = sent
             \/ sent' = Append(sent, Report("narration", job[a]))
          /\ UNCHANGED <<ctx, ingest, signals, cpc, timer, pending, todo, chain, handled>>
  BY <1>2
<1>5. job[a] \in Chains \cup {None} /\ "narration" \in Kinds \ {"chain"}
  BY DEF TypeOK, Kinds
<1>6. CASE a = "narrator" /\ (\E ok \in BOOLEAN : Narrated(ok))
  BY <1>4, <1>5, <1>6
<1> QED BY <1>1, <1>3, <1>6 DEF AgentStep

\* What the agents report is typed.
LEMMA AgentTypes ==
    ASSUME TypeOK, SentOK, NEW a \in Agents, AgentStep(a)
    PROVE  TypeOK' /\ SentOK'
<1>1. job' \in [Agents -> Chains \cup {None}]
  <2>1. job \in [Agents -> Chains \cup {None}]
    BY DEF TypeOK
  <2> QED BY <2>1, AgentActs
<1>2. steps' \in [Agents -> Nat]
  <2>1. steps \in [Agents -> Nat] /\ steps[a] + 1 \in Nat /\ 0 \in Nat
    BY DEF SentOK
  <2> QED BY <2>1, AgentActs
<1>3. sent' \in Seq(Messages)
  <2>1. CASE sent' = sent
    BY <2>1 DEF SentOK
  <2>2. ASSUME NEW k \in Kinds, sent' = Append(sent, Report(k, job[a]))
        PROVE  sent' \in Seq(Messages)
    BY <2>2, AgentActs, ReportTyped, SentGrows
  <2> QED BY <2>1, <2>2, AgentActs
<1>4. UNCHANGED <<ctx, ingest, signals, cpc, timer, pending, todo, chain, handled>>
  BY AgentActs
<1>5. SentOK'
  BY <1>2, <1>3, <1>4 DEF SentOK, ingest
<1>6. TypeOK'
  BY <1>1, <1>4 DEF TypeOK, ingest
<1> QED BY <1>5, <1>6

\* The environment keeps types.
LEMMA WorldTypes ==
    ASSUME TypeOK, SentOK, SourceCloses \/ Interrupt \/ TimerFires \/ IdleFires \/ TakeOther
    PROVE  TypeOK' /\ SentOK'
BY DEF TypeOK, SentOK, SourceCloses, Interrupt, TimerFires, IdleFires, TakeOther, ingest, consumer

-----------------------------------------------------------------------------
(* Reports follow their chain *)

\* What handleSignal says keeps what was said before in place.
LEMMA LatestKept ==
    ASSUME SentOK, NEW c \in Chains, NEW m \in Messages, sent' = Append(sent, m),
           Latest(c), m.kind = "chain" => m.inc # c.inc
    PROVE  Latest(c)'
<1>1. PICK j \in 1..Len(sent) : LatestAt(j, c, Len(sent))
  BY DEF Latest
<1>2. LatestAt(j, c, Len(sent))'
  BY <1>1, SentGrows DEF LatestAt, Report
<1>3. j \in 1..Len(sent')
  BY SentGrows
<1> QED BY <1>2, <1>3 DEF Latest

\* A chain is the latest of its incident once it is sent.
LEMMA LatestSent ==
    ASSUME SentOK, NEW c \in Chains, sent' = Append(sent, Report("chain", c))
    PROVE  Latest(c)'
<1>1. Report("chain", c) \in Messages
  BY ReportTyped DEF Kinds
<1>2. /\ Len(sent') = Len(sent) + 1 /\ Len(sent) \in Nat
      /\ sent'[Len(sent) + 1] = Report("chain", c)
  BY <1>1, SentGrows
<1>3. PICK n \in Nat : n = Len(sent')
  BY <1>2
<1>4. LatestAt(n, c, Len(sent))'
  BY <1>2, <1>3 DEF LatestAt
<1>5. n \in 1..Len(sent')
  BY <1>2, <1>3
<1> QED BY <1>4, <1>5 DEF Latest

\* A message about the latest chain follows that chain.
LEMMA FollowsKept ==
    ASSUME SentOK, ReportsFollowTheirChain, NEW c \in Chains, NEW k \in Kinds,
           sent' = Append(sent, Report(k, c)),
           k # "chain" => Latest(c)
    PROVE  ReportsFollowTheirChain'
<1> DEFINE m == Report(k, c)
           Follows(s, n, j) == /\ s[j] = [s[n] EXCEPT !.kind = "chain"]
                               /\ \A i \in (j + 1)..n :
                                     s[i].kind = "chain" => s[i].inc # s[n].inc
<1>1. m \in Messages /\ m.kind = k /\ m.inc = c.inc /\ Report("chain", c) = [m EXCEPT !.kind = "chain"]
  BY ReportTyped, ReportOfChain
<1> HIDE DEF m
<1>2. sent' = Append(sent, m)
  BY DEF m
<1> SUFFICES ASSUME NEW n \in 1..Len(sent'), sent'[n].kind # "chain"
             PROVE  \E j \in 1..(n - 1) : Follows(sent', n, j)
  BY DEF ReportsFollowTheirChain
<1>3. CASE n \in 1..Len(sent)
  <2>1. sent[n] = sent'[n] /\ n \in Nat
    BY <1>1, <1>2, <1>3, SentGrows
  <2>2. PICK j \in 1..(n - 1) : Follows(sent, n, j)
    BY <1>3, <2>1 DEF ReportsFollowTheirChain
  <2>3. \A i \in 1..n : sent'[i] = sent[i]
    BY <1>1, <1>2, <1>3, SentGrows
  <2>4. Follows(sent', n, j)
    BY <2>1, <2>2, <2>3
  <2> QED BY <2>4
<1>4. CASE n = Len(sent) + 1
  <2>1. sent'[n] = m /\ k # "chain"
    BY <1>1, <1>2, <1>4, SentGrows
  <2>2. PICK j \in 1..Len(sent) : LatestAt(j, c, Len(sent))
    BY <2>1 DEF Latest
  <2>3. j \in 1..(n - 1)
    BY <1>4, SentGrows, <1>1, <1>2
  <2>4. \A i \in 1..Len(sent) : sent'[i] = sent[i]
    BY <1>1, <1>2, SentGrows
  <2>5. Follows(sent', n, j)
    BY <1>1, <1>4, <2>1, <2>2, <2>3, <2>4 DEF LatestAt
  <2> QED BY <2>3, <2>5
<1> HIDE DEF Follows
<1>5. n \in 1..Len(sent) \/ n = Len(sent) + 1
  BY <1>1, <1>2, SentGrows
<1> QED BY <1>3, <1>4, <1>5

\* A step that sends nothing and leaves the agents alone disturbs no report.
LEMMA ReportsQuiet ==
    ASSUME HandInv, ReportsFollowTheirChain, UNCHANGED <<sent, chain, job>>,
           cpc' = cpc \/ (cpc' \notin {"hec", "agents"} /\ \A a \in Agents : job[a] = None)
    PROVE  HandInv' /\ ReportsFollowTheirChain'
<1>1. ReportsFollowTheirChain'
  BY DEF ReportsFollowTheirChain
<1>2. \A c : Latest(c)' = Latest(c)
  BY DEF Latest, LatestAt
<1>3. HandInv'
  BY <1>2 DEF HandInv
<1> QED BY <1>1, <1>3

\* What is sent about a chain is sent while that chain is in hand.
LEMMA ReportsStep ==
    ASSUME TypeOK, SentOK, HandInv, ReportsFollowTheirChain, Next
    PROVE  HandInv' /\ ReportsFollowTheirChain'
<1>1. CASE \/ \E i \in Incidents : Materialize(i)
           \/ IngestStep \/ SourceCloses \/ Interrupt \/ TimerFires \/ IdleFires \/ TakeOther
  <2>1. UNCHANGED <<cpc, sent, chain, job>>
    BY <1>1 DEF Materialize, IngestStep, Score, SeeClosed, IngestCanceled, IdleOut,
                SourceCloses, Interrupt, TimerFires, IdleFires, TakeOther, consumer
  <2> QED BY <2>1, ReportsQuiet
<1>2. CASE TakeSignal \/ StartFlush \/ ConsumerCanceled \/ AgentsDone \/ FlushDone
  <2>1. UNCHANGED <<sent, job>> /\ cpc' \notin {"hec", "agents"}
        /\ \A a \in Agents : job[a] = None
    BY <1>2 DEF TakeSignal, StartFlush, ConsumerCanceled, AgentsDone, FlushDone, HandInv
  <2>2. ReportsFollowTheirChain'
    BY <2>1 DEF ReportsFollowTheirChain
  <2>3. HandInv'
    BY <2>1 DEF HandInv
  <2> QED BY <2>2, <2>3
<1>3. ASSUME NEW i \in Incidents, NEW found \in BOOLEAN, Extract(i, found)
      PROVE  HandInv' /\ ReportsFollowTheirChain'
  <2>1. PICK c \in Chains : c = [inc |-> i, level |-> level[i], answers |-> pending[i]]
    BY DEF Chains, TypeOK
  <2>2. cpc = "flush" /\ job' = job
    BY <1>3 DEF Extract
  <2>3. CASE found
    <3>1. chain' = c /\ cpc' = "hec" /\ sent' = Append(sent, Report("chain", c))
      BY <1>3, <2>1, <2>3 DEF Extract
    <3>2. Latest(c)'
      BY <3>1, LatestSent
    <3>3. ReportsFollowTheirChain'
      BY <3>1, FollowsKept DEF Kinds
    <3> QED BY <2>2, <3>1, <3>2, <3>3 DEF HandInv
  <2>4. CASE ~found
    BY <1>3, <2>4, ReportsQuiet DEF Extract
  <2> QED BY <2>3, <2>4
<1>4. CASE SendHEC
  <2>1. /\ cpc = "hec" /\ cpc' = "agents" /\ UNCHANGED <<sent, chain>>
        /\ \A a \in Agents : job'[a] # None => job'[a] = chain
    BY <1>4 DEF SendHEC, Agents
  <2>2. ReportsFollowTheirChain'
    BY <2>1 DEF ReportsFollowTheirChain
  <2>3. chain \in Chains /\ Latest(chain)
    BY <2>1 DEF HandInv
  <2>4. chain' \in Chains /\ Latest(chain)'
    BY <2>1, <2>3 DEF Latest, LatestAt
  <2> QED BY <2>1, <2>2, <2>4 DEF HandInv
<1>5. ASSUME NEW a \in Agents, AgentStep(a)
      PROVE  HandInv' /\ ReportsFollowTheirChain'
  <2>1. /\ job[a] # None /\ cpc' = cpc /\ chain' = chain
        /\ job' = job \/ job' = [job EXCEPT ![a] = None]
    BY <1>5, AgentActs
  <2>2. cpc = "agents" /\ job[a] = chain
    BY <2>1 DEF HandInv
  <2>3. PICK c \in Chains : c = chain
    BY <2>2 DEF HandInv
  <2>4. Latest(c)
    BY <2>2, <2>3 DEF HandInv
  <2>5. \A b \in Agents : job'[b] # None => job'[b] = job[b]
    BY <2>1 DEF TypeOK
  <2>6. ASSUME NEW k \in Kinds \ {"chain"}, sent' = Append(sent, Report(k, c))
        PROVE  Latest(c)' /\ ReportsFollowTheirChain'
    <3>1. ReportsFollowTheirChain'
      BY <2>4, <2>6, FollowsKept
    <3>2. PICK m \in Messages : m = Report(k, c)
      BY ReportTyped
    <3>3. m.kind # "chain" /\ sent' = Append(sent, m)
      BY <2>6, <3>2, ReportTyped
    <3>4. Latest(c)'
      BY <2>4, <3>3, LatestKept
    <3> QED BY <3>1, <3>4
  <2>7. ASSUME sent' = sent
        PROVE  Latest(c)' /\ ReportsFollowTheirChain'
    <3>1. ReportsFollowTheirChain'
      BY <2>7 DEF ReportsFollowTheirChain
    <3>2. Latest(c)'
      BY <2>4, <2>7 DEF Latest, LatestAt
    <3> QED BY <3>1, <3>2
  <2>8. Latest(c)' /\ ReportsFollowTheirChain'
    <3>1. sent' = sent \/ \E k \in Kinds \ {"chain"} : sent' = Append(sent, Report(k, c))
      BY <1>5, <2>2, <2>3, AgentActs
    <3> QED BY <2>6, <2>7, <3>1
  <2>9. HandInv'
    BY <2>1, <2>2, <2>3, <2>5, <2>8 DEF HandInv
  <2> QED BY <2>8, <2>9
<1> QED BY <1>1, <1>2, <1>3, <1>4, <1>5 DEF Next, ConsumerStep

-----------------------------------------------------------------------------
(* Bursts are coalesced *)

\* What an ingest step has to keep for the consumer.
PassedKept == \A i \in Incidents, l \in Levels : Passed(i, l) => Passed(i, l)'

\* Signals still in the channel are typed.
LEMMA SignalTyped ==
    ASSUME TypeOK
    PROVE  /\ signals \in Seq(Signals) /\ Len(signals) \in Nat
           /\ \A k \in 1..Len(signals) :
                 signals[k].inc \in Incidents /\ signals[k].level \in Nat
           /\ \A i \in Incidents : level[i] \in Nat /\ pending[i] \in Levels
           /\ ipc = "score" => scoring \in Incidents
<1>1. signals \in Seq(Signals)
  BY DEF TypeOK, Signals
<1>2. \A k \in 1..Len(signals) : signals[k] \in Signals
  BY <1>1
<1>3. Len(signals) \in Nat
  BY <1>1
<1>4. \A k \in 1..Len(signals) : signals[k].inc \in Incidents /\ signals[k].level \in Nat
  BY <1>2 DEF Signals, Levels
<1>5. \A i \in Incidents : level[i] \in Nat /\ pending[i] \in Levels
  BY DEF TypeOK, Levels
<1>6. ipc = "score" => scoring \in Incidents
  BY DEF TypeOK
<1> QED BY <1>1, <1>3, <1>4, <1>5, <1>6

\* An event is newer than everything its incident has been signalled for.
LEMMA MaterializeKeeps ==
    ASSUME TypeOK, SignalInv, NEW i \in Incidents, Materialize(i)
    PROVE  SignalInv' /\ PassedKept
<1>1. /\ ipc = "select" /\ ipc' = "score" /\ scoring' = i /\ signals' = signals
      /\ level' = [level EXCEPT ![i] = level[i] + 1] /\ level \in [Incidents -> Levels]
  BY DEF Materialize, TypeOK
<1>2. \A k \in Incidents : /\ level[k] \in Nat /\ level'[k] \in Nat /\ level[k] <= level'[k]
                          /\ k = i => level[k] < level'[k]
  BY <1>1 DEF Levels
<1>3. SignalInv'
  BY <1>1, <1>2, SignalTyped DEF SignalInv
<1>4. PassedKept
  BY <1>1, <1>2, SignalTyped DEF PassedKept, Passed, Levels
<1> QED BY <1>3, <1>4

\* The signal offered is newer than those in the channel.
LEMMA ScoreKeeps ==
    ASSUME TypeOK, SignalInv, Score
    PROVE  SignalInv' /\ PassedKept
<1>1. /\ ipc = "score" /\ ipc' = "select" /\ level' = level
      /\ \/ signals' = signals
         \/ signals' = Append(signals, [inc |-> scoring, level |-> level[scoring]])
  BY DEF Score
<1>2. CASE signals' = signals
  BY <1>1, <1>2 DEF SignalInv, PassedKept, Passed
<1>3. CASE signals' = Append(signals, [inc |-> scoring, level |-> level[scoring]])
  <2>1. PICK s \in Signals : s = [inc |-> scoring, level |-> level[scoring]]
    BY <1>1 DEF TypeOK, Signals
  <2>2. s.inc = scoring /\ s.level = level[scoring]
    BY <2>1
  <2>3. /\ Len(signals') = Len(signals) + 1 /\ signals'[Len(signals) + 1] = s
        /\ \A k \in 1..Len(signals) : signals'[k] = signals[k]
    BY <1>3, <2>1, SignalTyped, AppendProperties
  <2>4. \A k \in 1..Len(signals') : k \in 1..Len(signals) \/ k = Len(signals) + 1
    BY <2>3, SignalTyped
  <2>5. \A k \in 1..Len(signals) : /\ signals[k].inc \in Incidents /\ signals[k].level \in Nat
                                   /\ signals[k].level <= level[signals[k].inc]
                                   /\ signals[k].inc = scoring => signals[k].level < level[scoring]
    BY <1>1, SignalTyped DEF SignalInv
  <2>6. \A k \in 1..Len(signals') : signals'[k].level <= level[signals'[k].inc]
    BY <1>1, <2>2, <2>3, <2>4, <2>5, SignalTyped
  <2>7. ASSUME NEW j \in 1..Len(signals'), NEW k \in 1..Len(signals'),
               j < k, signals'[j].inc = signals'[k].inc
        PROVE  signals'[j].level < signals'[k].level
    <3>1. j \in 1..Len(signals)
      BY <2>3, <2>7, SignalTyped
    <3>2. CASE k \in 1..Len(signals)
      BY <2>3, <2>7, <3>1, <3>2 DEF SignalInv
    <3>3. CASE k = Len(signals) + 1
      BY <2>2, <2>3, <2>5, <2>7, <3>1, <3>3
    <3> QED BY <2>4, <3>2, <3>3
  <2>8. SignalInv'
    BY <1>1, <2>6, <2>7 DEF SignalInv
  <2>9. ASSUME NEW i \in Incidents, NEW l \in Levels, Passed(i, l)
        PROVE  Passed(i, l)'
    <3>1. l <= level'[i] /\ ipc' # "score"
      BY <1>1, <2>9 DEF Passed
    <3>2. \A k \in 1..Len(signals') : signals'[k].inc = i => l < signals'[k].level
      BY <1>1, <2>2, <2>3, <2>4, <2>9 DEF Passed
    <3> QED BY <3>1, <3>2 DEF Passed
  <2> QED BY <2>8, <2>9 DEF PassedKept
<1> QED BY <1>1, <1>2, <1>3

\* The other steps leave signals and levels alone.
LEMMA SignalsQuiet ==
    ASSUME SignalInv, UNCHANGED <<signals, level, scoring>>, ipc' # "score" \/ ipc' = ipc
    PROVE  SignalInv' /\ PassedKept
BY DEF SignalInv, PassedKept, Passed

\* The signal taken came before those that stay in the channel.
LEMMA TakeKeeps ==
    ASSUME TypeOK, SignalInv, TakeSignal
    PROVE  /\ SignalInv' /\ PassedKept
           /\ \E i \in Incidents, l \in Levels :
                 /\ pending' = [pending EXCEPT ![i] = l]
                 /\ Passed(i, l)'
                 /\ \A m \in Levels : Passed(i, m) => m < l
<1>1. /\ signals # <<>> /\ signals' = Tail(signals) /\ UNCHANGED <<level, scoring, ipc>>
      /\ pending' = [pending EXCEPT ![Head(signals).inc] = Head(signals).level]
  BY DEF TakeSignal, ingest
<1>2. /\ Len(signals) \in Nat /\ Len(signals) # 0 /\ Len(signals') = Len(signals) - 1
      /\ \A k \in 1..Len(signals') : signals'[k] = signals[k + 1]
      /\ Head(signals) = signals[1]
  BY <1>1, SignalTyped, HeadTailProperties, EmptySeq
<1>3. \A k \in 1..Len(signals') : k + 1 \in 1..Len(signals)
  BY <1>2
<1>4. SignalInv'
  <2>1. \A k \in 1..Len(signals') :
            /\ signals'[k].level <= level[signals'[k].inc]
            /\ ipc = "score" /\ scoring = signals'[k].inc
                 => signals'[k].level < level[signals'[k].inc]
    BY <1>2, <1>3 DEF SignalInv
  <2>2. ASSUME NEW j \in 1..Len(signals'), NEW k \in 1..Len(signals'),
               j < k, signals'[j].inc = signals'[k].inc
        PROVE  signals'[j].level < signals'[k].level
    <3>1. j + 1 < k + 1 /\ j + 1 \in 1..Len(signals) /\ k + 1 \in 1..Len(signals)
      BY <1>2, <1>3, <2>2
    <3>2. signals'[j] = signals[j + 1] /\ signals'[k] = signals[k + 1]
      BY <1>2
    <3> QED BY <2>2, <3>1, <3>2 DEF SignalInv
  <2> QED BY <1>1, <2>1, <2>2 DEF SignalInv
<1>5. PassedKept
  BY <1>1, <1>2, <1>3 DEF PassedKept, Passed
<1>6. 1 \in 1..Len(signals)
  BY <1>2
<1>7. PICK i \in Incidents, l \in Levels : i = signals[1].inc /\ l = signals[1].level
  <2>1. signals[1] \in Signals
    BY <1>6, SignalTyped
  <2> QED BY <2>1 DEF Signals
<1>8. pending' = [pending EXCEPT ![i] = l]
  BY <1>1, <1>2, <1>7
<1>9. Passed(i, l)'
  <2>1. ASSUME NEW k \in 1..Len(signals'), signals'[k].inc = i
        PROVE  l < signals'[k].level
    <3>1. 1 < k + 1 /\ k + 1 \in 1..Len(signals)
      BY <1>2, <1>3
    <3> QED BY <1>2, <1>6, <1>7, <2>1, <3>1 DEF SignalInv
  <2>2. /\ l <= level'[i]
        /\ ipc' = "score" /\ scoring' = i => l < level'[i]
    BY <1>1, <1>6, <1>7 DEF SignalInv
  <2> QED BY <2>1, <2>2 DEF Passed
<1>10. \A m \in Levels : Passed(i, m) => m < l
  BY <1>6, <1>7 DEF Passed
<1> QED BY <1>4, <1>5, <1>8, <1>9, <1>10

\* What the consumer is committed to, and what it was answered by, stay so
\* while signals pass and the incidents due stay or become fewer.
LEMMA AnswersKept ==
    ASSUME PendingInv, AnswerInv, BurstsCoalesce, PassedKept,
           UNCHANGED <<sent, pending>>,
           cpc' \in {"select", "returned"} => todo' = {},
           \A i \in Incidents : Due(i)' => Due(i)
    PROVE  PendingInv' /\ AnswerInv' /\ BurstsCoalesce'
<1>1. PendingInv'
  BY DEF PendingInv, PassedKept
<1>2. \A i \in Incidents, l \in Levels : Answered(i, l)' => Answered(i, l)
  BY DEF Answered
<1>3. AnswerInv'
  BY <1>2 DEF AnswerInv, PassedKept
<1>4. BurstsCoalesce'
  BY DEF BurstsCoalesce
<1> QED BY <1>1, <1>3, <1>4

\* Taking a signal puts off the answer to a later level.
LEMMA TakeAnswers ==
    ASSUME TypeOK, SignalInv, PendingInv, AnswerInv, BurstsCoalesce, TakeSignal
    PROVE  PendingInv' /\ AnswerInv' /\ BurstsCoalesce'
<1>1. PICK i \in Incidents, l \in Levels :
         /\ pending' = [pending EXCEPT ![i] = l]
         /\ Passed(i, l)'
         /\ \A m \in Levels : Passed(i, m) => m < l
  BY TakeKeeps
<1>2. PassedKept
  BY TakeKeeps
<1>3. cpc = "select" /\ UNCHANGED <<cpc, todo, sent>>
  BY DEF TakeSignal
<1>4. \A k \in Incidents : pending'[k] = IF k = i THEN l ELSE pending[k]
  BY <1>1 DEF TypeOK
<1>5. PendingInv'
  BY <1>1, <1>2, <1>3, <1>4 DEF PendingInv, PassedKept
<1>6. ASSUME NEW k \in Incidents, NEW m \in Levels, Answered(k, m)'
      PROVE  Passed(k, m)' /\ (Due(k)' => m < pending'[k])
  <2>1. Answered(k, m)
    BY <1>3, <1>6 DEF Answered
  <2>2. Passed(k, m) /\ (Due(k) => m < pending[k])
    BY <2>1 DEF AnswerInv
  <2>3. Passed(k, m)'
    BY <1>2, <2>2 DEF PassedKept
  <2>4. CASE k = i
    BY <1>1, <1>4, <2>2, <2>3, <2>4
  <2>5. CASE k # i
    <3>1. Due(k)' => Due(k)
      BY <1>3, <1>4, <2>5 DEF Due
    <3> QED BY <1>4, <2>2, <2>3, <2>5, <3>1
  <2> QED BY <2>4, <2>5
<1>7. BurstsCoalesce'
  BY <1>3 DEF BurstsCoalesce
<1> QED BY <1>5, <1>6, <1>7 DEF AnswerInv

\* A chain answers its incident's pending signal, which none before it did.
LEMMA ExtractAnswers ==
    ASSUME TypeOK, SentOK, SignalInv, PendingInv, AnswerInv, BurstsCoalesce,
           NEW i \in Incidents, NEW found \in BOOLEAN, Extract(i, found)
    PROVE  PendingInv' /\ AnswerInv' /\ BurstsCoalesce'
<1>1. PICK c \in Chains : c = [inc |-> i, level |-> level[i], answers |-> pending[i]]
  BY DEF Chains, TypeOK
<1>2. c.inc = i /\ c.answers = pending[i]
  BY <1>1
<1>3. /\ cpc = "flush" /\ i \in todo /\ todo' = todo \ {i}
      /\ UNCHANGED <<ipc, scoring, level, signals, pending>>
  BY DEF Extract, ingest
<1>4. /\ cpc' \in {"flush", "hec"}
      /\ sent' = sent \/ sent' = Append(sent, Report("chain", c))
  BY <1>1, <1>3 DEF Extract
<1>5. PassedKept
  BY <1>3, SignalsQuiet
<1>6. \A k \in Incidents : Due(k)' => Due(k) /\ k # i
  BY <1>3, <1>4 DEF Due
<1>7. CASE sent' = sent
  BY <1>3, <1>4, <1>5, <1>6, <1>7, AnswersKept
<1>8. CASE sent' = Append(sent, Report("chain", c))
  <2>1. PICK r \in Messages : r = Report("chain", c)
    BY ReportTyped DEF Kinds
  <2>2. r.kind = "chain" /\ r.inc = i /\ r.answers = pending[i]
    BY <1>2, <2>1, ReportTyped DEF Kinds
  <2>3. /\ Len(sent') = Len(sent) + 1 /\ Len(sent) \in Nat /\ sent'[Len(sent) + 1] = r
        /\ \A k \in 1..Len(sent) : sent'[k] = sent[k] /\ sent[k] \in Messages
    BY <1>8, <2>1, SentGrows
  <2>4. \A k \in 1..Len(sent') : k \in 1..Len(sent) \/ k = Len(sent) + 1
    BY <2>3
  <2>5. PendingInv'
    BY <1>3, <1>4, <1>5 DEF PendingInv, PassedKept
  <2>6. ASSUME NEW k \in Incidents, NEW m \in Levels, Answered(k, m)'
        PROVE  Passed(k, m)' /\ (Due(k)' => m < pending'[k])
    <3>1. Answered(k, m) \/ (k = i /\ m = pending[i])
      BY <2>2, <2>3, <2>4, <2>6 DEF Answered
    <3>2. Passed(k, m)
      BY <3>1 DEF AnswerInv, PendingInv
    <3>3. Due(k)' => m < pending'[k]
      BY <1>3, <1>6, <3>1 DEF AnswerInv
    <3> QED BY <1>5, <3>2, <3>3 DEF PassedKept
  <2>7. ASSUME NEW j \in 1..Len(sent'), NEW k \in 1..Len(sent'), j < k,
               sent'[j].kind = "chain", sent'[k].kind = "chain", sent'[j].inc = sent'[k].inc
        PROVE  sent'[j].answers < sent'[k].answers
    <3>1. j \in 1..Len(sent)
      BY <2>3, <2>7
    <3>2. CASE k \in 1..Len(sent)
      BY <2>3, <2>7, <3>1, <3>2 DEF BurstsCoalesce
    <3>3. CASE k = Len(sent) + 1
      <4>1. sent[j].kind = "chain" /\ sent[j].inc = i /\ sent[j] \in Messages
        BY <2>2, <2>3, <2>7, <3>1, <3>3
      <4>2. PICK m \in Levels : m = sent[j].answers
        BY <4>1 DEF Messages
      <4>3. Answered(i, m) /\ Due(i)
        BY <1>3, <3>1, <4>1, <4>2 DEF Answered, Due
      <4>4. m < pending[i]
        BY <4>3 DEF AnswerInv
      <4> QED BY <2>2, <2>3, <3>1, <3>3, <4>2, <4>4
    <3> QED BY <2>4, <3>2, <3>3
  <2> QED BY <2>5, <2>6, <2>7 DEF AnswerInv, BurstsCoalesce
<1> QED BY <1>4, <1>7, <1>8

\* What an agent reports answers nothing.
LEMMA AgentAnswers ==
    ASSUME TypeOK, SentOK, SignalInv, PendingInv, AnswerInv, BurstsCoalesce,
           NEW a \in Agents, AgentStep(a)
    PROVE  SignalInv' /\ PendingInv' /\ AnswerInv' /\ BurstsCoalesce'
<1>1. /\ job[a] \in Chains
      /\ \/ sent' = sent
         \/ \E k \in Kinds \ {"chain"} : sent' = Append(sent, Report(k, job[a]))
      /\ UNCHANGED <<ipc, scoring, level, signals, cpc, pending, todo>>
  BY AgentActs DEF ingest
<1>2. SignalInv' /\ PassedKept
  BY <1>1, SignalsQuiet
<1>3. \A i \in Incidents : Due(i)' => Due(i)
  BY <1>1 DEF Due
<1>4. CASE sent' = sent
  BY <1>1, <1>2, <1>3, <1>4, AnswersKept DEF PendingInv
<1>5. ASSUME NEW k \in Kinds \ {"chain"}, sent' = Append(sent, Report(k, job[a]))
      PROVE  SignalInv' /\ PendingInv' /\ AnswerInv' /\ BurstsCoalesce'
  <2>1. PICK r \in Messages : r = Report(k, job[a]) /\ r.kind # "chain"
    BY <1>1, ReportTyped
  <2>2. /\ Len(sent') = Len(sent) + 1 /\ Len(sent) \in Nat /\ sent'[Len(sent) + 1] = r
        /\ \A n \in 1..Len(sent) : sent'[n] = sent[n]
    BY <1>5, <2>1, SentGrows
  <2>3. \A n \in 1..Len(sent') : n \in 1..Len(sent) \/ n = Len(sent) + 1
    BY <2>2
  <2>4. \A n \in 1..Len(sent') : sent'[n].kind = "chain" => n \in 1..Len(sent)
    BY <2>1, <2>2, <2>3
  <2>5. \A i \in Incidents, l \in Levels : Answered(i, l)' => Answered(i, l)
    BY <2>2, <2>4 DEF Answered
  <2>6. PendingInv'
    BY <1>1, <1>2 DEF PendingInv, PassedKept
  <2>7. AnswerInv'
    BY <1>1, <1>2, <1>3, <2>5 DEF AnswerInv, PassedKept
  <2>8. BurstsCoalesce'
    BY <2>2, <2>4 DEF BurstsCoalesce
  <2> QED BY <1>2, <2>6, <2>7, <2>8
<1> QED BY <1>1, <1>4, <1>5

\* Every step keeps pending signals behind what was answered, and the queued
\* ones behind those.
LEMMA BurstsStep ==
    ASSUME TypeOK, SentOK, SignalInv, PendingInv, AnswerInv, BurstsCoalesce, Next
    PROVE  SignalInv' /\ PendingInv' /\ AnswerInv' /\ BurstsCoalesce'
<1>1. ASSUME \/ \E i \in Incidents : Materialize(i)
             \/ IngestStep
      PROVE  SignalInv' /\ PendingInv' /\ AnswerInv' /\ BurstsCoalesce'
  <2>1. UNCHANGED <<cpc, todo, pending, sent>>
    BY <1>1 DEF Materialize, IngestStep, Score, SeeClosed, IngestCanceled, IdleOut, consumer
  <2>2. CASE SeeClosed \/ IngestCanceled \/ IdleOut
    <3>1. UNCHANGED <<signals, level, scoring>> /\ ipc' # "score"
      BY <2>2 DEF SeeClosed, IngestCanceled, IdleOut
    <3>2. SignalInv' /\ PassedKept
      BY <3>1, SignalsQuiet
    <3> QED BY <2>1, <3>2, AnswersKept DEF Due, PendingInv
  <2>3. ASSUME (\E i \in Incidents : Materialize(i)) \/ Score
        PROVE  SignalInv' /\ PassedKept
    BY <2>3, MaterializeKeeps, ScoreKeeps
  <2>4. (\A i \in Incidents : Due(i)' => Due(i)) /\ (cpc' \in {"select", "returned"} => todo' = {})
    BY <2>1 DEF Due, PendingInv
  <2>5. CASE (\E i \in Incidents : Materialize(i)) \/ Score
    BY <2>1, <2>3, <2>4, <2>5, AnswersKept
  <2> QED BY <1>1, <2>2, <2>5 DEF IngestStep
<1>2. CASE SourceCloses \/ Interrupt \/ TimerFires \/ IdleFires \/ TakeOther
  <2>1. UNCHANGED <<signals, level, scoring, ipc, cpc, todo, pending, sent>>
    BY <1>2 DEF SourceCloses, Interrupt, TimerFires, IdleFires, TakeOther, ingest, consumer
  <2>2. SignalInv' /\ PassedKept
    BY <2>1, SignalsQuiet
  <2> QED BY <2>1, <2>2, AnswersKept DEF Due, PendingInv
<1>3. CASE TakeSignal
  BY <1>3, TakeKeeps, TakeAnswers
<1>4. CASE StartFlush \/ SendHEC \/ AgentsDone
  <2>1. UNCHANGED <<signals, level, scoring, ipc, pending, sent>>
    BY <1>4 DEF StartFlush, SendHEC, AgentsDone, ingest
  <2>2. SignalInv' /\ PassedKept
    BY <2>1, SignalsQuiet
  <2>3. cpc' \in {"select", "returned"} => todo' = {}
    BY <1>4 DEF StartFlush, SendHEC, AgentsDone, PendingInv
  <2>4. \A i \in Incidents : Due(i)' => Due(i)
    BY <1>4 DEF StartFlush, SendHEC, AgentsDone, Due
  <2> QED BY <2>1, <2>2, <2>3, <2>4, AnswersKept
<1>5. ASSUME NEW i \in Incidents, NEW found \in BOOLEAN, Extract(i, found)
      PROVE  SignalInv' /\ PendingInv' /\ AnswerInv' /\ BurstsCoalesce'
  <2>1. UNCHANGED <<signals, level, scoring, ipc>>
    BY <1>5 DEF Extract, ingest
  <2> QED BY <1>5, <2>1, SignalsQuiet, ExtractAnswers
<1>6. CASE FlushDone \/ ConsumerCanceled
  <2>1. /\ UNCHANGED <<signals, level, scoring, ipc, sent, todo>> /\ todo = {}
        /\ pending' = [i \in Incidents |-> 0]
    BY <1>6 DEF FlushDone, ConsumerCanceled, ingest, PendingInv
  <2>2. SignalInv' /\ PassedKept
    BY <2>1, SignalsQuiet
  <2>3. ASSUME NEW i \in Incidents PROVE Passed(i, 0)'
    <3>1. PICK l \in Levels : l = pending[i]
      BY SignalTyped
    <3>2. Passed(i, l) /\ 0 <= l
      BY <3>1 DEF PendingInv, Levels
    <3> QED BY <2>1, <3>2, SignalTyped DEF Passed, Levels
  <2>4. PendingInv'
    BY <2>1, <2>3 DEF PendingInv
  <2>5. \A i \in Incidents : ~Due(i)'
    BY <2>1 DEF Due
  <2>6. AnswerInv'
    BY <2>1, <2>2, <2>5 DEF AnswerInv, Answered, PassedKept
  <2>7. BurstsCoalesce'
    BY <2>1 DEF BurstsCoalesce
  <2> QED BY <2>2, <2>4, <2>6, <2>7
<1>7. CASE \E a \in Agents : AgentStep(a)
  BY <1>7, AgentAnswers
<1> QED BY <1>1, <1>2, <1>3, <1>4, <1>5, <1>6, <1>7 DEF Next, ConsumerStep

-----------------------------------------------------------------------------
(* The theorems *)

\* The initial states satisfy the inductive invariant.
LEMMA InvInit == Init => IInv
<1> SUFFICES ASSUME Init PROVE IInv
  OBVIOUS
<1>1. sent = <<>> /\ signals = <<>> /\ Len(sent) = 0 /\ Len(signals) = 0
  BY DEF Init
<1>2. /\ cpc = "select" /\ ipc = "select" /\ todo = {}
      /\ \A i \in Incidents : pending[i] = 0 /\ level[i] = 0
      /\ \A a \in Agents : job[a] = None
  BY DEF Init
<1>3. HandInv /\ ReportsFollowTheirChain /\ BurstsCoalesce
  BY <1>1, <1>2 DEF HandInv, ReportsFollowTheirChain, BurstsCoalesce
<1>4. SignalInv
  BY <1>1 DEF SignalInv
<1>5. PendingInv
  BY <1>1, <1>2 DEF PendingInv, Passed
<1>6. AnswerInv
  BY <1>1 DEF AnswerInv, Answered
<1> QED BY <1>3, <1>4, <1>5, <1>6, InitTypes DEF IInv

\* So does every step, and a step that changes nothing.
LEMMA InvStep == IInv /\ [Next]_vars => IInv'
<1> SUFFICES ASSUME IInv, [Next]_vars PROVE IInv'
  OBVIOUS
<1> USE DEF IInv
<1>1. CASE UNCHANGED vars
  <2>1. UNCHANGED <<ctx, signals>> /\ UNCHANGED ingest /\ UNCHANGED consumer
    BY <1>1 DEF vars
  <2>2. TypeOK' /\ SentOK'
    BY <2>1 DEF TypeOK, SentOK, ingest, consumer
  <2>3. HandInv' /\ ReportsFollowTheirChain'
    BY <2>1, ReportsQuiet DEF ingest, consumer
  <2>4. SignalInv' /\ PassedKept
    BY <2>1, SignalsQuiet DEF ingest
  <2>5. PendingInv' /\ AnswerInv' /\ BurstsCoalesce'
    BY <2>1, <2>4, AnswersKept DEF consumer, Due, PendingInv
  <2> QED BY <2>2, <2>3, <2>4, <2>5
<1>2. CASE Next
  <2>1. TypeOK' /\ SentOK'
    BY <1>2, MaterializeTypes, ScoreTypes, IngestTypes, ExtractTypes, ConsumerTypes, AgentTypes,
       WorldTypes DEF Next, IngestStep, ConsumerStep
  <2> QED BY <1>2, <2>1, ReportsStep, BurstsStep
<1> QED BY <1>1, <1>2

\* The inductive invariant holds of every reachable state.
THEOREM Invariant == Spec => []IInv
BY InvInit, InvStep, PTL DEF Spec

\* Every variable of Run's goroutines stays in its type.
THEOREM TypeCorrect == Spec => []TypeOK
<1>1. IInv => TypeOK
  BY DEF IInv
<1> QED BY <1>1, Invariant, PTL

\* Whatever the agents report comes after the chain it is about and before the
\* incident's next one: handleSignal waits for its agents (wg.Wait) before the
\* flush goes on, however many signals arrive meanwhile.
THEOREM ReportsFollow == Spec => []ReportsFollowTheirChain
<1>1. IInv => ReportsFollowTheirChain
  BY DEF IInv
<1> QED BY <1>1, Invariant, PTL

\* A burst is answered once: two chains of an incident answer signals of
\* different levels, in their order, through dropped signals, flushes that find
\* nothing and signals taken during the debounce.
THEOREM BurstsAnsweredOnce == Spec => []BurstsCoalesce
<1>1. IInv => BurstsCoalesce
  BY DEF IInv
<1> QED BY <1>1, Invariant, PTL
=============================================================================
