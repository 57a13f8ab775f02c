---------------------------- MODULE UiFeedProofs ----------------------------
(***************************************************************************)
(* What the browser's end of the stream promises the analyst, proved for   *)
(* any incidents, window, length of the log and number of sockets: there   *)
(* is one socket at a time, a page that was left stays silent, and a       *)
(* replay shows in nothing.                                                *)
(***************************************************************************)
EXTENDS UiFeed, SequenceTheorems, FiniteSetTheorems, TLAPS

-----------------------------------------------------------------------------
(* Sockets *)

SocketStates == {"connecting", "open", "silent", "closing", "closed"}

\* Before the page is mounted there is nothing; while it is, either the newest
\* socket is alive or one retry is scheduled; after it, a socket may still be
\* closing.
SocketInv ==
    /\ sockets \in Seq(SocketStates)
    /\ intentionallyClosed = (page = "unmounted")
    /\ page = "new" => Len(sockets) = 0 /\ timers = 0 /\ ws = 0
    /\ page = "mounted" => /\ timers \in {0, 1}
                           /\ \A s \in SocketIds : Alive(s) => s = ws /\ timers = 0
    /\ page = "unmounted" => /\ timers = 0 /\ ws = 0
                             /\ \A s \in SocketIds : Alive(s) => sockets[s] = "closing"
                             /\ \A s, t \in SocketIds : Alive(s) /\ Alive(t) => s = t

-----------------------------------------------------------------------------
(* The log *)

Kinds    == Reports \cup {"chain_result"}
Messages == [kind : Kinds, inc : Incidents, run : 1..MaxLog, n : 1..MaxLog]
            \cup [kind : {"event"}, inc : {None}, run : {0}, n : 1..MaxLog]

\* Message n of log l is of incident i and one of the kinds K.
Of(l, i, K, n) == l[n].inc = i /\ l[n].kind \in K

\* A message knows its place, a chain that it starts a run, and a report the
\* chain of its incident it belongs to.
LogOK(l) ==
    /\ l \in Seq(Messages) /\ Len(l) <= MaxLog
    /\ \A n \in 1..Len(l) :
          /\ l[n].n = n
          /\ l[n].kind = "chain_result" => l[n].run = n
          /\ l[n].kind \in Reports =>
                l[n].run < n /\ Of(l, l[n].inc, {"chain_result"}, l[n].run)

WorkInv == work # None => /\ work \in [inc : Incidents, run : 1..Len(log), due : SUBSET Reports]
                          /\ Of(log, work.inc, {"chain_result"}, work.run)

-----------------------------------------------------------------------------
(* What the page shows *)

\* Of incident i's messages of kinds K in log l, a client that has handled l up
\* to p handled n last; 0 is none.
Last(l, i, K, n, p) ==
    /\ n = 0 \/ (n \in 1..Len(l) /\ Of(l, i, K, n))
    /\ \A k \in 1..p : k > n => ~Of(l, i, K, k)

\* The run a field shows that message n was the last to set.
RunAt(l, n) == IF n = 0 THEN 0 ELSE l[n].run

Narrates == {"chain_result", "narration"}
Enriches == {"chain_result", "threat_intel"}

\* Field v shows what the last message of kind k says; field v is set when the
\* last of kinds K is a chain, or there is none.
ShowsRun(l, i, k, v, p) == \E n \in 0..Len(l) : Last(l, i, {k}, n, p) /\ v = RunAt(l, n)
Awaits(l, i, K, v, p)   == \E n \in 0..Len(l) :
                               Last(l, i, K, n, p) /\ v = (n = 0 \/ l[n].kind = "chain_result")

\* Each field of incident i's state is what the last message that sets it says.
FieldsOK(l, i, b, p) ==
    /\ Last(l, i, {"chain_result"}, b.chain, p)
    /\ ShowsRun(l, i, "narration", b.narration, p)
    /\ ShowsRun(l, i, "threat_intel", b.threatIntel, p)
    /\ Awaits(l, i, Narrates, b.awaitingNarration, p)
    /\ Awaits(l, i, Enriches, b.awaitingIntel, p)

\* The agent steps of incident i after message c, up to p.
StepsOf(l, i, c, p) == {k \in 1..p : k > c /\ Of(l, i, {"agent_activity"}, k)}

\* Sequence s lists set S in increasing order.
Lists(s, S) == /\ \A j \in 1..Len(s) : s[j] \in S
               /\ \A k \in S : \E j \in 1..Len(s) : s[j] = k
               /\ \A j, k \in 1..Len(s) : j < k => s[j] < s[k]

\* The agents' feed holds the steps since the chain.
FeedOK(l, i, b, p) == b.chain <= p => Lists(b.activity, StepsOf(l, i, b.chain, p))

\* An incident is known when one of its messages was handled.
Known(l, i, x, p) == /\ x = None => \A k \in 1..p : l[k].inc # i
                     /\ x # None => \E k \in 1..Len(l) : l[k].inc = i

Shown(l, i, x, p) == FieldsOK(l, i, OrPlaceholder(x), p) /\ Known(l, i, x, p)
Fed(l, i, x, p)   == FeedOK(l, i, OrPlaceholder(x), p)

IdealInv == \A i \in Incidents : Shown(log, i, ideal[i], Len(log)) /\ Fed(log, i, ideal[i], Len(log))

\* Without a gap, the page shows each incident as of the last message handled,
\* and the feed of each whose replay is whole.
PageInv == ~gap => /\ pos <= at
                   /\ \A i \in Incidents : Shown(log, i, incidents[i], at)
                   /\ \A i \in Incidents \ torn : Fed(log, i, incidents[i], at)

\* What a replay has still to bring has its chain in the replay.
ReplayInv == \A i \in Incidents \ torn :
                 \A k \in (pos + 1)..at :
                     Of(log, i, {"agent_activity"}, k) => log[k].run > pos

\* What the engine and the page have of the messages.
StreamInv == LogOK(log) /\ WorkInv /\ IdealInv /\ PageInv /\ ReplayInv

IInv == TypeOK /\ SocketInv /\ StreamInv

-----------------------------------------------------------------------------
(* The reducer *)

\* The state a message applies to is one.
LEMMA BaseTyped ==
    ASSUME NEW x \in IncidentStates \cup {None}
    PROVE  /\ OrPlaceholder(x) \in IncidentStates
           /\ x # None => OrPlaceholder(x) = x
           /\ x = None => OrPlaceholder(x) = Blank
<1>1. Blank \in IncidentStates
  BY UiAssumption DEF Blank, IncidentStates, Runs
<1> QED BY <1>1 DEF OrPlaceholder

\* A chain starts the agents' feed afresh and awaits both verdicts.
LEMMA ReduceChain ==
    ASSUME NEW x \in IncidentStates \cup {None}, NEW m, m.kind = "chain_result"
    PROVE  LET b == OrPlaceholder(x) IN
           Reduce(x, m) = [b EXCEPT !.chain = m.run, !.activity = <<>>,
                                    !.awaitingNarration = TRUE, !.awaitingIntel = TRUE]
BY Zenon DEF Reduce

\* A narration is no longer awaited.
LEMMA ReduceNarration ==
    ASSUME NEW x \in IncidentStates \cup {None}, NEW m, m.kind = "narration"
    PROVE  LET b == OrPlaceholder(x) IN
           Reduce(x, m) = [b EXCEPT !.narration = m.run, !.awaitingNarration = FALSE]
<1>1. m.kind # "chain_result"
  OBVIOUS
<1> QED BY <1>1, Zenon DEF Reduce

\* Nor is threat intel that has come.
LEMMA ReduceIntel ==
    ASSUME NEW x \in IncidentStates \cup {None}, NEW m, m.kind = "threat_intel"
    PROVE  LET b == OrPlaceholder(x) IN
           Reduce(x, m) = [b EXCEPT !.threatIntel = m.run, !.awaitingIntel = FALSE]
<1>1. m.kind # "chain_result" /\ m.kind # "narration"
  OBVIOUS
<1> QED BY <1>1, Zenon DEF Reduce

\* An agent step goes to the end of the feed.
LEMMA ReduceStep ==
    ASSUME NEW x \in IncidentStates \cup {None}, NEW m, m.kind = "agent_activity"
    PROVE  LET b == OrPlaceholder(x) IN
           Reduce(x, m) = [b EXCEPT !.activity = Append(b.activity, m.n)]
<1>1. m.kind # "chain_result" /\ m.kind # "narration" /\ m.kind # "threat_intel"
  OBVIOUS
<1> QED BY <1>1, Zenon DEF Reduce

\* Reduce gives a state of the incident.
LEMMA ReduceTyped ==
    ASSUME NEW x \in IncidentStates \cup {None}, NEW m,
           m.kind \in Kinds, m.run \in 1..MaxLog, m.n \in 1..MaxLog
    PROVE  Reduce(x, m) \in IncidentStates
<1> DEFINE b == OrPlaceholder(x)
<1>1. b \in IncidentStates /\ m.run \in Runs
  BY BaseTyped, UiAssumption DEF Runs
<1>2. b.activity \in Seq(1..MaxLog)
  BY <1>1 DEF IncidentStates
<1>3. <<>> \in Seq(1..MaxLog) /\ Append(b.activity, m.n) \in Seq(1..MaxLog)
  BY <1>2, EmptySeq, AppendProperties
<1> HIDE DEF b
<1>4. CASE m.kind = "chain_result"
  <2>1. Reduce(x, m) = [b EXCEPT !.chain = m.run, !.activity = <<>>,
                                 !.awaitingNarration = TRUE, !.awaitingIntel = TRUE]
    BY <1>4, ReduceChain DEF b
  <2> QED BY <1>1, <1>3, <2>1 DEF IncidentStates
<1>5. CASE m.kind = "narration"
  <2>1. Reduce(x, m) = [b EXCEPT !.narration = m.run, !.awaitingNarration = FALSE]
    BY <1>5, ReduceNarration DEF b
  <2> QED BY <1>1, <2>1 DEF IncidentStates
<1>6. CASE m.kind = "threat_intel"
  <2>1. Reduce(x, m) = [b EXCEPT !.threatIntel = m.run, !.awaitingIntel = FALSE]
    BY <1>6, ReduceIntel DEF b
  <2> QED BY <1>1, <2>1 DEF IncidentStates
<1>7. CASE m.kind = "agent_activity"
  <2>1. Reduce(x, m) = [b EXCEPT !.activity = Append(b.activity, m.n)]
    BY <1>7, ReduceStep DEF b
  <2> QED BY <1>1, <1>3, <2>1 DEF IncidentStates
<1> QED BY <1>4, <1>5, <1>6, <1>7 DEF Kinds, Reports

-----------------------------------------------------------------------------
(* Messages in a log *)

\* A message of an incident is a chain or a report.
LEMMA MessageTyped ==
    ASSUME NEW m \in Messages
    PROVE  /\ m.inc \in Incidents \cup {None} /\ m.n \in 1..MaxLog
           /\ m.inc # None => m.inc \in Incidents /\ m.kind \in Kinds /\ m.run \in 1..MaxLog
           /\ m.inc = None => m.kind = "event"
<1>1. CASE m \in [kind : Kinds, inc : Incidents, run : 1..MaxLog, n : 1..MaxLog]
  BY <1>1, UiAssumption
<1>2. CASE m \in [kind : {"event"}, inc : {None}, run : {0}, n : 1..MaxLog]
  BY <1>2, UiAssumption
<1> QED BY <1>1, <1>2 DEF Messages

\* So is one that a log holds.
LEMMA LogTyped ==
    ASSUME NEW l, LogOK(l), NEW n \in 1..Len(l)
    PROVE  /\ Len(l) \in Nat /\ l[n] \in Messages /\ l[n].n = n
           /\ l[n].inc # None => l[n].inc \in Incidents /\ l[n].kind \in Kinds /\ l[n].run \in 1..MaxLog
           /\ l[n].inc = None => l[n].kind = "event"
<1>1. l \in Seq(Messages)
  BY DEF LogOK
<1>2. l[n] \in Messages /\ Len(l) \in Nat
  BY <1>1
<1> QED BY <1>2, MessageTyped DEF LogOK

\* A message more leaves the others in place.
LEMMA LogGrows ==
    ASSUME NEW l, LogOK(l), NEW m \in Messages
    PROVE  LET h == Append(l, m) IN
           /\ h \in Seq(Messages) /\ Len(l) \in Nat
           /\ Len(h) = Len(l) + 1 /\ h[Len(l) + 1] = m
           /\ \A k \in 1..Len(l) : h[k] = l[k]
<1>1. l \in Seq(Messages)
  BY DEF LogOK
<1> QED BY <1>1, AppendProperties

\* The log stays one the pipeline can publish.
LEMMA LogKept ==
    ASSUME NEW l, LogOK(l), NEW m \in Messages,
           Len(l) < MaxLog, m.n = Len(l) + 1,
           m.kind = "chain_result" => m.run = Len(l) + 1,
           m.kind \in Reports => m.run \in 1..Len(l) /\ Of(l, m.inc, {"chain_result"}, m.run)
    PROVE  LogOK(Append(l, m))
<1> DEFINE h == Append(l, m)
<1>1. /\ h \in Seq(Messages) /\ Len(l) \in Nat
      /\ Len(h) = Len(l) + 1 /\ h[Len(l) + 1] = m
      /\ \A k \in 1..Len(l) : h[k] = l[k]
  BY LogGrows
<1> HIDE DEF h
<1>2. Len(h) <= MaxLog
  BY <1>1, UiAssumption
<1>3. ASSUME NEW n \in 1..Len(h)
      PROVE  /\ h[n].n = n
             /\ h[n].kind = "chain_result" => h[n].run = n
             /\ h[n].kind \in Reports =>
                   h[n].run < n /\ Of(h, h[n].inc, {"chain_result"}, h[n].run)
  <2>1. CASE n = Len(l) + 1
    BY <1>1, <2>1 DEF Of
  <2>2. CASE n \in 1..Len(l)
    <3>1. h[n] = l[n]
      BY <1>1, <2>2
    <3>2. ASSUME l[n].kind \in Reports
          PROVE  l[n].run < n /\ Of(h, l[n].inc, {"chain_result"}, l[n].run)
      <4>1. l[n].run < n /\ Of(l, l[n].inc, {"chain_result"}, l[n].run)
        BY <2>2, <3>2 DEF LogOK
      <4>2. l[n].inc # None
        BY <2>2, <3>2, LogTyped DEF Reports
      <4>3. l[n].run \in 1..Len(l)
        BY <2>2, <4>1, <4>2, LogTyped
      <4> QED BY <1>1, <4>1, <4>3 DEF Of
    <3> QED BY <2>2, <3>1, <3>2 DEF LogOK
  <2> QED BY <1>1, <2>1, <2>2
<1> QED BY <1>1, <1>2, <1>3 DEF LogOK, h

-----------------------------------------------------------------------------
(* The last message of some kinds *)

\* Having handled less, it is still the last.
LEMMA LastShrinks ==
    ASSUME NEW l, NEW i, NEW K, NEW n, NEW p \in Nat, NEW q \in 0..p, Last(l, i, K, n, p)
    PROVE  Last(l, i, K, n, q)
BY DEF Last

\* A message of another incident or kind does not replace it.
LEMMA LastSkips ==
    ASSUME NEW l, NEW i, NEW K, NEW n, NEW p \in Nat, Last(l, i, K, n, p), ~Of(l, i, K, p + 1)
    PROVE  Last(l, i, K, n, p + 1)
<1>1. \A k \in 1..(p + 1) : k \in 1..p \/ k = p + 1
  OBVIOUS
<1> QED BY <1>1 DEF Last

\* One of its own does.
LEMMA LastReplaced ==
    ASSUME NEW l, NEW i, NEW K, NEW p \in Nat, p + 1 \in 1..Len(l), Of(l, i, K, p + 1)
    PROVE  Last(l, i, K, p + 1, p + 1)
BY DEF Last

\* It stays so when more is published.
LEMMA LastGrows ==
    ASSUME NEW l, LogOK(l), NEW m \in Messages, NEW i, NEW K,
           NEW n \in 0..Len(l), NEW p \in 0..Len(l), Last(l, i, K, n, p)
    PROVE  Last(Append(l, m), i, K, n, p)
<1> DEFINE h == Append(l, m)
<1>1. /\ Len(l) \in Nat /\ Len(h) = Len(l) + 1
      /\ \A k \in 1..Len(l) : h[k] = l[k]
  BY LogGrows
<1> HIDE DEF h
<1>2. \A k \in 1..Len(l) : Of(h, i, K, k) <=> Of(l, i, K, k)
  BY <1>1 DEF Of
<1>3. n \in 1..Len(l) => n \in 1..Len(h)
  BY <1>1
<1>4. \A k \in 1..p : k \in 1..Len(l)
  BY <1>1
<1> QED BY <1>2, <1>3, <1>4 DEF Last, h

\* In a whole log there is one.
LEMMA LastUnique ==
    ASSUME NEW l, LogOK(l), NEW i, NEW K, NEW n \in 0..Len(l), NEW k \in 0..Len(l),
           Last(l, i, K, n, Len(l)), Last(l, i, K, k, Len(l))
    PROVE  n = k
<1>1. Len(l) \in Nat
  BY DEF LogOK
<1>2. n \in Nat /\ k \in Nat
  BY <1>1
<1>3. ~(n < k) /\ ~(k < n)
  BY <1>1, <1>2 DEF Last
<1> QED BY <1>2, <1>3

-----------------------------------------------------------------------------
(* What the fields show *)

\* Having handled less, a field still shows the last message that sets it.
LEMMA FieldsShrink ==
    ASSUME NEW l, NEW i, NEW b, NEW p \in Nat, NEW q \in 0..p, FieldsOK(l, i, b, p)
    PROVE  FieldsOK(l, i, b, q)
<1>1. \A K, n : Last(l, i, K, n, p) => Last(l, i, K, n, q)
  BY LastShrinks
<1> QED BY <1>1 DEF FieldsOK, ShowsRun, Awaits

\* A message of another incident changes nothing.
LEMMA FieldsSkip ==
    ASSUME NEW l, NEW i, NEW b, NEW p \in Nat, FieldsOK(l, i, b, p), l[p + 1].inc # i
    PROVE  FieldsOK(l, i, b, p + 1)
<1>1. \A K : ~Of(l, i, K, p + 1)
  BY DEF Of
<1>2. \A K, n : Last(l, i, K, n, p) => Last(l, i, K, n, p + 1)
  BY <1>1, LastSkips
<1> QED BY <1>2 DEF FieldsOK, ShowsRun, Awaits

\* Nor does one that is only published.
LEMMA FieldsGrow ==
    ASSUME NEW l, LogOK(l), NEW m \in Messages, NEW i, NEW b, NEW p \in 0..Len(l),
           FieldsOK(l, i, b, p)
    PROVE  FieldsOK(Append(l, m), i, b, p)
<1> DEFINE h == Append(l, m)
<1>1. /\ Len(l) \in Nat /\ Len(h) = Len(l) + 1
      /\ \A k \in 1..Len(l) : h[k] = l[k]
  BY LogGrows
<1>2. \A K : \A n \in 0..Len(l) : Last(l, i, K, n, p) => Last(h, i, K, n, p)
  BY LastGrows
<1> HIDE DEF h
<1>3. \A n \in 0..Len(l) : n \in 0..Len(h) /\ RunAt(h, n) = RunAt(l, n)
                         /\ (n = 0 \/ h[n].kind = "chain_result") = (n = 0 \/ l[n].kind = "chain_result")
  BY <1>1 DEF RunAt
<1>4. b.chain \in 0..Len(l)
  BY <1>1 DEF FieldsOK, Last
<1>5. Last(h, i, {"chain_result"}, b.chain, p)
  BY <1>2, <1>4 DEF FieldsOK
<1>6. \A k, v : ShowsRun(l, i, k, v, p) => ShowsRun(h, i, k, v, p)
  BY <1>2, <1>3 DEF ShowsRun
<1>7. \A K, v : Awaits(l, i, K, v, p) => Awaits(h, i, K, v, p)
  BY <1>2, <1>3 DEF Awaits
<1> QED BY <1>5, <1>6, <1>7 DEF FieldsOK, h

\* A message of the incident sets its fields and no other.
LEMMA FieldsReduce ==
    ASSUME NEW l, LogOK(l), NEW i \in Incidents, NEW x \in IncidentStates \cup {None},
           NEW p \in Nat, p + 1 \in 1..Len(l), l[p + 1].inc = i,
           FieldsOK(l, i, OrPlaceholder(x), p)
    PROVE  FieldsOK(l, i, Reduce(x, l[p + 1]), p + 1)
<1>1. PICK m \in Messages : m = l[p + 1] /\ m.kind \in Kinds /\ m.inc = i
  BY LogTyped, UiAssumption
<1>2. PICK b \in IncidentStates : b = OrPlaceholder(x)
  BY BaseTyped
<1>3. \A K : Of(l, i, K, p + 1) <=> m.kind \in K
  BY <1>1 DEF Of
<1>4. \A K : m.kind \in K => Last(l, i, K, p + 1, p + 1)
  BY <1>3, LastReplaced
<1>5. \A K, n : m.kind \notin K /\ Last(l, i, K, n, p) => Last(l, i, K, n, p + 1)
  BY <1>3, LastSkips
<1>6. p + 1 \in 0..Len(l) /\ p + 1 # 0 /\ RunAt(l, p + 1) = m.run
  BY <1>1 DEF RunAt
<1>7. /\ \A k, v : m.kind # k /\ ShowsRun(l, i, k, v, p) => ShowsRun(l, i, k, v, p + 1)
      /\ \A k : m.kind = k => ShowsRun(l, i, k, m.run, p + 1)
  BY <1>4, <1>5, <1>6 DEF ShowsRun
<1>8. \A K, v : m.kind \notin K /\ Awaits(l, i, K, v, p) => Awaits(l, i, K, v, p + 1)
  BY <1>5 DEF Awaits
<1>9. \A K : m.kind \in K /\ m.kind = "chain_result" => Awaits(l, i, K, TRUE, p + 1)
  BY <1>1, <1>4, <1>6 DEF Awaits
<1>10. \A K : m.kind \in K /\ m.kind # "chain_result" => Awaits(l, i, K, FALSE, p + 1)
  BY <1>1, <1>4, <1>6 DEF Awaits
<1>11. FieldsOK(l, i, b, p)
  BY <1>2
<1> DEFINE y == Reduce(x, m)
<1>12. CASE m.kind = "chain_result"
  <2>1. y = [b EXCEPT !.chain = m.run, !.activity = <<>>,
                      !.awaitingNarration = TRUE, !.awaitingIntel = TRUE]
    BY <1>2, <1>12, ReduceChain
  <2> HIDE DEF y
  <2>2. /\ y.chain = m.run /\ y.narration = b.narration /\ y.threatIntel = b.threatIntel
        /\ y.awaitingNarration = TRUE /\ y.awaitingIntel = TRUE
    BY <2>1 DEF IncidentStates
  <2>3. m.run = p + 1
    BY <1>1, <1>12 DEF LogOK
  <2>4. Last(l, i, {"chain_result"}, y.chain, p + 1)
    BY <1>4, <1>12, <2>2, <2>3
  <2>5. /\ ShowsRun(l, i, "narration", y.narration, p + 1)
        /\ ShowsRun(l, i, "threat_intel", y.threatIntel, p + 1)
    BY <1>7, <1>11, <1>12, <2>2 DEF FieldsOK
  <2>6. /\ Awaits(l, i, Narrates, y.awaitingNarration, p + 1)
        /\ Awaits(l, i, Enriches, y.awaitingIntel, p + 1)
    BY <1>9, <1>12, <2>2 DEF Narrates, Enriches
  <2> QED BY <1>1, <2>4, <2>5, <2>6 DEF FieldsOK, y
<1>13. CASE m.kind = "narration"
  <2>1. y = [b EXCEPT !.narration = m.run, !.awaitingNarration = FALSE]
    BY <1>2, <1>13, ReduceNarration
  <2> HIDE DEF y
  <2>2. /\ y.chain = b.chain /\ y.narration = m.run /\ y.threatIntel = b.threatIntel
        /\ y.awaitingNarration = FALSE /\ y.awaitingIntel = b.awaitingIntel
    BY <2>1 DEF IncidentStates
  <2>3. Last(l, i, {"chain_result"}, y.chain, p + 1)
    BY <1>5, <1>11, <1>13, <2>2 DEF FieldsOK
  <2>4. /\ ShowsRun(l, i, "narration", y.narration, p + 1)
        /\ ShowsRun(l, i, "threat_intel", y.threatIntel, p + 1)
    BY <1>7, <1>11, <1>13, <2>2 DEF FieldsOK
  <2>5. Awaits(l, i, Narrates, y.awaitingNarration, p + 1)
    BY <1>10, <1>13, <2>2 DEF Narrates
  <2>6. Awaits(l, i, Enriches, y.awaitingIntel, p + 1)
    BY <1>8, <1>11, <1>13, <2>2 DEF FieldsOK, Enriches
  <2> QED BY <1>1, <2>3, <2>4, <2>5, <2>6 DEF FieldsOK, y
<1>14. CASE m.kind = "threat_intel"
  <2>1. y = [b EXCEPT !.threatIntel = m.run, !.awaitingIntel = FALSE]
    BY <1>2, <1>14, ReduceIntel
  <2> HIDE DEF y
  <2>2. /\ y.chain = b.chain /\ y.narration = b.narration /\ y.threatIntel = m.run
        /\ y.awaitingNarration = b.awaitingNarration /\ y.awaitingIntel = FALSE
    BY <2>1 DEF IncidentStates
  <2>3. Last(l, i, {"chain_result"}, y.chain, p + 1)
    BY <1>5, <1>11, <1>14, <2>2 DEF FieldsOK
  <2>4. /\ ShowsRun(l, i, "narration", y.narration, p + 1)
        /\ ShowsRun(l, i, "threat_intel", y.threatIntel, p + 1)
    BY <1>7, <1>11, <1>14, <2>2 DEF FieldsOK
  <2>5. Awaits(l, i, Narrates, y.awaitingNarration, p + 1)
    BY <1>8, <1>11, <1>14, <2>2 DEF FieldsOK, Narrates
  <2>6. Awaits(l, i, Enriches, y.awaitingIntel, p + 1)
    BY <1>10, <1>14, <2>2 DEF Enriches
  <2> QED BY <1>1, <2>3, <2>4, <2>5, <2>6 DEF FieldsOK, y
<1>15. CASE m.kind = "agent_activity"
  <2>1. y = [b EXCEPT !.activity = Append(b.activity, m.n)]
    BY <1>2, <1>15, ReduceStep
  <2> HIDE DEF y
  <2>2. /\ y.chain = b.chain /\ y.narration = b.narration /\ y.threatIntel = b.threatIntel
        /\ y.awaitingNarration = b.awaitingNarration /\ y.awaitingIntel = b.awaitingIntel
    BY <2>1 DEF IncidentStates
  <2>3. Last(l, i, {"chain_result"}, y.chain, p + 1)
    BY <1>5, <1>11, <1>15, <2>2 DEF FieldsOK
  <2>4. /\ ShowsRun(l, i, "narration", y.narration, p + 1)
        /\ ShowsRun(l, i, "threat_intel", y.threatIntel, p + 1)
    BY <1>7, <1>11, <1>15, <2>2 DEF FieldsOK
  <2>5. /\ Awaits(l, i, Narrates, y.awaitingNarration, p + 1)
        /\ Awaits(l, i, Enriches, y.awaitingIntel, p + 1)
    BY <1>8, <1>11, <1>15, <2>2 DEF FieldsOK, Narrates, Enriches
  <2> QED BY <1>1, <2>3, <2>4, <2>5 DEF FieldsOK, y
<1> QED BY <1>1, <1>12, <1>13, <1>14, <1>15 DEF Kinds, Reports

\* Two states that show the whole log show the same.
LEMMA FieldsUnique ==
    ASSUME NEW l, LogOK(l), NEW i, NEW b \in IncidentStates, NEW c \in IncidentStates,
           FieldsOK(l, i, b, Len(l)), FieldsOK(l, i, c, Len(l))
    PROVE  /\ b.chain = c.chain /\ b.narration = c.narration /\ b.threatIntel = c.threatIntel
           /\ b.awaitingNarration = c.awaitingNarration /\ b.awaitingIntel = c.awaitingIntel
<1>1. \A K : \A n, k \in 0..Len(l) : Last(l, i, K, n, Len(l)) /\ Last(l, i, K, k, Len(l)) => n = k
  BY LastUnique
<1>2. b.chain \in 0..Len(l) /\ c.chain \in 0..Len(l)
  <2>1. Len(l) \in Nat
    BY DEF LogOK
  <2> QED BY <2>1 DEF FieldsOK, Last
<1>3. b.chain = c.chain
  BY <1>1, <1>2 DEF FieldsOK
<1>4. \A k, v, w : ShowsRun(l, i, k, v, Len(l)) /\ ShowsRun(l, i, k, w, Len(l)) => v = w
  BY <1>1 DEF ShowsRun
<1>5. \A K, v, w : Awaits(l, i, K, v, Len(l)) /\ Awaits(l, i, K, w, Len(l)) => v = w
  BY <1>1 DEF Awaits
<1> QED BY <1>3, <1>4, <1>5 DEF FieldsOK

-----------------------------------------------------------------------------
(* The agents' feed *)

\* A set of numbers has a least one.
LEMMA Least ==
    ASSUME NEW T \in SUBSET Nat, T # {}
    PROVE  \E i \in T : \A j \in T : i <= j
<1> DEFINE Up == {1..i : i \in T}
<1>1. \A i \in T : i \in Int /\ 1..i \subseteq Nat
  OBVIOUS
<1>2. \A i \in T : IsFiniteSet(1..i)
  BY <1>1, FS_Interval
<1>3. Up \subseteq FiniteSubsetsOf(Nat) /\ Up # {}
  BY <1>1, <1>2 DEF FiniteSubsetsOf
<1>4. \E x \in Up : \A y \in Up : ~(<<y, x>> \in StrictSubsetOrdering(Nat))
  BY <1>3, FS_StrictSubsetOrderingWellFounded, WFMin
<1>5. PICK i \in T : \A j \in T : ~(<<1..j, 1..i>> \in StrictSubsetOrdering(Nat))
  BY <1>4
<1>6. ASSUME NEW j \in T, j < i PROVE FALSE
  <2>1. 1..j \subseteq 1..i /\ i \in 1..i /\ i \notin 1..j /\ 1..i \subseteq Nat
    BY <1>6
  <2>2. <<1..j, 1..i>> \in StrictSubsetOrdering(Nat)
    BY <2>1 DEF StrictSubsetOrdering
  <2> QED BY <1>5, <2>2
<1> QED BY <1>6

\* Of two increasing lists of a set, neither has another number first.
LEMMA ListsAgree ==
    ASSUME NEW S \in SUBSET Nat, NEW s \in Seq(Nat), NEW t \in Seq(Nat), Lists(s, S), Lists(t, S)
    PROVE  \A j \in 1..Len(s) : j \in 1..Len(t) /\ s[j] = t[j]
<1> DEFINE T == {j \in 1..Len(s) : ~(j \in 1..Len(t) /\ s[j] = t[j])}
<1>1. Len(s) \in Nat /\ Len(t) \in Nat
  OBVIOUS
<1>2. /\ \A j \in 1..Len(s) : s[j] \in Nat
      /\ \A j \in 1..Len(t) : t[j] \in Nat
  OBVIOUS
<1> SUFFICES ASSUME T # {} PROVE FALSE
  OBVIOUS
<1>3. PICK j \in T : \A k \in T : j <= k
  <2>1. T \in SUBSET Nat
    BY <1>1
  <2> QED BY <2>1, Least
<1>4. \A k \in 1..(j - 1) : k \in 1..Len(t) /\ s[k] = t[k]
  <2>1. \A k \in 1..(j - 1) : k \in 1..Len(s) /\ k < j
    BY <1>1, <1>3
  <2> QED BY <1>1, <1>3, <2>1
<1>5. j \in 1..Len(s) /\ s[j] \in S /\ ~(j \in 1..Len(t) /\ s[j] = t[j])
  BY <1>3 DEF Lists
<1>6. PICK m \in 1..Len(t) : t[m] = s[j]
  BY <1>5 DEF Lists
<1>7. ~(m < j)
  <2>1. ASSUME m < j PROVE FALSE
    <3>1. m \in 1..(j - 1) /\ m \in 1..Len(s)
      BY <1>1, <1>5, <1>6, <2>1
    <3>2. s[m] = t[m] /\ s[m] < s[j]
      BY <1>4, <1>5, <2>1, <3>1 DEF Lists
    <3> QED BY <1>2, <1>5, <1>6, <3>2
  <2> QED BY <2>1
<1>8. m # j
  BY <1>5, <1>6
<1>9. j < m /\ j \in 1..Len(t)
  BY <1>1, <1>5, <1>6, <1>7, <1>8
<1>10. t[j] < s[j] /\ t[j] \in S
  BY <1>6, <1>9 DEF Lists
<1>11. PICK k \in 1..Len(s) : s[k] = t[j]
  BY <1>10 DEF Lists
<1>12. k < j
  <2>1. ASSUME j < k PROVE FALSE
    <3>1. s[j] < s[k]
      BY <1>5, <1>11, <2>1 DEF Lists
    <3> QED BY <1>2, <1>5, <1>9, <1>10, <1>11, <3>1
  <2>2. j # k
    BY <1>2, <1>5, <1>9, <1>10, <1>11
  <2> QED BY <1>1, <1>5, <1>11, <2>1, <2>2
<1>13. s[k] = t[k] /\ k \in 1..Len(t)
  <2>1. k \in 1..(j - 1)
    BY <1>1, <1>5, <1>11, <1>12
  <2> QED BY <1>4, <2>1
<1>14. t[k] < t[j]
  BY <1>9, <1>12, <1>13 DEF Lists
<1> QED BY <1>2, <1>9, <1>11, <1>13, <1>14

\* A set has one increasing list.
LEMMA ListsUnique ==
    ASSUME NEW S \in SUBSET Nat, NEW s \in Seq(Nat), NEW t \in Seq(Nat), Lists(s, S), Lists(t, S)
    PROVE  s = t
<1>1. Len(s) \in Nat /\ Len(t) \in Nat
  OBVIOUS
<1>2. \A j \in 1..Len(s) : j \in 1..Len(t) /\ s[j] = t[j]
  BY ListsAgree
<1>3. \A j \in 1..Len(t) : j \in 1..Len(s)
  BY ListsAgree
<1>4. Len(s) = Len(t)
  <2>1. Len(s) # 0 => Len(s) \in 1..Len(s)
    BY <1>1
  <2>2. Len(t) # 0 => Len(t) \in 1..Len(t)
    BY <1>1
  <2> QED BY <1>1, <1>2, <1>3, <2>1, <2>2
<1> QED BY <1>2, <1>4, SeqEqual

\* A number above all others goes to the end.
LEMMA ListsAppend ==
    ASSUME NEW S \in SUBSET Nat, NEW s \in Seq(Nat), NEW e \in Nat,
           Lists(s, S), \A k \in S : k < e
    PROVE  Lists(Append(s, e), S \cup {e})
<1> DEFINE t == Append(s, e)
<1>1. /\ Len(s) \in Nat /\ Len(t) = Len(s) + 1 /\ t[Len(s) + 1] = e
      /\ \A j \in 1..Len(s) : t[j] = s[j]
  BY AppendProperties
<1> HIDE DEF t
<1>2. \A j \in 1..Len(t) : j \in 1..Len(s) \/ j = Len(s) + 1
  BY <1>1
<1>3. Len(s) + 1 \in 1..Len(t) /\ \A j \in 1..Len(s) : j \in 1..Len(t)
  BY <1>1
<1>4. \A j \in 1..Len(t) : t[j] \in S \cup {e}
  BY <1>1, <1>2 DEF Lists
<1>5. \A k \in S \cup {e} : \E j \in 1..Len(t) : t[j] = k
  BY <1>1, <1>3 DEF Lists
<1>6. ASSUME NEW j \in 1..Len(t), NEW k \in 1..Len(t), j < k
      PROVE  t[j] < t[k]
  <2>1. j \in 1..Len(s)
    BY <1>1, <1>6
  <2>2. CASE k \in 1..Len(s)
    BY <1>1, <1>6, <2>1, <2>2 DEF Lists
  <2>3. CASE k = Len(s) + 1
    BY <1>1, <2>1, <2>3 DEF Lists
  <2> QED BY <1>2, <2>2, <2>3
<1> QED BY <1>4, <1>5, <1>6 DEF Lists, t

\* Going back to q takes nothing out of the feed when every step after it has
\* its chain there.
LEMMA FeedShrinks ==
    ASSUME NEW l, LogOK(l), NEW i \in Incidents, NEW b, NEW p \in 0..Len(l), NEW q \in 0..p,
           FieldsOK(l, i, b, p), FeedOK(l, i, b, p),
           \A k \in (q + 1)..p : Of(l, i, {"agent_activity"}, k) => l[k].run > q
    PROVE  FeedOK(l, i, b, q)
<1>1. Len(l) \in Nat
  BY DEF LogOK
<1>2. b.chain \in 0..Len(l) /\ Last(l, i, {"chain_result"}, b.chain, p)
  BY <1>1 DEF FieldsOK, Last
<1>3. ASSUME b.chain <= q, NEW k \in StepsOf(l, i, b.chain, p), k > q
      PROVE  FALSE
  <2>1. k \in (q + 1)..p /\ k \in 1..Len(l) /\ Of(l, i, {"agent_activity"}, k)
    BY <1>1, <1>3 DEF StepsOf
  <2>2. l[k].run > q /\ l[k].inc = i /\ l[k].kind \in Reports
    BY <2>1 DEF Of, Reports
  <2>3. l[k].run < k /\ Of(l, i, {"chain_result"}, l[k].run)
    BY <2>1, <2>2 DEF LogOK
  <2>4. l[k].run \in 1..MaxLog
    BY <2>1, <2>2, LogTyped, UiAssumption
  <2>5. l[k].run \in 1..p /\ l[k].run > b.chain
    BY <1>1, <1>2, <1>3, <2>1, <2>2, <2>3, <2>4, UiAssumption
  <2> QED BY <1>2, <2>3, <2>5 DEF Last
<1>4. ASSUME b.chain <= q PROVE StepsOf(l, i, b.chain, q) = StepsOf(l, i, b.chain, p)
  <2>1. \A k \in StepsOf(l, i, b.chain, p) : k \in StepsOf(l, i, b.chain, q)
    BY <1>1, <1>3, <1>4 DEF StepsOf
  <2>2. \A k \in StepsOf(l, i, b.chain, q) : k \in StepsOf(l, i, b.chain, p)
    BY <1>1 DEF StepsOf
  <2> QED BY <2>1, <2>2
<1>5. b.chain <= q => b.chain <= p
  BY <1>1, <1>2
<1> QED BY <1>4, <1>5 DEF FeedOK

\* A message that is no step of the incident, nor the chain it shows, leaves
\* the feed as it was.
LEMMA FeedSkips ==
    ASSUME NEW l, NEW i, NEW b, NEW p \in Nat, b.chain \in Nat, FeedOK(l, i, b, p),
           b.chain # p + 1, ~Of(l, i, {"agent_activity"}, p + 1)
    PROVE  FeedOK(l, i, b, p + 1)
<1>1. \A k \in 1..(p + 1) : k \in 1..p \/ k = p + 1
  OBVIOUS
<1>2. StepsOf(l, i, b.chain, p + 1) = StepsOf(l, i, b.chain, p)
  BY <1>1 DEF StepsOf
<1>3. b.chain <= p + 1 => b.chain <= p
  OBVIOUS
<1> QED BY <1>2, <1>3 DEF FeedOK

\* Nor does one that is only published.
LEMMA FeedGrows ==
    ASSUME NEW l, LogOK(l), NEW m \in Messages, NEW i, NEW b, NEW p \in 0..Len(l),
           FeedOK(l, i, b, p)
    PROVE  FeedOK(Append(l, m), i, b, p)
<1> DEFINE h == Append(l, m)
<1>1. Len(l) \in Nat /\ \A k \in 1..Len(l) : h[k] = l[k]
  BY LogGrows
<1> HIDE DEF h
<1>2. \A k \in 1..p : k \in 1..Len(l)
  BY <1>1
<1>3. StepsOf(h, i, b.chain, p) = StepsOf(l, i, b.chain, p)
  BY <1>1, <1>2 DEF StepsOf, Of
<1> QED BY <1>3 DEF FeedOK, h

\* A chain starts a feed, a step goes to its end, a verdict leaves it.
LEMMA FeedReduce ==
    ASSUME NEW l, LogOK(l), NEW i \in Incidents, NEW x \in IncidentStates \cup {None},
           NEW p \in Nat, p + 1 \in 1..Len(l), l[p + 1].inc = i,
           FieldsOK(l, i, OrPlaceholder(x), p),
           l[p + 1].kind # "chain_result" => FeedOK(l, i, OrPlaceholder(x), p)
    PROVE  FeedOK(l, i, Reduce(x, l[p + 1]), p + 1)
<1>1. PICK m \in Messages : m = l[p + 1] /\ m.kind \in Kinds /\ m.inc = i /\ m.n = p + 1
  BY LogTyped, UiAssumption
<1>2. PICK b \in IncidentStates : b = OrPlaceholder(x)
  BY BaseTyped
<1>3. b.activity \in Seq(Nat) /\ b.chain \in Nat
  <2>1. b.activity \in Seq(1..MaxLog) /\ b.chain \in Runs
    BY DEF IncidentStates
  <2> QED BY <2>1, UiAssumption DEF Runs
<1>4. m.kind # "chain_result" => b.chain # p + 1
  BY <1>1, <1>2 DEF FieldsOK, Last, Of
<1> DEFINE y == Reduce(x, m)
<1>5. CASE m.kind = "chain_result"
  <2>1. y = [b EXCEPT !.chain = m.run, !.activity = <<>>,
                      !.awaitingNarration = TRUE, !.awaitingIntel = TRUE]
    BY <1>2, <1>5, ReduceChain
  <2> HIDE DEF y
  <2>2. y.chain = p + 1 /\ y.activity = <<>>
    BY <1>1, <1>5, <2>1 DEF IncidentStates, LogOK
  <2>3. StepsOf(l, i, p + 1, p + 1) = {}
    BY DEF StepsOf
  <2>4. Lists(<<>>, {})
    BY DEF Lists
  <2> QED BY <1>1, <2>2, <2>3, <2>4 DEF FeedOK, y
<1>6. CASE m.kind \in {"narration", "threat_intel"}
  <2>1. y.chain = b.chain /\ y.activity = b.activity
    <3>1. CASE m.kind = "narration"
      <4>1. y = [b EXCEPT !.narration = m.run, !.awaitingNarration = FALSE]
        BY <1>2, <3>1, ReduceNarration
      <4> HIDE DEF y
      <4> QED BY <4>1 DEF IncidentStates
    <3>2. CASE m.kind = "threat_intel"
      <4>1. y = [b EXCEPT !.threatIntel = m.run, !.awaitingIntel = FALSE]
        BY <1>2, <3>2, ReduceIntel
      <4> HIDE DEF y
      <4> QED BY <4>1 DEF IncidentStates
    <3> QED BY <1>6, <3>1, <3>2
  <2>2. ~Of(l, i, {"agent_activity"}, p + 1)
    BY <1>1, <1>6 DEF Of
  <2>3. FeedOK(l, i, b, p)
    BY <1>1, <1>2, <1>6
  <2>4. FeedOK(l, i, b, p + 1)
    BY <1>3, <1>4, <1>6, <2>2, <2>3, FeedSkips
  <2> HIDE DEF y
  <2> QED BY <1>1, <2>1, <2>4 DEF FeedOK, y
<1>7. CASE m.kind = "agent_activity"
  <2>1. y = [b EXCEPT !.activity = Append(b.activity, m.n)]
    BY <1>2, <1>7, ReduceStep
  <2> HIDE DEF y
  <2>2. y.chain = b.chain /\ y.activity = Append(b.activity, p + 1)
    BY <1>1, <2>1 DEF IncidentStates
  <2>3. ASSUME b.chain <= p + 1
        PROVE  Lists(y.activity, StepsOf(l, i, b.chain, p + 1))
    <3>1. b.chain <= p
      BY <1>3, <1>4, <1>7, <2>3
    <3>2. Lists(b.activity, StepsOf(l, i, b.chain, p))
      BY <1>1, <1>2, <1>7, <3>1 DEF FeedOK
    <3>3. StepsOf(l, i, b.chain, p) \in SUBSET Nat /\ \A k \in StepsOf(l, i, b.chain, p) : k < p + 1
      BY DEF StepsOf
    <3>4. Lists(Append(b.activity, p + 1), StepsOf(l, i, b.chain, p) \cup {p + 1})
      BY <1>3, <3>2, <3>3, ListsAppend
    <3>5. StepsOf(l, i, b.chain, p + 1) = StepsOf(l, i, b.chain, p) \cup {p + 1}
      <4>1. \A k \in 1..(p + 1) : k \in 1..p \/ k = p + 1
        OBVIOUS
      <4>2. Of(l, i, {"agent_activity"}, p + 1) /\ p + 1 > b.chain /\ p + 1 \in 1..(p + 1)
        BY <1>1, <1>3, <1>7, <3>1 DEF Of
      <4>3. \A k \in 1..p : k \in 1..(p + 1)
        OBVIOUS
      <4> QED BY <4>1, <4>2, <4>3 DEF StepsOf
    <3> QED BY <2>2, <3>4, <3>5
  <2> QED BY <1>1, <2>2, <2>3 DEF FeedOK, y
<1> QED BY <1>1, <1>5, <1>6, <1>7 DEF Kinds, Reports

-----------------------------------------------------------------------------
(* The state of an incident *)

\* Having handled less, its state still shows what was handled.
LEMMA ShownShrinks ==
    ASSUME NEW l, NEW i, NEW x, NEW p \in Nat, NEW q \in 0..p, Shown(l, i, x, p)
    PROVE  Shown(l, i, x, q)
BY FieldsShrink DEF Shown, Known

\* A message more is published.
LEMMA ShownGrows ==
    ASSUME NEW l, LogOK(l), NEW m \in Messages, NEW i, NEW x, NEW p \in 0..Len(l), Shown(l, i, x, p)
    PROVE  /\ Shown(Append(l, m), i, x, p)
           /\ Fed(l, i, x, p) => Fed(Append(l, m), i, x, p)
<1> DEFINE h == Append(l, m)
<1>1. /\ Len(l) \in Nat /\ Len(h) = Len(l) + 1
      /\ \A k \in 1..Len(l) : h[k] = l[k]
  BY LogGrows
<1>2. FieldsOK(h, i, OrPlaceholder(x), p) /\ (Fed(l, i, x, p) => Fed(h, i, x, p))
  BY FieldsGrow, FeedGrows DEF Shown, Fed
<1> HIDE DEF h
<1>3. \A k \in 1..Len(l) : k \in 1..Len(h)
  BY <1>1
<1>4. \A k \in 1..p : k \in 1..Len(l)
  BY <1>1
<1>5. Known(h, i, x, p)
  BY <1>1, <1>3, <1>4 DEF Shown, Known
<1> QED BY <1>2, <1>5 DEF Shown, h

\* The next message is handled.
LEMMA ShownNext ==
    ASSUME NEW l, LogOK(l), NEW i \in Incidents, NEW x \in IncidentStates \cup {None},
           NEW p \in Nat, p + 1 \in 1..Len(l), Shown(l, i, x, p)
    PROVE  /\ l[p + 1].inc # i => /\ Shown(l, i, x, p + 1)
                                  /\ Fed(l, i, x, p) => Fed(l, i, x, p + 1)
           /\ l[p + 1].inc = i => /\ Reduce(x, l[p + 1]) \in IncidentStates
                                  /\ Shown(l, i, Reduce(x, l[p + 1]), p + 1)
                                  /\ Fed(l, i, x, p) \/ l[p + 1].kind = "chain_result"
                                       => Fed(l, i, Reduce(x, l[p + 1]), p + 1)
<1>1. \A k \in 1..(p + 1) : k \in 1..p \/ k = p + 1
  OBVIOUS
<1>2. FieldsOK(l, i, OrPlaceholder(x), p) /\ Known(l, i, x, p)
  BY DEF Shown
<1>3. ASSUME l[p + 1].inc # i
      PROVE  Shown(l, i, x, p + 1) /\ (Fed(l, i, x, p) => Fed(l, i, x, p + 1))
  <2>1. PICK b \in IncidentStates : b = OrPlaceholder(x)
    BY BaseTyped
  <2>2. FieldsOK(l, i, b, p) /\ b.chain \in Nat
    BY <1>2, <2>1, UiAssumption DEF IncidentStates, Runs
  <2>3. b.chain # p + 1 /\ ~Of(l, i, {"agent_activity"}, p + 1)
    BY <1>3, <2>2 DEF FieldsOK, Last, Of
  <2>4. FieldsOK(l, i, b, p + 1)
    BY <1>3, <2>2, FieldsSkip
  <2>5. FeedOK(l, i, b, p) => FeedOK(l, i, b, p + 1)
    BY <2>2, <2>3, FeedSkips
  <2>6. Known(l, i, x, p + 1)
    BY <1>1, <1>2, <1>3 DEF Known
  <2> QED BY <2>1, <2>4, <2>5, <2>6 DEF Shown, Fed
<1>4. ASSUME l[p + 1].inc = i
      PROVE  /\ Reduce(x, l[p + 1]) \in IncidentStates
             /\ Shown(l, i, Reduce(x, l[p + 1]), p + 1)
             /\ Fed(l, i, x, p) \/ l[p + 1].kind = "chain_result"
                  => Fed(l, i, Reduce(x, l[p + 1]), p + 1)
  <2>1. PICK y : y = Reduce(x, l[p + 1])
    OBVIOUS
  <2>2. l[p + 1] \in Messages /\ l[p + 1].kind \in Kinds /\ l[p + 1].run \in 1..MaxLog
        /\ l[p + 1].n \in 1..MaxLog
    BY <1>4, LogTyped, MessageTyped, UiAssumption
  <2>3. y \in IncidentStates
    BY <2>1, <2>2, ReduceTyped
  <2>4. y # None /\ OrPlaceholder(y) = y
    BY <2>3, BaseTyped, NoneAssumption
  <2>5. FieldsOK(l, i, y, p + 1)
    BY <1>2, <1>4, <2>1, FieldsReduce
  <2>6. Fed(l, i, x, p) \/ l[p + 1].kind = "chain_result" => FeedOK(l, i, y, p + 1)
    BY <1>2, <1>4, <2>1, FeedReduce DEF Fed
  <2>7. Known(l, i, y, p + 1)
    BY <1>4, <2>4 DEF Known
  <2> QED BY <2>1, <2>3, <2>4, <2>5, <2>6, <2>7 DEF Shown, Fed
<1> QED BY <1>3, <1>4

\* Two states that show the whole log are the same.
LEMMA ShownUnique ==
    ASSUME NEW l, LogOK(l), NEW i \in Incidents,
           NEW x \in IncidentStates \cup {None}, NEW y \in IncidentStates \cup {None},
           Shown(l, i, x, Len(l)), Fed(l, i, x, Len(l)),
           Shown(l, i, y, Len(l)), Fed(l, i, y, Len(l))
    PROVE  x = y
<1>1. x = None <=> y = None
  BY DEF Shown, Known
<1>2. ASSUME x # None PROVE x = y
  <2>1. x \in IncidentStates /\ y \in IncidentStates /\ OrPlaceholder(x) = x /\ OrPlaceholder(y) = y
    BY <1>1, <1>2, BaseTyped
  <2>2. /\ FieldsOK(l, i, x, Len(l)) /\ FieldsOK(l, i, y, Len(l))
        /\ FeedOK(l, i, x, Len(l)) /\ FeedOK(l, i, y, Len(l))
    BY <2>1 DEF Shown, Fed
  <2>3. /\ x.chain = y.chain /\ x.narration = y.narration /\ x.threatIntel = y.threatIntel
        /\ x.awaitingNarration = y.awaitingNarration /\ x.awaitingIntel = y.awaitingIntel
    BY <2>1, <2>2, FieldsUnique
  <2>4. Len(l) \in Nat
    BY DEF LogOK
  <2>5. x.chain <= Len(l)
    BY <2>2, <2>4 DEF FieldsOK, Last
  <2>6. PICK S : S = StepsOf(l, i, x.chain, Len(l))
    OBVIOUS
  <2>7. S \in SUBSET Nat /\ Lists(x.activity, S) /\ Lists(y.activity, S)
    <3>1. Lists(x.activity, S) /\ Lists(y.activity, S)
      BY <2>2, <2>3, <2>5, <2>6 DEF FeedOK
    <3>2. S \in SUBSET Nat
      BY <2>6 DEF StepsOf
    <3> QED BY <3>1, <3>2
  <2>8. x.activity \in Seq(Nat) /\ y.activity \in Seq(Nat)
    <3>1. x.activity \in Seq(1..MaxLog) /\ y.activity \in Seq(1..MaxLog)
      BY <2>1 DEF IncidentStates
    <3> QED BY <3>1, UiAssumption
  <2>9. x.activity = y.activity
    BY <2>7, <2>8, ListsUnique
  <2> QED BY <2>1, <2>3, <2>9 DEF IncidentStates
<1> QED BY <1>1, <1>2

-----------------------------------------------------------------------------
(* The engine's steps *)

\* Steps that concern the socket only leave it alone.
LEMMA StreamQuiet ==
    ASSUME StreamInv, UNCHANGED <<engine, pos, incidents, at, gap, torn>>
    PROVE  StreamInv'
<1>1. LogOK(log') /\ WorkInv' /\ IdealInv'
  BY DEF StreamInv, engine, WorkInv, IdealInv
<1>2. PageInv' /\ ReplayInv'
  BY DEF StreamInv, engine, PageInv, ReplayInv
<1> QED BY <1>1, <1>2 DEF StreamInv

\* A message that the pipeline can publish next keeps what was said of the log,
\* and the client that has seen everything handles it.
LEMMA PublishStep ==
    ASSUME TypeOK, StreamInv, NEW m \in Messages, Publish(m), m.n = Len(log) + 1,
           m.kind = "chain_result" => m.run = Len(log) + 1,
           m.kind \in Reports => m.run \in 1..Len(log) /\ Of(log, m.inc, {"chain_result"}, m.run)
    PROVE  /\ TypeOK' /\ LogOK(log') /\ IdealInv' /\ PageInv' /\ ReplayInv'
           /\ Len(log) \in Nat /\ Len(log') = Len(log) + 1 /\ log'[Len(log) + 1] = m
           /\ \A k \in 1..Len(log) : log'[k] = log[k]
<1>1. PICK l : l = log
  OBVIOUS
<1>2. PICK h : h = Append(l, m)
  OBVIOUS
<1>3. /\ LogOK(l) /\ log' = h /\ Len(l) < MaxLog
      /\ UNCHANGED <<client, pos, app, at, upto, gap, torn>>
  BY <1>1, <1>2 DEF StreamInv, Publish
<1>4. /\ Len(l) \in Nat /\ Len(h) = Len(l) + 1 /\ h[Len(l) + 1] = m
      /\ \A k \in 1..Len(l) : h[k] = l[k]
  BY <1>2, <1>3, LogGrows
<1>5. LogOK(h)
  BY <1>1, <1>2, <1>3, LogKept
<1>6. ASSUME NEW i \in Incidents
      PROVE  /\ ideal'[i] \in IncidentStates \cup {None}
             /\ Shown(h, i, ideal'[i], Len(h)) /\ Fed(h, i, ideal'[i], Len(h))
  <2>1. PICK x \in IncidentStates \cup {None} : x = ideal[i]
    BY DEF TypeOK
  <2>2. Shown(l, i, x, Len(l)) /\ Fed(l, i, x, Len(l))
    BY <1>1, <2>1 DEF StreamInv, IdealInv
  <2>3. PICK p \in Nat : p = Len(l)
    BY <1>4
  <2>4. Shown(h, i, x, p) /\ Fed(h, i, x, p)
    BY <1>2, <1>3, <2>2, <2>3, ShownGrows
  <2>5. p + 1 \in 1..Len(h) /\ h[p + 1] = m /\ p + 1 = Len(h)
    BY <1>4, <2>3
  <2>6. /\ m.inc # i => Shown(h, i, x, p + 1) /\ Fed(h, i, x, p + 1)
        /\ m.inc = i => /\ Reduce(x, m) \in IncidentStates
                        /\ Shown(h, i, Reduce(x, m), p + 1) /\ Fed(h, i, Reduce(x, m), p + 1)
    BY <1>5, <2>4, <2>5, ShownNext
  <2>7. ideal'[i] = IF m.inc = i THEN Reduce(x, m) ELSE x
    <3>1. CASE m.inc = None
      BY <2>1, <3>1, UiAssumption DEF Publish
    <3>2. CASE m.inc # None
      BY <2>1, <3>2 DEF Publish, TypeOK
    <3> QED BY <3>1, <3>2
  <2> QED BY <2>5, <2>6, <2>7
<1>7. IdealInv'
  BY <1>3, <1>6 DEF IdealInv
<1>8. at \in 0..Len(l) /\ pos \in 0..Len(l)
  BY <1>1 DEF TypeOK
<1>9. \A i \in Incidents : Shown(l, i, incidents[i], at) =>
          /\ Shown(h, i, incidents[i], at)
          /\ Fed(l, i, incidents[i], at) => Fed(h, i, incidents[i], at)
  BY <1>2, <1>3, <1>8, ShownGrows
<1>10. PageInv'
  BY <1>1, <1>3, <1>9 DEF StreamInv, PageInv, app
<1>11. ReplayInv'
  <2>1. \A k \in (pos + 1)..at : k \in 1..Len(l)
    BY <1>4, <1>8
  <2> QED BY <1>1, <1>3, <1>4, <2>1 DEF StreamInv, ReplayInv, Of
<1>12. TypeOK'
  <2>1. Len(log') <= MaxLog
    BY <1>3, <1>4, UiAssumption
  <2>2. {pos, at, upto}' \subseteq 0..Len(log')
    BY <1>1, <1>3, <1>4 DEF TypeOK
  <2>3. ideal' \in [Incidents -> IncidentStates \cup {None}]
    <3>1. ideal \in [Incidents -> IncidentStates \cup {None}]
      BY DEF TypeOK
    <3>2. \E f : ideal' = ideal \/ ideal' = [ideal EXCEPT ![m.inc] = f]
      BY DEF Publish
    <3>3. DOMAIN ideal' = Incidents /\ ideal' = [i \in Incidents |-> ideal'[i]]
      BY <3>1, <3>2
    <3> QED BY <1>6, <3>3
  <2>4. UNCHANGED <<sockets, ws, intentionallyClosed, retryDelay, timers, page, status,
                    incidents, active, gap, torn>>
    BY <1>3 DEF client, app
  <2> QED BY <2>1, <2>2, <2>3, <2>4 DEF TypeOK
<1> QED BY <1>1, <1>3, <1>4, <1>5, <1>7, <1>10, <1>11, <1>12

\* Each message of the engine is one.
LEMMA EngineStep ==
    ASSUME TypeOK, StreamInv,
           \/ PublishEvent \/ WorkEnds
           \/ \E i \in Incidents : PublishChain(i)
           \/ \E k \in Reports : PublishReport(k)
    PROVE  TypeOK' /\ StreamInv'
<1>1. Len(log) \in Nat /\ LogOK(log)
  BY DEF StreamInv, LogOK
<1>2. CASE WorkEnds
  <2>1. UNCHANGED <<log, ideal, client, pos, app, at, upto, gap, torn>> /\ work' = None
    BY <1>2 DEF WorkEnds
  <2>2. TypeOK'
    BY <2>1 DEF TypeOK, client, app
  <2>3. LogOK(log') /\ IdealInv' /\ WorkInv'
    BY <2>1 DEF StreamInv, IdealInv, WorkInv
  <2>4. PageInv' /\ ReplayInv'
    BY <2>1 DEF StreamInv, PageInv, ReplayInv, app
  <2> QED BY <2>2, <2>3, <2>4 DEF StreamInv
<1>3. CASE PublishEvent
  <2>1. PICK m : m = Message("event", None, 0)
    OBVIOUS
  <2>2. Publish(m) /\ work' = work
    BY <1>3, <2>1 DEF PublishEvent
  <2>3. m.kind = "event" /\ m.n = Len(log) + 1 /\ m \in Messages
    BY <1>1, <2>1, <2>2, UiAssumption DEF Message, Messages, Publish
  <2>4. /\ TypeOK' /\ LogOK(log') /\ IdealInv' /\ PageInv' /\ ReplayInv'
        /\ Len(log) \in Nat /\ Len(log') = Len(log) + 1
        /\ \A k \in 1..Len(log) : log'[k] = log[k]
    BY <2>2, <2>3, PublishStep DEF Reports
  <2>5. WorkInv'
    BY <2>2, <2>4 DEF StreamInv, WorkInv, Of
  <2> QED BY <2>4, <2>5 DEF StreamInv
<1>4. ASSUME NEW i \in Incidents, PublishChain(i)
      PROVE  TypeOK' /\ StreamInv'
  <2>1. PICK m : m = Message("chain_result", i, Len(log) + 1)
    OBVIOUS
  <2>2. /\ Publish(m)
        /\ work' = [inc |-> i, run |-> Len(log) + 1, due |-> {"narration", "threat_intel"}]
    BY <1>4, <2>1 DEF PublishChain
  <2>3. m.kind = "chain_result" /\ m.inc = i /\ m.run = Len(log) + 1 /\ m.n = Len(log) + 1
    BY <2>1 DEF Message
  <2>4. m \in Messages
    BY <1>1, <2>1, <2>2, UiAssumption DEF Message, Messages, Publish, Kinds
  <2>5. /\ TypeOK' /\ LogOK(log') /\ IdealInv' /\ PageInv' /\ ReplayInv'
        /\ Len(log) \in Nat /\ Len(log') = Len(log) + 1 /\ log'[Len(log) + 1] = m
    BY <2>2, <2>3, <2>4, PublishStep DEF Reports
  <2>6. /\ work' \in [inc : Incidents, run : 1..Len(log'), due : SUBSET Reports]
        /\ work'.inc = i /\ work'.run = Len(log) + 1
    BY <2>2, <2>5 DEF Reports
  <2>7. WorkInv'
    BY <2>3, <2>5, <2>6 DEF WorkInv, Of
  <2> QED BY <2>5, <2>7 DEF StreamInv
<1>5. ASSUME NEW k \in Reports, PublishReport(k)
      PROVE  TypeOK' /\ StreamInv'
  <2>1. PICK m : m = Message(k, work.inc, work.run)
    OBVIOUS
  <2>2. work # None /\ Publish(m) /\ work' = [work EXCEPT !.due = work.due \ {k}]
    BY <1>5, <2>1 DEF PublishReport
  <2>3. /\ work.inc \in Incidents /\ work.due \subseteq Reports /\ work.run \in 1..Len(log)
        /\ Of(log, work.inc, {"chain_result"}, work.run)
    BY <2>2 DEF StreamInv, WorkInv
  <2>4. m.kind = k /\ m.inc = work.inc /\ m.run = work.run /\ m.n = Len(log) + 1
    BY <2>1 DEF Message
  <2>5. m \in Messages
    <3>1. work.run \in 1..MaxLog /\ Len(log) + 1 \in 1..MaxLog
      BY <1>1, <2>2, <2>3, UiAssumption DEF Publish
    <3> QED BY <2>1, <2>3, <3>1 DEF Message, Messages, Kinds
  <2>6. /\ TypeOK' /\ LogOK(log') /\ IdealInv' /\ PageInv' /\ ReplayInv'
        /\ Len(log') = Len(log) + 1
        /\ \A n \in 1..Len(log) : log'[n] = log[n]
    BY <2>2, <2>3, <2>4, <2>5, PublishStep DEF Reports
  <2>7. WorkInv'
    <3>1. work \in [inc : Incidents, run : 1..Len(log), due : SUBSET Reports]
      BY <2>2 DEF StreamInv, WorkInv
    <3>2. work.run \in 1..Len(log')
      BY <1>1, <2>3, <2>6
    <3>3. /\ work' \in [inc : Incidents, run : 1..Len(log'), due : SUBSET Reports]
          /\ work'.inc = work.inc /\ work'.run = work.run
      BY <2>2, <3>1, <3>2
    <3> QED BY <2>3, <2>6, <3>3 DEF WorkInv, Of
  <2> QED BY <2>6, <2>7 DEF StreamInv
<1> QED BY <1>2, <1>3, <1>4, <1>5

-----------------------------------------------------------------------------
(* The client's steps *)

\* A socket more is opened, and it is the only one alive.
LEMMA OpenStep ==
    ASSUME TypeOK, SocketInv, Open, Len(sockets) < MaxSockets,
           \A s \in SocketIds : ~Alive(s), page' = "mounted", intentionallyClosed' = FALSE, timers' = 0
    PROVE  /\ SocketInv'
           /\ Len(sockets') <= MaxSockets /\ ws' \in 0..Len(sockets')
<1>1. sockets \in Seq(SocketStates) /\ "connecting" \in SocketStates
  BY DEF SocketInv, SocketStates
<1>2. /\ sockets' \in Seq(SocketStates) /\ Len(sockets) \in Nat
      /\ Len(sockets') = Len(sockets) + 1 /\ ws' = Len(sockets) + 1
      /\ \A s \in 1..Len(sockets) : sockets'[s] = sockets[s]
  BY <1>1, AppendProperties DEF Open
<1>3. \A s \in 1..Len(sockets') : s \in 1..Len(sockets) \/ s = ws'
  BY <1>2
<1>4. \A s \in 1..Len(sockets') : Alive(s)' => s = ws'
  BY <1>2, <1>3 DEF Alive, SocketIds
<1>5. Len(sockets') <= MaxSockets /\ ws' \in 0..Len(sockets')
  BY <1>2, UiAssumption
<1> QED BY <1>2, <1>4, <1>5 DEF SocketInv, SocketIds

\* One socket changes its state.
LEMMA SocketChanges ==
    ASSUME SocketInv, NEW s \in SocketIds, NEW state \in SocketStates,
           sockets' = [sockets EXCEPT ![s] = state]
    PROVE  /\ sockets' \in Seq(SocketStates) /\ Len(sockets') = Len(sockets)
           /\ SocketIds' = SocketIds
           /\ \A t \in SocketIds : sockets'[t] = IF t = s THEN state ELSE sockets[t]
<1>1. sockets \in Seq(SocketStates) /\ s \in 1..Len(sockets)
  BY DEF SocketInv, SocketIds
<1>2. sockets' \in Seq(SocketStates) /\ Len(sockets') = Len(sockets)
  BY <1>1, ExceptSeq
<1>3. \A t \in SocketIds : sockets'[t] = IF t = s THEN state ELSE sockets[t]
  BY <1>1 DEF SocketIds
<1> QED BY <1>2, <1>3 DEF SocketIds

\* The page is mounted: the first socket.
LEMMA ConnectStep ==
    ASSUME TypeOK, SocketInv, StreamInv, Connect
    PROVE  TypeOK' /\ SocketInv' /\ StreamInv'
<1>1. /\ page = "new" /\ page' = "mounted" /\ intentionallyClosed' = FALSE
      /\ retryDelay' = InitialRetry /\ Open /\ Len(sockets) < MaxSockets
      /\ UNCHANGED <<engine, timers, pos, app, at, upto, gap, torn>>
  BY DEF Connect
<1>2. timers = 0 /\ Len(sockets) = 0
  BY <1>1 DEF SocketInv
<1>3. \A s \in SocketIds : ~Alive(s)
  BY <1>2 DEF SocketIds
<1>4. SocketInv' /\ Len(sockets') <= MaxSockets /\ ws' \in 0..Len(sockets')
  BY <1>1, <1>2, <1>3, OpenStep
<1>5. retryDelay' \in InitialRetry..MaxRetry
  BY <1>1, UiAssumption
<1>6. TypeOK'
  BY <1>1, <1>4, <1>5 DEF TypeOK, engine, app
<1>7. StreamInv'
  BY <1>1, StreamQuiet DEF app
<1> QED BY <1>4, <1>6, <1>7

\* The retry fires: the next socket.
LEMMA RetryStep ==
    ASSUME TypeOK, SocketInv, StreamInv, RetryFires
    PROVE  TypeOK' /\ SocketInv' /\ StreamInv' /\ page = "mounted"
<1>1. /\ timers > 0 /\ timers' = timers - 1 /\ Open /\ Len(sockets) < MaxSockets
      /\ retryDelay' = Doubled
      /\ UNCHANGED <<engine, intentionallyClosed, page, pos, app, at, upto, gap, torn>>
  BY DEF RetryFires
<1>2. page = "mounted" /\ intentionallyClosed = FALSE
  <2>1. timers # 0
    BY <1>1
  <2>2. page = "mounted"
    BY <2>1 DEF SocketInv, TypeOK
  <2> QED BY <2>2 DEF SocketInv
<1>3. timers = 1 /\ \A s \in SocketIds : ~Alive(s)
  BY <1>1, <1>2 DEF SocketInv
<1>4. SocketInv' /\ Len(sockets') <= MaxSockets /\ ws' \in 0..Len(sockets')
  <2>1. page' = "mounted" /\ intentionallyClosed' = FALSE
    BY <1>1, <1>2
  <2>2. timers' = 0
    BY <1>1, <1>3
  <2>3. Open /\ Len(sockets) < MaxSockets
    BY <1>1
  <2> QED BY <1>3, <2>1, <2>2, <2>3, OpenStep
<1>5. retryDelay' \in InitialRetry..MaxRetry
  <2>1. retryDelay \in InitialRetry..MaxRetry
    BY DEF TypeOK
  <2> QED BY <1>1, <2>1, UiAssumption DEF Doubled
<1>6. TypeOK'
  BY <1>1, <1>3, <1>4, <1>5 DEF TypeOK, engine, app
<1>7. StreamInv'
  BY <1>1, StreamQuiet DEF app
<1> QED BY <1>2, <1>4, <1>6, <1>7

\* The page is left: the retry is canceled and the socket told to close.
LEMMA CloseStep ==
    ASSUME TypeOK, SocketInv, StreamInv, Close
    PROVE  TypeOK' /\ SocketInv' /\ StreamInv' /\ page = "mounted"
<1>1. /\ page = "mounted" /\ page' = "unmounted" /\ intentionallyClosed' = TRUE
      /\ timers' = 0 /\ ws' = 0
      /\ sockets' = IF ws # 0 /\ Alive(ws) THEN [sockets EXCEPT ![ws] = "closing"] ELSE sockets
      /\ UNCHANGED <<engine, retryDelay, pos, app, at, upto, gap, torn>>
  BY DEF Close
<1>2. \A s \in SocketIds : Alive(s) => s = ws
  BY <1>1 DEF SocketInv
<1>3. sockets \in Seq(SocketStates) /\ Len(sockets) \in Nat /\ ws \in 0..Len(sockets)
  BY DEF SocketInv, TypeOK
<1>4. CASE ws # 0 /\ Alive(ws)
  <2>1. ws \in SocketIds /\ "closing" \in SocketStates
    BY <1>3, <1>4 DEF SocketIds, SocketStates
  <2>2. PICK w \in SocketIds : w = ws
    BY <2>1
  <2>3. /\ sockets' \in Seq(SocketStates) /\ Len(sockets') = Len(sockets)
        /\ SocketIds' = SocketIds
        /\ \A t \in SocketIds : sockets'[t] = IF t = w THEN "closing" ELSE sockets[t]
    BY <1>1, <1>4, <2>1, <2>2, SocketChanges
  <2>4. \A s \in SocketIds : Alive(s)' => s = w /\ sockets'[s] = "closing"
    BY <1>2, <2>2, <2>3 DEF Alive
  <2>5. SocketInv'
    BY <1>1, <2>3, <2>4 DEF SocketInv
  <2>6. TypeOK'
    BY <1>1, <1>3, <2>3 DEF TypeOK, engine, app
  <2> QED BY <1>1, <2>5, <2>6, StreamQuiet DEF app
<1>5. CASE ~(ws # 0 /\ Alive(ws))
  <2>1. sockets' = sockets /\ SocketIds' = SocketIds
    BY <1>1, <1>5 DEF SocketIds
  <2>2. \A s \in SocketIds : ~Alive(s)
    BY <1>2, <1>3, <1>5 DEF SocketIds
  <2>3. \A s \in SocketIds : ~Alive(s)'
    BY <2>1, <2>2 DEF Alive
  <2>4. SocketInv'
    BY <1>1, <1>3, <2>1, <2>3 DEF SocketInv
  <2>5. TypeOK'
    BY <1>1, <1>3, <2>1 DEF TypeOK, engine, app
  <2> QED BY <1>1, <2>4, <2>5, StreamQuiet DEF app
<1> QED BY <1>1, <1>4, <1>5

\* A socket ends: the page that still wants one schedules a retry.
LEMMA OnCloseStep ==
    ASSUME TypeOK, SocketInv, StreamInv, NEW s \in SocketIds, OnClose(s)
    PROVE  TypeOK' /\ SocketInv' /\ StreamInv'
<1>1. /\ Alive(s) /\ sockets' = [sockets EXCEPT ![s] = "closed"]
      /\ IF intentionallyClosed THEN UNCHANGED <<timers, status>>
         ELSE timers' = timers + 1 /\ status' = "reconnecting"
      /\ UNCHANGED <<engine, ws, intentionallyClosed, retryDelay, page, pos, incidents,
                     active, at, upto, gap, torn>>
  BY DEF OnClose
<1>2. /\ sockets' \in Seq(SocketStates) /\ Len(sockets') = Len(sockets)
      /\ SocketIds' = SocketIds
      /\ \A t \in SocketIds : sockets'[t] = IF t = s THEN "closed" ELSE sockets[t]
  BY <1>1, SocketChanges DEF SocketStates
<1>3. \A t \in SocketIds : Alive(t)' => Alive(t) /\ t # s /\ sockets'[t] = sockets[t]
  BY <1>2 DEF Alive
<1>4. page # "new"
  BY <1>1 DEF SocketInv, SocketIds
<1>5. CASE page = "mounted"
  <2>1. timers = 0 /\ intentionallyClosed = FALSE
    BY <1>1, <1>5 DEF SocketInv
  <2>2. timers' = 1 /\ status' = "reconnecting"
    BY <1>1, <2>1
  <2>3. \A t \in SocketIds : ~Alive(t)'
    BY <1>1, <1>3, <1>5 DEF SocketInv
  <2>4. SocketInv'
    BY <1>1, <1>2, <1>5, <2>1, <2>2, <2>3 DEF SocketInv
  <2>5. TypeOK'
    BY <1>1, <1>2, <2>2 DEF TypeOK, engine
  <2> QED BY <1>1, <2>4, <2>5, StreamQuiet
<1>6. CASE page = "unmounted"
  <2>1. intentionallyClosed /\ UNCHANGED <<timers, status>>
    BY <1>1, <1>6 DEF SocketInv
  <2>2. SocketInv'
    BY <1>1, <1>2, <1>3, <1>6, <2>1 DEF SocketInv
  <2>3. TypeOK'
    BY <1>1, <1>2, <2>1 DEF TypeOK, engine
  <2> QED BY <1>1, <2>2, <2>3, StreamQuiet
<1> QED BY <1>4, <1>5, <1>6 DEF TypeOK

\* A socket that is not served any more is still the page's only one.
LEMMA HandlerReturnsStep ==
    ASSUME TypeOK, SocketInv, StreamInv, NEW s \in SocketIds, HandlerReturns(s)
    PROVE  TypeOK' /\ SocketInv' /\ StreamInv' /\ page = "mounted"
<1>1. /\ sockets[s] = "open" /\ sockets' = [sockets EXCEPT ![s] = "silent"]
      /\ UNCHANGED <<engine, ws, intentionallyClosed, retryDelay, timers, page, pos, app,
                     at, upto, gap, torn>>
  BY DEF HandlerReturns
<1>2. /\ sockets' \in Seq(SocketStates) /\ Len(sockets') = Len(sockets)
      /\ SocketIds' = SocketIds
      /\ \A t \in SocketIds : sockets'[t] = IF t = s THEN "silent" ELSE sockets[t]
  BY <1>1, SocketChanges DEF SocketStates
<1>3. Alive(s)
  BY <1>1 DEF Alive
<1>4. page = "mounted"
  BY <1>1, <1>3 DEF SocketInv, SocketIds, TypeOK
<1>5. \A t \in SocketIds : Alive(t)' => Alive(t)
  BY <1>2, <1>3 DEF Alive
<1>6. SocketInv'
  BY <1>1, <1>2, <1>4, <1>5 DEF SocketInv
<1>7. TypeOK'
  BY <1>1, <1>2 DEF TypeOK, engine, app
<1>8. StreamInv'
  BY <1>1, StreamQuiet DEF app
<1> QED BY <1>4, <1>6, <1>7, <1>8

\* A socket opens: what the replay will not bring whole is torn, and what it
\* will has its chains in the window.
LEMMA OnOpenStep ==
    ASSUME TypeOK, SocketInv, StreamInv, NEW s \in SocketIds, OnOpen(s)
    PROVE  TypeOK' /\ SocketInv' /\ StreamInv' /\ page = "mounted"
<1>1. /\ sockets[s] = "connecting" /\ sockets' = [sockets EXCEPT ![s] = "open"]
      /\ retryDelay' = InitialRetry /\ status' = "live" /\ pos' = Start
      /\ gap' = (gap \/ Start > at) /\ torn' = torn \cup TornBy(Start)
      /\ UNCHANGED <<engine, ws, intentionallyClosed, timers, page, incidents, active,
                     at, upto>>
  BY DEF OnOpen
<1>2. /\ sockets' \in Seq(SocketStates) /\ Len(sockets') = Len(sockets)
      /\ SocketIds' = SocketIds
      /\ \A t \in SocketIds : sockets'[t] = IF t = s THEN "open" ELSE sockets[t]
  BY <1>1, SocketChanges DEF SocketStates
<1>3. Alive(s)
  BY <1>1 DEF Alive
<1>4. page = "mounted"
  BY <1>1, <1>3 DEF SocketInv, SocketIds, TypeOK
<1>5. \A t \in SocketIds : Alive(t)' => Alive(t)
  BY <1>2, <1>3 DEF Alive
<1>6. SocketInv'
  BY <1>1, <1>2, <1>4, <1>5 DEF SocketInv
<1>7. Len(log) \in Nat /\ Start \in 0..Len(log)
  BY UiAssumption DEF StreamInv, LogOK, Start
<1>8. TypeOK'
  <2>1. retryDelay' \in InitialRetry..MaxRetry
    BY <1>1, UiAssumption
  <2>2. gap' \in BOOLEAN /\ torn' \subseteq Incidents
    BY <1>1 DEF TypeOK, TornBy
  <2>3. {pos, at, upto}' \subseteq 0..Len(log')
    BY <1>1, <1>7 DEF TypeOK, engine
  <2> QED BY <1>1, <1>2, <2>1, <2>2, <2>3 DEF TypeOK, engine
<1>9. LogOK(log') /\ WorkInv' /\ IdealInv'
  BY <1>1 DEF StreamInv, WorkInv, IdealInv, engine
<1>10. PageInv'
  <2>1. ASSUME ~gap'
        PROVE  ~gap /\ pos' <= at'
    <3>1. ~gap /\ ~(Start > at)
      BY <1>1, <2>1
    <3> QED BY <1>1, <1>7, <3>1 DEF TypeOK
  <2> QED BY <1>1, <2>1 DEF StreamInv, PageInv, engine
<1>11. ReplayInv'
  <2> SUFFICES ASSUME NEW i \in Incidents, i \notin torn', NEW k \in (Start + 1)..at,
                      Of(log, i, {"agent_activity"}, k)
               PROVE  log[k].run > Start
    BY <1>1 DEF ReplayInv, engine
  <2>1. i \notin TornBy(Start)
    BY <1>1
  <2>2. ~(log[k].run <= Start)
    BY <2>1 DEF TornBy, Of
  <2>3. k \in 1..Len(log)
    BY <1>7 DEF TypeOK
  <2>4. log[k].run \in 1..MaxLog
    BY <2>3, LogTyped, UiAssumption DEF StreamInv, Of
  <2> QED BY <1>7, <2>2, <2>4, UiAssumption
<1> QED BY <1>4, <1>6, <1>8, <1>9, <1>10, <1>11 DEF StreamInv

\* A message arrives, for the first time or again.
LEMMA OnMessageStep ==
    ASSUME TypeOK, SocketInv, StreamInv, NEW s \in SocketIds, OnMessage(s)
    PROVE  TypeOK' /\ SocketInv' /\ StreamInv' /\ page = "mounted"
<1>1. PICK m : m = log[pos + 1]
  OBVIOUS
<1>2. /\ sockets[s] = "open" /\ pos < Len(log) /\ pos' = pos + 1 /\ at' = pos + 1
      /\ upto' = IF pos + 1 > upto THEN pos + 1 ELSE upto
      /\ IF m.inc = None THEN UNCHANGED <<incidents, active, torn>>
         ELSE /\ incidents' = [incidents EXCEPT ![m.inc] = Reduce(incidents[m.inc], m)]
              /\ active' = Activate(incidents[m.inc], m)
              /\ torn' = IF m.kind = "chain_result" THEN torn \ {m.inc} ELSE torn
      /\ UNCHANGED <<engine, client, status, gap>>
  BY <1>1 DEF OnMessage
<1>3. page = "mounted"
  BY <1>2 DEF SocketInv, SocketIds, TypeOK, Alive
<1>4. SocketInv'
  BY <1>2 DEF client, SocketInv, SocketIds, Alive
<1>5. PICK l : l = log
  OBVIOUS
<1>6. PICK p \in Nat : p = pos
  BY DEF TypeOK, StreamInv, LogOK
<1>7. LogOK(l) /\ Len(l) \in Nat /\ p + 1 \in 1..Len(l) /\ m = l[p + 1]
  BY <1>1, <1>2, <1>5, <1>6 DEF StreamInv, LogOK
<1>8. /\ m.inc = None \/ (m.inc \in Incidents /\ m.kind \in Kinds /\ m.run \in 1..MaxLog)
      /\ m.n \in 1..MaxLog
  BY <1>7, LogTyped, MessageTyped
<1>9. \A i \in Incidents : incidents'[i] = IF m.inc = i THEN Reduce(incidents[i], m) ELSE incidents[i]
  <2>1. CASE m.inc = None
    BY <1>2, <2>1, UiAssumption
  <2>2. CASE m.inc # None
    BY <1>2, <2>2 DEF TypeOK
  <2> QED BY <2>1, <2>2
<1>10. \A i \in Incidents : incidents[i] \in IncidentStates \cup {None}
  BY DEF TypeOK
<1>11. ASSUME ~gap, NEW i \in Incidents
       PROVE  /\ Shown(l, i, incidents'[i], p + 1)
              /\ i \notin torn' => Fed(l, i, incidents'[i], p + 1)
  <2>1. PICK x \in IncidentStates \cup {None} : x = incidents[i]
    BY <1>10
  <2>2. PICK q \in Nat : q = at
    BY DEF TypeOK, StreamInv, LogOK
  <2>3. p \in 0..q /\ q \in 0..Len(l) /\ Shown(l, i, x, q)
        /\ (i \notin torn => Fed(l, i, x, q))
    BY <1>5, <1>6, <1>11, <2>1, <2>2 DEF StreamInv, PageInv, TypeOK
  <2>4. Shown(l, i, x, p)
    BY <2>3, ShownShrinks
  <2>5. ASSUME i \notin torn PROVE Fed(l, i, x, p)
    <3>1. \A k \in (p + 1)..q : Of(l, i, {"agent_activity"}, k) => l[k].run > p
      BY <1>5, <1>6, <2>2, <2>5 DEF StreamInv, ReplayInv
    <3> QED BY <1>7, <2>3, <2>5, <3>1, FeedShrinks DEF Shown, Fed
  <2>6. /\ m.inc # i => /\ Shown(l, i, x, p + 1)
                        /\ Fed(l, i, x, p) => Fed(l, i, x, p + 1)
        /\ m.inc = i => /\ Shown(l, i, Reduce(x, m), p + 1)
                        /\ Fed(l, i, x, p) \/ m.kind = "chain_result"
                             => Fed(l, i, Reduce(x, m), p + 1)
    BY <1>7, <2>4, ShownNext
  <2>7. i \notin torn' => i \notin torn \/ (m.inc = i /\ m.kind = "chain_result")
    BY <1>2
  <2> QED BY <1>9, <2>1, <2>5, <2>6, <2>7
<1>12. PageInv'
  BY <1>2, <1>5, <1>6, <1>7, <1>11 DEF PageInv, engine
<1>13. ReplayInv'
  <2>1. (pos' + 1)..at' = {}
    BY <1>2, <1>6
  <2> QED BY <2>1 DEF ReplayInv
<1>14. LogOK(log') /\ WorkInv' /\ IdealInv'
  BY <1>2 DEF StreamInv, WorkInv, IdealInv, engine
<1>15. TypeOK'
  <2>1. {pos, at, upto}' \subseteq 0..Len(log')
    BY <1>2, <1>5, <1>6, <1>7 DEF TypeOK, engine
  <2>2. \A i \in Incidents : incidents'[i] \in IncidentStates \cup {None}
    BY <1>8, <1>9, <1>10, ReduceTyped, UiAssumption
  <2>3. incidents' \in [Incidents -> IncidentStates \cup {None}]
    <3>1. incidents \in [Incidents -> IncidentStates \cup {None}]
      BY DEF TypeOK
    <3>2. incidents' = [i \in Incidents |-> incidents'[i]]
      BY <1>2, <3>1
    <3> QED BY <2>2, <3>2
  <2>4. active' \in Incidents \cup {None} /\ torn' \subseteq Incidents
    BY <1>2, <1>8 DEF TypeOK, Activate
  <2>5. UNCHANGED <<log, ideal, sockets, ws, intentionallyClosed, retryDelay, timers, page, status, gap>>
    BY <1>2 DEF engine, client
  <2> QED BY <2>1, <2>3, <2>4, <2>5 DEF TypeOK
<1> QED BY <1>3, <1>4, <1>12, <1>13, <1>14, <1>15 DEF StreamInv

-----------------------------------------------------------------------------
(* The theorems *)

\* Nothing is published, opened or shown at first.
LEMMA InvInit == Init => IInv
<1> SUFFICES ASSUME Init PROVE IInv
  OBVIOUS
<1>1. /\ log = <<>> /\ Len(log) = 0 /\ log \in Seq(Messages)
      /\ sockets = <<>> /\ Len(sockets) = 0 /\ sockets \in Seq(SocketStates)
  BY DEF Init
<1>2. TypeOK
  <2>1. Len(log) <= MaxLog /\ Len(sockets) <= MaxSockets /\ ws \in 0..Len(sockets)
    BY <1>1, UiAssumption DEF Init
  <2>2. retryDelay \in InitialRetry..MaxRetry /\ {pos, at, upto} \subseteq 0..Len(log)
    BY <1>1, UiAssumption DEF Init
  <2>3. /\ incidents \in [Incidents -> IncidentStates \cup {None}]
        /\ ideal \in [Incidents -> IncidentStates \cup {None}]
    BY DEF Init
  <2> QED BY <2>1, <2>2, <2>3 DEF Init, TypeOK
<1>3. SocketInv
  BY <1>1 DEF Init, SocketInv
<1>4. LogOK(log)
  BY <1>1, UiAssumption DEF LogOK
<1>5. WorkInv
  BY DEF Init, WorkInv
<1>6. ASSUME NEW i \in Incidents
      PROVE  Shown(log, i, None, 0) /\ Fed(log, i, None, 0)
  <2>1. \A k \in 1..0 : FALSE
    OBVIOUS
  <2>2. \A K : Last(log, i, K, 0, 0)
    BY <2>1 DEF Last
  <2>3. 0 \in 0..Len(log) /\ RunAt(log, 0) = 0
    BY <1>1 DEF RunAt
  <2>4. \A k : ShowsRun(log, i, k, 0, 0)
    BY <2>2, <2>3 DEF ShowsRun
  <2>5. \A K : Awaits(log, i, K, TRUE, 0)
    BY <2>2, <2>3 DEF Awaits
  <2>6. FieldsOK(log, i, Blank, 0)
    BY <2>2, <2>4, <2>5 DEF FieldsOK, Blank
  <2>7. FeedOK(log, i, Blank, 0)
    BY <2>1 DEF FeedOK, Lists, StepsOf, Blank
  <2>8. OrPlaceholder(None) = Blank /\ Known(log, i, None, 0)
    BY <2>1 DEF OrPlaceholder, Known
  <2> QED BY <2>6, <2>7, <2>8 DEF Shown, Fed
<1>7. IdealInv /\ PageInv
  <2>1. /\ Len(log) = 0 /\ at = 0 /\ pos = 0
        /\ \A i \in Incidents : incidents[i] = None /\ ideal[i] = None
    BY <1>1 DEF Init
  <2> QED BY <1>6, <2>1 DEF IdealInv, PageInv
<1>8. ReplayInv
  BY DEF Init, ReplayInv
<1> QED BY <1>2, <1>3, <1>4, <1>5, <1>7, <1>8 DEF IInv, StreamInv

\* The engine's steps are none of the client's.
LEMMA EngineQuiet ==
    ASSUME SocketInv,
           \/ PublishEvent \/ WorkEnds
           \/ \E i \in Incidents : PublishChain(i)
           \/ \E k \in Reports : PublishReport(k)
    PROVE  UNCHANGED client /\ UNCHANGED app /\ SocketInv'
<1>1. UNCHANGED client /\ UNCHANGED app
  BY DEF PublishEvent, WorkEnds, PublishChain, PublishReport, Publish
<1> QED BY <1>1 DEF client, SocketInv, SocketIds, Alive

\* Every step keeps the invariant, and one of a page that was left is silent.
LEMMA InvStep ==
    IInv /\ [Next]_vars =>
        /\ IInv'
        /\ page = "unmounted" => Len(sockets') = Len(sockets) /\ timers' = 0 /\ UNCHANGED app
<1> SUFFICES ASSUME IInv, [Next]_vars
             PROVE  /\ IInv'
                    /\ page = "unmounted" => /\ Len(sockets') = Len(sockets) /\ timers' = 0
                                             /\ UNCHANGED app
  OBVIOUS
<1>1. TypeOK /\ SocketInv /\ StreamInv
  BY DEF IInv
<1>2. page = "unmounted" => timers = 0
  BY <1>1 DEF SocketInv
<1>3. CASE UNCHANGED vars
  <2>1. UNCHANGED <<pos, at, upto, gap, torn>> /\ UNCHANGED engine /\ UNCHANGED client /\ UNCHANGED app
    BY <1>3 DEF vars
  <2>2. TypeOK'
    BY <1>1, <2>1 DEF TypeOK, engine, client, app
  <2>3. SocketInv' /\ UNCHANGED <<sockets, timers>>
    BY <1>1, <2>1 DEF client, SocketInv, SocketIds, Alive
  <2>4. StreamInv'
    BY <1>1, <2>1, StreamQuiet DEF app
  <2> QED BY <1>2, <2>1, <2>2, <2>3, <2>4 DEF IInv
<1>4. CASE \/ PublishEvent \/ WorkEnds
           \/ \E i \in Incidents : PublishChain(i)
           \/ \E k \in Reports : PublishReport(k)
  <2>1. TypeOK' /\ StreamInv'
    BY <1>1, <1>4, EngineStep
  <2>2. UNCHANGED client /\ UNCHANGED app /\ SocketInv'
    BY <1>1, <1>4, EngineQuiet
  <2>3. UNCHANGED <<sockets, timers>>
    BY <2>2 DEF client
  <2> QED BY <1>2, <2>1, <2>2, <2>3 DEF IInv
<1>5. CASE Connect
  <2>1. page = "new"
    BY <1>5 DEF Connect
  <2> QED BY <1>1, <1>5, <2>1, ConnectStep DEF IInv
<1>6. CASE Close \/ RetryFires \/ \E s \in SocketIds : OnOpen(s) \/ OnMessage(s) \/ HandlerReturns(s)
  <2>1. TypeOK' /\ SocketInv' /\ StreamInv' /\ page = "mounted"
    BY <1>1, <1>6, CloseStep, RetryStep, OnOpenStep, OnMessageStep,
       HandlerReturnsStep
  <2> QED BY <2>1 DEF IInv
<1>7. ASSUME NEW s \in SocketIds, OnClose(s)
      PROVE  /\ IInv'
             /\ page = "unmounted" => /\ Len(sockets') = Len(sockets) /\ timers' = 0
                                      /\ UNCHANGED app
  <2>1. TypeOK' /\ SocketInv' /\ StreamInv'
    BY <1>1, <1>7, OnCloseStep
  <2>2. Len(sockets') = Len(sockets)
    BY <1>1, <1>7, SocketChanges DEF OnClose, SocketStates
  <2>3. ASSUME page = "unmounted" PROVE timers' = 0 /\ UNCHANGED app
    <3>1. intentionallyClosed = TRUE
      BY <1>1, <2>3 DEF SocketInv
    <3> QED BY <1>2, <1>7, <2>3, <3>1 DEF OnClose, app
  <2> QED BY <2>1, <2>2, <2>3 DEF IInv
<1> QED BY <1>3, <1>4, <1>5, <1>6, <1>7 DEF Next

\* The inductive invariant holds of every reachable state.
THEOREM Invariant == Spec => []IInv
BY InvInit, InvStep, PTL DEF Spec

\* Every variable of the client, the page and the log stays in its type.
THEOREM TypeCorrect == Spec => []TypeOK
<1>1. IInv => TypeOK
  BY DEF IInv
<1> QED BY <1>1, Invariant, PTL

\* Through any sequence of drops, retries and a close, at most one socket is
\* alive, and no retry is scheduled beside it.
THEOREM OneSocketAlive == Spec => []OneSocket
<1>1. IInv => OneSocket
  <2> SUFFICES ASSUME IInv, NEW s \in SocketIds, Alive(s)
               PROVE  timers = 0 /\ \A t \in SocketIds : Alive(t) => t = s
    BY DEF OneSocket
  <2>1. SocketInv /\ page \in {"mounted", "unmounted"}
    BY DEF IInv, TypeOK, SocketInv, SocketIds
  <2> QED BY <2>1 DEF SocketInv
<1> QED BY <1>1, Invariant, PTL

\* A page that was left opens no socket, schedules no retry and hears nothing,
\* whichever of the client's callbacks were still to come.
THEOREM LeftPageIsSilent == Spec => SilentAfterClose
<1>1. IInv /\ [Next]_vars =>
          [page = "unmounted" => /\ Len(sockets') = Len(sockets) /\ timers' = 0
                                 /\ UNCHANGED app]_vars
  BY InvStep
<1> QED BY <1>1, Invariant, PTL DEF Spec, SilentAfterClose

\* Once a replay without a gap is over, every incident whose agent steps came
\* with their chain looks as it does to a client that was never cut off: the
\* fields by the last message that sets each, the feed by its order.
THEOREM ReplayShowsNothing == Spec => []ReplayIsTransparent
<1>1. IInv => ReplayIsTransparent
  <2> SUFFICES ASSUME IInv, at = Len(log), ~gap, NEW i \in Incidents \ torn
               PROVE  incidents[i] = ideal[i]
    BY DEF ReplayIsTransparent
  <2>1. /\ incidents[i] \in IncidentStates \cup {None}
        /\ ideal[i] \in IncidentStates \cup {None}
    BY DEF IInv, TypeOK
  <2>2. Shown(log, i, incidents[i], Len(log)) /\ Fed(log, i, incidents[i], Len(log))
    BY DEF IInv, StreamInv, PageInv
  <2>3. Shown(log, i, ideal[i], Len(log)) /\ Fed(log, i, ideal[i], Len(log))
    BY DEF IInv, StreamInv, IdealInv
  <2>4. PICK l : l = log
    OBVIOUS
  <2>5. LogOK(l)
    BY <2>4 DEF IInv, StreamInv
  <2> QED BY <2>1, <2>2, <2>3, <2>4, <2>5, ShownUnique
<1> QED BY <1>1, Invariant, PTL
=============================================================================
