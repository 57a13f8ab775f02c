-------------------------- MODULE RestSourceProofs --------------------------
(***************************************************************************)
(* What RestSource keeps for any number of events and times, any capacity  *)
(* and any delays.                                                         *)
(***************************************************************************)
EXTENDS RestSource, TLAPS

\* The goroutine can still send.
Running == pc \in {"loop", "read", "offer", "backoff"}

\* The channel is closed only after Close has waited for the goroutine, or
\* before there was one.
ClosedAfterUse == /\ outClosed => closer = "done"
                  /\ closer = "done" => ~Running

\* The rows of the open response that have not been delivered.
Coming == rows \cup ({held} \ {None})

\* Everything delivered lies at or before the resume point, which is the time
\* of some event, and the open window started no later than that.
Resumed == /\ \A e \in seen : time[e] <= lastTS
           /\ from <= lastTS
           /\ lastTS # 0 => \E e \in Indexed : time[e] = lastTS
           /\ tail /\ lastTS = 0 => owed = {}

\* What an open response still has to bring is indexed, inside its window, and
\* brought once; it has been delivered before only if it is of the very first
\* instant of the window.
Opened == /\ pc \notin {"read", "offer"} => rows = {}
          /\ pc = "offer" => held \in Good \ rows
          /\ \A f \in Coming : time[f] >= from
          /\ \A f \in Coming \cap seen : time[f] = from

\* Under order: what is still to come is no older than what has been
\* delivered, the row in hand is the oldest of it, and what the open response
\* does not bring is no older than anything it brings.
InLine ==
    ordered /\ pc \in {"read", "offer"} =>
        /\ \A f \in Coming : time[f] >= lastTS
        /\ pc = "offer" => \A f \in rows : time[held] <= time[f]
        /\ \A e \in owed : \/ e \in seen \cup Coming
                           \/ /\ ~live
                              /\ \A f \in Coming : time[f] <= time[e]

IInv == TypeOK /\ NoPanic /\ ClosedAfterUse /\ Resumed /\ Opened /\ InLine /\ NothingSkipped

-----------------------------------------------------------------------------
\* The state keeps its type under every step.
LEMMA TypeStep == TypeOK /\ [Next]_vars => TypeOK'
<1> SUFFICES ASSUME TypeOK, [Next]_vars PROVE TypeOK'
    OBVIOUS
<1> USE RestAssumption DEF TypeOK, Indexed, Good, Kinds
<1>1. ASSUME NEW e \in Events, NEW t \in 1..MaxTime, NEW k \in Kinds, Index(e, t, k)
      PROVE TypeOK'
    BY <1>1 DEF Index, shared
<1>2. CASE Start
    BY <1>2 DEF Start, splunk, shared
<1>3. CASE Connect
    BY <1>3 DEF Connect, Earliest, Window, shared
<1>4. CASE ConnectFails
    BY <1>4 DEF ConnectFails, StreamEnds, AfterStream, splunk, shared
<1>5. CASE Drop
    BY <1>5 DEF Drop, StreamEnds, AfterStream, splunk, shared
<1>6. ASSUME NEW e \in Events, ReadOldest(e) \/ ReadEarly(e)
      PROVE TypeOK'
    <2> PICK g \in Events : ReadRow(g)
        BY <1>6 DEF ReadOldest, ReadEarly
    <2>1. ordered' \in BOOLEAN
        BY <1>6, Zenon DEF ReadOldest, ReadEarly
    <2>2. CASE kind[g] = "good"
        BY <2>1, <2>2 DEF ReadRow, splunk, shared
    <2>3. CASE kind[g] = "malformed"
        BY <2>1, <2>3 DEF ReadRow, splunk, shared
    <2>4. CASE kind[g] = "oversized"
        BY <2>1, <2>4 DEF ReadRow, StreamEnds, AfterStream, splunk, shared
    <2> QED
        BY <2>2, <2>3, <2>4 DEF ReadRow
<1>7. CASE Offer
    BY <1>7 DEF Offer, Resume, Later, splunk
<1>8. CASE WaitEnds
    BY <1>8 DEF WaitEnds, Doubled, splunk, shared
<1>9. CASE Canceled
    BY <1>9 DEF Canceled, splunk, shared
<1>10. CASE ParentCanceled
    BY <1>10 DEF ParentCanceled, splunk
<1>11. CASE Close
    BY <1>11 DEF Close, splunk
<1>12. CASE CloseDone
    BY <1>12 DEF CloseDone, splunk
<1>13. CASE Consume
    BY <1>13 DEF Consume, splunk, shared
<1>14. CASE UNCHANGED vars
    BY <1>14 DEF vars, splunk, shared
<1> QED
    BY <1>1, <1>2, <1>3, <1>4, <1>5, <1>6, <1>7, <1>8, <1>9, <1>10, <1>11, <1>12,
       <1>13, <1>14 DEF Next

\* Closing waits, so nothing is sent afterwards.
LEMMA CloseStep ==
    TypeOK /\ ClosedAfterUse /\ NoPanic /\ [Next]_vars => (ClosedAfterUse /\ NoPanic)'
<1> SUFFICES ASSUME TypeOK, ClosedAfterUse, NoPanic, [Next]_vars PROVE (ClosedAfterUse /\ NoPanic)'
    OBVIOUS
<1> USE RestAssumption DEF TypeOK, Indexed, Good, splunk, shared, ClosedAfterUse, NoPanic, Running
<1>1. ASSUME NEW e \in Events, NEW t \in 1..MaxTime, NEW k \in Kinds, Index(e, t, k)
      PROVE (ClosedAfterUse /\ NoPanic)'
    BY <1>1 DEF Index
<1>2. ASSUME NEW g \in Events, ReadOldest(g) \/ ReadEarly(g)
      PROVE (ClosedAfterUse /\ NoPanic)'
    BY <1>2 DEF ReadOldest, ReadEarly, Oldest, ReadRow, StreamEnds, AfterStream
<1>3. CASE Start
    BY <1>3 DEF Start
<1>4. CASE Connect
    BY <1>4 DEF Connect, Earliest, Window, shared
<1>5. CASE ConnectFails
    BY <1>5 DEF ConnectFails, StreamEnds, AfterStream
<1>6. CASE Drop
    BY <1>6 DEF Drop, StreamEnds, AfterStream
<1>7. CASE Offer
    BY <1>7 DEF Offer, Resume, Later
<1>8. CASE WaitEnds
    BY <1>8 DEF WaitEnds, Doubled
<1>9. CASE Canceled
    BY <1>9 DEF Canceled
<1>10. CASE ParentCanceled
    BY <1>10 DEF ParentCanceled
<1>11. CASE Close
    BY <1>11 DEF Close
<1>12. CASE CloseDone
    BY <1>12 DEF CloseDone
<1>13. CASE Consume
    BY <1>13 DEF Consume
<1>14. CASE UNCHANGED vars
    BY <1>14 DEF vars
<1> QED
    BY <1>1, <1>2, <1>3, <1>4, <1>5, <1>6, <1>7, <1>8, <1>9, <1>10, <1>11, <1>12,
       <1>13, <1>14 DEF Next

\* The resume point never falls behind what was delivered.
LEMMA ResumedStep ==
    TypeOK /\ Resumed /\ Opened /\ [Next]_vars => Resumed'
<1> SUFFICES ASSUME TypeOK, Resumed, Opened, [Next]_vars PROVE Resumed'
    OBVIOUS
<1> USE RestAssumption DEF TypeOK, Indexed, Good, splunk, shared, Resumed, Opened, Coming
<1>1. ASSUME NEW e \in Events, NEW t \in 1..MaxTime, NEW k \in Kinds, Index(e, t, k)
      PROVE Resumed'
    BY <1>1 DEF Index
<1>2. ASSUME NEW g \in Events, ReadOldest(g) \/ ReadEarly(g)
      PROVE Resumed'
    BY <1>2 DEF ReadOldest, ReadEarly, Oldest, ReadRow, StreamEnds, AfterStream
<1>3. CASE Start
    BY <1>3 DEF Start
<1>4. CASE Connect
    BY <1>4 DEF Connect, Earliest, Window, shared
<1>5. CASE ConnectFails
    BY <1>5 DEF ConnectFails, StreamEnds, AfterStream
<1>6. CASE Drop
    BY <1>6 DEF Drop, StreamEnds, AfterStream
<1>7. CASE Offer
    BY <1>7 DEF Offer, Resume, Later
<1>8. CASE WaitEnds
    BY <1>8 DEF WaitEnds, Doubled
<1>9. CASE Canceled
    BY <1>9 DEF Canceled
<1>10. CASE ParentCanceled
    BY <1>10 DEF ParentCanceled
<1>11. CASE Close
    BY <1>11 DEF Close
<1>12. CASE CloseDone
    BY <1>12 DEF CloseDone
<1>13. CASE Consume
    BY <1>13 DEF Consume
<1>14. CASE UNCHANGED vars
    BY <1>14 DEF vars
<1> QED
    BY <1>1, <1>2, <1>3, <1>4, <1>5, <1>6, <1>7, <1>8, <1>9, <1>10, <1>11, <1>12,
       <1>13, <1>14 DEF Next

\* A response brings nothing twice and nothing from before its window.
LEMMA OpenedStep ==
    TypeOK /\ Resumed /\ Opened /\ [Next]_vars => Opened'
<1> SUFFICES ASSUME TypeOK, Resumed, Opened, [Next]_vars PROVE Opened'
    OBVIOUS
<1> USE RestAssumption DEF TypeOK, Indexed, Good, splunk, shared, Resumed, Opened, Coming
<1>1. ASSUME NEW e \in Events, NEW t \in 1..MaxTime, NEW k \in Kinds, Index(e, t, k)
      PROVE Opened'
    BY <1>1 DEF Index
<1>2. ASSUME NEW g \in Events, ReadOldest(g) \/ ReadEarly(g)
      PROVE Opened'
    BY <1>2 DEF ReadOldest, ReadEarly, Oldest, ReadRow, StreamEnds, AfterStream
<1>3. CASE Start
    BY <1>3 DEF Start
<1>4. CASE Connect
    BY <1>4 DEF Connect, Earliest, Window, shared
<1>5. CASE ConnectFails
    BY <1>5 DEF ConnectFails, StreamEnds, AfterStream
<1>6. CASE Drop
    BY <1>6 DEF Drop, StreamEnds, AfterStream
<1>7. CASE Offer
    BY <1>7 DEF Offer, Resume, Later
<1>8. CASE WaitEnds
    BY <1>8 DEF WaitEnds, Doubled
<1>9. CASE Canceled
    BY <1>9 DEF Canceled
<1>10. CASE ParentCanceled
    BY <1>10 DEF ParentCanceled
<1>11. CASE Close
    BY <1>11 DEF Close
<1>12. CASE CloseDone
    BY <1>12 DEF CloseDone
<1>13. CASE Consume
    BY <1>13 DEF Consume
<1>14. CASE UNCHANGED vars
    BY <1>14 DEF vars
<1> QED
    BY <1>1, <1>2, <1>3, <1>4, <1>5, <1>6, <1>7, <1>8, <1>9, <1>10, <1>11, <1>12,
       <1>13, <1>14 DEF Next

\* Order is kept from one row to the next and from one response to the next.
LEMMA InLineStep ==
    TypeOK /\ Resumed /\ Opened /\ NothingSkipped /\ InLine /\ [Next]_vars => InLine'
<1> SUFFICES ASSUME TypeOK, Resumed, Opened, NothingSkipped, InLine, [Next]_vars PROVE InLine'
    OBVIOUS
<1> USE RestAssumption DEF TypeOK, Indexed, Good, splunk, shared, Resumed, Opened, Coming, InLine, NothingSkipped
<1>1. ASSUME NEW e \in Events, NEW t \in 1..MaxTime, NEW k \in Kinds, Index(e, t, k)
      PROVE InLine'
    <2>1. /\ time' = [time EXCEPT ![e] = t] /\ kind' = [kind EXCEPT ![e] = k]
          /\ time[e] = 0 /\ time'[e] = t /\ t # 0
          /\ \A f \in Events \ {e} : time'[f] = time[f]
        BY <1>1 DEF Index
    <2>2. ordered' => ordered /\ \A f \in Indexed : time[f] <= t
        <3> HIDE DEF TypeOK, Indexed
        <3> QED
            BY <1>1, Zenon DEF Index
    <2>3. ordered' => t >= lastTS
        BY <1>1, <2>1, <2>2
    <2> SUFFICES ASSUME ordered', pc' \in {"read", "offer"}
                 PROVE /\ \A f \in Coming' : time'[f] >= lastTS'
                       /\ pc' = "offer" => \A f \in rows' : time'[held'] <= time'[f]
                       /\ \A a \in owed' : \/ a \in seen' \cup Coming'
                                           \/ /\ ~live'
                                              /\ \A f \in Coming' : time'[f] <= time'[a]
        OBVIOUS
    <2>4. /\ ordered /\ pc \in {"read", "offer"}
          /\ UNCHANGED <<live, pc, held, lastTS, seen>>
          /\ rows' = IF live THEN rows \cup {e} ELSE rows
          /\ owed' \subseteq owed \cup {e}
        BY <2>1, <2>3, <1>1 DEF Index
    <2>5. \A f \in Coming : f \in Indexed /\ f # e /\ time'[f] = time[f] /\ time[f] <= t
        BY <2>1, <2>2
    <2>6. Coming' = IF live THEN Coming \cup {e} ELSE Coming
        BY <2>4, <2>1
    <2>7. \A f \in Coming' : time'[f] >= lastTS'
        BY <2>1, <2>3, <2>4, <2>5, <2>6
    <2>8. pc' = "offer" => \A f \in rows' : time'[held'] <= time'[f]
        BY <2>1, <2>4, <2>5
    <2>9. ASSUME NEW a \in owed'
          PROVE \/ a \in seen' \cup Coming'
                \/ /\ ~live'
                   /\ \A f \in Coming' : time'[f] <= time'[a]
        <3>1. CASE a = e
            BY <3>1, <2>1, <2>4, <2>5, <2>6
        <3>2. CASE a # e
            <4>1. a \in owed /\ a \in Events /\ time'[a] = time[a]
                BY <3>2, <2>1, <2>4, <2>9
            <4> QED
                BY <4>1, <2>4, <2>5, <2>6
        <3> QED
            BY <3>1, <3>2
    <2> QED
        BY <2>7, <2>8, <2>9
<1>2. ASSUME NEW g \in Events, ReadOldest(g) \/ ReadEarly(g)
      PROVE InLine'
    BY <1>2 DEF ReadOldest, ReadEarly, Oldest, ReadRow, StreamEnds, AfterStream
<1>3. CASE Start
    BY <1>3 DEF Start
<1>4. CASE Connect
    BY <1>4 DEF Connect, Earliest, Window, shared
<1>5. CASE ConnectFails
    BY <1>5 DEF ConnectFails, StreamEnds, AfterStream
<1>6. CASE Drop
    BY <1>6 DEF Drop, StreamEnds, AfterStream
<1>7. CASE Offer
    BY <1>7 DEF Offer, Resume, Later
<1>8. CASE WaitEnds
    BY <1>8 DEF WaitEnds, Doubled
<1>9. CASE Canceled
    BY <1>9 DEF Canceled
<1>10. CASE ParentCanceled
    BY <1>10 DEF ParentCanceled
<1>11. CASE Close
    BY <1>11 DEF Close
<1>12. CASE CloseDone
    BY <1>12 DEF CloseDone
<1>13. CASE Consume
    BY <1>13 DEF Consume
<1>14. CASE UNCHANGED vars
    BY <1>14 DEF vars
<1> QED
    BY <1>1, <1>2, <1>3, <1>4, <1>5, <1>6, <1>7, <1>8, <1>9, <1>10, <1>11, <1>12,
       <1>13, <1>14 DEF Next

\* No step leaves an event behind the resume point.
LEMMA SkipStep ==
    TypeOK /\ Resumed /\ Opened /\ InLine /\ NothingSkipped /\ [Next]_vars => NothingSkipped'
<1> SUFFICES ASSUME TypeOK, Resumed, Opened, InLine, NothingSkipped, [Next]_vars PROVE NothingSkipped'
    OBVIOUS
<1> USE RestAssumption DEF TypeOK, Indexed, Good, splunk, shared, Resumed, Opened, Coming, InLine, NothingSkipped
<1>1. ASSUME NEW e \in Events, NEW t \in 1..MaxTime, NEW k \in Kinds, Index(e, t, k)
      PROVE NothingSkipped'
    <2>1. /\ time' = [time EXCEPT ![e] = t] /\ kind' = [kind EXCEPT ![e] = k]
          /\ time[e] = 0 /\ time'[e] = t /\ t # 0
          /\ \A f \in Events \ {e} : time'[f] = time[f]
        BY <1>1 DEF Index
    <2>2. ordered' => ordered /\ \A f \in Indexed : time[f] <= t
        <3> HIDE DEF TypeOK, Indexed
        <3> QED
            BY <1>1, Zenon DEF Index
    <2>3. ordered' => t >= lastTS
        BY <1>1, <2>1, <2>2
    <2>4. ASSUME ordered', NEW a \in owed'
          PROVE \/ a \in seen' \cup rows' \cup {held'}
                \/ pc' = "returned"
                \/ /\ time'[a] >= lastTS'
                   /\ ~(live' /\ pc' \in {"read", "offer"})
        <3>1. CASE a = e
            BY <3>1, <2>1, <2>3, <2>4, <1>1 DEF Index
        <3>2. CASE a # e
            <4>1. a \in owed /\ a \in Events /\ time'[a] = time[a] /\ ordered
                BY <3>2, <2>1, <2>4, <1>1 DEF Index
            <4> QED
                BY <4>1, <1>1 DEF Index
        <3> QED
            BY <3>1, <3>2
    <2> QED
        BY <2>4
<1>2. ASSUME NEW g \in Events, ReadOldest(g) \/ ReadEarly(g)
      PROVE NothingSkipped'
    BY <1>2 DEF ReadOldest, ReadEarly, Oldest, ReadRow, StreamEnds, AfterStream
<1>3. CASE Start
    BY <1>3 DEF Start
<1>4. CASE Connect
    BY <1>4 DEF Connect, Earliest, Window, shared
<1>5. CASE ConnectFails
    BY <1>5 DEF ConnectFails, StreamEnds, AfterStream
<1>6. CASE Drop
    BY <1>6 DEF Drop, StreamEnds, AfterStream
<1>7. CASE Offer
    BY <1>7 DEF Offer, Resume, Later
<1>8. CASE WaitEnds
    BY <1>8 DEF WaitEnds, Doubled
<1>9. CASE Canceled
    BY <1>9 DEF Canceled
<1>10. CASE ParentCanceled
    BY <1>10 DEF ParentCanceled
<1>11. CASE Close
    BY <1>11 DEF Close
<1>12. CASE CloseDone
    BY <1>12 DEF CloseDone
<1>13. CASE Consume
    BY <1>13 DEF Consume
<1>14. CASE UNCHANGED vars
    BY <1>14 DEF vars
<1> QED
    BY <1>1, <1>2, <1>3, <1>4, <1>5, <1>6, <1>7, <1>8, <1>9, <1>10, <1>11, <1>12,
       <1>13, <1>14 DEF Next
-----------------------------------------------------------------------------
\* The strengthened invariant is inductive.
\* It holds initially.
LEMMA InitSafe == Init => IInv
<1> SUFFICES ASSUME Init PROVE IInv
    OBVIOUS
<1>1. Indexed = {} /\ Coming = {}
    BY DEF Init, Indexed, Coming
<1>2. TypeOK
    <2>1. (pc = "offer") <=> (held # None)
        BY DEF Init
    <2>2. time \in [Events -> 0..MaxTime] /\ kind \in [Events -> Kinds]
        BY RestAssumption DEF Init, Kinds
    <2>3. /\ tail \in BOOLEAN /\ live \in BOOLEAN /\ delivered \in BOOLEAN
          /\ canceled \in BOOLEAN /\ outClosed \in BOOLEAN
          /\ panicked \in BOOLEAN /\ ordered \in BOOLEAN
        BY Zenon DEF Init
    <2>4. /\ from \in 0..MaxTime /\ lastTS \in 0..MaxTime /\ out \in 0..OutCap
          /\ backoff \in InitialBackoff..MaxBackoff
        BY RestAssumption DEF Init
    <2>5. /\ rows = {} /\ seen = {} /\ owed = {} /\ held = None
          /\ pc = "new" /\ closer = "none"
        BY DEF Init
    <2> QED
        BY <2>1, <2>2, <2>3, <2>4, <2>5 DEF TypeOK
<1>3. NoPanic /\ ClosedAfterUse
    BY DEF Init, NoPanic, ClosedAfterUse, Running
<1>4. Resumed /\ Opened
    BY <1>1 DEF Init, Resumed, Opened
<1>5. InLine /\ NothingSkipped
    BY DEF Init, InLine, NothingSkipped
<1> QED
    BY <1>2, <1>3, <1>4, <1>5 DEF IInv

LEMMA Inductive == IInv /\ [Next]_vars => IInv'
BY TypeStep, CloseStep, ResumedStep, OpenedStep, InLineStep, SkipStep DEF IInv

\* So it holds throughout.
LEMMA Invariant == Spec => []IInv
BY InitSafe, Inductive, PTL DEF Spec

\* In every reachable state the variables have their types: the backoff delay
\* stays between its bounds, the channel within its capacity, and a held row is
\* an indexed event.
THEOREM TypeCorrect == Spec => []TypeOK
<1>1. IInv => TypeOK
    BY DEF IInv
<1> QED
    BY <1>1, Invariant, PTL

\* However Close, the canceling of the context and the goroutine interleave,
\* the goroutine never sends on the channel after Close has closed it.
THEOREM NeverSendsOnClosed == Spec => []NoPanic
<1>1. IInv => NoPanic
    BY DEF IInv
<1> QED
    BY <1>1, Invariant, PTL

\* Through any number of dropped connections, an event the source has asked
\* for is delivered, on its way, or inside the window of the next request, as
\* long as events are indexed and returned oldest first.
THEOREM ReconnectSkipsNothing == Spec => []NothingSkipped
<1>1. IInv => NothingSkipped
    BY DEF IInv
<1> QED
    BY <1>1, Invariant, PTL

\* An event is delivered a second time only when its time is exactly the
\* earliest time of the request that brings it again.
THEOREM ReconnectRepeatsOneInstant == Spec => OnlyLastInstantRepeated
<1>1. IInv => \A e \in seen : (pc = "offer" /\ held = e /\ out' = out + 1
                                 => from # 0 /\ time[e] = from)
    BY RestAssumption DEF IInv, TypeOK, Opened, Coming, Indexed
<1> QED
    BY <1>1, Invariant, PTL DEF OnlyLastInstantRepeated
=============================================================================
