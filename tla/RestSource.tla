----------------------------- MODULE RestSource -----------------------------
(***************************************************************************)
(* The live event source (engine/internal/splunk/rest.go): one goroutine   *)
(* that holds an export request to Splunk open, forwards its rows into a   *)
(* bounded channel, and reconnects with backoff from the time of the       *)
(* newest event it has delivered.                                          *)
(*                                                                         *)
(* Splunk is external: events enter its index in any order, and an export  *)
(* request returns the indexed rows of its window, in any order, and some  *)
(* also the rows that are indexed meanwhile, until the response ends or    *)
(* breaks.  Time 0 is Go's zero time.  Of the channel only the number of   *)
(* events in it is kept.                                                   *)
(***************************************************************************)
EXTENDS Integers

CONSTANTS Events,          \* events that may be indexed
          MaxTime,         \* event times are 1..MaxTime
          OutCap,          \* capacity of the out channel
          InitialBackoff,  \* first reconnect delay
          MaxBackoff,      \* cap of the delay
          None             \* no event

ASSUME RestAssumption == /\ MaxTime \in Nat /\ OutCap \in Nat \ {0}
                         /\ InitialBackoff \in Nat \ {0}
                         /\ MaxBackoff \in Nat /\ MaxBackoff >= InitialBackoff
                         /\ None \notin Events

VARIABLES
    \* Splunk
    time,       \* time of each indexed event, 0 before it is indexed
    kind,       \* whether the row decodes, and whether it fits the buffer
    rows,       \* rows of the open response still to come
    live,       \* the open response goes on with what is indexed meanwhile
    tail,       \* the configured window is a real-time tail, not the history
    \* the streaming goroutine
    pc, held, from, delivered, lastTS, backoff,
    \* what it shares
    canceled, closer, out, outClosed,
    \* history
    panicked,   \* a send on a closed channel
    seen,       \* events delivered at least once
    owed,       \* events indexed in a window the source has asked for
    ordered     \* events were indexed, and rows sent, oldest first

splunk == <<time, kind, tail, live, owed>>
shared == <<canceled, closer, outClosed, panicked>>
vars == <<splunk, rows, ordered, pc, held, from, delivered, lastTS, backoff,
          shared, out, seen>>

Kinds == {"good", "malformed", "oversized"}

Indexed == {e \in Events : time[e] # 0}
Good == {e \in Indexed : kind[e] = "good"}

Init == /\ time = [e \in Events |-> 0] /\ kind = [e \in Events |-> "good"]
        /\ rows = {} /\ tail \in BOOLEAN /\ live = FALSE
        /\ pc = "new" /\ held = None /\ from = 0 /\ delivered = FALSE
        /\ lastTS = 0 /\ backoff = InitialBackoff
        /\ canceled = FALSE /\ closer = "none" /\ out = 0 /\ outClosed = FALSE
        /\ panicked = FALSE /\ seen = {} /\ owed = {} /\ ordered = TRUE

Later(a, b) == IF a >= b THEN a ELSE b

-----------------------------------------------------------------------------
(* Splunk *)

\* An event is indexed.
Index(e, t, k) ==
    /\ time[e] = 0
    /\ time' = [time EXCEPT ![e] = t] /\ kind' = [kind EXCEPT ![e] = k]
    /\ rows' = IF pc \in {"read", "offer"} /\ live /\ t >= from
               THEN rows \cup {e} ELSE rows
    /\ owed' = IF k = "good" /\ (~tail \/ lastTS # 0) THEN owed \cup {e} ELSE owed
    /\ ordered' = (ordered /\ \A f \in Indexed : time[f] <= t)
    /\ UNCHANGED <<tail, live, pc, held, from, delivered, lastTS, backoff, shared,
                   out, seen>>

-----------------------------------------------------------------------------
(* The streaming goroutine *)

Start ==
    /\ pc = "new" /\ closer = "none"
    /\ pc' = "loop"
    /\ UNCHANGED <<splunk, rows, ordered, held, from, delivered, lastTS, backoff, shared,
                   out, seen>>

\* The window of the next request: from the newest event delivered, inclusive.
Earliest == lastTS

\* Slip: the newest event is not asked for again.
SlipWindow == IF tail /\ lastTS = 0 THEN {}
              ELSE {e \in Indexed : time[e] > lastTS}

Window == IF tail /\ Earliest = 0 THEN {}
          ELSE {e \in Indexed : time[e] >= Earliest}

Connect ==
    /\ pc = "loop" /\ ~canceled
    /\ pc' = "read" /\ delivered' = FALSE
    /\ from' = Earliest /\ rows' = Window
    /\ live' \in BOOLEAN
    /\ UNCHANGED <<time, kind, tail, owed, ordered, held, lastTS, backoff, shared, out,
                   seen>>

\* A connection that delivered something resets the delay.
AfterStream(deliv) == IF deliv THEN InitialBackoff ELSE backoff

\* Slip: the goroutine returns when the response ends.
SlipStreamEnds(deliv) ==
    /\ pc' = "returned" /\ rows' = {}
    /\ UNCHANGED backoff

StreamEnds(deliv) ==
    /\ pc' = "backoff" /\ rows' = {}
    /\ backoff' = AfterStream(deliv)

\* The request fails, or is answered with a status that is not 2xx: 4xx is
\* logged differently and retried the same way.
ConnectFails ==
    /\ pc = "loop" /\ ~canceled
    /\ StreamEnds(FALSE)
    /\ UNCHANGED <<splunk, ordered, held, from, delivered, lastTS, shared, out, seen>>

\* The response ends or breaks.
Drop ==
    /\ pc = "read" /\ ~canceled
    /\ StreamEnds(delivered)
    /\ UNCHANGED <<splunk, ordered, held, from, delivered, lastTS, shared, out, seen>>

\* One turn of the scanner.  A row that does not decode is skipped; one that
\* overflows the buffer ends the stream, like the end of the response.
ReadRow(e) ==
    /\ pc = "read" /\ ~canceled /\ e \in rows
    /\ \/ /\ kind[e] = "good"
          /\ pc' = "offer" /\ held' = e /\ rows' = rows \ {e}
          /\ UNCHANGED backoff
       \/ /\ kind[e] = "malformed"
          /\ rows' = rows \ {e}
          /\ UNCHANGED <<pc, held, backoff>>
       \/ /\ kind[e] = "oversized"
          /\ StreamEnds(delivered)
          /\ UNCHANGED held
    /\ UNCHANGED <<splunk, from, delivered, lastTS, shared, out, seen>>

Oldest == {e \in rows : \A f \in rows : time[e] <= time[f]}

ReadOldest(e) == ReadRow(e) /\ e \in Oldest /\ UNCHANGED ordered

ReadEarly(e) == ReadRow(e) /\ e \notin Oldest /\ ordered' = FALSE

\* Slip: the resume point is the last event delivered, not the newest.
SlipResume(t) == t

Resume(t) == Later(lastTS, t)

Offer ==
    /\ pc = "offer" /\ out < OutCap
    /\ panicked' = (panicked \/ outClosed)
    /\ out' = out + 1
    /\ seen' = seen \cup {held}
    /\ delivered' = TRUE /\ lastTS' = Resume(time[held])
    /\ pc' = "read" /\ held' = None
    /\ UNCHANGED <<splunk, rows, ordered, from, backoff, canceled, closer, outClosed>>

Doubled == IF 2 * backoff > MaxBackoff THEN MaxBackoff ELSE 2 * backoff

WaitEnds ==
    /\ pc = "backoff"
    /\ pc' = "loop"
    /\ backoff' = Doubled
    /\ UNCHANGED <<splunk, rows, ordered, held, from, delivered, lastTS, shared, out,
                   seen>>

\* Slip: a full channel is waited for whatever the context says.
SlipCanceled ==
    /\ canceled /\ pc \in {"loop", "read", "backoff"}
    /\ pc' = "returned" /\ rows' = {} /\ held' = None
    /\ UNCHANGED <<splunk, ordered, from, delivered, lastTS, backoff, shared, out, seen>>

\* The context is looked at between connections and rows, and waited for with
\* the delay, the request, the body and the channel.
Canceled ==
    /\ canceled /\ pc \in {"loop", "read", "offer", "backoff"}
    /\ pc' = "returned" /\ rows' = {} /\ held' = None
    /\ UNCHANGED <<splunk, ordered, from, delivered, lastTS, backoff, shared, out, seen>>

-----------------------------------------------------------------------------
(* Its owner, and the pipeline *)

\* The context given to Start is canceled by a signal or an idle pipeline.
ParentCanceled ==
    /\ ~canceled /\ pc # "new"
    /\ canceled' = TRUE
    /\ UNCHANGED <<splunk, rows, ordered, pc, held, from, delivered, lastTS, backoff,
                   closer, out, outClosed, panicked, seen>>

\* Close cancels, waits for the goroutine if there is one ...
Close ==
    /\ closer = "none"
    /\ closer' = "waiting"
    /\ canceled' = (canceled \/ pc # "new")
    /\ UNCHANGED <<splunk, rows, ordered, pc, held, from, delivered, lastTS, backoff,
                   out, outClosed, panicked, seen>>

\* Slip: ... or does not wait ...
SlipCloseDone ==
    /\ closer = "waiting"
    /\ closer' = "done" /\ outClosed' = TRUE
    /\ UNCHANGED <<splunk, rows, ordered, pc, held, from, delivered, lastTS, backoff,
                   canceled, out, panicked, seen>>

\* ... and closes the channel; sync.Once makes a second Close do nothing.
CloseDone ==
    /\ closer = "waiting" /\ pc \in {"new", "returned"}
    /\ closer' = "done" /\ outClosed' = TRUE
    /\ UNCHANGED <<splunk, rows, ordered, pc, held, from, delivered, lastTS, backoff,
                   canceled, out, panicked, seen>>

\* The pipeline takes an event (see Pipeline for what it does with it).
Consume ==
    /\ out > 0
    /\ out' = out - 1
    /\ UNCHANGED <<splunk, rows, ordered, pc, held, from, delivered, lastTS, backoff,
                   shared, seen>>

-----------------------------------------------------------------------------
Next == \/ \E e \in Events, t \in 1..MaxTime, k \in Kinds : Index(e, t, k)
        \/ Start \/ Connect \/ ConnectFails \/ Drop
        \/ \E e \in Events : ReadOldest(e) \/ ReadEarly(e)
        \/ Offer \/ WaitEnds \/ Canceled
        \/ ParentCanceled \/ Close \/ CloseDone \/ Consume

Spec == Init /\ [][Next]_vars

\* The goroutine goes on when it can, and Close once it has returned.  A
\* complete response ends, a request repeated for ever is one day answered, and
\* from some time on no response breaks before its end, or an oversized row.
\* The pipeline keeps reading until it is canceled itself.
ClosingFairness == WF_vars(Canceled) /\ WF_vars(CloseDone)

Fairness == /\ ClosingFairness
            /\ WF_vars(Drop /\ rows = {} /\ ~live)
            /\ WF_vars(\E e \in Events : ReadOldest(e))
            /\ WF_vars(Start) /\ WF_vars(Offer) /\ WF_vars(WaitEnds)
            /\ WF_vars(Consume /\ ~canceled)
            /\ SF_vars(Connect)
            /\ <>[][Drop => rows = {} \/ \E e \in Oldest : kind[e] = "oversized"]_vars

FairSpec == Spec /\ Fairness

-----------------------------------------------------------------------------
TypeOK == /\ time \in [Events -> 0..MaxTime] /\ kind \in [Events -> Kinds]
          /\ rows \subseteq Indexed /\ tail \in BOOLEAN /\ live \in BOOLEAN
          /\ pc \in {"new", "loop", "read", "offer", "backoff", "returned"}
          /\ held \in Indexed \cup {None} /\ ((pc = "offer") <=> (held # None))
          /\ from \in 0..MaxTime /\ lastTS \in 0..MaxTime
          /\ delivered \in BOOLEAN /\ backoff \in InitialBackoff..MaxBackoff
          /\ canceled \in BOOLEAN /\ closer \in {"none", "waiting", "done"}
          /\ out \in 0..OutCap
          /\ outClosed \in BOOLEAN /\ panicked \in BOOLEAN /\ ordered \in BOOLEAN
          /\ seen \subseteq Indexed /\ owed \subseteq Good

\* The channel is closed only when nobody can send on it any more, whatever
\* the goroutine was doing when Close was called.
NoPanic == ~panicked

\* "the inclusive earliest_time boundary only re-delivers events sharing the
\* exact last-seen timestamp" (rest.go:195), in whatever order rows come.
OnlyLastInstantRepeated ==
    [][\A e \in seen : (pc = "offer" /\ held = e /\ out' = out + 1
                          => from # 0 /\ time[e] = from)]_vars

\* While events are indexed and returned oldest first, no reconnect skips one:
\* an event the source has asked for is delivered, on its way, or inside the
\* window of the next request; and an open response that goes on brings it.
NothingSkipped ==
    ordered => \A e \in owed : \/ e \in seen \cup rows \cup {held}
                               \/ pc = "returned"
                               \/ /\ time[e] >= lastTS
                                  /\ ~(live /\ pc \in {"read", "offer"})

\* Close returns, also when the channel is full and nobody reads it.
CloseReturns == (closer = "waiting") ~> (closer = "done")

\* Under the same order, an event the source has asked for is delivered in the
\* end, through any number of dropped connections, unless a row that overflows
\* the buffer stands before it.
Unblocked == ordered /\ \A e \in Indexed : kind[e] # "oversized"

EventuallyDelivered ==
    \A e \in Events : (e \in owed) ~> (e \in seen \/ canceled \/ ~Unblocked \/ closer # "none")
=============================================================================
