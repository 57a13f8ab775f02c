----------------------------- MODULE Broadcaster -----------------------------
(***************************************************************************)
(* The fan-out of engine messages to WebSocket clients                     *)
(* (engine/internal/api/broadcaster.go) together with the handler          *)
(* goroutine of each client (serveWS in server.go).                        *)
(*                                                                         *)
(* A message is its number in the global send order, which Send fixes      *)
(* while it holds the mutex.  A subscriber is identified with the          *)
(* connection whose handler made it: nextID.Add is atomic, so ids never    *)
(* collide.  Subscribe, Unsubscribe and the first half of Close run        *)
(* entirely under the mutex on state nobody else can see, so each is one   *)
(* step.  Send also runs under the mutex, but handlers receive from the    *)
(* outboxes without it, so the fan-out is one step per subscriber.         *)
(***************************************************************************)
EXTENDS Integers, Sequences, FiniteSets

CONSTANTS Conns,            \* WebSocket connections, each upgraded once
          BacklogCap,       \* messages kept for snapshot-on-connect
          SlowClientBuffer, \* live depth of an outbox on top of the backlog
          MaxSent           \* bound on the number of messages sent

ASSUME CapsAssumption == /\ BacklogCap \in Nat
                         /\ SlowClientBuffer \in Nat \ {0}
                         /\ MaxSent \in Nat

VARIABLES sent,       \* messages accepted so far, numbered 1..sent
          backlog,    \* the retained tail of the global order
          subs,       \* connections registered for live delivery
          closed,     \* Close has run
          sending,    \* a Send is inside its critical section
          todo,       \* subscribers this Send has not reached yet
          dropIDs,    \* subscribers this Send found full
          closing,    \* outboxes Close still has to close, after unlocking
          out,        \* the outbox channel of each connection
          outClosed,  \* the outbox has been closed
          conn,       \* progress of each handler goroutine
          got,        \* last message each handler wrote to its client
          dropCount,  \* DropCount
          panicked    \* a runtime panic: send on, or close of, a closed channel

busVars  == <<sent, backlog, subs, closed>>
sendVars == <<sending, todo, dropIDs, dropCount>>
vars == <<busVars, sendVars, closing, out, outClosed, conn, got, panicked>>

OutboxCap == BacklogCap + SlowClientBuffer

\* The mutex is free: only a Send holds it across steps.
Unlocked == ~sending

Init == /\ sent = 0 /\ backlog = <<>> /\ subs = {} /\ closed = FALSE
        /\ sending = FALSE /\ todo = {} /\ dropIDs = {} /\ dropCount = 0
        /\ closing = {}
        /\ out = [c \in Conns |-> <<>>]
        /\ outClosed = [c \in Conns |-> FALSE]
        /\ conn = [c \in Conns |-> "off"]
        /\ got = [c \in Conns |-> 0]
        /\ panicked = FALSE

-----------------------------------------------------------------------------
\* Definitions named Slip... are plausible mistakes, used only to see that the
\* properties notice them; no specification below contains one.

\* close(s.out): closing a channel twice panics.
CloseOutbox(c) == /\ outClosed' = [outClosed EXCEPT ![c] = TRUE]
                  /\ panicked' = (panicked \/ outClosed[c])

\* Slip: the subscriber is deleted but its outbox is left open.
SlipUnsubscribeOnly(c) ==
    /\ subs' = subs \ {c}
    /\ UNCHANGED <<outClosed, panicked>>

\* unsubscribeLocked: a no-op for a subscriber that is no longer registered.
UnsubscribeLocked(c) ==
    IF c \in subs
    THEN /\ subs' = subs \ {c}
         /\ CloseOutbox(c)
    ELSE UNCHANGED <<subs, outClosed, panicked>>

AppendBacklog(m) ==
    IF BacklogCap = 0 THEN backlog
    ELSE IF Len(backlog) >= BacklogCap THEN Append(Tail(backlog), m)
    ELSE Append(backlog, m)

\* Subscribe: after Close the outbox stays open, empty and unregistered.
Subscribe(c) ==
    /\ conn[c] = "off"
    /\ Unlocked
    /\ conn' = [conn EXCEPT ![c] = "serving"]
    /\ IF closed
       THEN /\ got' = [got EXCEPT ![c] = sent]
            /\ UNCHANGED <<subs, out>>
       ELSE /\ out' = [out EXCEPT ![c] = backlog]
            /\ subs' = subs \cup {c}
            /\ got' = [got EXCEPT ![c] = sent - Len(backlog)]
    /\ UNCHANGED <<sent, backlog, closed, sendVars, closing, outClosed, panicked>>

-----------------------------------------------------------------------------
\* Send on a closed broadcaster returns at once and changes nothing, so only
\* the accepting case is a step.
SendBegin ==
    /\ Unlocked
    /\ ~closed
    /\ sent < MaxSent
    /\ sending' = TRUE
    /\ sent' = sent + 1
    /\ backlog' = AppendBacklog(sent')
    /\ todo' = subs
    /\ UNCHANGED <<subs, closed, dropIDs, dropCount, closing, out, outClosed,
                   conn, got, panicked>>

\* Slip: a full outbox loses the message but keeps its place in subs.
SlipSkipFull(c) ==
    /\ sending
    /\ c \in todo
    /\ todo' = todo \ {c}
    /\ panicked' = (panicked \/ outClosed[c])
    /\ out' = IF Len(out[c]) < OutboxCap
              THEN [out EXCEPT ![c] = Append(@, sent)] ELSE out
    /\ UNCHANGED <<busVars, sending, dropIDs, dropCount, closing, outClosed,
                   conn, got>>

\* Slip: an outbox sized without the backlog it is seeded with.
SlipSmallOutbox(c) ==
    /\ sending
    /\ c \in todo
    /\ todo' = todo \ {c}
    /\ panicked' = (panicked \/ outClosed[c])
    /\ IF Len(out[c]) < SlowClientBuffer
       THEN /\ out' = [out EXCEPT ![c] = Append(@, sent)]
            /\ UNCHANGED dropIDs
       ELSE /\ dropIDs' = dropIDs \cup {c}
            /\ UNCHANGED out
    /\ UNCHANGED <<busVars, sending, dropCount, closing, outClosed, conn, got>>

\* One turn of the range loop: a non-blocking send, in map order.
SendTo(c) ==
    /\ sending
    /\ c \in todo
    /\ todo' = todo \ {c}
    /\ panicked' = (panicked \/ outClosed[c])
    /\ IF Len(out[c]) < OutboxCap
       THEN /\ out' = [out EXCEPT ![c] = Append(@, sent)]
            /\ UNCHANGED dropIDs
       ELSE /\ dropIDs' = dropIDs \cup {c}
            /\ UNCHANGED out
    /\ UNCHANGED <<busVars, sending, dropCount, closing, outClosed, conn, got>>

SendDrop(c) ==
    /\ sending
    /\ todo = {}
    /\ c \in dropIDs
    /\ dropIDs' = dropIDs \ {c}
    /\ dropCount' = dropCount + 1
    /\ UnsubscribeLocked(c)
    /\ UNCHANGED <<sent, backlog, closed, sending, todo, closing, out, conn, got>>

SendEnd ==
    /\ sending
    /\ todo = {}
    /\ dropIDs = {}
    /\ sending' = FALSE
    /\ UNCHANGED <<busVars, todo, dropIDs, dropCount, closing, out, outClosed,
                   conn, got, panicked>>

-----------------------------------------------------------------------------
\* Slip: Close closes the outboxes but leaves the subscribers registered.
SlipCloseKeepsSubs ==
    /\ Unlocked
    /\ ~closed
    /\ closed' = TRUE
    /\ closing' = subs
    /\ backlog' = <<>>
    /\ UNCHANGED <<sent, subs, sendVars, out, outClosed, conn, got, panicked>>

\* Slip: subs is cleared before it is copied, so no outbox is closed.
SlipCloseForgetsSubs ==
    /\ Unlocked
    /\ ~closed
    /\ closed' = TRUE
    /\ subs' = {}
    /\ backlog' = <<>>
    /\ UNCHANGED <<sent, sendVars, closing, out, outClosed, conn, got, panicked>>

\* Close detaches every subscriber under the mutex and closes the outboxes
\* after releasing it.
Close ==
    /\ Unlocked
    /\ ~closed
    /\ closed' = TRUE
    /\ closing' = subs
    /\ subs' = {}
    /\ backlog' = <<>>
    /\ UNCHANGED <<sent, sendVars, out, outClosed, conn, got, panicked>>

CloseNext(c) ==
    /\ c \in closing
    /\ closing' = closing \ {c}
    /\ CloseOutbox(c)
    /\ UNCHANGED <<busVars, sendVars, out, conn, got>>

-----------------------------------------------------------------------------
\* The select loop of serveWS.  A failed write loses the received message and
\* ends the handler.
Deliver(c) ==
    /\ conn[c] = "serving"
    /\ out[c] # <<>>
    /\ out' = [out EXCEPT ![c] = Tail(@)]
    /\ got' = [got EXCEPT ![c] = Head(out[c])]
    /\ UNCHANGED <<busVars, sendVars, closing, outClosed, conn, panicked>>

WriteFails(c) ==
    /\ conn[c] = "serving"
    /\ out[c] # <<>>
    /\ out' = [out EXCEPT ![c] = Tail(@)]
    /\ conn' = [conn EXCEPT ![c] = "leaving"]
    /\ UNCHANGED <<busVars, sendVars, closing, outClosed, got, panicked>>

\* Receiving from a closed channel succeeds only once it is empty.
OutboxEnds(c) ==
    /\ conn[c] = "serving"
    /\ out[c] = <<>>
    /\ outClosed[c]
    /\ conn' = [conn EXCEPT ![c] = "leaving"]
    /\ UNCHANGED <<busVars, sendVars, closing, out, outClosed, got, panicked>>

\* The client hangs up, the ping fails or the request context ends.
Disconnect(c) ==
    /\ conn[c] = "serving"
    /\ conn' = [conn EXCEPT ![c] = "leaving"]
    /\ UNCHANGED <<busVars, sendVars, closing, out, outClosed, got, panicked>>

\* defer sub.Unsubscribe()
Unsubscribe(c) ==
    /\ conn[c] = "leaving"
    /\ Unlocked
    /\ conn' = [conn EXCEPT ![c] = "gone"]
    /\ UnsubscribeLocked(c)
    /\ UNCHANGED <<sent, backlog, closed, sendVars, closing, out, got>>

-----------------------------------------------------------------------------
SendStep == \/ SendEnd
            \/ \E c \in Conns : SendTo(c) \/ SendDrop(c)

HandlerStep(c) == Deliver(c) \/ OutboxEnds(c)

Next == \/ SendBegin
        \/ SendStep
        \/ Close
        \/ \E c \in Conns : \/ CloseNext(c)
                            \/ Subscribe(c)
                            \/ HandlerStep(c)
                            \/ WriteFails(c)
                            \/ Disconnect(c)
                            \/ Unsubscribe(c)

Spec == Init /\ [][Next]_vars

\* Goroutines that can run do run; Go's mutex hands itself to a waiter that
\* has starved for a millisecond, so a deferred Unsubscribe gets its turn.
\* Nothing makes a client disconnect, a Send start or Close be called.
Fairness == /\ WF_vars(SendStep)
            /\ \A c \in Conns : /\ WF_vars(HandlerStep(c))
                                /\ WF_vars(CloseNext(c))
                                /\ SF_vars(Unsubscribe(c))

FairSpec == Spec /\ Fairness

-----------------------------------------------------------------------------
\* Types, and the two bounds channel sends rely on: the history never exceeds
\* its cap and an outbox, seeded or not, never exceeds its capacity.
TypeOK == /\ sent \in Nat /\ dropCount \in Nat
          /\ backlog \in Seq(Nat) /\ Len(backlog) <= BacklogCap
          /\ subs \subseteq Conns /\ todo \subseteq Conns
          /\ dropIDs \subseteq Conns /\ closing \subseteq Conns
          /\ closed \in BOOLEAN /\ sending \in BOOLEAN /\ panicked \in BOOLEAN
          /\ out \in [Conns -> Seq(Nat)]
          /\ \A c \in Conns : Len(out[c]) <= OutboxCap
          /\ outClosed \in [Conns -> BOOLEAN]
          /\ conn \in [Conns -> {"off", "serving", "leaving", "gone"}]
          /\ got \in [Conns -> Nat]

\* No client disconnect, drop, Send, Subscribe or Close, in any order, sends
\* on a closed outbox or closes one twice: the "send on closed channel" panic
\* that Send's comment reports is gone.
NoPanic == ~panicked

\* What is in a serving client's outbox follows on, number by number, from
\* the last message the client got; and a client registered for live delivery
\* and not yet to be served by the Send in progress has everything sent so
\* far: nothing lost and nothing duplicated across the snapshot/live seam.
SeamlessStream ==
    \A c \in Conns : conn[c] = "serving" =>
        /\ \A i \in 1..Len(out[c]) : out[c][i] = got[c] + i
        /\ c \in subs \ dropIDs =>
              got[c] + Len(out[c]) = IF c \in todo THEN sent - 1 ELSE sent

\* A client's stream advances one message at a time, from the Subscribe that
\* fixes its start to its end: no step skips or repeats a message.
InOrder == [][\A c \in Conns : conn[c] # "off" => got'[c] \in {got[c], got[c] + 1}]_vars

\* Every message a serving client is registered for reaches it, unless its
\* handler ends first; a client dropped for being behind ends too.
EventuallyDelivered ==
    \A c \in Conns, m \in 1..MaxSent :
        (conn[c] = "serving" /\ c \in subs /\ got[c] < m /\ m <= sent)
            ~> (got[c] >= m \/ conn[c] # "serving")

\* If the broadcaster is ever closed, the handler of every connection that
\* had subscribed returns: Close leaks no goroutine that waits on an outbox.
CloseReleasesHandlers ==
    <>closed => \A c \in Conns : (c \in subs) ~> (conn[c] = "gone")

\* The broadcaster implements the feed.  A subscriber found full has left the
\* live feed at that moment, although it is unregistered a little later.
FeedPhase == [c \in Conns |->
                CASE conn[c] = "off" -> "new"
                  [] conn[c] = "serving" /\ c \in subs \ dropIDs -> "live"
                  [] conn[c] = "serving" /\ c \notin subs \ dropIDs -> "ended"
                  [] OTHER -> "gone"]

\* Once live, a client's last message is fixed when it is cut off.
FeedUpto == [c \in Conns |->
               IF conn[c] = "serving" /\ c \notin subs \ dropIDs
               THEN got[c] + Len(out[c]) ELSE 0]

Stream == INSTANCE Feed WITH phase <- FeedPhase, pos <- got, upto <- FeedUpto,
                             over <- closed, Window <- BacklogCap,
                             Slack <- OutboxCap

ImplementsFeed == Stream!FeedSpec
=============================================================================
