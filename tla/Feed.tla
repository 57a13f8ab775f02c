-------------------------------- MODULE Feed --------------------------------
(***************************************************************************)
(* What the engine promises a browser that opens the WebSocket: one        *)
(* numbered stream, joined at most Window messages in the past, read in    *)
(* order with nothing missing and nothing twice, ended early only for a    *)
(* reader that is more than Slack messages behind or by shutdown.          *)
(* Broadcaster implements it.                                              *)
(***************************************************************************)
EXTENDS Integers

CONSTANTS Conns,    \* the WebSocket connections
          Window,   \* how far back a new reader starts
          Slack     \* how far behind a reader may fall before it is cut off

VARIABLES sent,     \* number of messages published so far
          phase,    \* where each reader stands
          pos,      \* number of the last message each reader has got
          upto,     \* last message an ended reader can still get (else 0)
          over      \* the feed has been shut down

feedVars == <<sent, phase, pos, upto, over>>

Phases == {"new", "live", "ended", "gone"}

Start == IF sent < Window THEN 0 ELSE sent - Window

FeedInit == /\ sent = 0
            /\ phase = [c \in Conns |-> "new"]
            /\ pos = [c \in Conns |-> 0]
            /\ upto = [c \in Conns |-> 0]
            /\ over = FALSE

Publish == /\ ~over
           /\ sent' = sent + 1
           /\ UNCHANGED <<phase, pos, upto, over>>

Join(c) == /\ phase[c] = "new"
           /\ ~over
           /\ phase' = [phase EXCEPT ![c] = "live"]
           /\ pos' = [pos EXCEPT ![c] = Start]
           /\ UNCHANGED <<sent, upto, over>>

\* Joining after shutdown gives a stream that is already at its end.
JoinLate(c) == /\ phase[c] = "new"
               /\ over
               /\ phase' = [phase EXCEPT ![c] = "ended"]
               /\ pos' = [pos EXCEPT ![c] = sent]
               /\ upto' = [upto EXCEPT ![c] = sent]
               /\ UNCHANGED <<sent, over>>

Take(c) == /\ \/ phase[c] = "live" /\ pos[c] < sent
              \/ phase[c] = "ended" /\ pos[c] < upto[c]
           /\ pos' = [pos EXCEPT ![c] = @ + 1]
           /\ UNCHANGED <<sent, phase, upto, over>>

\* A cut reader still gets what was buffered for it: a prefix of the rest.
Cut(c) == /\ phase[c] = "live"
          /\ sent - pos[c] > Slack
          /\ phase' = [phase EXCEPT ![c] = "ended"]
          /\ upto' = [upto EXCEPT ![c] = sent - 1]
          /\ UNCHANGED <<sent, pos, over>>

Leave(c) == /\ phase[c] \in {"live", "ended"}
            /\ phase' = [phase EXCEPT ![c] = "gone"]
            /\ upto' = [upto EXCEPT ![c] = 0]
            /\ UNCHANGED <<sent, pos, over>>

\* Shutdown ends every live reader, after everything published.
Shutdown == /\ ~over
            /\ over' = TRUE
            /\ phase' = [c \in Conns |->
                           IF phase[c] = "live" THEN "ended" ELSE phase[c]]
            /\ upto' = [c \in Conns |->
                          IF phase[c] = "live" THEN sent ELSE upto[c]]
            /\ UNCHANGED <<sent, pos>>

FeedNext == \/ Publish
            \/ Shutdown
            \/ \E c \in Conns : \/ Join(c)
                                \/ JoinLate(c)
                                \/ Take(c)
                                \/ Cut(c)
                                \/ Leave(c)

FeedSpec == FeedInit /\ [][FeedNext]_feedVars
=============================================================================
