---------------------------- MODULE MCRestSource ----------------------------
(***************************************************************************)
(* What rest.go says of rows that overflow its buffer, against the code.   *)
(***************************************************************************)
EXTENDS RestSource

\* Splunk at its best: events are indexed and returned in order.
OrderlySpec == Init /\ [][Next /\ ordered']_vars /\ Fairness

\* rest.go:254: an oversized line "must not tear down the stream into a
\* reconnect loop", it is skipped: so the events behind it are delivered.
OversizedSkipped == \A e \in Events : (e \in owed) ~> (e \in seen \/ canceled \/ closer # "none")
=============================================================================
