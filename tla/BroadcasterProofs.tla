-------------------------- MODULE BroadcasterProofs --------------------------
(***************************************************************************)
(* Broadcaster for any connections, caps and number of messages: it never  *)
(* panics, its streams are seamless and in order, and it implements Feed.  *)
(***************************************************************************)
EXTENDS Broadcaster, TLAPS

\* The history is the newest BacklogCap numbers, in order.
BacklogInv ==
    ~closed => /\ Len(backlog) = IF sent < BacklogCap THEN sent ELSE BacklogCap
               /\ \A i \in 1..Len(backlog) : backlog[i] = sent - Len(backlog) + i

\* Only a Send in progress has subscribers to reach or to drop, and it has
\* them among the registered; a closed broadcaster has none.
LockInv ==
    /\ ~sending => todo = {} /\ dropIDs = {}
    /\ closed => ~sending /\ subs = {}
    /\ closing # {} => closed
    /\ todo \subseteq subs /\ dropIDs \subseteq subs /\ todo \cap dropIDs = {}

\* A channel somebody may still send on or close is open, and belongs to a
\* handler that has started and not yet unsubscribed.
ChannelInv ==
    \A c \in Conns :
        /\ c \in subs \cup closing => ~outClosed[c]
        /\ c \in subs => conn[c] \in {"serving", "leaving"}
        /\ conn[c] = "off" => out[c] = <<>> /\ ~outClosed[c]
                              /\ c \notin subs \cup closing

IInv == /\ TypeOK
        /\ BacklogInv
        /\ LockInv
        /\ ChannelInv
        /\ NoPanic
        /\ SeamlessStream

-----------------------------------------------------------------------------
USE CapsAssumption

\* What AppendBacklog returns for the next message of the global order.
LEMMA AppendBacklogSpec ==
    ASSUME TypeOK, BacklogInv, ~closed
    PROVE  LET b == AppendBacklog(sent + 1)
               n == IF sent + 1 < BacklogCap THEN sent + 1 ELSE BacklogCap
           IN  /\ b \in Seq(Nat)
               /\ Len(b) = n
               /\ \A i \in 1..n : b[i] = sent + 1 - n + i
<1>0. /\ sent \in Nat /\ BacklogCap \in Nat /\ backlog \in Seq(Nat)
      /\ Len(backlog) \in Nat
  BY DEF TypeOK
<1>1. CASE BacklogCap = 0
  BY <1>0, <1>1 DEF AppendBacklog, BacklogInv
<1>2. CASE BacklogCap # 0 /\ Len(backlog) >= BacklogCap
  <2>1. Len(backlog) = BacklogCap /\ sent >= BacklogCap
    BY <1>0, <1>2 DEF BacklogInv
  <2>2. backlog # <<>>
    BY <1>0, <1>2, <2>1
  <2>3. /\ Tail(backlog) \in Seq(Nat)
        /\ Len(Tail(backlog)) = BacklogCap - 1
        /\ \A i \in 1..(BacklogCap - 1) : Tail(backlog)[i] = backlog[i + 1]
    BY <1>0, <2>1, <2>2
  <2>4. AppendBacklog(sent + 1) = Append(Tail(backlog), sent + 1)
    BY <1>2 DEF AppendBacklog
  <2>5. \A i \in 1..(BacklogCap - 1) : backlog[i + 1] = sent - BacklogCap + (i + 1)
    BY <1>0, <2>1 DEF BacklogInv
  <2> DEFINE b == Append(Tail(backlog), sent + 1)
  <2>6. b \in Seq(Nat) /\ Len(b) = BacklogCap
    BY <1>0, <1>2, <2>3
  <2>7. ASSUME NEW i \in 1..BacklogCap
        PROVE  b[i] = sent + 1 - BacklogCap + i
    <3>1. CASE i = BacklogCap
      BY <1>0, <1>2, <2>3, <3>1
    <3>2. CASE i # BacklogCap
      <4>1. i \in 1..(BacklogCap - 1)
        BY <1>0, <3>2
      <4>2. b[i] = Tail(backlog)[i]
        BY <1>0, <2>3, <4>1
      <4>3. QED
        BY <1>0, <2>3, <2>5, <4>1, <4>2
    <3>3. QED
      BY <3>1, <3>2
  <2>8. ~(sent + 1 < BacklogCap)
    BY <1>0, <2>1
  <2> HIDE DEF b
  <2>9. QED
    BY <2>4, <2>6, <2>7, <2>8 DEF b
<1>3. CASE BacklogCap # 0 /\ ~(Len(backlog) >= BacklogCap)
  <2>1. Len(backlog) = sent /\ sent < BacklogCap
    BY <1>0, <1>3 DEF BacklogInv
  <2>2. AppendBacklog(sent + 1) = Append(backlog, sent + 1)
    BY <1>3 DEF AppendBacklog
  <2>3. \A i \in 1..sent : backlog[i] = i
    BY <1>0, <2>1 DEF BacklogInv
  <2>4. QED
    BY <1>0, <2>1, <2>2, <2>3
<1>4. QED
  BY <1>1, <1>2, <1>3

-----------------------------------------------------------------------------
LEMMA InitInv == Init => IInv
<1> SUFFICES ASSUME Init PROVE IInv
  OBVIOUS
<1>1. TypeOK
  <2>1. Len(<<>>) = 0 /\ <<>> \in Seq(Nat) /\ OutboxCap \in Nat
    BY DEF OutboxCap
  <2>2. out \in [Conns -> Seq(Nat)] /\ \A c \in Conns : Len(out[c]) = 0
    BY <2>1 DEF Init
  <2>3. BacklogCap >= 0 /\ Len(backlog) = 0 /\ OutboxCap >= 0
    BY <2>1 DEF Init, OutboxCap
  <2>4. \A c \in Conns : Len(out[c]) <= OutboxCap
    BY <2>2, <2>3
  <2>5. QED
    BY <2>1, <2>2, <2>3, <2>4 DEF Init, TypeOK
<1>2. BacklogInv
  BY DEF Init, BacklogInv
<1>3. LockInv /\ ChannelInv /\ NoPanic
  BY DEF Init, LockInv, ChannelInv, NoPanic
<1>4. SeamlessStream
  BY DEF Init, SeamlessStream
<1>5. QED
  BY <1>1, <1>2, <1>3, <1>4 DEF IInv

LEMMA SendBeginInv ==
    ASSUME IInv, SendBegin
    PROVE  IInv'
<1> DEFINE n == IF sent + 1 < BacklogCap THEN sent + 1 ELSE BacklogCap
<1>1. /\ backlog' \in Seq(Nat)
      /\ Len(backlog') = n
      /\ \A i \in 1..n : backlog'[i] = sent + 1 - n + i
  BY AppendBacklogSpec DEF IInv, SendBegin
<1>2. n \in Nat /\ n <= BacklogCap /\ sent' = sent + 1 /\ sent \in Nat
  BY DEF IInv, TypeOK, SendBegin
<1>3. TypeOK'
  BY <1>1, <1>2 DEF IInv, TypeOK, SendBegin, OutboxCap
<1>4. BacklogInv'
  BY <1>1, <1>2 DEF BacklogInv
<1>5. LockInv'
  BY DEF IInv, LockInv, SendBegin, Unlocked
<1>6. ChannelInv' /\ NoPanic'
  BY DEF IInv, ChannelInv, NoPanic, SendBegin
<1>7. SeamlessStream'
  BY <1>2 DEF IInv, TypeOK, LockInv, SeamlessStream, SendBegin, Unlocked
<1>8. QED
  BY <1>3, <1>4, <1>5, <1>6, <1>7 DEF IInv

LEMMA SendToInv ==
    ASSUME IInv, NEW c \in Conns, SendTo(c)
    PROVE  IInv'
<1>0. /\ out[c] \in Seq(Nat) /\ Len(out[c]) \in Nat
      /\ sent \in Nat /\ OutboxCap \in Nat
      /\ c \in subs /\ c \notin dropIDs
  BY DEF IInv, TypeOK, LockInv, SendTo, OutboxCap
<1>a. ASSUME Len(out[c]) < OutboxCap PROVE TypeOK' /\ SeamlessStream'
  <2>1. /\ out' = [out EXCEPT ![c] = Append(@, sent)]
        /\ dropIDs' = dropIDs /\ sent' = sent /\ subs' = subs /\ got' = got
        /\ conn' = conn /\ todo' = todo \ {c}
    BY <1>a DEF SendTo, busVars
  <2>2. /\ Append(out[c], sent) \in Seq(Nat)
        /\ Len(Append(out[c], sent)) = Len(out[c]) + 1
        /\ \A i \in 1..Len(out[c]) : Append(out[c], sent)[i] = out[c][i]
        /\ Append(out[c], sent)[Len(out[c]) + 1] = sent
    BY <1>0
  <2>3. out' \in [Conns -> Seq(Nat)] /\ \A d \in Conns : Len(out'[d]) <= OutboxCap
    BY <1>0, <1>a, <2>1, <2>2 DEF IInv, TypeOK
  <2>4. TypeOK'
    BY <2>1, <2>3 DEF IInv, TypeOK, SendTo, busVars, OutboxCap
  <2>5. ASSUME NEW d \in Conns, conn'[d] = "serving"
        PROVE  /\ \A i \in 1..Len(out'[d]) : out'[d][i] = got'[d] + i
               /\ d \in (subs \ dropIDs)' =>
                    got'[d] + Len(out'[d]) = IF d \in todo' THEN sent' - 1 ELSE sent'
    <3>1. CASE d # c
      BY <2>1, <2>5, <3>1 DEF IInv, TypeOK, SeamlessStream
    <3>2. CASE d = c
      <4>0. got[c] \in Nat /\ got[c] + Len(out[c]) = sent - 1
        BY <1>0, <2>1, <2>5, <3>2 DEF IInv, TypeOK, SeamlessStream, SendTo
      <4>1. /\ out'[c] = Append(out[c], sent)
            /\ got[c] \in Nat /\ got[c] + Len(out[c]) = sent - 1
            /\ \A i \in 1..Len(out[c]) : out[c][i] = got[c] + i
        BY <1>0, <2>1, <2>5, <3>2 DEF IInv, TypeOK, SeamlessStream, SendTo
      <4>2. \A i \in 1..(Len(out[c]) + 1) : out'[c][i] = got[c] + i
        <5> SUFFICES ASSUME NEW i \in 1..(Len(out[c]) + 1)
                     PROVE  out'[c][i] = got[c] + i
          OBVIOUS
        <5>1. CASE i = Len(out[c]) + 1
          <6>1. out'[c][i] = sent
            BY <2>2, <4>1, <5>1
          <6>2. got[c] + (Len(out[c]) + 1) = sent
            BY <1>0, <4>0
          <6>3. QED
            BY <5>1, <6>1, <6>2
        <5>2. CASE i # Len(out[c]) + 1
          <6>1. i \in 1..Len(out[c])
            BY <1>0, <5>2
          <6>2. QED
            BY <2>2, <4>1, <6>1
        <5>3. QED
          BY <5>1, <5>2
      <4>3. QED
        BY <1>0, <2>1, <2>2, <3>2, <4>1, <4>2
    <3>3. QED
      BY <3>1, <3>2
  <2>6. SeamlessStream'
    BY <2>5 DEF SeamlessStream
  <2>7. QED
    BY <2>4, <2>6
<1>b. ASSUME ~(Len(out[c]) < OutboxCap) PROVE TypeOK' /\ SeamlessStream'
  <2>1. /\ out' = out /\ dropIDs' = dropIDs \cup {c} /\ sent' = sent
        /\ subs' = subs /\ got' = got /\ conn' = conn /\ todo' = todo \ {c}
    BY <1>b DEF SendTo, busVars
  <2>2. TypeOK'
    BY <2>1 DEF IInv, TypeOK, SendTo, busVars, OutboxCap
  <2>3. SeamlessStream'
    BY <2>1 DEF IInv, SeamlessStream
  <2>4. QED
    BY <2>2, <2>3
<1>1. TypeOK'
  BY <1>a, <1>b
<1>2. BacklogInv'
  BY DEF IInv, BacklogInv, SendTo, busVars
<1>3. LockInv'
  BY DEF IInv, LockInv, SendTo, Unlocked,
         busVars, sendVars
<1>4. ChannelInv'
  BY DEF IInv, TypeOK, LockInv, ChannelInv, SendTo,
         Unlocked, busVars, sendVars
<1>5. NoPanic'
  BY DEF IInv, LockInv, ChannelInv, NoPanic, SendTo
<1>6. SeamlessStream'
  BY <1>a, <1>b
<1>7. QED
  BY <1>1, <1>2, <1>3, <1>4, <1>5, <1>6 DEF IInv

LEMMA SendDropInv ==
    ASSUME IInv, NEW c \in Conns, SendDrop(c)
    PROVE  IInv'
<1>1. TypeOK'
  <2>1. c \in subs
    BY DEF IInv, LockInv, SendDrop
  <2>2. /\ outClosed' \in [Conns -> BOOLEAN]
        /\ panicked' \in BOOLEAN
        /\ subs' \subseteq Conns
    BY <2>1 DEF IInv, TypeOK, SendDrop, UnsubscribeLocked, CloseOutbox
  <2>3. QED
    BY <2>2 DEF IInv, TypeOK, SendDrop, OutboxCap
<1>2. BacklogInv'
  BY DEF IInv, BacklogInv, SendDrop, busVars
<1>3. LockInv'
  BY DEF IInv, LockInv, SendDrop, UnsubscribeLocked, CloseOutbox, Unlocked,
         busVars, sendVars
<1>4. ChannelInv'
  BY DEF IInv, TypeOK, LockInv, ChannelInv, SendDrop, UnsubscribeLocked, CloseOutbox,
         Unlocked, busVars, sendVars
<1>5. NoPanic'
  BY DEF IInv, LockInv, ChannelInv, NoPanic, SendDrop, UnsubscribeLocked, CloseOutbox
<1>6. SeamlessStream'
  BY DEF IInv, TypeOK, LockInv, ChannelInv, SeamlessStream, SendDrop, UnsubscribeLocked, CloseOutbox,
         Unlocked, busVars, sendVars
<1>7. QED
  BY <1>1, <1>2, <1>3, <1>4, <1>5, <1>6 DEF IInv

LEMMA SendEndInv ==
    ASSUME IInv, SendEnd
    PROVE  IInv'
<1>1. TypeOK'
  BY DEF IInv, TypeOK, SendEnd, OutboxCap,
         busVars, sendVars
<1>2. BacklogInv'
  BY DEF IInv, BacklogInv, SendEnd, busVars
<1>3. LockInv'
  BY DEF IInv, LockInv, SendEnd, Unlocked,
         busVars, sendVars
<1>4. ChannelInv'
  BY DEF IInv, TypeOK, LockInv, ChannelInv, SendEnd,
         Unlocked, busVars, sendVars
<1>5. NoPanic'
  BY DEF IInv, LockInv, ChannelInv, NoPanic, SendEnd
<1>6. SeamlessStream'
  BY DEF IInv, TypeOK, LockInv, ChannelInv, SeamlessStream, SendEnd,
         Unlocked, busVars, sendVars
<1>7. QED
  BY <1>1, <1>2, <1>3, <1>4, <1>5, <1>6 DEF IInv

LEMMA CloseInv ==
    ASSUME IInv, Close
    PROVE  IInv'
<1>1. TypeOK'
  BY DEF IInv, TypeOK, Close, OutboxCap,
         busVars, sendVars
<1>2. BacklogInv'
  BY DEF IInv, BacklogInv, Close, busVars
<1>3. LockInv'
  BY DEF IInv, LockInv, Close, Unlocked,
         busVars, sendVars
<1>4. ChannelInv'
  BY DEF IInv, TypeOK, LockInv, ChannelInv, Close,
         Unlocked, busVars, sendVars
<1>5. NoPanic'
  BY DEF IInv, LockInv, ChannelInv, NoPanic, Close
<1>6. SeamlessStream'
  BY DEF IInv, TypeOK, LockInv, ChannelInv, SeamlessStream, Close,
         Unlocked, busVars, sendVars
<1>7. QED
  BY <1>1, <1>2, <1>3, <1>4, <1>5, <1>6 DEF IInv

LEMMA CloseNextInv ==
    ASSUME IInv, NEW c \in Conns, CloseNext(c)
    PROVE  IInv'
<1>1. TypeOK'
  BY DEF IInv, TypeOK, CloseNext, CloseOutbox, OutboxCap,
         busVars, sendVars
<1>2. BacklogInv'
  BY DEF IInv, BacklogInv, CloseNext, busVars
<1>3. LockInv'
  BY DEF IInv, LockInv, CloseNext, CloseOutbox, Unlocked,
         busVars, sendVars
<1>4. ChannelInv'
  BY DEF IInv, TypeOK, LockInv, ChannelInv, CloseNext, CloseOutbox,
         Unlocked, busVars, sendVars
<1>5. NoPanic'
  BY DEF IInv, LockInv, ChannelInv, NoPanic, CloseNext, CloseOutbox
<1>6. SeamlessStream'
  BY DEF IInv, TypeOK, LockInv, ChannelInv, SeamlessStream, CloseNext, CloseOutbox,
         Unlocked, busVars, sendVars
<1>7. QED
  BY <1>1, <1>2, <1>3, <1>4, <1>5, <1>6 DEF IInv

LEMMA SubscribeInv ==
    ASSUME IInv, NEW c \in Conns, Subscribe(c)
    PROVE  IInv'
<1>0. /\ sent \in Nat /\ backlog \in Seq(Nat) /\ Len(backlog) \in Nat
      /\ got \in [Conns -> Nat] /\ out \in [Conns -> Seq(Nat)]
      /\ OutboxCap \in Nat /\ Len(backlog) <= OutboxCap /\ out[c] = <<>>
      /\ (~closed => Len(backlog) <= sent)
  BY DEF IInv, TypeOK, BacklogInv, ChannelInv, OutboxCap, Subscribe
<1>1. TypeOK'
  <2>1. got' \in [Conns -> Nat] /\ out' \in [Conns -> Seq(Nat)]
    <3>1. CASE closed
      BY <1>0, <3>1 DEF Subscribe
    <3>2. CASE ~closed
      <4>1. sent - Len(backlog) \in Nat
        BY <1>0, <3>2
      <4>2. QED
        BY <1>0, <3>2, <4>1 DEF Subscribe
    <3>3. QED
      BY <3>1, <3>2
  <2>2. \A d \in Conns : Len(out'[d]) <= OutboxCap
    BY <1>0 DEF IInv, TypeOK, Subscribe
  <2>3. QED
    BY <2>1, <2>2 DEF IInv, TypeOK, Subscribe, OutboxCap, sendVars
<1>2. BacklogInv'
  BY DEF IInv, BacklogInv, Subscribe, busVars
<1>3. LockInv'
  BY DEF IInv, LockInv, Subscribe, Unlocked,
         busVars, sendVars
<1>4. ChannelInv'
  BY DEF IInv, TypeOK, LockInv, ChannelInv, Subscribe,
         Unlocked, busVars, sendVars
<1>5. NoPanic'
  BY DEF IInv, LockInv, ChannelInv, NoPanic, Subscribe
<1>6. SeamlessStream'
  <2> SUFFICES ASSUME NEW d \in Conns, conn'[d] = "serving"
               PROVE  /\ \A i \in 1..Len(out'[d]) : out'[d][i] = got'[d] + i
                      /\ d \in (subs \ dropIDs)' => got'[d] + Len(out'[d])
                            = IF d \in todo' THEN sent' - 1 ELSE sent'
    BY DEF SeamlessStream
  <2>1. todo' = todo /\ todo = {} /\ dropIDs' = dropIDs /\ sent' = sent
    BY DEF IInv, LockInv, Subscribe, Unlocked, sendVars
  <2>2. CASE d # c
    <3>1. /\ out'[d] = out[d] /\ got'[d] = got[d] /\ conn'[d] = conn[d]
          /\ d \in subs' => d \in subs
      BY <1>0, <2>2 DEF Subscribe
    <3>2. QED
      BY <2>1, <3>1 DEF IInv, SeamlessStream
  <2>3. CASE d = c /\ closed
    <3>1. out'[c] = <<>> /\ c \notin subs'
      BY <1>0, <2>3 DEF IInv, ChannelInv, Subscribe
    <3>2. QED
      BY <2>3, <3>1
  <2>4. CASE d = c /\ ~closed
    <3>1. out'[c] = backlog /\ got'[c] = sent - Len(backlog)
      BY <1>0, <2>4 DEF Subscribe
    <3>2. \A i \in 1..Len(backlog) : backlog[i] = sent - Len(backlog) + i
      BY <2>4 DEF IInv, BacklogInv
    <3>3. QED
      BY <1>0, <2>1, <2>4, <3>1, <3>2
  <2>5. QED
    BY <2>2, <2>3, <2>4
<1>7. QED
  BY <1>1, <1>2, <1>3, <1>4, <1>5, <1>6 DEF IInv

LEMMA DeliverInv ==
    ASSUME IInv, NEW c \in Conns, Deliver(c)
    PROVE  IInv'
<1>1. TypeOK'
  BY DEF IInv, TypeOK, Deliver, OutboxCap,
         busVars, sendVars
<1>2. BacklogInv'
  BY DEF IInv, BacklogInv, Deliver, busVars
<1>3. LockInv'
  BY DEF IInv, LockInv, Deliver, Unlocked,
         busVars, sendVars
<1>4. ChannelInv'
  BY DEF IInv, TypeOK, LockInv, ChannelInv, Deliver,
         Unlocked, busVars, sendVars
<1>5. NoPanic'
  BY DEF IInv, LockInv, ChannelInv, NoPanic, Deliver
<1>6. SeamlessStream'
  <2>1. /\ out[c] \in Seq(Nat) /\ out[c] # <<>> /\ Len(out[c]) \in Nat
        /\ got[c] \in Nat /\ sent \in Nat
        /\ \A i \in 1..Len(out[c]) : out[c][i] = got[c] + i
    BY DEF IInv, TypeOK, SeamlessStream, Deliver
  <2>2. /\ Head(out[c]) = got[c] + 1
        /\ Len(Tail(out[c])) = Len(out[c]) - 1
        /\ \A i \in 1..(Len(out[c]) - 1) : Tail(out[c])[i] = out[c][i + 1]
    <3>1. Len(out[c]) >= 1
      BY <2>1
    <3>2. Head(out[c]) = out[c][1]
      BY <2>1
    <3>3. QED
      BY <2>1, <3>1, <3>2
  <2>3. /\ out'[c] = Tail(out[c]) /\ got'[c] = Head(out[c])
        /\ \A d \in Conns : d # c => out'[d] = out[d] /\ got'[d] = got[d]
    BY DEF IInv, TypeOK, Deliver
  <2>4. /\ \A i \in 1..Len(out'[c]) : out'[c][i] = got'[c] + i
        /\ got'[c] + Len(out'[c]) = got[c] + Len(out[c])
    <3>1. \A i \in 1..(Len(out[c]) - 1) : out[c][i + 1] = got[c] + (i + 1)
      BY <2>1
    <3>2. /\ Len(out'[c]) = Len(out[c]) - 1
          /\ \A i \in 1..(Len(out[c]) - 1) : out'[c][i] = out[c][i + 1]
          /\ got'[c] = got[c] + 1
      BY <2>2, <2>3
    <3>3. ASSUME NEW i \in 1..(Len(out[c]) - 1)
          PROVE  out'[c][i] = got'[c] + i
      <4>1. out'[c][i] = out[c][i + 1]
        BY <3>2
      <4>2. out[c][i + 1] = got[c] + (i + 1)
        BY <3>1
      <4>3. got[c] \in Nat /\ i \in Int /\ got'[c] = got[c] + 1
        BY <2>1, <3>2
      <4>4. QED
        BY <4>1, <4>2, <4>3
    <3>4. QED
      BY <2>1, <3>2, <3>3
  <2>5. QED
    BY <2>3, <2>4 DEF IInv, SeamlessStream, Deliver, busVars, sendVars
<1>7. QED
  BY <1>1, <1>2, <1>3, <1>4, <1>5, <1>6 DEF IInv

LEMMA WriteFailsInv ==
    ASSUME IInv, NEW c \in Conns, WriteFails(c)
    PROVE  IInv'
<1>1. TypeOK'
  BY DEF IInv, TypeOK, WriteFails, OutboxCap,
         busVars, sendVars
<1>2. BacklogInv'
  BY DEF IInv, BacklogInv, WriteFails, busVars
<1>3. LockInv'
  BY DEF IInv, LockInv, WriteFails, Unlocked,
         busVars, sendVars
<1>4. ChannelInv'
  BY DEF IInv, TypeOK, LockInv, ChannelInv, WriteFails,
         Unlocked, busVars, sendVars
<1>5. NoPanic'
  BY DEF IInv, LockInv, ChannelInv, NoPanic, WriteFails
<1>6. SeamlessStream'
  BY DEF IInv, TypeOK, LockInv, ChannelInv, SeamlessStream, WriteFails,
         Unlocked, busVars, sendVars
<1>7. QED
  BY <1>1, <1>2, <1>3, <1>4, <1>5, <1>6 DEF IInv

LEMMA OutboxEndsInv ==
    ASSUME IInv, NEW c \in Conns, OutboxEnds(c)
    PROVE  IInv'
<1>1. TypeOK'
  BY DEF IInv, TypeOK, OutboxEnds, OutboxCap,
         busVars, sendVars
<1>2. BacklogInv'
  BY DEF IInv, BacklogInv, OutboxEnds, busVars
<1>3. LockInv'
  BY DEF IInv, LockInv, OutboxEnds, Unlocked,
         busVars, sendVars
<1>4. ChannelInv'
  BY DEF IInv, TypeOK, LockInv, ChannelInv, OutboxEnds,
         Unlocked, busVars, sendVars
<1>5. NoPanic'
  BY DEF IInv, LockInv, ChannelInv, NoPanic, OutboxEnds
<1>6. SeamlessStream'
  BY DEF IInv, TypeOK, LockInv, ChannelInv, SeamlessStream, OutboxEnds,
         Unlocked, busVars, sendVars
<1>7. QED
  BY <1>1, <1>2, <1>3, <1>4, <1>5, <1>6 DEF IInv

LEMMA DisconnectInv ==
    ASSUME IInv, NEW c \in Conns, Disconnect(c)
    PROVE  IInv'
<1>1. TypeOK'
  BY DEF IInv, TypeOK, Disconnect, OutboxCap,
         busVars, sendVars
<1>2. BacklogInv'
  BY DEF IInv, BacklogInv, Disconnect, busVars
<1>3. LockInv'
  BY DEF IInv, LockInv, Disconnect, Unlocked,
         busVars, sendVars
<1>4. ChannelInv'
  BY DEF IInv, TypeOK, LockInv, ChannelInv, Disconnect,
         Unlocked, busVars, sendVars
<1>5. NoPanic'
  BY DEF IInv, LockInv, ChannelInv, NoPanic, Disconnect
<1>6. SeamlessStream'
  BY DEF IInv, TypeOK, LockInv, ChannelInv, SeamlessStream, Disconnect,
         Unlocked, busVars, sendVars
<1>7. QED
  BY <1>1, <1>2, <1>3, <1>4, <1>5, <1>6 DEF IInv

LEMMA UnsubscribeInv ==
    ASSUME IInv, NEW c \in Conns, Unsubscribe(c)
    PROVE  IInv'
<1>1. TypeOK'
  BY DEF IInv, TypeOK, Unsubscribe, UnsubscribeLocked, CloseOutbox, OutboxCap,
         busVars, sendVars
<1>2. BacklogInv'
  BY DEF IInv, BacklogInv, Unsubscribe, busVars
<1>3. LockInv'
  BY DEF IInv, LockInv, Unsubscribe, UnsubscribeLocked, CloseOutbox, Unlocked,
         busVars, sendVars
<1>4. ChannelInv'
  BY DEF IInv, TypeOK, LockInv, ChannelInv, Unsubscribe, UnsubscribeLocked, CloseOutbox,
         Unlocked, busVars, sendVars
<1>5. NoPanic'
  BY DEF IInv, LockInv, ChannelInv, NoPanic, Unsubscribe, UnsubscribeLocked, CloseOutbox
<1>6. SeamlessStream'
  BY DEF IInv, TypeOK, LockInv, ChannelInv, SeamlessStream, Unsubscribe, UnsubscribeLocked, CloseOutbox,
         Unlocked, busVars, sendVars
<1>7. QED
  BY <1>1, <1>2, <1>3, <1>4, <1>5, <1>6 DEF IInv

-----------------------------------------------------------------------------
LEMMA StepInv == IInv /\ [Next]_vars => IInv'
<1> SUFFICES ASSUME IInv, [Next]_vars PROVE IInv'
  OBVIOUS
<1>1. CASE SendBegin
  BY <1>1, SendBeginInv
<1>2. CASE SendStep
  BY <1>2, SendToInv, SendDropInv, SendEndInv DEF SendStep
<1>3. CASE Close
  BY <1>3, CloseInv
<1>4. CASE \E c \in Conns : CloseNext(c) \/ Subscribe(c) \/ Unsubscribe(c)
  BY <1>4, CloseNextInv, SubscribeInv, UnsubscribeInv
<1>5. CASE \E c \in Conns : HandlerStep(c) \/ WriteFails(c) \/ Disconnect(c)
  BY <1>5, DeliverInv, OutboxEndsInv, WriteFailsInv, DisconnectInv DEF HandlerStep
<1>6. CASE UNCHANGED vars
  BY <1>6 DEF IInv, TypeOK, BacklogInv, LockInv, ChannelInv, NoPanic,
              SeamlessStream, OutboxCap, vars, busVars, sendVars
<1>7. QED
  BY <1>1, <1>2, <1>3, <1>4, <1>5, <1>6 DEF Next

\* The inductive invariant holds in every reachable state.
THEOREM Invariance == Spec => []IInv
<1>1. QED
  BY InitInv, StepInv, PTL DEF Spec

\* Types and the channel bounds: the history stays within its cap, so seeding
\* an outbox in Subscribe can never block under the mutex.
THEOREM TypeCorrect == Spec => []TypeOK
<1>1. IInv => TypeOK
  BY DEF IInv
<1>2. QED
  BY <1>1, Invariance, PTL

\* No order of Send, Subscribe, Unsubscribe, drop and Close, with any number
\* of clients, sends on a closed outbox or closes one twice.
THEOREM PanicFree == Spec => []NoPanic
<1>1. IInv => NoPanic
  BY DEF IInv
<1>2. QED
  BY <1>1, Invariance, PTL

\* The snapshot and the live stream of every client form one gap-free,
\* duplicate-free sequence (the claim of Subscribe's comment).
THEOREM Seamless == Spec => []SeamlessStream
<1>1. IInv => SeamlessStream
  BY DEF IInv
<1>2. QED
  BY <1>1, Invariance, PTL

\* What the handler takes from the outbox is the next message of its stream.
LEMMA DeliverNext ==
    ASSUME IInv, NEW c \in Conns, Deliver(c)
    PROVE  /\ got' = [got EXCEPT ![c] = got[c] + 1]
           /\ out' = [out EXCEPT ![c] = Tail(out[c])]
           /\ Len(Tail(out[c])) = Len(out[c]) - 1
           /\ Len(out[c]) \in Nat \ {0}
<1>1. out[c] \in Seq(Nat) /\ out[c] # <<>> /\ conn[c] = "serving" /\ got[c] \in Nat
  BY DEF IInv, TypeOK, Deliver
<1>2. Len(out[c]) \in Nat \ {0} /\ Len(Tail(out[c])) = Len(out[c]) - 1
  BY <1>1
<1>3. Head(out[c]) = out[c][1]
  BY <1>1
<1>4. out[c][1] = got[c] + 1
  BY <1>1, <1>2 DEF IInv, SeamlessStream
<1>5. QED
  BY <1>2, <1>3, <1>4 DEF Deliver

\* Each client's stream advances by exactly one message at a time.
THEOREM OrderKept == Spec => InOrder
<1> DEFINE A == \A c \in Conns :
                  conn[c] # "off" => got'[c] \in {got[c], got[c] + 1}
<1>1. ASSUME IInv, [Next]_vars PROVE A
  <2>1. CASE \E c \in Conns : Deliver(c)
    BY <1>1, <2>1, DeliverNext DEF IInv, TypeOK
  <2>2. CASE \E c \in Conns : Subscribe(c)
    BY <1>1, <2>2 DEF IInv, TypeOK, Subscribe
  <2>3. CASE got' = got
    BY <2>3
  <2>4. QED
    BY <1>1, <2>1, <2>2, <2>3
       DEF Next, SendStep, HandlerStep, vars, SendBegin, SendTo, SendDrop,
           SendEnd, Close, CloseNext, WriteFails, OutboxEnds, Disconnect,
           Unsubscribe
<1>2. IInv /\ [Next]_vars => [A]_vars
  BY <1>1
<1>3. QED
  BY <1>2, Invariance, PTL DEF Spec, InOrder

-----------------------------------------------------------------------------
(***************************************************************************)
(* Refinement: every step of Broadcaster is a step of Feed or leaves the   *)
(* feed's state alone.                                                     *)
(***************************************************************************)
LEMMA FeedInitStep == Init => Stream!FeedInit
BY DEF Init, Stream!FeedInit, FeedPhase, FeedUpto

\* The feed's view of a connection depends on these five alone.
LEMMA SameView ==
    ASSUME subs' \ dropIDs' = subs \ dropIDs, out' = out, conn' = conn, got' = got
    PROVE  FeedPhase' = FeedPhase /\ FeedUpto' = FeedUpto
BY DEF FeedPhase, FeedUpto

LEMMA SendBeginRefines == ASSUME IInv, SendBegin PROVE Stream!Publish
<1>1. FeedPhase' = FeedPhase /\ FeedUpto' = FeedUpto
  BY SameView DEF SendBegin
<1>2. QED
  BY <1>1 DEF SendBegin, Stream!Publish

LEMMA SendToRefines ==
    ASSUME IInv, NEW c \in Conns, SendTo(c)
    PROVE  UNCHANGED Stream!feedVars \/ Stream!Cut(c)
<1>0. /\ c \in subs \ dropIDs /\ c \in todo /\ got' = got /\ conn' = conn
      /\ sent' = sent /\ closed' = closed /\ subs' = subs
      /\ Len(out[c]) \in Nat /\ Len(out[c]) <= OutboxCap
      /\ sent \in Nat /\ got[c] \in Nat /\ conn[c] \in {"serving", "leaving"}
      /\ out \in [Conns -> Seq(Nat)]
  BY DEF IInv, TypeOK, LockInv, ChannelInv, SendTo, busVars
<1>1. CASE Len(out[c]) < OutboxCap
  <2>1. /\ dropIDs' = dropIDs
        /\ \A d \in Conns : d \notin subs \ dropIDs => out'[d] = out[d]
    BY <1>0, <1>1 DEF SendTo
  <2>2. FeedPhase' = FeedPhase /\ FeedUpto' = FeedUpto
    BY <1>0, <2>1 DEF FeedPhase, FeedUpto
  <2>3. QED
    BY <1>0, <2>2 DEF Stream!feedVars
<1>2. CASE ~(Len(out[c]) < OutboxCap) /\ conn[c] = "leaving"
  <2>1. dropIDs' = dropIDs \cup {c} /\ out' = out
    BY <1>2 DEF SendTo
  <2>2. FeedPhase' = FeedPhase /\ FeedUpto' = FeedUpto
    BY <1>0, <1>2, <2>1 DEF FeedPhase, FeedUpto
  <2>3. QED
    BY <1>0, <2>2 DEF Stream!feedVars
<1>3. CASE ~(Len(out[c]) < OutboxCap) /\ conn[c] = "serving"
  <2>1. dropIDs' = dropIDs \cup {c} /\ out' = out
    BY <1>3 DEF SendTo
  <2>2. got[c] + Len(out[c]) = sent - 1 /\ Len(out[c]) = OutboxCap
    BY <1>0, <1>3 DEF IInv, SeamlessStream, OutboxCap
  <2>3. FeedPhase[c] = "live" /\ FeedPhase' = [FeedPhase EXCEPT ![c] = "ended"]
    <3>1. c \notin subs' \ dropIDs' /\ conn'[c] = "serving"
      BY <1>0, <1>3, <2>1
    <3>2. \A d \in Conns \ {c} : d \in subs' \ dropIDs' <=> d \in subs \ dropIDs
      BY <1>0, <2>1
    <3>3. QED
      BY <1>0, <1>3, <3>1, <3>2 DEF FeedPhase
  <2>4. FeedUpto' = [FeedUpto EXCEPT ![c] = sent - 1]
    BY <1>0, <1>3, <2>1, <2>2 DEF FeedUpto
  <2>5. sent - got[c] > OutboxCap
    BY <1>0, <2>2
  <2>6. QED
    BY <1>0, <2>3, <2>4, <2>5 DEF Stream!Cut
<1>4. QED
  BY <1>0, <1>1, <1>2, <1>3

LEMMA SendDropRefines ==
    ASSUME IInv, NEW c \in Conns, SendDrop(c)
    PROVE  UNCHANGED Stream!feedVars
<1>1. subs' \ dropIDs' = subs \ dropIDs
  BY DEF IInv, LockInv, SendDrop, UnsubscribeLocked
<1>2. FeedPhase' = FeedPhase /\ FeedUpto' = FeedUpto
  BY <1>1, SameView DEF SendDrop
<1>3. QED
  BY <1>2 DEF SendDrop, Stream!feedVars

LEMMA CloseRefines == ASSUME IInv, Close PROVE Stream!Shutdown
<1>1. /\ todo = {} /\ dropIDs = {} /\ subs' = {} /\ dropIDs' = {}
      /\ out' = out /\ got' = got /\ conn' = conn
  BY DEF IInv, LockInv, Close, Unlocked, sendVars
<1>2. \A c \in Conns : conn[c] = "serving" /\ c \in subs =>
                          got[c] + Len(out[c]) = sent
  BY <1>1 DEF IInv, SeamlessStream
<1>3. \A c \in Conns : c \in subs => conn[c] # "off"
  BY DEF IInv, ChannelInv
<1>4. FeedPhase' = [c \in Conns |->
                      IF FeedPhase[c] = "live" THEN "ended" ELSE FeedPhase[c]]
  BY <1>1, <1>3 DEF FeedPhase
<1>5. FeedUpto' = [c \in Conns |->
                     IF FeedPhase[c] = "live" THEN sent ELSE FeedUpto[c]]
  <2>1. \A c \in Conns : FeedPhase[c] = "live" <=> conn[c] = "serving" /\ c \in subs
    BY <1>1 DEF FeedPhase
  <2>2. QED
    BY <1>1, <1>2, <2>1 DEF FeedUpto
<1>6. QED
  BY <1>1, <1>4, <1>5 DEF Close, Stream!Shutdown

LEMMA SubscribeRefines ==
    ASSUME IInv, NEW c \in Conns, Subscribe(c)
    PROVE  Stream!Join(c) \/ Stream!JoinLate(c)
<1>0. /\ out[c] = <<>> /\ c \notin subs /\ conn[c] = "off" /\ dropIDs = {}
      /\ dropIDs' = {} /\ sent' = sent /\ closed' = closed /\ sent \in Nat
      /\ conn' = [conn EXCEPT ![c] = "serving"] /\ conn \in [Conns -> {"off", "serving", "leaving", "gone"}]
      /\ got \in [Conns -> Nat]
  BY DEF IInv, TypeOK, LockInv, ChannelInv, Subscribe, Unlocked, sendVars
<1>1. FeedPhase[c] = "new"
  BY <1>0 DEF FeedPhase
<1>2. CASE closed
  <2>1. subs' = subs /\ out' = out /\ got' = [got EXCEPT ![c] = sent]
    BY <1>2 DEF Subscribe
  <2>2. FeedPhase' = [FeedPhase EXCEPT ![c] = "ended"]
    BY <1>0, <2>1 DEF FeedPhase
  <2>3. FeedUpto' = [FeedUpto EXCEPT ![c] = sent]
    <3>1. got'[c] + Len(out'[c]) = sent
      BY <1>0, <2>1
    <3>2. QED
      BY <1>0, <2>1, <3>1 DEF FeedUpto
  <2>4. QED
    BY <1>0, <1>1, <1>2, <2>1, <2>2, <2>3 DEF Stream!JoinLate
<1>3. CASE ~closed
  <2>1. /\ subs' = subs \cup {c} /\ out' = [out EXCEPT ![c] = backlog]
        /\ got' = [got EXCEPT ![c] = sent - Len(backlog)]
    BY <1>3 DEF Subscribe
  <2>2. sent - Len(backlog) = Stream!Start
    <3>1. Len(backlog) = IF sent < BacklogCap THEN sent ELSE BacklogCap
      BY <1>3 DEF IInv, BacklogInv
    <3>2. CASE sent < BacklogCap
      BY <1>0, <3>1, <3>2 DEF Stream!Start
    <3>3. CASE ~(sent < BacklogCap)
      BY <1>0, <3>1, <3>3 DEF Stream!Start
    <3>4. QED
      BY <3>2, <3>3
  <2>3. FeedPhase' = [FeedPhase EXCEPT ![c] = "live"]
    BY <1>0, <2>1 DEF FeedPhase
  <2>4. FeedUpto' = FeedUpto
    BY <1>0, <2>1 DEF FeedUpto
  <2>5. QED
    BY <1>0, <1>1, <1>3, <2>1, <2>2, <2>3, <2>4 DEF Stream!Join
<1>4. QED
  BY <1>2, <1>3

LEMMA DeliverRefines ==
    ASSUME IInv, NEW c \in Conns, Deliver(c)
    PROVE  Stream!Take(c)
<1>0. /\ conn[c] = "serving" /\ conn' = conn /\ subs' = subs
      /\ dropIDs' = dropIDs /\ sent' = sent /\ closed' = closed
      /\ got \in [Conns -> Nat] /\ sent \in Nat /\ out \in [Conns -> Seq(Nat)]
  BY DEF IInv, TypeOK, Deliver, busVars, sendVars
<1>1. /\ got' = [got EXCEPT ![c] = got[c] + 1]
      /\ out' = [out EXCEPT ![c] = Tail(out[c])]
      /\ Len(Tail(out[c])) = Len(out[c]) - 1
      /\ Len(out[c]) \in Nat \ {0}
  BY DeliverNext
<1>2. FeedPhase' = FeedPhase
  BY <1>0 DEF FeedPhase
<1>3. FeedUpto' = FeedUpto
  <2>1. got'[c] + Len(out'[c]) = got[c] + Len(out[c])
    BY <1>0, <1>1
  <2>2. QED
    BY <1>0, <1>1, <2>1 DEF FeedUpto
<1>4. \/ FeedPhase[c] = "live" /\ got[c] < sent
      \/ FeedPhase[c] = "ended" /\ got[c] < FeedUpto[c]
  <2>1. CASE c \in subs \ dropIDs
    <3>1. got[c] + Len(out[c]) <= sent
      BY <1>0, <2>1 DEF IInv, SeamlessStream
    <3>2. QED
      BY <1>0, <1>1, <2>1, <3>1 DEF FeedPhase
  <2>2. CASE c \notin subs \ dropIDs
    BY <1>0, <1>1, <2>2 DEF FeedPhase, FeedUpto
  <2>3. QED
    BY <2>1, <2>2
<1>5. QED
  BY <1>0, <1>1, <1>2, <1>3, <1>4 DEF Stream!Take

LEMMA LeaveRefines ==
    ASSUME IInv, NEW c \in Conns, WriteFails(c) \/ OutboxEnds(c) \/ Disconnect(c)
    PROVE  Stream!Leave(c)
<1>0. /\ conn[c] = "serving" /\ conn' = [conn EXCEPT ![c] = "leaving"]
      /\ subs' = subs /\ dropIDs' = dropIDs /\ got' = got /\ sent' = sent
      /\ closed' = closed /\ conn \in [Conns -> {"off", "serving", "leaving", "gone"}]
      /\ \A d \in Conns \ {c} : out'[d] = out[d]
  BY DEF IInv, TypeOK, WriteFails, OutboxEnds, Disconnect, busVars, sendVars
<1>1. /\ FeedPhase[c] \in {"live", "ended"}
      /\ FeedPhase' = [FeedPhase EXCEPT ![c] = "gone"]
  BY <1>0 DEF FeedPhase
<1>2. FeedUpto' = [FeedUpto EXCEPT ![c] = 0]
  BY <1>0 DEF FeedUpto
<1>3. QED
  BY <1>0, <1>1, <1>2 DEF Stream!Leave

LEMMA UnsubscribeRefines ==
    ASSUME IInv, NEW c \in Conns, Unsubscribe(c)
    PROVE  UNCHANGED Stream!feedVars
<1>0. /\ conn[c] = "leaving" /\ conn' = [conn EXCEPT ![c] = "gone"]
      /\ conn \in [Conns -> {"off", "serving", "leaving", "gone"}] /\ out' = out /\ got' = got
      /\ dropIDs' = dropIDs /\ sent' = sent /\ closed' = closed
      /\ subs' \cup {c} = subs \cup {c}
  BY DEF IInv, TypeOK, Unsubscribe, UnsubscribeLocked, sendVars
<1>1. FeedPhase' = FeedPhase /\ FeedUpto' = FeedUpto
  BY <1>0 DEF FeedPhase, FeedUpto
<1>2. QED
  BY <1>0, <1>1 DEF Stream!feedVars

LEMMA FeedStep == IInv /\ [Next]_vars => [Stream!FeedNext]_Stream!feedVars
<1> SUFFICES ASSUME IInv, [Next]_vars PROVE [Stream!FeedNext]_Stream!feedVars
  OBVIOUS
<1>1. CASE SendBegin
  BY <1>1, SendBeginRefines DEF Stream!FeedNext
<1>2. CASE SendStep
  <2>1. CASE SendEnd
    BY <2>1, SameView DEF SendEnd, busVars, Stream!feedVars
  <2>2. CASE \E c \in Conns : SendTo(c) \/ SendDrop(c)
    BY <2>2, SendToRefines, SendDropRefines DEF Stream!FeedNext
  <2>3. QED
    BY <1>2, <2>1, <2>2 DEF SendStep
<1>3. CASE Close
  BY <1>3, CloseRefines DEF Stream!FeedNext
<1>4. CASE \E c \in Conns : CloseNext(c)
  BY <1>4, SameView DEF CloseNext, busVars, sendVars, Stream!feedVars
<1>5. CASE \E c \in Conns : Subscribe(c) \/ Unsubscribe(c)
  BY <1>5, SubscribeRefines, UnsubscribeRefines DEF Stream!FeedNext
<1>6. CASE \E c \in Conns : HandlerStep(c) \/ WriteFails(c) \/ Disconnect(c)
  BY <1>6, DeliverRefines, LeaveRefines DEF HandlerStep, Stream!FeedNext
<1>7. CASE UNCHANGED vars
  BY <1>7, SameView DEF vars, busVars, sendVars, Stream!feedVars
<1>8. QED
  BY <1>1, <1>2, <1>3, <1>4, <1>5, <1>6, <1>7 DEF Next

\* The broadcaster implements the feed: whatever the interleaving of sends,
\* slow readers, joins, departures and shutdown, a client reads a contiguous
\* stream that starts at most BacklogCap back and is cut short only by
\* shutdown or by falling more than an outbox behind.
THEOREM Refinement == Spec => ImplementsFeed
<1>1. QED
  BY FeedInitStep, FeedStep, Invariance, PTL
     DEF Spec, ImplementsFeed, Stream!FeedSpec

=============================================================================
