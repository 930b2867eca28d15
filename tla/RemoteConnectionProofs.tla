------------------------ MODULE RemoteConnectionProofs ------------------------
(***************************************************************************)
(* The safety properties of RemoteConnection, for any number of messages,  *)
(* sockets and losses, and that it implements ReliableChannel.             *)
(***************************************************************************)
EXTENDS RemoteConnection, SetLemmas, SequenceTheorems

-----------------------------------------------------------------------------
(* The inductive invariant. *)

\* A message that may be under way to end e: it acknowledges what the other end
\* has received, and if it is a message of a user it is one that was sent.
Toward(e) ==
    {m \in Messages :
        /\ m.ack <= incomingMsgId[Peer(e)]
        /\ m.type = "regular" => m.data = m.id /\ m.id \in 1..outgoingMsgId[Peer(e)]}

Acks == {m \in Messages : m.type = "ack"}

\* What may be under way on socket s to end e: nothing before the socket is
\* opened, and acknowledgements of the client until the server has taken it.
Allowed ==
    [p \in Sockets \X Ends |->
        {m \in Toward(p[2]) :
            /\ p[1] <= opened
            /\ p[1] \in offered => p[2] = "server" /\ m \in Acks}]

Wires(S) == {w \in [Sockets \X Ends -> Seq(Messages)] :
                \A p \in Sockets \X Ends : w[p] \in Seq(S[p])}

OnWire == wire \in Wires(Allowed)

\* The queue q is what an end keeps when it has heard of ack and sent n.
Keeps(q, ack, n) ==
    /\ Len(q) = n - ack
    /\ \A i \in 1..Len(q) : q[i].type = "regular" /\ q[i].id = ack + i

\* The queue of an end holds what is not acknowledged.
Queue(e) ==
    /\ sent[e] = outgoingMsgId[e]
    /\ outgoingAckId[e] <= outgoingMsgId[e]
    /\ outgoingUnackMsg[e] \in Seq(Toward(Peer(e)))
    /\ Keeps(outgoingUnackMsg[e], outgoingAckId[e], outgoingMsgId[e])

Queues == \A e \in Ends : Queue(e)

Counted ==
    \A e \in Ends :
        /\ incomingMsgId[e] <= outgoingMsgId[Peer(e)]
        /\ outgoingAckId[e] <= incomingMsgId[Peer(e)]

\* What was received is with the listener, or waits for one.
UpTo(n) == [i \in 1..n |-> i]
Told ==
    \A e \in Ends :
        /\ hasListeners[e] => buffered[e] = <<>> /\ got[e] = UpTo(incomingMsgId[e])
        /\ ~hasListeners[e] => got[e] = <<>> /\ buffered[e] = UpTo(incomingMsgId[e])

\* Where the ends are.
Placed ==
    /\ socket["client"] = opened
    /\ socket["server"] <= opened /\ socket["server"] \notin offered
    /\ offered \subseteq 1..opened
    /\ opened \in offered => isReconnecting["client"]
    /\ loop = "handshake" => ~okBuffered

IInv ==
    /\ TypeOK /\ OnWire /\ Queues /\ Counted /\ Told /\ Placed
    /\ UnackWatched /\ AckScheduled /\ ReconnectingInLoop /\ GraceOnlyWithoutClient

-----------------------------------------------------------------------------
(* What is under way. *)

LEMMA PeerFacts ==
    ASSUME NEW e \in Ends
    PROVE  Peer(e) \in Ends /\ Peer(Peer(e)) = e /\ Peer(e) # e
BY DEF Ends, Peer

\* If more is allowed, what was allowed still is.
LEMMA WiresGrow ==
    ASSUME NEW S, NEW T, NEW w \in Wires(S),
           \A p \in Sockets \X Ends : S[p] \subseteq T[p]
    PROVE  w \in Wires(T)
<1>1. ASSUME NEW p \in Sockets \X Ends PROVE w[p] \in Seq(T[p])
  BY SeqMonotonic DEF Wires
<1>. QED  BY <1>1 DEF Wires

\* Changing one place of the wire.
LEMMA WiresExcept ==
    ASSUME NEW S, NEW w \in Wires(S), NEW p \in Sockets \X Ends,
           NEW q \in Seq(Messages), q \in Seq(S[p])
    PROVE  [w EXCEPT ![p] = q] \in Wires(S)
BY DEF Wires

\* Taking something out of a place of the wire.
LEMMA SubSeqIn ==
    ASSUME NEW S, NEW q \in Seq(S), NEW m \in 1..Len(q) + 1, NEW n \in 0..Len(q)
    PROVE  SubSeq(q, m, n) \in Seq(S)
<1>1. \A i \in m..n : q[i] \in S
  BY ElementOfSeq, LenProperties
<1>. QED  BY <1>1, SubSeqProperties, LenProperties

\* Where a sequence of length l can be cut.
LEMMA Places ==
    ASSUME NEW l \in Nat, NEW n \in 0..l
    PROVE  n + 1 \in 1..l + 1 /\ 1 \in 1..l + 1 /\ l \in 0..l
OBVIOUS

LEMMA WiresRead ==
    ASSUME NEW S, NEW w \in Wires(S), NEW p \in Sockets \X Ends, w[p] # <<>>
    PROVE  [w EXCEPT ![p] = Tail(@)] \in Wires(S)
<1>1. w[p] \in Seq(Messages) /\ w[p] \in Seq(S[p])
  BY DEF Wires
<1>2. Tail(w[p]) \in Seq(Messages) /\ Tail(w[p]) \in Seq(S[p])
  BY <1>1, HeadTailProperties
<1>. QED  BY <1>2, WiresExcept

LEMMA WiresCut ==
    ASSUME NEW S, NEW w \in Wires(S), NEW p \in Sockets \X Ends,
           NEW m \in 1..Len(w[p]) + 1, NEW n \in 0..Len(w[p])
    PROVE  [w EXCEPT ![p] = SubSeq(@, m, n)] \in Wires(S)
<1>1. w[p] \in Seq(Messages) /\ w[p] \in Seq(S[p])
  BY DEF Wires
<1>2. SubSeq(w[p], m, n) \in Seq(Messages) /\ SubSeq(w[p], m, n) \in Seq(S[p])
  BY <1>1, SubSeqIn
<1>. QED  BY <1>2, WiresExcept

\* What an end writes is on the wire or lost.
LEMMA WiresWritten ==
    ASSUME NEW S, NEW w \in Wires(S), NEW e \in Ends, socket[e] \in Sockets,
           NEW messages \in Seq(Messages), messages \in Seq(S[<<socket[e], Peer(e)>>])
    PROVE  Written(w, e, messages) \in Wires(S)
<1>. DEFINE p == <<socket[e], Peer(e)>>
<1>1. p \in Sockets \X Ends
  BY PeerFacts
<1>2. w[p] \in Seq(Messages) /\ w[p] \in Seq(S[p])
  BY <1>1 DEF Wires
<1>3. w[p] \o messages \in Seq(Messages) /\ w[p] \o messages \in Seq(S[p])
  BY <1>2, ConcatProperties
<1>4. [w EXCEPT ![p] = @ \o messages] \in Wires(S)
  BY <1>1, <1>3, WiresExcept
<1>. QED  BY <1>4 DEF Written

LEMMA WiresAbandoned ==
    ASSUME NEW S, NEW w \in Wires(S), NEW e \in Ends, socket[e] \in Sockets,
           NEW v \in Abandoned(w, e)
    PROVE  v \in Wires(S)
<1>. DEFINE p == <<socket[e], e>>  q == <<socket[e], Peer(e)>>
<1>1. p \in Sockets \X Ends /\ q \in Sockets \X Ends /\ p # q
  BY PeerFacts
<1>2. PICK n \in 0..Len(w[q]) :
        v = [w EXCEPT ![p] = <<>>, ![q] = SubSeq(@, 1, n)]
  BY DEF Abandoned
<1>3. w[q] \in Seq(Messages)
  BY <1>1 DEF Wires
<1>. DEFINE u == [w EXCEPT ![q] = SubSeq(@, 1, n)]
<1>4. u \in Wires(S)
  <2>1. 1 \in 1..Len(w[q]) + 1
    BY <1>3, LenProperties
  <2>. HIDE DEF q
  <2>. QED  BY <1>1, <2>1, WiresCut
<1>5. [u EXCEPT ![p] = <<>>] \in Wires(S)
  BY <1>1, <1>4, WiresExcept, EmptySeq
<1>6. v = [u EXCEPT ![p] = <<>>]
  BY <1>1, <1>2 DEF Wires
<1>. QED  BY <1>5, <1>6

-----------------------------------------------------------------------------
(* Numbers only grow, and sockets are offered when they are opened. *)

otherVars == <<clientVars, offered, noticed, graceVars, drops>>

USE DEF sendVars, watchVars, receiveVars, ackVars, listenVars, modeVars,
        socketVars, protocolVars, clientVars, graceVars, otherVars

Growth ==
    /\ \A e \in Ends : /\ outgoingMsgId[e] <= outgoingMsgId[e]'
                       /\ incomingMsgId[e] <= incomingMsgId[e]'
    /\ outgoingMsgId' \in [Ends -> Nat] /\ incomingMsgId' \in [Ends -> Nat]
    /\ opened' \in Sockets /\ opened <= opened'
    /\ offered' \subseteq offered \cup {s \in Sockets : s > opened}

LEMMA StepGrows ==
    ASSUME IInv, [Next]_vars PROVE Growth
<1>0. /\ outgoingMsgId \in [Ends -> Nat] /\ incomingMsgId \in [Ends -> Nat]
      /\ opened \in Sockets /\ offered \subseteq Sockets
  BY DEF IInv, TypeOK
<1>1. ASSUME NEW e \in Ends, UserSends(e)
      PROVE  Growth
  BY <1>0, <1>1, BoundsAssumption DEF Growth, Sockets, UserSends, Send, BeginReconnectingIf
<1>2. ASSUME NEW e \in Ends, AckTimer(e)
      PROVE  Growth
  BY <1>0, <1>2, BoundsAssumption DEF Growth, Sockets, AckTimer, CheckAck, BeginReconnectingIf
<1>3. ASSUME NEW e \in Ends, ReceiveNext(e),
              UNCHANGED otherVars
      PROVE  Growth
  BY <1>0, <1>3, BoundsAssumption DEF Growth, Sockets, ReceiveNext, Arrives, Confirm
<1>4. ASSUME NEW e \in Ends, ReceiveBeyondGap(e),
              UNCHANGED otherVars
      PROVE  Growth
  BY <1>0, <1>4, BoundsAssumption DEF Growth, Sockets, ReceiveBeyondGap, Arrives, Confirm
<1>5. ASSUME NEW e \in Ends, ReceiveNothingNew(e),
              UNCHANGED otherVars
      PROVE  Growth
  BY <1>0, <1>5, BoundsAssumption DEF Growth, Sockets, ReceiveNothingNew, Arrives, Confirm
<1>6. ASSUME NEW e \in Ends, ReceiveReplayRequest(e),
              UNCHANGED otherVars
      PROVE  Growth
  BY <1>0, <1>6, BoundsAssumption DEF Growth, Sockets, ReceiveReplayRequest, Arrives, Confirm
<1>7. ASSUME NEW e \in Ends, SendAck(e),
              UNCHANGED otherVars
      PROVE  Growth
  BY <1>0, <1>7, BoundsAssumption DEF Growth, Sockets, SendAck
<1>8. ASSUME NEW e \in Ends, TenSeconds(e),
              UNCHANGED otherVars
      PROVE  Growth
  BY <1>0, <1>8, BoundsAssumption DEF Growth, Sockets, TenSeconds
<1>9. ASSUME NEW e \in Ends, KeepAlive(e)
      PROVE  Growth
  <2>1. UNCHANGED <<outgoingMsgId, incomingMsgId, opened, offered>>
    BY <1>9 DEF KeepAlive, SendKeepAlive
  <2>. QED  BY <1>0, <2>1, BoundsAssumption DEF Growth, Sockets
<1>10. ASSUME NEW e \in Ends, Listen(e)
      PROVE  Growth
  BY <1>0, <1>10, BoundsAssumption DEF Growth, Sockets, Listen, AddListener
<1>11. ASSUME NEW e \in Ends, Drop(e)
      PROVE  Growth
  BY <1>0, <1>11, BoundsAssumption DEF Growth, Sockets, Drop
<1>12. ASSUME NEW s \in Sockets, Close(s)
      PROVE  Growth
  <2>1. UNCHANGED <<outgoingMsgId, incomingMsgId, opened, offered>>
    BY <1>12 DEF Close, CloseSocket
  <2>. QED  BY <1>0, <2>1, BoundsAssumption DEF Growth, Sockets
<1>13. ASSUME NEW s \in Sockets, AcceptReconnection(s)
      PROVE  Growth
  <2>1. UNCHANGED <<outgoingMsgId, incomingMsgId, opened>> /\ offered' \subseteq offered
    BY <1>13 DEF AcceptReconnection, BeginAcceptReconnection
  <2>. QED  BY <1>0, <2>1, BoundsAssumption DEF Growth, Sockets
<1>14. ASSUME NEW s \in Sockets, RejectConnection(s)
      PROVE  Growth
  BY <1>0, <1>14, BoundsAssumption DEF Growth, Sockets, RejectConnection, Dispose
<1>15. ASSUME ClientSocketClosed
      PROVE  Growth
  BY <1>0, <1>15, BoundsAssumption DEF Growth, Sockets, ClientSocketClosed, ToldOfClose, BeginReconnectingIf
<1>16. ASSUME ServerSocketClosed
      PROVE  Growth
  BY <1>0, <1>16, BoundsAssumption DEF Growth, Sockets, ServerSocketClosed, ToldOfClose
<1>17. ASSUME Reconnect
      PROVE  Growth
  BY <1>0, <1>17, BoundsAssumption DEF Growth, Sockets, Reconnect, BeginAcceptReconnection
<1>18. ASSUME HandshakeTimesOut
      PROVE  Growth
  BY <1>0, <1>18, BoundsAssumption DEF Growth, Sockets, HandshakeTimesOut
<1>19. ASSUME LateOk
      PROVE  Growth
  BY <1>0, <1>19, BoundsAssumption DEF Growth, Sockets, LateOk
<1>20. ASSUME Reconnected
      PROVE  Growth
  BY <1>0, <1>20, BoundsAssumption DEF Growth, Sockets, Reconnected, EndAcceptReconnection
<1>21. ASSUME GiveUp
      PROVE  Growth
  BY <1>0, <1>21, BoundsAssumption DEF Growth, Sockets, GiveUp, Dispose
<1>22. ASSUME Accepted
      PROVE  Growth
  BY <1>0, <1>22, BoundsAssumption DEF Growth, Sockets, Accepted, EndAcceptReconnection
<1>23. ASSUME ShortenGraceTime
      PROVE  Growth
  BY <1>0, <1>23, BoundsAssumption DEF Growth, Sockets, ShortenGraceTime
<1>24. ASSUME CleanResources
      PROVE  Growth
  BY <1>0, <1>24, BoundsAssumption DEF Growth, Sockets, CleanResources, Dispose
<1>25. ASSUME UNCHANGED vars PROVE Growth
  BY <1>25, <1>0, BoundsAssumption DEF vars, Growth, Sockets
<1>. QED
  BY <1>1, <1>2, <1>3, <1>4, <1>5, <1>6, <1>7, <1>8, <1>9, <1>10, <1>11, <1>12, <1>13, <1>14, <1>15, <1>16, <1>17, <1>18, <1>19, <1>20, <1>21, <1>22, <1>23, <1>24, <1>25 DEF Next, Receive, Timers, otherVars

LEMMA TowardGrows ==
    ASSUME TypeOK, Growth, NEW e \in Ends
    PROVE  Toward(e) \subseteq Toward(e)'
<1>1. Peer(e) \in Ends
  BY PeerFacts
<1>2. /\ incomingMsgId[Peer(e)] \in Nat /\ incomingMsgId[Peer(e)]' \in Nat
      /\ outgoingMsgId[Peer(e)] \in Nat /\ outgoingMsgId[Peer(e)]' \in Nat
  BY <1>1 DEF TypeOK, Growth
<1>. QED  BY <1>1, <1>2 DEF Toward, Growth, Messages

LEMMA AllowedGrows ==
    ASSUME TypeOK, Growth
    PROVE  \A p \in Sockets \X Ends : Allowed[p] \subseteq (Allowed')[p]
<1>1. ASSUME NEW s \in Sockets, NEW e \in Ends
      PROVE  Allowed[<<s, e>>] \subseteq (Allowed')[<<s, e>>]
  <2>1. Toward(e) \subseteq Toward(e)'
    BY TowardGrows
  <2>2. s \in Int /\ opened \in Int /\ opened' \in Int
    BY DEF Sockets, TypeOK, Growth
  <2>. QED  BY <2>1, <2>2 DEF Allowed, Growth
<1>. QED  BY <1>1

-----------------------------------------------------------------------------
(* Reading: what a message says, and what it confirms. *)

\* What an end knows when it has a message to read.
LEMMA Reading ==
    ASSUME IInv, NEW e \in Ends, Incoming(e) # <<>>
    PROVE  /\ Head(Incoming(e)) \in Toward(e)
           /\ Read(e) \in Wires(Allowed)
           /\ socket[e] \in Sockets /\ socket[e] \notin offered
<1>. DEFINE p == <<socket[e], e>>
<1>1. socket[e] \in Sockets /\ wire \in Wires(Allowed)
  BY DEF IInv, TypeOK, OnWire
<1>2. p \in Sockets \X Ends
  BY <1>1
<1>3. wire[p] \in Seq(Messages) /\ wire[p] \in Seq(Allowed[p])
  BY <1>1, <1>2 DEF Wires
<1>4. Head(wire[p]) \in Allowed[p]
  BY <1>3, HeadTailProperties DEF Incoming
<1>5. [wire EXCEPT ![p] = Tail(@)] \in Wires(Allowed)
  <2>. HIDE DEF p
  <2>. QED  BY <1>1, <1>2, WiresRead DEF Incoming, p
<1>6. e = "server" => socket[e] \notin offered
  BY DEF IInv, Placed
<1>. QED  BY <1>1, <1>2, <1>4, <1>5, <1>6 DEF Allowed, Incoming, Read

LEMMA KeepsUnconfirmed ==
    ASSUME NEW S, NEW q \in Seq(S), NEW old \in Nat, NEW n \in Nat, NEW ack \in Nat,
           Keeps(q, old, n), old <= ack, ack <= n
    PROVE  Unconfirmed(q, ack) \in Seq(S) /\ Keeps(Unconfirmed(q, ack), ack, n)
<1>. DEFINE confirmed == {k \in 0..Len(q) : \A i \in 1..k : q[i].id <= ack}
            k == ack - old
<1>1. Len(q) \in Nat /\ Len(q) = n - old /\ k \in 0..Len(q)
  BY LenProperties DEF Keeps
<1>2. \A i \in 1..Len(q) : q[i].id = old + i
  BY DEF Keeps
<1>3. confirmed = 0..k
  <2>1. ASSUME NEW j \in 0..k PROVE j \in confirmed
    <3>1. \A i \in 1..j : i \in 1..Len(q) /\ old + i <= ack
      BY <1>1
    <3>. QED  BY <1>1, <1>2, <3>1
  <2>2. ASSUME NEW j \in confirmed PROVE j \in 0..k
    <3>1. CASE j = 0
      BY <1>1, <3>1
    <3>2. CASE j # 0
      <4>1. j \in 1..Len(q) /\ j \in 1..j
        BY <1>1, <3>2
      <4>2. q[j].id <= ack /\ q[j].id = old + j
        BY <4>1, <1>2
      <4>. QED  BY <1>1, <4>1, <4>2
    <3>. QED  BY <3>1, <3>2
  <2>. QED  BY <2>1, <2>2
<1>4. Max(confirmed) = k
  <2>. HIDE DEF confirmed
  <2>0. k \in Nat /\ 0 \in 0..k
    BY <1>1
  <2>1. 0..k \subseteq 0..k /\ 0..k # {} /\ k \in Nat
    BY <2>0
  <2>2. Max(0..k) \in 0..k /\ \A y \in 0..k : y <= Max(0..k)
    BY <2>1, MaxOfBounded
  <2>3. k <= Max(0..k)
    BY <2>1, <2>2
  <2>. QED  BY <1>3, <2>1, <2>2, <2>3
<1>5. Unconfirmed(q, ack) = SubSeq(q, k + 1, Len(q))
  BY <1>4 DEF Unconfirmed
<1>6. k + 1 \in 1..Len(q) + 1 /\ Len(q) \in 0..Len(q)
  BY <1>1
<1>7. SubSeq(q, k + 1, Len(q)) \in Seq(S)
  BY <1>6, SubSeqIn
<1>8. /\ Len(SubSeq(q, k + 1, Len(q))) = Len(q) - k
      /\ \A i \in 1..Len(q) - k : SubSeq(q, k + 1, Len(q))[i] = q[k + i]
  BY <1>1
<1>9. \A i \in 1..Len(q) - k : k + i \in 1..Len(q) /\ old + (k + i) = ack + i
  BY <1>1
<1>10. \A i \in 1..Len(q) - k : q[k + i].type = "regular" /\ q[k + i].id = ack + i
  BY <1>9 DEF Keeps
<1>. QED  BY <1>1, <1>5, <1>7, <1>8, <1>10 DEF Keeps

\* What a message confirms is taken off the queue, and the other queue stays.
Confirmed(e) ==
    /\ outgoingMsgId' = outgoingMsgId /\ sent' = sent
    /\ outgoingAckId' \in [Ends -> Nat] /\ outgoingUnackMsg' \in [Ends -> Seq(Messages)]
    /\ outgoingAckId[e] <= outgoingAckId'[e] /\ outgoingAckId'[e] <= incomingMsgId[Peer(e)]
    /\ \A f \in Ends \ {e} : /\ outgoingAckId'[f] = outgoingAckId[f]
                             /\ outgoingUnackMsg'[f] = outgoingUnackMsg[f]
    /\ outgoingAckId'[e] <= outgoingMsgId[e]
    /\ outgoingUnackMsg'[e] \in Seq(Toward(Peer(e)))
    /\ Keeps(outgoingUnackMsg'[e], outgoingAckId'[e], outgoingMsgId[e])

LEMMA Arriving ==
    ASSUME IInv, NEW e \in Ends, Arrives(e, Head(Incoming(e)))
    PROVE  /\ Confirmed(e) /\ ~disposed[e] /\ Incoming(e) # <<>>
           /\ Head(Incoming(e)) \in Toward(e)
           /\ Read(e) \in Wires(Allowed)
           /\ socket[e] \in Sockets /\ socket[e] \notin offered
<1>. DEFINE msg == Head(Incoming(e))
<1>1. Incoming(e) # <<>> /\ ~disposed[e] /\ Confirm(e, msg.ack)
  BY DEF Arrives
<1>2. /\ msg \in Toward(e) /\ Read(e) \in Wires(Allowed)
      /\ socket[e] \in Sockets /\ socket[e] \notin offered
  BY <1>1, Reading
<1>3. msg \in Messages /\ msg.ack \in Nat /\ msg.ack <= incomingMsgId[Peer(e)]
  BY <1>2 DEF Toward, Messages
<1>4. /\ outgoingAckId \in [Ends -> Nat] /\ outgoingMsgId \in [Ends -> Nat]
      /\ incomingMsgId \in [Ends -> Nat]
      /\ outgoingUnackMsg \in [Ends -> Seq(Messages)]
  BY DEF IInv, TypeOK
<1>5. Peer(e) \in Ends /\ Peer(Peer(e)) = e
  BY PeerFacts
<1>6. /\ incomingMsgId[Peer(e)] <= outgoingMsgId[e]
      /\ outgoingAckId[e] <= incomingMsgId[Peer(e)]
  BY <1>5 DEF IInv, Counted
<1>7. Queue(e)
  BY DEF IInv, Queues
<1>8. CASE msg.ack > outgoingAckId[e]
  <2>1. /\ outgoingAckId' = [outgoingAckId EXCEPT ![e] = msg.ack]
        /\ outgoingUnackMsg' = [outgoingUnackMsg EXCEPT
                                  ![e] = Unconfirmed(outgoingUnackMsg[e], msg.ack)]
        /\ outgoingMsgId' = outgoingMsgId /\ sent' = sent
    BY <1>1, <1>8 DEF Confirm
  <2>2. msg.ack <= outgoingMsgId[e] /\ outgoingAckId[e] <= msg.ack
    BY <1>3, <1>4, <1>5, <1>6, <1>8
  <2>3. /\ Unconfirmed(outgoingUnackMsg[e], msg.ack) \in Seq(Toward(Peer(e)))
        /\ Keeps(Unconfirmed(outgoingUnackMsg[e], msg.ack), msg.ack, outgoingMsgId[e])
    <3>. HIDE DEF msg
    <3>. QED  BY <2>2, <1>3, <1>4, <1>7, KeepsUnconfirmed DEF Queue
  <2>4. Unconfirmed(outgoingUnackMsg[e], msg.ack) \in Seq(Messages)
    BY <2>3, SeqMonotonic DEF Toward
  <2>5. /\ outgoingAckId'[e] = msg.ack
        /\ outgoingUnackMsg'[e] = Unconfirmed(outgoingUnackMsg[e], msg.ack)
        /\ outgoingAckId' \in [Ends -> Nat]
        /\ outgoingUnackMsg' \in [Ends -> Seq(Messages)]
        /\ \A f \in Ends \ {e} : /\ outgoingAckId'[f] = outgoingAckId[f]
                                 /\ outgoingUnackMsg'[f] = outgoingUnackMsg[f]
    <3>. HIDE DEF msg
    <3>. QED  BY <2>1, <2>4, <1>3, <1>4
  <2>. HIDE DEF msg
  <2>. QED  BY <1>1, <1>2, <1>3, <2>1, <2>2, <2>3, <2>5 DEF Confirmed, msg
<1>9. CASE ~(msg.ack > outgoingAckId[e])
  <2>1. UNCHANGED sendVars
    BY <1>1, <1>9 DEF Confirm
  <2>. QED  BY <1>1, <1>2, <1>4, <1>6, <1>7, <2>1 DEF Confirmed, Queue
<1>. QED  BY <1>8, <1>9

-----------------------------------------------------------------------------
(* Writing: what an end may put on the wire. *)

LEMMA Writing ==
    ASSUME IInv, Growth, NEW e \in Ends, NEW w \in Wires(Allowed'),
           NEW q \in Seq(Toward(Peer(e))'),
           socket[e] \in offered => q \in Seq(Acks)
    PROVE  Written(w, e, q) \in Wires(Allowed')
<1>. DEFINE p == <<socket[e], Peer(e)>>
<1>1. socket[e] \in Sockets /\ Peer(e) \in Ends /\ p \in Sockets \X Ends
  BY PeerFacts DEF IInv, TypeOK
<1>2. socket[e] <= opened' /\ (socket[e] \in offered' => socket[e] \in offered)
  <2>1. socket[e] <= opened
    <3>1. socket["client"] = opened /\ socket["server"] <= opened /\ opened \in Int
      BY BoundsAssumption DEF IInv, Placed, TypeOK, Sockets
    <3>. QED  BY <3>1 DEF Ends
  <2>2. opened \in Int /\ opened' \in Int /\ opened <= opened'
    BY BoundsAssumption DEF IInv, TypeOK, Growth, Sockets
  <2>3. offered' \subseteq offered \cup {s \in Sockets : s > opened}
    BY DEF Growth
  <2>. QED  BY <1>1, <2>1, <2>2, <2>3, BoundsAssumption DEF Sockets
<1>3. socket[e] \in offered => Peer(e) = "server"
  BY DEF IInv, Placed, Ends, Peer
<1>4. q \in Seq(Messages)
  BY SeqMonotonic DEF Toward
<1>5. ASSUME NEW i \in 1..Len(q) PROVE q[i] \in (Allowed')[p]
  <2>1. q[i] \in Toward(Peer(e))'
    BY ElementOfSeq
  <2>2. socket[e] \in offered => q[i] \in Acks
    BY ElementOfSeq
  <2>. QED  BY <1>1, <1>2, <1>3, <2>1, <2>2 DEF Allowed
<1>6. q \in Seq((Allowed')[p])
  BY <1>4, <1>5, SeqDef, LenProperties
<1>. QED  BY <1>1, <1>4, <1>6, WiresWritten

LEMMA AckMessage ==
    ASSUME IInv, NEW e \in Ends
    PROVE  /\ <<Ack(incomingMsgId[e])>> \in Seq(Toward(Peer(e)))
           /\ <<Ack(incomingMsgId[e])>> \in Seq(Acks)
           /\ <<ReplayRequest>> \in Seq(Toward(Peer(e)))
<1>1. incomingMsgId[e] \in Nat /\ incomingMsgId[Peer(Peer(e))] = incomingMsgId[e]
  BY PeerFacts DEF IInv, TypeOK
<1>2. Ack(incomingMsgId[e]) \in Messages /\ ReplayRequest \in Messages
  BY <1>1 DEF Ack, ReplayRequest, Control, Messages
<1>3. Ack(incomingMsgId[e]) \in Toward(Peer(e)) /\ ReplayRequest \in Toward(Peer(e))
  BY <1>1, <1>2 DEF Toward, Ack, ReplayRequest, Control
<1>. QED  BY <1>2, <1>3 DEF Acks, Ack, Control

\* What may be sent to an end may still be sent later.
LEMMA SeqTowardGrows ==
    ASSUME IInv, Growth, NEW e \in Ends, NEW q \in Seq(Toward(e))
    PROVE  q \in Seq(Toward(e)')
BY TowardGrows, SeqMonotonic DEF IInv

\* The message that a user sends.
LEMMA SentMessage ==
    ASSUME IInv, Growth, NEW e \in Ends, NEW late, Send(e, late)
    PROVE  /\ Regular(outgoingMsgId[e] + 1, incomingMsgId[e], sent[e] + 1) \in Toward(Peer(e))'
           /\ ~isReconnecting[e] => socket[e] \notin offered
<1>. DEFINE id == outgoingMsgId[e] + 1
            msg == Regular(id, incomingMsgId[e], sent[e] + 1)
<1>1. /\ outgoingMsgId \in [Ends -> Nat] /\ incomingMsgId \in [Ends -> Nat]
      /\ sent[e] = outgoingMsgId[e]
  BY DEF IInv, TypeOK, Queues, Queue
<1>2. /\ outgoingMsgId' = [outgoingMsgId EXCEPT ![e] = id]
      /\ incomingMsgId' = incomingMsgId
  BY DEF Send
<1>3. Peer(Peer(e)) = e
  BY PeerFacts
<1>4. msg \in Messages /\ msg.ack = incomingMsgId[e] /\ msg.id = id /\ msg.data = id
  BY <1>1 DEF Regular, Messages
<1>5. outgoingMsgId'[e] = id /\ id \in 1..id
  BY <1>1, <1>2
<1>6. msg \in Toward(Peer(e))'
  <2>. HIDE DEF msg, id
  <2>. QED  BY <1>1, <1>2, <1>3, <1>4, <1>5 DEF Toward
<1>7. ~isReconnecting[e] => socket[e] \notin offered
  BY DEF IInv, Placed, Ends
<1>. QED  BY <1>6, <1>7

LEMMA ResentMessages ==
    ASSUME IInv, NEW e \in Ends
    PROVE  Resent(e) \in Seq(Toward(Peer(e)))
<1>1. outgoingUnackMsg[e] \in Seq(Toward(Peer(e)))
  BY DEF IInv, Queues, Queue
<1>. QED  BY <1>1, AckMessage, ConcatProperties DEF Resent

\* Every step puts on the wire only what may be there.
LEMMA StepOnWire ==
    ASSUME IInv, [Next]_vars PROVE OnWire'
<1>a. Growth
  BY StepGrows
<1>c. \A p \in Sockets \X Ends : Allowed[p] \subseteq (Allowed')[p]
  BY <1>a, AllowedGrows DEF IInv
<1>b. wire \in Wires(Allowed')
  BY <1>c, WiresGrow DEF IInv, OnWire
<1>f. \A e \in Ends : Resent(e) \in Seq(Toward(Peer(e))')
  BY <1>a, ResentMessages, SeqTowardGrows, PeerFacts
<1>d. ASSUME NEW e \in Ends
      PROVE  Written(wire, e, <<Ack(incomingMsgId[e])>>) \in Wires(Allowed')
  <2>1. <<Ack(incomingMsgId[e])>> \in Seq(Toward(Peer(e))')
    BY <1>a, AckMessage, SeqTowardGrows, PeerFacts
  <2>. QED  BY <2>1, <1>a, <1>b, AckMessage, Writing
<1>e. \A e \in Ends : Abandoned(wire, e) \subseteq Wires(Allowed')
  BY <1>b, WiresAbandoned DEF IInv, TypeOK
<1>g. SUFFICES wire' \in Wires(Allowed')
  BY DEF OnWire, Wires
<1>1. ASSUME NEW e \in Ends, UserSends(e)
      PROVE  wire' \in Wires(Allowed')
  <2>1. PICK late \in BOOLEAN : Send(e, late)
    BY <1>1 DEF UserSends
  <2>. DEFINE msg == Regular(outgoingMsgId[e] + 1, incomingMsgId[e], sent[e] + 1)
  <2>2. msg \in Toward(Peer(e))' /\ (~isReconnecting[e] => socket[e] \notin offered)
    BY <2>1, <1>a, SentMessage
  <2>3. <<msg>> \in Seq(Toward(Peer(e))')
    <3>. HIDE DEF msg
    <3>. QED  BY <2>2
  <2>4. CASE isReconnecting[e]
    BY <2>1, <2>4, <1>b DEF Send
  <2>5. CASE ~isReconnecting[e]
    <3>1. wire' = Written(wire, e, <<msg>>)
      BY <2>1, <2>5 DEF Send
    <3>. HIDE DEF msg
    <3>. QED  BY <3>1, <2>2, <2>3, <2>5, <1>a, <1>b, Writing
  <2>. QED  BY <2>4, <2>5
<1>2. ASSUME NEW e \in Ends, AckTimer(e)
      PROVE  wire' \in Wires(Allowed')
  BY <1>2, <1>b DEF AckTimer, CheckAck, BeginReconnectingIf
<1>3. ASSUME NEW e \in Ends, ReceiveNext(e),
              UNCHANGED otherVars
      PROVE  wire' \in Wires(Allowed')
  <2>1. Arrives(e, Head(Incoming(e))) /\ wire' = Read(e)
    BY <1>3 DEF ReceiveNext
  <2>2. Read(e) \in Wires(Allowed)
    BY <2>1, Arriving
  <2>. QED  BY <2>1, <2>2, <1>c, WiresGrow
<1>4. ASSUME NEW e \in Ends, ReceiveBeyondGap(e),
              UNCHANGED otherVars
      PROVE  wire' \in Wires(Allowed')
  <2>1. /\ Arrives(e, Head(Incoming(e)))
        /\ wire' = Read(e) \/ wire' = Written(Read(e), e, <<ReplayRequest>>)
    BY <1>4 DEF ReceiveBeyondGap
  <2>2. Read(e) \in Wires(Allowed) /\ socket[e] \notin offered
    BY <2>1, Arriving
  <2>3. Read(e) \in Wires(Allowed')
    BY <2>2, <1>c, WiresGrow
  <2>4. <<ReplayRequest>> \in Seq(Toward(Peer(e))')
    BY <1>a, AckMessage, SeqTowardGrows, PeerFacts
  <2>. QED  BY <2>1, <2>2, <2>3, <2>4, <1>a, Writing
<1>5. ASSUME NEW e \in Ends, ReceiveNothingNew(e),
              UNCHANGED otherVars
      PROVE  wire' \in Wires(Allowed')
  <2>1. Arrives(e, Head(Incoming(e))) /\ wire' = Read(e)
    BY <1>5 DEF ReceiveNothingNew
  <2>2. Read(e) \in Wires(Allowed)
    BY <2>1, Arriving
  <2>. QED  BY <2>1, <2>2, <1>c, WiresGrow
<1>6. ASSUME NEW e \in Ends, ReceiveReplayRequest(e),
              UNCHANGED otherVars
      PROVE  wire' \in Wires(Allowed')
  <2>1. /\ Arrives(e, Head(Incoming(e)))
        /\ wire' = Written(Read(e), e, outgoingUnackMsg'[e])
    BY <1>6 DEF ReceiveReplayRequest
  <2>2. /\ Read(e) \in Wires(Allowed) /\ socket[e] \notin offered
        /\ outgoingUnackMsg'[e] \in Seq(Toward(Peer(e)))
    BY <2>1, Arriving DEF Confirmed
  <2>3. Read(e) \in Wires(Allowed')
    BY <2>2, <1>c, WiresGrow
  <2>4. outgoingUnackMsg'[e] \in Seq(Toward(Peer(e))')
    BY <2>2, <1>a, SeqTowardGrows, PeerFacts
  <2>. QED  BY <2>1, <2>2, <2>3, <2>4, <1>a, Writing
<1>7. ASSUME NEW e \in Ends, SendAck(e),
              UNCHANGED otherVars
      PROVE  wire' \in Wires(Allowed')
  <2>1. wire' = wire \/ wire' = Written(wire, e, <<Ack(incomingMsgId[e])>>)
    BY <1>7 DEF SendAck
  <2>. QED  BY <2>1, <1>b, <1>d
<1>8. ASSUME NEW e \in Ends, TenSeconds(e),
              UNCHANGED otherVars
      PROVE  wire' \in Wires(Allowed')
  BY <1>8, <1>b DEF TenSeconds
<1>9. ASSUME NEW e \in Ends, KeepAlive(e)
      PROVE  wire' \in Wires(Allowed')
  <2>1. wire' = Written(wire, e, <<Ack(incomingMsgId[e])>>)
    BY <1>9 DEF KeepAlive, SendKeepAlive
  <2>. QED  BY <2>1, <1>d
<1>10. ASSUME NEW e \in Ends, Listen(e)
      PROVE  wire' \in Wires(Allowed')
  BY <1>10, <1>b DEF Listen, AddListener
<1>11. ASSUME NEW e \in Ends, Drop(e)
      PROVE  wire' \in Wires(Allowed')
  <2>. DEFINE p == <<socket[e], e>>
  <2>1. PICK i \in 1..Len(wire[p]) :
          wire' = [wire EXCEPT ![p] = SubSeq(@, 1, i - 1) \o SubSeq(@, i + 1, Len(@))]
    BY <1>11 DEF Drop, Incoming
  <2>2. p \in Sockets \X Ends
    BY DEF IInv, TypeOK
  <2>3. wire[p] \in Seq(Messages) /\ wire[p] \in Seq((Allowed')[p])
    BY <2>2, <1>b DEF Wires
  <2>. DEFINE a == SubSeq(wire[p], 1, i - 1)  b == SubSeq(wire[p], i + 1, Len(wire[p]))
  <2>4. /\ 1 \in 1..Len(wire[p]) + 1 /\ i - 1 \in 0..Len(wire[p])
        /\ i + 1 \in 1..Len(wire[p]) + 1 /\ Len(wire[p]) \in 0..Len(wire[p])
    <3>1. Len(wire[p]) \in Nat
      BY <2>3, LenProperties
    <3>. HIDE DEF p
    <3>. QED  BY <3>1
  <2>5. /\ a \in Seq(Messages) /\ a \in Seq((Allowed')[p])
        /\ b \in Seq(Messages) /\ b \in Seq((Allowed')[p])
    BY <2>3, <2>4, SubSeqIn
  <2>6. a \o b \in Seq(Messages) /\ a \o b \in Seq((Allowed')[p])
    <3>. HIDE DEF a, b
    <3>. QED  BY <2>5, ConcatProperties
  <2>7. wire' = [wire EXCEPT ![p] = a \o b]
    BY <2>1
  <2>. HIDE DEF p, a, b
  <2>. QED  BY <2>2, <2>6, <2>7, <1>b, WiresExcept
<1>12. ASSUME NEW s \in Sockets, Close(s)
      PROVE  wire' \in Wires(Allowed')
  <2>1. PICK n \in 0..Len(wire[<<s, "client">>]), m \in 0..Len(wire[<<s, "server">>]) :
          wire' = [wire EXCEPT ![<<s, "client">>] = SubSeq(@, 1, n),
                               ![<<s, "server">>] = SubSeq(@, 1, m)]
    BY <1>12 DEF Close, CloseSocket
  <2>. DEFINE p == <<s, "client">>  q == <<s, "server">>
              w == [wire EXCEPT ![p] = SubSeq(@, 1, n)]
  <2>2. p \in Sockets \X Ends /\ q \in Sockets \X Ends /\ p # q
    BY DEF Ends
  <2>3. /\ wire[p] \in Seq(Messages) /\ wire[q] \in Seq(Messages)
        /\ wire \in [Sockets \X Ends -> Seq(Messages)]
    BY <2>2, <1>b DEF Wires
  <2>4. /\ 1 \in 1..Len(wire[p]) + 1 /\ 1 \in 1..Len(wire[q]) + 1
        /\ n \in 0..Len(wire[p]) /\ m \in 0..Len(wire[q])
    <3>1. /\ Len(wire[p]) \in Nat /\ Len(wire[q]) \in Nat
          /\ n \in 0..Len(wire[p]) /\ m \in 0..Len(wire[q])
      BY <2>3, LenProperties
    <3>. HIDE DEF p, q
    <3>. QED  BY <3>1, Places
  <2>. HIDE DEF p, q
  <2>5. w \in Wires(Allowed')
    BY <2>2, <2>4, <1>b, WiresCut
  <2>6. w[q] = wire[q] /\ w[p] = SubSeq(wire[p], 1, n)
    BY <2>2, <2>3
  <2>7. [w EXCEPT ![q] = SubSeq(@, 1, m)] \in Wires(Allowed')
    <3>. HIDE DEF w
    <3>. QED  BY <2>2, <2>4, <2>5, <2>6, WiresCut
  <2>8. wire' = [w EXCEPT ![q] = SubSeq(@, 1, m)]
    BY <2>1, <2>2, <2>3 DEF p, q
  <2>. QED  BY <2>7, <2>8
<1>13. ASSUME NEW s \in Sockets, AcceptReconnection(s)
      PROVE  wire' \in Wires(Allowed')
  <2>1. s \in offered /\ offered' = offered \ {s} /\ opened' = opened
    BY <1>13 DEF AcceptReconnection
  <2>2. PICK left \in Abandoned(wire, "server"), n \in 0..Len(wire[<<s, "server">>]) :
          wire' = [left EXCEPT
                     ![<<s, "server">>] = SubSeq(@, n + 1, Len(@)),
                     ![<<s, "client">>] = IF s \in closed THEN <<>> ELSE Append(@, Control("ok", 0))]
    BY <1>13 DEF AcceptReconnection
  <2>. DEFINE p == <<s, "server">>  q == <<s, "client">>
              u == [left EXCEPT ![p] = SubSeq(@, n + 1, Len(@))]
              r == IF s \in closed THEN <<>> ELSE Append(left[q], Control("ok", 0))
  <2>3. /\ p \in Sockets \X Ends /\ q \in Sockets \X Ends /\ p # q
        /\ "server" \in Ends /\ socket["server"] \in Sockets
        /\ socket["server"] # s
    BY <2>1 DEF Ends, IInv, TypeOK, Placed
  <2>4. left \in Wires(Allowed')
    BY <2>2, <2>3, <1>b, WiresAbandoned
  <2>5. /\ left \in [Sockets \X Ends -> Seq(Messages)]
        /\ left[p] \in Seq(Messages) /\ left[q] \in Seq(Messages)
        /\ left[q] \in Seq((Allowed')[q]) /\ wire[p] \in Seq(Messages)
        /\ wire \in [Sockets \X Ends -> Seq(Messages)]
    BY <2>3, <2>4, <1>b DEF Wires
  <2>6. left[p] = wire[p]
    BY <2>3, <2>5 DEF Abandoned, Peer
  <2>7. n + 1 \in 1..Len(left[p]) + 1 /\ Len(left[p]) \in 0..Len(left[p])
    <3>1. Len(left[p]) \in Nat /\ n \in 0..Len(wire[p])
      BY <2>5, LenProperties
    <3>2. n + 1 \in 1..Len(wire[p]) + 1 /\ Len(wire[p]) \in 0..Len(wire[p])
      <4>. HIDE DEF p
      <4>. QED  BY <3>1, <2>6, Places
    <3>. HIDE DEF p
    <3>. QED  BY <3>2, <2>6
  <2>8. u \in Wires(Allowed')
    <3>. HIDE DEF p, q
    <3>. QED  BY <2>3, <2>4, <2>7, WiresCut
  <2>9. Control("ok", 0) \in Messages /\ Control("ok", 0) \in (Allowed')[q]
    <3>1. Control("ok", 0) \in Messages
      BY DEF Control, Messages
    <3>2. incomingMsgId[Peer("client")]' \in Nat
      BY <1>a DEF Growth, Peer, Ends
    <3>3. Control("ok", 0) \in Toward("client")'
      <4>1. Control("ok", 0).ack = 0 /\ Control("ok", 0).type = "ok"
        BY DEF Control
      <4>2. Control("ok", 0).ack <= incomingMsgId[Peer("client")]'
        <5>1. 0 <= incomingMsgId[Peer("client")]'
          BY <3>2
        <5>. QED  BY <4>1, <5>1
      <4>. QED  BY <3>1, <4>1, <4>2 DEF Toward
    <3>4. s <= opened' /\ s \notin offered'
      <4>1. opened \in Nat /\ offered \subseteq 1..opened
        BY BoundsAssumption DEF IInv, Placed, TypeOK, Sockets
      <4>. QED  BY <4>1, <2>1
    <3>. QED  BY <3>1, <3>3, <3>4, <2>3 DEF Allowed
  <2>10. r \in Seq(Messages) /\ r \in Seq((Allowed')[q])
    <3>. HIDE DEF p, q
    <3>. QED  BY <2>5, <2>9, AppendProperties, EmptySeq
  <2>11. [u EXCEPT ![q] = r] \in Wires(Allowed')
    <3>. HIDE DEF p, q, r, u
    <3>. QED  BY <2>3, <2>8, <2>10, WiresExcept
  <2>12. wire' = [u EXCEPT ![q] = r]
    BY <2>2, <2>3, <2>5
  <2>. QED  BY <2>11, <2>12
<1>14. ASSUME NEW s \in Sockets, RejectConnection(s)
      PROVE  wire' \in Wires(Allowed')
  <2>1. wire' = wire \/ wire' \in Abandoned(wire, "client")
    BY <1>14 DEF RejectConnection, Dispose
  <2>. QED  BY <2>1, <1>b, <1>e DEF Ends
<1>15. ASSUME ClientSocketClosed
      PROVE  wire' \in Wires(Allowed')
  BY <1>15, <1>b DEF ClientSocketClosed, ToldOfClose, BeginReconnectingIf
<1>16. ASSUME ServerSocketClosed
      PROVE  wire' \in Wires(Allowed')
  BY <1>16, <1>b DEF ServerSocketClosed, ToldOfClose
<1>17. ASSUME Reconnect
      PROVE  wire' \in Wires(Allowed')
  <2>1. wire' \in Abandoned(wire, "client")
    BY <1>17 DEF Reconnect
  <2>. QED  BY <2>1, <1>e DEF Ends
<1>18. ASSUME HandshakeTimesOut
      PROVE  wire' \in Wires(Allowed')
  BY <1>18, <1>b DEF HandshakeTimesOut
<1>19. ASSUME LateOk
      PROVE  wire' \in Wires(Allowed')
  <2>1. wire' = Read("client") /\ Incoming("client") # <<>>
    BY <1>19 DEF LateOk, ReadsOk
  <2>2. Read("client") \in Wires(Allowed)
    BY <2>1, Reading DEF Ends
  <2>. QED  BY <2>1, <2>2, <1>c, WiresGrow
<1>20. ASSUME Reconnected
      PROVE  wire' \in Wires(Allowed')
  <2>1. /\ wire' = Written(Read("client"), "client", Resent("client"))
        /\ Incoming("client") # <<>>
    BY <1>20 DEF Reconnected, ReadsOk, IInv, Placed
  <2>2. /\ Read("client") \in Wires(Allowed) /\ socket["client"] \notin offered
        /\ "client" \in Ends
    BY <2>1, Reading DEF Ends
  <2>3. Read("client") \in Wires(Allowed')
    BY <2>2, <1>c, WiresGrow
  <2>. QED  BY <2>1, <2>2, <2>3, <1>a, <1>f, Writing
<1>21. ASSUME GiveUp
      PROVE  wire' \in Wires(Allowed')
  <2>1. wire' \in Abandoned(wire, "client")
    BY <1>21 DEF GiveUp, Dispose
  <2>. QED  BY <2>1, <1>e DEF Ends
<1>22. ASSUME Accepted
      PROVE  wire' \in Wires(Allowed')
  <2>1. wire' = Written(wire, "server", Resent("server"))
    BY <1>22 DEF Accepted
  <2>2. "server" \in Ends /\ socket["server"] \notin offered
    BY DEF Ends, IInv, Placed
  <2>. QED  BY <2>1, <2>2, <1>a, <1>b, <1>f, Writing
<1>23. ASSUME ShortenGraceTime
      PROVE  wire' \in Wires(Allowed')
  BY <1>23, <1>b DEF ShortenGraceTime
<1>24. ASSUME CleanResources
      PROVE  wire' \in Wires(Allowed')
  <2>1. wire' \in Abandoned(wire, "server")
    BY <1>24 DEF CleanResources, Dispose
  <2>. QED  BY <2>1, <1>e DEF Ends
<1>25. ASSUME UNCHANGED vars PROVE wire' \in Wires(Allowed')
  BY <1>25, <1>b DEF vars
<1>. QED
  BY <1>1, <1>2, <1>3, <1>4, <1>5, <1>6, <1>7, <1>8, <1>9, <1>10, <1>11, <1>12, <1>13, <1>14, <1>15, <1>16, <1>17, <1>18, <1>19, <1>20, <1>21, <1>22, <1>23, <1>24, <1>25 DEF Next, Receive, Timers, otherVars

-----------------------------------------------------------------------------
(* What happens to the messages: a user sends one, some are confirmed, the   *)
(* next one arrives, or a listener gets what was buffered.                   *)

Sending ==
    \/ UNCHANGED sendVars
    \/ \E e \in Ends : Confirmed(e)
    \/ \E e \in Ends : \E late \in BOOLEAN : Send(e, late)

Receiving ==
    \/ UNCHANGED <<incomingMsgId, listenVars>>
    \/ \E e \in Ends : ReceiveNext(e)
    \/ \E e \in Ends : AddListener(e)

LEMMA StepSending ==
    ASSUME IInv, [Next]_vars PROVE Sending
<1>1. ASSUME NEW e \in Ends, UserSends(e)
      PROVE  Sending
  BY <1>1 DEF UserSends, Sending
<1>2. ASSUME NEW e \in Ends, AckTimer(e)
      PROVE  Sending
  BY <1>2 DEF Sending, AckTimer, CheckAck, BeginReconnectingIf
<1>3. ASSUME NEW e \in Ends, ReceiveNext(e),
              UNCHANGED otherVars
      PROVE  Sending
  BY <1>3, Arriving DEF ReceiveNext, Sending
<1>4. ASSUME NEW e \in Ends, ReceiveBeyondGap(e),
              UNCHANGED otherVars
      PROVE  Sending
  BY <1>4, Arriving DEF ReceiveBeyondGap, Sending
<1>5. ASSUME NEW e \in Ends, ReceiveNothingNew(e),
              UNCHANGED otherVars
      PROVE  Sending
  BY <1>5, Arriving DEF ReceiveNothingNew, Sending
<1>6. ASSUME NEW e \in Ends, ReceiveReplayRequest(e),
              UNCHANGED otherVars
      PROVE  Sending
  BY <1>6, Arriving DEF ReceiveReplayRequest, Sending
<1>7. ASSUME NEW e \in Ends, SendAck(e),
              UNCHANGED otherVars
      PROVE  Sending
  BY <1>7 DEF Sending, SendAck
<1>8. ASSUME NEW e \in Ends, TenSeconds(e),
              UNCHANGED otherVars
      PROVE  Sending
  BY <1>8 DEF Sending, TenSeconds
<1>9. ASSUME NEW e \in Ends, KeepAlive(e)
      PROVE  Sending
  BY <1>9 DEF Sending, KeepAlive, SendKeepAlive
<1>10. ASSUME NEW e \in Ends, Listen(e)
      PROVE  Sending
  BY <1>10 DEF Sending, Listen, AddListener
<1>11. ASSUME NEW e \in Ends, Drop(e)
      PROVE  Sending
  BY <1>11 DEF Sending, Drop
<1>12. ASSUME NEW s \in Sockets, Close(s)
      PROVE  Sending
  BY <1>12 DEF Sending, Close, CloseSocket
<1>13. ASSUME NEW s \in Sockets, AcceptReconnection(s)
      PROVE  Sending
  BY <1>13 DEF Sending, AcceptReconnection, BeginAcceptReconnection
<1>14. ASSUME NEW s \in Sockets, RejectConnection(s)
      PROVE  Sending
  BY <1>14 DEF Sending, RejectConnection, Dispose
<1>15. ASSUME ClientSocketClosed
      PROVE  Sending
  BY <1>15 DEF Sending, ClientSocketClosed, ToldOfClose, BeginReconnectingIf
<1>16. ASSUME ServerSocketClosed
      PROVE  Sending
  BY <1>16 DEF Sending, ServerSocketClosed, ToldOfClose
<1>17. ASSUME Reconnect
      PROVE  Sending
  BY <1>17 DEF Sending, Reconnect, BeginAcceptReconnection
<1>18. ASSUME HandshakeTimesOut
      PROVE  Sending
  BY <1>18 DEF Sending, HandshakeTimesOut
<1>19. ASSUME LateOk
      PROVE  Sending
  BY <1>19 DEF Sending, LateOk
<1>20. ASSUME Reconnected
      PROVE  Sending
  BY <1>20 DEF Sending, Reconnected, EndAcceptReconnection
<1>21. ASSUME GiveUp
      PROVE  Sending
  BY <1>21 DEF Sending, GiveUp, Dispose
<1>22. ASSUME Accepted
      PROVE  Sending
  BY <1>22 DEF Sending, Accepted, EndAcceptReconnection
<1>23. ASSUME ShortenGraceTime
      PROVE  Sending
  BY <1>23 DEF Sending, ShortenGraceTime
<1>24. ASSUME CleanResources
      PROVE  Sending
  BY <1>24 DEF Sending, CleanResources, Dispose
<1>25. ASSUME UNCHANGED vars PROVE Sending
  BY <1>25 DEF vars, Sending
<1>. QED
  BY <1>1, <1>2, <1>3, <1>4, <1>5, <1>6, <1>7, <1>8, <1>9, <1>10, <1>11, <1>12, <1>13, <1>14, <1>15, <1>16, <1>17, <1>18, <1>19, <1>20, <1>21, <1>22, <1>23, <1>24, <1>25 DEF Next, Receive, Timers, otherVars

LEMMA StepReceiving ==
    ASSUME IInv, [Next]_vars PROVE Receiving
<1>1. ASSUME NEW e \in Ends, UserSends(e)
      PROVE  Receiving
  BY <1>1 DEF Receiving, UserSends, Send, BeginReconnectingIf
<1>2. ASSUME NEW e \in Ends, AckTimer(e)
      PROVE  Receiving
  BY <1>2 DEF Receiving, AckTimer, CheckAck, BeginReconnectingIf
<1>3. ASSUME NEW e \in Ends, ReceiveNext(e),
              UNCHANGED otherVars
      PROVE  Receiving
  BY <1>3 DEF Receiving
<1>4. ASSUME NEW e \in Ends, ReceiveBeyondGap(e),
              UNCHANGED otherVars
      PROVE  Receiving
  BY <1>4 DEF Receiving, ReceiveBeyondGap, Arrives, Confirm
<1>5. ASSUME NEW e \in Ends, ReceiveNothingNew(e),
              UNCHANGED otherVars
      PROVE  Receiving
  BY <1>5 DEF Receiving, ReceiveNothingNew, Arrives, Confirm
<1>6. ASSUME NEW e \in Ends, ReceiveReplayRequest(e),
              UNCHANGED otherVars
      PROVE  Receiving
  BY <1>6 DEF Receiving, ReceiveReplayRequest, Arrives, Confirm
<1>7. ASSUME NEW e \in Ends, SendAck(e),
              UNCHANGED otherVars
      PROVE  Receiving
  BY <1>7 DEF Receiving, SendAck
<1>8. ASSUME NEW e \in Ends, TenSeconds(e),
              UNCHANGED otherVars
      PROVE  Receiving
  BY <1>8 DEF Receiving, TenSeconds
<1>9. ASSUME NEW e \in Ends, KeepAlive(e)
      PROVE  Receiving
  BY <1>9 DEF Receiving, KeepAlive, SendKeepAlive
<1>10. ASSUME NEW e \in Ends, Listen(e)
      PROVE  Receiving
  BY <1>10 DEF Receiving, Listen
<1>11. ASSUME NEW e \in Ends, Drop(e)
      PROVE  Receiving
  BY <1>11 DEF Receiving, Drop
<1>12. ASSUME NEW s \in Sockets, Close(s)
      PROVE  Receiving
  BY <1>12 DEF Receiving, Close, CloseSocket
<1>13. ASSUME NEW s \in Sockets, AcceptReconnection(s)
      PROVE  Receiving
  BY <1>13 DEF Receiving, AcceptReconnection, BeginAcceptReconnection
<1>14. ASSUME NEW s \in Sockets, RejectConnection(s)
      PROVE  Receiving
  BY <1>14 DEF Receiving, RejectConnection, Dispose
<1>15. ASSUME ClientSocketClosed
      PROVE  Receiving
  BY <1>15 DEF Receiving, ClientSocketClosed, ToldOfClose, BeginReconnectingIf
<1>16. ASSUME ServerSocketClosed
      PROVE  Receiving
  BY <1>16 DEF Receiving, ServerSocketClosed, ToldOfClose
<1>17. ASSUME Reconnect
      PROVE  Receiving
  BY <1>17 DEF Receiving, Reconnect, BeginAcceptReconnection
<1>18. ASSUME HandshakeTimesOut
      PROVE  Receiving
  BY <1>18 DEF Receiving, HandshakeTimesOut
<1>19. ASSUME LateOk
      PROVE  Receiving
  BY <1>19 DEF Receiving, LateOk
<1>20. ASSUME Reconnected
      PROVE  Receiving
  BY <1>20 DEF Receiving, Reconnected, EndAcceptReconnection
<1>21. ASSUME GiveUp
      PROVE  Receiving
  BY <1>21 DEF Receiving, GiveUp, Dispose
<1>22. ASSUME Accepted
      PROVE  Receiving
  BY <1>22 DEF Receiving, Accepted, EndAcceptReconnection
<1>23. ASSUME ShortenGraceTime
      PROVE  Receiving
  BY <1>23 DEF Receiving, ShortenGraceTime
<1>24. ASSUME CleanResources
      PROVE  Receiving
  BY <1>24 DEF Receiving, CleanResources, Dispose
<1>25. ASSUME UNCHANGED vars PROVE Receiving
  BY <1>25 DEF vars, Receiving
<1>. QED
  BY <1>1, <1>2, <1>3, <1>4, <1>5, <1>6, <1>7, <1>8, <1>9, <1>10, <1>11, <1>12, <1>13, <1>14, <1>15, <1>16, <1>17, <1>18, <1>19, <1>20, <1>21, <1>22, <1>23, <1>24, <1>25 DEF Next, Receive, Timers, otherVars

LEMMA KeepsAppended ==
    ASSUME NEW S, NEW q \in Seq(S), NEW m \in S, NEW ack \in Nat, NEW n \in Nat,
           Keeps(q, ack, n), m.type = "regular", m.id = n + 1
    PROVE  Append(q, m) \in Seq(S) /\ Keeps(Append(q, m), ack, n + 1)
<1>1. Append(q, m) \in Seq(S) /\ Len(Append(q, m)) = Len(q) + 1 /\ Len(q) \in Nat
  BY AppendProperties, LenProperties
<1>2. Len(q) = n - ack
  BY DEF Keeps
<1>3. ASSUME NEW i \in 1..Len(q) + 1
      PROVE  Append(q, m)[i].type = "regular" /\ Append(q, m)[i].id = ack + i
  <2>1. CASE i = Len(q) + 1
    <3>1. Append(q, m)[i] = m
      BY <2>1, AppendProperties
    <3>2. ack + i = n + 1
      BY <1>1, <1>2, <2>1
    <3>. QED  BY <3>1, <3>2
  <2>2. CASE i # Len(q) + 1
    <3>1. i \in 1..Len(q)
      BY <1>1, <2>2
    <3>2. Append(q, m)[i] = q[i]
      BY <3>1, AppendProperties
    <3>. QED  BY <3>1, <3>2 DEF Keeps
  <2>. QED  BY <2>1, <2>2
<1>4. Len(Append(q, m)) = (n + 1) - ack
  BY <1>1, <1>2
<1>. QED  BY <1>1, <1>3, <1>4 DEF Keeps

LEMMA StepQueues ==
    ASSUME IInv, [Next]_vars PROVE Queues'
<1>1. Growth /\ Sending
  BY StepGrows, StepSending
<1>2. \A e \in Ends : Queue(e)
  BY DEF IInv, Queues
<1>3. ASSUME NEW e \in Ends, NEW q \in Seq(Toward(Peer(e)))
      PROVE  q \in Seq(Toward(Peer(e))')
  BY <1>1, <1>3, SeqTowardGrows, PeerFacts
<1>4. SUFFICES ASSUME NEW e \in Ends PROVE Queue(e)'
  BY DEF Queues
<1>5. CASE UNCHANGED sendVars
  BY <1>2, <1>3, <1>5 DEF Queue
<1>6. ASSUME NEW f \in Ends, Confirmed(f) PROVE Queue(e)'
  <2>1. CASE e = f
    <3>1. outgoingUnackMsg'[e] \in Seq(Toward(Peer(e))')
      BY <1>3, <1>6, <2>1 DEF Confirmed
    <3>. QED  BY <1>2, <1>6, <2>1, <3>1 DEF Confirmed, Queue
  <2>2. CASE e # f
    BY <1>2, <1>3, <1>6, <2>2 DEF Confirmed, Queue
  <2>. QED  BY <2>1, <2>2
<1>7. ASSUME NEW f \in Ends, NEW late \in BOOLEAN, Send(f, late) PROVE Queue(e)'
  <2>. DEFINE msg == Regular(outgoingMsgId[f] + 1, incomingMsgId[f], sent[f] + 1)
  <2>1. /\ outgoingMsgId \in [Ends -> Nat] /\ outgoingAckId \in [Ends -> Nat]
        /\ sent \in [Ends -> Nat] /\ outgoingUnackMsg \in [Ends -> Seq(Messages)]
    BY DEF IInv, TypeOK
  <2>2. /\ outgoingMsgId' = [outgoingMsgId EXCEPT ![f] = outgoingMsgId[f] + 1]
        /\ sent' = [sent EXCEPT ![f] = sent[f] + 1]
        /\ outgoingUnackMsg' = [outgoingUnackMsg EXCEPT ![f] = Append(outgoingUnackMsg[f], msg)]
        /\ outgoingAckId' = outgoingAckId
    BY <1>7 DEF Send
  <2>3. CASE e # f
    <3>1. /\ outgoingMsgId'[e] = outgoingMsgId[e] /\ sent'[e] = sent[e]
          /\ outgoingUnackMsg'[e] = outgoingUnackMsg[e]
      BY <2>1, <2>2, <2>3
    <3>. QED  BY <1>2, <1>3, <2>2, <3>1 DEF Queue
  <2>4. CASE e = f
    <3>1. msg \in Toward(Peer(e))'
      BY <1>1, <1>7, <2>4, SentMessage
    <3>2. msg.type = "regular" /\ msg.id = outgoingMsgId[e] + 1
      BY <2>4 DEF Regular
    <3>3. /\ outgoingMsgId'[e] = outgoingMsgId[e] + 1 /\ sent'[e] = sent[e] + 1
          /\ outgoingUnackMsg'[e] = Append(outgoingUnackMsg[e], msg)
          /\ outgoingAckId'[e] = outgoingAckId[e]
      BY <2>1, <2>2, <2>4
    <3>4. /\ outgoingUnackMsg[e] \in Seq(Toward(Peer(e))')
          /\ Keeps(outgoingUnackMsg[e], outgoingAckId[e], outgoingMsgId[e])
          /\ outgoingMsgId[e] \in Nat /\ outgoingAckId[e] \in Nat
          /\ sent[e] = outgoingMsgId[e] /\ outgoingAckId[e] <= outgoingMsgId[e]
      BY <1>2, <1>3, <2>1 DEF Queue
    <3>. HIDE DEF msg
    <3>5. /\ Append(outgoingUnackMsg[e], msg) \in Seq(Toward(Peer(e))')
          /\ Keeps(Append(outgoingUnackMsg[e], msg), outgoingAckId[e], outgoingMsgId[e] + 1)
      BY <3>1, <3>2, <3>4, KeepsAppended
    <3>. QED  BY <3>3, <3>4, <3>5 DEF Queue
  <2>. QED  BY <2>3, <2>4
<1>. QED  BY <1>1, <1>5, <1>6, <1>7 DEF Sending

LEMMA StepCounted ==
    ASSUME IInv, [Next]_vars PROVE Counted'
<1>1. Growth /\ Sending /\ Receiving
  BY StepGrows, StepSending, StepReceiving
<1>2. /\ outgoingMsgId \in [Ends -> Nat] /\ outgoingAckId \in [Ends -> Nat]
      /\ incomingMsgId \in [Ends -> Nat]
      /\ outgoingMsgId' \in [Ends -> Nat] /\ incomingMsgId' \in [Ends -> Nat]
  BY <1>1 DEF IInv, TypeOK, Growth
<1>3. \A e \in Ends : Peer(e) \in Ends
  BY PeerFacts
<1>4. SUFFICES ASSUME NEW e \in Ends
               PROVE  /\ incomingMsgId'[e] <= outgoingMsgId'[Peer(e)]
                      /\ outgoingAckId'[e] <= incomingMsgId'[Peer(e)]
  BY DEF Counted
<1>5. /\ incomingMsgId[e] <= outgoingMsgId[Peer(e)]
      /\ outgoingAckId[e] <= incomingMsgId[Peer(e)]
  BY DEF IInv, Counted
<1>6. /\ outgoingMsgId[Peer(e)] <= outgoingMsgId'[Peer(e)]
      /\ incomingMsgId[Peer(e)] <= incomingMsgId'[Peer(e)]
  BY <1>1, <1>3 DEF Growth
<1>7. incomingMsgId'[e] <= outgoingMsgId[Peer(e)]
  <2>1. CASE incomingMsgId'[e] = incomingMsgId[e]
    BY <1>5, <2>1
  <2>2. ASSUME NEW f \in Ends, ReceiveNext(f)
        PROVE  incomingMsgId'[e] <= outgoingMsgId[Peer(e)]
    <3>1. Head(Incoming(f)) \in Toward(f) /\ Head(Incoming(f)).type = "regular"
      BY <2>2, Arriving DEF ReceiveNext
    <3>2. Head(Incoming(f)).id <= outgoingMsgId[Peer(f)]
      BY <3>1, <1>2, <1>3 DEF Toward
    <3>3. incomingMsgId' = [incomingMsgId EXCEPT ![f] = Head(Incoming(f)).id]
      BY <2>2 DEF ReceiveNext
    <3>. QED  BY <1>2, <1>5, <3>2, <3>3
  <2>. QED  BY <1>1, <2>1, <2>2 DEF Receiving, AddListener
<1>8. outgoingAckId'[e] \in Nat /\ outgoingAckId'[e] <= incomingMsgId[Peer(e)]
  <2>1. CASE UNCHANGED sendVars
    BY <1>2, <1>5, <2>1
  <2>2. ASSUME NEW f \in Ends, Confirmed(f)
        PROVE  outgoingAckId'[e] \in Nat /\ outgoingAckId'[e] <= incomingMsgId[Peer(e)]
    BY <1>2, <1>5, <2>2 DEF Confirmed
  <2>. QED  BY <1>1, <1>2, <1>5, <2>1, <2>2 DEF Sending, Send
<1>. QED
  <2>1. incomingMsgId'[e] \in Nat /\ outgoingMsgId[Peer(e)] \in Nat
        /\ outgoingMsgId'[Peer(e)] \in Nat /\ incomingMsgId[Peer(e)] \in Nat
        /\ incomingMsgId'[Peer(e)] \in Nat
    BY <1>2, <1>3
  <2>. QED  BY <1>6, <1>7, <1>8, <2>1

LEMMA UpToAppended ==
    ASSUME NEW n \in Nat PROVE Append(UpTo(n), n + 1) = UpTo(n + 1)
<1>1. UpTo(n) \in Seq(Nat) /\ Len(UpTo(n)) = n
  BY DEF UpTo
<1>. QED  BY <1>1 DEF UpTo

LEMMA UpToFacts ==
    ASSUME NEW n \in Nat
    PROVE  /\ UpTo(n) \in Seq(Nat) /\ Len(UpTo(n)) = n
           /\ <<>> \o UpTo(n) = UpTo(n) /\ UpTo(0) = <<>>
BY DEF UpTo

LEMMA StepTold ==
    ASSUME IInv, [Next]_vars PROVE Told'
<1>1. Receiving
  BY StepReceiving
<1>2. /\ incomingMsgId \in [Ends -> Nat] /\ hasListeners \in [Ends -> BOOLEAN]
      /\ buffered \in [Ends -> Seq(Nat)] /\ got \in [Ends -> Seq(Nat)]
  BY DEF IInv, TypeOK
<1>3. /\ \A e \in Ends : hasListeners[e] => buffered[e] = <<>> /\ got[e] = UpTo(incomingMsgId[e])
      /\ \A e \in Ends : ~hasListeners[e] => got[e] = <<>> /\ buffered[e] = UpTo(incomingMsgId[e])
  BY DEF IInv, Told
<1>4. CASE UNCHANGED <<incomingMsgId, listenVars>>
  BY <1>3, <1>4 DEF Told
<1>5. ASSUME NEW f \in Ends, ReceiveNext(f) PROVE Told'
  <2>. DEFINE n == incomingMsgId[f]  msg == Head(Incoming(f))
  <2>1. msg.id = n + 1 /\ msg.data = n + 1 /\ n \in Nat
    <3>1. msg \in Toward(f) /\ msg.type = "regular" /\ msg.id = n + 1
      BY <1>5, Arriving DEF ReceiveNext
    <3>. QED  BY <3>1, <1>2 DEF Toward
  <2>2. /\ incomingMsgId' = [incomingMsgId EXCEPT ![f] = n + 1]
        /\ hasListeners' = hasListeners
        /\ IF hasListeners[f] /\ buffered[f] = <<>>
             THEN got' = [got EXCEPT ![f] = Append(@, n + 1)] /\ UNCHANGED buffered
             ELSE buffered' = [buffered EXCEPT ![f] = Append(@, n + 1)] /\ UNCHANGED got
    <3>. HIDE DEF n
    <3>. QED  BY <1>5, <2>1 DEF ReceiveNext
  <2>3. Append(UpTo(n), n + 1) = UpTo(n + 1)
    BY <2>1, UpToAppended
  <2>4. CASE hasListeners[f]
    <3>1. got' = [got EXCEPT ![f] = UpTo(n + 1)] /\ buffered' = buffered
      BY <1>3, <2>2, <2>3, <2>4
    <3>. QED  BY <1>2, <1>3, <2>2, <2>4, <3>1 DEF Told
  <2>5. CASE ~hasListeners[f]
    <3>1. buffered' = [buffered EXCEPT ![f] = UpTo(n + 1)] /\ got' = got
      BY <1>3, <2>2, <2>3, <2>5
    <3>. QED  BY <1>2, <1>3, <2>2, <2>5, <3>1 DEF Told
  <2>. QED  BY <2>4, <2>5
<1>6. ASSUME NEW f \in Ends, AddListener(f) PROVE Told'
  <2>1. /\ ~hasListeners[f] /\ incomingMsgId' = incomingMsgId
        /\ hasListeners' = [hasListeners EXCEPT ![f] = TRUE]
        /\ got' = [got EXCEPT ![f] = got[f] \o buffered[f]]
        /\ buffered' = [buffered EXCEPT ![f] = <<>>]
    BY <1>6 DEF AddListener
  <2>2. got[f] \o buffered[f] = UpTo(incomingMsgId[f])
    BY <1>2, <1>3, <2>1, UpToFacts
  <2>3. got' = [got EXCEPT ![f] = UpTo(incomingMsgId[f])]
    BY <2>1, <2>2
  <2>. QED  BY <1>2, <1>3, <2>1, <2>3 DEF Told
<1>. QED  BY <1>1, <1>4, <1>5, <1>6 DEF Receiving

-----------------------------------------------------------------------------
(* The remaining variables keep their types. *)

Rest ==
    /\ incomingAckId \in [Ends -> Nat]
    /\ outgoingAckTimeout \in [Ends -> BOOLEAN] /\ socketTimeout \in [Ends -> BOOLEAN]
    /\ incomingAckTimeout \in [Ends -> BOOLEAN] /\ replayRequested \in [Ends -> BOOLEAN]
    /\ isReconnecting \in [Ends -> BOOLEAN] /\ disposed \in [Ends -> BOOLEAN]
    /\ noticed \in [Ends -> BOOLEAN]
    /\ socket \in [Ends -> Sockets] /\ closed \subseteq Sockets /\ offered \subseteq Sockets
    /\ loop \in Loops /\ okBuffered \in BOOLEAN
    /\ disconnectRunner1 \in BOOLEAN /\ disconnectRunner2 \in BOOLEAN

\* After a check the timer runs, unless there is a reason for it not to.
Watched(e) ==
    /\ outgoingAckTimeout' \in [Ends -> BOOLEAN] /\ socketTimeout' \in [Ends -> BOOLEAN]
    /\ \A f \in Ends \ {e} : /\ outgoingAckTimeout'[f] = outgoingAckTimeout[f]
                             /\ socketTimeout'[f] = socketTimeout[f]
    /\ outgoingMsgId'[e] > outgoingAckId'[e]
       => outgoingAckTimeout'[e] \/ socketTimeout'[e] \/ isReconnecting'[e]

LEMMA Checking ==
    ASSUME NEW e \in Ends, NEW armed \in BOOLEAN, NEW late \in BOOLEAN,
           outgoingAckTimeout \in [Ends -> BOOLEAN], socketTimeout \in [Ends -> BOOLEAN],
           RecvAckCheck(e, armed, late)
    PROVE  Watched(e)
<1>. DEFINE check == outgoingMsgId'[e] > outgoingAckId'[e] /\ ~armed /\ ~isReconnecting'[e]
            timer == armed \/ (check /\ ~late)
<1>1. /\ outgoingAckTimeout' = [outgoingAckTimeout EXCEPT ![e] = timer]
      /\ socketTimeout' = [socketTimeout EXCEPT ![e] = socketTimeout[e] \/ late]
  BY DEF RecvAckCheck
<1>2. timer \in BOOLEAN /\ (socketTimeout[e] \/ late) \in BOOLEAN
  OBVIOUS
<1>3. /\ outgoingAckTimeout' \in [Ends -> BOOLEAN] /\ outgoingAckTimeout'[e] = timer
      /\ socketTimeout' \in [Ends -> BOOLEAN]
      /\ socketTimeout'[e] = (socketTimeout[e] \/ late)
      /\ \A f \in Ends \ {e} : /\ outgoingAckTimeout'[f] = outgoingAckTimeout[f]
                               /\ socketTimeout'[f] = socketTimeout[f]
  <2>. HIDE DEF timer
  <2>. QED  BY <1>1, <1>2
<1>4. /\ outgoingMsgId'[e] > outgoingAckId'[e] /\ ~isReconnecting'[e]
      => timer \/ (socketTimeout[e] \/ late)
  OBVIOUS
<1>. HIDE DEF timer
<1>. QED  BY <1>3, <1>4 DEF Watched

LEMMA StepRest ==
    ASSUME IInv, [Next]_vars PROVE Rest'
<1>0. /\ Rest /\ opened \in Sockets /\ opened' \in Sockets
      /\ incomingMsgId \in [Ends -> Nat] /\ "client" \in Ends /\ "server" \in Ends
  BY StepGrows DEF IInv, TypeOK, Growth, Rest, Ends
<1>1. ASSUME NEW e \in Ends, UserSends(e)
      PROVE  Rest'
  <2>1. PICK late \in BOOLEAN : Send(e, late) /\ BeginReconnectingIf(late /\ e = "client")
    BY <1>1 DEF UserSends
  <2>2. outgoingAckTimeout' \in [Ends -> BOOLEAN] /\ socketTimeout' \in [Ends -> BOOLEAN]
    <3>1. CASE isReconnecting[e]
      BY <1>0, <2>1, <3>1 DEF Send, Rest
    <3>2. CASE ~isReconnecting[e]
      <4>1. RecvAckCheck(e, outgoingAckTimeout[e], late)
        BY <2>1, <3>2 DEF Send
      <4>. QED  BY <1>0, <4>1, Checking DEF Rest, Watched
    <3>. QED  BY <3>1, <3>2
  <2>3. UNCHANGED <<okBuffered, opened, offered, noticed, graceVars, drops>>
    BY <1>1 DEF UserSends
  <2>. QED  BY <1>0, <2>1, <2>2, <2>3 DEF Rest, Send, BeginReconnectingIf, Loops
<1>2. ASSUME NEW e \in Ends, AckTimer(e)
      PROVE  Rest'
  <2>1. PICK late \in BOOLEAN : CheckAck(e, late) /\ BeginReconnectingIf(late /\ e = "client")
    BY <1>2 DEF AckTimer
  <2>2. Watched(e)
    BY <1>0, <2>1, Checking DEF CheckAck, Rest
  <2>3. UNCHANGED <<okBuffered, opened, offered, noticed, graceVars, drops>>
    BY <1>2 DEF AckTimer
  <2>. QED  BY <1>0, <2>1, <2>2, <2>3 DEF Rest, CheckAck, BeginReconnectingIf, Loops, Watched
<1>3. ASSUME NEW e \in Ends, ReceiveNext(e),
              UNCHANGED otherVars
      PROVE  Rest'
  BY <1>0, <1>3 DEF Rest, ReceiveNext, Arrives, Confirm
<1>4. ASSUME NEW e \in Ends, ReceiveBeyondGap(e),
              UNCHANGED otherVars
      PROVE  Rest'
  BY <1>0, <1>4 DEF Rest, ReceiveBeyondGap, Arrives, Confirm
<1>5. ASSUME NEW e \in Ends, ReceiveNothingNew(e),
              UNCHANGED otherVars
      PROVE  Rest'
  BY <1>0, <1>5 DEF Rest, ReceiveNothingNew, Arrives, Confirm
<1>6. ASSUME NEW e \in Ends, ReceiveReplayRequest(e),
              UNCHANGED otherVars
      PROVE  Rest'
  <2>1. RecvAckCheck(e, outgoingAckTimeout[e], FALSE)
    BY <1>6 DEF ReceiveReplayRequest
  <2>2. Watched(e)
    BY <1>0, <2>1, Checking DEF Rest
  <2>. QED  BY <1>0, <1>6, <2>2 DEF Rest, Watched, ReceiveReplayRequest
<1>7. ASSUME NEW e \in Ends, SendAck(e),
              UNCHANGED otherVars
      PROVE  Rest'
  BY <1>0, <1>7 DEF Rest, SendAck
<1>8. ASSUME NEW e \in Ends, TenSeconds(e),
              UNCHANGED otherVars
      PROVE  Rest'
  BY <1>0, <1>8 DEF Rest, TenSeconds
<1>9. ASSUME NEW e \in Ends, KeepAlive(e)
      PROVE  Rest'
  BY <1>0, <1>9 DEF Rest, KeepAlive, SendKeepAlive
<1>10. ASSUME NEW e \in Ends, Listen(e)
      PROVE  Rest'
  BY <1>0, <1>10 DEF Rest, Listen, AddListener
<1>11. ASSUME NEW e \in Ends, Drop(e)
      PROVE  Rest'
  BY <1>0, <1>11 DEF Rest, Drop
<1>12. ASSUME NEW s \in Sockets, Close(s)
      PROVE  Rest'
  BY <1>0, <1>12 DEF Rest, Close, CloseSocket
<1>13. ASSUME NEW s \in Sockets, AcceptReconnection(s)
      PROVE  Rest'
  BY <1>0, <1>13 DEF Rest, AcceptReconnection, BeginAcceptReconnection
<1>14. ASSUME NEW s \in Sockets, RejectConnection(s)
      PROVE  Rest'
  <2>1. offered' = offered \ {s} /\ UNCHANGED <<okBuffered, opened, noticed, graceVars, drops>>
    BY <1>14 DEF RejectConnection
  <2>2. CASE UNCHANGED <<protocolVars, loop>>
    BY <1>0, <2>1, <2>2 DEF Rest
  <2>3. CASE Dispose("client") /\ loop' = "failed"
    BY <1>0, <2>1, <2>3 DEF Rest, Dispose, Loops
  <2>. QED  BY <1>14, <2>2, <2>3 DEF RejectConnection
<1>15. ASSUME ClientSocketClosed
      PROVE  Rest'
  BY <1>0, <1>15 DEF Rest, Loops, ClientSocketClosed, ToldOfClose, BeginReconnectingIf
<1>16. ASSUME ServerSocketClosed
      PROVE  Rest'
  BY <1>0, <1>16 DEF Rest, ServerSocketClosed, ToldOfClose
<1>17. ASSUME Reconnect
      PROVE  Rest'
  BY <1>0, <1>17 DEF Rest, Loops, Reconnect, BeginAcceptReconnection
<1>18. ASSUME HandshakeTimesOut
      PROVE  Rest'
  BY <1>0, <1>18 DEF Rest, Loops, HandshakeTimesOut
<1>19. ASSUME LateOk
      PROVE  Rest'
  BY <1>0, <1>19 DEF Rest, LateOk
<1>20. ASSUME Reconnected
      PROVE  Rest'
  <2>1. RecvAckCheck("client", outgoingAckTimeout["client"], FALSE)
    BY <1>20 DEF Reconnected, EndAcceptReconnection
  <2>2. Watched("client")
    BY <1>0, <2>1, Checking DEF Rest, Ends
  <2>. QED  BY <1>0, <1>20, <2>2 DEF Rest, Loops, Watched, Reconnected, EndAcceptReconnection
<1>21. ASSUME GiveUp
      PROVE  Rest'
  BY <1>0, <1>21 DEF Rest, Loops, GiveUp, Dispose
<1>22. ASSUME Accepted
      PROVE  Rest'
  <2>1. RecvAckCheck("server", outgoingAckTimeout["server"], FALSE)
    BY <1>22 DEF Accepted, EndAcceptReconnection
  <2>2. Watched("server")
    BY <1>0, <2>1, Checking DEF Rest, Ends
  <2>. QED  BY <1>0, <1>22, <2>2 DEF Rest, Watched, Accepted, EndAcceptReconnection
<1>23. ASSUME ShortenGraceTime
      PROVE  Rest'
  BY <1>0, <1>23 DEF Rest, ShortenGraceTime
<1>24. ASSUME CleanResources
      PROVE  Rest'
  BY <1>0, <1>24 DEF Rest, CleanResources, Dispose
<1>25. ASSUME UNCHANGED vars PROVE Rest'
  BY <1>25, <1>0 DEF vars, Rest
<1>. QED
  BY <1>1, <1>2, <1>3, <1>4, <1>5, <1>6, <1>7, <1>8, <1>9, <1>10, <1>11, <1>12, <1>13, <1>14, <1>15, <1>16, <1>17, <1>18, <1>19, <1>20, <1>21, <1>22, <1>23, <1>24, <1>25 DEF Next, Receive, Timers, otherVars

-----------------------------------------------------------------------------
(* Where the ends are, and who looks after what. *)

LEMMA StepPlaced ==
    ASSUME IInv, [Next]_vars PROVE Placed'
<1>0. /\ Placed /\ opened \in Nat /\ socket \in [Ends -> Nat] /\ offered \subseteq Nat
      /\ isReconnecting \in [Ends -> BOOLEAN] /\ "client" \in Ends /\ "server" \in Ends
  BY BoundsAssumption DEF IInv, TypeOK, Sockets, Ends
<1>1. ASSUME NEW e \in Ends, UserSends(e)
      PROVE  Placed'
  BY <1>0, <1>1 DEF Placed, UserSends, Send, BeginReconnectingIf
<1>2. ASSUME NEW e \in Ends, AckTimer(e)
      PROVE  Placed'
  BY <1>0, <1>2 DEF Placed, AckTimer, CheckAck, BeginReconnectingIf
<1>3. ASSUME NEW e \in Ends, ReceiveNext(e),
              UNCHANGED otherVars
      PROVE  Placed'
  BY <1>0, <1>3 DEF Placed, ReceiveNext, Arrives, Confirm
<1>4. ASSUME NEW e \in Ends, ReceiveBeyondGap(e),
              UNCHANGED otherVars
      PROVE  Placed'
  BY <1>0, <1>4 DEF Placed, ReceiveBeyondGap, Arrives, Confirm
<1>5. ASSUME NEW e \in Ends, ReceiveNothingNew(e),
              UNCHANGED otherVars
      PROVE  Placed'
  BY <1>0, <1>5 DEF Placed, ReceiveNothingNew, Arrives, Confirm
<1>6. ASSUME NEW e \in Ends, ReceiveReplayRequest(e),
              UNCHANGED otherVars
      PROVE  Placed'
  BY <1>0, <1>6 DEF Placed, ReceiveReplayRequest, Arrives, Confirm
<1>7. ASSUME NEW e \in Ends, SendAck(e),
              UNCHANGED otherVars
      PROVE  Placed'
  BY <1>0, <1>7 DEF Placed, SendAck
<1>8. ASSUME NEW e \in Ends, TenSeconds(e),
              UNCHANGED otherVars
      PROVE  Placed'
  BY <1>0, <1>8 DEF Placed, TenSeconds
<1>9. ASSUME NEW e \in Ends, KeepAlive(e)
      PROVE  Placed'
  BY <1>0, <1>9 DEF Placed, KeepAlive, SendKeepAlive
<1>10. ASSUME NEW e \in Ends, Listen(e)
      PROVE  Placed'
  BY <1>0, <1>10 DEF Placed, Listen, AddListener
<1>11. ASSUME NEW e \in Ends, Drop(e)
      PROVE  Placed'
  BY <1>0, <1>11 DEF Placed, Drop
<1>12. ASSUME NEW s \in Sockets, Close(s)
      PROVE  Placed'
  BY <1>0, <1>12 DEF Placed, Close, CloseSocket
<1>13. ASSUME NEW s \in Sockets, AcceptReconnection(s)
      PROVE  Placed'
  BY <1>0, <1>13 DEF Placed, AcceptReconnection, BeginAcceptReconnection
<1>14. ASSUME NEW s \in Sockets, RejectConnection(s)
      PROVE  Placed'
  BY <1>0, <1>14 DEF Placed, RejectConnection, Dispose
<1>15. ASSUME ClientSocketClosed
      PROVE  Placed'
  BY <1>0, <1>15 DEF Placed, ClientSocketClosed, ToldOfClose, BeginReconnectingIf
<1>16. ASSUME ServerSocketClosed
      PROVE  Placed'
  BY <1>0, <1>16 DEF Placed, ServerSocketClosed, ToldOfClose
<1>17. ASSUME Reconnect
      PROVE  Placed'
  BY <1>0, <1>17 DEF Placed, Reconnect, BeginAcceptReconnection
<1>18. ASSUME HandshakeTimesOut
      PROVE  Placed'
  BY <1>0, <1>18 DEF Placed, HandshakeTimesOut
<1>19. ASSUME LateOk
      PROVE  Placed'
  BY <1>0, <1>19 DEF Placed, LateOk
<1>20. ASSUME Reconnected
      PROVE  Placed'
  <2>1. Incoming("client") # <<>>
    BY <1>0, <1>20 DEF Reconnected, ReadsOk, Placed
  <2>2. socket["client"] \notin offered
    BY <1>0, <2>1, Reading
  <2>. QED  BY <1>0, <2>2, <1>20 DEF Placed, Reconnected, EndAcceptReconnection
<1>21. ASSUME GiveUp
      PROVE  Placed'
  BY <1>0, <1>21 DEF Placed, GiveUp, Dispose
<1>22. ASSUME Accepted
      PROVE  Placed'
  <2>1. /\ UNCHANGED <<clientVars, offered, socket>>
        /\ isReconnecting' = [isReconnecting EXCEPT !["server"] = FALSE]
    BY <1>22 DEF Accepted, EndAcceptReconnection
  <2>. QED  BY <1>0, <2>1 DEF Placed
<1>23. ASSUME ShortenGraceTime
      PROVE  Placed'
  BY <1>0, <1>23 DEF Placed, ShortenGraceTime
<1>24. ASSUME CleanResources
      PROVE  Placed'
  BY <1>0, <1>24 DEF Placed, CleanResources, Dispose
<1>25. ASSUME UNCHANGED vars PROVE Placed'
  BY <1>25, <1>0 DEF vars, Placed
<1>. QED
  BY <1>1, <1>2, <1>3, <1>4, <1>5, <1>6, <1>7, <1>8, <1>9, <1>10, <1>11, <1>12, <1>13, <1>14, <1>15, <1>16, <1>17, <1>18, <1>19, <1>20, <1>21, <1>22, <1>23, <1>24, <1>25 DEF Next, Receive, Timers, otherVars

LEMMA StepInLoop ==
    ASSUME IInv, [Next]_vars PROVE ReconnectingInLoop'
<1>0. /\ ReconnectingInLoop /\ isReconnecting \in [Ends -> BOOLEAN]
      /\ "client" \in Ends /\ "server" \in Ends
  BY DEF IInv, TypeOK, Ends
<1>1. ASSUME NEW e \in Ends, UserSends(e)
      PROVE  ReconnectingInLoop'
  BY <1>0, <1>1 DEF ReconnectingInLoop, UserSends, Send, BeginReconnectingIf
<1>2. ASSUME NEW e \in Ends, AckTimer(e)
      PROVE  ReconnectingInLoop'
  BY <1>0, <1>2 DEF ReconnectingInLoop, AckTimer, CheckAck, BeginReconnectingIf
<1>3. ASSUME NEW e \in Ends, ReceiveNext(e),
              UNCHANGED otherVars
      PROVE  ReconnectingInLoop'
  BY <1>0, <1>3 DEF ReconnectingInLoop, ReceiveNext, Arrives, Confirm
<1>4. ASSUME NEW e \in Ends, ReceiveBeyondGap(e),
              UNCHANGED otherVars
      PROVE  ReconnectingInLoop'
  BY <1>0, <1>4 DEF ReconnectingInLoop, ReceiveBeyondGap, Arrives, Confirm
<1>5. ASSUME NEW e \in Ends, ReceiveNothingNew(e),
              UNCHANGED otherVars
      PROVE  ReconnectingInLoop'
  BY <1>0, <1>5 DEF ReconnectingInLoop, ReceiveNothingNew, Arrives, Confirm
<1>6. ASSUME NEW e \in Ends, ReceiveReplayRequest(e),
              UNCHANGED otherVars
      PROVE  ReconnectingInLoop'
  BY <1>0, <1>6 DEF ReconnectingInLoop, ReceiveReplayRequest, Arrives, Confirm
<1>7. ASSUME NEW e \in Ends, SendAck(e),
              UNCHANGED otherVars
      PROVE  ReconnectingInLoop'
  BY <1>0, <1>7 DEF ReconnectingInLoop, SendAck
<1>8. ASSUME NEW e \in Ends, TenSeconds(e),
              UNCHANGED otherVars
      PROVE  ReconnectingInLoop'
  BY <1>0, <1>8 DEF ReconnectingInLoop, TenSeconds
<1>9. ASSUME NEW e \in Ends, KeepAlive(e)
      PROVE  ReconnectingInLoop'
  BY <1>0, <1>9 DEF ReconnectingInLoop, KeepAlive, SendKeepAlive
<1>10. ASSUME NEW e \in Ends, Listen(e)
      PROVE  ReconnectingInLoop'
  BY <1>0, <1>10 DEF ReconnectingInLoop, Listen, AddListener
<1>11. ASSUME NEW e \in Ends, Drop(e)
      PROVE  ReconnectingInLoop'
  BY <1>0, <1>11 DEF ReconnectingInLoop, Drop
<1>12. ASSUME NEW s \in Sockets, Close(s)
      PROVE  ReconnectingInLoop'
  BY <1>0, <1>12 DEF ReconnectingInLoop, Close, CloseSocket
<1>13. ASSUME NEW s \in Sockets, AcceptReconnection(s)
      PROVE  ReconnectingInLoop'
  BY <1>0, <1>13 DEF ReconnectingInLoop, AcceptReconnection, BeginAcceptReconnection
<1>14. ASSUME NEW s \in Sockets, RejectConnection(s)
      PROVE  ReconnectingInLoop'
  BY <1>0, <1>14 DEF ReconnectingInLoop, RejectConnection, Dispose
<1>15. ASSUME ClientSocketClosed
      PROVE  ReconnectingInLoop'
  BY <1>0, <1>15 DEF ReconnectingInLoop, ClientSocketClosed, ToldOfClose, BeginReconnectingIf
<1>16. ASSUME ServerSocketClosed
      PROVE  ReconnectingInLoop'
  BY <1>0, <1>16 DEF ReconnectingInLoop, ServerSocketClosed, ToldOfClose
<1>17. ASSUME Reconnect
      PROVE  ReconnectingInLoop'
  BY <1>0, <1>17 DEF ReconnectingInLoop, Reconnect, BeginAcceptReconnection
<1>18. ASSUME HandshakeTimesOut
      PROVE  ReconnectingInLoop'
  BY <1>0, <1>18 DEF ReconnectingInLoop, HandshakeTimesOut
<1>19. ASSUME LateOk
      PROVE  ReconnectingInLoop'
  BY <1>0, <1>19 DEF ReconnectingInLoop, LateOk
<1>20. ASSUME Reconnected
      PROVE  ReconnectingInLoop'
  BY <1>0, <1>20 DEF ReconnectingInLoop, Reconnected, EndAcceptReconnection
<1>21. ASSUME GiveUp
      PROVE  ReconnectingInLoop'
  BY <1>0, <1>21 DEF ReconnectingInLoop, GiveUp, Dispose
<1>22. ASSUME Accepted
      PROVE  ReconnectingInLoop'
  BY <1>0, <1>22 DEF ReconnectingInLoop, Accepted, EndAcceptReconnection
<1>23. ASSUME ShortenGraceTime
      PROVE  ReconnectingInLoop'
  BY <1>0, <1>23 DEF ReconnectingInLoop, ShortenGraceTime
<1>24. ASSUME CleanResources
      PROVE  ReconnectingInLoop'
  BY <1>0, <1>24 DEF ReconnectingInLoop, CleanResources, Dispose
<1>25. ASSUME UNCHANGED vars PROVE ReconnectingInLoop'
  BY <1>25, <1>0 DEF vars, ReconnectingInLoop
<1>. QED
  BY <1>1, <1>2, <1>3, <1>4, <1>5, <1>6, <1>7, <1>8, <1>9, <1>10, <1>11, <1>12, <1>13, <1>14, <1>15, <1>16, <1>17, <1>18, <1>19, <1>20, <1>21, <1>22, <1>23, <1>24, <1>25 DEF Next, Receive, Timers, otherVars

LEMMA StepGrace ==
    ASSUME IInv, [Next]_vars PROVE GraceOnlyWithoutClient'
<1>0. /\ GraceOnlyWithoutClient /\ socket \in [Ends -> Sockets]
      /\ "client" \in Ends /\ "server" \in Ends /\ "client" # "server"
  BY DEF IInv, TypeOK, Ends
<1>1. ASSUME NEW e \in Ends, UserSends(e)
      PROVE  GraceOnlyWithoutClient'
  BY <1>0, <1>1 DEF GraceOnlyWithoutClient, UserSends, Send, BeginReconnectingIf
<1>2. ASSUME NEW e \in Ends, AckTimer(e)
      PROVE  GraceOnlyWithoutClient'
  BY <1>0, <1>2 DEF GraceOnlyWithoutClient, AckTimer, CheckAck, BeginReconnectingIf
<1>3. ASSUME NEW e \in Ends, ReceiveNext(e),
              UNCHANGED otherVars
      PROVE  GraceOnlyWithoutClient'
  BY <1>0, <1>3 DEF GraceOnlyWithoutClient, ReceiveNext, Arrives, Confirm
<1>4. ASSUME NEW e \in Ends, ReceiveBeyondGap(e),
              UNCHANGED otherVars
      PROVE  GraceOnlyWithoutClient'
  BY <1>0, <1>4 DEF GraceOnlyWithoutClient, ReceiveBeyondGap, Arrives, Confirm
<1>5. ASSUME NEW e \in Ends, ReceiveNothingNew(e),
              UNCHANGED otherVars
      PROVE  GraceOnlyWithoutClient'
  BY <1>0, <1>5 DEF GraceOnlyWithoutClient, ReceiveNothingNew, Arrives, Confirm
<1>6. ASSUME NEW e \in Ends, ReceiveReplayRequest(e),
              UNCHANGED otherVars
      PROVE  GraceOnlyWithoutClient'
  BY <1>0, <1>6 DEF GraceOnlyWithoutClient, ReceiveReplayRequest, Arrives, Confirm
<1>7. ASSUME NEW e \in Ends, SendAck(e),
              UNCHANGED otherVars
      PROVE  GraceOnlyWithoutClient'
  BY <1>0, <1>7 DEF GraceOnlyWithoutClient, SendAck
<1>8. ASSUME NEW e \in Ends, TenSeconds(e),
              UNCHANGED otherVars
      PROVE  GraceOnlyWithoutClient'
  BY <1>0, <1>8 DEF GraceOnlyWithoutClient, TenSeconds
<1>9. ASSUME NEW e \in Ends, KeepAlive(e)
      PROVE  GraceOnlyWithoutClient'
  BY <1>0, <1>9 DEF GraceOnlyWithoutClient, KeepAlive, SendKeepAlive
<1>10. ASSUME NEW e \in Ends, Listen(e)
      PROVE  GraceOnlyWithoutClient'
  BY <1>0, <1>10 DEF GraceOnlyWithoutClient, Listen, AddListener
<1>11. ASSUME NEW e \in Ends, Drop(e)
      PROVE  GraceOnlyWithoutClient'
  BY <1>0, <1>11 DEF GraceOnlyWithoutClient, Drop
<1>12. ASSUME NEW s \in Sockets, Close(s)
      PROVE  GraceOnlyWithoutClient'
  BY <1>0, <1>12 DEF GraceOnlyWithoutClient, Close, CloseSocket
<1>13. ASSUME NEW s \in Sockets, AcceptReconnection(s)
      PROVE  GraceOnlyWithoutClient'
  BY <1>0, <1>13 DEF GraceOnlyWithoutClient, AcceptReconnection, BeginAcceptReconnection
<1>14. ASSUME NEW s \in Sockets, RejectConnection(s)
      PROVE  GraceOnlyWithoutClient'
  BY <1>0, <1>14 DEF GraceOnlyWithoutClient, RejectConnection, Dispose
<1>15. ASSUME ClientSocketClosed
      PROVE  GraceOnlyWithoutClient'
  BY <1>0, <1>15 DEF GraceOnlyWithoutClient, ClientSocketClosed, ToldOfClose, BeginReconnectingIf
<1>16. ASSUME ServerSocketClosed
      PROVE  GraceOnlyWithoutClient'
  BY <1>0, <1>16 DEF GraceOnlyWithoutClient, ServerSocketClosed, ToldOfClose
<1>17. ASSUME Reconnect
      PROVE  GraceOnlyWithoutClient'
  BY <1>0, <1>17 DEF GraceOnlyWithoutClient, Reconnect, BeginAcceptReconnection
<1>18. ASSUME HandshakeTimesOut
      PROVE  GraceOnlyWithoutClient'
  BY <1>0, <1>18 DEF GraceOnlyWithoutClient, HandshakeTimesOut
<1>19. ASSUME LateOk
      PROVE  GraceOnlyWithoutClient'
  BY <1>0, <1>19 DEF GraceOnlyWithoutClient, LateOk
<1>20. ASSUME Reconnected
      PROVE  GraceOnlyWithoutClient'
  BY <1>0, <1>20 DEF GraceOnlyWithoutClient, Reconnected, EndAcceptReconnection
<1>21. ASSUME GiveUp
      PROVE  GraceOnlyWithoutClient'
  BY <1>0, <1>21 DEF GraceOnlyWithoutClient, GiveUp, Dispose
<1>22. ASSUME Accepted
      PROVE  GraceOnlyWithoutClient'
  BY <1>0, <1>22 DEF GraceOnlyWithoutClient, Accepted, EndAcceptReconnection
<1>23. ASSUME ShortenGraceTime
      PROVE  GraceOnlyWithoutClient'
  BY <1>0, <1>23 DEF GraceOnlyWithoutClient, ShortenGraceTime
<1>24. ASSUME CleanResources
      PROVE  GraceOnlyWithoutClient'
  BY <1>0, <1>24 DEF GraceOnlyWithoutClient, CleanResources, Dispose
<1>25. ASSUME UNCHANGED vars PROVE GraceOnlyWithoutClient'
  BY <1>25, <1>0 DEF vars, GraceOnlyWithoutClient
<1>. QED
  BY <1>1, <1>2, <1>3, <1>4, <1>5, <1>6, <1>7, <1>8, <1>9, <1>10, <1>11, <1>12, <1>13, <1>14, <1>15, <1>16, <1>17, <1>18, <1>19, <1>20, <1>21, <1>22, <1>23, <1>24, <1>25 DEF Next, Receive, Timers, otherVars

LEMMA StepScheduled ==
    ASSUME IInv, [Next]_vars PROVE AckScheduled'
<1>0. /\ AckScheduled /\ incomingMsgId \in [Ends -> Nat] /\ incomingAckId \in [Ends -> Nat]
      /\ incomingAckTimeout \in [Ends -> BOOLEAN] /\ disposed \in [Ends -> BOOLEAN]
      /\ "client" \in Ends /\ "server" \in Ends
  BY DEF IInv, TypeOK, Ends
<1>1. ASSUME NEW e \in Ends, UserSends(e)
      PROVE  AckScheduled'
  BY <1>0, <1>1 DEF AckScheduled, UserSends, Send, BeginReconnectingIf
<1>2. ASSUME NEW e \in Ends, AckTimer(e)
      PROVE  AckScheduled'
  BY <1>0, <1>2 DEF AckScheduled, AckTimer, CheckAck, BeginReconnectingIf
<1>3. ASSUME NEW e \in Ends, ReceiveNext(e),
              UNCHANGED otherVars
      PROVE  AckScheduled'
  BY <1>0, <1>3 DEF AckScheduled, ReceiveNext, Arrives, Confirm
<1>4. ASSUME NEW e \in Ends, ReceiveBeyondGap(e),
              UNCHANGED otherVars
      PROVE  AckScheduled'
  BY <1>0, <1>4 DEF AckScheduled, ReceiveBeyondGap, Arrives, Confirm
<1>5. ASSUME NEW e \in Ends, ReceiveNothingNew(e),
              UNCHANGED otherVars
      PROVE  AckScheduled'
  BY <1>0, <1>5 DEF AckScheduled, ReceiveNothingNew, Arrives, Confirm
<1>6. ASSUME NEW e \in Ends, ReceiveReplayRequest(e),
              UNCHANGED otherVars
      PROVE  AckScheduled'
  BY <1>0, <1>6 DEF AckScheduled, ReceiveReplayRequest, Arrives, Confirm
<1>7. ASSUME NEW e \in Ends, SendAck(e),
              UNCHANGED otherVars
      PROVE  AckScheduled'
  BY <1>0, <1>7 DEF AckScheduled, SendAck
<1>8. ASSUME NEW e \in Ends, TenSeconds(e),
              UNCHANGED otherVars
      PROVE  AckScheduled'
  BY <1>0, <1>8 DEF AckScheduled, TenSeconds
<1>9. ASSUME NEW e \in Ends, KeepAlive(e)
      PROVE  AckScheduled'
  BY <1>0, <1>9 DEF AckScheduled, KeepAlive, SendKeepAlive
<1>10. ASSUME NEW e \in Ends, Listen(e)
      PROVE  AckScheduled'
  BY <1>0, <1>10 DEF AckScheduled, Listen, AddListener
<1>11. ASSUME NEW e \in Ends, Drop(e)
      PROVE  AckScheduled'
  BY <1>0, <1>11 DEF AckScheduled, Drop
<1>12. ASSUME NEW s \in Sockets, Close(s)
      PROVE  AckScheduled'
  BY <1>0, <1>12 DEF AckScheduled, Close, CloseSocket
<1>13. ASSUME NEW s \in Sockets, AcceptReconnection(s)
      PROVE  AckScheduled'
  BY <1>0, <1>13 DEF AckScheduled, AcceptReconnection, BeginAcceptReconnection
<1>14. ASSUME NEW s \in Sockets, RejectConnection(s)
      PROVE  AckScheduled'
  BY <1>0, <1>14 DEF AckScheduled, RejectConnection, Dispose
<1>15. ASSUME ClientSocketClosed
      PROVE  AckScheduled'
  BY <1>0, <1>15 DEF AckScheduled, ClientSocketClosed, ToldOfClose, BeginReconnectingIf
<1>16. ASSUME ServerSocketClosed
      PROVE  AckScheduled'
  BY <1>0, <1>16 DEF AckScheduled, ServerSocketClosed, ToldOfClose
<1>17. ASSUME Reconnect
      PROVE  AckScheduled'
  BY <1>0, <1>17 DEF AckScheduled, Reconnect, BeginAcceptReconnection
<1>18. ASSUME HandshakeTimesOut
      PROVE  AckScheduled'
  BY <1>0, <1>18 DEF AckScheduled, HandshakeTimesOut
<1>19. ASSUME LateOk
      PROVE  AckScheduled'
  BY <1>0, <1>19 DEF AckScheduled, LateOk
<1>20. ASSUME Reconnected
      PROVE  AckScheduled'
  BY <1>0, <1>20 DEF AckScheduled, Reconnected, EndAcceptReconnection
<1>21. ASSUME GiveUp
      PROVE  AckScheduled'
  BY <1>0, <1>21 DEF AckScheduled, GiveUp, Dispose
<1>22. ASSUME Accepted
      PROVE  AckScheduled'
  BY <1>0, <1>22 DEF AckScheduled, Accepted, EndAcceptReconnection
<1>23. ASSUME ShortenGraceTime
      PROVE  AckScheduled'
  BY <1>0, <1>23 DEF AckScheduled, ShortenGraceTime
<1>24. ASSUME CleanResources
      PROVE  AckScheduled'
  BY <1>0, <1>24 DEF AckScheduled, CleanResources, Dispose
<1>25. ASSUME UNCHANGED vars PROVE AckScheduled'
  BY <1>25, <1>0 DEF vars, AckScheduled
<1>. QED
  BY <1>1, <1>2, <1>3, <1>4, <1>5, <1>6, <1>7, <1>8, <1>9, <1>10, <1>11, <1>12, <1>13, <1>14, <1>15, <1>16, <1>17, <1>18, <1>19, <1>20, <1>21, <1>22, <1>23, <1>24, <1>25 DEF Next, Receive, Timers, otherVars

\* Neither the timer, nor the mode, nor what is sent changes for an end but
\* for what is confirmed.
LEMMA StillWatched ==
    ASSUME IInv, UNCHANGED watchVars, UNCHANGED modeVars, NEW f \in Ends, Confirmed(f)
    PROVE  UnackWatched'
<1>1. outgoingMsgId \in [Ends -> Nat] /\ outgoingAckId \in [Ends -> Nat] /\ UnackWatched
  BY DEF IInv, TypeOK
<1>2. ASSUME NEW e \in Ends, outgoingMsgId'[e] > outgoingAckId'[e]
      PROVE  outgoingMsgId[e] > outgoingAckId[e]
  <2>1. outgoingAckId[e] <= outgoingAckId'[e] /\ outgoingMsgId' = outgoingMsgId
    <3>1. CASE e = f
      BY <3>1 DEF Confirmed
    <3>2. CASE e # f
      <4>1. outgoingAckId'[e] = outgoingAckId[e] /\ outgoingMsgId' = outgoingMsgId
        BY <3>2 DEF Confirmed
      <4>2. outgoingAckId[e] \in Nat
        BY <1>1
      <4>. QED  BY <4>1, <4>2
    <3>. QED  BY <3>1, <3>2
  <2>2. outgoingAckId'[e] \in Nat
    BY DEF Confirmed
  <2>. QED  BY <1>1, <1>2, <2>1, <2>2
<1>. QED  BY <1>1, <1>2 DEF UnackWatched

\* An end has checked, and the other one did nothing.
LEMMA NewlyWatched ==
    ASSUME IInv, NEW e \in Ends, Watched(e), UNCHANGED disposed,
           \A f \in Ends \ {e} : /\ outgoingMsgId'[f] = outgoingMsgId[f]
                                 /\ outgoingAckId'[f] = outgoingAckId[f]
                                 /\ isReconnecting'[f] = isReconnecting[f]
    PROVE  UnackWatched'
BY DEF UnackWatched, Watched, IInv

LEMMA StepWatched ==
    ASSUME IInv, [Next]_vars PROVE UnackWatched'
<1>0. /\ UnackWatched
      /\ outgoingMsgId \in [Ends -> Nat] /\ outgoingAckId \in [Ends -> Nat]
      /\ outgoingAckTimeout \in [Ends -> BOOLEAN] /\ socketTimeout \in [Ends -> BOOLEAN]
      /\ isReconnecting \in [Ends -> BOOLEAN] /\ disposed \in [Ends -> BOOLEAN]
      /\ "client" \in Ends /\ "server" \in Ends
  BY DEF IInv, TypeOK, Ends
<1>1. ASSUME NEW e \in Ends, UserSends(e)
      PROVE  UnackWatched'
  <2>1. PICK late \in BOOLEAN : Send(e, late)
    BY <1>1 DEF UserSends
  <2>2. /\ UNCHANGED <<outgoingAckId, modeVars>>
        /\ outgoingMsgId' = [outgoingMsgId EXCEPT ![e] = outgoingMsgId[e] + 1]
    BY <2>1 DEF Send
  <2>3. CASE isReconnecting[e]
    <3>1. UNCHANGED watchVars
      BY <2>1, <2>3 DEF Send
    <3>. QED  BY <1>0, <2>2, <2>3, <3>1 DEF UnackWatched
  <2>4. CASE ~isReconnecting[e]
    <3>1. RecvAckCheck(e, outgoingAckTimeout[e], late)
      BY <2>1, <2>4 DEF Send
    <3>2. Watched(e)
      BY <1>0, <3>1, Checking
    <3>. QED  BY <1>0, <2>2, <3>2, NewlyWatched
  <2>. QED  BY <2>3, <2>4
<1>2. ASSUME NEW e \in Ends, AckTimer(e)
      PROVE  UnackWatched'
  <2>1. PICK late \in BOOLEAN : CheckAck(e, late)
    BY <1>2 DEF AckTimer
  <2>2. Watched(e)
    BY <1>0, <2>1, Checking DEF CheckAck
  <2>. QED  BY <2>1, <2>2, NewlyWatched DEF CheckAck
<1>3. ASSUME NEW e \in Ends, ReceiveNext(e),
              UNCHANGED otherVars
      PROVE  UnackWatched'
  <2>1. Confirmed(e) /\ UNCHANGED watchVars /\ UNCHANGED modeVars
    BY <1>3, Arriving DEF ReceiveNext
  <2>. QED  BY <2>1, StillWatched
<1>4. ASSUME NEW e \in Ends, ReceiveBeyondGap(e),
              UNCHANGED otherVars
      PROVE  UnackWatched'
  <2>1. Confirmed(e) /\ UNCHANGED watchVars /\ UNCHANGED modeVars
    BY <1>4, Arriving DEF ReceiveBeyondGap
  <2>. QED  BY <2>1, StillWatched
<1>5. ASSUME NEW e \in Ends, ReceiveNothingNew(e),
              UNCHANGED otherVars
      PROVE  UnackWatched'
  <2>1. Confirmed(e) /\ UNCHANGED watchVars /\ UNCHANGED modeVars
    BY <1>5, Arriving DEF ReceiveNothingNew
  <2>. QED  BY <2>1, StillWatched
<1>6. ASSUME NEW e \in Ends, ReceiveReplayRequest(e),
              UNCHANGED otherVars
      PROVE  UnackWatched'
  <2>1. /\ Confirmed(e) /\ RecvAckCheck(e, outgoingAckTimeout[e], FALSE)
        /\ UNCHANGED modeVars
    BY <1>6, Arriving DEF ReceiveReplayRequest
  <2>2. Watched(e)
    BY <1>0, <2>1, Checking
  <2>. QED  BY <2>1, <2>2, NewlyWatched DEF Confirmed
<1>7. ASSUME NEW e \in Ends, SendAck(e),
              UNCHANGED otherVars
      PROVE  UnackWatched'
  BY <1>0, <1>7 DEF UnackWatched, SendAck
<1>8. ASSUME NEW e \in Ends, TenSeconds(e),
              UNCHANGED otherVars
      PROVE  UnackWatched'
  BY <1>0, <1>8 DEF UnackWatched, TenSeconds
<1>9. ASSUME NEW e \in Ends, KeepAlive(e)
      PROVE  UnackWatched'
  BY <1>0, <1>9 DEF UnackWatched, KeepAlive, SendKeepAlive
<1>10. ASSUME NEW e \in Ends, Listen(e)
      PROVE  UnackWatched'
  BY <1>0, <1>10 DEF UnackWatched, Listen, AddListener
<1>11. ASSUME NEW e \in Ends, Drop(e)
      PROVE  UnackWatched'
  BY <1>0, <1>11 DEF UnackWatched, Drop
<1>12. ASSUME NEW s \in Sockets, Close(s)
      PROVE  UnackWatched'
  BY <1>0, <1>12 DEF UnackWatched, Close, CloseSocket
<1>13. ASSUME NEW s \in Sockets, AcceptReconnection(s)
      PROVE  UnackWatched'
  BY <1>0, <1>13 DEF UnackWatched, AcceptReconnection, BeginAcceptReconnection
<1>14. ASSUME NEW s \in Sockets, RejectConnection(s)
      PROVE  UnackWatched'
  BY <1>0, <1>14 DEF UnackWatched, RejectConnection, Dispose
<1>15. ASSUME ClientSocketClosed
      PROVE  UnackWatched'
  BY <1>0, <1>15 DEF UnackWatched, ClientSocketClosed, ToldOfClose, BeginReconnectingIf
<1>16. ASSUME ServerSocketClosed
      PROVE  UnackWatched'
  BY <1>0, <1>16 DEF UnackWatched, ServerSocketClosed, ToldOfClose
<1>17. ASSUME Reconnect
      PROVE  UnackWatched'
  BY <1>0, <1>17 DEF UnackWatched, Reconnect, BeginAcceptReconnection
<1>18. ASSUME HandshakeTimesOut
      PROVE  UnackWatched'
  BY <1>0, <1>18 DEF UnackWatched, HandshakeTimesOut
<1>19. ASSUME LateOk
      PROVE  UnackWatched'
  BY <1>0, <1>19 DEF UnackWatched, LateOk
<1>20. ASSUME Reconnected
      PROVE  UnackWatched'
  <2>1. /\ RecvAckCheck("client", outgoingAckTimeout["client"], FALSE)
        /\ isReconnecting' = [isReconnecting EXCEPT !["client"] = FALSE]
        /\ UNCHANGED <<sendVars, disposed>>
    BY <1>20 DEF Reconnected, EndAcceptReconnection
  <2>2. Watched("client")
    BY <1>0, <2>1, Checking
  <2>. QED  BY <1>0, <2>1, <2>2, NewlyWatched
<1>21. ASSUME GiveUp
      PROVE  UnackWatched'
  BY <1>0, <1>21 DEF UnackWatched, GiveUp, Dispose
<1>22. ASSUME Accepted
      PROVE  UnackWatched'
  <2>1. /\ RecvAckCheck("server", outgoingAckTimeout["server"], FALSE)
        /\ isReconnecting' = [isReconnecting EXCEPT !["server"] = FALSE]
        /\ UNCHANGED <<sendVars, disposed>>
    BY <1>22 DEF Accepted, EndAcceptReconnection
  <2>2. Watched("server")
    BY <1>0, <2>1, Checking
  <2>. QED  BY <1>0, <2>1, <2>2, NewlyWatched
<1>23. ASSUME ShortenGraceTime
      PROVE  UnackWatched'
  BY <1>0, <1>23 DEF UnackWatched, ShortenGraceTime
<1>24. ASSUME CleanResources
      PROVE  UnackWatched'
  BY <1>0, <1>24 DEF UnackWatched, CleanResources, Dispose
<1>25. ASSUME UNCHANGED vars PROVE UnackWatched'
  BY <1>25, <1>0 DEF vars, UnackWatched
<1>. QED
  BY <1>1, <1>2, <1>3, <1>4, <1>5, <1>6, <1>7, <1>8, <1>9, <1>10, <1>11, <1>12, <1>13, <1>14, <1>15, <1>16, <1>17, <1>18, <1>19, <1>20, <1>21, <1>22, <1>23, <1>24, <1>25 DEF Next, Receive, Timers, otherVars

LEMMA StepTypeOK ==
    ASSUME IInv, [Next]_vars PROVE TypeOK'
<1>1. Growth /\ Sending /\ Receiving /\ Rest' /\ Told' /\ OnWire'
  BY StepGrows, StepSending, StepReceiving, StepRest, StepTold, StepOnWire
<1>2. /\ outgoingMsgId \in [Ends -> Nat] /\ outgoingAckId \in [Ends -> Nat]
      /\ sent \in [Ends -> Nat] /\ outgoingUnackMsg \in [Ends -> Seq(Messages)]
      /\ incomingMsgId \in [Ends -> Nat] /\ hasListeners \in [Ends -> BOOLEAN]
      /\ buffered \in [Ends -> Seq(Nat)] /\ got \in [Ends -> Seq(Nat)]
      /\ drops \in 0..MaxDrops
  BY DEF IInv, TypeOK
<1>3. /\ outgoingMsgId' \in [Ends -> Nat] /\ incomingMsgId' \in [Ends -> Nat]
      /\ opened' \in Sockets
  BY <1>1 DEF Growth
<1>4. /\ sent' \in [Ends -> Nat] /\ outgoingAckId' \in [Ends -> Nat]
      /\ outgoingUnackMsg' \in [Ends -> Seq(Messages)]
  <2>1. CASE UNCHANGED sendVars
    BY <1>2, <2>1
  <2>2. ASSUME NEW e \in Ends, Confirmed(e)
        PROVE  /\ sent' \in [Ends -> Nat] /\ outgoingAckId' \in [Ends -> Nat]
               /\ outgoingUnackMsg' \in [Ends -> Seq(Messages)]
    BY <1>2, <2>2 DEF Confirmed
  <2>3. ASSUME NEW e \in Ends, NEW late \in BOOLEAN, Send(e, late)
        PROVE  /\ sent' \in [Ends -> Nat] /\ outgoingAckId' \in [Ends -> Nat]
               /\ outgoingUnackMsg' \in [Ends -> Seq(Messages)]
    <3>. DEFINE msg == Regular(outgoingMsgId[e] + 1, incomingMsgId[e], sent[e] + 1)
    <3>1. /\ sent' = [sent EXCEPT ![e] = sent[e] + 1]
          /\ outgoingUnackMsg' = [outgoingUnackMsg EXCEPT ![e] = Append(outgoingUnackMsg[e], msg)]
          /\ outgoingAckId' = outgoingAckId
      BY <2>3 DEF Send
    <3>2. msg \in Messages
      BY <1>2 DEF Regular, Messages
    <3>. HIDE DEF msg
    <3>3. Append(outgoingUnackMsg[e], msg) \in Seq(Messages)
      BY <1>2, <3>2, AppendProperties
    <3>. QED  BY <1>2, <3>1, <3>3
  <2>. QED  BY <1>1, <2>1, <2>2, <2>3 DEF Sending
<1>5. /\ hasListeners' \in [Ends -> BOOLEAN]
      /\ buffered' \in [Ends -> Seq(Nat)] /\ got' \in [Ends -> Seq(Nat)]
  <2>. DEFINE G == /\ hasListeners' \in [Ends -> BOOLEAN]
                   /\ buffered' \in [Ends -> Seq(Nat)] /\ got' \in [Ends -> Seq(Nat)]
  <2>1. CASE UNCHANGED listenVars
    BY <1>2, <2>1
  <2>2. ASSUME NEW f \in Ends, ReceiveNext(f) PROVE G
    <3>1. Head(Incoming(f)).data \in Nat
      BY <2>2, Arriving DEF ReceiveNext, Toward, Messages
    <3>2. /\ Append(got[f], Head(Incoming(f)).data) \in Seq(Nat)
          /\ Append(buffered[f], Head(Incoming(f)).data) \in Seq(Nat)
      BY <1>2, <3>1, AppendProperties
    <3>. QED  BY <1>2, <2>2, <3>2 DEF ReceiveNext
  <2>3. ASSUME NEW f \in Ends, AddListener(f) PROVE G
    <3>1. got[f] \o buffered[f] \in Seq(Nat) /\ <<>> \in Seq(Nat)
      BY <1>2, ConcatProperties, EmptySeq
    <3>. QED  BY <1>2, <2>3, <3>1 DEF AddListener
  <2>. QED  BY <1>1, <2>1, <2>2, <2>3 DEF Receiving
<1>6. wire' \in [Sockets \X Ends -> Seq(Messages)]
  BY <1>1 DEF OnWire, Wires
<1>7. \A e \in Ends : hasListeners'[e] => buffered'[e] = <<>>
  BY <1>1 DEF Told
<1>8. drops' \in 0..MaxDrops
  <2>1. ASSUME NEW e \in Ends, UserSends(e)
        PROVE  drops' \in 0..MaxDrops
    BY <1>2, <2>1 DEF UserSends, Send, BeginReconnectingIf
  <2>2. ASSUME NEW e \in Ends, AckTimer(e)
        PROVE  drops' \in 0..MaxDrops
    BY <1>2, <2>2 DEF AckTimer, CheckAck, BeginReconnectingIf
  <2>3. ASSUME NEW e \in Ends, ReceiveNext(e),
                UNCHANGED otherVars
        PROVE  drops' \in 0..MaxDrops
    BY <1>2, <2>3 DEF ReceiveNext, Arrives, Confirm
  <2>4. ASSUME NEW e \in Ends, ReceiveBeyondGap(e),
                UNCHANGED otherVars
        PROVE  drops' \in 0..MaxDrops
    BY <1>2, <2>4 DEF ReceiveBeyondGap, Arrives, Confirm
  <2>5. ASSUME NEW e \in Ends, ReceiveNothingNew(e),
                UNCHANGED otherVars
        PROVE  drops' \in 0..MaxDrops
    BY <1>2, <2>5 DEF ReceiveNothingNew, Arrives, Confirm
  <2>6. ASSUME NEW e \in Ends, ReceiveReplayRequest(e),
                UNCHANGED otherVars
        PROVE  drops' \in 0..MaxDrops
    BY <1>2, <2>6 DEF ReceiveReplayRequest, Arrives, Confirm
  <2>7. ASSUME NEW e \in Ends, SendAck(e),
                UNCHANGED otherVars
        PROVE  drops' \in 0..MaxDrops
    BY <1>2, <2>7 DEF SendAck
  <2>8. ASSUME NEW e \in Ends, TenSeconds(e),
                UNCHANGED otherVars
        PROVE  drops' \in 0..MaxDrops
    BY <1>2, <2>8 DEF TenSeconds
  <2>9. ASSUME NEW e \in Ends, KeepAlive(e)
        PROVE  drops' \in 0..MaxDrops
    BY <1>2, <2>9 DEF KeepAlive, SendKeepAlive
  <2>10. ASSUME NEW e \in Ends, Listen(e)
        PROVE  drops' \in 0..MaxDrops
    BY <1>2, <2>10 DEF Listen, AddListener
  <2>11. ASSUME NEW e \in Ends, Drop(e)
        PROVE  drops' \in 0..MaxDrops
    BY <1>2, <2>11, MaxDropsAssumption DEF Drop
  <2>12. ASSUME NEW s \in Sockets, Close(s)
        PROVE  drops' \in 0..MaxDrops
    BY <1>2, <2>12 DEF Close, CloseSocket
  <2>13. ASSUME NEW s \in Sockets, AcceptReconnection(s)
        PROVE  drops' \in 0..MaxDrops
    BY <1>2, <2>13 DEF AcceptReconnection, BeginAcceptReconnection
  <2>14. ASSUME NEW s \in Sockets, RejectConnection(s)
        PROVE  drops' \in 0..MaxDrops
    BY <1>2, <2>14 DEF RejectConnection, Dispose
  <2>15. ASSUME ClientSocketClosed
        PROVE  drops' \in 0..MaxDrops
    BY <1>2, <2>15 DEF ClientSocketClosed, ToldOfClose, BeginReconnectingIf
  <2>16. ASSUME ServerSocketClosed
        PROVE  drops' \in 0..MaxDrops
    BY <1>2, <2>16 DEF ServerSocketClosed, ToldOfClose
  <2>17. ASSUME Reconnect
        PROVE  drops' \in 0..MaxDrops
    BY <1>2, <2>17 DEF Reconnect, BeginAcceptReconnection
  <2>18. ASSUME HandshakeTimesOut
        PROVE  drops' \in 0..MaxDrops
    BY <1>2, <2>18 DEF HandshakeTimesOut
  <2>19. ASSUME LateOk
        PROVE  drops' \in 0..MaxDrops
    BY <1>2, <2>19 DEF LateOk
  <2>20. ASSUME Reconnected
        PROVE  drops' \in 0..MaxDrops
    BY <1>2, <2>20 DEF Reconnected, EndAcceptReconnection
  <2>21. ASSUME GiveUp
        PROVE  drops' \in 0..MaxDrops
    BY <1>2, <2>21 DEF GiveUp, Dispose
  <2>22. ASSUME Accepted
        PROVE  drops' \in 0..MaxDrops
    BY <1>2, <2>22 DEF Accepted, EndAcceptReconnection
  <2>23. ASSUME ShortenGraceTime
        PROVE  drops' \in 0..MaxDrops
    BY <1>2, <2>23 DEF ShortenGraceTime
  <2>24. ASSUME CleanResources
        PROVE  drops' \in 0..MaxDrops
    BY <1>2, <2>24 DEF CleanResources, Dispose
  <2>25. ASSUME UNCHANGED vars PROVE drops' \in 0..MaxDrops
    BY <2>25, <1>2 DEF vars
  <2>. QED
    BY <2>1, <2>2, <2>3, <2>4, <2>5, <2>6, <2>7, <2>8, <2>9, <2>10, <2>11, <2>12, <2>13, <2>14, <2>15, <2>16, <2>17, <2>18, <2>19, <2>20, <2>21, <2>22, <2>23, <2>24, <2>25 DEF Next, Receive, Timers, otherVars
<1>. QED
  BY <1>1, <1>3, <1>4, <1>5, <1>6, <1>7, <1>8 DEF TypeOK, Rest

-----------------------------------------------------------------------------
(* The theorems. *)

LEMMA InitInv == Init => IInv
<1>. SUFFICES ASSUME Init PROVE IInv
  OBVIOUS
<1>. USE DEF Init, ProtocolInit
<1>1. "client" \in Ends /\ "server" \in Ends /\ 0 \in Sockets /\ 0 \in 0..MaxDrops
  BY BoundsAssumption, MaxDropsAssumption DEF Ends, Sockets
<1>2. \A S : <<>> \in Seq(S)
  BY EmptySeq
<1>3. TypeOK
  <2>1. {outgoingMsgId, outgoingAckId, incomingMsgId, incomingAckId, sent}
           \subseteq [Ends -> Nat]
    OBVIOUS
  <2>2. {outgoingAckTimeout, socketTimeout, incomingAckTimeout, replayRequested,
         isReconnecting, disposed, hasListeners, noticed} \subseteq [Ends -> BOOLEAN]
    OBVIOUS
  <2>3. /\ outgoingUnackMsg \in [Ends -> Seq(Messages)]
        /\ buffered \in [Ends -> Seq(Nat)] /\ got \in [Ends -> Seq(Nat)]
        /\ wire \in [Sockets \X Ends -> Seq(Messages)]
    BY <1>2
  <2>4. \A e \in Ends : buffered[e] = <<>>
    OBVIOUS
  <2>5. /\ socket \in [Ends -> Sockets]
        /\ closed \subseteq Sockets /\ offered \subseteq Sockets
        /\ loop \in Loops /\ opened \in Sockets /\ drops \in 0..MaxDrops
    BY <1>1 DEF Loops
  <2>6. {okBuffered, disconnectRunner1, disconnectRunner2} \subseteq BOOLEAN
    OBVIOUS
  <2>. QED  BY <2>1, <2>2, <2>3, <2>4, <2>5, <2>6, Zenon DEF TypeOK
<1>4. OnWire
  BY <1>2 DEF OnWire, Wires
<1>5. Queues
  <2>1. SUFFICES ASSUME NEW e \in Ends PROVE Queue(e)
    BY DEF Queues
  <2>2. /\ sent[e] = 0 /\ outgoingMsgId[e] = 0 /\ outgoingAckId[e] = 0
        /\ outgoingUnackMsg[e] = <<>>
    OBVIOUS
  <2>3. Keeps(<<>>, 0, 0)
    BY DEF Keeps
  <2>. QED  BY <1>2, <2>2, <2>3 DEF Queue
<1>6. Counted
  BY PeerFacts DEF Counted
<1>7. Told
  BY UpToFacts DEF Told
<1>8. Placed
  BY <1>1 DEF Placed
<1>9. UnackWatched /\ AckScheduled
  BY DEF UnackWatched, AckScheduled
<1>10. ReconnectingInLoop /\ GraceOnlyWithoutClient
  BY <1>1 DEF ReconnectingInLoop, GraceOnlyWithoutClient
<1>. QED  BY <1>3, <1>4, <1>5, <1>6, <1>7, <1>8, <1>9, <1>10 DEF IInv

LEMMA NextInv == IInv /\ [Next]_vars => IInv'
BY StepTypeOK, StepOnWire, StepQueues, StepCounted, StepTold, StepPlaced,
   StepWatched, StepScheduled, StepInLoop, StepGrace DEF IInv

THEOREM Inductive == Spec => []IInv
<1>1. Init => IInv
  BY InitInv
<1>2. IInv /\ [Next]_vars => IInv'
  BY NextInv
<1>. QED  BY <1>1, <1>2, PTL DEF Spec

\* The state of the two ends, the sockets and the loop has its type.
THEOREM RemoteTypes == Spec => []TypeOK
<1>1. IInv => TypeOK
  BY DEF IInv
<1>. QED  BY <1>1, Inductive, PTL

\* No acknowledgement is ahead of what was received: what the other end lacks is
\* in the queue, at its place.
THEOREM NothingIsForgotten == Spec => []NothingForgotten
<1>1. ASSUME IInv PROVE NothingForgotten
  <2>1. SUFFICES ASSUME NEW e \in Ends,
                        NEW id \in incomingMsgId[Peer(e)] + 1..outgoingMsgId[e]
                 PROVE  \E i \in 1..Len(outgoingUnackMsg[e]) :
                           /\ outgoingUnackMsg[e][i].id = id
                           /\ outgoingUnackMsg[e][i].data = id
                           /\ i = id - outgoingAckId[e]
    BY DEF NothingForgotten
  <2>. DEFINE q == outgoingUnackMsg[e]  i == id - outgoingAckId[e]
  <2>2. /\ incomingMsgId[Peer(e)] \in Nat /\ outgoingMsgId[e] \in Nat
        /\ outgoingAckId[e] \in Nat /\ outgoingAckId[e] <= incomingMsgId[Peer(e)]
    BY <1>1, PeerFacts DEF IInv, TypeOK, Counted
  <2>3. q \in Seq(Toward(Peer(e))) /\ Keeps(q, outgoingAckId[e], outgoingMsgId[e])
    BY <1>1 DEF IInv, Queues, Queue
  <2>4. Len(q) = outgoingMsgId[e] - outgoingAckId[e]
    BY <2>3 DEF Keeps
  <2>5. i \in 1..Len(q) /\ outgoingAckId[e] + i = id
    BY <2>2, <2>4
  <2>6. q[i].type = "regular" /\ q[i].id = id
    <3>. HIDE DEF q, i
    <3>. QED  BY <2>3, <2>5 DEF Keeps
  <2>7. q[i] \in Toward(Peer(e))
    <3>. HIDE DEF q, i
    <3>. QED  BY <2>3, <2>5, ElementOfSeq
  <2>8. q[i].data = id
    BY <2>6, <2>7 DEF Toward
  <2>. QED  BY <2>5, <2>6, <2>8
<1>. QED  BY <1>1, Inductive, PTL

\* Every message that is not acknowledged is watched.
THEOREM UnackIsWatched == Spec => []UnackWatched
<1>1. IInv => UnackWatched
  BY DEF IInv
<1>. QED  BY <1>1, Inductive, PTL

\* Every message that was received will be acknowledged.
THEOREM AckIsScheduled == Spec => []AckScheduled
<1>1. IInv => AckScheduled
  BY DEF IInv
<1>. QED  BY <1>1, Inductive, PTL

\* The protocol of the handshake reads no message of a user.
THEOREM HandshakeReadsNoMessage == Spec => []HandshakeKeepsOut
<1>1. ASSUME IInv PROVE HandshakeKeepsOut
  <2>1. SUFFICES ASSUME NEW s \in offered, NEW i \in 1..Len(wire[<<s, "server">>])
                 PROVE  wire[<<s, "server">>][i].type = "ack"
    BY DEF HandshakeKeepsOut
  <2>2. <<s, "server">> \in Sockets \X Ends
    BY <1>1 DEF IInv, TypeOK, Ends
  <2>3. wire[<<s, "server">>] \in Seq(Allowed[<<s, "server">>])
    BY <1>1, <2>2 DEF IInv, OnWire, Wires
  <2>4. wire[<<s, "server">>][i] \in Allowed[<<s, "server">>]
    BY <2>3, ElementOfSeq
  <2>. QED  BY <2>2, <2>4 DEF Allowed, Acks
<1>. QED  BY <1>1, Inductive, PTL

\* A client that reconnects is in its loop.
THEOREM ReconnectingIsInLoop == Spec => []ReconnectingInLoop
<1>1. IInv => ReconnectingInLoop
  BY DEF IInv
<1>. QED  BY <1>1, Inductive, PTL

\* A grace time runs only while the socket of the server is closed.
THEOREM GraceIsWithoutClient == Spec => []GraceOnlyWithoutClient
<1>1. IInv => GraceOnlyWithoutClient
  BY DEF IInv
<1>. QED  BY <1>1, Inductive, PTL

-----------------------------------------------------------------------------
(* The refinement. *)

LEMMA StepChannel ==
    ASSUME IInv, [Next]_vars PROVE [Channel!Next]_(Channel!vars)
<1>1. Sending /\ Receiving /\ Told' /\ Counted' /\ Growth /\ Queues'
  BY StepSending, StepReceiving, StepTold, StepCounted, StepGrows, StepQueues
<1>2. /\ incomingMsgId \in [Ends -> Nat] /\ got \in [Ends -> Seq(Nat)]
      /\ sent \in [Ends -> Nat] /\ outgoingMsgId \in [Ends -> Nat]
      /\ incomingMsgId' \in [Ends -> Nat] /\ hasListeners \in [Ends -> BOOLEAN]
  BY <1>1 DEF IInv, TypeOK, Growth
<1>3. Told /\ Counted /\ Queues
  BY DEF IInv
<1>4. CASE UNCHANGED got
  <2>1. CASE UNCHANGED sent
    BY <1>4, <2>1 DEF Channel!vars
  <2>2. ASSUME NEW e \in Ends, NEW late \in BOOLEAN, Send(e, late)
        PROVE  Channel!Next
    BY <1>4, <2>2 DEF Send, Channel!Next, Channel!Send
  <2>. QED  BY <1>1, <2>1, <2>2 DEF Sending, Confirmed
\* An end gets all up to the n-th message.
<1>5. ASSUME NEW e \in Ends, NEW n \in Nat, UNCHANGED sent,
             n <= outgoingMsgId[Peer(e)], Len(got[e]) <= n,
             got' = [got EXCEPT ![e] = UpTo(n)]
      PROVE  Channel!Next
  <2>1. n \in Len(got[e])..sent[Peer(e)]
    <3>1. Peer(e) \in Ends /\ sent[Peer(e)] = outgoingMsgId[Peer(e)] /\ sent[Peer(e)] \in Nat
      BY <1>2, <1>3, PeerFacts DEF Queues, Queue
    <3>2. Len(got[e]) \in Nat
      BY <1>2, LenProperties
    <3>. QED  BY <1>5, <3>1, <3>2
  <2>2. Channel!Deliver(e)
    BY <1>5, <2>1 DEF Channel!Deliver, Channel!UpTo, UpTo
  <2>. QED  BY <2>2 DEF Channel!Next
<1>6. ASSUME NEW f \in Ends, ReceiveNext(f), ~UNCHANGED got PROVE Channel!Next
  <2>1. UNCHANGED sent
    BY <1>6, Arriving DEF ReceiveNext, Confirmed
  <2>2. /\ hasListeners[f] /\ hasListeners' = hasListeners
        /\ got' = [got EXCEPT ![f] = Append(got[f], Head(Incoming(f)).data)]
        /\ incomingMsgId' = [incomingMsgId EXCEPT ![f] = incomingMsgId[f] + 1]
        /\ outgoingMsgId' = outgoingMsgId
    BY <1>6, Arriving DEF ReceiveNext, Confirmed
  <2>3. got[f] = UpTo(incomingMsgId[f]) /\ Len(got[f]) = incomingMsgId[f]
    BY <1>2, <1>3, <2>2, UpToFacts DEF Told
  <2>4. got'[f] = UpTo(incomingMsgId[f] + 1) /\ got' = [got EXCEPT ![f] = got'[f]]
    BY <1>1, <1>2, <2>2 DEF Told
  <2>5. incomingMsgId[f] + 1 <= outgoingMsgId[Peer(f)]
    BY <1>1, <1>2, <2>2 DEF Counted
  <2>. QED  BY <1>2, <1>5, <2>1, <2>3, <2>4, <2>5
<1>7. ASSUME NEW f \in Ends, AddListener(f) PROVE Channel!Next
  <2>1. /\ UNCHANGED sent /\ ~hasListeners[f]
        /\ hasListeners' = [hasListeners EXCEPT ![f] = TRUE]
        /\ incomingMsgId' = incomingMsgId
        /\ got' = [got EXCEPT ![f] = got[f] \o buffered[f]]
    BY <1>7 DEF AddListener
  <2>2. got[f] = <<>> /\ Len(got[f]) = 0
    BY <1>2, <1>3, <2>1 DEF Told
  <2>3. got'[f] = UpTo(incomingMsgId[f]) /\ got' = [got EXCEPT ![f] = got'[f]]
    BY <1>1, <1>2, <2>1 DEF Told
  <2>4. incomingMsgId[f] <= outgoingMsgId[Peer(f)]
    BY <1>3 DEF Counted
  <2>. DEFINE n == incomingMsgId[f]
  <2>5. n \in Nat /\ Len(got[f]) <= n /\ n <= outgoingMsgId[Peer(f)]
    BY <1>2, <2>2, <2>4
  <2>6. got' = [got EXCEPT ![f] = UpTo(n)]
    BY <2>3
  <2>. HIDE DEF n
  <2>. QED  BY <1>5, <2>1, <2>5, <2>6
<1>. QED  BY <1>1, <1>4, <1>6, <1>7 DEF Receiving

\* Whatever becomes of the sockets, the users see a reliable channel.
THEOREM ImplementsChannel == Spec => Implements
<1>1. Init => Channel!Init
  BY DEF Init, ProtocolInit, Channel!Init
<1>2. IInv /\ [Next]_vars => [Channel!Next]_(Channel!vars)
  BY StepChannel
<1>. QED  BY <1>1, <1>2, Inductive, PTL DEF Spec, Implements, Channel!Spec

\* Every message, sent or received, has a timer or a reconnection that looks
\* after it.
THEOREM MessagesAreWatched == Spec => []MessagesWatched
  BY UnackIsWatched, AckIsScheduled, PTL DEF MessagesWatched

\* The loop of the client and the grace times of the server fit the state of
\* the protocol.
THEOREM EndsAlwaysKnow == Spec => []EndsKnow
  BY ReconnectingIsInLoop, GraceIsWithoutClient, PTL DEF EndsKnow
=============================================================================
