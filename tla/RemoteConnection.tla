--------------------------- MODULE RemoteConnection ---------------------------
(***************************************************************************)
(* A client and a server that keep one persistent protocol over many       *)
(* sockets (platform/remote/common/remoteAgentConnection.ts,               *)
(* server/node/remoteExtensionManagement.ts and                            *)
(* remoteExtensionHostAgentServer.ts).                                     *)
(*                                                                         *)
(* When its socket closes or is late the client runs a loop: it opens a    *)
(* socket, turns its protocol to it, and shakes hands.  A protocol of the  *)
(* server that lives as long as the handshake reads what the client        *)
(* writes; then the server turns its own protocol to the socket and        *)
(* answers "ok".  Without a client it waits for a grace time.              *)
(*                                                                         *)
(* Of the handshake only its end is modelled: a socket is "offered" when   *)
(* the client asked for its connection on it.  Offers of earlier attempts  *)
(* may reach the server late.                                              *)
(***************************************************************************)
EXTENDS PersistentProtocol

CONSTANT MaxDrops   \* bound: messages lost on an open socket

ASSUME MaxDropsAssumption == MaxDrops \in Nat

VARIABLES
    loop,           \* the client's reconnecting loop
    okBuffered,     \* its protocol has an "ok" that nobody listened for
    opened,         \* the last socket the client opened
    offered,        \* sockets on which the server has yet to decide
    noticed,        \* an end has been told that its socket closed
    disconnectRunner1, disconnectRunner2,   \* grace times of the server run
    drops           \* number of messages lost on an open socket

clientVars == <<loop, okBuffered, opened>>
graceVars == <<disconnectRunner1, disconnectRunner2>>
vars == <<protocolVars, clientVars, offered, noticed, graceVars, drops>>

Loops == {"none", "waiting", "handshake", "failed"}

TypeOK ==
    /\ {outgoingMsgId, outgoingAckId, incomingMsgId, incomingAckId, sent}
          \subseteq [Ends -> Nat]
    /\ {outgoingAckTimeout, socketTimeout, incomingAckTimeout, replayRequested,
        isReconnecting, disposed, hasListeners, noticed} \subseteq [Ends -> BOOLEAN]
    /\ outgoingUnackMsg \in [Ends -> Seq(Messages)]
    /\ buffered \in [Ends -> Seq(Nat)] /\ got \in [Ends -> Seq(Nat)]
    /\ \A e \in Ends : hasListeners[e] => buffered[e] = <<>>
    /\ socket \in [Ends -> Sockets]
    /\ wire \in [Sockets \X Ends -> Seq(Messages)]
    /\ closed \subseteq Sockets /\ offered \subseteq Sockets
    /\ loop \in Loops /\ opened \in Sockets
    /\ {okBuffered, disconnectRunner1, disconnectRunner2} \subseteq BOOLEAN
    /\ drops \in 0..MaxDrops

Init ==
    /\ ProtocolInit
    /\ loop = "none" /\ okBuffered = FALSE /\ opened = 0
    /\ offered = {}
    /\ noticed = [e \in Ends |-> FALSE]
    /\ disconnectRunner1 = FALSE /\ disconnectRunner2 = FALSE
    /\ drops = 0

-----------------------------------------------------------------------------
(* The protocols at work. *)

\* A socket that is late makes the client reconnect, unless it does already.
\* The server does not listen for this.
BeginReconnectingIf(reported) ==
    loop' = IF reported /\ loop = "none" THEN "waiting" ELSE loop

UserSends(e) ==
    \E late \in BOOLEAN :
        /\ Send(e, late)
        /\ BeginReconnectingIf(late /\ e = "client")
        /\ UNCHANGED <<okBuffered, opened, offered, noticed, graceVars, drops>>

AckTimer(e) ==
    \E late \in BOOLEAN :
        /\ CheckAck(e, late)
        /\ BeginReconnectingIf(late /\ e = "client")
        /\ UNCHANGED <<okBuffered, opened, offered, noticed, graceVars, drops>>

Receive(e) ==
    /\ \/ ReceiveNext(e)
       \/ ReceiveBeyondGap(e)
       \/ ReceiveNothingNew(e)
       \/ ReceiveReplayRequest(e)
    /\ UNCHANGED <<clientVars, offered, noticed, graceVars, drops>>

Timers(e) ==
    /\ SendAck(e) \/ TenSeconds(e)
    /\ UNCHANGED <<clientVars, offered, noticed, graceVars, drops>>

KeepAlive(e) ==
    /\ SendKeepAlive(e)
    /\ UNCHANGED <<clientVars, offered, noticed, graceVars, drops>>

Listen(e) ==
    /\ AddListener(e)
    /\ UNCHANGED <<clientVars, offered, noticed, graceVars, drops>>

-----------------------------------------------------------------------------
(* Sockets fail. *)

Close(s) ==
    /\ s <= opened
    /\ CloseSocket(s)
    /\ UNCHANGED <<clientVars, offered, noticed, graceVars, drops>>

\* A message is lost, though the socket stays open.
Drop(e) ==
    /\ drops < MaxDrops /\ drops' = drops + 1
    /\ \E i \in 1..Len(Incoming(e)) :
          wire' = [wire EXCEPT ![<<socket[e], e>>] =
                      SubSeq(@, 1, i - 1) \o SubSeq(@, i + 1, Len(@))]
    /\ UNCHANGED <<sendVars, watchVars, receiveVars, ackVars, listenVars,
                   modeVars, socket, closed, clientVars, offered, noticed, graceVars>>

\* An end has read all that arrived, and is told that its socket closed.
ToldOfClose(e) ==
    /\ socket[e] \in closed /\ Incoming(e) = <<>>
    /\ ~disposed[e] /\ ~noticed[e]
    /\ noticed' = [noticed EXCEPT ![e] = TRUE]
    /\ UNCHANGED <<protocolVars, okBuffered, opened, offered, drops>>

\* The client starts its loop, unless it runs.
ClientSocketClosed ==
    /\ ToldOfClose("client")
    /\ BeginReconnectingIf(TRUE)
    /\ UNCHANGED graceVars

\* The server starts to wait for the client.
ServerSocketClosed ==
    /\ ToldOfClose("server")
    /\ disconnectRunner1' = TRUE
    /\ UNCHANGED <<disconnectRunner2, loop>>

-----------------------------------------------------------------------------
(* The client's loop. *)

\* Defect: control messages of the last socket are kept.
ReconnectKeepsControl ==
    /\ loop = "waiting" /\ opened < MaxSockets
    /\ BeginAcceptReconnection("client", opened + 1)
    /\ wire' \in Abandoned(wire, "client")
    /\ opened' = opened + 1
    /\ offered' = offered \cup {opened + 1}
    /\ loop' = "handshake"
    /\ noticed' = [noticed EXCEPT !["client"] = FALSE]
    /\ UNCHANGED <<okBuffered, graceVars, drops>>

\* The client opens a socket, turns its protocol to it, which forgets control
\* messages of the last one, and asks for its connection.
Reconnect ==
    /\ loop = "waiting" /\ opened < MaxSockets
    /\ BeginAcceptReconnection("client", opened + 1)
    /\ wire' \in Abandoned(wire, "client")
    /\ opened' = opened + 1
    /\ offered' = offered \cup {opened + 1}
    /\ loop' = "handshake"
    /\ okBuffered' = FALSE
    /\ noticed' = [noticed EXCEPT !["client"] = FALSE]
    /\ UNCHANGED <<graceVars, drops>>

\* Defect: a time-out ends the loop.
HandshakeTimeoutEndsLoop ==
    /\ loop = "handshake"
    /\ loop' = "none"
    /\ UNCHANGED <<protocolVars, okBuffered, opened, offered, noticed, graceVars, drops>>

\* The handshake takes too long: the client will try again.
HandshakeTimesOut ==
    /\ loop = "handshake"
    /\ loop' = "waiting"
    /\ UNCHANGED <<protocolVars, okBuffered, opened, offered, noticed, graceVars, drops>>

ReadsOk == /\ ~disposed["client"] /\ Incoming("client") # <<>>
           /\ Head(Incoming("client")).type = "ok"

\* An "ok" comes after the attempt it was for has been given up.
LateOk ==
    /\ ReadsOk /\ loop # "handshake"
    /\ okBuffered' = TRUE
    /\ wire' = Read("client")
    /\ UNCHANGED <<sendVars, watchVars, receiveVars, ackVars, listenVars, modeVars,
                   socket, closed, loop, opened, offered, noticed, graceVars, drops>>

\* The first "ok" that the protocol has ends the handshake.
Reconnected ==
    /\ loop = "handshake"
    /\ okBuffered \/ ReadsOk
    /\ LET rest == IF okBuffered THEN wire ELSE Read("client")
       IN  wire' = Written(rest, "client", Resent("client"))
    /\ EndAcceptReconnection("client")
    /\ loop' = "none"
    /\ okBuffered' = FALSE
    /\ UNCHANGED <<opened, offered, noticed, graceVars, drops>>

\* The client has tried for too long, or the error is not one to try again.
GiveUp ==
    /\ loop \in {"waiting", "handshake"}
    /\ Dispose("client")
    /\ loop' = "failed"
    /\ UNCHANGED <<okBuffered, opened, offered, noticed, graceVars, drops>>

-----------------------------------------------------------------------------
(* The server. *)

\* Defect: the shortened grace time still runs.
AcceptDuringShortGrace(s) ==
    /\ s \in offered /\ offered' = offered \ {s}
    /\ BeginAcceptReconnection("server", s)
    /\ \E left \in Abandoned(wire, "server") :
          wire' = [left EXCEPT
                     ![<<s, "server">>] = <<>>,
                     ![<<s, "client">>] = IF s \in closed THEN <<>> ELSE Append(@, Control("ok", 0))]
    /\ disconnectRunner1' = FALSE
    /\ noticed' = [noticed EXCEPT !["server"] = FALSE]
    /\ UNCHANGED <<clientVars, disconnectRunner2, drops>>

\* The server takes socket s.  The protocol of the handshake has read a part of
\* what the client wrote, which is lost; the server's own reads the rest.
AcceptReconnection(s) ==
    /\ s \in offered /\ offered' = offered \ {s}
    /\ BeginAcceptReconnection("server", s)
    /\ \E left \in Abandoned(wire, "server"), n \in 0..Len(wire[<<s, "server">>]) :
          wire' = [left EXCEPT
                     ![<<s, "server">>] = SubSeq(@, n + 1, Len(@)),
                     ![<<s, "client">>] = IF s \in closed THEN <<>> ELSE Append(@, Control("ok", 0))]
    /\ disconnectRunner1' = FALSE /\ disconnectRunner2' = FALSE
    /\ noticed' = [noticed EXCEPT !["server"] = FALSE]
    /\ UNCHANGED <<clientVars, drops>>

\* In the code this follows at once, after what has arrived is read.
Accepted ==
    /\ EndAcceptReconnection("server")
    /\ wire' = Written(wire, "server", Resent("server"))
    /\ UNCHANGED <<clientVars, offered, noticed, graceVars, drops>>

\* The server no longer has the connection: a client that waits for it on
\* socket s gives up.
RejectConnection(s) ==
    /\ s \in offered /\ offered' = offered \ {s}
    /\ disposed["server"]
    /\ IF loop = "handshake" /\ socket["client"] = s /\ s \notin closed
          THEN Dispose("client") /\ loop' = "failed"
          ELSE UNCHANGED <<protocolVars, loop>>
    /\ UNCHANGED <<okBuffered, opened, noticed, graceVars, drops>>

\* Some other client has connected: the wait for this one is shortened.
ShortenGraceTime ==
    /\ disconnectRunner1 /\ ~disconnectRunner2
    /\ disconnectRunner2' = TRUE
    /\ UNCHANGED <<protocolVars, clientVars, offered, noticed, disconnectRunner1, drops>>

\* A grace time has passed.
CleanResources ==
    /\ disconnectRunner1 \/ disconnectRunner2
    /\ Dispose("server")
    /\ disconnectRunner1' = FALSE /\ disconnectRunner2' = FALSE
    /\ UNCHANGED <<clientVars, offered, noticed, drops>>

-----------------------------------------------------------------------------
Next ==
    \/ \E e \in Ends : \/ UserSends(e) \/ AckTimer(e) \/ Receive(e) \/ Timers(e)
                       \/ KeepAlive(e) \/ Listen(e) \/ Drop(e)
    \/ \E s \in Sockets : Close(s) \/ AcceptReconnection(s) \/ RejectConnection(s)
    \/ ClientSocketClosed \/ ServerSocketClosed
    \/ Reconnect \/ HandshakeTimesOut \/ LateOk \/ Reconnected \/ GiveUp
    \/ Accepted \/ ShortenGraceTime \/ CleanResources

Spec == Init /\ [][Next]_vars

\* Sockets deliver and tell of their end, timers fire, the loop goes on one way
\* or the other, and the server answers.  Users, failures and grace times are
\* not fair.
Fairness ==
    /\ WF_vars(Receive("client") \/ LateOk) /\ WF_vars(Receive("server"))
    /\ \A e \in Ends : WF_vars(SendAck(e) /\ Timers(e)) /\ WF_vars(Listen(e))
    /\ WF_vars(ClientSocketClosed) /\ WF_vars(ServerSocketClosed)
    /\ WF_vars(Reconnect \/ HandshakeTimesOut \/ Reconnected)
    /\ WF_vars(Accepted \/ \E s \in Sockets : AcceptReconnection(s) \/ RejectConnection(s))

FairSpec == Spec /\ Fairness

-----------------------------------------------------------------------------
\* No message is lost, repeated or reordered between the users of the two ends,
\* whatever becomes of the sockets.
Channel == INSTANCE ReliableChannel
Implements == Channel!Spec

\* What the other end has not received is still kept, in order, to be sent
\* again: no acknowledgement is ahead of what was received.
NothingForgotten ==
    \A e \in Ends :
        \A id \in incomingMsgId[Peer(e)] + 1..outgoingMsgId[e] :
            \E i \in 1..Len(outgoingUnackMsg[e]) :
                /\ outgoingUnackMsg[e][i].id = id
                /\ outgoingUnackMsg[e][i].data = id
                /\ i = id - outgoingAckId[e]

\* Somebody will look after every message that is not acknowledged: a timer
\* runs, or the socket has been reported, or a reconnection sends it again.
UnackWatched ==
    \A e \in Ends :
        /\ ~disposed[e] /\ outgoingMsgId[e] > outgoingAckId[e]
        => outgoingAckTimeout[e] \/ socketTimeout[e] \/ isReconnecting[e]

\* Somebody will acknowledge every message that was received.
AckScheduled ==
    \A e \in Ends :
        incomingMsgId[e] > incomingAckId[e] => incomingAckTimeout[e] \/ disposed[e]

\* The protocol that reads a handshake, and drops what it reads, never gets a
\* message of the users: they are written only on sockets the server took.
HandshakeKeepsOut ==
    \A s \in offered : \A i \in 1..Len(wire[<<s, "server">>]) :
        wire[<<s, "server">>][i].type = "ack"

\* A protocol that reconnects, which writes no messages and watches for no
\* acknowledgement, is in the hands of the loop.
ReconnectingInLoop ==
    isReconnecting["client"] => loop # "none"

\* The server waits for its client only while the socket it has is closed: a
\* client that came back is not thrown out.
GraceOnlyWithoutClient ==
    (disconnectRunner1 \/ disconnectRunner2) => socket["server"] \in closed

\* The model has no further socket to replace the last one.
OutOfSockets ==
    opened = MaxSockets /\ (MaxSockets \in closed \/ loop = "waiting")

AllArrived == \A e \in Ends : Len(got[Peer(e)]) >= sent[e]

\* What is sent arrives, unless one of the ends has given up or an open socket
\* lost a message.
Delivered ==
    ~AllArrived ~> \/ AllArrived
                   \/ disposed["client"] \/ disposed["server"]
                   \/ drops > 0 \/ OutOfSockets

\* No message is left without somebody to look after it, on either end.
MessagesWatched == UnackWatched /\ AckScheduled

\* Each end knows how it stands with the other: the loop and the protocol of
\* the client agree, and the grace times with the socket of the server.
EndsKnow == ReconnectingInLoop /\ GraceOnlyWithoutClient
=============================================================================
