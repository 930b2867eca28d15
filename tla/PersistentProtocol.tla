-------------------------- MODULE PersistentProtocol --------------------------
(***************************************************************************)
(* The two ends of a persistent protocol (base/parts/ipc/common/           *)
(* ipc.net.ts): messages are numbered, kept until they are acknowledged,   *)
(* and sent again when the socket is replaced or the other end saw a gap.  *)
(* This module has the operations of one end; who replaces sockets, and    *)
(* when, is in RemoteConnection.                                           *)
(*                                                                         *)
(* A socket delivers in order what is written to it until it is closed;    *)
(* then any part that is still under way may be lost.  What the            *)
(* ProtocolWriter buffers counts as under way.  Keep-alives and latency    *)
(* measurements act as acknowledgements and are not told from them.        *)
(* Pausing, and the end of the connection by a Disconnect message, are     *)
(* left out.                                                               *)
(***************************************************************************)
EXTENDS Integers, Sequences, FiniteSetsExt

CONSTANTS
    MaxMessages,    \* bound: messages an end sends
    MaxSockets,     \* bound: sockets the client opens, beside the first
    MaxWire         \* bound: a keep-alive needs fewer messages under way

Ends == {"client", "server"}
Peer(e) == IF e = "client" THEN "server" ELSE "client"
Sockets == 0..MaxSockets

ASSUME BoundsAssumption ==
    MaxMessages \in [Ends -> Nat] /\ MaxSockets \in Nat /\ MaxWire \in Nat

VARIABLES
    outgoingMsgId, outgoingAckId, outgoingUnackMsg,
    outgoingAckTimeout,     \* the timer that watches for acknowledgements runs
    socketTimeout,          \* it has reported the present socket
    incomingMsgId, incomingAckId,
    incomingAckTimeout,     \* the timer that sends an acknowledgement runs
    replayRequested,        \* within the last ten seconds, on this socket
    isReconnecting, disposed,
    hasListeners, buffered, \* of the emitter onMessage
    socket,                 \* the socket an end reads and writes
    wire,                   \* what is under way on a socket to an end
    closed,                 \* sockets that are closed
    sent, got               \* for the properties: sent by, and received of, the users

sendVars == <<outgoingMsgId, outgoingAckId, outgoingUnackMsg, sent>>
watchVars == <<outgoingAckTimeout, socketTimeout>>
receiveVars == <<incomingMsgId, replayRequested>>
ackVars == <<incomingAckId, incomingAckTimeout>>
listenVars == <<hasListeners, buffered, got>>
modeVars == <<isReconnecting, disposed>>
socketVars == <<socket, wire, closed>>
protocolVars == <<sendVars, watchVars, receiveVars, ackVars, listenVars,
                  modeVars, socketVars>>

Regular(id, ack, data) == [type |-> "regular", id |-> id, ack |-> ack, data |-> data]
Control(type, ack) == [type |-> type, id |-> 0, ack |-> ack, data |-> 0]
Ack(ack) == Control("ack", ack)
ReplayRequest == Control("replay", 0)

Messages ==
    [type : {"regular", "ack", "replay", "ok"}, id : Nat, ack : Nat, data : Nat]

ProtocolInit ==
    /\ outgoingMsgId = [e \in Ends |-> 0]
    /\ outgoingAckId = [e \in Ends |-> 0]
    /\ outgoingUnackMsg = [e \in Ends |-> <<>>]
    /\ outgoingAckTimeout = [e \in Ends |-> FALSE]
    /\ socketTimeout = [e \in Ends |-> FALSE]
    /\ incomingMsgId = [e \in Ends |-> 0]
    /\ incomingAckId = [e \in Ends |-> 0]
    /\ incomingAckTimeout = [e \in Ends |-> FALSE]
    /\ replayRequested = [e \in Ends |-> FALSE]
    /\ isReconnecting = [e \in Ends |-> FALSE]
    /\ disposed = [e \in Ends |-> FALSE]
    /\ hasListeners = [e \in Ends |-> FALSE]
    /\ buffered = [e \in Ends |-> <<>>]
    /\ socket = [e \in Ends |-> 0]
    /\ wire = [p \in Sockets \X Ends |-> <<>>]
    /\ closed = {}
    /\ sent = [e \in Ends |-> 0]
    /\ got = [e \in Ends |-> <<>>]

-----------------------------------------------------------------------------
(* The socket. *)

Incoming(e) == wire[<<socket[e], e>>]

\* The wire w after an end wrote messages to its socket.
Written(w, e, messages) ==
    IF socket[e] \in closed THEN w
    ELSE [w EXCEPT ![<<socket[e], Peer(e)>>] = @ \o messages]

\* The wire after an end read one message.
Read(e) == [wire EXCEPT ![<<socket[e], e>>] = Tail(@)]

\* Socket s closes: of what is under way to end e the first n messages arrive.
CloseSocket(s) ==
    /\ s \notin closed
    /\ closed' = closed \cup {s}
    /\ \E n \in 0..Len(wire[<<s, "client">>]), m \in 0..Len(wire[<<s, "server">>]) :
          wire' = [wire EXCEPT ![<<s, "client">>] = SubSeq(@, 1, n),
                               ![<<s, "server">>] = SubSeq(@, 1, m)]
    /\ UNCHANGED <<sendVars, watchVars, receiveVars, ackVars, listenVars,
                   modeVars, socket>>

-----------------------------------------------------------------------------
(* Sending. *)

\* Something is not acknowledged: look again later.  Or it is late, and so is
\* all other data: then the socket is reported, and nothing is armed.
RecvAckCheck(e, armed, late) ==
    LET check == /\ outgoingMsgId'[e] > outgoingAckId'[e]
                 /\ ~armed /\ ~isReconnecting'[e]
    IN  /\ late => check
        /\ outgoingAckTimeout' = [outgoingAckTimeout EXCEPT ![e] = armed \/ (check /\ ~late)]
        /\ socketTimeout' = [socketTimeout EXCEPT ![e] = @ \/ late]

\* A message is numbered, kept, and written unless the protocol reconnects.  A
\* check here can only be late if the socket has been reported before.
Send(e, late) ==
    LET id == outgoingMsgId[e] + 1
        msg == Regular(id, incomingMsgId[e], sent[e] + 1)
    IN  /\ sent[e] < MaxMessages[e] /\ ~disposed[e]
        /\ late => socketTimeout[e] /\ ~isReconnecting[e]
        /\ sent' = [sent EXCEPT ![e] = @ + 1]
        /\ outgoingMsgId' = [outgoingMsgId EXCEPT ![e] = id]
        /\ incomingAckId' = [incomingAckId EXCEPT ![e] = incomingMsgId[e]]
        /\ outgoingUnackMsg' = [outgoingUnackMsg EXCEPT ![e] = Append(@, msg)]
        /\ UNCHANGED <<outgoingAckId, modeVars>>
        /\ IF isReconnecting[e]
              THEN UNCHANGED <<wire, watchVars>>
              ELSE wire' = Written(wire, e, <<msg>>)
                   /\ RecvAckCheck(e, outgoingAckTimeout[e], late)
        /\ UNCHANGED <<receiveVars, incomingAckTimeout, listenVars, socket, closed>>

\* The timer fires that watches for acknowledgements.
CheckAck(e, late) ==
    /\ outgoingAckTimeout[e]
    /\ UNCHANGED <<sendVars, modeVars>>
    /\ RecvAckCheck(e, FALSE, late)
    /\ UNCHANGED <<receiveVars, ackVars, listenVars, socketVars>>

-----------------------------------------------------------------------------
(* Receiving. *)

\* The queue without the messages in front that are confirmed by ack.
Unconfirmed(queue, ack) ==
    LET confirmed == {n \in 0..Len(queue) : \A i \in 1..n : queue[i].id <= ack}
    IN  SubSeq(queue, Max(confirmed) + 1, Len(queue))

\* Defect: any acknowledgement empties the queue.
ConfirmAll(e, ack) ==
    IF ack > outgoingAckId[e]
    THEN /\ outgoingAckId' = [outgoingAckId EXCEPT ![e] = ack]
         /\ outgoingUnackMsg' = [outgoingUnackMsg EXCEPT ![e] = <<>>]
         /\ UNCHANGED <<outgoingMsgId, sent>>
    ELSE UNCHANGED sendVars

\* Whatever its type, a message acknowledges what its ack says.
Confirm(e, ack) ==
    IF ack > outgoingAckId[e]
    THEN /\ outgoingAckId' = [outgoingAckId EXCEPT ![e] = ack]
         /\ outgoingUnackMsg' = [outgoingUnackMsg EXCEPT ![e] = Unconfirmed(@, ack)]
         /\ UNCHANGED <<outgoingMsgId, sent>>
    ELSE UNCHANGED sendVars

\* The next message of an end that reads.
Arrives(e, msg) ==
    /\ ~disposed[e] /\ Incoming(e) # <<>>
    /\ msg = Head(Incoming(e))
    /\ Confirm(e, msg.ack)

\* Defect: any message with a new number is taken.
ReceiveNewer(e) ==
    LET msg == Head(Incoming(e))
    IN  /\ Arrives(e, msg)
        /\ msg.type = "regular" /\ msg.id > incomingMsgId[e]
        /\ incomingMsgId' = [incomingMsgId EXCEPT ![e] = msg.id]
        /\ incomingAckTimeout' = [incomingAckTimeout EXCEPT ![e] = TRUE]
        /\ IF hasListeners[e] /\ buffered[e] = <<>>
              THEN got' = [got EXCEPT ![e] = Append(@, msg.data)] /\ UNCHANGED buffered
              ELSE buffered' = [buffered EXCEPT ![e] = Append(@, msg.data)] /\ UNCHANGED got
        /\ wire' = Read(e)
        /\ UNCHANGED <<watchVars, replayRequested, incomingAckId, hasListeners,
                       modeVars, socket, closed>>

\* The message that was expected goes to the listener, or waits for one.
ReceiveNext(e) ==
    LET msg == Head(Incoming(e))
    IN  /\ Arrives(e, msg)
        /\ msg.type = "regular" /\ msg.id = incomingMsgId[e] + 1
        /\ incomingMsgId' = [incomingMsgId EXCEPT ![e] = msg.id]
        /\ incomingAckTimeout' = [incomingAckTimeout EXCEPT ![e] = TRUE]
        /\ IF hasListeners[e] /\ buffered[e] = <<>>
              THEN got' = [got EXCEPT ![e] = Append(@, msg.data)] /\ UNCHANGED buffered
              ELSE buffered' = [buffered EXCEPT ![e] = Append(@, msg.data)] /\ UNCHANGED got
        /\ wire' = Read(e)
        /\ UNCHANGED <<watchVars, replayRequested, incomingAckId, hasListeners,
                       modeVars, socket, closed>>

\* Some messages are missing: they are asked for, once in ten seconds.
ReceiveBeyondGap(e) ==
    LET msg == Head(Incoming(e))
    IN  /\ Arrives(e, msg)
        /\ msg.type = "regular" /\ msg.id > incomingMsgId[e] + 1
        /\ replayRequested' = [replayRequested EXCEPT ![e] = TRUE]
        /\ wire' = IF replayRequested[e] THEN Read(e)
                   ELSE Written(Read(e), e, <<ReplayRequest>>)
        /\ UNCHANGED <<watchVars, incomingMsgId, ackVars, listenVars,
                       modeVars, socket, closed>>

\* A duplicate, or nothing but an acknowledgement.
ReceiveNothingNew(e) ==
    LET msg == Head(Incoming(e))
    IN  /\ Arrives(e, msg)
        /\ \/ msg.type = "ack"
           \/ msg.type = "regular" /\ msg.id <= incomingMsgId[e]
        /\ wire' = Read(e)
        /\ UNCHANGED <<watchVars, receiveVars, ackVars, listenVars,
                       modeVars, socket, closed>>

\* The other end misses messages: all that are not acknowledged go out again.
ReceiveReplayRequest(e) ==
    LET msg == Head(Incoming(e))
    IN  /\ Arrives(e, msg)
        /\ msg.type = "replay"
        /\ wire' = Written(Read(e), e, outgoingUnackMsg'[e])
        /\ UNCHANGED modeVars
        /\ RecvAckCheck(e, outgoingAckTimeout[e], FALSE)
        /\ UNCHANGED <<receiveVars, ackVars, listenVars, socket, closed>>

\* Defect: while the protocol reconnects the timer is dropped.
SendAckWhenConnected(e) ==
    /\ incomingAckTimeout[e]
    /\ incomingAckTimeout' = [incomingAckTimeout EXCEPT ![e] = FALSE]
    /\ IF isReconnecting[e] THEN UNCHANGED <<incomingAckId, wire>>
       ELSE /\ incomingAckId' = [incomingAckId EXCEPT ![e] = incomingMsgId[e]]
            /\ wire' = Written(wire, e, <<Ack(incomingMsgId[e])>>)
    /\ UNCHANGED <<sendVars, watchVars, receiveVars, listenVars, modeVars,
                   socket, closed>>

\* The timer fires that sends an acknowledgement.  (Set anew because another
\* message came meanwhile, it stays as it is.)
SendAck(e) ==
    /\ incomingAckTimeout[e]
    /\ incomingAckTimeout' = [incomingAckTimeout EXCEPT ![e] = FALSE]
    /\ incomingAckId' = [incomingAckId EXCEPT ![e] = incomingMsgId[e]]
    /\ wire' = IF incomingMsgId[e] > incomingAckId[e]
               THEN Written(wire, e, <<Ack(incomingMsgId[e])>>) ELSE wire
    /\ UNCHANGED <<sendVars, watchVars, receiveVars, listenVars, modeVars,
                   socket, closed>>

\* A keep-alive, a request that measures the latency, or the answer to one.
SendKeepAlive(e) ==
    /\ ~disposed[e]
    /\ Len(wire[<<socket[e], Peer(e)>>]) < MaxWire
    /\ incomingAckId' = [incomingAckId EXCEPT ![e] = incomingMsgId[e]]
    /\ wire' = Written(wire, e, <<Ack(incomingMsgId[e])>>)
    /\ UNCHANGED <<sendVars, watchVars, receiveVars, incomingAckTimeout,
                   listenVars, modeVars, socket, closed>>

\* Ten seconds have passed since the last request for a replay.
TenSeconds(e) ==
    /\ replayRequested[e]
    /\ replayRequested' = [replayRequested EXCEPT ![e] = FALSE]
    /\ UNCHANGED <<sendVars, watchVars, incomingMsgId, ackVars, listenVars,
                   modeVars, socketVars>>

\* Defect: what was delivered stays buffered.
AddListenerKeepsBuffer(e) ==
    /\ ~hasListeners[e]
    /\ hasListeners' = [hasListeners EXCEPT ![e] = TRUE]
    /\ got' = [got EXCEPT ![e] = @ \o buffered[e]]
    /\ UNCHANGED <<buffered, sendVars, watchVars, receiveVars, ackVars, modeVars,
                   socketVars>>

\* The first listener is added: what was buffered is delivered to it in a
\* microtask, before anything else is read.
AddListener(e) ==
    /\ ~hasListeners[e]
    /\ hasListeners' = [hasListeners EXCEPT ![e] = TRUE]
    /\ got' = [got EXCEPT ![e] = @ \o buffered[e]]
    /\ buffered' = [buffered EXCEPT ![e] = <<>>]
    /\ UNCHANGED <<sendVars, watchVars, receiveVars, ackVars, modeVars, socketVars>>

-----------------------------------------------------------------------------
(* Replacing the socket, and the end. *)

\* An end turns to socket s and disposes the one it had.
BeginAcceptReconnection(e, s) ==
    /\ ~disposed[e]
    /\ isReconnecting' = [isReconnecting EXCEPT ![e] = TRUE]
    /\ replayRequested' = [replayRequested EXCEPT ![e] = FALSE]
    /\ socketTimeout' = [socketTimeout EXCEPT ![e] = FALSE]
    /\ socket' = [socket EXCEPT ![e] = s]
    /\ closed' = closed \cup {socket[e]}
    /\ UNCHANGED <<sendVars, outgoingAckTimeout, incomingMsgId, ackVars,
                   listenVars, disposed>>

\* The socket that an end disposes: nothing is read of it any more, and what
\* is under way to the other end arrives in part.
Abandoned(w, e) ==
    {[w EXCEPT ![<<socket[e], e>>] = <<>>, ![<<socket[e], Peer(e)>>] = SubSeq(@, 1, n)] :
        n \in 0..Len(w[<<socket[e], Peer(e)>>])}

\* Defect: nobody watches what is sent again.
EndWithoutCheck(e) ==
    /\ ~disposed[e] /\ isReconnecting[e]
    /\ isReconnecting' = [isReconnecting EXCEPT ![e] = FALSE]
    /\ incomingAckId' = [incomingAckId EXCEPT ![e] = incomingMsgId[e]]
    /\ UNCHANGED <<sendVars, disposed, watchVars, receiveVars, incomingAckTimeout,
                   listenVars, socket, closed>>

\* The socket is in use: what was received is acknowledged once more, and all
\* that is not acknowledged goes out again.
EndAcceptReconnection(e) ==
    /\ ~disposed[e] /\ isReconnecting[e]
    /\ isReconnecting' = [isReconnecting EXCEPT ![e] = FALSE]
    /\ incomingAckId' = [incomingAckId EXCEPT ![e] = incomingMsgId[e]]
    /\ UNCHANGED <<sendVars, disposed>>
    /\ RecvAckCheck(e, outgoingAckTimeout[e], FALSE)
    /\ UNCHANGED <<receiveVars, incomingAckTimeout, listenVars, socket, closed>>

\* Defect: only the acknowledgement is written.
ResentAck(e) == <<Ack(incomingMsgId[e])>>

\* What it writes then.
Resent(e) == <<Ack(incomingMsgId[e])>> \o outgoingUnackMsg[e]

\* The protocol and its socket are disposed.
Dispose(e) ==
    /\ ~disposed[e]
    /\ disposed' = [disposed EXCEPT ![e] = TRUE]
    /\ outgoingAckTimeout' = [outgoingAckTimeout EXCEPT ![e] = FALSE]
    /\ incomingAckTimeout' = [incomingAckTimeout EXCEPT ![e] = FALSE]
    /\ closed' = closed \cup {socket[e]}
    /\ wire' \in Abandoned(wire, e)
    /\ UNCHANGED <<sendVars, socketTimeout, receiveVars, incomingAckId,
                   listenVars, isReconnecting, socket>>
=============================================================================
