--------------------------- MODULE ReliableChannel ---------------------------
(***************************************************************************)
(* What the persistent protocol promises ("it will ensure no messages are  *)
(* lost"): of each end, the listener of the other one gets the messages in *)
(* the order they were sent, each of them once.  The n-th message an end   *)
(* sends is n.                                                             *)
(***************************************************************************)
EXTENDS Naturals, Sequences

CONSTANTS Ends, Peer(_)

VARIABLES
    sent,           \* how many messages an end sent
    got             \* the messages the listener of an end got

vars == <<sent, got>>

UpTo(n) == [i \in 1..n |-> i]

Init ==
    /\ sent = [e \in Ends |-> 0]
    /\ got = [e \in Ends |-> <<>>]

Send(e) ==
    /\ sent' = [sent EXCEPT ![e] = @ + 1]
    /\ UNCHANGED got

\* Some more of the messages that the other end sent.
Deliver(e) ==
    /\ \E n \in Len(got[e])..sent[Peer(e)] : got' = [got EXCEPT ![e] = UpTo(n)]
    /\ UNCHANGED sent

Next == \E e \in Ends : Send(e) \/ Deliver(e)

Spec == Init /\ [][Next]_vars
=============================================================================
