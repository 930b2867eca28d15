-------------------------- MODULE MCRemoteConnection --------------------------
(* Two small instances: two messages of the client, and one of each end. *)
EXTENDS RemoteConnection, TLC

ClientSends == "client" :> 2 @@ "server" :> 0
BothSend == "client" :> 1 @@ "server" :> 1
=============================================================================
