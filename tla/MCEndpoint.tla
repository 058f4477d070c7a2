----------------------------- MODULE MCEndpoint -----------------------------
(***************************************************************************)
(* Instances of ConnectionEndpoint: one endpoint of a Server or of a       *)
(* Client whose peer is some other program, and a Client and a Server      *)
(* connected to each other.                                                *)
(***************************************************************************)
EXTENDS Connection

MCPair == {"client", "server"}
MCPeer == [e \in MCPair |-> IF e = "client" THEN "server" ELSE "client"]
MCRemote == [e \in Endpoint |-> "remote"]
MCClient == {"client"}
MCServer == {"server"}
MCNone == {}

\* A command, of which the endpoint reads the header and one byte of the body.
Command == <<SyncValue, 1, 3, 0, 0, 0, 26, 1, 0, 1, 0, 0, 0, 17>>

\* A peer that speaks first: a heartbeat of 1 or of 0 seconds, or a command.
MCEager == {KeepAlive(1), KeepAlive(0), Command}

\* Messages that announce 2 and 300 seconds, cut anywhere by the network.
MCAnnounced == {KeepAlive(2) \o KeepAlive(300) \o KeepAlive(2),
                KeepAlive(300) \o Command}
=============================================================================
