----------------------------- MODULE MCKeepAlive -----------------------------
(***************************************************************************)
(* Instances of KeepAlive: a Client and a Server connected to each other,  *)
(* or a Server's endpoint whose peer is some other program.                *)
(***************************************************************************)
EXTENDS KeepAlive, Connection

MCPair == {"client", "server"}
MCPeer == [e \in MCPair |-> IF e = "client" THEN "server" ELSE "client"]
MCClient == {"client"}
MCServer == {"server"}
MCNone == {}

\* A Server's endpoint, and one that was constructed with a descriptor of 0.
MCLone == {"server", "unconnected"}

\* A peer that says nothing, or announces 2 seconds and then repeats itself, or goes
\* on with a command (of which only the header and the first bytes matter: its body
\* is never read), and falls silent.
MCRemote == [e \in Endpoint |-> "remote"]
Command == <<SyncValue, 1, 3, 0, 0, 0, 26, 1, 0, 1, 0, 0, 0, 17>>
MCScript == {KeepAlive(2) \o KeepAlive(2), KeepAlive(2) \o Command}
=============================================================================
