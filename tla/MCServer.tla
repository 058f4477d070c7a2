------------------------------- MODULE MCServer -------------------------------
(***************************************************************************)
(* An instance of Server: two clients, two addresses and so few            *)
(* descriptors that the table may fill up.                                 *)
(***************************************************************************)
EXTENDS Server

MCClient == {"first", "second"}
=============================================================================
