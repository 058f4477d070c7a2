------------------------------- MODULE MCClient -------------------------------
(***************************************************************************)
(* An instance of Client: two Clients of one thread, or of two, and at     *)
(* times too few descriptors for both.                                     *)
(***************************************************************************)
EXTENDS Client

MCObject == {"one", "two"}
MCUnread == {"one"}
MCThread == {"main", "worker"}

\* The threads are interchangeable: the first Client is main's.
MCInit == Init /\ caller["one"] = "main"
MCSpec == MCInit /\ [][Next]_vars /\ Fairness
=============================================================================
