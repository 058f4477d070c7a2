----------------------------- MODULE MCWorkQueue -----------------------------
(***************************************************************************)
(* Instances of WorkQueue: its owner, two more producers, three functions  *)
(* and an empty one.                                                       *)
(***************************************************************************)
EXTENDS WorkQueue

MCCaller == {"owner", "producer", "another"}
MCWorker == {"first", "second"}
MCWork == {"f", "g", "h"}
=============================================================================
