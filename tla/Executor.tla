------------------------------ MODULE Executor ------------------------------
(***************************************************************************)
(* What a WorkQueue promises: the work it accepts is run once, in the      *)
(* order of acceptance.  Nothing is accepted once it closes, and nothing   *)
(* is run once it is closed.                                               *)
(***************************************************************************)
EXTENDS Sequences

CONSTANT Work

VARIABLES pending, ran, state

vars == <<pending, ran, state>>

Init == pending = <<>> /\ ran = <<>> /\ state = "open"

Accept(w) ==
    /\ state = "open"
    /\ pending' = Append(pending, w)
    /\ UNCHANGED <<ran, state>>

Run ==
    /\ state # "closed"
    /\ pending # <<>>
    /\ ran' = Append(ran, Head(pending))
    /\ pending' = Tail(pending)
    /\ UNCHANGED state

Close ==
    /\ \/ state = "open" /\ state' = "closing"
       \/ state = "closing" /\ state' = "closed"
    /\ UNCHANGED <<pending, ran>>

Next == (\E w \in Work : Accept(w)) \/ Run \/ Close

Spec == Init /\ [][Next]_vars
=============================================================================
