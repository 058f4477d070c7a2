------------------------------ MODULE Lifecycle ------------------------------
(***************************************************************************)
(* What a ConnectionEndpoint promises those who own it: its flag falls     *)
(* once and for good, the receive thread ends when it likes and is not     *)
(* started again, the send thread goes on exactly as long as the flag is   *)
(* up, and the object is freed when it was told to stop and both threads   *)
(* are gone.  Server and Client see their endpoints this way.              *)
(***************************************************************************)
VARIABLES
    flag,        \* shouldContinue
    receiving,   \* the receive thread runs
    sending,     \* the send thread runs
    object       \* "live", "ending" inside the destructor, or "freed"

vars == <<flag, receiving, sending, object>>

\* An endpoint without a descriptor has no threads from the start.
Init == flag = TRUE /\ receiving \in BOOLEAN /\ sending = receiving /\ object = "live"

TimesOut ==
    /\ flag /\ object # "freed" /\ flag' = FALSE
    /\ UNCHANGED <<receiving, sending, object>>

ReceiveEnds ==
    /\ receiving /\ receiving' = FALSE
    /\ UNCHANGED <<flag, sending, object>>

SendEnds ==
    /\ sending /\ ~flag /\ sending' = FALSE
    /\ UNCHANGED <<flag, receiving, object>>

Stop ==
    /\ object = "live" /\ object' = "ending" /\ flag' = FALSE
    /\ UNCHANGED <<receiving, sending>>

Freed ==
    /\ object = "ending" /\ ~receiving /\ ~sending /\ object' = "freed"
    /\ UNCHANGED <<flag, receiving, sending>>

Next == TimesOut \/ ReceiveEnds \/ SendEnds \/ Stop \/ Freed

Spec == Init /\ [][Next]_vars
=============================================================================
