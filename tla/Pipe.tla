-------------------------------- MODULE Pipe --------------------------------
(***************************************************************************)
(* What one endpoint promises the other: while the connection lasts, the   *)
(* messages it queues come out at the far end whole, once, and in order.   *)
(* content is every byte on the way, from messageQueue of the one to recv  *)
(* of the other; writing is who is about to put a message in.              *)
(***************************************************************************)
EXTENDS Integers, Sequences

CONSTANTS
    Packet,   \* the byte strings that are put in as one message
    Writer    \* who may put one in

VARIABLES content, writing, flowing

vars == <<content, writing, flowing>>

Init == content = <<>> /\ writing = {} /\ flowing = TRUE

Begin(w) ==
    /\ flowing /\ flowing'
    /\ w \notin writing
    /\ writing' = writing \cup {w}
    /\ UNCHANGED content

Put(w) ==
    /\ flowing /\ flowing'
    /\ w \in writing
    /\ writing' = writing \ {w}
    /\ \E p \in Packet : content' = content \o p

Take ==
    /\ flowing /\ flowing'
    /\ \E k \in 1..Len(content) : content' = SubSeq(content, k + 1, Len(content))
    /\ UNCHANGED writing

\* The connection is lost, and nothing is promised from then on.
Cut == ~flowing'

Next == (\E w \in Writer : Begin(w) \/ Put(w)) \/ Take \/ Cut

Spec == Init /\ [][Next]_vars
=============================================================================
