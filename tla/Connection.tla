----------------------------- MODULE Connection -----------------------------
(***************************************************************************)
(* Two connected endpoints seen from outside: each direction is a Pipe.    *)
(***************************************************************************)
EXTENDS ConnectionEndpoint

\* What is sent but not yet popped counts once, as sent.
Unsent(e) ==
    IF pc[e]["send"] = "pop" THEN Tail(messageQueue[e]) ELSE messageQueue[e]

\* The messages of q, one encoded after the other: byte i of them all is byte
\* ByteOf(i) of message MessageOf(i).
MessageOf(i) == ((i - 1) \div MessageSize) + 1
ByteOf(i) == ((i - 1) % MessageSize) + 1
Encoded(q) ==
    [i \in 1..(MessageSize * Len(q)) |-> KeepAlive(q[MessageOf(i)])[ByteOf(i)]]

\* The endpoint exists, can send and be heard.
Flowing(e) ==
    /\ process[e] = "up" /\ pc[e]["owner"] # "freed"
    /\ fd[e] = "open" /\ remote[e] = "open"

Outgoing(e) == INSTANCE Pipe WITH
    Packet <- {KeepAlive(StartTime)},
    Writer <- Pusher,
    writing <- {t \in Pusher : pc[e][t] = "bump"},
    content <- stream[Peer[e]] \o Encoded(Unsent(e)),
    flowing <- Flowing(e)

\* From push_back in queueMessageForSend (OcpConnectionEndpoint.cxx:231-243) over
\* sendLoop (266-299) to the recv calls of the other side, what an endpoint sends
\* its peer goes through a Pipe: each push puts one message in, and nothing else
\* does.  This is \A e \in Endpoint : Outgoing(e)!Spec, in the form TLC checks.
ImplementsPipe ==
    /\ \A e \in Endpoint : Outgoing(e)!Init
    /\ [][\A e \in Endpoint : [Outgoing(e)!Next]_<<Outgoing(e)!vars>>]_vars
=============================================================================
