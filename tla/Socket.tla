------------------------------- MODULE Socket -------------------------------
(***************************************************************************)
(* The connected TCP socket under a liboca ConnectionEndpoint, as far as   *)
(* the calls of src/src/OcpConnectionEndpoint.cxx and OcpClient.cxx can    *)
(* see it: recv (with flags 0, blocking), send (with flags 0), close, and  *)
(* the end of the process.  It is code the repository uses, not code it    *)
(* has: every definition is external.                                      *)
(*                                                                         *)
(* An endpoint e owns one descriptor.  Its peer is another endpoint of the *)
(* model or, when Peer[e] is not in Endpoint, any program that speaks to   *)
(* the port; the bytes such a program sends are one of Script.             *)
(***************************************************************************)
EXTENDS Integers, Sequences

CONSTANTS
    Endpoint,    \* the ConnectionEndpoint objects
    Peer,        \* who each of them is connected to
    Connected,   \* endpoints with a descriptor; the others were given a 0
    Script,      \* what a peer that is not an endpoint may send
    Fragment,    \* TRUE: recv may return any non-empty part of what was asked
    BufferSize   \* bytes a kernel keeps for an endpoint before send blocks

Byte == 0..255

ASSUME PeerAssumption ==
    /\ DOMAIN Peer = Endpoint
    /\ \A e \in Endpoint : Peer[e] \in Endpoint => Peer[e] # e /\ Peer[Peer[e]] = e
ASSUME ConnectedAssumption == Connected \subseteq Endpoint
ASSUME ScriptAssumption == Script \subseteq Seq(Byte)
ASSUME SocketAssumption == Fragment \in BOOLEAN /\ BufferSize \in Nat

VARIABLES
    stream,   \* stream[e]: bytes sent to e that e has not received
    fd,       \* fd[e]: "pinned" is a closed descriptor with a recv in flight
    remote,   \* remote[e]: what e's TCP was told of the other side
    process   \* process[e]: the process that holds e

socketVars == <<stream, fd, remote, process>>

SocketTypeOK ==
    /\ stream \in [Endpoint -> Seq(Byte)]
    /\ fd \in [Endpoint -> {"open", "pinned", "closed"}]
    /\ remote \in [Endpoint -> {"open", "closed", "reset"}]
    /\ process \in [Endpoint -> {"up", "killed", "exited"}]

\* Two connected endpoints start with nothing on the wire.  Any other peer may
\* have sent all of its script: when it arrives is when recv is scheduled.
SocketInit ==
    /\ stream \in {s \in [Endpoint -> Script \cup {<<>>}] :
                      \A e \in Endpoint : 
                        Peer[e] \in Endpoint \/ e \notin Connected => s[e] = <<>>}
    /\ fd = [e \in Endpoint |-> IF e \in Connected THEN "open" ELSE "closed"]
    /\ remote = [e \in Endpoint |-> "open"]
    /\ process = [e \in Endpoint |-> "up"]

-----------------------------------------------------------------------------
AtMost(n, k) == IF n <= k THEN n ELSE k

\* How many bytes a recv of up to n returns when k are there.
ReadSizes(n, k) == IF Fragment THEN 1..AtMost(n, k) ELSE {AtMost(n, k)}

\* A recv that was in flight when the descriptor was closed is the last one.
RecvReturns(e) == fd' = [fd EXCEPT ![e] = IF @ = "pinned" THEN "closed" ELSE @]

\* recv returns the first k bytes; Prefix(e, k) is what it returns.  It blocks
\* while none of RecvBytes, RecvEnd and RecvError can happen.
Prefix(e, k) == SubSeq(stream[e], 1, k)
RecvBytes(e, k) ==
    /\ fd[e] # "closed"
    /\ stream[e] # <<>>
    /\ stream' = [stream EXCEPT ![e] = SubSeq(@, k + 1, Len(@))]
    /\ RecvReturns(e)
    /\ UNCHANGED <<remote, process>>

\* recv returns 0: the peer has shut the connection down.
RecvEnd(e) ==
    /\ fd[e] # "closed"
    /\ stream[e] = <<>>
    /\ remote[e] # "open"
    /\ RecvReturns(e)
    /\ UNCHANGED <<stream, remote, process>>

\* recv returns -1: the descriptor is closed, or the peer reset the connection.
RecvError(e) ==
    /\ fd[e] = "closed" \/ (stream[e] = <<>> /\ remote[e] = "reset")
    /\ RecvReturns(e)
    /\ UNCHANGED <<stream, remote, process>>

\* send of n bytes blocks while the peer's buffer is full.  Of a peer that is
\* not an endpoint it is assumed that it reads; Server and Client have those that
\* do not.
SendBlocks(e, n) ==
    /\ fd[e] = "open" /\ remote[e] = "open"
    /\ Peer[e] \in Endpoint
    /\ Len(stream[Peer[e]]) + n > BufferSize

SendDelivers(e, bytes) ==
    /\ fd[e] = "open" /\ remote[e] = "open"
    /\ ~SendBlocks(e, Len(bytes))
    /\ stream' = [p \in Endpoint |->
                     IF p = Peer[e] THEN stream[p] \o bytes ELSE stream[p]]
    /\ UNCHANGED <<fd, remote, process>>

\* The peer has closed: the bytes are lost and may be answered by a reset.
SendIsLost(e) ==
    /\ fd[e] = "open" /\ remote[e] = "closed"
    /\ \E r \in {"closed", "reset"} : remote' = [remote EXCEPT ![e] = r]
    /\ UNCHANGED <<stream, fd, process>>

\* send returns -1: a closed descriptor, or a reset that nobody has seen yet.
SendError(e, resetUnseen) ==
    /\ fd[e] # "open" \/ (remote[e] = "reset" /\ resetUnseen)
    /\ UNCHANGED socketVars

\* The connection was reset and SIGPIPE, which liboca never blocks, handles or
\* turns off with MSG_NOSIGNAL, ends the process.
SendRaisesSigpipe(e) ==
    /\ fd[e] = "open" /\ remote[e] = "reset"
    /\ process' = [process EXCEPT ![e] = "killed"]
    /\ UNCHANGED <<stream, fd, remote>>

\* close(2); recvInFlight says whether a recv is waiting inside the kernel.
Close(e, recvInFlight) ==
    /\ \E s \in {"closed"} \cup (IF recvInFlight THEN {"pinned"} ELSE {}) :
          fd' = [fd EXCEPT ![e] = s]
    /\ UNCHANGED <<stream, remote, process>>

EndProcess(e, how) ==
    /\ process' = [process EXCEPT ![e] = how]
    /\ UNCHANGED <<stream, fd, remote>>

-----------------------------------------------------------------------------
\* The kernel closes e's side of the connection once nothing holds it; unread
\* bytes turn the close into a reset, which may overtake what e sent before.
Release(e) ==
    LET p == Peer[e] IN
    /\ fd[e] = "closed" \/ process[e] # "up"
    /\ p \in Endpoint /\ remote[p] = "open"
    /\ IF stream[e] = <<>>
       THEN /\ remote' = [remote EXCEPT ![p] = "closed"]
            /\ UNCHANGED stream
       ELSE /\ remote' = [remote EXCEPT ![p] = "reset"]
            /\ \E lost \in BOOLEAN :
                  stream' = [q \in Endpoint |->
                               IF q = e \/ (q = p /\ lost) THEN <<>> ELSE stream[q]]
    /\ UNCHANGED <<fd, process>>

\* A peer that is not an endpoint closes its side, with or without unread bytes.
PeerCloses(e) ==
    /\ e \in Connected /\ Peer[e] \notin Endpoint
    /\ remote[e] = "open"
    /\ \E r \in {"closed", "reset"} : remote' = [remote EXCEPT ![e] = r]
    /\ UNCHANGED <<stream, fd, process>>
=============================================================================
