------------------------------- MODULE Client -------------------------------
(***************************************************************************)
(* oca::ocp::Client (src/src/OcpClient.cxx): the Clients of one process.   *)
(* Each belongs to a thread of the application, which constructs it, uses  *)
(* it and deletes it.  The Clients share the process's descriptor table,   *)
(* from which socket(2) takes the lowest free number: a number that was    *)
(* closed is soon another socket.                                          *)
(*                                                                         *)
(* Of a Client's endpoint there is what can meet the table: its flag and   *)
(* the two threads that its destructor joins, each of which can wait for   *)
(* the peer.  ConnectionEndpoint has the rest.                             *)
(***************************************************************************)
EXTENDS Integers

CONSTANTS
    Object,       \* the Client objects
    None,         \* no Client; also the file of a descriptor that is free
    Inherited,    \* the file of a descriptor the process was started with
    Thread,       \* the threads of the application
    Unread,       \* the Clients whose peers may stop reading
    Candidates,   \* most addresses that getaddrinfo returns
    Descriptors   \* size of the descriptor table

ASSUME ObjectAssumption == None \notin Object /\ Inherited \notin Object /\ None # Inherited
ASSUME SizeAssumption == Candidates \in Nat /\ Descriptors \in Nat

VARIABLES
    caller,           \* caller[o]: the thread that constructs and deletes o
    owner,            \* owner[o]: where that thread is
    candidate,        \* addresses left to try
    candidateAddresses,   \* the list that getaddrinfo allocated is there
    socketFd,         \* local of the constructor
    clientSocketFileDescriptor,
    socketFileDescriptor,       \* what the endpoint was constructed with
    file,             \* file[f]: whose socket descriptor f is
    shouldContinue,   \* flag of o's endpoint
    receive, send,    \* threads of o's endpoint
    reading,          \* reading[o]: whose socket o's receive thread waits on
    writing,          \* writing[o]: whose socket o's send thread waits on
    peer,             \* peer[o]: what the other side of o's connection sends
    reads             \* reads[o]: what it is sent has room

setupVars == <<caller, candidate, candidateAddresses, socketFd>>
threadVars == <<receive, send, reading, writing>>
peerVars == <<peer, reads>>
fdVars == <<clientSocketFileDescriptor, socketFileDescriptor, file>>
vars == <<owner, setupVars, fdVars, shouldContinue, threadVars, peerVars>>

Constructing == {"getaddrinfo", "socket", "connect", "free", "create"}
Destroying == {"stop", "joinReceive", "joinSend"}
Ended == {"thrown", "gone"}

Fd == 0..(Descriptors - 1)
NoFd == Descriptors

\* The process may have been started with descriptor 0 open or closed.
Init ==
    /\ caller \in [Object -> Thread]
    /\ owner = [o \in Object |-> "new"]
    /\ candidate = [o \in Object |-> 0]
    /\ candidateAddresses = [o \in Object |-> FALSE]
    /\ socketFd = [o \in Object |-> NoFd]
    /\ clientSocketFileDescriptor = [o \in Object |-> 0]
    /\ socketFileDescriptor = [o \in Object |-> 0]
    /\ \E open \in SUBSET (Fd \cap {0}) :
           file = [f \in Fd |-> IF f \in open THEN Inherited ELSE None]
    /\ shouldContinue = [o \in Object |-> FALSE]
    /\ receive = [o \in Object |-> "none"]
    /\ send = [o \in Object |-> "none"]
    /\ reading = [o \in Object |-> None]
    /\ writing = [o \in Object |-> None]
    /\ peer = [o \in Object |-> "away"]
    /\ reads = [o \in Object |-> TRUE]

Free == {f \in Fd : file[f] = None}
IsLowest(f) == f \in Free /\ \A g \in Free : f <= g

Goto(o, label) == owner' = [owner EXCEPT ![o] = label]

-----------------------------------------------------------------------------
\* The constructor.

\* A thread is in one constructor or destructor at a time.
Turn(o) ==
    \A p \in Object : caller[p] = caller[o] => owner[p] \notin Constructing \cup Destroying

Begin(o) ==
    /\ owner[o] = "new" /\ Turn(o)
    /\ Goto(o, "getaddrinfo")
    /\ UNCHANGED <<setupVars, fdVars, shouldContinue, threadVars, peerVars>>

\* getaddrinfo fails, and throws a pointer, or returns at least one address.
SetupAddresses(o) ==
    /\ owner[o] = "getaddrinfo"
    /\ \/ /\ Goto(o, "thrown")
          /\ UNCHANGED <<candidate, candidateAddresses>>
       \/ /\ Goto(o, "socket")
          /\ \E n \in 1..Candidates : candidate' = [candidate EXCEPT ![o] = n]
          /\ candidateAddresses' = [candidateAddresses EXCEPT ![o] = TRUE]
    /\ UNCHANGED <<caller, socketFd, fdVars, shouldContinue, threadVars, peerVars>>

SomeLeftAlways(n) == TRUE
SomeLeft(n) == n > 0

\* socket may fail at any time and does when the table is full: on to the next.
SetupSocket(o) ==
    /\ owner[o] = "socket" /\ SomeLeft(candidate[o])
    /\ \/ \E f \in Fd :
             /\ IsLowest(f)
             /\ socketFd' = [socketFd EXCEPT ![o] = f]
             /\ file' = [file EXCEPT ![f] = o]
             /\ Goto(o, "connect")
             /\ UNCHANGED candidate
       \/ /\ candidate' = [candidate EXCEPT ![o] = @ - 1]
          /\ UNCHANGED <<owner, socketFd, file>>
    /\ UNCHANGED <<caller, candidateAddresses, clientSocketFileDescriptor,
                   socketFileDescriptor, shouldContinue, threadVars, peerVars>>

AfterFailedConnectKept(table, f) == table
AfterFailedConnect(table, f) == [table EXCEPT ![f] = None]
SetupConnect(o) ==
    /\ owner[o] = "connect"
    /\ \/ /\ clientSocketFileDescriptor' =
                 [clientSocketFileDescriptor EXCEPT ![o] = socketFd[o]]
          /\ peer' = [peer EXCEPT ![o] = "talking"]
          /\ Goto(o, "free")
          /\ UNCHANGED <<candidate, file>>
       \/ /\ file' = AfterFailedConnect(file, socketFd[o])
          /\ candidate' = [candidate EXCEPT ![o] = @ - 1]
          /\ Goto(o, "socket")
          /\ UNCHANGED <<clientSocketFileDescriptor, peer>>
    /\ socketFd' = [socketFd EXCEPT ![o] = NoFd]
    /\ UNCHANGED <<caller, candidateAddresses, socketFileDescriptor, shouldContinue,
                   threadVars, reads>>

\* No address is left, or one was connected to.
SetupEnds(o) ==
    /\ owner[o] = "free" \/ (owner[o] = "socket" /\ ~SomeLeft(candidate[o]))
    /\ candidateAddresses' = [candidateAddresses EXCEPT ![o] = FALSE]
    /\ candidate' = [candidate EXCEPT ![o] = 0]
    /\ Goto(o, IF owner[o] = "free" THEN "create" ELSE "thrown")
    /\ UNCHANGED <<caller, socketFd, fdVars, shouldContinue, threadVars, peerVars>>

\* The endpoint's constructor; with a descriptor of 0 its threads end at once.
\* StartSupervision then only gives the send thread something to send.
SetupCreate(o) ==
    LET start == IF clientSocketFileDescriptor[o] = 0 THEN "done" ELSE "loop" IN
    /\ owner[o] = "create"
    /\ socketFileDescriptor' = [socketFileDescriptor EXCEPT ![o] = clientSocketFileDescriptor[o]]
    /\ shouldContinue' = [shouldContinue EXCEPT ![o] = TRUE]
    /\ receive' = [receive EXCEPT ![o] = start]
    /\ send' = [send EXCEPT ![o] = start]
    /\ Goto(o, "serving")
    /\ UNCHANGED <<setupVars, clientSocketFileDescriptor, file, reading, writing, peerVars>>

Setup(o) ==
    SetupAddresses(o) \/ SetupSocket(o) \/ SetupConnect(o) \/ SetupEnds(o) \/ SetupCreate(o)

-----------------------------------------------------------------------------
\* The endpoint's threads.

To(o, label) == receive' = [receive EXCEPT ![o] = label]

ReceiveLoop(o) ==
    /\ receive[o] = "loop"
    /\ To(o, IF shouldContinue[o] THEN "sync" ELSE "done")
    /\ UNCHANGED <<owner, setupVars, fdVars, shouldContinue, send, reading, writing, peerVars>>

\* recv takes hold of what the descriptor is now.  When that is nothing, or a socket
\* that is not connected, it fails: for a sync byte only, this ends the thread.
Unconnected(f) == file[f] = None \/ (file[f] \in Object /\ peer[file[f]] = "away")
ReceiveCall(o) ==
    /\ receive[o] \in {"sync", "header", "body"} /\ reading[o] = None
    /\ IF Unconnected(socketFileDescriptor[o])
       THEN To(o, IF receive[o] = "sync" THEN "done" ELSE "loop") /\ UNCHANGED reading
       ELSE /\ reading' = [reading EXCEPT ![o] = file[socketFileDescriptor[o]]]
            /\ UNCHANGED receive
    /\ UNCHANGED <<owner, setupVars, fdVars, shouldContinue, send, writing, peerVars>>

\* recv has bytes, or the end of the connection.
AfterBytes(label) == CASE label = "sync" -> {"header", "done"}
                       [] label = "header" -> {"body", "loop"}
                       [] label = "body" -> {"loop"}
AfterEnd(label) == IF label = "body" THEN "loop" ELSE "done"
ReceiveReturn(o) ==
    /\ reading[o] # None
    /\ \/ peer[reading[o]] = "talking" /\ \E next \in AfterBytes(receive[o]) : To(o, next)
       \/ peer[reading[o]] = "closed" /\ To(o, AfterEnd(receive[o]))
    /\ reading' = [reading EXCEPT ![o] = None]
    /\ UNCHANGED <<owner, setupVars, fdVars, shouldContinue, send, writing, peerVars>>

Receive(o) == ReceiveLoop(o) \/ ReceiveCall(o) \/ ReceiveReturn(o)

\* send(2) takes hold of what the descriptor is now, and waits when the buffers are
\* full because the other side does not read.  The flag may have fallen since the loop
\* tested it.
SendBlocks(o) ==
    LET f == file[socketFileDescriptor[o]] IN
    /\ send[o] = "loop"
    /\ f \in Object /\ ~reads[f]
    /\ send' = [send EXCEPT ![o] = "blocked"]
    /\ writing' = [writing EXCEPT ![o] = f]
    /\ UNCHANGED <<owner, setupVars, fdVars, shouldContinue, receive, reading, peerVars>>

\* There is nobody left to send to, and the loop tests the flag.
SendReturns(o) ==
    /\ send[o] = "blocked" /\ reads[writing[o]]
    /\ send' = [send EXCEPT ![o] = IF shouldContinue[o] THEN "loop" ELSE "done"]
    /\ writing' = [writing EXCEPT ![o] = None]
    /\ UNCHANGED <<owner, setupVars, fdVars, shouldContinue, receive, reading, peerVars>>

SendEnds(o) ==
    /\ send[o] = "loop" /\ ~shouldContinue[o]
    /\ send' = [send EXCEPT ![o] = "done"]
    /\ UNCHANGED <<owner, setupVars, fdVars, shouldContinue, receive, reading, writing,
                   peerVars>>

Send(o) == SendBlocks(o) \/ SendReturns(o) \/ SendEnds(o)

\* The supervisor has waited for too long; what comes may be too late.
Timeout(o) ==
    /\ shouldContinue[o] /\ socketFileDescriptor[o] # 0
    /\ shouldContinue' = [shouldContinue EXCEPT ![o] = FALSE]
    /\ UNCHANGED <<owner, setupVars, fdVars, threadVars, peerVars>>

\* A send to a side that has closed does not wait.
PeerStops(o) ==
    /\ peer[o] \in {"talking", "silent"}
    /\ \/ /\ peer[o] # "silent"
          /\ peer' = [peer EXCEPT ![o] = "silent"]
          /\ UNCHANGED reads
       \/ /\ peer' = [peer EXCEPT ![o] = "closed"]
          /\ reads' = [reads EXCEPT ![o] = TRUE]
    /\ UNCHANGED <<owner, setupVars, fdVars, shouldContinue, threadVars>>

\* It stops to read.  A pause only is a send that takes its time.
PeerStopsReading(o) ==
    /\ o \in Unread /\ peer[o] \in {"talking", "silent"} /\ reads[o]
    /\ reads' = [reads EXCEPT ![o] = FALSE]
    /\ UNCHANGED <<owner, setupVars, fdVars, shouldContinue, threadVars, peer>>

-----------------------------------------------------------------------------
\* ~Client, and ~ConnectionEndpoint of its member.

OwnerClose(o) ==
    /\ owner[o] = "serving" /\ Turn(o)
    /\ IF clientSocketFileDescriptor[o] # 0
       THEN /\ file' = [file EXCEPT ![clientSocketFileDescriptor[o]] = None]
            /\ clientSocketFileDescriptor' = [clientSocketFileDescriptor EXCEPT ![o] = 0]
       ELSE UNCHANGED <<file, clientSocketFileDescriptor>>
    /\ Goto(o, "stop")
    /\ UNCHANGED <<setupVars, socketFileDescriptor, shouldContinue, threadVars, peerVars>>

OwnerStopForgotten(o) ==
    /\ owner[o] = "stop"
    /\ Goto(o, "joinReceive")
    /\ UNCHANGED <<setupVars, fdVars, shouldContinue, threadVars, peerVars>>
OwnerStop(o) ==
    /\ owner[o] = "stop"
    /\ shouldContinue' = [shouldContinue EXCEPT ![o] = FALSE]
    /\ Goto(o, "joinReceive")
    /\ UNCHANGED <<setupVars, fdVars, threadVars, peerVars>>

OwnerDetaches(o) ==
    /\ \/ owner[o] = "joinReceive" /\ Goto(o, "joinSend")
       \/ owner[o] = "joinSend" /\ send[o] = "done" /\ Goto(o, "gone")
    /\ UNCHANGED <<setupVars, fdVars, shouldContinue, threadVars, peerVars>>
OwnerJoin(o) ==
    /\ \/ owner[o] = "joinReceive" /\ receive[o] = "done" /\ Goto(o, "joinSend")
       \/ owner[o] = "joinSend" /\ send[o] = "done" /\ Goto(o, "gone")
    /\ UNCHANGED <<setupVars, fdVars, shouldContinue, threadVars, peerVars>>

Step(o) ==
    \/ Begin(o) \/ Setup(o) \/ Receive(o) \/ Send(o) \/ Timeout(o)
    \/ PeerStops(o) \/ PeerStopsReading(o) \/ OwnerClose(o) \/ OwnerStop(o) \/ OwnerJoin(o)

Next == \E o \in Object : Step(o)

Spec == Init /\ [][Next]_vars

\* Threads run, and a send returns when there is nobody left to send to.  Nobody has
\* to construct or to delete a Client, and no peer has to say another word, or to read
\* one.
Fairness ==
    \A o \in Object :
        /\ WF_vars(Receive(o)) /\ WF_vars(Send(o))
        /\ WF_vars(OwnerStop(o) \/ OwnerJoin(o))

FairSpec == Spec /\ Fairness

-----------------------------------------------------------------------------
\* Every variable has its type (include/oca/OcpClient.hxx:53-56).
TypeOK ==
    /\ caller \in [Object -> Thread]
    /\ owner \in [Object -> {"new", "serving"} \cup Constructing \cup Destroying \cup Ended]
    /\ candidate \in [Object -> 0..Candidates]
    /\ candidateAddresses \in [Object -> BOOLEAN]
    /\ socketFd \in [Object -> Fd \cup {NoFd}]
    /\ clientSocketFileDescriptor \in [Object -> Fd \cup {0}]
    /\ socketFileDescriptor \in [Object -> Fd \cup {0}]
    /\ file \in [Fd -> Object \cup {None, Inherited}]
    /\ shouldContinue \in [Object -> BOOLEAN]
    /\ receive \in [Object -> {"none", "loop", "sync", "header", "body", "done"}]
    /\ send \in [Object -> {"none", "loop", "blocked", "done"}]
    /\ reading \in [Object -> Object \cup {None}]
    /\ writing \in [Object -> Object \cup {None}]
    /\ peer \in [Object -> {"away", "talking", "silent", "closed"}]
    /\ reads \in [Object -> BOOLEAN]

\* The descriptors a Client holds: its constructor's, its member, and 0, which
\* ~Client (OcpClient.cxx:101) takes for none and never closes.
Holds(o) ==
    {f \in Fd :
        \/ f = socketFd[o]
        \/ f = clientSocketFileDescriptor[o] /\ owner[o] \in {"free", "create", "serving"}
        \/ f = 0 /\ f = socketFileDescriptor[o] /\ owner[o] \in Destroying \cup {"gone"}}

\* Whatever fails, a constructor that throws (58-90) leaves no socket and no address
\* list behind, one that returns leaves one socket, no close hits a socket that
\* is another Client's by then, and ~Client leaves nothing but descriptor 0.
ResourcesAccounted ==
    \A o \in Object :
        /\ {f \in Fd : file[f] = o} = Holds(o)
        /\ owner[o] \notin Constructing => ~candidateAddresses[o]

\* ~Client (99-106) closes the descriptor under two threads that go on using its
\* number until the endpoint is destroyed.  What they get hold of is their own
\* connection or nothing, as long as only the thread that runs ~Client opens
\* descriptors; another one's connection they can reach until ~Client returns, then
\* no more.
Uses(o) ==
    {reading[o], writing[o]} \cup
    (IF receive[o] \in {"none", "done"} /\ send[o] \in {"none", "done"} THEN {}
     ELSE {file[socketFileDescriptor[o]]})
OwnConnection ==
    \A o \in Object : \A p \in Uses(o) :
        \/ p = o
        \/ p = None
        \/ p \in Object /\ caller[p] # caller[o] /\ owner[o] \in Destroying

\* ~Client returns, or one of its two joins waits for ever: for a word from a peer that
\* has fallen silent, or for one that does not read to make room.  Closing the
\* descriptor first wakes neither the recv nor the send (101-105).
Stuck(o) ==
    \/ /\ owner[o] = "joinReceive" /\ reading[o] # None
       /\ peer[reading[o]] = "silent"
    \/ /\ owner[o] = "joinSend" /\ writing[o] # None
       /\ ~reads[writing[o]]
DestructorReturns ==
    \A o \in Object : owner[o] = "stop" ~> owner[o] = "gone" \/ []Stuck(o)
=============================================================================
