-------------------------------- MODULE Server --------------------------------
(***************************************************************************)
(* oca::ocp::Server (src/src/OcpServer.cxx): the constructor's walk over   *)
(* the addresses, the accept thread, the vector of endpoints, and the      *)
(* destructor.  Of each endpoint only what its Server can tell is kept:    *)
(* what the two threads that its destructor joins do, and what its client  *)
(* is up to.  The supervisor, which nobody joins, is in ConnectionEndpoint.*)
(***************************************************************************)
EXTENDS Naturals, Sequences, FiniteSets

CONSTANTS
    Client,       \* connections that clients may make
    None,         \* no client
    Candidates,   \* most addresses that getaddrinfo returns
    Descriptors,  \* size of the process's descriptor table
    Backlog       \* connections that the kernel keeps for accept

ASSUME ClientAssumption == None \notin Client
ASSUME SizeAssumption == Candidates \in Nat /\ Descriptors \in Nat /\ Backlog \in Nat

VARIABLES
    owner,             \* where the thread is that constructs and deletes the Server
    candidate,         \* addresses left to try
    candidateAddresses,    \* the list that getaddrinfo allocated is there
    socketFd,          \* local of the constructor
    listenSocketFileDescriptor,
    continueAccepting,
    used,              \* descriptors in use
    inherited,         \* those the process had before
    backlog,           \* clients the kernel has connected and nobody has accepted
    listening,         \* the kernel connects clients
    accepter,          \* where the accept thread is
    newClient,         \* local of acceptLoop: the client just accepted
    clientFd,          \* clientFd[c]: its descriptor, from accept on
    endpoints,         \* the vector, one endpoint for a client
    receive, send,     \* receive[c], send[c]: the threads of c's endpoint
    shouldContinue,    \* shouldContinue[c]: the flag of c's endpoint
    peer,              \* peer[c]: what the client sends
    reads              \* reads[c]: what the client is sent has room

setupVars == <<candidate, candidateAddresses, socketFd, listenSocketFileDescriptor,
               inherited>>
acceptVars == <<accepter, newClient, clientFd>>
endpointVars == <<receive, send, shouldContinue, peer, reads>>
vars == <<owner, setupVars, continueAccepting, used, backlog, listening, acceptVars,
          endpoints, endpointVars>>

Constructing == {"socket", "setsockopt", "bind", "listen", "create"}
Destroying == {"join", "close", "destroy", "joinReceive", "joinSend"}

Fd == 0..(Descriptors - 1)
NoFd == Descriptors

\* The process may have been started with descriptor 0 open or closed.
Init ==
    /\ owner = "socket"
    /\ candidate \in 0..Candidates /\ candidateAddresses = TRUE
    /\ socketFd = NoFd /\ listenSocketFileDescriptor = 0
    /\ continueAccepting = TRUE
    /\ inherited \in SUBSET (Fd \cap {0}) /\ used = inherited
    /\ backlog = <<>> /\ listening = FALSE
    /\ accepter = "none" /\ newClient = None
    /\ clientFd = [c \in Client |-> NoFd]
    /\ endpoints = <<>>
    /\ receive = [c \in Client |-> "none"] /\ send = [c \in Client |-> "none"]
    /\ shouldContinue = [c \in Client |-> FALSE]
    /\ peer = [c \in Client |-> "away"] /\ reads = [c \in Client |-> TRUE]

\* socket and accept return the lowest descriptor that is free.
Full == used = Fd
Lowest == CHOOSE f \in Fd \ used : \A g \in Fd \ used : f <= g

-----------------------------------------------------------------------------
\* The constructor.

SomeLeftAlways(n) == TRUE
SomeLeft(n) == n > 0

\* No address is left: freeaddrinfo, and throw.
SetupFails ==
    /\ owner = "socket" /\ ~SomeLeft(candidate)
    /\ owner' = "thrown"
    /\ candidateAddresses' = FALSE
    /\ UNCHANGED <<candidate, socketFd, listenSocketFileDescriptor, inherited,
                   continueAccepting, used, backlog, listening, acceptVars, endpoints,
                   endpointVars>>

SetupSocket ==
    /\ owner = "socket" /\ SomeLeft(candidate)
    /\ \/ /\ ~Full
          /\ socketFd' = Lowest
          /\ used' = used \cup {Lowest}
          /\ owner' = "setsockopt"
          /\ UNCHANGED candidate
       \/ /\ candidate' = candidate - 1
          /\ UNCHANGED <<owner, socketFd, used>>
    /\ UNCHANGED <<candidateAddresses, listenSocketFileDescriptor, inherited,
                   continueAccepting, backlog, listening, acceptVars, endpoints,
                   endpointVars>>

\* A failure frees the list and throws, and leaves the socket open.
SetupOption ==
    /\ owner = "setsockopt"
    /\ \/ owner' = "bind" /\ UNCHANGED candidateAddresses
       \/ owner' = "thrown" /\ candidateAddresses' = FALSE
    /\ UNCHANGED <<candidate, socketFd, listenSocketFileDescriptor, inherited,
                   continueAccepting, used, backlog, listening, acceptVars, endpoints,
                   endpointVars>>

AfterFailedBindKept(open, f) == open
AfterFailedBind(open, f) == open \ {f}
SetupBind ==
    /\ owner = "bind"
    /\ \/ /\ owner' = "listen"
          /\ UNCHANGED <<candidate, socketFd, used>>
       \/ /\ owner' = "socket"
          /\ candidate' = candidate - 1
          /\ socketFd' = NoFd
          /\ used' = AfterFailedBind(used, socketFd)
    /\ UNCHANGED <<candidateAddresses, listenSocketFileDescriptor, inherited,
                   continueAccepting, backlog, listening, acceptVars, endpoints,
                   endpointVars>>

\* Either way the walk is over, and its locals with it.  A failure closes the socket
\* and throws, and leaves the list.
SetupListen ==
    /\ owner = "listen"
    /\ socketFd' = NoFd /\ candidate' = 0
    /\ \/ /\ owner' = "create"
          /\ candidateAddresses' = FALSE
          /\ listenSocketFileDescriptor' = socketFd
          /\ listening' = TRUE
          /\ UNCHANGED used
       \/ /\ owner' = "thrown"
          /\ used' = used \ {socketFd}
          /\ UNCHANGED <<candidateAddresses, listenSocketFileDescriptor, listening>>
    /\ UNCHANGED <<inherited, continueAccepting, backlog, acceptVars, endpoints,
                   endpointVars>>

SetupCreate ==
    /\ owner = "create"
    /\ owner' = "serving"
    /\ accepter' = "loop"
    /\ UNCHANGED <<setupVars, continueAccepting, used, backlog, listening, newClient,
                   clientFd, endpoints, endpointVars>>

Setup ==
    SetupFails \/ SetupSocket \/ SetupOption \/ SetupBind \/ SetupListen \/ SetupCreate

-----------------------------------------------------------------------------
\* acceptLoop

AcceptLoop ==
    /\ accepter = "loop"
    /\ accepter' = IF continueAccepting THEN "accept" ELSE "done"
    /\ UNCHANGED <<owner, setupVars, continueAccepting, used, backlog, listening,
                   newClient, clientFd, endpoints, endpointVars>>

Accept ==
    /\ accepter = "accept" /\ ~Full /\ backlog # <<>>
    /\ newClient' = Head(backlog)
    /\ clientFd' = [clientFd EXCEPT ![Head(backlog)] = Lowest]
    /\ used' = used \cup {Lowest}
    /\ backlog' = Tail(backlog)
    /\ accepter' = "construct"
    /\ UNCHANGED <<owner, setupVars, continueAccepting, listening, endpoints, endpointVars>>

\* accept returns -1, and does not wait, when the table is full.
AcceptFails ==
    /\ accepter = "accept" /\ Full
    /\ accepter' = "loop"
    /\ UNCHANGED <<owner, setupVars, continueAccepting, used, backlog, listening,
                   newClient, clientFd, endpoints, endpointVars>>

\* The endpoint's constructor; with a descriptor of 0 its threads end at once.
AcceptConstruct ==
    LET start == IF clientFd[newClient] = 0 THEN "done" ELSE "running" IN
    /\ accepter = "construct"
    /\ receive' = [receive EXCEPT ![newClient] = start]
    /\ send' = [send EXCEPT ![newClient] = start]
    /\ shouldContinue' = [shouldContinue EXCEPT ![newClient] = TRUE]
    /\ accepter' = "push"
    /\ UNCHANGED <<owner, setupVars, continueAccepting, used, backlog, listening,
                   newClient, clientFd, endpoints, peer, reads>>

AfterPushDone == "done"
AfterPush == "loop"
AcceptPush ==
    /\ accepter = "push"
    /\ endpoints' = Append(endpoints, newClient)
    /\ newClient' = None
    /\ accepter' = AfterPush
    /\ UNCHANGED <<owner, setupVars, continueAccepting, used, backlog, listening,
                   clientFd, endpointVars>>

acceptLoop == AcceptLoop \/ Accept \/ AcceptFails \/ AcceptConstruct \/ AcceptPush

-----------------------------------------------------------------------------
\* ~Server

StopForgetting(continue) == continue
Stopped(continue) == FALSE
OwnerStop ==
    /\ owner = "serving"
    /\ continueAccepting' = Stopped(continueAccepting)
    /\ owner' = "join"
    /\ UNCHANGED <<setupVars, used, backlog, listening, acceptVars, endpoints, endpointVars>>

OwnerDetaches ==
    /\ owner = "join"
    /\ owner' = "close"
    /\ UNCHANGED <<setupVars, continueAccepting, used, backlog, listening, acceptVars,
                   endpoints, endpointVars>>
OwnerJoin ==
    /\ owner = "join" /\ accepter = "done"
    /\ owner' = "close"
    /\ UNCHANGED <<setupVars, continueAccepting, used, backlog, listening, acceptVars,
                   endpoints, endpointVars>>

\* Closing the listening socket resets who was not accepted.
OwnerClose ==
    /\ owner = "close"
    /\ IF listenSocketFileDescriptor # 0
       THEN /\ used' = used \ {listenSocketFileDescriptor}
            /\ listenSocketFileDescriptor' = 0
            /\ listening' = FALSE
            /\ backlog' = <<>>
       ELSE UNCHANGED <<used, listenSocketFileDescriptor, listening, backlog>>
    /\ owner' = "destroy"
    /\ UNCHANGED <<candidate, candidateAddresses, socketFd, inherited,
                   continueAccepting, acceptVars, endpoints, endpointVars>>

\* The vector destroys its endpoints from the first to the last; each destructor
\* clears its flag and joins.  The descriptors stay open.
OwnerDestroy ==
    /\ owner = "destroy" /\ endpoints # <<>>
    /\ shouldContinue' = [shouldContinue EXCEPT ![Head(endpoints)] = FALSE]
    /\ owner' = "joinReceive"
    /\ UNCHANGED <<setupVars, continueAccepting, used, backlog, listening, acceptVars,
                   endpoints, receive, send, peer, reads>>

OwnerJoinReceive ==
    /\ owner = "joinReceive" /\ receive[Head(endpoints)] = "done"
    /\ owner' = "joinSend"
    /\ UNCHANGED <<setupVars, continueAccepting, used, backlog, listening, acceptVars,
                   endpoints, endpointVars>>

OwnerLeavesSend ==
    /\ owner = "joinSend"
    /\ endpoints' = Tail(endpoints)
    /\ owner' = "destroy"
    /\ UNCHANGED <<setupVars, continueAccepting, used, backlog, listening, acceptVars,
                   endpointVars>>
OwnerJoinSend ==
    /\ owner = "joinSend" /\ send[Head(endpoints)] = "done"
    /\ endpoints' = Tail(endpoints)
    /\ owner' = "destroy"
    /\ UNCHANGED <<setupVars, continueAccepting, used, backlog, listening, acceptVars,
                   endpointVars>>

OwnerGone ==
    /\ owner = "destroy" /\ endpoints = <<>>
    /\ owner' = "gone"
    /\ UNCHANGED <<setupVars, continueAccepting, used, backlog, listening, acceptVars,
                   endpoints, endpointVars>>

Destructor ==
    \/ OwnerJoin \/ OwnerClose
    \/ OwnerDestroy \/ OwnerJoinReceive \/ OwnerJoinSend \/ OwnerGone

-----------------------------------------------------------------------------
\* The endpoints and their clients.

\* recv returned: the client has closed, or has sent what makes receiveLoop end.
ReceiveEnds(c) ==
    /\ receive[c] = "running"
    /\ peer[c] \in {"talking", "closed"}
    /\ receive' = [receive EXCEPT ![c] = "done"]
    /\ UNCHANGED <<owner, setupVars, continueAccepting, used, backlog, listening,
                   acceptVars, endpoints, send, shouldContinue, peer, reads>>

\* send(2) waits for a client that does not read, once the buffers are full.  The flag
\* may have fallen since the loop tested it.
SendBlocks(c) ==
    /\ send[c] = "running" /\ ~reads[c]
    /\ send' = [send EXCEPT ![c] = "blocked"]
    /\ UNCHANGED <<owner, setupVars, continueAccepting, used, backlog, listening,
                   acceptVars, endpoints, receive, shouldContinue, peer, reads>>

\* There is room, or nobody left to send to, and the loop tests the flag.
SendReturns(c) ==
    /\ send[c] = "blocked" /\ reads[c]
    /\ send' = [send EXCEPT ![c] = IF shouldContinue[c] THEN "running" ELSE "done"]
    /\ UNCHANGED <<owner, setupVars, continueAccepting, used, backlog, listening,
                   acceptVars, endpoints, receive, shouldContinue, peer, reads>>

SendEnds(c) ==
    /\ send[c] = "running" /\ ~shouldContinue[c]
    /\ send' = [send EXCEPT ![c] = "done"]
    /\ UNCHANGED <<owner, setupVars, continueAccepting, used, backlog, listening,
                   acceptVars, endpoints, receive, shouldContinue, peer, reads>>

Send(c) == SendBlocks(c) \/ SendReturns(c) \/ SendEnds(c)

\* The supervisor has waited for too long; what comes may be too late.
Timeout(c) ==
    /\ shouldContinue[c] /\ clientFd[c] # 0
    /\ shouldContinue' = [shouldContinue EXCEPT ![c] = FALSE]
    /\ UNCHANGED <<owner, setupVars, continueAccepting, used, backlog, listening,
                   acceptVars, endpoints, receive, send, peer, reads>>

Connect(c) ==
    /\ listening /\ peer[c] = "away" /\ Len(backlog) < Backlog
    /\ peer' = [peer EXCEPT ![c] = "talking"]
    /\ backlog' = Append(backlog, c)
    /\ UNCHANGED <<owner, setupVars, continueAccepting, used, listening, acceptVars,
                   endpoints, receive, send, shouldContinue, reads>>

\* A send to a side that has closed does not wait.
ClientStops(c) ==
    /\ peer[c] \in {"talking", "silent"}
    /\ \/ /\ peer[c] # "silent"
          /\ peer' = [peer EXCEPT ![c] = "silent"]
          /\ UNCHANGED reads
       \/ /\ peer' = [peer EXCEPT ![c] = "closed"]
          /\ reads' = [reads EXCEPT ![c] = TRUE]
    /\ UNCHANGED <<owner, setupVars, continueAccepting, used, backlog, listening,
                   acceptVars, endpoints, receive, send, shouldContinue>>

\* It stops to read, or goes on with it.
ClientReads(c) ==
    /\ peer[c] \in {"talking", "silent"}
    /\ reads' = [reads EXCEPT ![c] = ~@]
    /\ UNCHANGED <<owner, setupVars, continueAccepting, used, backlog, listening,
                   acceptVars, endpoints, receive, send, shouldContinue, peer>>

ClientStep(c) == Connect(c) \/ ClientStops(c) \/ ClientReads(c)

Next ==
    \/ Setup \/ acceptLoop \/ OwnerStop \/ Destructor
    \/ \E c \in Client : ReceiveEnds(c) \/ Send(c) \/ Timeout(c) \/ ClientStep(c)

Spec == Init /\ [][Next]_vars

\* Threads run; a receive thread that was told to stop does with the next message
\* of a client that goes on talking, and a send returns to a client that, with or
\* without pauses, goes on reading.  Nobody has to connect, to read, to close or to
\* delete.
FairSpec ==
    /\ Spec
    /\ WF_vars(Setup) /\ WF_vars(acceptLoop) /\ WF_vars(Destructor)
    /\ \A c \in Client :
          /\ WF_vars(ReceiveEnds(c) /\ (peer[c] = "closed" \/ ~shouldContinue[c]))
          /\ SF_vars(SendReturns(c)) /\ WF_vars(SendEnds(c))

-----------------------------------------------------------------------------
\* Every variable has its type (include/oca/OcpServer.hxx:55-58); the walk over the
\* addresses ends with the last.
TypeOK ==
    /\ owner \in Constructing \cup Destroying \cup {"serving", "thrown", "gone"}
    /\ accepter \in {"none", "loop", "accept", "construct", "push", "done"}
    /\ candidate \in 0..Candidates /\ candidateAddresses \in BOOLEAN
    /\ socketFd \in Fd \cup {NoFd}
    /\ listenSocketFileDescriptor \in Fd \cup {0} /\ continueAccepting \in BOOLEAN
    /\ inherited \subseteq used /\ used \subseteq Fd
    /\ backlog \in Seq(Client) /\ listening \in BOOLEAN
    /\ newClient \in Client \cup {None}
    /\ clientFd \in [Client -> Fd \cup {NoFd}]
    /\ endpoints \in Seq(Client)
    /\ receive \in [Client -> {"none", "running", "done"}]
    /\ send \in [Client -> {"none", "running", "blocked", "done"}]
    /\ shouldContinue \in [Client -> BOOLEAN]
    /\ peer \in [Client -> {"away", "talking", "silent", "closed"}]
    /\ reads \in [Client -> BOOLEAN]

DescriptorsAccounted ==
    used = inherited
             \cup (({socketFd} \cup {clientFd[c] : c \in Client}) \ {NoFd})
             \cup {f \in {listenSocketFileDescriptor} : listening}
ListAccounted ==
    /\ candidateAddresses => owner \in {"socket", "setsockopt", "bind", "listen", "thrown"}
    /\ owner = "thrown" => ~candidateAddresses \/ socketFd = NoFd

\* The constructor leaves no socket open but the one it listens on, or the one whose
\* option it could not set (OcpServer.cxx:88-95), and no address list but the one with
\* a socket that could not listen (105-110): never both.  ~Server (182-191) closes the
\* socket it listens on, unless it is descriptor 0; what was accepted stays open for
\* good, also after its endpoint has been destroyed.
ResourcesAccounted == DescriptorsAccounted /\ ListAccounted

\* acceptLoop (148-178) appends to a vector without a lock that ~Server (182-191)
\* destroys: by then the accept thread is gone and holds no client.  When ~Server has
\* returned, the two threads that each endpoint's destructor joins
\* (OcpConnectionEndpoint.cxx:310-311) have ended, those of the endpoint that was
\* accepted after the flag fell included.  The supervisors may still be there.
Joining == {"joinReceive", "joinSend"}
CleanEnd ==
    /\ owner \in {"close", "destroy", "gone"} \cup Joining =>
           accepter = "done" /\ newClient = None
    /\ owner = "gone" => \A c \in Client : {receive[c], send[c]} \subseteq {"none", "done"}

\* A client that connects gets an endpoint (157-172), whatever becomes of those
\* before it, until the Server is deleted or, for good, out of descriptors.
Served ==
    \A c \in Client :
        c \in {backlog[i] : i \in DOMAIN backlog}
            ~> receive[c] # "none" \/ owner \in Destroying \cup {"gone"} \/ Full

\* What ~Server may wait for without end: one more client, a word from one that has
\* fallen silent, or one that does not read what it is sent to make room.
Stuck ==
    \/ owner = "join" /\ accepter = "accept" /\ backlog = <<>> /\ ~Full
    \/ /\ owner = "joinReceive"
       /\ receive[Head(endpoints)] = "running" /\ peer[Head(endpoints)] = "silent"
    \/ /\ owner = "joinSend"
       /\ send[Head(endpoints)] = "blocked" /\ ~reads[Head(endpoints)]

\* ~Server (182-191) returns, or waits for ever for one of the three: its order of
\* flag, join, close and endpoints, and theirs of flag and joins, leave no other way
\* to hang.
DestructorReturns == owner = "join" ~> owner = "gone" \/ []Stuck

\* tests/test_GrindConstructors.cxx:38-50 deletes a Server to which nobody has
\* connected: the delete returns.
DeleteReturns == owner = "join" ~> owner = "gone"
=============================================================================
