---------------------------- MODULE Client_proofs ----------------------------
(***************************************************************************)
(* Proofs about Client, for any number of Clients, threads, addresses and  *)
(* descriptors.                                                            *)
(***************************************************************************)
EXTENDS Client, TLAPS

-----------------------------------------------------------------------------
\* The inductive invariant.

Unborn == {"new", "thrown"} \cup Constructing
Alive == {"serving", "gone"} \cup Destroying

\* What a Client's thread finds when it gets to a place.
Placed(o) ==
    /\ socketFd[o] # NoFd <=> owner[o] = "connect"
    /\ owner[o] = "connect" => candidate[o] > 0
    /\ candidateAddresses[o] => owner[o] \in {"socket", "connect", "free"}
    /\ owner[o] \in Unborn =>
           receive[o] = "none" /\ send[o] = "none" /\ reading[o] = None /\ writing[o] = None
    /\ owner[o] \in {"free", "create"} => clientSocketFileDescriptor[o] \in Fd
    /\ owner[o] \in Alive =>
           /\ socketFileDescriptor[o] \in Fd
           /\ socketFileDescriptor[o] = 0 => receive[o] = "done" /\ send[o] = "done"
    /\ owner[o] = "serving" => socketFileDescriptor[o] = clientSocketFileDescriptor[o]
    /\ owner[o] \in {"joinSend", "gone"} => receive[o] = "done"
    /\ owner[o] = "gone" => send[o] = "done"
    /\ reading[o] # None => receive[o] \in {"sync", "header", "body"}
    /\ writing[o] # None <=> send[o] = "blocked"

\* A thread constructs or deletes one Client at a time.
Busy(o) == owner[o] \in Constructing \cup Destroying
OneAtATime == \A o, p \in Object : Busy(o) /\ Busy(p) /\ caller[o] = caller[p] => o = p

\* The only descriptor the process may have been started with is 0.
Standard == \A f \in Fd : file[f] = Inherited => f = 0

PInv == TypeOK /\ \A o \in Object : Placed(o)
IInv == PInv /\ OneAtATime /\ Standard /\ ResourcesAccounted /\ OwnConnection

-----------------------------------------------------------------------------
LEMMA FdFacts == NoFd \notin Fd /\ Fd \subseteq Nat
BY SizeAssumption DEF NoFd, Fd

LEMMA InitIInv == Init => IInv
<1> SUFFICES ASSUME Init PROVE IInv
  OBVIOUS
<1> USE ObjectAssumption, SizeAssumption, FdFacts
<1>1. TypeOK
  BY DEF Init, TypeOK
<1>2. \A o \in Object : Placed(o)
  BY DEF Init, Placed, Constructing, Destroying, Unborn, Alive
<1>3. OneAtATime /\ Standard
  BY DEF Init, OneAtATime, Busy, Constructing, Destroying, Standard
<1>4. ResourcesAccounted
  BY DEF Init, ResourcesAccounted, Holds, Constructing, Destroying
<1>5. OwnConnection
  BY DEF Init, OwnConnection, Uses
<1> QED BY <1>1, <1>2, <1>3, <1>4, <1>5 DEF IInv, PInv

\* Types and places: each step moves one Client.
LEMMA NextPlaces ==
    ASSUME PInv, Standard, NEW o \in Object, Step(o)
    PROVE  PInv'
<1> USE SizeAssumption, FdFacts, ObjectAssumption
    DEF PInv, Placed, Unborn, Alive, Constructing, Destroying, Ended, setupVars, threadVars,
        fdVars, peerVars, Goto
<1>1. CASE Begin(o)
  BY <1>1 DEF Begin, TypeOK
<1>2. CASE SetupAddresses(o)
  <2>1. CASE owner' = [owner EXCEPT ![o] = "thrown"] /\ UNCHANGED <<candidate, candidateAddresses>>
    BY <1>2, <2>1 DEF SetupAddresses, TypeOK
  <2>2. ASSUME NEW n \in 1..Candidates,
               candidate' = [candidate EXCEPT ![o] = n],
               owner' = [owner EXCEPT ![o] = "socket"],
               candidateAddresses' = [candidateAddresses EXCEPT ![o] = TRUE]
        PROVE  PInv'
    BY <1>2, <2>2 DEF SetupAddresses, TypeOK
  <2> QED BY <1>2, <2>1, <2>2 DEF SetupAddresses
<1>3. CASE SetupSocket(o)
  BY <1>3 DEF SetupSocket, SomeLeft, TypeOK
<1>4. CASE SetupConnect(o)
  <2>1. socketFd[o] \in Fd /\ candidate[o] \in 1..Candidates
    BY <1>4 DEF SetupConnect, TypeOK
  <2>2. CASE owner' = [owner EXCEPT ![o] = "free"]
    BY <1>4, <2>1, <2>2 DEF SetupConnect, TypeOK
  <2>3. CASE owner' = [owner EXCEPT ![o] = "socket"]
    <3>1. /\ file' = [file EXCEPT ![socketFd[o]] = None]
          /\ candidate' = [candidate EXCEPT ![o] = @ - 1]
          /\ UNCHANGED <<clientSocketFileDescriptor, peer>>
      BY <1>4, <2>3 DEF SetupConnect, AfterFailedConnect, TypeOK
    <3> QED BY <1>4, <2>1, <2>3, <3>1 DEF SetupConnect, TypeOK
  <2> QED BY <1>4, <2>2, <2>3 DEF SetupConnect
<1>5. CASE SetupEnds(o)
  BY <1>5 DEF SetupEnds, SomeLeft, TypeOK
<1>6. CASE SetupCreate(o)
  BY <1>6 DEF SetupCreate, TypeOK
<1>7. CASE ReceiveLoop(o)
  BY <1>7 DEF ReceiveLoop, To, TypeOK
<1>8. CASE ReceiveCall(o)
  <2>1. socketFileDescriptor[o] \in Fd /\ socketFileDescriptor[o] # 0
    BY <1>8 DEF ReceiveCall, TypeOK
  <2>2. file[socketFileDescriptor[o]] \in Object \cup {None}
    <3>1. file[socketFileDescriptor[o]] \in Object \cup {None, Inherited}
      BY <2>1 DEF TypeOK
    <3> QED BY <2>1, <3>1 DEF Standard
  <2> QED BY <1>8, <2>2 DEF ReceiveCall, To, TypeOK
<1>9. CASE ReceiveReturn(o)
  BY <1>9 DEF ReceiveReturn, AfterBytes, AfterEnd, To, TypeOK
<1>10. CASE SendEnds(o)
  BY <1>10 DEF SendEnds, TypeOK
<1>11. CASE Timeout(o)
  BY <1>11 DEF Timeout, TypeOK
<1>15. CASE PeerStops(o)
  <2>1. /\ peer' \in [Object -> {"away", "talking", "silent", "closed"}]
        /\ reads' \in [Object -> BOOLEAN]
    BY <1>15 DEF PeerStops, TypeOK
  <2> QED BY <1>15, <2>1 DEF PeerStops, TypeOK
<1>16. CASE PeerStopsReading(o)
  BY <1>16 DEF PeerStopsReading, TypeOK
<1>17. CASE SendBlocks(o)
  <2>1. file[socketFileDescriptor[o]] \in Object
    BY <1>17 DEF SendBlocks
  <2> QED BY <1>17, <2>1 DEF SendBlocks, TypeOK
<1>18. CASE SendReturns(o)
  BY <1>18 DEF SendReturns, TypeOK
<1>12. CASE OwnerClose(o)
  BY <1>12 DEF OwnerClose, TypeOK
<1>13. CASE OwnerStop(o)
  BY <1>13 DEF OwnerStop, TypeOK
<1>14. CASE OwnerJoin(o)
  BY <1>14 DEF OwnerJoin, TypeOK
<1> QED
  BY <1>1, <1>2, <1>3, <1>4, <1>5, <1>6, <1>7, <1>8, <1>9, <1>10, <1>11, <1>12, <1>13,
     <1>14, <1>15, <1>16, <1>17, <1>18
  DEF Step, Setup, Receive, Send

\* A thread takes up a Client only when it is done with the others.
LEMMA NextOneAtATime ==
    ASSUME PInv, OneAtATime, NEW o \in Object, Step(o)
    PROVE  OneAtATime'
<1> USE DEF PInv, OneAtATime, Busy, Constructing, Destroying, Ended, Goto
<1>1. CASE Begin(o) \/ OwnerClose(o)
  <2>1. /\ caller' = caller
        /\ \E label \in {"getaddrinfo", "stop"} : owner' = [owner EXCEPT ![o] = label]
    BY <1>1 DEF Begin, OwnerClose, setupVars
  <2>2. \A p \in Object : caller[p] = caller[o] => ~Busy(p)
    BY <1>1 DEF Begin, OwnerClose, Turn
  <2> QED BY <2>1, <2>2 DEF TypeOK
<1>2. CASE Setup(o) \/ OwnerStop(o) \/ OwnerJoin(o)
  <2>1. /\ caller' = caller
        /\ owner[o] \in Constructing \cup Destroying
        /\ \A p \in Object : p # o => owner'[p] = owner[p]
    BY <1>2 DEF Setup, SetupAddresses, SetupSocket, SetupConnect, SetupEnds, SetupCreate,
                OwnerStop, OwnerJoin, setupVars, TypeOK
  <2> QED BY <2>1
<1>3. CASE Receive(o) \/ Send(o) \/ Timeout(o) \/ PeerStops(o) \/ PeerStopsReading(o)
  BY <1>3 DEF Receive, ReceiveLoop, ReceiveCall, ReceiveReturn, Send, SendBlocks,
              SendReturns, SendEnds, Timeout, PeerStops, PeerStopsReading, setupVars
<1> QED BY <1>1, <1>2, <1>3 DEF Step

\* Nothing but Clients opens descriptors.
LEMMA NextStandard ==
    ASSUME PInv, Standard, NEW o \in Object, Step(o)
    PROVE  Standard'
<1> USE ObjectAssumption DEF PInv, Standard, fdVars
<1>1. CASE SetupSocket(o)
  BY <1>1 DEF SetupSocket, TypeOK
<1>2. CASE SetupConnect(o)
  BY <1>2 DEF SetupConnect, AfterFailedConnect, TypeOK
<1>3. CASE OwnerClose(o)
  BY <1>3 DEF OwnerClose, TypeOK
<1>4. CASE UNCHANGED file
  BY <1>4
<1> QED
  BY <1>1, <1>2, <1>3, <1>4
  DEF Step, Setup, SetupAddresses, SetupEnds, SetupCreate, OwnerStop, OwnerJoin, Begin,
      Receive, ReceiveLoop, ReceiveCall, ReceiveReturn, Send, SendBlocks, SendReturns,
      SendEnds, Timeout, PeerStops, PeerStopsReading

\* The step of one Client leaves what the others hold alone.
LEMMA NextAccounted ==
    ASSUME PInv, ResourcesAccounted, NEW o \in Object, Step(o)
    PROVE  ResourcesAccounted'
<1> USE ObjectAssumption, SizeAssumption, FdFacts
    DEF PInv, ResourcesAccounted, Holds, Constructing, Destroying, Ended, Goto, setupVars,
        fdVars
<1>1. CASE SetupSocket(o)
  <2>1. CASE UNCHANGED <<owner, socketFd, file>>
    BY <1>1, <2>1 DEF SetupSocket, Placed
  <2>2. ASSUME NEW f \in Fd, file[f] = None, owner[o] = "socket",
               socketFd' = [socketFd EXCEPT ![o] = f], file' = [file EXCEPT ![f] = o],
               owner' = [owner EXCEPT ![o] = "connect"]
        PROVE  ResourcesAccounted'
    <3>1. socketFd[o] = NoFd /\ {g \in Fd : file[g] = o} = {}
      <4>1. socketFd[o] = NoFd
        BY <2>2 DEF Placed
      <4> QED BY <2>2, <4>1
    <3>2. {g \in Fd : file'[g] = o} = {f} /\ Holds(o)' = {f}
      BY <1>1, <2>2, <3>1 DEF SetupSocket, TypeOK
    <3>3. ASSUME NEW p \in Object, p # o
          PROVE  {g \in Fd : file'[g] = p} = Holds(p)'
      BY <1>1, <2>2, <3>3 DEF SetupSocket, TypeOK
    <3> QED BY <1>1, <2>2, <3>2, <3>3 DEF SetupSocket, TypeOK
  <2> QED BY <1>1, <2>1, <2>2 DEF SetupSocket, IsLowest, Free
<1>2. CASE SetupConnect(o)
  <2>1. socketFd[o] \in Fd /\ {g \in Fd : file[g] = o} = {socketFd[o]}
    BY <1>2 DEF SetupConnect, Placed, TypeOK
  <2>2. {g \in Fd : file'[g] = o} = Holds(o)'
    <3>1. CASE owner' = [owner EXCEPT ![o] = "free"]
      BY <1>2, <2>1, <3>1 DEF SetupConnect, TypeOK
    <3>2. CASE owner' = [owner EXCEPT ![o] = "socket"]
      <4>1. file' = [file EXCEPT ![socketFd[o]] = None]
        BY <1>2, <3>2 DEF SetupConnect, AfterFailedConnect, TypeOK
      <4>2. {g \in Fd : file'[g] = o} = {}
        BY <2>1, <4>1 DEF TypeOK
      <4> QED BY <1>2, <3>2, <4>2 DEF SetupConnect, TypeOK
    <3> QED BY <1>2, <3>1, <3>2 DEF SetupConnect
  <2>3. ASSUME NEW p \in Object, p # o
        PROVE  {g \in Fd : file'[g] = p} = Holds(p)'
    <3>1. \A g \in Fd : file'[g] = p <=> file[g] = p
      BY <1>2, <2>1, <2>3 DEF SetupConnect, AfterFailedConnect, TypeOK
    <3>2. Holds(p)' = Holds(p)
      BY <1>2, <2>3 DEF SetupConnect, TypeOK
    <3> QED BY <3>1, <3>2
  <2> QED BY <1>2, <2>2, <2>3 DEF SetupConnect, TypeOK
<1>3. CASE OwnerClose(o)
  <2>1. /\ socketFileDescriptor[o] = clientSocketFileDescriptor[o]
        /\ {g \in Fd : file[g] = o} = {clientSocketFileDescriptor[o]}
    BY <1>3 DEF OwnerClose, Placed, Alive, TypeOK
  <2>2. {g \in Fd : file'[g] = o} = Holds(o)'
    <3>1. CASE clientSocketFileDescriptor[o] = 0
      BY <1>3, <2>1, <3>1 DEF OwnerClose, Placed, TypeOK
    <3>2. CASE clientSocketFileDescriptor[o] # 0
      <4>1. file' = [file EXCEPT ![clientSocketFileDescriptor[o]] = None]
        BY <1>3, <3>2 DEF OwnerClose
      <4>2. {g \in Fd : file'[g] = o} = {}
        BY <2>1, <4>1 DEF TypeOK
      <4> QED BY <1>3, <2>1, <3>2, <4>2 DEF OwnerClose, Placed, TypeOK
    <3> QED BY <3>1, <3>2
  <2>3. ASSUME NEW p \in Object, p # o
        PROVE  {g \in Fd : file'[g] = p} = Holds(p)'
    <3>1. \A g \in Fd : file'[g] = p <=> file[g] = p
      BY <1>3, <2>1, <2>3 DEF OwnerClose, TypeOK
    <3>2. Holds(p)' = Holds(p)
      BY <1>3, <2>3 DEF OwnerClose, TypeOK
    <3> QED BY <3>1, <3>2
  <2> QED BY <1>3, <2>2, <2>3 DEF OwnerClose, TypeOK
<1>4. CASE SetupAddresses(o)
  BY <1>4 DEF SetupAddresses, Placed, TypeOK
<1>5. CASE SetupEnds(o)
  BY <1>5 DEF SetupEnds, Placed, TypeOK
<1>6. CASE SetupCreate(o)
  BY <1>6 DEF SetupCreate, Placed, TypeOK
<1>7. CASE Begin(o)
  BY <1>7 DEF Begin, Placed, TypeOK
<1>8. CASE OwnerStop(o) \/ OwnerJoin(o)
  BY <1>8 DEF OwnerStop, OwnerJoin, Placed, TypeOK
<1>9. CASE Receive(o) \/ Send(o) \/ Timeout(o) \/ PeerStops(o) \/ PeerStopsReading(o)
  BY <1>9 DEF Receive, ReceiveLoop, ReceiveCall, ReceiveReturn, Send, SendBlocks,
              SendReturns, SendEnds, Timeout, PeerStops, PeerStopsReading
<1> QED BY <1>1, <1>2, <1>3, <1>4, <1>5, <1>6, <1>7, <1>8, <1>9 DEF Step, Setup

\* While a Client is in use its descriptor is its own.
LEMMA ServingOwnsDescriptor ==
    ASSUME IInv, NEW o \in Object, owner[o] \in {"create", "serving"}
    PROVE  file[clientSocketFileDescriptor[o]] = o
<1>1. clientSocketFileDescriptor[o] \in Fd
  BY FdFacts DEF IInv, PInv, Placed, Alive
<1>2. clientSocketFileDescriptor[o] \in Holds(o)
  BY <1>1 DEF Holds
<1> QED BY <1>2 DEF IInv, ResourcesAccounted

\* What a Client's threads may get hold of.
Mine(o, p) ==
    p = o \/ p = None \/ (p \in Object /\ caller[p] # caller[o] /\ owner[o] \in Destroying)
Running(o) == receive[o] \notin {"none", "done"} \/ send[o] \notin {"none", "done"}

LEMMA OwnConnectionUnfolds ==
    OwnConnection <=>
        \A o \in Object : /\ Mine(o, reading[o]) /\ Mine(o, writing[o])
                          /\ Running(o) => Mine(o, file[socketFileDescriptor[o]])
BY DEF OwnConnection, Uses, Mine, Running

\* A number that a Client under construction takes may be one that another Client's
\* threads still use only when that Client is being deleted, on another thread.
LEMMA NextOwnConnection ==
    ASSUME IInv, NEW o \in Object, Step(o)
    PROVE  OwnConnection'
<1> USE ObjectAssumption, SizeAssumption, FdFacts
    DEF Goto, setupVars, threadVars, fdVars, peerVars
<1>a. TypeOK /\ \A q \in Object : Placed(q)
  BY DEF IInv, PInv
<1>b. \A q \in Object : /\ Mine(q, reading[q]) /\ Mine(q, writing[q])
                        /\ Running(q) => Mine(q, file[socketFileDescriptor[q]])
  BY OwnConnectionUnfolds DEF IInv
<1>c. ASSUME NEW q \in Object, Running(q)
      PROVE  /\ owner[q] \in {"serving"} \cup Destroying
             /\ socketFileDescriptor[q] \in Fd
  BY <1>a, <1>c DEF TypeOK, Placed, Running, Unborn, Alive, Ended
<1>d. SUFFICES ASSUME NEW q \in Object
               PROVE  /\ Mine(q, reading[q])' /\ Mine(q, writing[q])'
                      /\ Running(q)' => Mine(q, file[socketFileDescriptor[q]])'
  BY DEF OwnConnection, Uses, Mine, Running
<1>1. CASE SetupSocket(o)
  <2>1. Mine(q, reading[q])' /\ Mine(q, writing[q])'
    BY <1>1, <1>a, <1>b DEF SetupSocket, Mine, TypeOK, Placed, Unborn, Constructing, Destroying
  <2>2. ASSUME Running(q)'
        PROVE  Mine(q, file[socketFileDescriptor[q]])'
    <3>1. Running(q)
      BY <1>1, <2>2 DEF SetupSocket, Running
    <3>2. q # o
      BY <1>1, <1>a, <3>1 DEF SetupSocket, Placed, Unborn, Constructing, Running
    <3>3. CASE file'[socketFileDescriptor[q]] = file[socketFileDescriptor[q]]
      BY <1>1, <1>a, <1>b, <3>1, <3>2, <3>3 DEF SetupSocket, Mine, TypeOK
    <3>4. CASE file'[socketFileDescriptor[q]] # file[socketFileDescriptor[q]]
      <4>1. /\ file[socketFileDescriptor[q]] = None
            /\ file'[socketFileDescriptor[q]] = o
        BY <1>1, <1>a, <1>c, <3>1, <3>4 DEF SetupSocket, IsLowest, Free, TypeOK
      <4>2. owner[q] # "serving"
        BY <1>a, <4>1, ServingOwnsDescriptor DEF Placed, TypeOK
      <4>3. owner[q] \in Destroying /\ owner'[q] \in Destroying
        BY <1>1, <1>a, <1>c, <3>1, <3>2, <4>2 DEF SetupSocket, TypeOK
      <4>4. caller[o] # caller[q]
        BY <1>1, <3>2, <4>3 DEF SetupSocket, IInv, OneAtATime, Busy, Constructing
      <4> QED BY <1>1, <4>1, <4>3, <4>4 DEF SetupSocket, Mine
    <3> QED BY <3>3, <3>4
  <2> QED BY <2>1, <2>2
<1>2. CASE SetupConnect(o)
  <2>1. q = o => reading'[q] = None /\ writing'[q] = None /\ ~Running(q)'
    BY <1>2, <1>a DEF SetupConnect, Placed, Unborn, Constructing, Running
  <2>2. owner'[q] \in Destroying <=> owner[q] \in Destroying
    BY <1>2, <1>a DEF SetupConnect, TypeOK, Destroying
  <2>3. \A f \in Fd : file'[f] = file[f] \/ file'[f] = None
    BY <1>2, <1>a DEF SetupConnect, AfterFailedConnect, TypeOK
  <2> QED BY <1>2, <2>1, <2>2, <2>3, <1>b, <1>c DEF SetupConnect, Mine, Running
<1>3. CASE SetupCreate(o)
  BY <1>3, <1>a, <1>b, ServingOwnsDescriptor
  DEF SetupCreate, Mine, Running, TypeOK, Placed, Unborn, Constructing, Destroying
<1>4. CASE ReceiveCall(o)
  BY <1>4, <1>a, <1>b DEF ReceiveCall, To, Mine, Running, TypeOK
<1>5. CASE ReceiveLoop(o) \/ ReceiveReturn(o)
  BY <1>5, <1>a, <1>b
  DEF ReceiveLoop, ReceiveReturn, AfterBytes, AfterEnd, To, Mine, Running, TypeOK, Placed
<1>11. CASE Send(o)
  BY <1>11, <1>a, <1>b
  DEF Send, SendBlocks, SendReturns, SendEnds, Mine, Running, TypeOK, Placed
<1>6. CASE OwnerClose(o)
  <2>1. owner[q] \in Destroying => owner'[q] \in Destroying
    BY <1>6, <1>a DEF OwnerClose, TypeOK, Destroying
  <2>2. \A f \in Fd : file'[f] = file[f] \/ file'[f] = None
    BY <1>6, <1>a DEF OwnerClose, TypeOK
  <2> QED BY <1>6, <2>1, <2>2, <1>b, <1>c DEF OwnerClose, Mine, Running
<1>7. CASE OwnerStop(o)
  BY <1>7, <1>a, <1>b DEF OwnerStop, Mine, Running, TypeOK, Destroying
<1>8. CASE OwnerJoin(o)
  BY <1>8, <1>a, <1>b DEF OwnerJoin, Mine, Running, TypeOK, Placed, Destroying
<1>9. CASE Begin(o) \/ SetupAddresses(o) \/ SetupEnds(o)
  BY <1>9, <1>a, <1>b
  DEF Begin, SetupAddresses, SetupEnds, Mine, Running, TypeOK, Placed, Unborn, Constructing,
      Destroying
<1>10. CASE Timeout(o) \/ PeerStops(o) \/ PeerStopsReading(o)
  BY <1>10, <1>b DEF Timeout, PeerStops, PeerStopsReading, Mine, Running
<1> QED
  BY <1>1, <1>2, <1>3, <1>4, <1>5, <1>6, <1>7, <1>8, <1>9, <1>10, <1>11
  DEF Step, Setup, Receive

LEMMA NextIInv == IInv /\ [Next]_vars => IInv'
<1> SUFFICES ASSUME IInv, [Next]_vars PROVE IInv'
  OBVIOUS
<1>1. CASE Next
  <2>1. PICK o \in Object : Step(o)
    BY <1>1 DEF Next
  <2> QED
    BY <2>1, NextPlaces, NextOneAtATime, NextStandard, NextAccounted, NextOwnConnection DEF IInv
<1>2. CASE UNCHANGED vars
  BY <1>2
  DEF vars, setupVars, threadVars, fdVars, peerVars, IInv, PInv, TypeOK, Placed,
      OneAtATime, Busy, Standard, ResourcesAccounted, Holds, OwnConnection, Uses
<1> QED BY <1>1, <1>2

-----------------------------------------------------------------------------
\* Every variable keeps its type.
THEOREM TypeCorrect == Spec => []TypeOK
<1>1. IInv => TypeOK
  BY DEF IInv, PInv
<1> QED BY InitIInv, NextIInv, <1>1, PTL DEF Spec

\* Whatever fails and whenever Clients come and go, each socket and each address list is
\* some Client's, and no close hits another Client's socket.
THEOREM ResourcesAlwaysAccounted == Spec => []ResourcesAccounted
<1>1. IInv => ResourcesAccounted
  BY DEF IInv
<1> QED BY InitIInv, NextIInv, <1>1, PTL DEF Spec

\* What the threads of a Client being deleted get hold of is never a connection that
\* the thread deleting it has opened.
THEOREM OwnConnectionAlways == Spec => []OwnConnection
<1>1. IInv => OwnConnection
  BY DEF IInv
<1> QED BY InitIInv, NextIInv, <1>1, PTL DEF Spec
=============================================================================
