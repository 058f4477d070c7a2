---------------------------- MODULE Server_proofs ----------------------------
(***************************************************************************)
(* Proofs about Server, for any number of clients, addresses and           *)
(* descriptors.                                                            *)
(***************************************************************************)
EXTENDS Server, TLAPS, WellFoundedInduction

-----------------------------------------------------------------------------
\* The inductive invariant.

\* newClient is the client that the accept thread is busy with.
Busy == newClient # None <=> accepter \in {"construct", "push"}

\* The accept thread runs from the end of the constructor to the join.
Joined ==
    /\ owner \in Constructing \cup {"thrown"} <=> accepter = "none"
    /\ owner \in {"close", "destroy", "gone"} \cup Joining => accepter = "done"

\* A thread that runs belongs to an endpoint in the vector, or to the one that is
\* about to be put there.
Runs(c) == receive[c] = "running" \/ send[c] \in {"running", "blocked"}
Tracked ==
    /\ \A c \in Client : Runs(c) =>
           \/ \E i \in DOMAIN endpoints : endpoints[i] = c
           \/ accepter = "push" /\ newClient = c
    /\ owner \in Joining => endpoints # <<>>
    /\ owner = "joinSend" => receive[Head(endpoints)] = "done"
    /\ owner = "gone" => endpoints = <<>>

\* The constructor holds a new descriptor while it needs one.
SetupHolds ==
    /\ owner \in {"setsockopt", "bind", "listen"} =>
           socketFd \in Fd \ inherited /\ ~listening /\ candidate > 0
    /\ owner \in {"socket", "create", "serving", "gone"} \cup Destroying => socketFd = NoFd
    /\ owner = "socket" => ~listening

\* No two sockets share a descriptor.
Apart ==
    /\ listening =>
           /\ listenSocketFileDescriptor \in Fd \ inherited
           /\ \A c \in Client : clientFd[c] # listenSocketFileDescriptor
    /\ listening \/ owner \notin {"create", "serving", "join", "close"}

\* A client is connected once, waits once and is accepted once.
Once ==
    /\ \A c \in Client : peer[c] = "away" \/ c \in {backlog[i] : i \in DOMAIN backlog} =>
                             clientFd[c] = NoFd
    /\ \A i \in DOMAIN backlog : peer[backlog[i]] # "away"
    /\ \A i, j \in DOMAIN backlog : backlog[i] = backlog[j] => i = j
    /\ accepter = "none" => \A c \in Client : clientFd[c] = NoFd

TInv == TypeOK /\ Busy
CInv == TInv /\ Joined /\ Tracked
IInv == CInv /\ SetupHolds /\ Apart /\ Once /\ ResourcesAccounted

-----------------------------------------------------------------------------
\* socket and accept find a descriptor in a table that is not full.
LEMMA LowestIsFree ==
    ASSUME TypeOK, ~Full
    PROVE  Lowest \in Fd \ used
<1>1. Fd \ used # {} /\ Fd \ used \subseteq Nat
  <2>1. Fd \ used # {}
    BY DEF TypeOK, Full
  <2>2. Fd \subseteq Nat
    BY SizeAssumption DEF Fd
  <2> QED BY <2>1, <2>2
<1>2. \E f \in Fd \ used : \A g \in Fd \ used : ~(g < f)
  <2> DEFINE Less == OpToRel(<, Nat)
  <2>1. IsWellFoundedOn(Less, Nat)
    BY NatLessThanWellFounded, Zenon
  <2>2. \A x, y \in Nat : x < y => <<x, y>> \in Less
    BY Zenon DEF OpToRel
  <2> HIDE DEF Less
  <2>3. \E f \in Fd \ used : \A g \in Fd \ used : ~(<<g, f>> \in Less)
    BY <1>1, <2>1, WFMin, Zenon
  <2> QED BY <1>1, <2>2, <2>3
<1>3. \E f \in Fd \ used : \A g \in Fd \ used : f <= g
  BY <1>1, <1>2
<1> QED BY <1>3 DEF Lowest

\* What is left of a sequence without its head, and with one more element.
LEMMA TailFacts ==
    ASSUME NEW S, NEW q \in Seq(S), q # <<>>
    PROVE  /\ Tail(q) \in Seq(S) /\ Head(q) \in S /\ 1 \in DOMAIN q /\ Head(q) = q[1]
           /\ \A i \in DOMAIN Tail(q) :
                 i + 1 \in DOMAIN q /\ i + 1 # 1 /\ Tail(q)[i] = q[i + 1]
           /\ \A i \in DOMAIN q :
                 i = 1 \/ (i - 1 \in DOMAIN Tail(q) /\ Tail(q)[i - 1] = q[i])
           /\ \A i, j \in DOMAIN Tail(q) : i + 1 = j + 1 => i = j
<1>1. Len(q) \in Nat /\ Len(q) > 0 /\ DOMAIN q = 1..Len(q)
  OBVIOUS
<1>2. Len(Tail(q)) = Len(q) - 1 /\ DOMAIN Tail(q) = 1..(Len(q) - 1)
  BY <1>1
<1> QED BY <1>1, <1>2

LEMMA AppendFacts ==
    ASSUME NEW S, NEW q \in Seq(S), NEW x \in S
    PROVE  /\ Append(q, x) \in Seq(S) /\ Append(q, x) # <<>>
           /\ \A i \in DOMAIN q : i \in DOMAIN Append(q, x) /\ Append(q, x)[i] = q[i]
           /\ \E i \in DOMAIN Append(q, x) : Append(q, x)[i] = x
<1>1. Len(q) \in Nat /\ DOMAIN q = 1..Len(q)
  OBVIOUS
<1>2. DOMAIN Append(q, x) = 1..(Len(q) + 1) /\ Append(q, x)[Len(q) + 1] = x
  BY <1>1
<1> QED BY <1>1, <1>2

LEMMA FdFacts == NoFd \notin Fd /\ Fd \subseteq Nat
BY SizeAssumption DEF NoFd, Fd

-----------------------------------------------------------------------------
\* One lemma for each part of the code, one step for each action, and under it one for
\* each group of conjuncts.

LEMMA InitIInv == Init => IInv
<1> SUFFICES ASSUME Init PROVE IInv
  OBVIOUS
<1>1. TypeOK
  <2>1. backlog \in Seq(Client) /\ endpoints \in Seq(Client)
    BY DEF Init
  <2>2. Fd \subseteq Fd \cup {NoFd} /\ candidate \in 0..Candidates
    BY DEF Init
  <2> QED BY <2>1, <2>2 DEF Init, TypeOK, Constructing
<1>2. Busy /\ Joined /\ Tracked
  BY DEF Init, Busy, Joined, Joining, Runs, Tracked, Constructing
<1>3. SetupHolds /\ Apart /\ Once
  BY DEF Init, SetupHolds, Apart, Once, Destroying
<1>4. ResourcesAccounted
  BY DEF Init, ResourcesAccounted, DescriptorsAccounted, ListAccounted
<1> QED BY <1>1, <1>2, <1>3, <1>4 DEF IInv, CInv, TInv

LEMMA SetupKeeps ==
    ASSUME IInv, Setup
    PROVE  IInv'
<1> USE ClientAssumption, FdFacts
    DEF Busy, Joined, Joining, Runs, Tracked, SetupHolds, Apart, Once, Constructing,
        Destroying, ResourcesAccounted, ListAccounted, setupVars, acceptVars,
        endpointVars
<1>0. /\ TypeOK /\ Busy /\ Joined /\ Tracked
      /\ SetupHolds /\ Apart /\ Once /\ ResourcesAccounted
  BY DEF IInv, CInv, TInv
<1>1. CASE SetupFails
  <2>1. TypeOK'
    BY <1>0, <1>1 DEF SetupFails, TypeOK
  <2>2. Busy' /\ Joined' /\ Tracked'
    BY <1>0, <1>1 DEF SetupFails, TypeOK
  <2>3. SetupHolds' /\ Apart' /\ Once'
    BY <1>0, <1>1 DEF SetupFails, TypeOK, DescriptorsAccounted
  <2>4. ResourcesAccounted'
    BY <1>0, <1>1 DEF SetupFails, TypeOK, DescriptorsAccounted
  <2> QED BY <2>1, <2>2, <2>3, <2>4 DEF IInv, CInv, TInv
<1>2. CASE SetupSocket
  <2>1. TypeOK'
    <3>1. candidate - 1 \in 0..Candidates
      BY <1>0, <1>2, SizeAssumption DEF SetupSocket, SomeLeft, TypeOK
    <3>2. used' \subseteq Fd /\ inherited \subseteq used' /\ socketFd' \in Fd \cup {NoFd}
      BY <1>0, <1>2, LowestIsFree DEF SetupSocket, TypeOK
    <3> QED BY <1>0, <1>2, <3>1, <3>2, Zenon DEF SetupSocket, TypeOK
  <2>2. Busy' /\ Joined' /\ Tracked'
    BY <1>0, <1>2, LowestIsFree DEF SetupSocket, SomeLeft, TypeOK
  <2>3. SetupHolds' /\ Apart' /\ Once'
    BY <1>0, <1>2, LowestIsFree DEF SetupSocket, SomeLeft, TypeOK, DescriptorsAccounted
  <2>4. ResourcesAccounted'
    BY <1>0, <1>2, LowestIsFree DEF SetupSocket, SomeLeft, TypeOK, DescriptorsAccounted
  <2> QED BY <2>1, <2>2, <2>3, <2>4 DEF IInv, CInv, TInv
<1>3. CASE SetupOption
  <2>1. TypeOK'
    BY <1>0, <1>3 DEF SetupOption, TypeOK
  <2>2. Busy' /\ Joined' /\ Tracked'
    BY <1>0, <1>3 DEF SetupOption, TypeOK
  <2>3. SetupHolds' /\ Apart' /\ Once'
    BY <1>0, <1>3 DEF SetupOption, TypeOK, DescriptorsAccounted
  <2>4. ResourcesAccounted'
    BY <1>0, <1>3 DEF SetupOption, TypeOK, DescriptorsAccounted
  <2> QED BY <2>1, <2>2, <2>3, <2>4 DEF IInv, CInv, TInv
<1>4. CASE SetupBind
  <2>1. TypeOK'
    <3>1. candidate - 1 \in 0..Candidates
      BY <1>0, <1>4, SizeAssumption DEF SetupBind, TypeOK
    <3>2. used' \subseteq Fd /\ inherited \subseteq used'
      BY <1>0, <1>4 DEF SetupBind, AfterFailedBind, TypeOK
    <3> QED BY <1>0, <1>4, <3>1, <3>2 DEF SetupBind, TypeOK
  <2>2. Busy' /\ Joined' /\ Tracked'
    BY <1>0, <1>4 DEF SetupBind, AfterFailedBind, TypeOK
  <2>3. SetupHolds' /\ Apart' /\ Once'
    BY <1>0, <1>4 DEF SetupBind, AfterFailedBind, TypeOK, DescriptorsAccounted
  <2>4. ResourcesAccounted'
    BY <1>0, <1>4 DEF SetupBind, AfterFailedBind, TypeOK, DescriptorsAccounted
  <2> QED BY <2>1, <2>2, <2>3, <2>4 DEF IInv, CInv, TInv
<1>5. CASE SetupListen
  <2>1. TypeOK'
    <3>1. 0 \in 0..Candidates
      BY SizeAssumption
    <3>2. used' \subseteq Fd /\ inherited \subseteq used'
      BY <1>0, <1>5 DEF SetupListen, TypeOK
    <3> QED BY <1>0, <1>5, <3>1, <3>2 DEF SetupListen, TypeOK
  <2>2. Busy' /\ Joined' /\ Tracked'
    BY <1>0, <1>5 DEF SetupListen, TypeOK
  <2>3. SetupHolds' /\ Apart' /\ Once'
    BY <1>0, <1>5 DEF SetupListen, TypeOK, DescriptorsAccounted
  <2>4. ResourcesAccounted'
    BY <1>0, <1>5 DEF SetupListen, TypeOK, DescriptorsAccounted
  <2> QED BY <2>1, <2>2, <2>3, <2>4 DEF IInv, CInv, TInv
<1>6. CASE SetupCreate
  <2>1. TypeOK'
    BY <1>0, <1>6 DEF SetupCreate, TypeOK
  <2>2. Busy' /\ Joined' /\ Tracked'
    BY <1>0, <1>6 DEF SetupCreate, TypeOK
  <2>3. SetupHolds' /\ Apart' /\ Once'
    BY <1>0, <1>6 DEF SetupCreate, TypeOK, DescriptorsAccounted
  <2>4. ResourcesAccounted'
    BY <1>0, <1>6 DEF SetupCreate, TypeOK, DescriptorsAccounted
  <2> QED BY <2>1, <2>2, <2>3, <2>4 DEF IInv, CInv, TInv
<1> QED BY <1>1, <1>2, <1>3, <1>4, <1>5, <1>6 DEF Setup

LEMMA AcceptKeeps ==
    ASSUME IInv, acceptLoop
    PROVE  IInv'
<1> USE ClientAssumption, FdFacts
    DEF Busy, Joined, Joining, Runs, Tracked, SetupHolds, Apart, Once, Constructing,
        Destroying, ResourcesAccounted, ListAccounted, setupVars, acceptVars,
        endpointVars
<1>0. /\ TypeOK /\ Busy /\ Joined /\ Tracked
      /\ SetupHolds /\ Apart /\ Once /\ ResourcesAccounted
  BY DEF IInv, CInv, TInv
<1>1. CASE AcceptLoop
  <2>1. TypeOK'
    BY <1>0, <1>1 DEF AcceptLoop, TypeOK
  <2>2. Busy' /\ Joined' /\ Tracked'
    BY <1>0, <1>1 DEF AcceptLoop, TypeOK
  <2>3. SetupHolds' /\ Apart' /\ Once'
    BY <1>0, <1>1 DEF AcceptLoop, TypeOK, DescriptorsAccounted
  <2>4. ResourcesAccounted'
    BY <1>0, <1>1 DEF AcceptLoop, TypeOK, DescriptorsAccounted
  <2> QED BY <2>1, <2>2, <2>3, <2>4 DEF IInv, CInv, TInv
<1>2. CASE Accept
  <2>1. TypeOK'
    <3>1. Tail(backlog) \in Seq(Client) /\ Head(backlog) \in Client
      BY <1>0, <1>2, TailFacts DEF Accept, TypeOK
    <3>2. Lowest \in Fd \ used
      BY <1>0, <1>2, LowestIsFree DEF Accept
    <3>3. /\ used' \subseteq Fd /\ inherited \subseteq used'
          /\ clientFd' \in [Client -> Fd \cup {NoFd}]
      BY <1>0, <1>2, <3>1, <3>2 DEF Accept, TypeOK
    <3> QED BY <1>0, <1>2, <3>1, <3>3 DEF Accept, TypeOK
  <2>2. Busy' /\ Joined' /\ Tracked'
    BY <1>0, <1>2, LowestIsFree DEF Accept, TypeOK
  <2>3. SetupHolds' /\ Apart' /\ Once'
    <3> DEFINE c == Head(backlog)
    <3>1. c \in Client /\ 1 \in DOMAIN backlog /\ c = backlog[1]
      BY <1>0, <1>2, TailFacts DEF Accept, TypeOK
    <3>2. Lowest \in Fd \ used
      BY <1>0, <1>2, LowestIsFree DEF Accept
    <3>3. \A i \in DOMAIN backlog' :
              i + 1 \in DOMAIN backlog /\ i + 1 # 1 /\ backlog'[i] = backlog[i + 1]
      BY <1>0, <1>2, TailFacts DEF Accept, TypeOK
    <3>4. \A i, j \in DOMAIN backlog' : i + 1 = j + 1 => i = j
      BY <1>0, <1>2, TailFacts DEF Accept, TypeOK
    <3>5. clientFd' = [clientFd EXCEPT ![c] = Lowest]
      BY <1>2 DEF Accept
    <3>6. SetupHolds' /\ Apart'
      BY <1>0, <1>2, <3>1, <3>2, <3>5 DEF Accept, TypeOK, DescriptorsAccounted
    <3>7. \A i \in DOMAIN backlog' : backlog'[i] # c
      BY <1>0, <3>1, <3>3
    <3>8. peer[c] # "away"
      BY <1>0, <3>1
    <3>9. Once'
      <4>1. \A d \in Client :
                peer[d] = "away" \/ d \in {backlog'[i] : i \in DOMAIN backlog'} =>
                    clientFd'[d] = NoFd
        <5> SUFFICES ASSUME NEW d \in Client,
                            peer[d] = "away" \/ d \in {backlog'[i] : i \in DOMAIN backlog'}
                     PROVE  clientFd'[d] = NoFd
          OBVIOUS
        <5>1. d # c
          BY <3>7, <3>8
        <5>2. clientFd[d] = NoFd
          BY <1>0, <3>3
        <5> QED BY <1>0, <3>5, <5>1, <5>2 DEF TypeOK
      <4>2. \A i \in DOMAIN backlog' : peer[backlog'[i]] # "away"
        BY <1>0, <3>3
      <4>3. \A i, j \in DOMAIN backlog' : backlog'[i] = backlog'[j] => i = j
        BY <1>0, <3>3, <3>4
      <4> QED BY <1>2, <4>1, <4>2, <4>3 DEF Accept
    <3> QED BY <3>6, <3>9
  <2>4. ResourcesAccounted'
    BY <1>0, <1>2, LowestIsFree DEF Accept, TypeOK, DescriptorsAccounted
  <2> QED BY <2>1, <2>2, <2>3, <2>4 DEF IInv, CInv, TInv
<1>3. CASE AcceptFails
  <2>1. TypeOK'
    BY <1>0, <1>3 DEF AcceptFails, TypeOK
  <2>2. Busy' /\ Joined' /\ Tracked'
    BY <1>0, <1>3 DEF AcceptFails, TypeOK
  <2>3. SetupHolds' /\ Apart' /\ Once'
    BY <1>0, <1>3 DEF AcceptFails, TypeOK, DescriptorsAccounted
  <2>4. ResourcesAccounted'
    BY <1>0, <1>3 DEF AcceptFails, TypeOK, DescriptorsAccounted
  <2> QED BY <2>1, <2>2, <2>3, <2>4 DEF IInv, CInv, TInv
<1>4. CASE AcceptConstruct
  <2>1. TypeOK'
    BY <1>0, <1>4 DEF AcceptConstruct, TypeOK
  <2>2. Busy' /\ Joined' /\ Tracked'
    BY <1>0, <1>4 DEF AcceptConstruct, TypeOK
  <2>3. SetupHolds' /\ Apart' /\ Once'
    BY <1>0, <1>4 DEF AcceptConstruct, TypeOK, DescriptorsAccounted
  <2>4. ResourcesAccounted'
    BY <1>0, <1>4 DEF AcceptConstruct, TypeOK, DescriptorsAccounted
  <2> QED BY <2>1, <2>2, <2>3, <2>4 DEF IInv, CInv, TInv
<1>5. CASE AcceptPush
  <2>1. TypeOK'
    BY <1>0, <1>5 DEF AcceptPush, AfterPush, TypeOK
  <2>2. Busy' /\ Joined' /\ Tracked'
    <3>1. newClient \in Client
      BY <1>0, <1>5 DEF AcceptPush, TypeOK
    <3>2. /\ \A i \in DOMAIN endpoints :
                i \in DOMAIN endpoints' /\ endpoints'[i] = endpoints[i]
          /\ \E i \in DOMAIN endpoints' : endpoints'[i] = newClient
          /\ endpoints' # <<>>
      <4>1. endpoints \in Seq(Client) /\ endpoints' = Append(endpoints, newClient)
        BY <1>0, <1>5 DEF AcceptPush, TypeOK
      <4> DEFINE longer == Append(endpoints, newClient)
      <4>2. /\ longer # <<>>
            /\ \A i \in DOMAIN endpoints : i \in DOMAIN longer /\ longer[i] = endpoints[i]
            /\ \E i \in DOMAIN longer : longer[i] = newClient
        BY <3>1, <4>1, AppendFacts
      <4>3. endpoints' = longer
        BY <4>1
      <4> HIDE DEF longer
      <4> QED BY <4>2, <4>3
    <3>3. Busy' /\ Joined'
      BY <1>0, <1>5 DEF AcceptPush, AfterPush
    <3>4. Tracked'
      BY <1>0, <1>5, <3>1, <3>2 DEF AcceptPush, TypeOK
    <3> QED BY <3>3, <3>4
  <2>3. SetupHolds' /\ Apart' /\ Once'
    BY <1>0, <1>5 DEF AcceptPush, AfterPush, TypeOK, DescriptorsAccounted
  <2>4. ResourcesAccounted'
    BY <1>0, <1>5 DEF AcceptPush, AfterPush, TypeOK, DescriptorsAccounted
  <2> QED BY <2>1, <2>2, <2>3, <2>4 DEF IInv, CInv, TInv
<1> QED BY <1>1, <1>2, <1>3, <1>4, <1>5 DEF acceptLoop

LEMMA DestructorKeeps ==
    ASSUME IInv, Destructor
    PROVE  IInv'
<1> USE ClientAssumption, FdFacts
    DEF Busy, Joined, Joining, Runs, Tracked, SetupHolds, Apart, Once, Constructing,
        Destroying, ResourcesAccounted, ListAccounted, setupVars, acceptVars,
        endpointVars
<1>0. /\ TypeOK /\ Busy /\ Joined /\ Tracked
      /\ SetupHolds /\ Apart /\ Once /\ ResourcesAccounted
  BY DEF IInv, CInv, TInv
<1>1. CASE OwnerJoin
  <2>1. TypeOK'
    BY <1>0, <1>1 DEF OwnerJoin, TypeOK
  <2>2. Busy' /\ Joined' /\ Tracked'
    BY <1>0, <1>1 DEF OwnerJoin, TypeOK
  <2>3. SetupHolds' /\ Apart' /\ Once'
    BY <1>0, <1>1 DEF OwnerJoin, TypeOK, DescriptorsAccounted
  <2>4. ResourcesAccounted'
    BY <1>0, <1>1 DEF OwnerJoin, TypeOK, DescriptorsAccounted
  <2> QED BY <2>1, <2>2, <2>3, <2>4 DEF IInv, CInv, TInv
<1>2. CASE OwnerClose
  <2>1. TypeOK'
    <3>1. listening /\ listenSocketFileDescriptor \in Fd \ inherited
      BY <1>0, <1>2 DEF OwnerClose
    <3>2. used' \subseteq Fd /\ inherited \subseteq used'
      BY <1>0, <1>2, <3>1 DEF OwnerClose, TypeOK
    <3>3. backlog' \in Seq(Client)
      <4>1. <<>> \in Seq(Client) /\ backlog \in Seq(Client)
        BY <1>0 DEF TypeOK
      <4> QED BY <1>2, <4>1 DEF OwnerClose
    <3> QED BY <1>0, <1>2, <3>2, <3>3 DEF OwnerClose, TypeOK
  <2>2. Busy' /\ Joined' /\ Tracked'
    BY <1>0, <1>2 DEF OwnerClose, TypeOK
  <2>3. SetupHolds' /\ Apart' /\ Once'
    <3>1. /\ DOMAIN backlog' \subseteq DOMAIN backlog
          /\ \A i \in DOMAIN backlog' : backlog'[i] = backlog[i]
      BY <1>2 DEF OwnerClose
    <3>2. SetupHolds' /\ Apart'
      BY <1>0, <1>2 DEF OwnerClose, TypeOK
    <3>3. Once'
      BY <1>0, <1>2, <3>1 DEF OwnerClose, TypeOK
    <3> QED BY <3>2, <3>3
  <2>4. ResourcesAccounted'
    <3>1. listening /\ listenSocketFileDescriptor \in Fd \ inherited
      BY <1>0, <1>2 DEF OwnerClose
    <3>2. socketFd = NoFd
      BY <1>0, <1>2 DEF OwnerClose
    <3>3. CASE listenSocketFileDescriptor # 0
      BY <1>0, <1>2, <3>1, <3>2, <3>3 DEF OwnerClose, TypeOK, DescriptorsAccounted
    <3>4. CASE listenSocketFileDescriptor = 0
      BY <1>0, <1>2, <3>4 DEF OwnerClose, TypeOK, DescriptorsAccounted
    <3> QED BY <3>3, <3>4
  <2> QED BY <2>1, <2>2, <2>3, <2>4 DEF IInv, CInv, TInv
<1>3. CASE OwnerDestroy
  <2>1. TypeOK'
    BY <1>0, <1>3 DEF OwnerDestroy, TypeOK
  <2>2. Busy' /\ Joined' /\ Tracked'
    BY <1>0, <1>3 DEF OwnerDestroy, TypeOK
  <2>3. SetupHolds' /\ Apart' /\ Once'
    BY <1>0, <1>3 DEF OwnerDestroy, TypeOK, DescriptorsAccounted
  <2>4. ResourcesAccounted'
    BY <1>0, <1>3 DEF OwnerDestroy, TypeOK, DescriptorsAccounted
  <2> QED BY <2>1, <2>2, <2>3, <2>4 DEF IInv, CInv, TInv
<1>4. CASE OwnerJoinReceive
  <2>1. TypeOK'
    BY <1>0, <1>4 DEF OwnerJoinReceive, TypeOK
  <2>2. Busy' /\ Joined' /\ Tracked'
    BY <1>0, <1>4 DEF OwnerJoinReceive, TypeOK
  <2>3. SetupHolds' /\ Apart' /\ Once'
    BY <1>0, <1>4 DEF OwnerJoinReceive, TypeOK, DescriptorsAccounted
  <2>4. ResourcesAccounted'
    BY <1>0, <1>4 DEF OwnerJoinReceive, TypeOK, DescriptorsAccounted
  <2> QED BY <2>1, <2>2, <2>3, <2>4 DEF IInv, CInv, TInv
<1>5. CASE OwnerJoinSend
  <2>1. TypeOK'
    BY <1>0, <1>5 DEF OwnerJoinSend, TypeOK
  <2>2. Busy' /\ Joined' /\ Tracked'
    <3>1. /\ Head(endpoints) = endpoints[1]
          /\ \A i \in DOMAIN endpoints :
                i = 1 \/ (i - 1 \in DOMAIN endpoints' /\ endpoints'[i - 1] = endpoints[i])
      BY <1>0, <1>5, TailFacts DEF OwnerJoinSend, TypeOK
    <3>2. Busy' /\ Joined'
      BY <1>0, <1>5 DEF OwnerJoinSend
    <3>3. \A c \in Client : Runs(c) =>
              \E i \in DOMAIN endpoints' : endpoints'[i] = c
      <4> SUFFICES ASSUME NEW c \in Client, Runs(c)
                   PROVE  \E i \in DOMAIN endpoints' : endpoints'[i] = c
        OBVIOUS
      <4>1. accepter = "done"
        BY <1>0, <1>5 DEF OwnerJoinSend
      <4>2. PICK i \in DOMAIN endpoints : endpoints[i] = c
        BY <1>0, <4>1
      <4>3. i # 1
        BY <1>0, <1>5, <3>1, <4>2 DEF OwnerJoinSend
      <4> QED BY <3>1, <4>2, <4>3
    <3>4. Tracked'
      BY <1>5, <3>3 DEF OwnerJoinSend
    <3> QED BY <3>2, <3>4
  <2>3. SetupHolds' /\ Apart' /\ Once'
    BY <1>0, <1>5 DEF OwnerJoinSend, TypeOK, DescriptorsAccounted
  <2>4. ResourcesAccounted'
    BY <1>0, <1>5 DEF OwnerJoinSend, TypeOK, DescriptorsAccounted
  <2> QED BY <2>1, <2>2, <2>3, <2>4 DEF IInv, CInv, TInv
<1>6. CASE OwnerGone
  <2>1. TypeOK'
    BY <1>0, <1>6 DEF OwnerGone, TypeOK
  <2>2. Busy' /\ Joined' /\ Tracked'
    BY <1>0, <1>6 DEF OwnerGone, TypeOK
  <2>3. SetupHolds' /\ Apart' /\ Once'
    BY <1>0, <1>6 DEF OwnerGone, TypeOK, DescriptorsAccounted
  <2>4. ResourcesAccounted'
    BY <1>0, <1>6 DEF OwnerGone, TypeOK, DescriptorsAccounted
  <2> QED BY <2>1, <2>2, <2>3, <2>4 DEF IInv, CInv, TInv
<1> QED BY <1>1, <1>2, <1>3, <1>4, <1>5, <1>6 DEF Destructor

LEMMA StopKeeps ==
    ASSUME IInv, OwnerStop
    PROVE  IInv'
<1> USE ClientAssumption, FdFacts
    DEF Busy, Joined, Joining, Runs, Tracked, SetupHolds, Apart, Once, Constructing,
        Destroying, ResourcesAccounted, ListAccounted, setupVars, acceptVars,
        endpointVars
<1>0. /\ TypeOK /\ Busy /\ Joined /\ Tracked
      /\ SetupHolds /\ Apart /\ Once /\ ResourcesAccounted
  BY DEF IInv, CInv, TInv
<1>1. TypeOK'
  BY <1>0 DEF OwnerStop, Stopped, TypeOK
<1>2. Busy' /\ Joined' /\ Tracked'
  BY <1>0 DEF OwnerStop, Stopped, TypeOK
<1>3. SetupHolds' /\ Apart' /\ Once'
  BY <1>0 DEF OwnerStop, Stopped, TypeOK
<1>4. ResourcesAccounted'
  BY <1>0 DEF OwnerStop, Stopped, TypeOK, DescriptorsAccounted
<1> QED BY <1>1, <1>2, <1>3, <1>4 DEF IInv, CInv, TInv

LEMMA ClientKeeps ==
    ASSUME IInv, NEW c \in Client,
           ReceiveEnds(c) \/ Send(c) \/ Timeout(c) \/ ClientStep(c)
    PROVE  IInv'
<1> USE ClientAssumption, FdFacts
    DEF Busy, Joined, Joining, Runs, Tracked, SetupHolds, Apart, Once, Constructing,
        Destroying, ResourcesAccounted, ListAccounted, setupVars, acceptVars,
        endpointVars
<1>0. /\ TypeOK /\ Busy /\ Joined /\ Tracked
      /\ SetupHolds /\ Apart /\ Once /\ ResourcesAccounted
  BY DEF IInv, CInv, TInv
<1>1. CASE ReceiveEnds(c)
  <2>1. TypeOK'
    BY <1>0, <1>1 DEF ReceiveEnds, TypeOK
  <2>2. Busy' /\ Joined' /\ Tracked'
    BY <1>0, <1>1 DEF ReceiveEnds, TypeOK
  <2>3. SetupHolds' /\ Apart' /\ Once'
    BY <1>0, <1>1 DEF ReceiveEnds, TypeOK
  <2>4. ResourcesAccounted'
    BY <1>0, <1>1 DEF ReceiveEnds, TypeOK, DescriptorsAccounted
  <2> QED BY <2>1, <2>2, <2>3, <2>4 DEF IInv, CInv, TInv
<1>2. CASE Timeout(c)
  <2>1. TypeOK'
    BY <1>0, <1>2 DEF Timeout, TypeOK
  <2>2. Busy' /\ Joined' /\ Tracked'
    BY <1>0, <1>2 DEF Timeout, TypeOK
  <2>3. SetupHolds' /\ Apart' /\ Once'
    BY <1>0, <1>2 DEF Timeout, TypeOK
  <2>4. ResourcesAccounted'
    BY <1>0, <1>2 DEF Timeout, TypeOK, DescriptorsAccounted
  <2> QED BY <2>1, <2>2, <2>3, <2>4 DEF IInv, CInv, TInv
<1>3. CASE Connect(c)
  <2>1. TypeOK'
    BY <1>0, <1>3 DEF Connect, TypeOK
  <2>2. Busy' /\ Joined' /\ Tracked'
    BY <1>0, <1>3 DEF Connect, TypeOK
  <2>3. SetupHolds' /\ Apart' /\ Once'
    BY <1>0, <1>3 DEF Connect, TypeOK
  <2>4. ResourcesAccounted'
    BY <1>0, <1>3 DEF Connect, TypeOK, DescriptorsAccounted
  <2> QED BY <2>1, <2>2, <2>3, <2>4 DEF IInv, CInv, TInv
<1>4. CASE ClientStops(c)
  <2>1. TypeOK'
    <3>1. /\ peer' \in [Client -> {"away", "talking", "silent", "closed"}]
          /\ reads' \in [Client -> BOOLEAN]
      <4>1. /\ \/ peer' = [peer EXCEPT ![c] = "silent"]
               \/ peer' = [peer EXCEPT ![c] = "closed"]
            /\ reads' = reads \/ reads' = [reads EXCEPT ![c] = TRUE]
        BY <1>4 DEF ClientStops
      <4>2. /\ peer \in [Client -> {"away", "talking", "silent", "closed"}]
            /\ reads \in [Client -> BOOLEAN]
        BY <1>0 DEF TypeOK
      <4>3. peer' \in [Client -> {"away", "talking", "silent", "closed"}]
        BY <4>1, <4>2
      <4>4. reads' \in [Client -> BOOLEAN]
        BY <4>1, <4>2
      <4> QED BY <4>3, <4>4
    <3> QED BY <1>0, <1>4, <3>1 DEF ClientStops, TypeOK
  <2>2. Busy' /\ Joined' /\ Tracked'
    BY <1>0, <1>4 DEF ClientStops, TypeOK
  <2>3. SetupHolds' /\ Apart' /\ Once'
    BY <1>0, <1>4 DEF ClientStops, TypeOK
  <2>4. ResourcesAccounted'
    BY <1>0, <1>4 DEF ClientStops, TypeOK, DescriptorsAccounted
  <2> QED BY <2>1, <2>2, <2>3, <2>4 DEF IInv, CInv, TInv
<1>5. CASE ClientReads(c)
  <2>1. TypeOK'
    BY <1>0, <1>5 DEF ClientReads, TypeOK
  <2>2. Busy' /\ Joined' /\ Tracked'
    BY <1>0, <1>5 DEF ClientReads, TypeOK
  <2>3. SetupHolds' /\ Apart' /\ Once'
    BY <1>0, <1>5 DEF ClientReads, TypeOK
  <2>4. ResourcesAccounted'
    BY <1>0, <1>5 DEF ClientReads, TypeOK, DescriptorsAccounted
  <2> QED BY <2>1, <2>2, <2>3, <2>4 DEF IInv, CInv, TInv
<1>6. CASE SendBlocks(c)
  <2>1. TypeOK'
    BY <1>0, <1>6 DEF SendBlocks, TypeOK
  <2>2. Busy' /\ Joined' /\ Tracked'
    BY <1>0, <1>6 DEF SendBlocks, TypeOK
  <2>3. SetupHolds' /\ Apart' /\ Once'
    BY <1>0, <1>6 DEF SendBlocks, TypeOK
  <2>4. ResourcesAccounted'
    BY <1>0, <1>6 DEF SendBlocks, TypeOK, DescriptorsAccounted
  <2> QED BY <2>1, <2>2, <2>3, <2>4 DEF IInv, CInv, TInv
<1>7. CASE SendReturns(c)
  <2>1. TypeOK'
    BY <1>0, <1>7 DEF SendReturns, TypeOK
  <2>2. Busy' /\ Joined' /\ Tracked'
    BY <1>0, <1>7 DEF SendReturns, TypeOK
  <2>3. SetupHolds' /\ Apart' /\ Once'
    BY <1>0, <1>7 DEF SendReturns, TypeOK
  <2>4. ResourcesAccounted'
    BY <1>0, <1>7 DEF SendReturns, TypeOK, DescriptorsAccounted
  <2> QED BY <2>1, <2>2, <2>3, <2>4 DEF IInv, CInv, TInv
<1>8. CASE SendEnds(c)
  <2>1. TypeOK'
    BY <1>0, <1>8 DEF SendEnds, TypeOK
  <2>2. Busy' /\ Joined' /\ Tracked'
    BY <1>0, <1>8 DEF SendEnds, TypeOK
  <2>3. SetupHolds' /\ Apart' /\ Once'
    BY <1>0, <1>8 DEF SendEnds, TypeOK
  <2>4. ResourcesAccounted'
    BY <1>0, <1>8 DEF SendEnds, TypeOK, DescriptorsAccounted
  <2> QED BY <2>1, <2>2, <2>3, <2>4 DEF IInv, CInv, TInv
<1> QED
  BY <1>1, <1>2, <1>3, <1>4, <1>5, <1>6, <1>7, <1>8 DEF ClientStep, Send

LEMMA NextIInv == IInv /\ [Next]_vars => IInv'
<1> SUFFICES ASSUME IInv, [Next]_vars PROVE IInv'
  OBVIOUS
<1>1. CASE UNCHANGED vars
  BY <1>1
  DEF vars, setupVars, acceptVars, endpointVars, IInv, CInv, TInv, TypeOK, Busy, Joined,
      Runs, Tracked, SetupHolds, Apart, Once, ResourcesAccounted, DescriptorsAccounted,
      ListAccounted
<1> QED
  BY <1>1, SetupKeeps, AcceptKeeps, StopKeeps, DestructorKeeps, ClientKeeps DEF Next

LEMMA Invariant == Spec => []IInv
BY InitIInv, NextIInv, PTL DEF Spec

-----------------------------------------------------------------------------
\* Every variable keeps its type, whichever of its system calls fail: the walk over
\* the addresses (OcpServer.cxx:75-118) ends, and every descriptor in use is one
\* the table has.
THEOREM TypeCorrect == Spec => []TypeOK
<1>1. IInv => TypeOK
  BY DEF IInv, CInv, TInv
<1> QED BY Invariant, <1>1, PTL

\* Whatever fails in the constructor (75-126) and whenever the Server is deleted
\* (182-191), every descriptor in use is one of those DescriptorsAccounted names:
\* nothing else is leaked, and no descriptor is closed that is someone else's.  The
\* list of addresses is freed but for the one way out at 105-110.
THEOREM ResourcesAlwaysAccounted == Spec => []ResourcesAccounted
<1>1. IInv => ResourcesAccounted
  BY DEF IInv
<1> QED BY Invariant, <1>1, PTL

\* The vector of endpoints is never appended to and destroyed at once, and of each
\* endpoint's threads the two that its destructor joins do not outlive ~Server
\* (OcpServer.cxx:148-191, OcpConnectionEndpoint.cxx:310-311), for any number of
\* clients.
THEOREM EndIsClean == Spec => []CleanEnd
<1>1. IInv => CleanEnd
  <2> SUFFICES ASSUME IInv PROVE CleanEnd
    OBVIOUS
  <2>1. TypeOK /\ Busy /\ Joined /\ Tracked
    BY DEF IInv, CInv, TInv
  <2>2. owner \in {"close", "destroy", "gone"} \cup Joining =>
            accepter = "done" /\ newClient = None
    BY <2>1 DEF Busy, Joined
  <2>3. owner = "gone" =>
            \A c \in Client : {receive[c], send[c]} \subseteq {"none", "done"}
    BY <2>1, <2>2 DEF Tracked, Runs, TypeOK
  <2> QED BY <2>2, <2>3 DEF CleanEnd
<1> QED BY Invariant, <1>1, PTL
=============================================================================
