--------------------------- MODULE Connection_proofs ---------------------------
(***************************************************************************)
(* Proofs about Connection: each direction of a connection of two liboca   *)
(* endpoints implements Pipe, for any number of connections, any period,   *)
(* any buffer and any length of the queues.                                *)
(***************************************************************************)
EXTENDS Connection, KeepAlive_proofs

-----------------------------------------------------------------------------
\* Messages in a row.

LEMMA Associates == \A s, t, u \in Seq(Nat) : (s \o t) \o u = s \o (t \o u)
BY ConcatAssociative, SMTT(30)

LEMMA Positions ==
    /\ \A n \in Nat : \A i \in 1..(12 * n) : MessageOf(i) \in 1..n /\ ByteOf(i) \in 1..12
    /\ \A n \in Nat : \A j \in 1..12 : MessageOf(12 * n + j) = n + 1 /\ ByteOf(12 * n + j) = j
    /\ \A j \in 1..12 : MessageOf(j) = 1 /\ ByteOf(j) = j
    /\ \A i \in Nat \ {0} : MessageOf(12 + i) = MessageOf(i) + 1 /\ ByteOf(12 + i) = ByteOf(i)
<1>1. \A n \in Nat : \A i \in 1..(12 * n) :
          ((i - 1) \div 12) + 1 \in 1..n /\ ((i - 1) % 12) + 1 \in 1..12
  BY SMT
<1>2. \A n \in Nat : \A j \in 1..12 :
          ((12 * n + j - 1) \div 12) + 1 = n + 1 /\ ((12 * n + j - 1) % 12) + 1 = j
  BY SMT
<1>3. \A i \in Nat \ {0} :
          /\ ((12 + i - 1) \div 12) + 1 = ((i - 1) \div 12) + 1 + 1
          /\ ((12 + i - 1) % 12) + 1 = ((i - 1) % 12) + 1
  BY SMT
<1>4. \A j \in 1..12 : ((j - 1) \div 12) + 1 = 1 /\ ((j - 1) % 12) + 1 = j
  BY SMT
<1> QED BY <1>1, <1>2, <1>3, <1>4 DEF MessageOf, ByteOf, MessageSize

LEMMA KeepAliveNumbers ==
    ASSUME NEW m \in UInt16
    PROVE  KeepAlive(m) \in Seq(Nat) /\ Len(KeepAlive(m)) = 12
<1>1. m \in Nat
  BY UInt16IsNat
<1>2. m \div 256 \in Nat /\ m % 256 \in Nat
  BY <1>1, SMT
<1>3. High(m) \in Nat /\ Low(m) \in Nat
  BY <1>2 DEF High, Low
<1> QED BY <1>3 DEF KeepAlive, SyncValue, OcaKeepAlive

LEMMA EncodedBytes ==
    ASSUME NEW q \in Seq(UInt16)
    PROVE  /\ Encoded(q) \in Seq(Nat) /\ Len(Encoded(q)) = 12 * Len(q)
           /\ \A i \in 1..(12 * Len(q)) : Encoded(q)[i] = KeepAlive(q[MessageOf(i)])[ByteOf(i)]
<1> DEFINE n == 12 * Len(q)
           b(i) == KeepAlive(q[MessageOf(i)])[ByteOf(i)]
<1>1. Len(q) \in Nat /\ n \in Nat
  OBVIOUS
<1>2. ASSUME NEW i \in 1..n PROVE b(i) \in Nat
  <2>1. MessageOf(i) \in 1..Len(q) /\ ByteOf(i) \in 1..12
    BY <1>1, Positions
  <2>2. q[MessageOf(i)] \in UInt16
    BY <2>1, ElementOfSeq
  <2> QED BY <2>1, <2>2, KeepAliveNumbers, ElementOfSeq
<1>3. Encoded(q) = [i \in 1..n |-> b(i)]
  BY DEF Encoded, MessageSize
<1> HIDE DEF n, b
<1>4. [i \in 1..n |-> b(i)] \in Seq(Nat)
  BY <1>1, <1>2, IsASeq
<1>5. Len([i \in 1..n |-> b(i)]) = n /\ \A j \in 1..n : [i \in 1..n |-> b(i)][j] = b(j)
  BY <1>1, <1>4
<1> QED BY <1>3, <1>4, <1>5 DEF n, b

LEMMA EncodedNothing == Encoded(<<>>) = <<>>
<1>1. <<>> \in Seq(UInt16) /\ Len(<<>>) = 0
  BY EmptySeq
<1>2. Encoded(<<>>) \in Seq(Nat) /\ Len(Encoded(<<>>)) = 12 * Len(<<>>)
  BY <1>1, EncodedBytes
<1>3. Encoded(<<>>) \in Seq(Nat) /\ Len(Encoded(<<>>)) = 0
  BY <1>1, <1>2
<1> HIDE DEF Encoded
<1> QED BY <1>3, EmptySeq

LEMMA EncodedAppend ==
    ASSUME NEW q \in Seq(UInt16), NEW m \in UInt16
    PROVE  Encoded(Append(q, m)) = Encoded(q) \o KeepAlive(m)
<1> DEFINE r == Append(q, m)
           e == Encoded(q)
           k == KeepAlive(m)
<1>1. /\ r \in Seq(UInt16) /\ Len(r) = Len(q) + 1 /\ Len(q) \in Nat
      /\ \A i \in 1..Len(q) : r[i] = q[i]
      /\ r[Len(q) + 1] = m
  BY AppendProperties
<1>2. k \in Seq(Nat) /\ Len(k) = 12
  BY KeepAliveNumbers
<1>3. /\ e \in Seq(Nat) /\ Len(e) = 12 * Len(q)
      /\ \A i \in 1..(12 * Len(q)) : e[i] = KeepAlive(q[MessageOf(i)])[ByteOf(i)]
  BY EncodedBytes
<1>4. /\ Encoded(r) \in Seq(Nat) /\ Len(Encoded(r)) = 12 * Len(r)
      /\ \A i \in 1..(12 * Len(r)) : Encoded(r)[i] = KeepAlive(r[MessageOf(i)])[ByteOf(i)]
  BY <1>1, EncodedBytes
<1> HIDE DEF r, e, k
<1>5. /\ e \o k \in Seq(Nat) /\ Len(e \o k) = Len(e) + 12
      /\ \A i \in 1..Len(e) + 12 :
             (e \o k)[i] = IF i <= Len(e) THEN e[i] ELSE k[i - Len(e)]
  <2>1. /\ e \o k \in Seq(Nat) /\ Len(e \o k) = Len(e) + Len(k)
        /\ \A i \in 1..Len(e) + Len(k) :
               (e \o k)[i] = IF i <= Len(e) THEN e[i] ELSE k[i - Len(e)]
    BY <1>2, <1>3, ConcatProperties, Zenon
  <2> QED BY <1>2, <2>1, Zenon
<1>6. Len(Encoded(r)) = Len(e \o k)
  BY <1>1, <1>3, <1>4, <1>5
<1>7. ASSUME NEW i \in 1..Len(Encoded(r)) PROVE Encoded(r)[i] = (e \o k)[i]
  <2>1. i \in 1..(12 * Len(r)) /\ i \in 1..Len(e) + 12 /\ i \in Nat
    BY <1>1, <1>3, <1>4
  <2>2. Encoded(r)[i] = KeepAlive(r[MessageOf(i)])[ByteOf(i)]
    BY <1>4, <2>1
  <2>3. CASE i <= Len(e)
    <3>1. i \in 1..(12 * Len(q))
      BY <1>3, <2>1, <2>3
    <3>2. MessageOf(i) \in 1..Len(q)
      BY <1>1, <3>1, Positions
    <3> QED BY <1>1, <1>3, <1>5, <2>1, <2>2, <2>3, <3>1, <3>2
  <2>4. CASE ~(i <= Len(e))
    <3>1. PICK j \in 1..12 : i = 12 * Len(q) + j /\ i - Len(e) = j
      <4>1. \A a \in Nat : \A b \in 1..a + 12 :
                ~(b <= a) => b - a \in 1..12 /\ b = a + (b - a)
        OBVIOUS
      <4>2. Len(e) \in Nat
        BY <1>3
      <4>3. i - Len(e) \in 1..12 /\ i = Len(e) + (i - Len(e))
        BY <2>1, <2>4, <4>1, <4>2
      <4> QED BY <1>3, <4>3
    <3>2. MessageOf(i) = Len(q) + 1 /\ ByteOf(i) = j
      BY <1>1, <3>1, Positions
    <3>3. Encoded(r)[i] = k[j]
      BY <1>1, <2>2, <3>2 DEF k
    <3> QED BY <1>5, <2>1, <2>4, <3>1, <3>3
  <2> QED BY <2>3, <2>4
<1>8. Encoded(r) = e \o k
  BY <1>4, <1>5, <1>6, <1>7, SeqEqual
<1> QED BY <1>8 DEF r, e, k

LEMMA EncodedFront ==
    ASSUME NEW q \in Seq(UInt16), q # <<>>
    PROVE  Encoded(q) = KeepAlive(Head(q)) \o Encoded(Tail(q))
<1> DEFINE r == Tail(q)
           e == Encoded(r)
           k == KeepAlive(Head(q))
<1>1. /\ r \in Seq(UInt16) /\ Len(q) = Len(r) + 1 /\ Len(r) \in Nat
      /\ \A i \in 1..Len(r) : r[i] = q[i + 1]
      /\ Head(q) = q[1] /\ Head(q) \in UInt16
  BY HeadTailProperties, EmptySeq
<1>2. k \in Seq(Nat) /\ Len(k) = 12
  BY <1>1, KeepAliveNumbers
<1>3. /\ e \in Seq(Nat) /\ Len(e) = 12 * Len(r)
      /\ \A i \in 1..(12 * Len(r)) : e[i] = KeepAlive(r[MessageOf(i)])[ByteOf(i)]
  BY <1>1, EncodedBytes
<1>4. /\ Encoded(q) \in Seq(Nat) /\ Len(Encoded(q)) = 12 * Len(q)
      /\ \A i \in 1..(12 * Len(q)) : Encoded(q)[i] = KeepAlive(q[MessageOf(i)])[ByteOf(i)]
  BY EncodedBytes
<1> HIDE DEF r, e, k
<1>5. /\ k \o e \in Seq(Nat) /\ Len(k \o e) = 12 + Len(e)
      /\ \A i \in 1..12 + Len(e) :
             (k \o e)[i] = IF i <= 12 THEN k[i] ELSE e[i - 12]
  <2>1. /\ k \o e \in Seq(Nat) /\ Len(k \o e) = Len(k) + Len(e)
        /\ \A i \in 1..Len(k) + Len(e) :
               (k \o e)[i] = IF i <= Len(k) THEN k[i] ELSE e[i - Len(k)]
    BY <1>2, <1>3, ConcatProperties, Zenon
  <2> QED BY <1>2, <2>1, Zenon
<1>6. Len(Encoded(q)) = Len(k \o e)
  BY <1>1, <1>3, <1>4, <1>5
<1>7. ASSUME NEW i \in 1..Len(Encoded(q)) PROVE Encoded(q)[i] = (k \o e)[i]
  <2>1. i \in 1..(12 * Len(q)) /\ i \in 1..12 + Len(e) /\ i \in Nat
    BY <1>1, <1>3, <1>4
  <2>2. Encoded(q)[i] = KeepAlive(q[MessageOf(i)])[ByteOf(i)]
    BY <1>4, <2>1
  <2>3. CASE i <= 12
    <3>1. i \in 1..12
      BY <2>1, <2>3
    <3>2. MessageOf(i) = 1 /\ ByteOf(i) = i
      BY <3>1, Positions
    <3> QED BY <1>1, <1>5, <2>1, <2>2, <2>3, <3>2 DEF k
  <2>4. CASE ~(i <= 12)
    <3>1. PICK j \in 1..(12 * Len(r)) : i = 12 + j /\ i - 12 = j /\ j \in Nat \ {0}
      <4>1. i - 12 \in 1..(12 * Len(r)) /\ i = 12 + (i - 12)
        BY <1>1, <1>3, <2>1, <2>4
      <4> QED BY <1>1, <4>1
    <3>2. MessageOf(j) \in 1..Len(r) /\ MessageOf(i) = MessageOf(j) + 1 /\ ByteOf(i) = ByteOf(j)
      BY <1>1, <3>1, Positions
    <3>3. r[MessageOf(j)] = q[MessageOf(i)]
      BY <1>1, <3>2
    <3>4. e[j] = KeepAlive(r[MessageOf(j)])[ByteOf(j)]
      BY <1>3
    <3> QED BY <1>5, <2>1, <2>2, <2>4, <3>1, <3>2, <3>3, <3>4
  <2> QED BY <2>3, <2>4
<1>8. Encoded(q) = k \o e
  BY <1>4, <1>5, <1>6, <1>7, SeqEqual
<1> QED BY <1>8 DEF r, e, k
-----------------------------------------------------------------------------
\* What the refinement needs to know of the threads, beyond the invariants before.

\* Every endpoint is connected to another one.
Joined == Connected = Endpoint /\ \A e \in Endpoint : Peer[e] \in Endpoint

\* The supervisor is started once.
Starts(x) == pc[x]["receive"] = "activate" => pc[x]["supervisor"] = "off"

ThreadsInv == \A x \in Endpoint : Starts(x)

LEMMA StepStarts ==
    ASSUME TypeOK, IInv, NEW z \in Endpoint, ThreadStep(z) \/ NetworkStep(z),
           NEW x \in Endpoint, Starts(x)
    PROVE  Starts(x)'
<1> USE DEF TypeOK, ControlTypeOK, Thread, Starts
<1>1. CASE x # z
  BY <1>1, StepFrame
<1>2. CASE ReceiveStep(x)
  BY <1>2 DEF ReceiveStep, ReceiveLoop, While, ReceiveSync, AfterSync, ReceiveHeader,
              ReceiveStamp, ReceiveBody, ReceiveApply, ReceiveActivate, Goto
<1>3. CASE x = z /\ ~ReceiveStep(x)
  <2>1. pc'[x]["receive"] = pc[x]["receive"]
    BY <1>3, ReceiveUnmoved
  <2>2. CASE SendStep(x)
    BY <2>1, <2>2 DEF SendStep, SendLoop, While, SendPeek, SendLock, SendFront, SendSend,
                      SendPop, Breaks, EndProcess, SendStamp, Goto
  <2>3. CASE SupervisorStep(x)
    <3>1. pc[x]["supervisor"] # "off"
      BY <2>3 DEF SupervisorStep, SupervisorPeriod, SupervisorPatience, SupervisorLoop,
                  While, SupervisorDiff, SupervisorTimeout, SupervisorSleep,
                  SupervisorWake, Astray, PushStep, PushBuild, PushCheck, PushRecheck,
                  PushTest, PushLock, PushConstruct, PushBump, Breaks, EndProcess, At
    <3> QED BY <2>1, <3>1
  <2>4. CASE OwnerStep(x)
    <3>1. (\E l : Goto(x, "owner", l)) \/ UNCHANGED pc
      BY <2>4 DEF OwnerStep, OwnerSupervise, OwnerClose, OwnerStop, OwnerJoinReceive,
                  OwnerJoinSend, OwnerJoin, OwnerExit, OwnerBreaks, Breaks, EndProcess,
                  PushStep, PushBuild, PushCheck, PushRecheck, PushTest, PushLock,
                  PushConstruct, PushBump
    <3> QED BY <2>1, <3>1 DEF Goto
  <2>5. CASE NetworkStep(x)
    BY <2>5 DEF NetworkStep
  <2> QED BY <1>3, <2>2, <2>3, <2>4, <2>5 DEF ThreadStep
<1> QED BY <1>1, <1>2, <1>3

PInv == IInv /\ AInv /\ ThreadsInv

LEMMA InitPInv == Steady /\ Init => PInv
<1> SUFFICES ASSUME Steady, Init PROVE PInv
  OBVIOUS
<1>1. IInv /\ AInv
  BY InitIInv, InitAInv
<1>2. \A x \in Endpoint : pc[x]["receive"] \in {"loop", "done"}
  BY DEF Init, StartLabel, Thread
<1> QED BY <1>1, <1>2 DEF PInv, ThreadsInv, Starts

LEMMA NextPInv == Steady /\ PInv /\ [Next]_vars => PInv'
<1> SUFFICES ASSUME Steady, PInv, [Next]_vars PROVE PInv'
  OBVIOUS
<1>1. IInv' /\ AInv'
  BY NextIInv, NextAInv DEF PInv
<1>2. ThreadsInv'
  <2>1. TypeOK /\ IInv
    BY DEF PInv, IInv, LInv
  <2>2. ASSUME NEW z \in Endpoint, ThreadStep(z) \/ NetworkStep(z) PROVE ThreadsInv'
    BY <2>1, <2>2, StepStarts DEF PInv, ThreadsInv
  <2>3. CASE UNCHANGED pc
    BY <2>3 DEF PInv, ThreadsInv, Starts
  <2>4. Tick \/ UNCHANGED vars => UNCHANGED pc
    BY DEF Tick, vars
  <2> QED BY <2>2, <2>3, <2>4 DEF Next
<1> QED BY <1>1, <1>2 DEF PInv
-----------------------------------------------------------------------------
\* The refinement.  What Pipe sees of endpoint e:
Content(e) == stream[Peer[e]] \o Encoded(Unsent(e))
Writing(e) == {t \in Pusher : pc[e][t] = "bump"}

\* e still leaves alone what Pipe sees.
Rests(e) ==
    /\ stream'[Peer[e]] = stream[Peer[e]]
    /\ Unsent(e)' = Unsent(e)
    /\ \A t \in Pusher : pc'[e][t] = "bump" <=> pc[e][t] = "bump"

PipeSteps(e) == [Outgoing(e)!Next]_<<Outgoing(e)!vars>>

LEMMA RestsStutters ==
    ASSUME NEW e, Rests(e), Flowing(e), Flowing(e)'
    PROVE  PipeSteps(e)
<1>1. Content(e)' = Content(e) /\ Writing(e)' = Writing(e)
  BY DEF Rests, Content, Writing
<1> QED BY <1>1 DEF PipeSteps, Content, Writing, Outgoing!vars

LEMMA NotFlowingIsCut ==
    ASSUME NEW e, ~Flowing(e)'
    PROVE  PipeSteps(e)
BY DEF PipeSteps, Outgoing!Next, Outgoing!Cut

\* A connection that is down stays down, an object that is freed stays freed.
LEMMA FlowsOnce ==
    ASSUME TypeOK, AInv, NEW z \in Endpoint, ThreadStep(z) \/ NetworkStep(z),
           NEW e \in Endpoint, Flowing(e)'
    PROVE  Flowing(e)
<1> USE DEF TypeOK, SocketTypeOK, ControlTypeOK, Thread
<1>1. Down(e)
  BY StepDown DEF AInv, Wire
<1>2. process[e] = "up" /\ remote[e] = "open"
  BY <1>1 DEF Down, Flowing
<1>3. fd[e] = "open" /\ pc[e]["owner"] # "freed"
  <2>1. CASE z # e
    BY <2>1, StepFrame, ElseFrame DEF Mine, Flowing
  <2>2. CASE z = e /\ ReceiveStep(z)
    <3>1. fd[e] = "open"
      BY <2>2 DEF Flowing, ReceiveStep, ReceiveLoop, While, ReceiveSync, ReceiveHeader,
                  ReceiveStamp, ReceiveBody, ReceiveApply, ReceiveActivate, RecvBytes,
                  RecvEnd, RecvError, RecvReturns, socketVars
    <3> QED BY <2>2, <3>1, ReceiveMoves DEF Moves, Flowing
  <2>3. CASE z = e /\ SendStep(z)
    <3>1. UNCHANGED fd
      BY <2>3 DEF SendStep, SendLoop, While, SendPeek, SendLock, SendFront, SendSend,
                  SendPop, Breaks, SendStamp, SendDelivers, SendIsLost, SendError,
                  SendRaisesSigpipe, EndProcess, socketVars
    <3> QED BY <2>3, <3>1, SendMoves DEF Moves, Flowing
  <2>4. ASSUME NEW t, PushStep(e, t) PROVE UNCHANGED fd
    BY <2>4 DEF PushStep, PushBuild, PushCheck, PushRecheck, PushTest, PushLock,
                PushConstruct, PushBump, Breaks, EndProcess, socketVars
  <2>5. CASE z = e /\ SupervisorStep(z)
    <3>1. UNCHANGED fd
      BY <2>4, <2>5
      DEF SupervisorStep, SupervisorPeriod, SupervisorPatience, SupervisorLoop, While,
          SupervisorDiff, SupervisorTimeout, SupervisorSleep, SupervisorWake, Astray,
          socketVars
    <3> QED BY <2>5, <3>1, SupervisorMoves DEF Moves, Flowing
  <2>6. CASE z = e /\ OwnerStep(z)
    <3>1. UNCHANGED fd \/ OwnerClose(e)
      BY <2>4, <2>6
      DEF OwnerStep, OwnerSupervise, OwnerStop, OwnerJoinReceive, OwnerJoinSend,
          OwnerJoin, OwnerExit, OwnerBreaks, Breaks, EndProcess, socketVars
    <3>2. OwnerClose(e) => UNCHANGED fd
      BY DEF OwnerClose, Close, Flowing, socketVars
    <3>3. pc[e]["owner"] = "freed" => pc'[e]["owner"] = "freed"
      BY <2>6
      DEF OwnerStep, OwnerSupervise, OwnerClose, OwnerStop, OwnerJoinReceive,
          OwnerJoinSend, OwnerJoin, OwnerExit, OwnerBreaks, Breaks, EndProcess, At,
          PushStep, PushBuild, PushCheck, PushRecheck, PushTest, PushLock, PushConstruct,
          PushBump
    <3> QED BY <3>1, <3>2, <3>3 DEF Flowing
  <2>7. CASE NetworkStep(z)
    BY <2>7 DEF NetworkStep, Release, PeerCloses, Flowing
  <2> QED BY <2>1, <2>2, <2>3, <2>5, <2>6, <2>7 DEF ThreadStep
<1> QED BY <1>2, <1>3 DEF Flowing

\* Only the receive thread of x, the send thread of its peer and the kernel touch
\* the bytes for x.
LEMMA StreamFrame ==
    ASSUME TypeOK, NEW z \in Endpoint, ThreadStep(z), ~SendSend(z),
           NEW x \in Endpoint, x = z => ~ReceiveStep(z)
    PROVE  stream'[x] = stream[x]
<1> USE DEF TypeOK, SocketTypeOK
<1>1. CASE ReceiveStep(z)
  BY <1>1 DEF ReceiveStep, ReceiveLoop, While, ReceiveSync, ReceiveHeader, ReceiveStamp,
              ReceiveBody, ReceiveApply, ReceiveActivate, RecvBytes, RecvEnd, RecvError,
              socketVars
<1>2. CASE SendStep(z)
  BY <1>2 DEF SendStep, SendLoop, While, SendPeek, SendLock, SendFront, SendPop, Breaks,
              SendStamp, EndProcess, socketVars
<1>3. ASSUME NEW t, PushStep(z, t) PROVE UNCHANGED stream
  BY <1>3 DEF PushStep, PushBuild, PushCheck, PushRecheck, PushTest, PushLock,
              PushConstruct, PushBump, Breaks, EndProcess, socketVars
<1>4. CASE SupervisorStep(z)
  BY <1>3, <1>4
  DEF SupervisorStep, SupervisorPeriod, SupervisorPatience, SupervisorLoop, While,
      SupervisorDiff, SupervisorTimeout, SupervisorSleep, SupervisorWake, Astray, socketVars
<1>5. CASE OwnerStep(z)
  BY <1>3, <1>5
  DEF OwnerStep, OwnerSupervise, OwnerClose, OwnerStop, OwnerJoinReceive, OwnerJoinSend,
      OwnerJoin, OwnerExit, OwnerBreaks, Breaks, Close, EndProcess, socketVars
<1> QED BY <1>1, <1>2, <1>4, <1>5 DEF ThreadStep

\* Taking from the first of two sequences.
LEMMA RestOfTwo ==
    ASSUME NEW s \in Seq(Nat), NEW t \in Seq(Nat), NEW k \in 1..Len(s)
    PROVE  /\ k \in 1..Len(s \o t)
           /\ SubSeq(s, k + 1, Len(s)) \o t = SubSeq(s \o t, k + 1, Len(s \o t))
<1> DEFINE both == s \o t
           rest == SubSeq(s, k + 1, Len(s))
           left == rest \o t
           right == SubSeq(both, k + 1, Len(both))
<1>1. /\ both \in Seq(Nat) /\ Len(both) = Len(s) + Len(t)
      /\ \A i \in 1..(Len(s) + Len(t)) :
            both[i] = IF i <= Len(s) THEN s[i] ELSE t[i - Len(s)]
  BY ConcatProperties, Zenon
<1>2. Len(s) \in Nat /\ Len(t) \in Nat
  OBVIOUS
<1>3. \A i \in (k + 1)..Len(s) : s[i] \in Nat
  OBVIOUS
<1>4. /\ rest \in Seq(Nat) /\ Len(rest) = Len(s) - k
      /\ \A i \in 1..(Len(s) - k) : rest[i] = s[k + i]
  <2>1. /\ rest \in Seq(Nat)
        /\ Len(rest) = IF k + 1 <= Len(s) THEN Len(s) - (k + 1) + 1 ELSE 0
        /\ \A i \in 1..(Len(s) - (k + 1) + 1) : rest[i] = s[k + 1 + i - 1]
    <3>1. k + 1 \in Int /\ Len(s) \in Int
      BY <1>2
    <3> HIDE DEF both, left, right
    <3> QED BY <3>1, <1>3, SubSeqProperties
  <2>2. Len(s) - (k + 1) + 1 = Len(s) - k /\ k <= Len(s)
    BY <1>2
  <2>3. \A i \in 1..(Len(s) - k) : k + 1 + i - 1 = k + i
    BY <1>2
  <2> HIDE DEF rest
  <2>4. Len(rest) = Len(s) - k
    <3>1. \A a, b \in Nat : \A l : b <= a /\ l = (IF b + 1 <= a THEN a - (b + 1) + 1 ELSE 0)
                              => l = a - b
      OBVIOUS
    <3>2. k \in Nat
      OBVIOUS
    <3> QED BY <2>1, <2>2, <1>2, <3>1, <3>2
  <2>5. ASSUME NEW i \in 1..(Len(s) - k) PROVE rest[i] = s[k + i]
    <3>1. rest[i] = s[k + 1 + i - 1]
      BY <2>1, <2>2
    <3> QED BY <2>3, <3>1
  <2> QED BY <2>1, <2>4, <2>5
<1>5. /\ right \in Seq(Nat) /\ Len(right) = Len(s) + Len(t) - k
      /\ \A i \in 1..(Len(s) + Len(t) - k) : right[i] = both[k + i]
  <2> HIDE DEF both
  <2>1. /\ k + 1 \in Int /\ Len(both) \in Int /\ (k + 1 <= Len(both) \/ k = Len(both))
        /\ \A i \in (k + 1)..Len(both) : i \in 1..Len(both)
        /\ Len(both) - (k + 1) + 1 = Len(s) + Len(t) - k
        /\ \A i \in 1..(Len(s) + Len(t) - k) : k + 1 + i - 1 = k + i
    BY <1>1, <1>2
  <2>2. \A i \in (k + 1)..Len(both) : both[i] \in Nat
    BY <1>1, <2>1, ElementOfSeq
  <2>3. /\ right \in Seq(Nat)
        /\ Len(right) = IF k + 1 <= Len(both) THEN Len(both) - (k + 1) + 1 ELSE 0
        /\ \A i \in 1..(Len(both) - (k + 1) + 1) : right[i] = both[k + 1 + i - 1]
    BY <2>1, <2>2, SubSeqProperties
  <2> HIDE DEF right
  <2>4. Len(right) = Len(s) + Len(t) - k
    BY <1>1, <1>2, <2>1, <2>3
  <2>5. \A i \in 1..(Len(s) + Len(t) - k) : right[i] = both[k + i]
    BY <2>1, <2>3
  <2> QED BY <2>3, <2>4, <2>5
<1>6. /\ left \in Seq(Nat) /\ Len(left) = Len(rest) + Len(t)
      /\ \A i \in 1..(Len(rest) + Len(t)) :
            left[i] = IF i <= Len(rest) THEN rest[i] ELSE t[i - Len(rest)]
  <2> HIDE DEF rest
  <2> QED BY <1>4, ConcatProperties, Zenon
<1> HIDE DEF both, rest, left, right
<1>7. k \in 1..Len(both)
  BY <1>1, <1>2
<1>8. ASSUME NEW i \in 1..Len(left) PROVE left[i] = right[i]
  <2>1. i \in Nat /\ 1 <= i /\ i <= Len(s) + Len(t) - k
    BY <1>2, <1>4, <1>6
  <2>2. CASE i <= Len(s) - k
    <3>0. i \in 1..(Len(s) - k) /\ i \in 1..(Len(rest) + Len(t)) /\ i <= Len(rest)
      BY <2>1, <2>2, <1>2, <1>4
    <3>1. left[i] = rest[i] /\ rest[i] = s[k + i]
      BY <3>0, <1>4, <1>6
    <3>2. i \in 1..(Len(s) + Len(t) - k) /\ k + i \in 1..(Len(s) + Len(t)) /\ k + i <= Len(s)
      BY <2>1, <2>2, <1>2
    <3>3. right[i] = both[k + i] /\ both[k + i] = s[k + i]
      BY <3>2, <1>1, <1>5
    <3> QED BY <3>1, <3>3
  <2>3. CASE i > Len(s) - k
    <3>0. i \in 1..(Len(rest) + Len(t)) /\ ~(i <= Len(rest)) /\ Len(rest) = Len(s) - k
      BY <2>1, <2>3, <1>2, <1>4
    <3>1. left[i] = t[i - (Len(s) - k)]
      BY <3>0, <1>6
    <3> DEFINE n == k + i
    <3>2. /\ i \in 1..(Len(s) + Len(t) - k) /\ n - Len(s) = i - (Len(s) - k)
          /\ n \in 1..(Len(s) + Len(t)) /\ ~(n <= Len(s))
      BY <2>1, <2>3, <1>2
    <3>3. right[i] = both[n]
      BY <3>2, <1>5
    <3> HIDE DEF n
    <3>4. both[n] = t[n - Len(s)]
      BY <3>2, <1>1
    <3> QED BY <3>1, <3>2, <3>3, <3>4
  <2> QED BY <2>1, <2>2, <2>3, <1>2
<1>9. Len(left) = Len(right)
  BY <1>2, <1>4, <1>5, <1>6
<1>10. left = right
  BY <1>5, <1>6, <1>8, <1>9, SeqEqual
<1> QED BY <1>7, <1>10 DEF both, rest, left, right

\* What is in the pipe is a sequence of numbers.
LEMMA ContentTyped ==
    ASSUME TypeOK, SendsFront, NEW e \in Endpoint, Peer[e] \in Endpoint, ~torn[e]
    PROVE  /\ stream[Peer[e]] \in Seq(Nat) /\ Unsent(e) \in Seq(UInt16)
           /\ Encoded(Unsent(e)) \in Seq(Nat)
<1>1. stream[Peer[e]] \in Seq(Nat)
  <2>1. stream[Peer[e]] \in Seq(Byte) /\ Byte \subseteq Nat
    BY ByteIsNat DEF TypeOK, SocketTypeOK
  <2> QED BY <2>1, SeqMonotonic
<1>2. messageQueue[e] \in Seq(UInt16)
  BY DEF TypeOK, DataTypeOK
<1>3. Unsent(e) \in Seq(UInt16)
  <2>1. CASE pc[e]["send"] = "pop"
    BY <1>2, <2>1, HeadTailProperties DEF SendsFront, Unsent
  <2>2. CASE pc[e]["send"] # "pop"
    BY <1>2, <2>2 DEF Unsent
  <2> QED BY <2>1, <2>2
<1> QED BY <1>1, <1>3, EncodedBytes

\* Steps of the threads of e.  Its receive thread takes from the other direction.
LEMMA PipeReceive ==
    ASSUME PInv, NEW e \in Endpoint, Peer[e] \in Endpoint, ReceiveStep(e)
    PROVE  Rests(e)
<1> USE DEF TypeOK, ControlTypeOK, Thread
<1>0. TypeOK /\ Starts(e) /\ Peer[e] # e
  BY PeerAssumption DEF PInv, IInv, LInv, ThreadsInv
<1>1. stream'[Peer[e]] = stream[Peer[e]]
  BY <1>0 DEF SocketTypeOK, ReceiveStep, ReceiveLoop, While, ReceiveSync, ReceiveHeader,
              ReceiveStamp, ReceiveBody, ReceiveApply, ReceiveActivate, RecvBytes, RecvEnd,
              RecvError, socketVars
<1>2. UNCHANGED messageQueue /\ pc'[e]["send"] = pc[e]["send"]
  BY <1>0, ReceiveSendsAlike DEF SendsAlike, SendSide
<1>3. \A t \in Pusher : pc'[e][t] = "bump" <=> pc[e][t] = "bump"
  <2>1. CASE \E l : Goto(e, "receive", l)
    BY <1>0, <2>1 DEF Goto, Pusher
  <2>2. CASE ReceiveActivate(e)
    BY <1>0, <2>2 DEF ReceiveActivate, At, Starts, Pusher
  <2> QED
    BY <2>1, <2>2 DEF ReceiveStep, ReceiveLoop, While, ReceiveSync, ReceiveHeader,
                      ReceiveStamp, ReceiveBody, ReceiveApply
<1> QED BY <1>1, <1>2, <1>3 DEF Rests, Unsent

\* The send thread moves the front of the queue into the socket, and what it pops
\* after that is what it moved.
LEMMA PipeSend ==
    ASSUME PInv, NEW e \in Endpoint, Peer[e] \in Endpoint, Flowing(e), SendStep(e)
    PROVE  /\ Content(e)' = Content(e)
           /\ \A t \in Pusher : pc'[e][t] = "bump" <=> pc[e][t] = "bump"
<1> DEFINE p == Peer[e]
           q == messageQueue[e]
<1> USE DEF TypeOK, ControlTypeOK, DataTypeOK, Thread
<1>0. /\ TypeOK /\ SendsFront /\ MessageTaken /\ ~torn[e] /\ p \in Endpoint /\ p # e
      /\ q \in Seq(UInt16)
  BY PeerAssumption DEF PInv, IInv, LInv, Untorn
<1>1. \A t \in Pusher : pc'[e][t] = "bump" <=> pc[e][t] = "bump"
  BY <1>0 DEF SendStep, SendLoop, While, SendPeek, SendLock, SendFront, SendSend, SendPop,
              Breaks, EndProcess, SendStamp, Goto, Pusher
<1>2. CASE SendSend(e)
  <2>1. /\ pc[e]["send"] = "send" /\ q # <<>> /\ Head(q) = sending[e]
        /\ sending[e] # NoMessage
    BY <1>0, <1>2 DEF SendSend, At, SendsFront, MessageTaken
  <2>2. /\ SendDelivers(e, Payload(sending[e])) /\ Goto(e, "send", "pop")
        /\ UNCHANGED messageQueue
    BY <1>2 DEF SendSend, SendIsLost, SendError, SendRaisesSigpipe, Flowing, queueVars
  <2>3. stream'[p] = stream[p] \o KeepAlive(Head(q))
    BY <1>0, <2>1, <2>2 DEF SendDelivers, Payload
  <2>4. Unsent(e) = q /\ Unsent(e)' = Tail(q)
    BY <1>0, <2>1, <2>2 DEF Unsent, Goto
  <2>5. Encoded(q) = KeepAlive(Head(q)) \o Encoded(Tail(q))
    BY <1>0, <2>1, EncodedFront
  <2>6. /\ stream[p] \in Seq(Nat) /\ KeepAlive(Head(q)) \in Seq(Nat)
        /\ Encoded(Tail(q)) \in Seq(Nat)
    <3>1. Head(q) \in UInt16 /\ Tail(q) \in Seq(UInt16)
      BY <1>0, <2>1, HeadTailProperties
    <3>2. stream[p] \in Seq(Nat)
      BY <1>0, ContentTyped
    <3>3. Encoded(Tail(q)) \in Seq(Nat)
      BY <3>1, EncodedBytes
    <3>4. KeepAlive(Head(q)) \in Seq(Nat)
      BY <3>1, KeepAliveNumbers
    <3> QED BY <3>2, <3>3, <3>4
  <2>7. (stream[p] \o KeepAlive(Head(q))) \o Encoded(Tail(q)) =
            stream[p] \o (KeepAlive(Head(q)) \o Encoded(Tail(q)))
    BY <2>6, Associates, Zenon
  <2>8. Content(e)' = stream'[p] \o Encoded(Tail(q))
    BY <2>4 DEF Content
  <2>9. Content(e) = stream[p] \o (KeepAlive(Head(q)) \o Encoded(Tail(q)))
    BY <2>4, <2>5 DEF Content
  <2> QED BY <1>1, <2>3, <2>7, <2>8, <2>9
<1>3. CASE ~SendSend(e)
  <2>1. stream'[p] = stream[p]
    <3>1. ~ReceiveStep(p) \/ p # e
      BY <1>0
    <3> QED BY <1>0, <1>3, <3>1, StreamFrame DEF ThreadStep
  <2>2. Unsent(e)' = Unsent(e)
    <3>1. CASE SendPop(e)
      <4>1. pc[e]["send"] = "pop" /\ pc'[e]["send"] = "stamp"
        BY <1>0, <3>1 DEF SendPop, Breaks, At, Goto
      <4>2. q # <<>> /\ messageQueue'[e] = PopFront(q)
        BY <1>0, <3>1, <4>1 DEF SendPop, Breaks, SendsFront
      <4>3. PopFront(q) = Tail(q)
        BY <1>0, <4>2, TailIsSubSeq DEF PopFront
      <4> QED BY <4>1, <4>2, <4>3 DEF Unsent
    <3>2. CASE ~SendPop(e)
      <4>1. UNCHANGED messageQueue
        BY <1>0, <1>3, <3>2 DEF SendStep, SendLoop, While, SendPeek, SendLock, SendFront,
                          Breaks, EndProcess, SendStamp, queueVars
      <4>2. pc[e]["send"] # "pop" /\ pc'[e]["send"] # "pop"
        BY <1>0, <1>3, <3>2
        DEF SendStep, SendLoop, While, SendPeek, AfterPeek, SendLock, SendFront, Breaks,
            EndProcess, SendStamp, At, Goto
      <4> QED BY <4>1, <4>2 DEF Unsent
    <3> QED BY <3>1, <3>2
  <2> QED BY <1>1, <2>1, <2>2 DEF Content
<1> QED BY <1>2, <1>3

\* A push begins where the element is constructed, and is done where the end of the
\* deque moves past it.
LEMMA PipePush ==
    ASSUME PInv, NEW e \in Endpoint, Peer[e] \in Endpoint, NEW t \in Pusher, PushStep(e, t),
           Flowing(e), Flowing(e)'
    PROVE  PipeSteps(e)
<1> DEFINE p == Peer[e]
           q == messageQueue[e]
           u == Unsent(e)
           k == KeepAlive(StartTime)
<1>0. /\ TypeOK /\ SendsFront /\ Carried /\ ~torn[e] /\ Announces(e)
      /\ pc[e]["supervisor"] # "off" => pc[e]["owner"] \notin BeforeServing
      /\ q \in Seq(UInt16) /\ t \in Thread /\ StartTime \in UInt16
  BY TimeAssumption
  DEF PInv, IInv, LInv, TypeOK, DataTypeOK, Quiet, Before, Calm, Untorn, AInv,
      Says, Pusher, Thread
<1> USE DEF TypeOK, ControlTypeOK, DataTypeOK
<1>1. stream'[p] = stream[p] /\ pc'[e]["send"] = pc[e]["send"]
  <2>1. UNCHANGED stream
    BY DEF PushStep, PushBuild, PushCheck, PushRecheck, PushTest, PushLock, PushConstruct,
           PushBump, Breaks, EndProcess, socketVars
  <2> QED BY <1>0, <2>1, PushAppends DEF Appends
<1>2. \A w \in Pusher \ {t} : pc'[e][w] = pc[e][w]
  BY <1>0 DEF PushStep, PushBuild, PushCheck, PushRecheck, PushTest, PushLock,
              PushConstruct, PushBump, Breaks, EndProcess, Goto, Pusher, Thread
<1>3. CASE PushConstruct(e, t)
  <2>1. /\ pc[e][t] = "construct" /\ pc'[e][t] = "bump"
        /\ UNCHANGED messageQueue
    BY <1>0, <1>3 DEF PushConstruct, At, Goto, BeforeServing, Pusher
  <2>2. Content(e)' = Content(e)
    BY <1>1, <2>1 DEF Content, Unsent
  <2>3. t \notin Writing(e) /\ Writing(e)' = Writing(e) \cup {t}
    BY <1>2, <2>1 DEF Writing
  <2>4. Outgoing(e)!Begin(t)
    BY <2>2, <2>3 DEF Outgoing!Begin, Content, Writing
  <2> QED BY <2>4 DEF PipeSteps, Outgoing!Next
<1>4. CASE PushBump(e, t)
  <2>1. pc[e][t] = "bump" /\ pc'[e][t] # "bump"
    BY <1>0, <1>4 DEF PushBump, Breaks, At, Goto, Return
  <2>2. built[e][t] # NoMessage
    BY <1>0, <2>1 DEF Carried, Carrying
  <2>3. built[e][t] = StartTime
    BY <1>0, <2>2 DEF Announces, Announced
  <2>4. messageQueue'[e] = Append(q, StartTime)
    BY <1>0, <1>4, <2>3 DEF PushBump, Breaks, Enqueued
  <2>5. Unsent(e)' = Append(u, StartTime)
    <3>1. CASE pc[e]["send"] = "pop"
      <4>1. q # <<>>
        BY <1>0, <3>1 DEF SendsFront
      <4>2. Tail(Append(q, StartTime)) = Append(Tail(q), StartTime)
        BY <1>0, <4>1, HeadTailAppend
      <4> QED BY <1>1, <2>4, <3>1, <4>2 DEF Unsent
    <3>2. CASE pc[e]["send"] # "pop"
      BY <1>1, <2>4, <3>2 DEF Unsent
    <3> QED BY <3>1, <3>2
  <2>6. stream[p] \in Seq(Nat) /\ u \in Seq(UInt16) /\ Encoded(u) \in Seq(Nat)
    BY <1>0, ContentTyped
  <2>7. k \in Seq(Nat)
    BY <1>0, KeepAliveNumbers
  <2>8. Encoded(Append(u, StartTime)) = Encoded(u) \o k
    BY <1>0, <2>6, EncodedAppend
  <2>9. Content(e)' = stream[p] \o (Encoded(u) \o k)
    <3> HIDE DEF q, u, k
    <3> QED BY <1>1, <2>5, <2>8 DEF Content
  <2>10. stream[p] \o (Encoded(u) \o k) = (stream[p] \o Encoded(u)) \o k
    BY <2>6, <2>7, Associates, Zenon
  <2>11. Content(e)' = Content(e) \o k
    BY <2>9, <2>10 DEF Content
  <2>12. t \in Writing(e) /\ Writing(e)' = Writing(e) \ {t}
    BY <1>2, <2>1 DEF Writing
  <2>13. Outgoing(e)!Put(t)
    BY <2>11, <2>12 DEF Outgoing!Put, Content, Writing
  <2> QED BY <2>13 DEF PipeSteps, Outgoing!Next
<1>5. CASE PushBuild(e, t) \/ PushCheck(e, t) \/ PushRecheck(e, t) \/ PushLock(e, t)
  <2>1. UNCHANGED messageQueue /\ pc[e][t] # "bump" /\ pc'[e][t] # "bump"
    BY <1>0, <1>5 DEF PushBuild, PushCheck, PushRecheck, PushTest, PushLock, At, Goto,
                      Return, queueVars
  <2>2. Rests(e)
    BY <1>1, <1>2, <2>1 DEF Rests, Unsent
  <2> QED BY <2>2, RestsStutters
<1> QED BY <1>3, <1>4, <1>5 DEF PushStep

\* The rest of what the supervisor and the owner do.
LEMMA PipeRest ==
    ASSUME PInv, NEW e \in Endpoint, Peer[e] \in Endpoint, SupervisorStep(e) \/ OwnerStep(e),
           \A t \in Pusher : ~PushStep(e, t), Flowing(e)
    PROVE  Rests(e)
<1> USE DEF TypeOK, ControlTypeOK, Thread
<1>0. TypeOK /\ Carried
  BY DEF PInv, IInv, LInv
<1>1. UNCHANGED <<messageQueue, stream>>
  BY DEF SupervisorStep, SupervisorPeriod, SupervisorPatience, SupervisorLoop, While,
         SupervisorDiff, SupervisorTimeout, SupervisorSleep, SupervisorWake, Astray,
         OwnerStep, OwnerSupervise, OwnerClose, OwnerStop, OwnerJoinReceive,
         OwnerJoinSend, OwnerJoin, OwnerExit, OwnerBreaks, Breaks, Close, EndProcess,
         Pusher, socketVars, queueVars
<1>2. pc'[e]["send"] = pc[e]["send"]
  BY <1>0, SupervisorAppends, OwnerAppends DEF Appends
<1>3. CASE SupervisorStep(e)
  <2>1. \E l : Goto(e, "supervisor", l)
    BY <1>3 DEF SupervisorStep, SupervisorPeriod, SupervisorPatience, SupervisorLoop, While,
                SupervisorDiff, SupervisorTimeout, SupervisorSleep, SupervisorWake, Astray,
                Pusher
  <2>2. pc'[e]["owner"] = pc[e]["owner"]
    BY <1>0, <2>1 DEF Goto
  <2>3. pc[e]["supervisor"] # "bump" /\ pc'[e]["supervisor"] # "bump"
    BY <1>0, <1>3
    DEF Astray, Flowing, SupervisorStep, SupervisorPeriod, SupervisorPatience, SupervisorLoop, While,
        SupervisorDiff, SupervisorTimeout, SupervisorSleep, SupervisorWake, At, Goto, Pusher
  <2> QED BY <1>1, <1>2, <2>2, <2>3 DEF Rests, Unsent, Pusher
<1>4. CASE OwnerStep(e)
  <2>1. (\E l : Goto(e, "owner", l)) \/ UNCHANGED pc
    BY <1>4 DEF OwnerStep, OwnerSupervise, OwnerClose, OwnerStop, OwnerJoinReceive,
                OwnerJoinSend, OwnerJoin, OwnerExit, OwnerBreaks, Breaks, EndProcess,
                Pusher
  <2>2. pc'[e]["supervisor"] = pc[e]["supervisor"]
    BY <1>0, <2>1 DEF Goto
  <2>3. pc[e]["owner"] # "bump" /\ pc'[e]["owner"] # "bump"
    BY <1>0, <1>4
    DEF OwnerStep, OwnerSupervise, OwnerClose, OwnerStop, OwnerJoinReceive, OwnerJoinSend,
        OwnerJoin, OwnerExit, OwnerBreaks, Breaks, EndProcess, At, Goto, Pusher
  <2> QED BY <1>1, <1>2, <2>2, <2>3 DEF Rests, Unsent, Pusher
<1> QED BY <1>3, <1>4

\* The other end: its receive thread takes bytes out.
LEMMA PipePeer ==
    ASSUME Steady, PInv, NEW e \in Endpoint, Peer[e] \in Endpoint,
           ThreadStep(Peer[e]) \/ NetworkStep(Peer[e]), Flowing(e), Flowing(e)'
    PROVE  PipeSteps(e)
<1> DEFINE p == Peer[e]
           n == Encoded(Unsent(e))
<1>0. TypeOK /\ SendsFront /\ ~torn[e] /\ p \in Endpoint /\ p # e /\ Peer[p] = e
  BY PeerAssumption DEF PInv, IInv, LInv, Untorn
<1>1. pc'[e] = pc[e] /\ Unsent(e)' = Unsent(e)
  BY <1>0, StepFrame DEF Unsent
<1>2. CASE stream'[p] = stream[p]
  <2>1. Rests(e)
    BY <1>1, <1>2 DEF Rests
  <2> QED BY <2>1, RestsStutters
<1>3. ASSUME NEW k \in 1..Len(stream[p]),
             stream'[p] = SubSeq(stream[p], k + 1, Len(stream[p]))
      PROVE  PipeSteps(e)
  <2>1. stream[p] \in Seq(Nat) /\ n \in Seq(Nat)
    BY <1>0, ContentTyped
  <2>2. Content(e) = stream[p] \o n /\ Content(e)' = SubSeq(stream[p], k + 1, Len(stream[p])) \o n
    BY <1>1, <1>3 DEF Content
  <2>3. /\ k \in 1..Len(Content(e))
        /\ Content(e)' = SubSeq(Content(e), k + 1, Len(Content(e)))
    <3> HIDE DEF n, p
    <3> QED BY <1>3, <2>1, <2>2, RestOfTwo
  <2>4. Writing(e)' = Writing(e)
    BY <1>1 DEF Writing
  <2>5. Outgoing(e)!Take
    BY <2>3, <2>4 DEF Outgoing!Take, Content, Writing
  <2> QED BY <2>5 DEF PipeSteps, Outgoing!Next
<1>4. CASE ReceiveStep(p)
  <2>1. stream[p] \in Seq(Byte) /\ (stream[p] # <<>> => Len(stream[p]) \in Nat \ {0})
    BY <1>0, EmptySeq DEF TypeOK, SocketTypeOK
  <2>2. ASSUME NEW k, RecvBytes(p, k),
               k = 1 \/ k \in ReadSizes(HeaderSize, Len(stream[p]))
                     \/ k \in ReadSizes(BodySize, Len(stream[p]))
        PROVE  PipeSteps(e)
    <3>1. stream[p] # <<>> /\ stream'[p] = SubSeq(stream[p], k + 1, Len(stream[p]))
      BY <1>0, <2>2 DEF RecvBytes, TypeOK, SocketTypeOK
    <3>2. k \in 1..Len(stream[p])
      BY <2>1, <2>2, <3>1 DEF Steady, ReadSizes, AtMost, HeaderSize, BodySize
    <3> QED BY <1>3, <3>1, <3>2
  <2>3. \/ UNCHANGED stream
        \/ \E k : /\ RecvBytes(p, k)
                  /\ \/ k = 1 \/ k \in ReadSizes(HeaderSize, Len(stream[p]))
                     \/ k \in ReadSizes(BodySize, Len(stream[p]))
    BY <1>4 DEF ReceiveStep, ReceiveLoop, While, ReceiveSync, ReceiveHeader, ReceiveStamp,
                ReceiveBody, ReceiveApply, ReceiveActivate, RecvEnd, RecvError, socketVars
  <2> QED BY <1>2, <2>2, <2>3
<1>5. CASE ThreadStep(p) /\ ~ReceiveStep(p)
  <2>1. stream'[p] = stream[p]
    <3>1. CASE SendSend(p)
      BY <1>0, <3>1 DEF SendSend, SendDelivers, SendIsLost, SendError, SendRaisesSigpipe,
                        socketVars, TypeOK, SocketTypeOK
    <3>2. CASE ~SendSend(p)
      BY <1>0, <1>5, <3>2, StreamFrame
    <3> QED BY <3>1, <3>2
  <2> QED BY <1>2, <2>1
<1>6. CASE NetworkStep(p)
  <2>1. remote'[e] # "open"
    <3>1. ~PeerCloses(p)
      BY <1>0 DEF PeerCloses
    <3>2. Release(p)
      BY <1>6, <3>1 DEF NetworkStep
    <3> QED BY <1>0, <3>2 DEF Release, TypeOK, SocketTypeOK
  <2> QED BY <2>1 DEF Flowing
<1> QED BY <1>4, <1>5, <1>6

LEMMA NextPipe ==
    ASSUME Steady, Joined, PInv, [Next]_vars, NEW e \in Endpoint
    PROVE  PipeSteps(e)
<1> DEFINE p == Peer[e]
<1>0. /\ TypeOK /\ AInv /\ p \in Endpoint /\ Peer[p] = e
  BY PeerAssumption DEF PInv, IInv, LInv, Joined
<1>1. ASSUME NEW z \in Endpoint, ThreadStep(z) \/ NetworkStep(z), Flowing(e)'
      PROVE  PipeSteps(e)
  <2>0. Flowing(e)
    BY <1>0, <1>1, FlowsOnce
  <2>1. CASE z = e /\ ReceiveStep(z)
    BY <1>0, <1>1, <2>0, <2>1, PipeReceive, RestsStutters
  <2>2. CASE z = e /\ SendStep(z)
    <3>1. Content(e)' = Content(e) /\ Writing(e)' = Writing(e)
      BY <1>0, <2>0, <2>2, PipeSend DEF Writing
    <3> QED BY <1>1, <2>0, <3>1 DEF PipeSteps, Content, Writing, Outgoing!vars
  <2>3. CASE z = e /\ \E t \in Pusher : PushStep(z, t)
    BY <1>0, <1>1, <2>0, <2>3, PipePush
  <2>4. CASE z = e /\ (SupervisorStep(z) \/ OwnerStep(z)) /\ ~\E t \in Pusher : PushStep(z, t)
    BY <1>0, <1>1, <2>0, <2>4, PipeRest, RestsStutters
  <2>5. CASE z = e /\ NetworkStep(z)
    BY <1>0, <2>0, <2>5 DEF NetworkStep, Release, PeerCloses, Flowing
  <2>6. CASE z = p
    BY <1>0, <1>1, <2>0, <2>6, PipePeer
  <2>7. CASE z # e /\ z # p
    <3>1. e # Peer[z] /\ p # Peer[z]
      BY <1>0, <2>7, PeerAssumption
    <3>2. pc'[e] = pc[e] /\ messageQueue'[e] = messageQueue[e] /\ stream'[p] = stream[p]
      BY <1>0, <1>1, <2>7, <3>1, StepFrame
    <3>3. Rests(e)
      BY <3>2 DEF Rests, Unsent
    <3> QED BY <1>1, <2>0, <3>3, RestsStutters
  <2> QED BY <1>1, <2>1, <2>2, <2>3, <2>4, <2>5, <2>6, <2>7 DEF ThreadStep
<1>2. CASE Tick \/ UNCHANGED vars
  <2>1. UNCHANGED <<stream, fd, remote, process, pc, messageQueue>>
    BY <1>2 DEF Tick, vars, socketVars, queueVars
  <2> QED BY <2>1 DEF PipeSteps, Outgoing!vars, Unsent, Flowing
<1> QED BY <1>1, <1>2, NotFlowingIsCut DEF Next

LEMMA InitPipe ==
    ASSUME Joined, Init, NEW e \in Endpoint
    PROVE  Outgoing(e)!Init
<1>1. Peer[e] \in Endpoint /\ Peer[Peer[e]] = e /\ e \in Connected
  BY PeerAssumption DEF Joined
<1>2. /\ stream[Peer[e]] = <<>> /\ messageQueue[e] = <<>>
      /\ fd[e] = "open" /\ remote[e] = "open" /\ process[e] = "up"
  BY <1>1 DEF Init, SocketInit
<1>3. /\ pc[e]["send"] = "loop" /\ pc[e]["owner"] \in {"supervise", "serving"}
      /\ \A t \in Pusher : pc[e][t] # "bump"
  BY <1>1 DEF Init, StartLabel, Thread, Pusher
<1>4. Content(e) = <<>> /\ Writing(e) = {} /\ Flowing(e) = TRUE
  <2>1. Unsent(e) = <<>>
    BY <1>2, <1>3 DEF Unsent
  <2> QED BY <1>2, <1>3, <2>1, EncodedNothing DEF Content, Writing, Flowing
<1> QED BY <1>4 DEF Outgoing!Init, Content, Writing

\* Each direction of a connection of two liboca endpoints is a pipe from the one's
\* queueMessageForSend (OcpConnectionEndpoint.cxx:231-243) through its send loop
\* (266-299) to the other's recv calls: as long as both ends are there, every push puts
\* one whole heartbeat in, nothing is lost, repeated or overtaken on the way, and only
\* the other's recv takes bytes out.
THEOREM PipeImplemented == Steady /\ Joined => (Spec => ImplementsPipe)
<1> SUFFICES ASSUME Steady, Joined PROVE Spec => ImplementsPipe
  OBVIOUS
<1>1. Init => PInv
  BY InitPInv
<1>2. PInv /\ [Next]_vars => PInv'
  BY NextPInv
<1>3. Init => \A e \in Endpoint : Outgoing(e)!Init
  BY InitPipe
<1>4. PInv /\ [Next]_vars => [\A e \in Endpoint : [Outgoing(e)!Next]_<<Outgoing(e)!vars>>]_vars
  BY NextPipe DEF PipeSteps
<1> QED BY <1>1, <1>2, <1>3, <1>4, PTL DEF Spec, ImplementsPipe
=============================================================================
