---------------------- MODULE ConnectionEndpoint_proofs ----------------------
(***************************************************************************)
(* Proofs about ConnectionEndpoint, for any number of endpoints, any       *)
(* peers, any script, any fragmentation and any bounds.                    *)
(***************************************************************************)
EXTENDS ConnectionEndpoint, TLAPS, SequenceTheorems

-----------------------------------------------------------------------------
\* Numbers.  The width of the C++ types stays hidden but where its value counts.

LEMMA WidthIsNat == MaxUInt16 \in Nat
BY DEF MaxUInt16

LEMMA WidthIs == MaxUInt16 = 65535
BY DEF MaxUInt16

LEMMA ByteIsNat == \A b : b \in Byte <=> b \in Nat /\ b <= 255
BY DEF Byte

LEMMA UInt16IsNat == \A h : h \in UInt16 <=> h \in Nat /\ h <= MaxUInt16
BY WidthIsNat DEF UInt16

LEMMA MessageIsNat == \A m : m \in Message <=> m \in Nat /\ m <= MaxUInt16 + 1
<1>1. MaxUInt16 \in Nat
  BY WidthIsNat
<1> QED
  BY <1>1 DEF Message, NoMessage

\* A message is a heartbeat time or none.
LEMMA MessageRange ==
    /\ NoMessage \in Message
    /\ \A m : m \in Message /\ m # NoMessage <=> m \in UInt16
<1>1. MaxUInt16 \in Nat
  BY WidthIsNat
<1> QED
  BY <1>1, MessageIsNat, UInt16IsNat DEF NoMessage

\* Encoding and decoding stay within the widths they have in C++.
LEMMA KeepAliveBytes ==
    ASSUME NEW h \in UInt16
    PROVE  KeepAlive(h) \in Seq(Byte)
<1>1. h \in Nat /\ h <= 65535
  BY UInt16IsNat, WidthIs
<1>2. h \div 256 \in Nat /\ h \div 256 <= 255
  BY <1>1, SMT
<1>3. h % 256 \in Nat /\ h % 256 <= 255
  BY <1>1, SMT
<1>4. High(h) \in Byte /\ Low(h) \in Byte
  BY <1>2, <1>3, ByteIsNat DEF High, Low
<1> QED
  BY <1>4, ByteIsNat DEF KeepAlive, SyncValue, OcaKeepAlive

LEMMA HeartbeatInRange ==
    ASSUME NEW s \in Seq(Byte), Len(s) = 2
    PROVE  HeartbeatIn(s) \in UInt16
<1>1. s[1] \in Byte /\ s[2] \in Byte
  BY ElementOfSeq
<1>2. s[1] \in Nat /\ s[2] \in Nat /\ s[1] <= 255 /\ s[2] <= 255
  BY <1>1, ByteIsNat
<1>3. \A a, b \in Nat :
          a <= 255 /\ b <= 255 => a * 256 + b \in Nat /\ a * 256 + b <= 65535
  BY SMT
<1> QED
  BY <1>2, <1>3, UInt16IsNat, WidthIs DEF HeartbeatIn

LEMMA PeriodsInRange ==
    ASSUME NEW h \in UInt16
    PROVE  Nap(h) \in UInt16 /\ Patience(h) \in Nat
<1>1. h \in Nat /\ h <= MaxUInt16
  BY UInt16IsNat
<1>2. h \div 2 \in Nat /\ h \div 2 <= h /\ h * 3 \in Nat
  BY <1>1, SMT
<1> QED
  BY <1>1, <1>2, UInt16IsNat, WidthIsNat DEF Nap, Patience

-----------------------------------------------------------------------------
\* Types.  One lemma for each part of TypeOK a step goes through, then one for
\* the steps of each thread.

LEMMA GotoTyped ==
    ASSUME ControlTypeOK, NEW e, NEW t \in Thread, NEW l \in Label, Goto(e, t, l)
    PROVE  ControlTypeOK'
BY DEF Goto, ControlTypeOK

LEMMA SocketFrame ==
    ASSUME SocketTypeOK, UNCHANGED socketVars
    PROVE  SocketTypeOK'
BY DEF SocketTypeOK, socketVars

LEMMA ReceiveSocketTyped ==
    ASSUME SocketTypeOK, NEW e \in Endpoint,
           (\E k \in Nat : RecvBytes(e, k)) \/ RecvEnd(e) \/ RecvError(e)
    PROVE  SocketTypeOK'
<1>1. CASE \E k \in Nat : RecvBytes(e, k)
  <2>1. stream' \in [Endpoint -> Seq(Byte)]
    BY <1>1 DEF SocketTypeOK, RecvBytes
  <2>2. fd' \in [Endpoint -> {"open", "pinned", "closed"}]
    BY <1>1 DEF SocketTypeOK, RecvBytes, RecvReturns
  <2> QED BY <1>1, <2>1, <2>2 DEF SocketTypeOK, RecvBytes
<1>2. CASE RecvEnd(e) \/ RecvError(e)
  BY <1>2 DEF SocketTypeOK, RecvEnd, RecvError, RecvReturns
<1> QED BY <1>1, <1>2

LEMMA ReceiveTypes ==
    ASSUME TypeOK, BodyRead, NEW e \in Endpoint, ReceiveStep(e)
    PROVE  TypeOK'
<1> USE DEF TypeOK
<1>1. CASE ReceiveLoop(e)
  <2>1. ControlTypeOK'
    BY <1>1, GotoTyped DEF ReceiveLoop, While, Thread, Label
  <2>2. SocketTypeOK'
    BY <1>1, SocketFrame DEF ReceiveLoop, While
  <2>3. DataTypeOK'
    BY <1>1 DEF ReceiveLoop, While, DataTypeOK, queueVars, ageVars, supervisorVars
  <2> QED BY <2>1, <2>2, <2>3
<1>2. CASE ReceiveSync(e)
  <2>1. ControlTypeOK'
    BY <1>2, GotoTyped DEF ReceiveSync, AfterSync, Thread, Label
  <2>2. SocketTypeOK'
    BY <1>2, ReceiveSocketTyped DEF ReceiveSync
  <2>3. DataTypeOK'
    BY <1>2 DEF ReceiveSync, DataTypeOK, queueVars, ageVars, supervisorVars
  <2> QED BY <2>1, <2>2, <2>3
<1>3. CASE ReceiveHeader(e)
  <2>1. ControlTypeOK'
    BY <1>3, GotoTyped DEF ReceiveHeader, Thread, Label
  <2>2. Len(stream[e]) \in Nat /\ stream[e] \in Seq(Byte)
    BY DEF SocketTypeOK
  <2>3. ReadSizes(HeaderSize, Len(stream[e])) \subseteq 0..Len(stream[e])
    BY <2>2 DEF ReadSizes, AtMost, HeaderSize
  <2>4. SocketTypeOK'
    BY <1>3, <2>3, ReceiveSocketTyped DEF ReceiveHeader
  <2>5. received' \in [Endpoint -> Seq(Byte)]
    <3>1. \A k \in 0..Len(stream[e]) : Prefix(e, k) \in Seq(Byte)
      BY <2>2 DEF Prefix
    <3>2. received \in [Endpoint -> Seq(Byte)]
      BY DEF DataTypeOK
    <3> QED BY <1>3, <2>3, <3>1, <3>2 DEF ReceiveHeader
  <2>6. DataTypeOK'
    BY <1>3, <2>5 DEF ReceiveHeader, DataTypeOK, queueVars, ageVars, supervisorVars
  <2> QED BY <2>1, <2>4, <2>6
<1>4. CASE ReceiveStamp(e)
  <2>1. ControlTypeOK'
    BY <1>4, GotoTyped DEF ReceiveStamp, Thread, Label
  <2>2. SocketTypeOK'
    BY <1>4, SocketFrame DEF ReceiveStamp
  <2>3. DataTypeOK'
    BY <1>4, BoundAssumption DEF ReceiveStamp, DataTypeOK, queueVars, supervisorVars
  <2> QED BY <2>1, <2>2, <2>3
<1>5. CASE ReceiveBody(e)
  <2>1. ControlTypeOK'
    BY <1>5, GotoTyped DEF ReceiveBody, Thread, Label
  <2>2. Len(stream[e]) \in Nat /\ stream[e] \in Seq(Byte)
    BY DEF SocketTypeOK
  <2>3. ReadSizes(BodySize, Len(stream[e])) \subseteq 0..Len(stream[e])
    BY <2>2 DEF ReadSizes, AtMost, BodySize
  <2>4. SocketTypeOK'
    BY <1>5, <2>3, ReceiveSocketTyped DEF ReceiveBody
  <2>5. received' \in [Endpoint -> Seq(Byte)]
    <3>1. \A k \in 0..Len(stream[e]) : Prefix(e, k) \in Seq(Byte)
      BY <2>2 DEF Prefix
    <3>2. received \in [Endpoint -> Seq(Byte)]
      BY DEF DataTypeOK
    <3> QED BY <1>5, <2>3, <3>1, <3>2 DEF ReceiveBody
  <2>6. DataTypeOK'
    BY <1>5, <2>5 DEF ReceiveBody, DataTypeOK, queueVars, ageVars, supervisorVars
  <2> QED BY <2>1, <2>4, <2>6
<1>6. CASE ReceiveApply(e)
  <2>1. ControlTypeOK'
    BY <1>6, GotoTyped DEF ReceiveApply, Thread, Label
  <2>2. SocketTypeOK'
    BY <1>6, SocketFrame DEF ReceiveApply
  <2>3. received[e] \in Seq(Byte) /\ Len(received[e]) = 2
    BY <1>6 DEF ReceiveApply, At, BodyRead, BodySize, DataTypeOK
  <2>4. HeartbeatIn(received[e]) \in UInt16
    BY <2>3, HeartbeatInRange
  <2>5. DataTypeOK'
    BY <1>6, <2>4 DEF ReceiveApply, DataTypeOK, queueVars, ageVars, supervisorVars
  <2> QED BY <2>1, <2>2, <2>5
<1>7. CASE ReceiveActivate(e)
  <2>1. ControlTypeOK'
    BY <1>7 DEF ReceiveActivate, ControlTypeOK, Thread, Label
  <2>2. SocketTypeOK'
    BY <1>7, SocketFrame DEF ReceiveActivate
  <2>3. DataTypeOK'
    BY <1>7 DEF ReceiveActivate, DataTypeOK, queueVars, ageVars, supervisorVars
  <2> QED BY <2>1, <2>2, <2>3
<1> QED
  BY <1>1, <1>2, <1>3, <1>4, <1>5, <1>6, <1>7 DEF ReceiveStep

LEMMA SendTypes ==
    ASSUME TypeOK, NEW e \in Endpoint, SendStep(e)
    PROVE  TypeOK'
<1> USE DEF TypeOK
<1>1. CASE SendLoop(e)
  <2>1. ControlTypeOK'
    BY <1>1, GotoTyped DEF SendLoop, While, Thread, Label
  <2>2. SocketTypeOK'
    BY <1>1, SocketFrame DEF SendLoop, While
  <2>3. DataTypeOK'
    BY <1>1 DEF SendLoop, While, DataTypeOK, queueVars, ageVars, supervisorVars
  <2> QED BY <2>1, <2>2, <2>3
<1>2. CASE SendPeek(e) \/ SendLock(e)
  <2>1. ControlTypeOK'
    BY <1>2, GotoTyped DEF SendPeek, AfterPeek, SendLock, Thread, Label
  <2>2. SocketTypeOK'
    BY <1>2, SocketFrame DEF SendPeek, AfterPeek, SendLock
  <2>3. DataTypeOK'
    BY <1>2 DEF SendPeek, AfterPeek, SendLock, DataTypeOK, queueVars, ageVars, supervisorVars
  <2> QED BY <2>1, <2>2, <2>3
<1>3. CASE SendFront(e)
  <2>1. ControlTypeOK'
    BY <1>3, GotoTyped DEF SendFront, Breaks, EndProcess, ControlTypeOK, Thread, Label
  <2>2. SocketTypeOK'
    BY <1>3 DEF SendFront, Breaks, EndProcess, SocketTypeOK, socketVars
  <2>3. messageQueue[e] # <<>> => Head(messageQueue[e]) \in Message
    <3>1. messageQueue[e] # <<>> => Head(messageQueue[e]) \in UInt16
      BY DEF DataTypeOK
    <3> QED BY <3>1, MessageRange
  <2>4. sending' \in [Endpoint -> Message]
    BY <1>3, <2>3 DEF SendFront, Breaks, EndProcess, DataTypeOK
  <2>5. DataTypeOK'
    BY <1>3, <2>4 DEF SendFront, Breaks, EndProcess, DataTypeOK, queueVars, ageVars,
                      supervisorVars
  <2> QED BY <2>1, <2>2, <2>5
<1>4. CASE SendSend(e)
  <2>1. ControlTypeOK'
    BY <1>4, GotoTyped DEF SendSend, ControlTypeOK, Thread, Label
  <2>2. Payload(sending[e]) \in Seq(Byte)
    BY MessageRange, KeepAliveBytes DEF Payload, DataTypeOK
  <2>3. SocketTypeOK'
    <3>1. CASE SendDelivers(e, Payload(sending[e]))
      BY <3>1, <2>2 DEF SendDelivers, SocketTypeOK
    <3>2. CASE SendIsLost(e)
      BY <3>2 DEF SendIsLost, SocketTypeOK
    <3>3. CASE SendError(e, pc[e]["receive"] # "done")
      BY <3>3, SocketFrame DEF SendError
    <3>4. CASE SendRaisesSigpipe(e)
      BY <3>4 DEF SendRaisesSigpipe, SocketTypeOK
    <3> QED BY <1>4, <3>1, <3>2, <3>3, <3>4 DEF SendSend
  <2>4. DataTypeOK'
    BY <1>4 DEF SendSend, DataTypeOK, queueVars, ageVars, supervisorVars
  <2> QED BY <2>1, <2>3, <2>4
<1>5. CASE SendPop(e)
  <2>1. ControlTypeOK'
    BY <1>5, GotoTyped DEF SendPop, Breaks, EndProcess, ControlTypeOK, Thread, Label
  <2>2. SocketTypeOK'
    BY <1>5, SocketFrame DEF SendPop, Breaks, EndProcess, SocketTypeOK
  <2>3. messageQueue' \in [Endpoint -> Seq(UInt16)]
    <3>1. \A q \in Seq(UInt16) : PopFront(q) \in Seq(UInt16)
      BY DEF PopFront
    <3>2. PopFront(messageQueue[e]) \in Seq(UInt16) /\ messageQueue \in [Endpoint -> Seq(UInt16)]
      BY <3>1 DEF DataTypeOK
    <3>3. \/ messageQueue' = [messageQueue EXCEPT ![e] = PopFront(messageQueue[e])]
          \/ messageQueue' = messageQueue
      BY <1>5 DEF SendPop
    <3> QED BY <3>2, <3>3
  <2>4. DataTypeOK'
    BY <1>5, <2>3 DEF SendPop, Breaks, EndProcess, DataTypeOK, ageVars, supervisorVars
  <2> QED BY <2>1, <2>2, <2>4
<1>6. CASE SendStamp(e)
  <2>1. ControlTypeOK'
    BY <1>6, GotoTyped DEF SendStamp, Thread, Label
  <2>2. SocketTypeOK'
    BY <1>6, SocketFrame DEF SendStamp
  <2>3. DataTypeOK'
    BY <1>6, MessageRange, BoundAssumption
    DEF SendStamp, DataTypeOK, queueVars, supervisorVars
  <2> QED BY <2>1, <2>2, <2>3
<1> QED
  BY <1>1, <1>2, <1>3, <1>4, <1>5, <1>6 DEF SendStep

\* A thread that queues a message has one.
Carrying == {"check", "lock", "recheck", "construct", "bump"}
Carried ==
    \A e \in Endpoint : \A t \in Pusher : pc[e][t] \in Carrying => built[e][t] # NoMessage

LEMMA PushTypes ==
    ASSUME TypeOK, Carried, NEW e \in Endpoint, NEW t \in Pusher, PushStep(e, t)
    PROVE  TypeOK'
<1> USE DEF TypeOK
<1>a. t \in Thread /\ Return(t) \in Label
  BY DEF Pusher, Thread, Return, Label
<1>b. heartbeatTime[e] \in Message
  BY MessageRange DEF DataTypeOK
<1>1. CASE PushBuild(e, t)
  <2>1. ControlTypeOK'
    BY <1>1, <1>a, GotoTyped DEF PushBuild, Label
  <2>2. SocketTypeOK'
    BY <1>1, SocketFrame DEF PushBuild
  <2>3. DataTypeOK'
    BY <1>1, <1>b DEF PushBuild, DataTypeOK, ageVars, supervisorVars
  <2> QED BY <2>1, <2>2, <2>3
<1>2. CASE PushCheck(e, t) \/ PushRecheck(e, t)
  <2>1. ControlTypeOK'
    BY <1>2, <1>a, GotoTyped DEF PushCheck, PushRecheck, PushTest, Label
  <2>2. SocketTypeOK'
    BY <1>2, SocketFrame DEF PushCheck, PushRecheck, PushTest
  <2>3. DataTypeOK'
    <3>1. built \in [Endpoint -> [Pusher -> Message]] /\ built[e][t] \in Message
      BY DEF DataTypeOK
    <3>2. PICK m \in Message : built' = [built EXCEPT ![e][t] = m]
      BY <1>2, <3>1, MessageRange DEF PushCheck, PushRecheck, PushTest
    <3>3. built' \in [Endpoint -> [Pusher -> Message]]
      BY <3>1, <3>2
    <3> QED
      BY <1>2, <3>3
      DEF PushCheck, PushRecheck, PushTest, DataTypeOK, ageVars, supervisorVars
  <2> QED BY <2>1, <2>2, <2>3
<1>3. CASE PushLock(e, t)
  <2>1. ControlTypeOK'
    BY <1>3, <1>a, GotoTyped DEF PushLock, Label
  <2>2. SocketTypeOK'
    BY <1>3, SocketFrame DEF PushLock
  <2>3. DataTypeOK'
    BY <1>3 DEF PushLock, DataTypeOK, queueVars, ageVars, supervisorVars
  <2> QED BY <2>1, <2>2, <2>3
<1>4. CASE PushConstruct(e, t)
  <2>1. ControlTypeOK'
    BY <1>4, <1>a, GotoTyped DEF PushConstruct, Label
  <2>2. SocketTypeOK'
    BY <1>4, SocketFrame DEF PushConstruct
  <2>3. messageQueue' \in [Endpoint -> Seq(UInt16)] /\ torn' \in [Endpoint -> BOOLEAN]
    <3>1. <<>> \in Seq(UInt16) /\ TRUE \in BOOLEAN
      OBVIOUS
    <3>2. \/ /\ torn' = [torn EXCEPT ![e] = TRUE]
             /\ messageQueue' = [messageQueue EXCEPT ![e] = <<>>]
          \/ torn' = torn /\ messageQueue' = messageQueue
      BY <1>4 DEF PushConstruct
    <3> QED BY <3>1, <3>2 DEF DataTypeOK
  <2>4. DataTypeOK'
    BY <1>4, <2>3 DEF PushConstruct, DataTypeOK, ageVars, supervisorVars
  <2> QED BY <2>1, <2>2, <2>4
<1>5. CASE PushBump(e, t)
  <2>1. ControlTypeOK'
    BY <1>5, <1>a, GotoTyped DEF PushBump, Breaks, EndProcess, ControlTypeOK, Label
  <2>2. SocketTypeOK'
    BY <1>5, SocketFrame DEF PushBump, Breaks, EndProcess, SocketTypeOK
  <2>3. DataTypeOK'
    <3>1. built[e][t] \in UInt16
      BY <1>5, MessageRange DEF PushBump, Breaks, EndProcess, At, Carried, Carrying,
                                DataTypeOK
    <3>2. Append(messageQueue[e], built[e][t]) \in Seq(UInt16)
      BY <3>1 DEF DataTypeOK
    <3>3. messageQueue' \in [Endpoint -> Seq(UInt16)]
      <4>1. messageQueue \in [Endpoint -> Seq(UInt16)]
        BY DEF DataTypeOK
      <4>2. \/ messageQueue' = [messageQueue EXCEPT ![e] = Append(messageQueue[e], built[e][t])]
            \/ messageQueue' = [messageQueue EXCEPT ![e] = messageQueue[e]]
            \/ UNCHANGED messageQueue
        BY <1>5 DEF PushBump, Breaks, EndProcess, Enqueued
      <4> QED BY <3>2, <4>1, <4>2
    <3>4. built' \in [Endpoint -> [Pusher -> Message]]
      <4>1. built \in [Endpoint -> [Pusher -> Message]] /\ NoMessage \in Message
        BY MessageRange DEF DataTypeOK
      <4>2. built' = built \/ built' = [built EXCEPT ![e][t] = NoMessage]
        BY <1>5 DEF PushBump
      <4> QED BY <4>1, <4>2
    <3> QED
      BY <1>5, <3>3, <3>4 DEF PushBump, Breaks, EndProcess, DataTypeOK, ageVars,
                              supervisorVars
  <2> QED BY <2>1, <2>2, <2>3
<1> QED
  BY <1>1, <1>2, <1>3, <1>4, <1>5 DEF PushStep

LEMMA SupervisorTypes ==
    ASSUME TypeOK, Carried, NEW e \in Endpoint, SupervisorStep(e)
    PROVE  TypeOK'
<1> USE DEF TypeOK
<1>a. Nap(heartbeatTime[e]) \in UInt16 /\ Patience(heartbeatTime[e]) \in Nat
  BY PeriodsInRange DEF DataTypeOK
<1>1. CASE SupervisorPeriod(e)
  <2>1. ControlTypeOK'
    BY <1>1, GotoTyped DEF SupervisorPeriod, Thread, Label
  <2>2. SocketTypeOK'
    BY <1>1, SocketFrame DEF SupervisorPeriod
  <2>3. DataTypeOK'
    BY <1>1 DEF SupervisorPeriod, DataTypeOK, queueVars, ageVars, supervisorVars
  <2> QED BY <2>1, <2>2, <2>3
<1>2. CASE SupervisorPatience(e)
  <2>1. ControlTypeOK'
    BY <1>2, GotoTyped DEF SupervisorPatience, Thread, Label
  <2>2. SocketTypeOK'
    BY <1>2, SocketFrame DEF SupervisorPatience
  <2>3. DataTypeOK'
    BY <1>2, <1>a DEF SupervisorPatience, DataTypeOK, queueVars, ageVars, supervisorVars
  <2> QED BY <2>1, <2>2, <2>3
<1>3. CASE SupervisorLoop(e) \/ SupervisorWake(e) \/ Astray(e)
  <2>1. ControlTypeOK'
    BY <1>3, GotoTyped DEF SupervisorLoop, SupervisorWake, Astray, While, Thread, Label
  <2>2. SocketTypeOK'
    BY <1>3, SocketFrame DEF SupervisorLoop, SupervisorWake, Astray, While
  <2>3. DataTypeOK'
    BY <1>3
    DEF SupervisorLoop, SupervisorWake, Astray, While, DataTypeOK,
        queueVars, ageVars, supervisorVars
  <2> QED BY <2>1, <2>2, <2>3
<1>4. CASE SupervisorDiff(e)
  <2>1. ControlTypeOK'
    BY <1>4, GotoTyped DEF SupervisorDiff, Thread, Label
  <2>2. SocketTypeOK'
    BY <1>4, SocketFrame DEF SupervisorDiff
  <2>3. DataTypeOK'
    BY <1>4 DEF SupervisorDiff, Overdue, DataTypeOK, queueVars, ageVars
  <2> QED BY <2>1, <2>2, <2>3
<1>5. CASE SupervisorTimeout(e)
  <2>1. ControlTypeOK'
    BY <1>5, GotoTyped DEF SupervisorTimeout, Thread, Label
  <2>2. SocketTypeOK'
    BY <1>5, SocketFrame DEF SupervisorTimeout
  <2>3. DataTypeOK'
    BY <1>5
    DEF SupervisorTimeout, GoesOn, DataTypeOK, queueVars, ageVars, supervisorVars
  <2> QED BY <2>1, <2>2, <2>3
<1>6. CASE SupervisorSleep(e)
  <2>1. ControlTypeOK'
    BY <1>6, GotoTyped DEF SupervisorSleep, Thread, Label
  <2>2. SocketTypeOK'
    BY <1>6, SocketFrame DEF SupervisorSleep
  <2>3. DataTypeOK'
    BY <1>6, <1>a DEF SupervisorSleep, DataTypeOK, queueVars, ageVars, supervisorVars
  <2> QED BY <2>1, <2>2, <2>3
<1>7. CASE PushStep(e, "supervisor")
  BY <1>7, PushTypes DEF Pusher
<1> QED
  BY <1>1, <1>2, <1>3, <1>4, <1>5, <1>6, <1>7 DEF SupervisorStep

LEMMA OwnerTypes ==
    ASSUME TypeOK, Carried, NEW e \in Endpoint, OwnerStep(e)
    PROVE  TypeOK'
<1> USE DEF TypeOK
<1>1. CASE OwnerSupervise(e)
  <2>1. ControlTypeOK'
    BY <1>1, GotoTyped DEF OwnerSupervise, Thread, Label
  <2>2. SocketTypeOK'
    BY <1>1, SocketFrame DEF OwnerSupervise
  <2>3. DataTypeOK'
    BY <1>1, TimeAssumption
    DEF OwnerSupervise, AskedTime, DataTypeOK, queueVars, ageVars, supervisorVars
  <2> QED BY <2>1, <2>2, <2>3
<1>2. CASE OwnerClose(e)
  <2>1. ControlTypeOK'
    BY <1>2, GotoTyped DEF OwnerClose, Thread, Label
  <2>2. SocketTypeOK'
    BY <1>2, SocketFrame DEF OwnerClose, Close, SocketTypeOK
  <2>3. DataTypeOK'
    BY <1>2 DEF OwnerClose, DataTypeOK, queueVars, ageVars, supervisorVars
  <2> QED BY <2>1, <2>2, <2>3
<1>3. CASE OwnerStop(e)
  <2>1. ControlTypeOK'
    BY <1>3, GotoTyped DEF OwnerStop, Thread, Label
  <2>2. SocketTypeOK'
    BY <1>3, SocketFrame DEF OwnerStop
  <2>3. DataTypeOK'
    BY <1>3 DEF OwnerStop, DataTypeOK, queueVars, ageVars, supervisorVars
  <2> QED BY <2>1, <2>2, <2>3
<1>4. CASE OwnerJoinReceive(e) \/ OwnerJoinSend(e)
  <2>1. ControlTypeOK'
    BY <1>4, GotoTyped DEF OwnerJoinReceive, OwnerJoinSend, OwnerJoin, Thread, Label
  <2>2. SocketTypeOK'
    BY <1>4, SocketFrame DEF OwnerJoinReceive, OwnerJoinSend, OwnerJoin
  <2>3. DataTypeOK'
    BY <1>4
    DEF OwnerJoinReceive, OwnerJoinSend, OwnerJoin, DataTypeOK,
        queueVars, ageVars, supervisorVars
  <2> QED BY <2>1, <2>2, <2>3
<1>5. CASE OwnerExit(e) \/ OwnerBreaks(e)
  <2>1. ControlTypeOK'
    BY <1>5 DEF OwnerExit, OwnerBreaks, ControlTypeOK
  <2>2. SocketTypeOK'
    BY <1>5 DEF OwnerExit, OwnerBreaks, Breaks, EndProcess, SocketTypeOK
  <2>3. DataTypeOK'
    BY <1>5
    DEF OwnerExit, OwnerBreaks, DataTypeOK, queueVars, ageVars, supervisorVars
  <2> QED BY <2>1, <2>2, <2>3
<1>6. CASE PushStep(e, "owner")
  BY <1>6, PushTypes DEF Pusher
<1> QED
  BY <1>1, <1>2, <1>3, <1>4, <1>5, <1>6 DEF OwnerStep

LEMMA NetworkTypes ==
    ASSUME TypeOK, NEW e \in Endpoint, NetworkStep(e)
    PROVE  TypeOK'
<1> USE DEF TypeOK
<1>1. ControlTypeOK'
  BY DEF NetworkStep, ControlTypeOK
<1>2. SocketTypeOK'
  <2>1. CASE Release(e)
    <3>1. Peer[e] \in Endpoint
      BY <2>1 DEF Release
    <3>2. stream[Peer[e]] \in Seq(Byte)
      BY <3>1 DEF SocketTypeOK
    <3>3. stream' \in [Endpoint -> Seq(Byte)]
      <4>1. CASE stream[e] = <<>>
        BY <2>1, <4>1 DEF Release, SocketTypeOK
      <4>2. CASE stream[e] # <<>>
        <5>1. PICK lost \in BOOLEAN :
                  stream' = [q \in Endpoint |->
                               IF q = e \/ (q = Peer[e] /\ lost) THEN <<>> ELSE stream[q]]
          BY <2>1, <4>2 DEF Release
        <5>2. \A q \in Endpoint : stream[q] \in Seq(Byte)
          BY DEF SocketTypeOK
        <5>3. <<>> \in Seq(Byte)
          OBVIOUS
        <5> QED BY <5>1, <5>2, <5>3
      <4> QED BY <4>1, <4>2
    <3>4. \E r \in {"closed", "reset"} : remote' = [remote EXCEPT ![Peer[e]] = r]
      BY <2>1 DEF Release
    <3>5. remote' \in [Endpoint -> {"open", "closed", "reset"}]
      BY <3>4 DEF SocketTypeOK
    <3> QED BY <2>1, <3>3, <3>5 DEF Release, SocketTypeOK
  <2>2. CASE PeerCloses(e)
    BY <2>2 DEF PeerCloses, SocketTypeOK
  <2> QED BY <2>1, <2>2 DEF NetworkStep
<1>3. DataTypeOK'
  BY DEF NetworkStep, DataTypeOK, queueVars, ageVars, supervisorVars
<1> QED BY <1>1, <1>2, <1>3

LEMMA TickTypes ==
    ASSUME TypeOK, Tick
    PROVE  TypeOK'
<1> USE DEF TypeOK
<1>1. ControlTypeOK' /\ SocketTypeOK'
  BY SocketFrame DEF Tick, ControlTypeOK
<1>2. \A age \in 0..MaxAge : Older(age) \in 0..MaxAge
  BY BoundAssumption DEF Older, AtMost
<1>3. \A s \in UInt16 : (IF s > 0 THEN s - 1 ELSE 0) \in UInt16
  BY UInt16IsNat, WidthIsNat
<1>4. sinceReceived' \in [Endpoint -> 0..MaxAge] /\ sinceSent' \in [Endpoint -> 0..MaxAge]
  BY <1>2 DEF Tick, DataTypeOK
<1>5. sleepLeft' \in [Endpoint -> UInt16]
  BY <1>3 DEF Tick, DataTypeOK
<1>6. DataTypeOK'
  BY <1>4, <1>5 DEF Tick, DataTypeOK, queueVars
<1> QED BY <1>1, <1>6

-----------------------------------------------------------------------------
\* What each thread leaves alone.

LEMMA GotoOther ==
    ASSUME ControlTypeOK, NEW e \in Endpoint, NEW t \in Thread, NEW l, Goto(e, t, l),
           NEW u \in Thread, u # t
    PROVE  \A x \in Endpoint : pc'[x][u] = pc[x][u]
BY DEF ControlTypeOK, Goto

SendSide == <<messageQueue, torn, sending>>
ReceivesAlike == UNCHANGED received /\ \A x \in Endpoint : pc'[x]["receive"] = pc[x]["receive"]
SendsAlike == UNCHANGED SendSide /\ \A x \in Endpoint : pc'[x]["send"] = pc[x]["send"]

LEMMA ReceiveSendsAlike ==
    ASSUME ControlTypeOK, NEW e \in Endpoint, ReceiveStep(e)
    PROVE  SendsAlike
<1>1. CASE \E l : Goto(e, "receive", l)
  <2>1. \A x \in Endpoint : pc'[x]["send"] = pc[x]["send"]
    BY <1>1, GotoOther DEF Thread
  <2>2. UNCHANGED SendSide
    BY DEF ReceiveStep, ReceiveLoop, While, ReceiveSync, ReceiveHeader, ReceiveStamp,
           ReceiveBody, ReceiveApply, ReceiveActivate, SendSide, queueVars
  <2> QED BY <2>1, <2>2 DEF SendsAlike
<1>2. CASE ReceiveActivate(e)
  BY <1>2 DEF ReceiveActivate, ControlTypeOK, Thread, SendsAlike, SendSide, queueVars
<1>3. (\E l : Goto(e, "receive", l)) \/ ReceiveActivate(e)
  BY DEF ReceiveStep, ReceiveLoop, While, ReceiveSync, ReceiveHeader, ReceiveStamp,
         ReceiveBody, ReceiveApply
<1> QED BY <1>1, <1>2, <1>3

LEMMA SendReceivesAlike ==
    ASSUME ControlTypeOK, NEW e \in Endpoint, SendStep(e)
    PROVE  ReceivesAlike
<1>1. (\E l : Goto(e, "send", l)) \/ UNCHANGED pc
  BY DEF SendStep, SendLoop, While, SendPeek, SendLock, SendFront, SendSend, SendPop,
         Breaks, EndProcess, SendStamp
<1>2. \A x \in Endpoint : pc'[x]["receive"] = pc[x]["receive"]
  BY <1>1, GotoOther DEF Thread
<1>3. UNCHANGED received
  BY DEF SendStep, SendLoop, While, SendPeek, SendLock, SendFront, SendSend, SendPop,
         Breaks, EndProcess, SendStamp
<1> QED BY <1>2, <1>3 DEF ReceivesAlike

\* A thread that pushes changes the queue at its end only, or the deque is torn.
Appends(e) ==
    /\ UNCHANGED sending
    /\ \A x \in Endpoint : pc'[x]["send"] = pc[x]["send"]
    /\ \A x \in Endpoint : torn[x] => torn'[x]
    /\ \A x \in Endpoint :
          \/ torn'[x]
          \/ messageQueue'[x] = messageQueue[x]
          \/ \E m \in UInt16 : messageQueue'[x] = Append(messageQueue[x], m)

LEMMA PushAppends ==
    ASSUME TypeOK, Carried, NEW e \in Endpoint, NEW t \in Pusher, PushStep(e, t)
    PROVE  Appends(e) /\ ReceivesAlike
<1>1. (\E l : Goto(e, t, l)) \/ UNCHANGED pc
  BY DEF PushStep, PushBuild, PushCheck, PushRecheck, PushTest, PushLock, PushConstruct,
         PushBump
<1>2. \A x \in Endpoint :
          pc'[x]["send"] = pc[x]["send"] /\ pc'[x]["receive"] = pc[x]["receive"]
  BY <1>1, GotoOther DEF Thread, Pusher, TypeOK
<1>3. UNCHANGED <<sending, received>>
  BY DEF PushStep, PushBuild, PushCheck, PushRecheck, PushTest, PushLock, PushConstruct,
         PushBump
<1>4. /\ \A x \in Endpoint : torn[x] => torn'[x]
      /\ \A x \in Endpoint :
            \/ torn'[x]
            \/ messageQueue'[x] = messageQueue[x]
            \/ \E m \in UInt16 : messageQueue'[x] = Append(messageQueue[x], m)
  <2>1. CASE PushBump(e, t)
    <3>1. built[e][t] \in UInt16
      BY <2>1, MessageRange DEF PushBump, At, Carried, Carrying, TypeOK, DataTypeOK
    <3>2. UNCHANGED torn /\ \A x \in Endpoint \ {e} : messageQueue'[x] = messageQueue[x]
      BY <2>1 DEF PushBump, TypeOK, DataTypeOK
    <3>3. \/ messageQueue'[e] = messageQueue[e]
          \/ messageQueue'[e] = Append(messageQueue[e], built[e][t])
      BY <2>1 DEF PushBump, Enqueued, TypeOK, DataTypeOK
    <3> QED BY <3>1, <3>2, <3>3
  <2>2. CASE PushConstruct(e, t)
    <3>1. \A x \in Endpoint \ {e} : torn'[x] = torn[x] /\ messageQueue'[x] = messageQueue[x]
      BY <2>2 DEF PushConstruct, TypeOK, DataTypeOK
    <3>2. torn'[e] = TRUE \/ UNCHANGED <<torn, messageQueue>>
      BY <2>2 DEF PushConstruct, TypeOK, DataTypeOK
    <3> QED BY <3>1, <3>2
  <2>3. CASE ~PushBump(e, t) /\ ~PushConstruct(e, t)
    BY <2>3 DEF PushStep, PushBuild, PushCheck, PushRecheck, PushTest, PushLock, queueVars
  <2> QED BY <2>1, <2>2, <2>3
<1> QED BY <1>2, <1>3, <1>4 DEF Appends, ReceivesAlike

LEMMA SupervisorAppends ==
    ASSUME TypeOK, Carried, NEW e \in Endpoint, SupervisorStep(e)
    PROVE  Appends(e) /\ ReceivesAlike
<1>1. CASE PushStep(e, "supervisor")
  BY <1>1, PushAppends DEF Pusher
<1>2. CASE ~PushStep(e, "supervisor")
  <2>1. \E l : Goto(e, "supervisor", l)
    BY <1>2
    DEF SupervisorStep, SupervisorPeriod, SupervisorPatience, SupervisorLoop, While,
        SupervisorDiff, SupervisorTimeout, SupervisorSleep, SupervisorWake, Astray
  <2>2. \A x \in Endpoint :
            pc'[x]["send"] = pc[x]["send"] /\ pc'[x]["receive"] = pc[x]["receive"]
    BY <2>1, GotoOther DEF Thread, TypeOK
  <2>3. UNCHANGED <<messageQueue, torn, sending, received>>
    BY <1>2
    DEF SupervisorStep, SupervisorPeriod, SupervisorPatience, SupervisorLoop, While,
        SupervisorDiff, SupervisorTimeout, SupervisorSleep, SupervisorWake, Astray,
        queueVars
  <2> QED BY <2>2, <2>3 DEF Appends, ReceivesAlike
<1> QED BY <1>1, <1>2

LEMMA OwnerAppends ==
    ASSUME TypeOK, Carried, NEW e \in Endpoint, OwnerStep(e)
    PROVE  Appends(e) /\ ReceivesAlike
<1>1. CASE PushStep(e, "owner")
  BY <1>1, PushAppends DEF Pusher
<1>2. CASE ~PushStep(e, "owner")
  <2>1. (\E l : Goto(e, "owner", l)) \/ UNCHANGED pc
    BY <1>2
    DEF OwnerStep, OwnerSupervise, OwnerClose, OwnerStop, OwnerJoinReceive, OwnerJoinSend,
        OwnerJoin, OwnerExit, OwnerBreaks, Breaks, EndProcess
  <2>2. \A x \in Endpoint :
            pc'[x]["send"] = pc[x]["send"] /\ pc'[x]["receive"] = pc[x]["receive"]
    BY <2>1, GotoOther DEF Thread, TypeOK
  <2>3. UNCHANGED <<messageQueue, torn, sending, received>>
    BY <1>2
    DEF OwnerStep, OwnerSupervise, OwnerClose, OwnerStop, OwnerJoinReceive, OwnerJoinSend,
        OwnerJoin, OwnerExit, OwnerBreaks, Breaks, EndProcess, queueVars
  <2> QED BY <2>2, <2>3 DEF Appends, ReceivesAlike
<1> QED BY <1>1, <1>2

-----------------------------------------------------------------------------
\* The inductive invariant: the types, and what each of the two loops carries
\* from one of its steps to the next.

LInv == TypeOK /\ BodyRead /\ MessageTaken /\ SendsFront /\ Carried

LEMMA BodyReadFrame ==
    ASSUME BodyRead, ReceivesAlike
    PROVE  BodyRead'
BY DEF BodyRead, ReceivesAlike

LEMMA BodyReadByReceive ==
    ASSUME TypeOK, BodyRead, NEW e \in Endpoint, ReceiveStep(e)
    PROVE  BodyRead'
<1>1. CASE ReceiveBody(e)
  <2> SUFFICES ASSUME NEW x \in Endpoint, pc'[x]["receive"] = "apply"
               PROVE  Len(received'[x]) = BodySize
    BY DEF BodyRead
  <2>1. CASE x = e
    <3>1. PICK k \in ReadSizes(BodySize, Len(stream[e])) :
              k = BodySize /\ received' = [received EXCEPT ![e] = Prefix(e, k)]
      BY <1>1, <2>1 DEF ReceiveBody, Goto, TypeOK, ControlTypeOK, Thread
    <3>2. stream[e] \in Seq(Byte) /\ Len(stream[e]) \in Nat
      BY DEF TypeOK, SocketTypeOK
    <3>3. BodySize \in 0..Len(stream[e])
      <4>1. ReadSizes(BodySize, Len(stream[e])) \subseteq 0..Len(stream[e])
        BY <3>2 DEF ReadSizes, AtMost, BodySize
      <4>2. BodySize \in ReadSizes(BodySize, Len(stream[e]))
        BY <3>1
      <4> QED BY <4>1, <4>2
    <3>4. Len(Prefix(e, BodySize)) = BodySize
      BY <3>2, <3>3 DEF Prefix, BodySize
    <3> QED BY <2>1, <3>1, <3>4 DEF TypeOK, DataTypeOK
  <2>2. CASE x # e
    BY <1>1, <2>2 DEF ReceiveBody, Goto, BodyRead, TypeOK, ControlTypeOK, DataTypeOK
  <2> QED BY <2>1, <2>2
<1>2. CASE ~ReceiveBody(e)
  <2>1. pc'[e]["receive"] # "apply"
    BY <1>2
    DEF ReceiveStep, ReceiveLoop, While, ReceiveSync, AfterSync, ReceiveHeader,
        ReceiveStamp, ReceiveApply, ReceiveActivate, Goto, TypeOK, ControlTypeOK, Thread
  <2>2. \A x \in Endpoint \ {e} :
            pc'[x]["receive"] = pc[x]["receive"] /\ received'[x] = received[x]
    BY <1>2
    DEF ReceiveStep, ReceiveLoop, While, ReceiveSync, ReceiveHeader, ReceiveStamp,
        ReceiveApply, ReceiveActivate, Goto, TypeOK, ControlTypeOK, DataTypeOK
  <2> QED BY <2>1, <2>2 DEF BodyRead
<1> QED BY <1>1, <1>2

\* A queue that only grows at its end keeps its front.
LEMMA FrontFrame ==
    ASSUME TypeOK, SendsFront, MessageTaken, NEW e \in Endpoint, Appends(e)
    PROVE  SendsFront' /\ MessageTaken'
<1>1. \A x \in Endpoint : messageQueue[x] # <<>> /\ ~torn'[x] =>
          messageQueue'[x] # <<>> /\ Head(messageQueue'[x]) = Head(messageQueue[x])
  <2>1. \A q \in Seq(UInt16) : \A m \in UInt16 : q # <<>> =>
            Append(q, m) # <<>> /\ Head(Append(q, m)) = Head(q)
    OBVIOUS
  <2>2. \A x \in Endpoint : messageQueue[x] \in Seq(UInt16)
    BY DEF TypeOK, DataTypeOK
  <2> QED BY <2>1, <2>2 DEF Appends
<1>2. \A x \in Endpoint : torn[x] \in BOOLEAN
  BY DEF TypeOK, DataTypeOK
<1> QED BY <1>1, <1>2 DEF SendsFront, MessageTaken, Appends

LEMMA FrontBySend ==
    ASSUME TypeOK, SendsFront, MessageTaken, NEW e \in Endpoint, SendStep(e)
    PROVE  SendsFront' /\ MessageTaken'
<1> USE DEF TypeOK, ControlTypeOK, Thread
<1>0. messageQueue[e] \in Seq(UInt16) /\ NoMessage \notin UInt16
  BY MessageRange DEF DataTypeOK
<1>1. \A x \in Endpoint \ {e} :
          /\ pc'[x]["send"] = pc[x]["send"]
          /\ messageQueue'[x] = messageQueue[x] /\ sending'[x] = sending[x]
  BY DEF SendStep, SendLoop, While, SendPeek, SendLock, SendFront, SendSend, SendPop,
         SendStamp, Goto, DataTypeOK, queueVars
<1>2. UNCHANGED torn
  BY DEF SendStep, SendLoop, While, SendPeek, SendLock, SendFront, SendSend, SendPop,
         SendStamp, queueVars
<1>3. ~torn[e] /\ pc'[e]["send"] \in {"send", "pop"} =>
          /\ messageQueue'[e] # <<>> /\ Head(messageQueue'[e]) = sending'[e]
          /\ pc'[e]["send"] = "send" => sending'[e] # NoMessage
  <2>1. CASE SendFront(e)
    <3>1. messageQueue[e] # <<>> => Head(messageQueue[e]) # NoMessage
      BY <1>0
    <3> QED BY <2>1, <3>1 DEF SendFront, Breaks, At, Goto, DataTypeOK, queueVars
  <2>2. CASE SendSend(e)
    BY <2>2 DEF SendSend, At, Goto, SendsFront, MessageTaken, queueVars
  <2>3. CASE SendPop(e)
    BY <2>3 DEF SendPop, Breaks, Goto
  <2>4. CASE ~(SendFront(e) \/ SendSend(e) \/ SendPop(e))
    BY <2>4
    DEF SendStep, SendLoop, While, SendPeek, AfterPeek, SendLock, SendStamp, Goto
  <2> QED BY <2>1, <2>2, <2>3, <2>4
<1> QED BY <1>1, <1>2, <1>3 DEF SendsFront, MessageTaken

\* Only a thread that pushes has something to do with what it carries.
Carries(e) ==
    /\ UNCHANGED built
    /\ \A x \in Endpoint : \A t \in Pusher :
          pc'[x][t] \in Carrying => pc'[x][t] = pc[x][t]

LEMMA CarriedByPush ==
    ASSUME TypeOK, Carried, NEW e \in Endpoint, NEW t \in Pusher, PushStep(e, t)
    PROVE  Carried'
<1> USE DEF TypeOK, ControlTypeOK, DataTypeOK
<1>0. t \in Thread /\ heartbeatTime[e] # NoMessage /\ Return(t) \notin Carrying
  BY MessageRange DEF Pusher, Thread, Return, Carrying
<1>1. \A x \in Endpoint : \A u \in Pusher : x # e \/ u # t =>
          pc'[x][u] = pc[x][u] /\ built'[x][u] = built[x][u]
  BY <1>0 DEF PushStep, PushBuild, PushCheck, PushRecheck, PushTest, PushLock, PushConstruct,
              PushBump, Breaks, Goto, Pusher, Thread, queueVars
<1>2. pc'[e][t] \in Carrying => built'[e][t] # NoMessage
  BY <1>0
  DEF PushStep, PushBuild, PushCheck, PushRecheck, PushTest, PushLock, PushConstruct,
      PushBump, Breaks, At, Goto, Carried, Carrying, queueVars
<1> SUFFICES ASSUME NEW x \in Endpoint, NEW u \in Pusher, pc'[x][u] \in Carrying
             PROVE  built'[x][u] # NoMessage
  BY DEF Carried
<1>3. CASE x = e /\ u = t
  BY <1>2, <1>3
<1>4. CASE x # e \/ u # t
  <2>1. pc'[x][u] = pc[x][u] /\ built'[x][u] = built[x][u]
    BY <1>1, <1>4
  <2>2. built[x][u] # NoMessage
    BY <2>1 DEF Carried
  <2> QED BY <2>1, <2>2
<1> QED BY <1>3, <1>4

LEMMA CarriedElse ==
    ASSUME TypeOK, Carried, NEW e \in Endpoint, ThreadStep(e) \/ NetworkStep(e)
    PROVE  Carried'
<1> USE DEF TypeOK, ControlTypeOK, Thread, Pusher
<1>0. ASSUME Carries(e) PROVE Carried'
  BY <1>0 DEF Carries, Carried
<1>1. CASE ReceiveStep(e)
  <2>1. Carries(e)
    BY <1>1 DEF ReceiveStep, ReceiveLoop, While, ReceiveSync, ReceiveHeader, ReceiveStamp,
              ReceiveBody, ReceiveApply, ReceiveActivate, Goto, Carrying, Carries, queueVars
  <2> QED BY <1>0, <2>1
<1>2. CASE SendStep(e)
  <2>1. Carries(e)
    BY <1>2 DEF SendStep, SendLoop, While, SendPeek, SendLock, SendFront, SendSend, SendPop,
              SendStamp, Goto, Carrying, Carries, queueVars
  <2> QED BY <1>0, <2>1
<1>3. CASE SupervisorStep(e) /\ ~PushStep(e, "supervisor")
  <2>1. Carries(e)
    BY <1>3
    DEF SupervisorStep, SupervisorPeriod, SupervisorPatience, SupervisorLoop, While,
        SupervisorDiff, SupervisorTimeout, SupervisorSleep, SupervisorWake, Astray, Goto,
        Carrying, Carries, queueVars
  <2> QED BY <1>0, <2>1
<1>4. CASE OwnerStep(e) /\ ~PushStep(e, "owner")
  <2>1. Carries(e)
    BY <1>4
    DEF OwnerStep, OwnerSupervise, OwnerClose, OwnerStop, OwnerJoinReceive, OwnerJoinSend,
        OwnerJoin, OwnerExit, OwnerBreaks, Goto, Carrying, Carries, queueVars
  <2> QED BY <1>0, <2>1
<1>5. CASE NetworkStep(e)
  <2>1. Carries(e)
    BY <1>5 DEF NetworkStep, Carries, queueVars
  <2> QED BY <1>0, <2>1
<1> QED BY <1>1, <1>2, <1>3, <1>4, <1>5, CarriedByPush DEF ThreadStep

\* LInv holds initially and is kept by every step.
LEMMA InitLInv == Init => LInv
<1> SUFFICES ASSUME Init PROVE LInv
  OBVIOUS
<1>1. SocketTypeOK
  <2>1. stream \in [Endpoint -> Seq(Byte)]
    <3>1. stream \in [Endpoint -> Script \cup {<<>>}]
      BY DEF Init, SocketInit
    <3>2. Script \cup {<<>>} \subseteq Seq(Byte)
      <4>1. <<>> \in Seq(Byte)
        OBVIOUS
      <4> QED BY <4>1, ScriptAssumption, Zenon
    <3> QED BY <3>1, <3>2
  <2>2. fd \in [Endpoint -> {"open", "pinned", "closed"}]
    BY DEF Init, SocketInit
  <2>3. remote \in [Endpoint -> {"open", "closed", "reset"}]
    BY DEF Init, SocketInit
  <2>4. process \in [Endpoint -> {"up", "killed", "exited"}]
    BY DEF Init, SocketInit
  <2> QED BY <2>1, <2>2, <2>3, <2>4 DEF SocketTypeOK
<1>2. ControlTypeOK
  <2>1. \A e \in Endpoint : \A t \in Thread : StartLabel(e, t) \in Label
    BY DEF StartLabel, Thread, Label
  <2> QED BY <2>1 DEF Init, ControlTypeOK
<1>3. DataTypeOK
  <2>1. /\ 0 \in UInt16 /\ DefaultTime \in UInt16 /\ 0 \in 0..MaxAge
        /\ NoMessage \in Message /\ <<>> \in Seq(UInt16) /\ <<>> \in Seq(Byte)
    BY MessageRange, UInt16IsNat, WidthIs, BoundAssumption DEF DefaultTime
  <2> QED BY <2>1 DEF Init, DataTypeOK
<1>4. \A e \in Endpoint : pc[e]["send"] \in {"loop", "done"} /\ pc[e]["receive"] \in {"loop", "done"}
  BY DEF Init, StartLabel, Thread
<1>5. Carried
  BY DEF Init, StartLabel, Thread, Pusher, Carried, Carrying
<1> QED BY <1>1, <1>2, <1>3, <1>4, <1>5 DEF LInv, TypeOK, BodyRead, MessageTaken, SendsFront

LEMMA NextLInv == LInv /\ [Next]_vars => LInv'
<1> SUFFICES ASSUME LInv, [Next]_vars PROVE LInv'
  OBVIOUS
<1> USE DEF LInv
<1>1. ASSUME NEW e \in Endpoint, ReceiveStep(e) PROVE LInv'
  <2>1. TypeOK'
    BY <1>1, ReceiveTypes
  <2>2. BodyRead'
    BY <1>1, BodyReadByReceive
  <2>3. SendsFront' /\ MessageTaken'
    <3>1. SendsAlike
      BY <1>1, ReceiveSendsAlike DEF TypeOK
    <3>2. Appends(e)
      BY <3>1 DEF SendsAlike, SendSide, Appends
    <3> QED BY <3>2, FrontFrame
  <2> QED BY <1>1, <2>1, <2>2, <2>3, CarriedElse DEF ThreadStep
<1>2. ASSUME NEW e \in Endpoint, SendStep(e) PROVE LInv'
  <2>1. TypeOK'
    BY <1>2, SendTypes
  <2>2. BodyRead'
    BY <1>2, SendReceivesAlike, BodyReadFrame DEF TypeOK
  <2>3. SendsFront' /\ MessageTaken'
    BY <1>2, FrontBySend
  <2> QED BY <1>2, <2>1, <2>2, <2>3, CarriedElse DEF ThreadStep
<1>3. ASSUME NEW e \in Endpoint, SupervisorStep(e) PROVE LInv'
  <2>1. TypeOK'
    BY <1>3, SupervisorTypes
  <2>2. Appends(e) /\ ReceivesAlike
    BY <1>3, SupervisorAppends
  <2> QED BY <1>3, <2>1, <2>2, BodyReadFrame, FrontFrame, CarriedElse DEF ThreadStep
<1>4. ASSUME NEW e \in Endpoint, OwnerStep(e) PROVE LInv'
  <2>1. TypeOK'
    BY <1>4, OwnerTypes
  <2>2. Appends(e) /\ ReceivesAlike
    BY <1>4, OwnerAppends
  <2> QED BY <1>4, <2>1, <2>2, BodyReadFrame, FrontFrame, CarriedElse DEF ThreadStep
<1>5. ASSUME NEW e \in Endpoint, NetworkStep(e) PROVE LInv'
  <2>1. TypeOK'
    BY <1>5, NetworkTypes
  <2>2. Appends(e) /\ ReceivesAlike
    BY <1>5 DEF NetworkStep, Appends, ReceivesAlike, queueVars
  <2> QED BY <1>5, <2>1, <2>2, BodyReadFrame, FrontFrame, CarriedElse
<1>6. CASE Tick
  <2>1. TypeOK'
    BY <1>6, TickTypes
  <2>2. UNCHANGED <<pc, received, messageQueue, torn, built, sending>>
    BY <1>6 DEF Tick, queueVars
  <2> QED BY <2>1, <2>2 DEF BodyRead, MessageTaken, SendsFront, Carried
<1>7. CASE UNCHANGED vars
  BY <1>7
  DEF vars, socketVars, queueVars, ageVars, supervisorVars, TypeOK, SocketTypeOK,
      ControlTypeOK, DataTypeOK, BodyRead, MessageTaken, SendsFront, Carried
<1> QED
  BY <1>1, <1>2, <1>3, <1>4, <1>5, <1>6, <1>7 DEF Next, ThreadStep

LEMMA LInvariant == Spec => []LInv
BY InitLInv, NextLInv, PTL DEF Spec

-----------------------------------------------------------------------------
\* Every variable of every endpoint keeps its type, whatever bytes arrive and
\* however they are cut: in particular the heartbeat time taken from the wire,
\* and the periods and the sleep computed from it, stay in their C++ ranges.
THEOREM TypeCorrect == Spec => []TypeOK
<1>1. LInv => TypeOK
  BY DEF LInv
<1> QED BY LInvariant, <1>1, PTL

\* sendLoop pops what it sent (OcpConnectionEndpoint.cxx:266-299): as long as the
\* owner and the supervisor have not been in push_back at once, neither can put
\* another message in front between the copy, made under the mutex, and pop_front,
\* made without it.
THEOREM SendsFrontAlways == Spec => []SendsFront
<1>1. LInv => SendsFront
  BY DEF LInv
<1> QED BY LInvariant, <1>1, PTL

-----------------------------------------------------------------------------
\* The life of an endpoint.  What its owner knows after each join:
Ending ==
    \A e \in Endpoint :
        /\ pc[e]["owner"] \in {"joinReceive", "joinSend", "freed"} => ~shouldContinue[e]
        /\ pc[e]["owner"] \in {"joinSend", "freed"} => pc[e]["receive"] = "done"
        /\ pc[e]["owner"] = "freed" => pc[e]["send"] = "done"

\* What Lifecycle sees of endpoint x.
Unmoved(x) ==
    /\ shouldContinue'[x] = shouldContinue[x]
    /\ \A t \in {"owner", "receive", "send"} : pc'[x][t] = pc[x][t]

LEMMA UnmovedStutters ==
    ASSUME NEW x, Unmoved(x)
    PROVE  UNCHANGED Life(x)!vars
BY DEF Unmoved, Life!vars, Phase

\* A step of one thread of one endpoint moves nothing else.
Moves(e, t) ==
    /\ \A x \in Endpoint \ {e} : Unmoved(x)
    /\ \A u \in {"owner", "receive", "send"} \ {t} : pc'[e][u] = pc[e][u]

LEMMA ReceiveMoves ==
    ASSUME ControlTypeOK, NEW e \in Endpoint, ReceiveStep(e)
    PROVE  /\ Moves(e, "receive") /\ UNCHANGED shouldContinue
           /\ pc[e]["receive"] # "done"
<1>1. CASE \E l : Goto(e, "receive", l)
  BY <1>1 DEF ReceiveStep, ReceiveLoop, While, ReceiveSync, ReceiveHeader, ReceiveStamp,
              ReceiveBody, ReceiveApply, ReceiveActivate, At, Goto, ControlTypeOK, Thread,
              Moves, Unmoved
<1>2. CASE ReceiveActivate(e)
  BY <1>2 DEF ReceiveActivate, At, ControlTypeOK, Thread, Moves, Unmoved
<1>3. (\E l : Goto(e, "receive", l)) \/ ReceiveActivate(e)
  BY DEF ReceiveStep, ReceiveLoop, While, ReceiveSync, ReceiveHeader, ReceiveStamp,
         ReceiveBody, ReceiveApply
<1> QED BY <1>1, <1>2, <1>3

LEMMA SendMoves ==
    ASSUME ControlTypeOK, NEW e \in Endpoint, SendStep(e)
    PROVE  /\ Moves(e, "send") /\ UNCHANGED shouldContinue
           /\ pc[e]["send"] # "done"
           /\ pc'[e]["send"] = "done" => ~shouldContinue[e]
<1>1. (\E l : Goto(e, "send", l)) \/ UNCHANGED pc
  BY DEF SendStep, SendLoop, While, SendPeek, SendLock, SendFront, SendSend, SendPop,
         Breaks, EndProcess, SendStamp
<1>2. Moves(e, "send") /\ UNCHANGED shouldContinue
  BY <1>1 DEF SendStep, SendLoop, While, SendPeek, SendLock, SendFront, SendSend, SendPop,
              Breaks, EndProcess, SendStamp, Goto, ControlTypeOK, Thread, Moves, Unmoved
<1>3. pc[e]["send"] # "done"
  BY DEF SendStep, SendLoop, While, SendPeek, SendLock, SendFront, SendSend, SendPop,
         Breaks, EndProcess, SendStamp, At
<1>4. pc'[e]["send"] = "done" => ~shouldContinue[e]
  BY DEF SendStep, SendLoop, While, SendPeek, AfterPeek, SendLock, SendFront, SendSend,
         SendPop, Breaks, EndProcess, SendStamp, At, Goto, ControlTypeOK, Thread
<1> QED BY <1>2, <1>3, <1>4

\* The supervisor moves none of the three, and only lets the flag fall.
LEMMA SupervisorMoves ==
    ASSUME ControlTypeOK, DataTypeOK, NEW e \in Endpoint, SupervisorStep(e)
    PROVE  /\ Moves(e, "supervisor")
           /\ \/ shouldContinue'[e] = shouldContinue[e]
              \/ shouldContinue'[e] = FALSE /\ pc[e]["owner"] # "freed"
<1>1. (\E l : Goto(e, "supervisor", l)) \/ UNCHANGED pc
  BY DEF SupervisorStep, SupervisorPeriod, SupervisorPatience, SupervisorLoop, While,
         SupervisorDiff, SupervisorTimeout, SupervisorSleep, SupervisorWake, Astray,
         PushStep, PushBuild, PushCheck, PushRecheck, PushTest, PushLock, PushConstruct,
         PushBump, Breaks, EndProcess
<1>2. CASE SupervisorTimeout(e)
  <2>1. shouldContinue[e] \in BOOLEAN /\ expired[e] \in BOOLEAN
    BY DEF DataTypeOK
  <2>2. GoesOn(shouldContinue[e], expired[e]) \in {shouldContinue[e], FALSE}
    BY <2>1, Zenon DEF GoesOn
  <2>3. shouldContinue' = [shouldContinue EXCEPT ![e] =
                              GoesOn(shouldContinue[e], expired[e])]
    BY <1>2 DEF SupervisorTimeout
  <2> HIDE DEF GoesOn
  <2>4. pc[e]["owner"] # "freed"
    BY <1>2 DEF SupervisorTimeout, At, Running
  <2>5. /\ shouldContinue'[e] \in {shouldContinue[e], FALSE}
        /\ \A x \in Endpoint \ {e} : shouldContinue'[x] = shouldContinue[x]
    BY <2>2, <2>3, Zenon DEF DataTypeOK
  <2>6. \A x \in Endpoint : \A u \in Thread \ {"supervisor"} : pc'[x][u] = pc[x][u]
    BY <1>1, GotoOther DEF Thread
  <2> QED BY <2>4, <2>5, <2>6 DEF Thread, Moves, Unmoved
<1>3. CASE ~SupervisorTimeout(e)
  <2>1. UNCHANGED shouldContinue
    BY <1>3
    DEF SupervisorStep, SupervisorPeriod, SupervisorPatience, SupervisorLoop, While,
        SupervisorDiff, SupervisorSleep, SupervisorWake, Astray, PushStep, PushBuild,
        PushCheck, PushRecheck, PushTest, PushLock, PushConstruct, PushBump, Breaks,
        EndProcess
  <2> QED BY <1>1, <2>1 DEF Goto, ControlTypeOK, Thread, Moves, Unmoved
<1> QED BY <1>2, <1>3

OwnerEnds(e) == OwnerStop(e) \/ OwnerJoinReceive(e) \/ OwnerJoinSend(e)

\* Outside of the destructor the owner moves, for Lifecycle, nothing at all.
LEMMA OwnerMoves ==
    ASSUME ControlTypeOK, DataTypeOK, NEW e \in Endpoint, OwnerStep(e)
    PROVE  /\ Moves(e, "owner")
           /\ OwnerStop(e) \/ UNCHANGED shouldContinue
           /\ \/ OwnerEnds(e)
              \/ /\ Phase(e)' = Phase(e)
                 /\ pc'[e]["owner"] \in {"joinReceive", "joinSend", "freed"}
                       => pc'[e]["owner"] = pc[e]["owner"]
<1>1. (\E l : Goto(e, "owner", l)) \/ UNCHANGED pc
  BY DEF OwnerStep, OwnerSupervise, OwnerClose, OwnerStop, OwnerJoinReceive,
         OwnerJoinSend, OwnerJoin, OwnerExit, OwnerBreaks, Breaks, EndProcess, PushStep,
         PushBuild, PushCheck, PushRecheck, PushTest, PushLock, PushConstruct, PushBump
<1>2. OwnerStop(e) \/ UNCHANGED shouldContinue
  BY DEF OwnerStep, OwnerSupervise, OwnerClose, OwnerJoinReceive, OwnerJoinSend,
         OwnerJoin, OwnerExit, OwnerBreaks, Breaks, EndProcess, PushStep, PushBuild,
         PushCheck, PushRecheck, PushTest, PushLock, PushConstruct, PushBump
<1>3. Moves(e, "owner")
  BY <1>1, <1>2 DEF OwnerStop, Goto, ControlTypeOK, DataTypeOK, Thread, Moves, Unmoved
<1>4. ASSUME ~OwnerEnds(e)
      PROVE  /\ Phase(e)' = Phase(e)
             /\ pc'[e]["owner"] \in {"joinReceive", "joinSend", "freed"}
                   => pc'[e]["owner"] = pc[e]["owner"]
  <2>1. CASE PushStep(e, "owner")
    BY <2>1 DEF PushStep, PushBuild, PushCheck, PushRecheck, PushTest, PushLock,
                PushConstruct, PushBump, Breaks, EndProcess, At, Goto, Return,
                ControlTypeOK, Thread, Phase
  <2>2. CASE OwnerSupervise(e) \/ OwnerClose(e) \/ OwnerExit(e) \/ OwnerBreaks(e)
    BY <2>2 DEF OwnerSupervise, OwnerClose, OwnerExit, OwnerBreaks, At, Goto, ControlTypeOK, Thread, Phase
  <2> QED BY <1>4, <2>1, <2>2 DEF OwnerStep, OwnerEnds
<1> QED BY <1>2, <1>3, <1>4


LEMMA InitLife == Init => Ending /\ \A e \in Endpoint : Life(e)!Init
<1> SUFFICES ASSUME Init PROVE Ending /\ \A e \in Endpoint : Life(e)!Init
  OBVIOUS
<1>1. \A e \in Endpoint :
          /\ pc[e]["owner"] \in {"supervise", "serving"} /\ shouldContinue[e] = TRUE
          /\ pc[e]["receive"] = pc[e]["send"]
  BY DEF Init, StartLabel, Thread
<1> QED BY <1>1 DEF Ending, Life!Init, Phase

LifeSteps == \A x \in Endpoint : [Life(x)!Next]_<<Life(x)!vars>>

\* All but one endpoint stutter; that one takes a step of Lifecycle or stutters too.
LEMMA OneMoves ==
    ASSUME NEW e \in Endpoint, NEW t, Moves(e, t), [Life(e)!Next]_<<Life(e)!vars>>
    PROVE  LifeSteps
BY UnmovedStutters DEF Moves, LifeSteps

LEMMA NextLife == LInv /\ Ending /\ [Next]_vars => Ending' /\ LifeSteps
<1> SUFFICES ASSUME LInv, Ending, [Next]_vars PROVE Ending' /\ LifeSteps
  OBVIOUS
<1>0. ControlTypeOK /\ DataTypeOK
  BY DEF LInv, TypeOK
<1>1. ASSUME NEW e \in Endpoint, ReceiveStep(e) PROVE Ending' /\ LifeSteps
  <2>1. Moves(e, "receive") /\ UNCHANGED shouldContinue /\ pc[e]["receive"] # "done"
    BY <1>0, <1>1, ReceiveMoves
  <2>2. Ending'
    BY <2>1 DEF Ending, Moves, Unmoved
  <2>3. Life(e)!ReceiveEnds \/ UNCHANGED Life(e)!vars
    BY <2>1 DEF Moves, Phase, Life!ReceiveEnds, Life!vars
  <2> QED BY <2>1, <2>2, <2>3, OneMoves DEF Life!Next
<1>2. ASSUME NEW e \in Endpoint, SendStep(e) PROVE Ending' /\ LifeSteps
  <2>1. /\ Moves(e, "send") /\ UNCHANGED shouldContinue
        /\ pc[e]["send"] # "done"
        /\ pc'[e]["send"] = "done" => ~shouldContinue[e]
    BY <1>0, <1>2, SendMoves
  <2>2. Ending'
    BY <2>1 DEF Ending, Moves, Unmoved
  <2>3. Life(e)!SendEnds \/ UNCHANGED Life(e)!vars
    BY <2>1 DEF Moves, Phase, Life!SendEnds, Life!vars
  <2> QED BY <2>1, <2>2, <2>3, OneMoves DEF Life!Next
<1>3. ASSUME NEW e \in Endpoint, SupervisorStep(e) PROVE Ending' /\ LifeSteps
  <2>1. /\ Moves(e, "supervisor")
        /\ \/ shouldContinue'[e] = shouldContinue[e]
           \/ shouldContinue'[e] = FALSE /\ pc[e]["owner"] # "freed"
    BY <1>0, <1>3, SupervisorMoves
  <2>2. Ending'
    BY <2>1 DEF Ending, Moves, Unmoved
  <2>3. Life(e)!TimesOut \/ UNCHANGED Life(e)!vars
    <3>1. shouldContinue[e] \in BOOLEAN
      BY <1>0 DEF DataTypeOK
    <3> QED BY <2>1, <3>1 DEF Moves, Phase, Life!TimesOut, Life!vars
  <2> QED BY <2>1, <2>2, <2>3, OneMoves DEF Life!Next
<1>4. ASSUME NEW e \in Endpoint, OwnerStep(e) PROVE Ending' /\ LifeSteps
  <2>1. /\ Moves(e, "owner")
        /\ OwnerStop(e) \/ UNCHANGED shouldContinue
        /\ \/ OwnerEnds(e)
           \/ /\ Phase(e)' = Phase(e)
              /\ pc'[e]["owner"] \in {"joinReceive", "joinSend", "freed"}
                    => pc'[e]["owner"] = pc[e]["owner"]
    BY <1>0, <1>4, OwnerMoves
  <2>2. CASE OwnerStop(e)
    <3>1. /\ pc[e]["owner"] = "dtor" /\ pc'[e]["owner"] = "joinReceive"
          /\ shouldContinue'[e] = FALSE
      BY <1>0, <2>2 DEF OwnerStop, At, Goto, ControlTypeOK, DataTypeOK, Thread
    <3>2. Ending'
      BY <2>1, <3>1 DEF Ending, Moves, Unmoved
    <3>3. Life(e)!Stop
      BY <2>1, <3>1 DEF Moves, Phase, Life!Stop
    <3> QED BY <2>1, <3>2, <3>3, OneMoves DEF Life!Next
  <2>3. CASE OwnerJoinReceive(e)
    <3>1. /\ pc[e]["owner"] = "joinReceive" /\ pc'[e]["owner"] = "joinSend"
          /\ pc[e]["receive"] = "done" /\ UNCHANGED shouldContinue
      BY <1>0, <2>3 DEF OwnerJoinReceive, OwnerJoin, At, Goto, ControlTypeOK, Thread
    <3>2. Ending'
      BY <2>1, <3>1 DEF Ending, Moves, Unmoved
    <3>3. UNCHANGED Life(e)!vars
      BY <2>1, <3>1 DEF Moves, Phase, Life!vars
    <3> QED BY <2>1, <3>2, <3>3, OneMoves
  <2>4. CASE OwnerJoinSend(e)
    <3>1. /\ pc[e]["owner"] = "joinSend" /\ pc'[e]["owner"] = "freed"
          /\ pc[e]["send"] = "done" /\ UNCHANGED shouldContinue
      BY <1>0, <2>4 DEF OwnerJoinSend, OwnerJoin, At, Goto, ControlTypeOK, Thread
    <3>2. Ending'
      BY <2>1, <3>1 DEF Ending, Moves, Unmoved
    <3>3. Life(e)!Freed
      BY <2>1, <3>1 DEF Ending, Moves, Phase, Life!Freed
    <3> QED BY <2>1, <3>2, <3>3, OneMoves DEF Life!Next
  <2>5. CASE ~OwnerEnds(e)
    <3>0. /\ Phase(e)' = Phase(e)
          /\ pc'[e]["owner"] \in {"joinReceive", "joinSend", "freed"}
                => pc'[e]["owner"] = pc[e]["owner"]
      BY <2>1, <2>5
    <3>1. UNCHANGED shouldContinue
      BY <2>1, <2>5 DEF OwnerEnds
    <3>2. /\ pc'[e]["receive"] = pc[e]["receive"] /\ pc'[e]["send"] = pc[e]["send"]
          /\ \A x \in Endpoint \ {e} : Unmoved(x)
      BY <2>1 DEF Moves
    <3>3. Ending'
      BY <3>0, <3>1, <3>2 DEF Ending, Unmoved
    <3>4. UNCHANGED Life(e)!vars
      BY <3>0, <3>1, <3>2 DEF Life!vars
    <3> QED BY <2>1, <3>3, <3>4, OneMoves
  <2> QED BY <2>2, <2>3, <2>4, <2>5 DEF OwnerEnds
<1>5. CASE UNCHANGED <<pc, shouldContinue>>
  BY <1>5, UnmovedStutters DEF Ending, Unmoved, LifeSteps
<1>6. (\E e \in Endpoint : NetworkStep(e)) \/ Tick \/ UNCHANGED vars
          => UNCHANGED <<pc, shouldContinue>>
  BY DEF NetworkStep, Tick, vars
<1> QED BY <1>1, <1>2, <1>3, <1>4, <1>5, <1>6 DEF Next, ThreadStep

\* The endpoint is what Server and Client take it for: the destructor
\* (OcpConnectionEndpoint.cxx:307-313) frees it after its flag has fallen and both its
\* threads are gone, the send thread goes on as long as the flag is up, and neither
\* the supervisor nor a message that arrives late raises the flag again or
\* brings a thread back.
THEOREM LifecycleImplemented == Spec => ImplementsLifecycle
<1>1. Init => \A e \in Endpoint : Life(e)!Init
  BY InitLife
<1>2. Init => Ending
  BY InitLife
<1>3. LInv /\ Ending /\ [Next]_vars => Ending'
  BY NextLife
<1>4. LInv /\ Ending /\ [Next]_vars =>
          [\A e \in Endpoint : [Life(e)!Next]_<<Life(e)!vars>>]_vars
  BY NextLife DEF LifeSteps
<1> QED BY LInvariant, <1>1, <1>2, <1>3, <1>4, PTL DEF Spec, ImplementsLifecycle

-----------------------------------------------------------------------------
\* One pusher at a time.  Until a Client's owner has queued its heartbeat, nothing is
\* on the wire, in a queue or in a thread of either side that could start a supervisor.

Paired == \A e \in Client : Peer[e] \in Endpoint

Before(e) == pc[e]["owner"] \in BeforeServing

Calm(x) ==
    /\ stream[x] = <<>> /\ messageQueue[x] = <<>>
    /\ pc[x]["supervisor"] = "off"
    /\ pc[x]["receive"] \in {"loop", "sync", "done"}
    /\ pc[x]["send"] \in {"loop", "peek", "lock", "front", "done"}

Quiet ==
    \A e \in Endpoint : Before(e) =>
        /\ e \in Client
        /\ Peer[e] \in Endpoint => Calm(e) /\ Calm(Peer[e])

\* Nor do two pushes overlap then.
Untorn == \A e \in Endpoint : Peer[e] \in Endpoint => ~torn[e]

IInv == LInv /\ Quiet /\ Untorn

\* What a step of endpoint z leaves alone.
LEMMA StepFrame ==
    ASSUME TypeOK, NEW z \in Endpoint, ThreadStep(z) \/ NetworkStep(z),
           NEW x \in Endpoint, x # z
    PROVE  /\ pc'[x] = pc[x] /\ messageQueue'[x] = messageQueue[x]
           /\ x # Peer[z] => stream'[x] = stream[x]
<1> USE DEF TypeOK, ControlTypeOK, DataTypeOK, SocketTypeOK
<1>1. CASE ReceiveStep(z)
  BY <1>1 DEF ReceiveStep, ReceiveLoop, While, ReceiveSync, ReceiveHeader, ReceiveStamp,
              ReceiveBody, ReceiveApply, ReceiveActivate, Goto, RecvBytes, RecvEnd,
              RecvError, socketVars, queueVars
<1>2. CASE SendStep(z)
  BY <1>2 DEF SendStep, SendLoop, While, SendPeek, SendLock, SendFront, SendSend, SendPop,
              Breaks, SendStamp, Goto, SendDelivers, SendIsLost, SendError,
              SendRaisesSigpipe, EndProcess, socketVars, queueVars
<1>3. ASSUME NEW t, PushStep(z, t) PROVE UNCHANGED <<pc[x], messageQueue[x], stream>>
  BY <1>3 DEF PushStep, PushBuild, PushCheck, PushRecheck, PushTest, PushLock,
              PushConstruct, PushBump, Breaks, EndProcess, Goto, socketVars, queueVars
<1>4. CASE SupervisorStep(z)
  BY <1>3, <1>4
  DEF SupervisorStep, SupervisorPeriod, SupervisorPatience, SupervisorLoop, While,
      SupervisorDiff, SupervisorTimeout, SupervisorSleep, SupervisorWake, Astray, Goto,
      socketVars, queueVars
<1>5. CASE OwnerStep(z)
  BY <1>3, <1>5
  DEF OwnerStep, OwnerSupervise, OwnerClose, OwnerStop, OwnerJoinReceive, OwnerJoinSend,
      OwnerJoin, OwnerExit, OwnerBreaks, Breaks, Goto, Close, EndProcess, socketVars,
      queueVars
<1>6. CASE NetworkStep(z)
  <2>1. pc' = pc /\ messageQueue' = messageQueue
    BY <1>6 DEF NetworkStep, queueVars
  <2>2. ASSUME Release(z), x # Peer[z] PROVE stream'[x] = stream[x]
    <3>1. CASE stream' = stream
      BY <3>1
    <3>2. CASE \E lost \in BOOLEAN :
                  stream' = [q \in Endpoint |->
                               IF q = z \/ (q = Peer[z] /\ lost) THEN <<>> ELSE stream[q]]
      BY <2>2, <3>2
    <3> QED BY <2>2, <3>1, <3>2 DEF Release
  <2> QED BY <1>6, <2>1, <2>2 DEF NetworkStep, PeerCloses
<1> QED BY <1>1, <1>2, <1>4, <1>5, <1>6 DEF ThreadStep

\* The threads of a calm endpoint stay calm and put nothing on the wire.
LEMMA CalmThreads ==
    ASSUME TypeOK, NEW z \in Endpoint, Calm(z), ~torn[z],
           ReceiveStep(z) \/ SendStep(z) \/ SupervisorStep(z)
    PROVE  Calm(z)' /\ stream' = stream /\ pc'[z]["owner"] = pc[z]["owner"]
<1> USE DEF TypeOK, ControlTypeOK, Calm
<1>1. CASE ReceiveStep(z)
  <2>1. ReceiveLoop(z) \/ ReceiveSync(z)
    BY <1>1 DEF ReceiveStep, ReceiveHeader, ReceiveStamp, ReceiveBody, ReceiveApply,
                ReceiveActivate, At
  <2> QED BY <2>1 DEF ReceiveLoop, While, ReceiveSync, At, Goto, RecvBytes, RecvEnd, RecvError,
                      Thread, socketVars, queueVars
<1>2. CASE SendStep(z)
  <2>1. SendLoop(z) \/ SendPeek(z) \/ SendLock(z) \/ SendFront(z)
    BY <1>2 DEF SendStep, SendSend, SendPop, Breaks, EndProcess, SendStamp, At
  <2> QED BY <2>1 DEF SendLoop, While, SendPeek, AfterPeek, SendLock, SendFront, Breaks,
                      At, Goto, Thread, EndProcess, socketVars, queueVars
<1>3. ~SupervisorStep(z)
  BY DEF SupervisorStep, SupervisorPeriod, SupervisorPatience, SupervisorLoop, While,
         SupervisorDiff, SupervisorTimeout, SupervisorSleep, SupervisorWake, Astray, At,
         PushStep, PushBuild, PushCheck, PushRecheck, PushTest, PushLock, PushConstruct,
         PushBump, Breaks, EndProcess
<1> QED BY <1>1, <1>2, <1>3

\* Nor does the owner, before its heartbeat is in the queue.
LEMMA CalmOwner ==
    ASSUME TypeOK, NEW z \in Endpoint, Calm(z), OwnerStep(z)
    PROVE  /\ stream' = stream
           /\ Before(z)' => Before(z) /\ Calm(z)'
           /\ ~Before(z) => ~Before(z)' /\ Calm(z)'
<1> USE DEF TypeOK, ControlTypeOK, Calm, Before, BeforeServing
<1>1. CASE PushStep(z, "owner") /\ ~PushConstruct(z, "owner")
  BY <1>1 DEF PushStep, PushBuild, PushCheck, PushRecheck, PushTest, PushLock,
              PushBump, Breaks, EndProcess, Return, At, Goto, Thread,
              socketVars, queueVars
<1>2. CASE PushConstruct(z, "owner")
  <2>1. messageQueue'[z] = <<>>
    BY <1>2 DEF PushConstruct, DataTypeOK
  <2> QED BY <1>2, <2>1 DEF PushConstruct, At, Goto, Thread, socketVars
<1>3. CASE ~PushStep(z, "owner")
  BY <1>3
  DEF OwnerStep, OwnerSupervise, OwnerClose, OwnerStop, OwnerJoinReceive, OwnerJoinSend,
      OwnerJoin, OwnerExit, OwnerBreaks, Breaks, At, Goto, Thread, Close, EndProcess,
      socketVars, queueVars
<1> QED BY <1>1, <1>2, <1>3

\* An owner that has served does not start again.
LEMMA BeforeOnce ==
    ASSUME TypeOK, NEW z \in Endpoint, ThreadStep(z) \/ NetworkStep(z)
    PROVE  Before(z)' => Before(z)
<1> USE DEF Before, BeforeServing, TypeOK, ControlTypeOK, DataTypeOK
<1>1. CASE OwnerStep(z)
  <2>1. CASE PushStep(z, "owner")
    BY <2>1 DEF PushStep, PushBuild, PushCheck, PushRecheck, PushTest, PushLock,
                PushConstruct, PushBump, Breaks, EndProcess, At, Goto, Thread
  <2>2. CASE ~PushStep(z, "owner")
    BY <1>1, <2>2
    DEF OwnerStep, OwnerSupervise, OwnerClose, OwnerStop, OwnerJoinReceive, OwnerJoinSend,
        OwnerJoin, OwnerExit, OwnerBreaks, Breaks, EndProcess, At, Goto, Thread
  <2> QED BY <2>1, <2>2
<1>2. CASE ReceiveStep(z)
  BY <1>2, ReceiveMoves DEF Moves
<1>3. CASE SendStep(z)
  BY <1>3, SendMoves DEF Moves
<1>4. CASE SupervisorStep(z)
  BY <1>4, SupervisorMoves DEF Moves
<1>5. CASE NetworkStep(z)
  BY <1>5 DEF NetworkStep
<1> QED BY <1>1, <1>2, <1>3, <1>4, <1>5 DEF ThreadStep

\* What the kernel does to a connection at most empties a stream.
LEMMA CalmNetwork ==
    ASSUME TypeOK, NEW z \in Endpoint, NetworkStep(z), NEW x \in Endpoint, Calm(x)
    PROVE  Calm(x)'
<1>1. pc' = pc /\ messageQueue' = messageQueue
  BY DEF NetworkStep, queueVars
<1>2. stream'[x] = <<>>
  <2>1. CASE stream' = stream
    BY <2>1 DEF Calm
  <2>2. CASE \E lost \in BOOLEAN :
                stream' = [q \in Endpoint |->
                             IF q = z \/ (q = Peer[z] /\ lost) THEN <<>> ELSE stream[q]]
    BY <2>2 DEF Calm
  <2> QED BY <2>1, <2>2 DEF NetworkStep, Release, PeerCloses
<1> QED BY <1>1, <1>2 DEF Calm

LEMMA InitQuiet == Init => Quiet /\ Untorn
<1> SUFFICES ASSUME Init, NEW e \in Endpoint
             PROVE  /\ ~torn[e]
                    /\ Before(e) => e \in Client
                    /\ Peer[e] \in Endpoint => Calm(e) /\ Calm(Peer[e])
  BY DEF Quiet, Untorn
<1>1. Before(e) => e \in Client
  BY DEF Init, Before, BeforeServing, StartLabel, Thread
<1>2. Peer[e] \in Endpoint => Peer[Peer[e]] = e
  BY PeerAssumption
<1>3. ASSUME NEW x \in Endpoint, Peer[x] \in Endpoint PROVE Calm(x)
  BY <1>3 DEF Init, SocketInit, StartLabel, Thread, Calm
<1> QED BY <1>1, <1>2, <1>3 DEF Init

LEMMA StepQuiet ==
    ASSUME TypeOK, Quiet, Untorn, NEW z \in Endpoint, ThreadStep(z) \/ NetworkStep(z)
    PROVE  Quiet'
<1> SUFFICES ASSUME NEW e \in Endpoint, Before(e)'
             PROVE  /\ e \in Client
                    /\ Peer[e] \in Endpoint => Calm(e)' /\ Calm(Peer[e])'
  BY DEF Quiet
<1>1. Before(e)
  <2>1. CASE z = e
    BY <2>1, BeforeOnce
  <2>2. CASE z # e
    BY <2>2, StepFrame DEF Before
  <2> QED BY <2>1, <2>2
<1> SUFFICES ASSUME Peer[e] \in Endpoint
             PROVE  e \in Client /\ Calm(e)' /\ Calm(Peer[e])'
  BY <1>1 DEF Quiet
<1> DEFINE p == Peer[e]
<1>2. e \in Client /\ Calm(e) /\ Calm(p)
  BY <1>1 DEF Quiet
<1>3. p \in Endpoint \ Client /\ p # e /\ Peer[p] = e
  BY <1>2, PeerAssumption, RoleAssumption
<1>4. ~Before(p)
  BY <1>3 DEF Quiet
<1> HIDE DEF p
<1>5. CASE NetworkStep(z)
  BY <1>2, <1>3, <1>5, CalmNetwork DEF p
<1>6. CASE ThreadStep(z) /\ z \in {e, p}
  <2>1. Calm(z) /\ (Before(z)' \/ ~Before(z))
    BY <1>2, <1>4, <1>6
  <2>2. Calm(z)' /\ stream' = stream
    <3>1. CASE OwnerStep(z)
      BY <2>1, <3>1, CalmOwner
    <3>2. CASE ~OwnerStep(z)
      BY <1>3, <1>6, <2>1, <3>2, CalmThreads DEF ThreadStep, Untorn, p
    <3> QED BY <3>1, <3>2
  <2>3. ASSUME NEW x \in {e, p}, x # z PROVE Calm(x)'
    BY <1>2, <1>3, <1>6, <2>2, <2>3, StepFrame DEF Calm
  <2> QED BY <1>2, <1>3, <2>2, <2>3 DEF p
<1>7. CASE ThreadStep(z) /\ z \notin {e, p}
  <2>1. ASSUME NEW x \in {e, p} PROVE Calm(x)'
    <3>1. x \in Endpoint /\ x # z /\ x # Peer[z]
      BY <1>3, <1>7, <2>1, PeerAssumption DEF p
    <3> QED BY <1>2, <1>7, <2>1, <3>1, StepFrame DEF Calm
  <2> QED BY <1>2, <2>1 DEF p
<1> QED BY <1>5, <1>6, <1>7

\* A deque is torn by a thread that enters push_back while another is in it.
LEMMA TornByTwo ==
    ASSUME NEW z \in Endpoint, ThreadStep(z) \/ NetworkStep(z)
    PROVE  \/ torn' = torn
           \/ /\ torn' = [torn EXCEPT ![z] = TRUE]
              /\ \E t, u \in Pusher :
                     t # u /\ pc[z][t] = "construct" /\ pc[z][u] = "bump"
<1> DEFINE Goal ==
       \/ torn' = torn
       \/ /\ torn' = [torn EXCEPT ![z] = TRUE]
          /\ \E t, u \in Pusher : t # u /\ pc[z][t] = "construct" /\ pc[z][u] = "bump"
<1> SUFFICES Goal
  OBVIOUS
<1>1. CASE ReceiveStep(z)
  BY <1>1 DEF ReceiveStep, ReceiveLoop, While, ReceiveSync, ReceiveHeader, ReceiveStamp,
              ReceiveBody, ReceiveApply, ReceiveActivate, queueVars
<1>2. CASE SendStep(z)
  BY <1>2 DEF SendStep, SendLoop, While, SendPeek, SendLock, SendFront, SendSend, SendPop,
              SendStamp, queueVars
<1>3. ASSUME NEW t \in Pusher, PushStep(z, t) PROVE Goal
  <2>1. CASE PushConstruct(z, t)
    BY <2>1 DEF PushConstruct, At
  <2>2. CASE ~PushConstruct(z, t)
    BY <1>3, <2>2 DEF PushStep, PushBuild, PushCheck, PushRecheck, PushTest, PushLock,
                      PushBump, queueVars
  <2> QED BY <2>1, <2>2
<1>4. CASE SupervisorStep(z) /\ ~PushStep(z, "supervisor")
  BY <1>4
  DEF SupervisorStep, SupervisorPeriod, SupervisorPatience, SupervisorLoop, While,
      SupervisorDiff, SupervisorTimeout, SupervisorSleep, SupervisorWake, Astray, queueVars
<1>5. CASE OwnerStep(z) /\ ~PushStep(z, "owner")
  BY <1>5
  DEF OwnerStep, OwnerSupervise, OwnerClose, OwnerStop, OwnerJoinReceive, OwnerJoinSend,
      OwnerJoin, OwnerExit, OwnerBreaks, queueVars
<1>6. CASE NetworkStep(z)
  BY <1>6 DEF NetworkStep, queueVars
<1> QED BY <1>1, <1>2, <1>3, <1>4, <1>5, <1>6 DEF ThreadStep, Pusher

LEMMA StepUntorn ==
    ASSUME TypeOK, Quiet, Untorn, NEW z \in Endpoint, ThreadStep(z) \/ NetworkStep(z)
    PROVE  Untorn'
<1> SUFFICES ASSUME NEW e \in Endpoint, Peer[e] \in Endpoint PROVE ~torn'[e]
  BY DEF Untorn
<1>1. CASE torn' = torn
  BY <1>1 DEF Untorn
<1>2. CASE z # e /\ torn' = [torn EXCEPT ![z] = TRUE]
  <2>1. torn \in [Endpoint -> BOOLEAN]
    BY DEF TypeOK, DataTypeOK
  <2>2. torn'[e] = torn[e]
    BY <1>2, <2>1
  <2> QED BY <2>2 DEF Untorn
<1>3. ASSUME z = e, NEW t \in Pusher, NEW u \in Pusher, t # u,
             pc[z][t] = "construct", pc[z][u] = "bump"
      PROVE  FALSE
  <2>1. Before(e) /\ pc[e]["supervisor"] # "off"
    BY <1>3 DEF Before, BeforeServing, Pusher
  <2> QED BY <2>1 DEF Quiet, Calm
<1> QED BY <1>1, <1>2, <1>3, TornByTwo

LEMMA InitIInv == Init => IInv
BY InitLInv, InitQuiet DEF IInv

LEMMA NextIInv == IInv /\ [Next]_vars => IInv'
<1> SUFFICES ASSUME IInv, [Next]_vars PROVE IInv'
  OBVIOUS
<1>1. LInv /\ TypeOK /\ Quiet /\ Untorn
  BY DEF IInv, LInv
<1>2. ASSUME Tick \/ UNCHANGED vars PROVE Quiet' /\ Untorn'
  <2>1. UNCHANGED <<pc, stream, messageQueue, torn>>
    BY <1>2 DEF Tick, vars, socketVars, queueVars
  <2>2. Quiet'
    <3> SUFFICES ASSUME NEW x \in Endpoint, Before(x)'
                 PROVE  /\ x \in Client
                        /\ Peer[x] \in Endpoint => Calm(x)' /\ Calm(Peer[x])'
      BY DEF Quiet
    <3>1. x \in Client /\ (Peer[x] \in Endpoint => Calm(x) /\ Calm(Peer[x]))
      BY <1>1, <2>1 DEF Quiet, Before
    <3> QED BY <2>1, <3>1 DEF Calm
  <2>3. Untorn'
    BY <1>1, <2>1 DEF Untorn
  <2> QED BY <2>2, <2>3
<1>3. ASSUME NEW z \in Endpoint, ThreadStep(z) \/ NetworkStep(z) PROVE Quiet' /\ Untorn'
  BY <1>1, <1>3, StepQuiet, StepUntorn
<1>4. Quiet' /\ Untorn'
  <2>1. (\E z \in Endpoint : ThreadStep(z) \/ NetworkStep(z)) \/ Tick \/ UNCHANGED vars
    BY DEF Next
  <2> QED BY <1>2, <1>3, <2>1
<1> QED BY <1>1, <1>4, NextLInv DEF IInv

LEMMA Invariant == Spec => []IInv
BY InitIInv, NextIInv, PTL DEF Spec

\* Between liboca endpoints, each Client's connected to a Server's, the deque has
\* one pusher at a time, although queueMessageForSend (OcpConnectionEndpoint.cxx:
\* 231-243) pushes without the mutex: the supervisor that would push beside the
\* owner is started by a heartbeat, and of the two sides the owner sends the first.
THEOREM OnePusherAlways == Paired => (Spec => []OnePusher)
<1>1. SUFFICES ASSUME Paired PROVE Spec => []OnePusher
  OBVIOUS
<1>2. IInv => OnePusher
  BY <1>1 DEF IInv, Quiet, Calm, Paired, OnePusher, Before
<1> QED BY Invariant, <1>2, PTL

\* So the deque of an endpoint whose peer is a liboca endpoint is never torn, and
\* SendsFront holds of it without a condition: the message the send loop pops
\* (OcpConnectionEndpoint.cxx:290) is the one it copied and sent (276-283).
THEOREM NeverTornBetweenPeers ==
    Spec => [](\A e \in Endpoint : Peer[e] \in Endpoint =>
                  ~torn[e] /\ (pc[e]["send"] \in {"send", "pop"} =>
                                  /\ messageQueue[e] # <<>>
                                  /\ Head(messageQueue[e]) = sending[e]))
<1>1. IInv => \A e \in Endpoint : Peer[e] \in Endpoint =>
                 ~torn[e] /\ (pc[e]["send"] \in {"send", "pop"} =>
                                 /\ messageQueue[e] # <<>>
                                 /\ Head(messageQueue[e]) = sending[e])
  BY DEF IInv, LInv, Untorn, SendsFront
<1> QED BY Invariant, <1>1, PTL

-----------------------------------------------------------------------------
\* Reading what a peer outside the model sends.  Wherever one of its scripts could be
\* taken for a heartbeat there is a whole one, and its time has no byte 59: with such
\* a byte (a period of 59 seconds) the reader may start again in the middle of it.
Unambiguous ==
    \A s \in Script : \A p \in Heartbeats(s) :
        p + 11 <= Len(s) /\ s[p + 10] # SyncValue /\ s[p + 11] # SyncValue

\* The stream is the rest of a script from its byte n + 1 on, and where the receive
\* thread is says what it has read before.
ReadFrom(x, s, n) ==
    /\ stream[x] = SubSeq(s, n + 1, Len(s))
    /\ pc[x]["receive"] = "header" => n >= 1 /\ s[n] = SyncValue
    /\ pc[x]["receive"] = "stamp" =>
          \/ received[x] = <<>>
          \/ \E p \in 1..n : s[p] = SyncValue /\ n - p <= 9 /\ received[x] = SubSeq(s, p + 1, n)
    /\ pc[x]["receive"] = "body" => \E p \in Heartbeats(s) : n - p \in 7..9
    /\ pc[x]["receive"] = "apply" =>
          \E p \in Heartbeats(s) : n - p \in 9..11 /\ received[x] = <<s[n - 1], s[n]>>

ReadsScript(x) ==
    /\ \E s \in Script \cup {<<>>} : \E n \in 0..Len(s) : ReadFrom(x, s, n)
    /\ pc[x]["receive"] \notin {"stamp", "apply"} => received[x] = <<>>

TimeKnown(x) == heartbeatTime[x] \in Meant(x) \/ Doomed(x)
Asking(x) == pc[x]["owner"] = "supervise" => x \in Client

ReadInv ==
    \A x \in Endpoint : Peer[x] \notin Endpoint => ReadsScript(x) /\ TimeKnown(x) /\ Asking(x)

LEMMA ScriptBytes == \A s \in Script \cup {<<>>} : s \in Seq(Byte) /\ Len(s) \in Nat
<1>1. <<>> \in Seq(Byte)
  OBVIOUS
<1>2. \A s \in Script \cup {<<>>} : s \in Seq(Byte)
  BY <1>1, ScriptAssumption, Zenon
<1> QED BY <1>2

\* A suffix, what recv takes off it and what that leaves.
LEMMA SuffixLength ==
    ASSUME NEW s \in Seq(Byte), NEW n \in 0..Len(s)
    PROVE  /\ Len(SubSeq(s, n + 1, Len(s))) = Len(s) - n
           /\ \A i \in 1..(Len(s) - n) : SubSeq(s, n + 1, Len(s))[i] = s[n + i]
<1>1. Len(s) \in Nat /\ n \in Nat /\ n <= Len(s)
  OBVIOUS
<1> QED BY <1>1

LEMMA SuffixRest ==
    ASSUME NEW s \in Seq(Byte), NEW n \in 0..Len(s), NEW k \in 0..(Len(s) - n)
    PROVE  /\ n + k \in 0..Len(s)
           /\ SubSeq(SubSeq(s, n + 1, Len(s)), k + 1, Len(SubSeq(s, n + 1, Len(s))))
                  = SubSeq(s, (n + k) + 1, Len(s))
           /\ SubSeq(SubSeq(s, n + 1, Len(s)), 1, k) = SubSeq(s, n + 1, n + k)
<1> DEFINE r == SubSeq(s, n + 1, Len(s))
<1>1. Len(s) \in Nat /\ n \in Nat /\ k \in Nat /\ n + k <= Len(s)
  OBVIOUS
<1>2. r \in Seq(Byte) /\ Len(r) = Len(s) - n /\ \A i \in 1..(Len(s) - n) : r[i] = s[n + i]
  BY SuffixLength, <1>1
<1> HIDE DEF r
<1>3. SubSeq(r, k + 1, Len(r)) = SubSeq(s, (n + k) + 1, Len(s))
  <2> DEFINE a == SubSeq(r, k + 1, Len(r))
             b == SubSeq(s, (n + k) + 1, Len(s))
  <2>1. a \in Seq(Byte) /\ Len(a) = Len(s) - n - k /\ \A i \in 1..(Len(s) - n - k) : a[i] = r[k + i]
    BY <1>1, <1>2
  <2>2. b \in Seq(Byte) /\ Len(b) = Len(s) - n - k /\ \A i \in 1..(Len(s) - n - k) : b[i] = s[(n + k) + i]
    BY <1>1
  <2>3. ASSUME NEW i \in 1..(Len(s) - n - k) PROVE a[i] = b[i]
    <3>1. k + i \in 1..(Len(s) - n) /\ n + (k + i) = (n + k) + i
      BY <1>1
    <3> QED BY <1>2, <2>1, <2>2, <3>1
  <2> HIDE DEF a, b
  <2>4. a = b
    BY <2>1, <2>2, <2>3, SeqEqual
  <2> QED BY <2>4 DEF a, b
<1>4. SubSeq(r, 1, k) = SubSeq(s, n + 1, n + k)
  <2> DEFINE a == SubSeq(r, 1, k)
             b == SubSeq(s, n + 1, n + k)
  <2>1. a \in Seq(Byte) /\ Len(a) = k /\ \A i \in 1..k : a[i] = r[i]
    BY <1>1, <1>2
  <2>2. b \in Seq(Byte) /\ Len(b) = k /\ \A i \in 1..k : b[i] = s[n + i]
    <3>1. \A m \in Nat : n <= m /\ m <= Len(s) =>
              /\ SubSeq(s, n + 1, m) \in Seq(Byte)
              /\ Len(SubSeq(s, n + 1, m)) = m - n
              /\ \A i \in 1..(m - n) : SubSeq(s, n + 1, m)[i] = s[n + i]
      BY <1>1
    <3>2. n + k \in Nat /\ n <= n + k /\ (n + k) - n = k
      BY <1>1
    <3> QED BY <1>1, <3>1, <3>2
  <2>3. ASSUME NEW i \in 1..k PROVE a[i] = b[i]
    <3>1. i \in 1..(Len(s) - n)
      BY <1>1
    <3> QED BY <1>2, <2>1, <2>2, <3>1
  <2> HIDE DEF a, b
  <2>4. a = b
    BY <2>1, <2>2, <2>3, SeqEqual
  <2> QED BY <2>4 DEF a, b
<1> QED BY <1>1, <1>3, <1>4 DEF r

LEMMA ReadAmount ==
    ASSUME NEW n \in Nat \ {0}, NEW k \in Nat \ {0}
    PROVE  ReadSizes(n, k) \subseteq 1..n /\ ReadSizes(n, k) \subseteq 1..k
BY DEF ReadSizes, AtMost

LEMMA TwoBytes ==
    ASSUME NEW s \in Seq(Byte), NEW n \in Nat, n + 2 <= Len(s)
    PROVE  SubSeq(s, n + 1, n + 2) = <<s[n + 1], s[n + 2]>>
<1> DEFINE a == SubSeq(s, n + 1, n + 2)
           b == <<s[n + 1], s[n + 2]>>
<1>1. Len(s) \in Nat /\ n + 1 \in 1..Len(s) /\ n + 2 \in 1..Len(s)
  OBVIOUS
<1>2. s[n + 1] \in Byte /\ s[n + 2] \in Byte
  BY <1>1, ElementOfSeq
<1>3. b \in Seq(Byte) /\ Len(b) = 2 /\ b[1] = s[n + 1] /\ b[2] = s[n + 2]
  BY <1>2
<1>4. \A c, d \in Nat : c <= d /\ d <= Len(s) =>
          /\ SubSeq(s, c + 1, d) \in Seq(Byte)
          /\ Len(SubSeq(s, c + 1, d)) = d - c
          /\ \A i \in 1..(d - c) : SubSeq(s, c + 1, d)[i] = s[c + i]
  BY <1>1
<1>5. n + 2 \in Nat /\ n <= n + 2 /\ n + 2 <= Len(s) /\ (n + 2) - n = 2
  BY <1>1
<1>6. a \in Seq(Byte) /\ Len(a) = 2 /\ \A i \in 1..2 : a[i] = s[n + i]
  BY <1>4, <1>5
<1> HIDE DEF a, b
<1>7. \A i \in 1..Len(a) : a[i] = b[i]
  BY <1>3, <1>6
<1>8. a = b
  BY <1>3, <1>6, <1>7, SeqEqual
<1> QED BY <1>8 DEF a, b

\* The receive thread goes through the script in order.
LEMMA ScriptByReceive ==
    ASSUME TypeOK, NEW x \in Endpoint, ReceiveStep(x), ReadsScript(x)
    PROVE  ReadsScript(x)'
<1>0. PICK s \in Script \cup {<<>>} : \E n \in 0..Len(s) : ReadFrom(x, s, n)
  BY DEF ReadsScript
<1>1. PICK n \in 0..Len(s) : ReadFrom(x, s, n)
  BY <1>0
<1>2. /\ s \in Seq(Byte) /\ Len(s) \in Nat
      /\ n \in Nat /\ n <= Len(s) /\ n + 1 \in Nat /\ n + 1 > 0
  BY <1>1, ScriptBytes
<1>3. stream[x] = SubSeq(s, n + 1, Len(s)) /\ stream[x] \in Seq(Byte)
  BY <1>1 DEF ReadFrom, TypeOK, SocketTypeOK
<1>4. /\ Len(stream[x]) = Len(s) - n /\ Len(stream[x]) \in Nat
      /\ \A i \in 1..Len(stream[x]) : stream[x][i] = s[n + i]
  BY <1>2, <1>3, SuffixLength
<1>5. \A k \in 0..Len(stream[x]) :
          /\ n + k \in 0..Len(s)
          /\ SubSeq(stream[x], k + 1, Len(stream[x])) = SubSeq(s, (n + k) + 1, Len(s))
          /\ Prefix(x, k) = SubSeq(s, n + 1, n + k)
  <2> TAKE k \in 0..Len(stream[x])
  <2>1. k \in 0..(Len(s) - n)
    BY <1>4
  <2> QED BY <1>2, <1>3, <2>1, SuffixRest DEF Prefix
<1>6. /\ stream \in [Endpoint -> Seq(Byte)] /\ received \in [Endpoint -> Seq(Byte)]
      /\ pc[x] \in [Thread -> Label] /\ "receive" \in Thread
  BY DEF TypeOK, SocketTypeOK, ControlTypeOK, DataTypeOK, Thread
<1>7. ASSUME NEW k, RecvBytes(x, k), k \in 1..Len(stream[x])
      PROVE  /\ n + k \in 0..Len(s) /\ n + k >= 1
             /\ stream'[x] = SubSeq(s, (n + k) + 1, Len(s))
  <2>1. k \in 0..Len(stream[x]) /\ n + k >= 1
    BY <1>2, <1>4, <1>7
  <2>2. stream'[x] = SubSeq(stream[x], k + 1, Len(stream[x]))
    BY <1>6, <1>7 DEF RecvBytes
  <2> QED BY <1>5, <2>1, <2>2
<1>8. ASSUME stream'[x] = stream[x], received'[x] = received[x],
             pc'[x]["receive"] \in {"loop", "sync", "done", "activate"},
             pc[x]["receive"] \notin {"stamp", "apply"}
      PROVE  ReadsScript(x)'
  <2>1. ReadFrom(x, s, n)'
    BY <1>3, <1>8 DEF ReadFrom
  <2> QED BY <1>1, <1>8, <2>1 DEF ReadsScript
<1>9. CASE ReceiveLoop(x)
  <2>1. /\ pc[x]["receive"] = "loop" /\ pc'[x]["receive"] \in {"sync", "done"}
        /\ stream'[x] = stream[x] /\ received'[x] = received[x]
    BY <1>9, <1>6 DEF ReceiveLoop, While, At, Goto, socketVars, TypeOK, ControlTypeOK
  <2> QED BY <1>8, <2>1
<1>10. CASE ReceiveSync(x)
  <2>1. pc[x]["receive"] = "sync" /\ received'[x] = received[x] /\ received[x] = <<>>
    BY <1>10 DEF ReceiveSync, At, ReadsScript
  <2>2. CASE RecvBytes(x, 1) /\ Goto(x, "receive", AfterSync(stream[x][1]))
    <3>1. stream[x] # <<>> /\ 1 \in 1..Len(stream[x])
      BY <1>3, <1>4, <2>2, EmptySeq DEF RecvBytes
    <3>2. /\ n + 1 \in 0..Len(s) /\ n + 1 >= 1
          /\ stream'[x] = SubSeq(s, (n + 1) + 1, Len(s))
      BY <1>7, <2>2, <3>1
    <3>3. /\ pc'[x]["receive"] \in {"header", "done"}
          /\ pc'[x]["receive"] = "header" => s[n + 1] = SyncValue
      BY <1>4, <1>6, <2>2, <3>1 DEF AfterSync, Goto, TypeOK, ControlTypeOK
    <3>4. ReadFrom(x, s, n + 1)'
      BY <3>2, <3>3 DEF ReadFrom
    <3> QED BY <1>1, <2>1, <3>2, <3>3, <3>4 DEF ReadsScript
  <2>3. CASE (RecvEnd(x) \/ RecvError(x)) /\ Goto(x, "receive", "done")
    <3>1. stream'[x] = stream[x] /\ pc'[x]["receive"] = "done"
      BY <1>6, <2>3 DEF RecvEnd, RecvError, Goto, TypeOK, ControlTypeOK
    <3> QED BY <1>8, <2>1, <3>1
  <2> QED BY <1>10, <2>2, <2>3 DEF ReceiveSync
<1>11. CASE ReceiveHeader(x)
  <2>1. /\ pc[x]["receive"] = "header" /\ received[x] = <<>>
        /\ n >= 1 /\ s[n] = SyncValue
    BY <1>1, <1>11 DEF ReceiveHeader, At, ReadsScript, ReadFrom
  <2>2. CASE \E k \in ReadSizes(HeaderSize, Len(stream[x])) :
                /\ RecvBytes(x, k)
                /\ received' = [received EXCEPT ![x] = Prefix(x, k)]
                /\ Goto(x, "receive", "stamp")
    <3>1. PICK k \in ReadSizes(HeaderSize, Len(stream[x])) :
                /\ RecvBytes(x, k)
                /\ received' = [received EXCEPT ![x] = Prefix(x, k)]
                /\ Goto(x, "receive", "stamp")
      BY <2>2
    <3>2. stream[x] # <<>> /\ Len(stream[x]) \in Nat \ {0}
      BY <1>3, <3>1, EmptySeq DEF RecvBytes
    <3>3. k \in 1..9 /\ k \in 1..Len(stream[x])
      BY <3>1, <3>2, ReadAmount DEF HeaderSize
    <3>4. /\ n + k \in 0..Len(s) /\ n + k >= 1
          /\ stream'[x] = SubSeq(s, (n + k) + 1, Len(s))
      BY <1>7, <3>1, <3>3
    <3>5. pc'[x]["receive"] = "stamp" /\ received'[x] = SubSeq(s, n + 1, n + k)
      BY <1>5, <1>6, <3>1, <3>3 DEF Goto, TypeOK, ControlTypeOK
    <3>6. n \in 1..(n + k) /\ (n + k) - n <= 9
      <4>1. k \in Nat /\ k <= 9 /\ (n + k) - n = k
        BY <1>2, <3>3
      <4> QED BY <1>2, <2>1, <4>1
    <3>7. ReadFrom(x, s, n + k)'
      BY <2>1, <3>4, <3>5, <3>6 DEF ReadFrom
    <3> QED BY <1>1, <3>4, <3>5, <3>7 DEF ReadsScript
  <2>3. CASE RecvEnd(x) /\ Goto(x, "receive", "done") /\ UNCHANGED received
    <3>1. stream'[x] = stream[x] /\ pc'[x]["receive"] = "done"
      BY <1>6, <2>3 DEF RecvEnd, Goto, TypeOK, ControlTypeOK
    <3> QED BY <1>8, <2>1, <2>3, <3>1
  <2>4. CASE RecvError(x) /\ Goto(x, "receive", "stamp") /\ UNCHANGED received
    <3>1. stream'[x] = stream[x] /\ pc'[x]["receive"] = "stamp" /\ received'[x] = <<>>
      BY <1>6, <2>1, <2>4 DEF RecvError, Goto, TypeOK, ControlTypeOK
    <3>2. ReadFrom(x, s, n)'
      BY <1>3, <3>1 DEF ReadFrom
    <3> QED BY <1>1, <3>1, <3>2 DEF ReadsScript
  <2> QED BY <1>11, <2>2, <2>3, <2>4 DEF ReceiveHeader
<1>12. CASE ReceiveStamp(x)
  <2>1. /\ pc[x]["receive"] = "stamp" /\ stream'[x] = stream[x] /\ received'[x] = <<>>
        /\ pc'[x]["receive"] = (IF MessageType(received[x]) = OcaKeepAlive
                                THEN "body" ELSE "loop")
    BY <1>6, <1>12 DEF ReceiveStamp, At, Goto, socketVars, TypeOK, ControlTypeOK
  <2>2. ASSUME MessageType(received[x]) = OcaKeepAlive
        PROVE  \E p \in Heartbeats(s) : n - p \in 7..9
    <3>1. received[x] # <<>>
      BY <2>2 DEF MessageType, OcaKeepAlive
    <3>2. PICK p \in 1..n : s[p] = SyncValue /\ n - p <= 9 /\ received[x] = SubSeq(s, p + 1, n)
      BY <1>1, <2>1, <3>1 DEF ReadFrom
    <3>3. \A a, b \in Nat : a <= b /\ b <= Len(s) =>
              /\ Len(SubSeq(s, a + 1, b)) = b - a
              /\ \A i \in 1..(b - a) : SubSeq(s, a + 1, b)[i] = s[a + i]
      BY <1>2
    <3>4. Len(received[x]) = n - p /\ \A i \in 1..(n - p) : received[x][i] = s[p + i]
      BY <1>2, <3>2, <3>3
    <3>5. n - p >= 7 /\ received[x][7] = OcaKeepAlive
      BY <1>2, <2>2, <3>4 DEF MessageType, OcaKeepAlive
    <3>6. p \in DOMAIN s /\ p + 7 <= Len(s) /\ s[p + 7] = OcaKeepAlive /\ n - p \in 7..9
      BY <1>2, <3>2, <3>4, <3>5
    <3> QED BY <3>2, <3>6 DEF Heartbeats
  <2>3. ReadFrom(x, s, n)'
    BY <1>3, <2>1, <2>2 DEF ReadFrom
  <2> QED BY <1>1, <2>1, <2>3 DEF ReadsScript
<1>13. CASE ReceiveBody(x)
  <2>1. pc[x]["receive"] = "body" /\ received[x] = <<>>
    BY <1>13 DEF ReceiveBody, At, ReadsScript
  <2>2. PICK p \in Heartbeats(s) : n - p \in 7..9
    BY <1>1, <2>1 DEF ReadFrom
  <2>3. p \in Nat
    BY <1>2 DEF Heartbeats
  <2>4. ASSUME NEW k \in ReadSizes(BodySize, Len(stream[x])), RecvBytes(x, k),
               IF k = BodySize
               THEN /\ received' = [received EXCEPT ![x] = Prefix(x, k)]
                    /\ Goto(x, "receive", "apply")
               ELSE Goto(x, "receive", "loop") /\ UNCHANGED received
        PROVE  ReadsScript(x)'
    <3>1. stream[x] # <<>> /\ Len(stream[x]) \in Nat \ {0}
      BY <1>3, <2>4, EmptySeq DEF RecvBytes
    <3>2. k \in 1..2 /\ k \in 1..Len(stream[x])
      BY <3>1, ReadAmount DEF BodySize
    <3>3. n + k \in 0..Len(s) /\ stream'[x] = SubSeq(s, (n + k) + 1, Len(s))
      BY <1>7, <2>4, <3>2
    <3>4. CASE k = 2
      <4>1. pc'[x]["receive"] = "apply" /\ received'[x] = SubSeq(s, n + 1, n + 2)
        <5>1. Prefix(x, 2) = SubSeq(s, n + 1, n + 2)
          <6>1. 2 \in 0..Len(stream[x])
            BY <1>4, <3>2, <3>4
          <6> QED BY <1>5, <6>1
        <5>2. /\ received' = [received EXCEPT ![x] = Prefix(x, 2)]
              /\ Goto(x, "receive", "apply")
          BY <2>4, <3>4 DEF BodySize
        <5> QED BY <1>6, <5>1, <5>2 DEF Goto, TypeOK, ControlTypeOK
      <4>2. SubSeq(s, n + 1, n + 2) = <<s[(n + 2) - 1], s[n + 2]>>
        <5>1. n + 2 <= Len(s) /\ (n + 2) - 1 = n + 1
          BY <1>2, <3>3, <3>4
        <5> QED BY <1>2, <5>1, TwoBytes
      <4>3. (n + 2) - p \in 9..11
        BY <1>2, <2>2, <2>3
      <4>4. ReadFrom(x, s, n + 2)'
        BY <2>2, <3>3, <3>4, <4>1, <4>2, <4>3 DEF ReadFrom
      <4> QED BY <1>1, <3>3, <3>4, <4>1, <4>4 DEF ReadsScript
    <3>5. CASE k # 2
      <4>1. pc'[x]["receive"] = "loop" /\ received'[x] = <<>>
        BY <1>6, <2>1, <2>4, <3>5 DEF BodySize, Goto, TypeOK, ControlTypeOK
      <4>2. ReadFrom(x, s, n + k)'
        BY <3>3, <4>1 DEF ReadFrom
      <4> QED BY <1>1, <3>3, <4>1, <4>2 DEF ReadsScript
    <3> QED BY <3>4, <3>5
  <2>5. CASE (RecvEnd(x) \/ RecvError(x)) /\ Goto(x, "receive", "loop") /\ UNCHANGED received
    <3>1. stream'[x] = stream[x] /\ pc'[x]["receive"] = "loop"
      BY <1>6, <2>5 DEF RecvEnd, RecvError, Goto, TypeOK, ControlTypeOK
    <3> QED BY <1>8, <2>1, <2>5, <3>1
  <2> QED BY <1>13, <2>4, <2>5 DEF ReceiveBody
<1>14. CASE ReceiveApply(x) \/ ReceiveActivate(x)
  <2>1. /\ pc'[x]["receive"] \in {"loop", "activate"} /\ stream'[x] = stream[x]
        /\ received'[x] = <<>>
    BY <1>6, <1>14
    DEF ReceiveApply, ReceiveActivate, At, Goto, socketVars, ReadsScript, TypeOK, ControlTypeOK
  <2>2. ReadFrom(x, s, n)'
    BY <1>3, <2>1 DEF ReadFrom
  <2> QED BY <1>1, <2>1, <2>2 DEF ReadsScript
<1> QED
  BY <1>9, <1>10, <1>11, <1>12, <1>13, <1>14 DEF ReceiveStep

\* The time it takes from the script is an announced one, or it can go no further.
LEMMA TimeByReceive ==
    ASSUME Unambiguous, TypeOK, NEW x \in Endpoint, ReceiveStep(x), ReadsScript(x), TimeKnown(x)
    PROVE  TimeKnown(x)'
<1>0. /\ stream \in [Endpoint -> Seq(Byte)] /\ heartbeatTime \in [Endpoint -> UInt16]
      /\ pc[x] \in [Thread -> Label] /\ "receive" \in Thread
  BY DEF TypeOK, SocketTypeOK, ControlTypeOK, DataTypeOK, Thread
<1>1. Meant(x)' = Meant(x)
  BY DEF Meant
<1>2. CASE ReceiveApply(x)
  <2>1. PICK s \in Script \cup {<<>>} : \E n \in 0..Len(s) : ReadFrom(x, s, n)
    BY DEF ReadsScript
  <2>2. PICK n \in 0..Len(s) : ReadFrom(x, s, n)
    BY <2>1
  <2>3. PICK p \in Heartbeats(s) : n - p \in 9..11 /\ received[x] = <<s[n - 1], s[n]>>
    BY <1>2, <2>2 DEF ReceiveApply, At, ReadFrom
  <2>4. s \in Script /\ s \in Seq(Byte) /\ Len(s) \in Nat /\ p \in 1..Len(s)
    <3>1. DOMAIN <<>> = {}
      OBVIOUS
    <3> QED BY <2>3, <3>1, ScriptBytes DEF Heartbeats
  <2>5. p + 11 <= Len(s) /\ s[p + 10] # SyncValue /\ s[p + 11] # SyncValue
    BY <2>3, <2>4 DEF Unambiguous
  <2>6. /\ heartbeatTime'[x] = HeartbeatIn(<<s[n - 1], s[n]>>)
        /\ pc'[x]["receive"] \in {"activate", "loop"}
        /\ stream'[x] = SubSeq(s, n + 1, Len(s))
    BY <1>0, <1>2, <2>2, <2>3
    DEF ReceiveApply, Goto, socketVars, ReadFrom, TypeOK, ControlTypeOK
  <2>7. CASE n - p = 11
    <3>1. n - 1 = p + 10 /\ n = p + 11
      BY <2>4, <2>7
    <3>2. p + 10 \in 1..Len(s) /\ p + 11 \in 1..Len(s)
      BY <2>4, <2>5
    <3>3. s[p + 10] \in Byte /\ s[p + 11] \in Byte
      BY <2>4, <3>2, ElementOfSeq
    <3>4. HeartbeatIn(<<s[p + 10], s[p + 11]>>) \in UInt16
      <4>1. <<s[p + 10], s[p + 11]>> \in Seq(Byte) /\ Len(<<s[p + 10], s[p + 11]>>) = 2
        BY <3>3
      <4> QED BY <4>1, HeartbeatInRange
    <3>5. heartbeatTime'[x] \in AnnouncedTimes
      BY <2>3, <2>4, <2>5, <2>6, <3>1, <3>4 DEF AnnouncedTimes
    <3> QED BY <1>1, <3>5 DEF Meant, TimeKnown
  <2>8. CASE n - p # 11
    <3>1. n \in Nat /\ n + 1 \in {p + 10, p + 11} /\ n + 1 <= Len(s)
      <4>1. p \in Nat /\ n \in Nat /\ n - p \in {9, 10}
        BY <2>3, <2>4, <2>8
      <4> QED BY <2>4, <2>5, <4>1
    <3>2. Len(stream'[x]) = Len(s) - n /\ stream'[x][1] = s[n + 1]
      BY <2>4, <2>6, <3>1, SuffixLength
    <3>3. stream'[x] # <<>> /\ Head(stream'[x]) # SyncValue
      BY <2>4, <2>5, <3>1, <3>2
    <3> QED BY <2>6, <3>3 DEF TimeKnown, Doomed
  <2> QED BY <2>7, <2>8
<1>3. CASE ~ReceiveApply(x)
  <2>1. heartbeatTime' = heartbeatTime
    BY <1>3
    DEF ReceiveStep, ReceiveLoop, While, ReceiveSync, ReceiveHeader, ReceiveStamp,
        ReceiveBody, ReceiveActivate
  <2>2. ASSUME Doomed(x) PROVE Doomed(x)'
    <3>1. pc[x]["receive"] \in {"activate", "loop", "sync"}
          /\ stream[x] # <<>> /\ Head(stream[x]) # SyncValue
      BY <2>2
      DEF Doomed, ReceiveStep, ReceiveLoop, While, ReceiveSync, ReceiveHeader,
          ReceiveStamp, ReceiveBody, ReceiveApply, ReceiveActivate, At
    <3>2. CASE ReceiveLoop(x) \/ ReceiveActivate(x)
      BY <1>0, <3>1, <3>2
      DEF Doomed, ReceiveLoop, While, ReceiveActivate, Goto, socketVars, TypeOK, ControlTypeOK
    <3>3. CASE ReceiveSync(x)
      <4>1. stream[x][1] # SyncValue
        BY <1>0, <3>1
      <4> QED BY <1>0, <3>3, <4>1
              DEF Doomed, ReceiveSync, AfterSync, Goto, TypeOK, ControlTypeOK
    <3> QED BY <3>1, <3>2, <3>3
            DEF ReceiveStep, ReceiveHeader, ReceiveStamp, ReceiveBody, ReceiveApply, At
  <2> QED BY <1>1, <2>1, <2>2 DEF TimeKnown
<1> QED BY <1>2, <1>3

\* What every other step leaves to the receive thread of x.
LEMMA ReadFrame ==
    ASSUME NEW x, ReadsScript(x), stream'[x] = stream[x], received'[x] = received[x],
           pc'[x]["receive"] = pc[x]["receive"]
    PROVE  ReadsScript(x)' /\ (Doomed(x) => Doomed(x)')
<1>1. \A s, n : ReadFrom(x, s, n) => ReadFrom(x, s, n)'
  BY DEF ReadFrom
<1> QED BY <1>1 DEF ReadsScript, Doomed

\* An owner asks for supervision once, and only a Client's does.
LEMMA AskingOnce ==
    ASSUME TypeOK, NEW z \in Endpoint, ThreadStep(z) \/ NetworkStep(z)
    PROVE  Asking(z) => Asking(z)'
<1> USE DEF Asking, TypeOK, ControlTypeOK
<1>1. CASE OwnerStep(z)
  <2>1. CASE PushStep(z, "owner")
    BY <2>1 DEF PushStep, PushBuild, PushCheck, PushRecheck, PushTest, PushLock,
                PushConstruct, PushBump, Breaks, EndProcess, Return, At, Goto, Thread
  <2>2. CASE ~PushStep(z, "owner")
    BY <1>1, <2>2
    DEF OwnerStep, OwnerSupervise, OwnerClose, OwnerStop, OwnerJoinReceive, OwnerJoinSend,
        OwnerJoin, OwnerExit, OwnerBreaks, Breaks, EndProcess, At, Goto, Thread
  <2> QED BY <2>1, <2>2
<1>2. CASE ReceiveStep(z)
  BY <1>2, ReceiveMoves DEF Moves
<1>3. CASE SendStep(z)
  BY <1>3, SendMoves DEF Moves
<1>4. CASE SupervisorStep(z)
  BY <1>4, SupervisorMoves DEF Moves
<1>5. CASE NetworkStep(z)
  BY <1>5 DEF NetworkStep
<1> QED BY <1>1, <1>2, <1>3, <1>4, <1>5 DEF ThreadStep

\* Two steps write heartbeatTime: StartSupervision and the body of a KeepAlive.
LEMMA TimeWritten ==
    ASSUME TypeOK, NEW z \in Endpoint, ThreadStep(z) \/ NetworkStep(z), NEW x \in Endpoint
    PROVE  \/ heartbeatTime'[x] = heartbeatTime[x]
           \/ x = z /\ (ReceiveStep(z) \/ OwnerSupervise(z))
<1> USE DEF TypeOK, DataTypeOK
<1>1. CASE ReceiveStep(z)
  BY <1>1 DEF ReceiveStep, ReceiveLoop, While, ReceiveSync, ReceiveHeader, ReceiveStamp,
              ReceiveBody, ReceiveApply, ReceiveActivate
<1>2. CASE SendStep(z)
  BY <1>2 DEF SendStep, SendLoop, While, SendPeek, SendLock, SendFront, SendSend, SendPop,
              Breaks, EndProcess, SendStamp
<1>3. ASSUME NEW t, PushStep(z, t) PROVE UNCHANGED heartbeatTime
  BY <1>3 DEF PushStep, PushBuild, PushCheck, PushRecheck, PushTest, PushLock,
              PushConstruct, PushBump, Breaks, EndProcess
<1>4. CASE SupervisorStep(z)
  BY <1>3, <1>4
  DEF SupervisorStep, SupervisorPeriod, SupervisorPatience, SupervisorLoop, While,
      SupervisorDiff, SupervisorTimeout, SupervisorSleep, SupervisorWake, Astray
<1>5. CASE OwnerStep(z)
  BY <1>3, <1>5
  DEF OwnerStep, OwnerSupervise, OwnerClose, OwnerStop, OwnerJoinReceive, OwnerJoinSend,
      OwnerJoin, OwnerExit, OwnerBreaks, Breaks, EndProcess
<1>6. CASE NetworkStep(z)
  BY <1>6 DEF NetworkStep
<1> QED BY <1>1, <1>2, <1>4, <1>5, <1>6 DEF ThreadStep

\* Only its own recv calls take bytes from an endpoint whose peer is outside.
LEMMA OutsideStream ==
    ASSUME TypeOK, Carried, NEW z \in Endpoint, ThreadStep(z) \/ NetworkStep(z),
           NEW x \in Endpoint, Peer[x] \notin Endpoint, x = z => ~ReceiveStep(z)
    PROVE  /\ stream'[x] = stream[x] /\ received'[x] = received[x]
           /\ pc'[x]["receive"] = pc[x]["receive"]
<1> USE DEF TypeOK, SocketTypeOK
<1>1. x # Peer[z]
  BY PeerAssumption
<1>2. CASE SendStep(z)
  <2>1. stream'[x] = stream[x]
    BY <1>1, <1>2 DEF SendStep, SendLoop, While, SendPeek, SendLock, SendFront, SendSend,
                      SendPop, Breaks, SendStamp, SendDelivers, SendIsLost, SendError,
                      SendRaisesSigpipe, EndProcess, socketVars
  <2> QED BY <1>2, <2>1, SendReceivesAlike DEF ReceivesAlike
<1>3. ASSUME NEW t, PushStep(z, t) PROVE UNCHANGED stream
  BY <1>3 DEF PushStep, PushBuild, PushCheck, PushRecheck, PushTest, PushLock,
              PushConstruct, PushBump, Breaks, EndProcess, socketVars
<1>4. CASE SupervisorStep(z)
  <2>1. UNCHANGED stream
    BY <1>3, <1>4
    DEF SupervisorStep, SupervisorPeriod, SupervisorPatience, SupervisorLoop, While,
        SupervisorDiff, SupervisorTimeout, SupervisorSleep, SupervisorWake, Astray, socketVars
  <2> QED BY <1>4, <2>1, SupervisorAppends DEF ReceivesAlike
<1>5. CASE OwnerStep(z)
  <2>1. UNCHANGED stream
    BY <1>3, <1>5
    DEF OwnerStep, OwnerSupervise, OwnerClose, OwnerStop, OwnerJoinReceive, OwnerJoinSend,
        OwnerJoin, OwnerExit, OwnerBreaks, Breaks, Close, EndProcess, socketVars
  <2> QED BY <1>5, <2>1, OwnerAppends DEF ReceivesAlike
<1>6. CASE NetworkStep(z)
  <2>1. stream'[x] = stream[x]
    <3>1. CASE x = z
      BY <1>6, <3>1 DEF NetworkStep, Release, PeerCloses
    <3>2. CASE x # z
      BY <1>1, <3>2, StepFrame
    <3> QED BY <3>1, <3>2
  <2> QED BY <1>6, <2>1 DEF NetworkStep
<1>7. CASE ReceiveStep(z)
  <2>1. received'[x] = received[x]
    BY <1>7 DEF ReceiveStep, ReceiveLoop, While, ReceiveSync, ReceiveHeader, ReceiveStamp,
                ReceiveBody, ReceiveApply, ReceiveActivate, DataTypeOK
  <2> QED BY <1>1, <1>7, <2>1, StepFrame
<1> QED BY <1>2, <1>4, <1>5, <1>6, <1>7 DEF ThreadStep

LEMMA InitRead == Init => ReadInv
<1> SUFFICES ASSUME Init, NEW x \in Endpoint
             PROVE  ReadsScript(x) /\ TimeKnown(x) /\ Asking(x)
  BY DEF ReadInv
<1>1. stream[x] \in Script \cup {<<>>}
  BY DEF Init, SocketInit
<1>2. /\ pc[x]["receive"] \in {"loop", "done"} /\ received[x] = <<>>
      /\ pc[x]["owner"] = "supervise" => x \in Client
  BY DEF Init, StartLabel, Thread
<1>3. 0 \in 0..Len(stream[x]) /\ stream[x] = SubSeq(stream[x], 0 + 1, Len(stream[x]))
  <2> DEFINE s == stream[x]
             r == SubSeq(s, 0 + 1, Len(s))
  <2>1. s \in Seq(Byte) /\ Len(s) \in Nat /\ 0 \in 0..Len(s)
    BY <1>1, ScriptBytes
  <2>2. r \in Seq(Byte) /\ Len(r) = Len(s) /\ \A i \in 1..Len(s) : r[i] = s[i]
    <3>1. Len(r) = Len(s) - 0 /\ \A i \in 1..(Len(s) - 0) : r[i] = s[0 + i]
      BY <2>1, SuffixLength
    <3> QED BY <2>1, <3>1
  <2> HIDE DEF s, r
  <2>3. s = r
    BY <2>1, <2>2, SeqEqual
  <2> QED BY <2>1, <2>3 DEF s, r
<1>4. ReadFrom(x, stream[x], 0)
  BY <1>2, <1>3 DEF ReadFrom
<1>5. heartbeatTime[x] \in Meant(x)
  BY DEF Init, Meant
<1> QED BY <1>1, <1>2, <1>3, <1>4, <1>5 DEF ReadsScript, TimeKnown, Asking

LEMMA NextRead == Unambiguous /\ IInv /\ ReadInv /\ [Next]_vars => ReadInv'
<1> SUFFICES ASSUME Unambiguous, IInv, ReadInv, [Next]_vars,
                    NEW x \in Endpoint, Peer[x] \notin Endpoint
             PROVE  (ReadsScript(x) /\ TimeKnown(x) /\ Asking(x))'
  BY DEF ReadInv
<1>1. TypeOK /\ Carried /\ ReadsScript(x) /\ TimeKnown(x) /\ Asking(x)
  BY DEF IInv, LInv, ReadInv
<1>2. ASSUME NEW z \in Endpoint, ThreadStep(z) \/ NetworkStep(z)
      PROVE  (ReadsScript(x) /\ TimeKnown(x) /\ Asking(x))'
  <2>1. Asking(x)'
    <3>1. CASE x = z
      BY <1>1, <1>2, <3>1, AskingOnce
    <3>2. CASE x # z
      BY <1>1, <1>2, <3>2, StepFrame DEF Asking
    <3> QED BY <3>1, <3>2
  <2>2. CASE x = z /\ ReceiveStep(z)
    BY <1>1, <2>1, <2>2, ScriptByReceive, TimeByReceive
  <2>3. CASE ~(x = z /\ ReceiveStep(z))
    <3>1. ReadsScript(x)' /\ (Doomed(x) => Doomed(x)')
      BY <1>1, <1>2, <2>3, OutsideStream, ReadFrame
    <3>2. heartbeatTime[x] \in Meant(x) => heartbeatTime'[x] \in Meant(x)
      <4>1. CASE heartbeatTime'[x] = heartbeatTime[x]
        BY <4>1
      <4>2. CASE x = z /\ OwnerSupervise(z)
        <5>1. x \in Client /\ heartbeatTime'[x] = AskedTime
          BY <1>1, <4>2 DEF OwnerSupervise, At, Asking, TypeOK, DataTypeOK
        <5> QED BY <5>1 DEF Meant
      <4> QED BY <1>1, <1>2, <2>3, <4>1, <4>2, TimeWritten
    <3>3. CASE Doomed(x)
      BY <2>1, <3>1, <3>3 DEF TimeKnown
    <3>4. CASE heartbeatTime[x] \in Meant(x)
      BY <2>1, <3>1, <3>2, <3>4 DEF TimeKnown, Meant
    <3> QED BY <1>1, <3>3, <3>4 DEF TimeKnown
  <2> QED BY <2>2, <2>3
<1>3. CASE Tick \/ UNCHANGED vars
  <2>1. UNCHANGED <<stream, pc, received, heartbeatTime>>
    BY <1>3 DEF Tick, vars, socketVars
  <2>2. ReadsScript(x)' /\ (Doomed(x) => Doomed(x)')
    BY <1>1, <2>1, ReadFrame
  <2> QED BY <1>1, <2>1, <2>2 DEF TimeKnown, Meant, Asking
<1> QED BY <1>2, <1>3 DEF Next

\* Whatever an unambiguous peer sends and however recv cuts it (OcpConnectionEndpoint.
\* cxx:106-118, 144-147): a heartbeat time that nobody announced is the last thing the
\* receive thread takes from the connection, for the byte it reads next is no sync byte
\* and it returns (98-102).
THEOREM MisreadIsFinalAlways == Unambiguous => (Spec => []MisreadIsFinal)
<1>1. ReadInv => MisreadIsFinal
  BY DEF ReadInv, TimeKnown, MisreadIsFinal
<1>2. SUFFICES ASSUME Unambiguous PROVE Spec => []MisreadIsFinal
  OBVIOUS
<1>3. IInv /\ ReadInv /\ [Next]_vars => ReadInv'
  BY <1>2, NextRead
<1> QED BY Invariant, InitRead, <1>1, <1>3, PTL DEF Spec
=============================================================================
