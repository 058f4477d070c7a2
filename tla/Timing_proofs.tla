----------------------------- MODULE Timing_proofs -----------------------------
(***************************************************************************)
(* Proofs about KeepAlive: an endpoint that does its part is heard often   *)
(* enough, and nobody gives up a peer that does, for any number of         *)
(* connections, any period and any delay on the way that leave room.       *)
(***************************************************************************)
EXTENDS KeepAlive_proofs

-----------------------------------------------------------------------------
\* Each connection is one of a Client to an endpoint of a Server.
Matched ==
    /\ Connected = Endpoint
    /\ \A e \in Endpoint : Peer[e] \in Endpoint /\ (e \in Client <=> Peer[e] \notin Client)

\* A heartbeat arrives before the next one is due, and fits into the buffer.
Swift == StartTime >= 2 /\ MaxLag < StartTime /\ BufferSize >= MessageSize

\* The longest silence of a supervised endpoint: what is due after StartTime waits for
\* the end of a nap.
Gap == StartTime + Nap(StartTime) - 1

-----------------------------------------------------------------------------
\* The invariant.  It is about connections of which both ends do their part.

Both(e) == Healthy(e) /\ Healthy(Peer[e])

Alive(x) ==
    /\ pc[x]["receive"] \in Receiving \cup {"loop", "stamp", "apply", "activate"}
    /\ pc[x]["send"] \in {"loop", "peek", "lock", "front", "send", "pop", "stamp"}
    /\ pc[x]["supervisor"] \in SupervisorAt \ {"done", "astray"}
    /\ pc[x]["owner"] \in BeforeServing \cup {"serving", "dtor"}
    /\ pc[x]["owner"] \in BeforeServing => pc[x]["supervisor"] = "off" /\ x \in Client
    /\ pc[x]["receive"] = "activate" => pc[x]["supervisor"] = "off"

\* One heartbeat at a time: while one is made and queued, none is on the way.
Clear(x) == stream[x] = <<>> /\ pc[x]["receive"] \in {"loop", "sync"}
Pushes(x) == \E t \in Pusher : pc[x][t] \in Pushing
Sent(x) == pc[x]["send"] \in {"pop", "stamp"}
Due(x) == Pushes(x) \/ messageQueue[x] # <<>> \/ pc[x]["send"] \notin {"loop", "peek"}
Single(x) ==
    /\ Due(x) => Sent(x) \/ Clear(Peer[x])
    /\ Pushes(x) => messageQueue[x] = <<>> /\ pc[x]["send"] \in {"loop", "peek"}
    /\ pc[x]["send"] \in {"lock", "front", "send", "pop"} => messageQueue[x] # <<>>
    /\ pc[x]["send"] = "stamp" => messageQueue[x] = <<>>
    /\ pc[x]["owner"] = "supervise" => ~Due(x)
    /\ Len(messageQueue[x]) <= 1

\* What is on the way to x, or just read, was sent since Wait(x) seconds.
Wait(x) == IF stream[x] = <<>> THEN MaxLag ELSE lag[x]
Young(x) == ~Clear(Peer[x]) => Sent(x) \/ sinceSent[x] <= Wait(Peer[x])

\* A supervisor looks at sinceSent before each nap, when its last heartbeat has left.
Limit(x) == IF x \in Client THEN Gap + MaxLag ELSE Gap
Punctual(x) ==
    /\ pc[x]["supervisor"] # "off" => sinceSent[x] <= Limit(x)
    /\ pc[x]["supervisor"] \in {"period", "patience", "loop", "diff"} => ~Due(x)
    /\ pc[x]["supervisor"] \in {"timeout", "sleep"} => Due(x) \/ sinceSent[x] < StartTime
    /\ pc[x]["supervisor"] = "sleeping" =>
           IF Due(x) THEN sleepLeft[x] = Nap(StartTime) ELSE sinceSent[x] + sleepLeft[x] <= Gap

\* When x was last heard, by whom supervises it.
Hears(x) == pc[x]["supervisor"] # "off" \/ pc[x]["receive"] \in {"body", "apply", "activate"}
Unread(x) == stream[x] # <<>> /\ pc[x]["receive"] \notin {"body", "apply", "activate"}
Fresh(x) ==
    Hears(x) =>
        sinceReceived[x] <= IF Unread(x) THEN Gap + MaxLag + lag[x]
                            ELSE IF Sent(Peer[x]) THEN 0
                            ELSE sinceSent[Peer[x]]

\* The first heartbeats: that of c is answered by s.
Begins(c, s) ==
    /\ pc[s]["supervisor"] = "off" =>
           /\ pc[c]["supervisor"] = "off" /\ Clear(c) /\ ~Due(s)
           /\ pc[c]["owner"] \in BeforeServing \/ (Due(c) /\ ~Sent(c)) \/ ~Clear(s)
           /\ sinceSent[s] <= Wait(s)
    /\ pc[c]["owner"] \in BeforeServing => Clear(s)
    /\ pc[c]["supervisor"] = "off" =>
           /\ pc[c]["owner"] \in BeforeServing \/ Due(c) =>
                  sinceSent[s] = 0 /\ Clear(c) /\ ~Due(s)
           /\ IF Clear(c) THEN ~Sent(s) /\ sinceSent[c] <= sinceSent[s]
              ELSE sinceSent[c] <= Gap + Wait(c)

Timed(x) == Alive(x) /\ Single(x) /\ Young(x) /\ Punctual(x) /\ Fresh(x)
PairInv ==
    /\ \A x \in Endpoint : Both(x) => Timed(x)
    /\ \A c \in Client : Both(c) => Begins(c, Peer[c])

\* Until its destructor runs, an endpoint has its descriptor.
Kept(x) == pc[x]["owner"] \in BeforeServing \cup {"serving"} => fd[x] = "open"

\* While its peer does its part, a supervisor that goes on has heard from it less than three
\* periods ago.
Spared(x) ==
    HealthyPeer(x) =>
        /\ ~expired[x]
        /\ /\ process[x] = "up" /\ pc[x]["supervisor"] # "off"
           /\ shouldContinue[x] \/ pc[x]["supervisor"] = "diff"
           => sinceReceived[x] < 3 * StartTime
SparedInv == \A x \in Endpoint : Kept(x) /\ Spared(x)

-----------------------------------------------------------------------------
\* What a step of one endpoint x does between two that do their part.

Reads(x) ==
    /\ UNCHANGED <<pc[x]["send"], pc[x]["owner"], messageQueue[x], sinceSent[x], sleepLeft[x],
                   stream[Peer[x]]>>
    /\ pc[x]["receive"] # "activate" => pc'[x]["supervisor"] = pc[x]["supervisor"]
    /\ \/ /\ pc[x]["receive"] = "loop" /\ pc'[x]["receive"] = "sync"
          /\ UNCHANGED <<stream[x], sinceReceived[x]>>
       \/ /\ <<pc[x]["receive"], pc'[x]["receive"]>> \in {<<"sync", "header">>, <<"header", "stamp">>}
          /\ stream[x] # <<>> /\ stream'[x] # <<>> /\ UNCHANGED sinceReceived[x]
       \/ /\ pc[x]["receive"] = "stamp" /\ pc'[x]["receive"] = "body"
          /\ stream[x] # <<>> /\ UNCHANGED stream[x] /\ sinceReceived'[x] = 0
       \/ /\ pc[x]["receive"] = "body" /\ pc'[x]["receive"] = "apply"
          /\ stream[x] # <<>> /\ UNCHANGED sinceReceived[x]
       \/ /\ pc[x]["receive"] = "apply"
          /\ pc'[x]["receive"] = (IF pc[x]["supervisor"] = "off" THEN "activate" ELSE "loop")
          /\ UNCHANGED <<stream[x], sinceReceived[x]>>
       \/ /\ pc[x]["receive"] = "activate" /\ pc'[x]["receive"] = "loop"
          /\ pc'[x]["supervisor"] = "period"
          /\ UNCHANGED <<stream[x], sinceReceived[x]>>

Writes(x) ==
    /\ UNCHANGED <<pc[x]["receive"], pc[x]["owner"], pc[x]["supervisor"], stream[x],
                   sinceReceived[x], sleepLeft[x]>>
    /\ \/ /\ pc[x]["send"] \in {"loop", "peek", "lock", "front"}
          /\ pc'[x]["send"] \in {"loop", "peek", "lock", "front", "send"}
          /\ pc'[x]["send"] \in {"lock", "front", "send"} =>
                 messageQueue[x] # <<>> \/ pc[x]["send"] = "lock"
          /\ UNCHANGED <<messageQueue[x], sinceSent[x], stream[Peer[x]]>>
       \/ /\ pc[x]["send"] = "send" /\ pc'[x]["send"] = "pop" /\ stream'[Peer[x]] # <<>>
          /\ UNCHANGED <<messageQueue[x], sinceSent[x]>>
       \/ /\ pc[x]["send"] = "pop" /\ pc'[x]["send"] = "stamp"
          /\ messageQueue'[x] = PopFront(messageQueue[x])
          /\ UNCHANGED <<sinceSent[x], stream[Peer[x]]>>
       \/ /\ pc[x]["send"] = "stamp" /\ pc'[x]["send"] = "loop" /\ sinceSent'[x] = 0
          /\ UNCHANGED <<messageQueue[x], stream[Peer[x]]>>

Puts(x, t) ==
    /\ UNCHANGED <<pc[x]["receive"], pc[x]["send"], stream[x], stream[Peer[x]],
                   sinceSent[x], sinceReceived[x], sleepLeft[x]>>
    /\ \A u \in Pusher \ {t} : UNCHANGED pc[x][u]
    /\ pc[x][t] \in Pushing
    /\ \/ pc[x][t] # "bump" /\ pc'[x][t] \in Pushing /\ UNCHANGED messageQueue[x]
       \/ /\ pc[x][t] = "bump" /\ pc'[x][t] = Return(t)
          /\ messageQueue'[x] = Append(messageQueue[x], built[x][t])

Supervises(x) ==
    /\ UNCHANGED <<pc[x]["receive"], pc[x]["send"], pc[x]["owner"], messageQueue[x], stream[x],
                   stream[Peer[x]], sinceSent[x], sinceReceived[x]>>
    /\ pc[x]["supervisor"] # "sleep" => UNCHANGED sleepLeft[x]
    /\ \/ <<pc[x]["supervisor"], pc'[x]["supervisor"]>> \in
             {<<"period", "patience">>, <<"patience", "loop">>, <<"loop", "diff">>,
              <<"timeout", "sleep">>}
       \/ /\ pc[x]["supervisor"] = "diff"
          /\ pc'[x]["supervisor"] = (IF sinceSent[x] >= StartTime THEN "build" ELSE "timeout")
       \/ /\ pc[x]["supervisor"] = "sleep" /\ pc'[x]["supervisor"] = "sleeping"
          /\ sleepLeft'[x] = Nap(StartTime)
       \/ /\ pc[x]["supervisor"] = "sleeping" /\ pc'[x]["supervisor"] = "loop"
          /\ sleepLeft[x] = 0

Owns(x) ==
    /\ UNCHANGED <<pc[x]["receive"], pc[x]["send"], pc[x]["supervisor"], messageQueue[x],
                   stream[x], stream[Peer[x]], sinceSent[x], sinceReceived[x], sleepLeft[x]>>
    /\ <<pc[x]["owner"], pc'[x]["owner"]>> \in {<<"supervise", "build">>, <<"serving", "dtor">>}

\* What it leaves alone of its peer y.
Rests(y) ==
    UNCHANGED <<pc[y], messageQueue[y], sinceSent[y], sinceReceived[y], sleepLeft[y]>>

PairStep(x) ==
    /\ Rests(Peer[x])
    /\ Reads(x) \/ Writes(x) \/ (\E t \in Pusher : Puts(x, t)) \/ Supervises(x) \/ Owns(x)

\* The situation of a proof about a step.
Context ==
    /\ Steady /\ Matched /\ Swift
    /\ IInv /\ TypeOK /\ TypeOK' /\ AInv /\ AInv'
    /\ lag \in [Endpoint -> 0..MaxLag]

LEMMA BothOpen ==
    ASSUME Matched, NEW x \in Endpoint, Both(x)
    PROVE  /\ Peer[x] \in Endpoint /\ Peer[x] # x /\ Peer[Peer[x]] = x /\ Both(Peer[x])
           /\ process[x] = "up" /\ fd[x] = "open" /\ remote[x] = "open" /\ shouldContinue[x]
           /\ ~Ended(x)
BY PeerAssumption DEF Matched, Both, Healthy, Ended, Cut

LEMMA ReadsByReceive ==
    ASSUME Context, NEW x \in Endpoint, Both(x), Both(x)', ReceiveStep(x)
    PROVE  Reads(x)
<1> USE DEF TypeOK, ControlTypeOK, DataTypeOK, SocketTypeOK, Thread
<1>0. /\ TypeOK /\ Fragment = FALSE /\ Peer[x] \in Endpoint /\ Peer[x] # x
      /\ fd[x] = "open" /\ remote[x] = "open" /\ shouldContinue[x]
      /\ Framed(x) /\ StampedRight(x) /\ ~Ended(x) /\ Framed(x)' /\ ~Ended(x)'
      /\ stream[x] \in Seq(Byte) /\ stream'[x] \in Seq(Byte)
  <2> USE DEF Context
  <2>1. (~Ended(x))'
    BY BothOpen DEF Both, Healthy, Ended, Cut
  <2>2. /\ Peer[x] \in Endpoint /\ Peer[x] # x /\ fd[x] = "open" /\ remote[x] = "open"
        /\ shouldContinue[x] /\ ~Ended(x)
    BY BothOpen
  <2>3. Framed(x) /\ StampedRight(x) /\ Framed(x)' /\ Fragment = FALSE
    BY <2>1, <2>2 DEF Steady, AInv, Wire
  <2> QED BY <2>1, <2>2, <2>3
<1>1. Whole(stream[x], Off(x)) /\ Whole(stream'[x], Off(x)')
  BY <1>0 DEF Framed, Lost
<1>2. /\ pc[x]["receive"] \in {"header", "stamp", "body"} => stream[x] # <<>>
      /\ pc'[x]["receive"] \in {"header", "stamp", "body"} => stream'[x] # <<>>
  BY <1>1, WholeRestOfOne DEF Off
<1>3. /\ UNCHANGED <<messageQueue[x], sinceSent[x], sleepLeft[x], stream[Peer[x]]>>
  BY <1>0 DEF ReceiveStep, ReceiveLoop, While, ReceiveSync, ReceiveHeader, ReceiveStamp,
              ReceiveBody, ReceiveApply, ReceiveActivate, RecvBytes, RecvEnd, RecvError,
              socketVars, queueVars, ageVars, supervisorVars
<1>4. CASE ReceiveLoop(x)
  BY <1>0, <1>3, <1>4 DEF ReceiveLoop, While, At, Goto, Reads, socketVars, ageVars
<1>5. CASE ReceiveSync(x)
  <2>1. stream[x] # <<>> /\ AfterSync(stream[x][1]) = "header"
    <3>1. stream[x] # <<>>
      BY <1>0, <1>5 DEF ReceiveSync, RecvBytes, RecvEnd, RecvError
    <3>2. Off(x) = 0
      BY <1>5 DEF ReceiveSync, At, Off
    <3> QED BY <1>0, <1>1, <3>1, <3>2, WholeSync DEF AfterSync
  <2>2. pc' = [pc EXCEPT ![x]["receive"] = "header"]
    BY <1>0, <1>5, <2>1 DEF ReceiveSync, RecvBytes, RecvEnd, RecvError, Goto
  <2> QED BY <1>0, <1>2, <1>3, <1>5, <2>1, <2>2 DEF ReceiveSync, At, Reads, ageVars
<1>6. CASE ReceiveHeader(x)
  <2>1. pc' = [pc EXCEPT ![x]["receive"] = "stamp"]
    BY <1>0, <1>6 DEF ReceiveHeader, RecvEnd, Goto
  <2> QED BY <1>0, <1>2, <1>3, <1>6, <2>1 DEF ReceiveHeader, At, Reads, ageVars
<1>7. CASE ReceiveStamp(x)
  <2>1. MessageType(received[x]) = OcaKeepAlive
    BY <1>0, <1>7 DEF ReceiveStamp, At, StampedRight, Lost
  <2> QED BY <1>0, <1>2, <1>3, <1>7, <2>1 DEF ReceiveStamp, At, Goto, Reads, socketVars
<1>8. CASE ReceiveBody(x)
  <2>1. Len(stream[x]) >= 2
    BY <1>0, <1>1, <1>2, <1>8, WholeBody DEF ReceiveBody, At, Off
  <2>2. ReadSizes(BodySize, Len(stream[x])) = {2}
    BY <1>0, <2>1 DEF ReadSizes, AtMost, BodySize
  <2>3. pc' = [pc EXCEPT ![x]["receive"] = "apply"]
    BY <1>0, <1>2, <1>8, <2>2 DEF ReceiveBody, At, RecvEnd, RecvError, BodySize, Goto
  <2> QED BY <1>0, <1>2, <1>3, <1>8, <2>3 DEF ReceiveBody, At, Reads, ageVars
<1>9. CASE ReceiveApply(x)
  BY <1>0, <1>3, <1>9 DEF ReceiveApply, At, Goto, Reads, socketVars, ageVars
<1>10. CASE ReceiveActivate(x)
  BY <1>0, <1>3, <1>10 DEF ReceiveActivate, At, Reads, socketVars, ageVars
<1> QED BY <1>4, <1>5, <1>6, <1>7, <1>8, <1>9, <1>10 DEF ReceiveStep

LEMMA WritesBySend ==
    ASSUME Context, NEW x \in Endpoint, Both(x), Both(x)', Alive(x), SendStep(x)
    PROVE  Writes(x)
<1> USE DEF TypeOK, ControlTypeOK, DataTypeOK, SocketTypeOK, Thread
<1>0. /\ TypeOK /\ MessageTaken /\ ~torn[x] /\ Peer[x] \in Endpoint /\ Peer[x] # x
      /\ fd[x] = "open" /\ remote[x] = "open" /\ shouldContinue[x] /\ process[x] = "up"
      /\ process'[x] = "up"
      /\ stream[Peer[x]] \in Seq(Byte)
  <2>1. TypeOK /\ MessageTaken /\ Untorn /\ process'[x] = "up" /\ Matched
    BY DEF Context, IInv, LInv, Both, Healthy
  <2>2. /\ Peer[x] \in Endpoint /\ Peer[x] # x /\ fd[x] = "open" /\ remote[x] = "open"
        /\ shouldContinue[x] /\ process[x] = "up"
    BY <2>1, BothOpen, Zenon
  <2>3. stream[Peer[x]] \in Seq(Byte) /\ ~torn[x]
    BY <2>1, <2>2 DEF Untorn
  <2> QED BY <2>1, <2>2, <2>3
<1>1. UNCHANGED <<stream[x], sinceReceived[x], sleepLeft[x]>>
  BY <1>0 DEF SendStep, SendLoop, While, SendPeek, SendLock, SendFront, SendSend, SendPop,
              Breaks, SendStamp, SendDelivers, SendIsLost, SendError, SendRaisesSigpipe,
              EndProcess, socketVars, queueVars, ageVars, supervisorVars
<1>2. CASE SendLoop(x)
  BY <1>0, <1>1, <1>2 DEF SendLoop, While, At, Goto, Writes, socketVars, queueVars, ageVars
<1>3. CASE SendPeek(x)
  BY <1>0, <1>1, <1>3 DEF SendPeek, AfterPeek, At, Goto, Writes, socketVars, queueVars, ageVars
<1>4. CASE SendLock(x)
  BY <1>0, <1>1, <1>4 DEF SendLock, At, Goto, Writes, socketVars, queueVars, ageVars
<1>5. CASE SendFront(x)
  <2>1. UNCHANGED socketVars /\ \/ Goto(x, "send", "loop")
                                \/ Goto(x, "send", "send") /\ messageQueue[x] # <<>>
    BY <1>0, <1>5 DEF SendFront, Breaks
  <2> QED BY <1>0, <1>1, <1>5, <2>1 DEF SendFront, Breaks, EndProcess, At, Goto, Writes,
                                        socketVars, queueVars, ageVars
<1>6. CASE SendSend(x)
  <2>1. SendDelivers(x, Payload(sending[x])) /\ Goto(x, "send", "pop")
    BY <1>0, <1>6 DEF SendSend, SendIsLost, SendError, SendRaisesSigpipe
  <2>2. sending[x] = StartTime /\ sending[x] # NoMessage
    BY <1>0, <1>6 DEF Context, SendSend, At, MessageTaken, AInv, Says, Announces, Announced
  <2>3. stream'[Peer[x]] = stream[Peer[x]] \o KeepAlive(StartTime)
    BY <1>0, <2>1, <2>2 DEF SendDelivers, Payload
  <2>4. stream'[Peer[x]] # <<>>
    <3> DEFINE before == stream[Peer[x]]
               beat == KeepAlive(StartTime)
    <3>1. before \in Seq(Byte) /\ beat \in Seq(Byte) /\ Len(beat) = 12
      BY <1>0, AHeartbeat
    <3> HIDE DEF before, beat
    <3>2. Len(before \o beat) = Len(before) + Len(beat)
      BY <3>1, TwoParts, Zenon
    <3>3. Len(<<>>) = 0
      OBVIOUS
    <3>4. Len(before) + 12 # 0
      BY <3>1
    <3> QED BY <2>3, <3>1, <3>2, <3>3, <3>4 DEF before, beat
  <2> QED BY <1>0, <1>1, <1>6, <2>1, <2>4 DEF SendSend, At, Goto, Writes, queueVars, ageVars
<1>7. CASE SendPop(x)
  <2>1. /\ messageQueue' = [messageQueue EXCEPT ![x] = PopFront(@)]
        /\ Goto(x, "send", "stamp") /\ UNCHANGED <<stream, sinceSent>>
    BY <1>0, <1>7 DEF SendPop, Breaks, socketVars, ageVars
  <2>2. messageQueue'[x] = PopFront(messageQueue[x])
    BY <1>0, <2>1
  <2> QED BY <1>0, <1>1, <1>7, <2>1, <2>2 DEF SendPop, At, Goto, Writes
<1>8. CASE SendStamp(x)
  BY <1>0, <1>1, <1>8 DEF SendStamp, At, Goto, Writes, socketVars, queueVars
<1> QED BY <1>2, <1>3, <1>4, <1>5, <1>6, <1>7, <1>8 DEF SendStep

LEMMA PutsByPush ==
    ASSUME Context, NEW x \in Endpoint, Both(x), Alive(x), NEW t \in Pusher, PushStep(x, t)
    PROVE  Puts(x, t)
<1> USE DEF TypeOK, ControlTypeOK, DataTypeOK, SocketTypeOK, Thread, Pusher
<1>0. /\ TypeOK /\ shouldContinue[x] /\ ~torn[x]
      /\ pc[x][t] \in Pushing => \A u \in Pusher \ {t} : pc[x][u] # "bump"
  <2>1. TypeOK /\ Untorn /\ shouldContinue[x] /\ Peer[x] \in Endpoint
    BY BothOpen DEF Context, IInv
  <2>2. pc[x][t] \in Pushing => \A u \in Pusher \ {t} : pc[x][u] # "bump"
    BY DEF Alive, BeforeServing, Pushing
  <2> QED BY <2>1, <2>2 DEF Untorn
<1>1. UNCHANGED <<stream, sinceSent, sinceReceived, sleepLeft>>
  BY DEF PushStep, PushBuild, PushCheck, PushRecheck, PushTest, PushLock, PushConstruct,
         PushBump, Breaks, EndProcess, socketVars, ageVars, supervisorVars
<1>2. CASE PushBuild(x, t) \/ PushCheck(x, t) \/ PushRecheck(x, t) \/ PushLock(x, t)
  BY <1>0, <1>1, <1>2 DEF PushBuild, PushCheck, PushRecheck, PushTest, PushLock, At, Goto,
                          Puts, Pushing, queueVars
<1>3. CASE PushConstruct(x, t)
  BY <1>0, <1>1, <1>3 DEF PushConstruct, At, Goto, Puts, Pushing
<1>4. CASE PushBump(x, t)
  BY <1>0, <1>1, <1>4 DEF PushBump, Breaks, EndProcess, At, Goto, Puts, Pushing, Enqueued
<1> QED BY <1>2, <1>3, <1>4 DEF PushStep

LEMMA SupervisesBySupervisor ==
    ASSUME Context, NEW x \in Endpoint, Both(x), Both(x)', Alive(x), SupervisorStep(x)
    PROVE  Supervises(x) \/ Puts(x, "supervisor")
<1> USE DEF TypeOK, ControlTypeOK, DataTypeOK, Thread
<1>0. /\ TypeOK /\ shouldContinue[x] /\ Timely(x) /\ Periodic(x)
      /\ pc[x]["owner"] # "freed" /\ UInt16 \subseteq Nat
  BY BothOpen, UInt16IsNat DEF Context, AInv, Says, Alive, BeforeServing
<1>1. CASE PushStep(x, "supervisor")
  BY <1>1, PutsByPush DEF Pusher
<1>2. CASE ~PushStep(x, "supervisor")
  <2>1. ~Astray(x)
    BY <1>0 DEF Astray
  <2>2. UNCHANGED <<messageQueue, stream, sinceSent, sinceReceived>>
    BY <1>2, <2>1 DEF SupervisorStep, SupervisorPeriod, SupervisorPatience, SupervisorLoop, While,
      SupervisorDiff, SupervisorTimeout, SupervisorSleep, SupervisorWake, socketVars,
      queueVars, ageVars
  <2>3. CASE SupervisorPeriod(x) \/ SupervisorPatience(x) \/ SupervisorLoop(x)
    BY <1>0, <2>2, <2>3 DEF SupervisorPeriod, SupervisorPatience, SupervisorLoop, While, At,
                            Goto, Supervises, supervisorVars
  <2>4. CASE SupervisorDiff(x)
    <3>1. heartbeatPeriod[x] = StartTime
      BY <1>0, <2>4 DEF SupervisorDiff, At, Periodic
    <3> QED BY <1>0, <2>2, <2>4, <3>1 DEF SupervisorDiff, Overdue, At, Goto, Supervises
  <2>5. CASE SupervisorWake(x)
    BY <1>0, <2>2, <2>5 DEF SupervisorWake, At, Goto, Supervises, supervisorVars
  <2>7. CASE SupervisorTimeout(x)
    BY <1>0, <2>2, <2>7 DEF SupervisorTimeout, At, Goto, Supervises, supervisorVars
  <2>6. CASE SupervisorSleep(x)
    <3>1. heartbeatTime[x] = StartTime
      BY <1>0, <2>6 DEF SupervisorSleep, At, Timely
    <3> QED BY <1>0, <2>2, <2>6, <3>1 DEF SupervisorSleep, At, Goto, Supervises
  <2> QED BY <1>2, <2>1, <2>3, <2>4, <2>5, <2>6, <2>7 DEF SupervisorStep
<1> QED BY <1>1, <1>2

LEMMA OwnsByOwner ==
    ASSUME Context, NEW x \in Endpoint, Both(x), Both(x)', Alive(x), OwnerStep(x)
    PROVE  Owns(x) \/ Puts(x, "owner")
<1> USE DEF TypeOK, ControlTypeOK, DataTypeOK, SocketTypeOK, Thread
<1>0. TypeOK /\ shouldContinue'[x] /\ process'[x] = "up"
  BY DEF Context, Both, Healthy
<1>1. CASE PushStep(x, "owner")
  BY <1>1, PutsByPush DEF Pusher
<1>2. CASE OwnerSupervise(x)
  BY <1>0, <1>2 DEF OwnerSupervise, At, Goto, Owns, socketVars, queueVars, ageVars, supervisorVars
<1>3. CASE OwnerClose(x)
  BY <1>0, <1>3 DEF OwnerClose, Close, At, Goto, Owns, socketVars, queueVars, ageVars,
                    supervisorVars
<1>4. CASE OwnerStop(x)
  BY <1>0, <1>4 DEF OwnerStop
<1>5. CASE OwnerJoinReceive(x) \/ OwnerJoinSend(x) \/ OwnerBreaks(x) \/ OwnerExit(x)
  BY <1>5 DEF OwnerJoinReceive, OwnerJoinSend, OwnerJoin, OwnerExit, OwnerBreaks, Breaks,
              EndProcess, At, Alive, BeforeServing
<1> QED BY <1>1, <1>2, <1>3, <1>4, <1>5 DEF OwnerStep

\* The peer's send thread, its ages and its queue.
LEMMA PeerRests ==
    ASSUME TypeOK, NEW z \in Endpoint, ThreadStep(z) \/ NetworkStep(z),
           NEW x \in Endpoint, x # z
    PROVE  Rests(x)
<1> USE DEF TypeOK, DataTypeOK
<1>1. UNCHANGED <<pc[x], messageQueue[x]>>
  BY StepFrame
<1>2. UNCHANGED <<sinceReceived[x], sleepLeft[x]>>
  BY ElseFrame DEF Mine
<1>3. sinceSent'[x] = sinceSent[x]
  <2>1. CASE SendStamp(z)
    BY <2>1 DEF SendStamp
  <2>2. CASE ~SendStamp(z)
    <3>1. ASSUME NEW t, PushStep(z, t) PROVE UNCHANGED sinceSent
      BY <3>1 DEF PushStep, PushBuild, PushCheck, PushRecheck, PushTest, PushLock,
                  PushConstruct, PushBump, Breaks, EndProcess, ageVars
    <3>2. CASE ReceiveStep(z)
      BY <3>2 DEF ReceiveStep, ReceiveLoop, While, ReceiveSync, ReceiveHeader, ReceiveStamp,
                  ReceiveBody, ReceiveApply, ReceiveActivate, ageVars
    <3>3. CASE SendStep(z)
      BY <2>2, <3>3 DEF SendStep, SendLoop, While, SendPeek, SendLock, SendFront,
                        SendSend, SendPop, Breaks, EndProcess, ageVars
    <3>4. CASE SupervisorStep(z)
      BY <3>1, <3>4
      DEF SupervisorStep, SupervisorPeriod, SupervisorPatience, SupervisorLoop, While,
          SupervisorDiff, SupervisorTimeout, SupervisorSleep, SupervisorWake, Astray, ageVars
    <3>5. CASE OwnerStep(z)
      BY <3>1, <3>5
      DEF OwnerStep, OwnerSupervise, OwnerClose, OwnerStop, OwnerJoinReceive,
          OwnerJoinSend, OwnerJoin, OwnerExit, OwnerBreaks, Breaks, EndProcess, ageVars
    <3>6. CASE NetworkStep(z)
      BY <3>6 DEF NetworkStep, ageVars
    <3> QED BY <3>2, <3>3, <3>4, <3>5, <3>6 DEF ThreadStep
  <2> QED BY <2>1, <2>2
<1> QED BY <1>1, <1>2, <1>3 DEF Rests

\* A connection of which both ends still do their part, from the side that takes a step.
LEMMA AStepOfTwo ==
    ASSUME Context, NEW x \in Endpoint, Both(x), Both(x)', Alive(x),
           ThreadStep(x) \/ NetworkStep(x)
    PROVE  PairStep(x)
<1>0. TypeOK /\ Peer[x] \in Endpoint /\ Peer[x] # x /\ fd[x] = "open" /\ process[x] = "up"
  BY BothOpen DEF Context
<1>1. Rests(Peer[x])
  BY <1>0, PeerRests
<1>2. ~NetworkStep(x)
  BY <1>0 DEF NetworkStep, Release, PeerCloses
<1>3. CASE ReceiveStep(x)
  BY <1>1, <1>3, ReadsByReceive DEF PairStep
<1>4. CASE SendStep(x)
  BY <1>1, <1>4, WritesBySend DEF PairStep
<1>5. CASE SupervisorStep(x)
  BY <1>1, <1>5, SupervisesBySupervisor DEF PairStep, Pusher
<1>6. CASE OwnerStep(x)
  BY <1>1, <1>6, OwnsByOwner DEF PairStep, Pusher
<1> QED BY <1>2, <1>3, <1>4, <1>5, <1>6 DEF ThreadStep

-----------------------------------------------------------------------------
\* Each part of the invariant, over a step of x and for x, then for its peer y.

LagStep(e) == lag'[e] \in 0..MaxLag /\ (stream'[e] # <<>> => lag'[e] = lag[e])

LEMMA Numbers ==
    ASSUME Context
    PROVE  /\ StartTime \in Nat /\ Nap(StartTime) \in Nat /\ Nap(StartTime) >= 1
           /\ Gap \in Nat /\ Gap = StartTime + Nap(StartTime) - 1 /\ Gap >= StartTime
           /\ MaxLag \in Nat /\ MaxLag < StartTime
           /\ \A x \in Endpoint :
                 /\ sinceSent[x] \in Nat /\ sinceSent'[x] \in Nat
                 /\ sinceReceived[x] \in Nat /\ sinceReceived'[x] \in Nat
                 /\ sleepLeft[x] \in Nat /\ sleepLeft'[x] \in Nat
                 /\ lag[x] \in Nat /\ lag[x] <= MaxLag /\ Wait(x) \in Nat /\ Wait(x) <= MaxLag
<1>1. StartTime \in Nat /\ StartTime >= 2 /\ MaxLag \in Nat /\ MaxLag < StartTime
  BY TimeAssumption, UInt16IsNat, LagAssumption DEF Context, Swift
<1>2. Nap(StartTime) \in Nat /\ Nap(StartTime) >= 1
  BY <1>1 DEF Nap
<1>3. ASSUME NEW x \in Endpoint
      PROVE  /\ sinceSent[x] \in Nat /\ sinceSent'[x] \in Nat
             /\ sinceReceived[x] \in Nat /\ sinceReceived'[x] \in Nat
             /\ sleepLeft[x] \in Nat /\ sleepLeft'[x] \in Nat
  BY BoundAssumption, UInt16IsNat DEF Context, TypeOK, DataTypeOK
<1>4. ASSUME NEW x \in Endpoint
      PROVE  lag[x] \in Nat /\ lag[x] <= MaxLag /\ Wait(x) \in Nat /\ Wait(x) <= MaxLag
  BY <1>1 DEF Context, Wait
<1>5. Gap \in Nat /\ Gap = StartTime + Nap(StartTime) - 1 /\ Gap >= StartTime
  <2> HIDE DEF Nap
  <2> QED BY <1>1, <1>2 DEF Gap
<1> QED BY <1>1, <1>2, <1>3, <1>4, <1>5

LEMMA AliveOwn ==
    ASSUME NEW x \in Endpoint, PairStep(x), Alive(x),
           pc[x]["owner"] \in BeforeServing => Clear(x)
    PROVE  Alive(x)'
<1> USE DEF Alive, BeforeServing, Receiving, SupervisorAt, Pushing
<1>1. CASE Reads(x)
  BY <1>1 DEF Reads, Clear
<1>2. CASE Writes(x)
  BY <1>2 DEF Writes
<1>3. ASSUME NEW t \in Pusher, Puts(x, t) PROVE Alive(x)'
  BY <1>3 DEF Puts, Pusher, Return
<1>4. CASE Supervises(x)
  BY <1>4 DEF Supervises
<1>5. CASE Owns(x)
  BY <1>5 DEF Owns
<1> QED BY <1>1, <1>2, <1>3, <1>4, <1>5 DEF PairStep

\* Reading neither fills an empty stream nor makes anything older.
LEMMA ReadsClear ==
    ASSUME Context, NEW x \in Endpoint, Reads(x), LagStep(x)
    PROVE  /\ Clear(x) => Clear(x)' /\ pc'[x]["supervisor"] = pc[x]["supervisor"]
           /\ Wait(x)' >= Wait(x) /\ Wait(x)' \in Nat
           /\ pc'[x]["supervisor"] = "off" => pc[x]["supervisor"] = "off" /\ (Clear(x)' => Clear(x))
<1>1. Clear(x) => Clear(x)' /\ pc'[x]["supervisor"] = pc[x]["supervisor"]
  BY DEF Reads, Clear
<1>2. stream'[x] # <<>> => stream[x] # <<>>
  BY DEF Reads
<1>3. Wait(x)' >= Wait(x) /\ Wait(x)' \in Nat
  BY <1>2, Numbers DEF LagStep, Wait
<1>4. pc'[x]["supervisor"] = "off" => pc[x]["supervisor"] = "off" /\ (Clear(x)' => Clear(x))
  BY DEF Reads, Clear
<1> QED BY <1>1, <1>3, <1>4

\* Of the steps of x, only one of its receive thread and one of its send thread
\* concern the bytes on the way.
LEMMA ElseClear ==
    ASSUME Context, NEW x \in Endpoint, PairStep(x), ~Reads(x), LagStep(x)
    PROVE  (Clear(x)' <=> Clear(x)) /\ stream'[x] = stream[x] /\ Wait(x)' = Wait(x)
<1>1. stream'[x] = stream[x] /\ pc'[x]["receive"] = pc[x]["receive"]
  BY DEF PairStep, Writes, Puts, Supervises, Owns
<1> QED BY <1>1 DEF Clear, Wait, LagStep

LEMMA PeerClear ==
    ASSUME Context, NEW x \in Endpoint, Peer[x] \in Endpoint, PairStep(x), LagStep(Peer[x]),
           ~(pc[x]["send"] = "send" /\ pc'[x]["send"] = "pop")
    PROVE  /\ Clear(Peer[x])' <=> Clear(Peer[x])
           /\ stream'[Peer[x]] = stream[Peer[x]] /\ Wait(Peer[x])' = Wait(Peer[x])
<1>1. stream'[Peer[x]] = stream[Peer[x]] /\ pc'[Peer[x]] = pc[Peer[x]]
  BY DEF PairStep, Rests, Reads, Writes, Puts, Supervises, Owns
<1> QED BY <1>1 DEF Clear, Wait, LagStep

\* What a step of x makes of what x is about to send.
LEMMA DueReads ==
    ASSUME NEW x \in Endpoint, Reads(x), Alive(x)
    PROVE  (Due(x)' <=> Due(x)) /\ (Sent(x)' <=> Sent(x)) /\ (Pushes(x)' <=> Pushes(x))
<1>1. UNCHANGED <<pc[x]["send"], pc[x]["owner"], messageQueue[x]>>
  BY DEF Reads
<1>2. pc'[x]["supervisor"] \in Pushing <=> pc[x]["supervisor"] \in Pushing
  BY DEF Reads, Pushing, Alive
<1> QED BY <1>1, <1>2 DEF Pushes, Sent, Due, Pusher

LEMMA DueWrites ==
    ASSUME NEW x \in Endpoint, Alive(x), Single(x), Writes(x)
    PROVE  /\ Pushes(x)' <=> Pushes(x)
           /\ Due(x)' => Due(x)
           /\ pc[x]["send"] # "stamp" => (Due(x) => Due(x)')
           /\ pc[x]["send"] = "stamp" => ~Due(x)' /\ ~Sent(x)'
<1>1. Pushes(x)' <=> Pushes(x)
  BY DEF Writes, Pushes, Pusher
<1>2. CASE Pushes(x)
  BY <1>1, <1>2 DEF Writes, Single, Due, Sent
<1>3. CASE ~Pushes(x)
  BY <1>1, <1>3 DEF Writes, Single, Due, Sent, Alive
<1> QED BY <1>1, <1>2, <1>3

LEMMA DuePuts ==
    ASSUME NEW x \in Endpoint, NEW t \in Pusher, TypeOK, Alive(x), Single(x), Puts(x, t)
    PROVE  /\ Due(x) /\ Due(x)' /\ ~Sent(x) /\ ~Sent(x)' /\ Pushes(x)
           /\ pc'[x]["send"] \in {"loop", "peek"} /\ messageQueue[x] = <<>>
           /\ IF pc[x][t] = "bump"
              THEN ~Pushes(x)' /\ Len(messageQueue'[x]) = 1 /\ messageQueue'[x] # <<>>
              ELSE Pushes(x)' /\ messageQueue'[x] = <<>>
<1>1. Pushes(x) /\ messageQueue[x] = <<>> /\ pc[x]["send"] \in {"loop", "peek"}
  BY DEF Puts, Pushes, Single
<1>2. pc'[x]["send"] = pc[x]["send"]
  BY DEF Puts
<1>3. \A u \in Pusher \ {t} : pc[x][u] \notin Pushing /\ pc'[x][u] \notin Pushing
  BY DEF Puts, Alive, BeforeServing, Pushing, Pusher
<1>4. CASE pc[x][t] = "bump"
  <2>1. messageQueue'[x] = Append(<<>>, built[x][t])
    BY <1>1, <1>3, <1>4 DEF Puts, Pushing
  <2>2. Len(messageQueue'[x]) = 1 /\ messageQueue'[x] # <<>>
    BY <2>1
  <2>3. pc'[x][t] \notin Pushing
    BY <1>4 DEF Puts, Return, Pushing
  <2> QED BY <1>1, <1>2, <1>3, <1>4, <2>2, <2>3 DEF Due, Sent, Pushes
<1>5. CASE pc[x][t] # "bump"
  <2>1. messageQueue'[x] = <<>> /\ pc'[x][t] \in Pushing
    BY <1>1, <1>5 DEF Puts
  <2> QED BY <1>1, <1>2, <1>5, <2>1 DEF Due, Sent, Pushes
<1> QED BY <1>4, <1>5

LEMMA DueSupervises ==
    ASSUME NEW x \in Endpoint, Supervises(x), Alive(x)
    PROVE  /\ Sent(x)' <=> Sent(x)
           /\ ~Pushes(x)
           /\ IF pc[x]["supervisor"] = "diff" /\ sinceSent[x] >= StartTime
              THEN Due(x)' /\ Pushes(x)'
              ELSE (Due(x)' <=> Due(x)) /\ ~Pushes(x)'
<1>1. UNCHANGED <<pc[x]["send"], pc[x]["owner"], messageQueue[x]>>
  BY DEF Supervises
<1>2. pc[x]["supervisor"] \notin Pushing /\ pc[x]["owner"] \notin Pushing
  BY DEF Supervises, Pushing, Alive, BeforeServing
<1>3. pc'[x]["supervisor"] \in Pushing <=> pc[x]["supervisor"] = "diff" /\ sinceSent[x] >= StartTime
  BY DEF Supervises, Pushing
<1> QED BY <1>1, <1>2, <1>3 DEF Due, Sent, Pushes, Pusher

LEMMA DueOwns ==
    ASSUME NEW x \in Endpoint, Owns(x), Alive(x)
    PROVE  /\ Sent(x)' <=> Sent(x)
           /\ IF pc[x]["owner"] = "supervise" THEN Pushes(x)'
              ELSE (Due(x)' <=> Due(x)) /\ (Pushes(x)' <=> Pushes(x))
<1>1. UNCHANGED <<pc[x]["send"], pc[x]["supervisor"], messageQueue[x]>>
  BY DEF Owns
<1>2. CASE pc[x]["owner"] = "supervise"
  <2>1. pc'[x]["owner"] \in Pushing
    BY <1>2 DEF Owns, Pushing
  <2> QED BY <1>1, <1>2, <2>1 DEF Sent, Pushes, Pusher
<1>3. CASE pc[x]["owner"] # "supervise"
  <2>1. pc[x]["owner"] \notin Pushing /\ pc'[x]["owner"] \notin Pushing
    BY <1>3 DEF Owns, Pushing
  <2> QED BY <1>1, <1>3, <2>1 DEF Sent, Due, Pushes, Pusher
<1> QED BY <1>2, <1>3

LEMMA PopOfOne ==
    ASSUME NEW q \in Seq(UInt16), q # <<>>, Len(q) <= 1
    PROVE  PopFront(q) = <<>> /\ Len(PopFront(q)) = 0
<1> HIDE DEF UInt16
<1>0. Len(q) \in Nat \ {0}
  BY EmptySeq, Zenon
<1>1. PopFront(q) = SubSeq(q, 2, 1)
  <2>1. Len(q) = 1
    BY <1>0
  <2> QED BY <2>1 DEF PopFront
<1>2. SubSeq(q, 2, 1) = <<>>
  OBVIOUS
<1> QED BY <1>1, <1>2

\* One heartbeat at a time.
LEMMA SingleOwn ==
    ASSUME Context, NEW x \in Endpoint, Peer[x] \in Endpoint, Peer[Peer[x]] = x, PairStep(x),
           LagStep(x), LagStep(Peer[x]),
           Alive(x), Single(x), Young(x), Punctual(x),
           pc[x]["owner"] \in BeforeServing => Clear(Peer[x])
    PROVE  Single(x)'
<1> DEFINE y == Peer[x]
<1>0. TypeOK /\ messageQueue[x] \in Seq(UInt16)
  BY DEF Context, TypeOK, DataTypeOK
<1>1. CASE Reads(x)
  <2>1. UNCHANGED <<pc[x]["send"], pc[x]["owner"], messageQueue[x]>>
    BY <1>1 DEF Reads
  <2>2. Clear(y)' <=> Clear(y)
    BY <2>1, PeerClear
  <2>3. (Due(x)' <=> Due(x)) /\ (Sent(x)' <=> Sent(x)) /\ (Pushes(x)' <=> Pushes(x))
    BY <1>1, DueReads
  <2> QED BY <2>1, <2>2, <2>3 DEF Single
<1>2. CASE Writes(x)
  <2>1. pc'[x]["owner"] = pc[x]["owner"]
    BY <1>2 DEF Writes
  <2>2. /\ Pushes(x)' <=> Pushes(x)
        /\ Due(x)' => Due(x)
        /\ pc[x]["send"] = "stamp" => ~Due(x)' /\ ~Sent(x)'
    BY <1>2, DueWrites
  <2>3. CASE pc[x]["send"] \in {"loop", "peek", "lock", "front"}
    <3>1. /\ messageQueue'[x] = messageQueue[x]
          /\ pc'[x]["send"] \in {"loop", "peek", "lock", "front", "send"}
          /\ pc'[x]["send"] \in {"lock", "front", "send"} =>
                 messageQueue[x] # <<>> \/ pc[x]["send"] = "lock"
      BY <1>2, <2>3 DEF Writes
    <3>2. Clear(y)' <=> Clear(y)
      BY <2>3, PeerClear
    <3>3. Due(x)' => Clear(y)'
      BY <2>2, <2>3, <3>2 DEF Single, Sent
    <3> QED BY <2>1, <2>2, <2>3, <3>1, <3>3 DEF Single
  <2>4. CASE pc[x]["send"] = "send"
    <3>1. pc'[x]["send"] = "pop" /\ messageQueue'[x] = messageQueue[x]
      BY <1>2, <2>4 DEF Writes
    <3> QED BY <2>1, <2>2, <2>4, <3>1 DEF Single, Sent
  <2>5. CASE pc[x]["send"] = "pop"
    <3>1. pc'[x]["send"] = "stamp" /\ messageQueue'[x] = PopFront(messageQueue[x])
      BY <1>2, <2>5 DEF Writes
    <3>2. Len(messageQueue[x]) <= 1 /\ messageQueue[x] # <<>>
      BY <2>5 DEF Single
    <3>3. messageQueue'[x] = <<>> /\ Len(messageQueue'[x]) = 0
      BY <1>0, <3>1, <3>2, PopOfOne
    <3> QED BY <2>1, <2>2, <2>5, <3>1, <3>3 DEF Single, Sent
  <2>6. CASE pc[x]["send"] = "stamp"
    <3>1. pc'[x]["send"] = "loop" /\ messageQueue'[x] = messageQueue[x]
      BY <1>2, <2>6 DEF Writes
    <3> QED BY <2>1, <2>2, <2>6, <3>1 DEF Single
  <2> QED BY <2>3, <2>4, <2>5, <2>6 DEF Alive
<1>3. ASSUME NEW t \in Pusher, Puts(x, t) PROVE Single(x)'
  <2>1. /\ Due(x) /\ Due(x)' /\ ~Sent(x) /\ ~Sent(x)' /\ Pushes(x)
        /\ pc'[x]["send"] \in {"loop", "peek"} /\ messageQueue[x] = <<>>
        /\ IF pc[x][t] = "bump"
           THEN ~Pushes(x)' /\ Len(messageQueue'[x]) = 1 /\ messageQueue'[x] # <<>>
           ELSE Pushes(x)' /\ messageQueue'[x] = <<>>
    BY <1>0, <1>3, DuePuts
  <2>2. Clear(y)'
    <3>1. pc'[x]["send"] = pc[x]["send"]
      BY <1>3 DEF Puts
    <3> QED BY <2>1, <3>1, PeerClear DEF Single
  <2>3. pc'[x]["owner"] # "supervise"
    <3>1. pc[x]["owner"] # "supervise"
      BY <2>1 DEF Single
    <3>2. CASE t = "owner"
      BY <1>3, <3>2 DEF Puts, Pushing, Return
    <3>3. CASE t = "supervisor"
      BY <1>3, <3>1, <3>3 DEF Puts, Pusher
    <3> QED BY <3>2, <3>3 DEF Pusher
  <2>4. Len(messageQueue'[x]) <= 1
    <3>1. Len(messageQueue'[x]) = 1 \/ messageQueue'[x] = <<>>
      BY <2>1
    <3>2. CASE messageQueue'[x] = <<>>
      <4>1. Len(<<>>) = 0
        BY EmptySeq, Zenon
      <4>2. Len(messageQueue'[x]) = 0
        BY <3>2, <4>1, Zenon
      <4> QED BY <4>2
    <3>3. CASE Len(messageQueue'[x]) = 1
      BY <3>3
    <3> QED BY <3>1, <3>2, <3>3, Zenon
  <2>5. pc'[x]["send"] \notin {"lock", "front", "send", "pop", "stamp"}
    BY <2>1
  <2> QED BY <2>1, <2>2, <2>3, <2>4, <2>5 DEF Single
<1>4. CASE Supervises(x)
  <2>1. UNCHANGED <<pc[x]["send"], pc[x]["owner"], messageQueue[x]>>
    BY <1>4 DEF Supervises
  <2>2. Clear(y)' <=> Clear(y)
    BY <2>1, PeerClear
  <2>3. /\ Sent(x)' <=> Sent(x)
        /\ ~Pushes(x)
        /\ IF pc[x]["supervisor"] = "diff" /\ sinceSent[x] >= StartTime
           THEN Due(x)' /\ Pushes(x)'
           ELSE (Due(x)' <=> Due(x)) /\ ~Pushes(x)'
    BY <1>4, DueSupervises
  <2>4. CASE pc[x]["supervisor"] = "diff" /\ sinceSent[x] >= StartTime
    <3>1. ~Due(x)
      BY <2>4 DEF Punctual
    <3>2. Clear(y)
      <4>1. ~Sent(x) /\ ~(sinceSent[x] <= Wait(y))
        BY <2>4, <3>1, Numbers DEF Due, Sent
      <4> QED BY <4>1 DEF Young
    <3>3. pc[x]["owner"] # "supervise"
      BY <2>4 DEF Alive, BeforeServing
    <3> QED BY <2>1, <2>2, <2>3, <3>1, <3>2, <3>3 DEF Single, Due
  <2>5. CASE ~(pc[x]["supervisor"] = "diff" /\ sinceSent[x] >= StartTime)
    BY <2>1, <2>2, <2>3, <2>5 DEF Single
  <2> QED BY <2>4, <2>5
<1>5. CASE Owns(x)
  <2>1. UNCHANGED <<pc[x]["send"], messageQueue[x]>>
    BY <1>5 DEF Owns
  <2>2. Clear(y)' <=> Clear(y)
    BY <2>1, PeerClear
  <2>3. /\ Sent(x)' <=> Sent(x)
        /\ IF pc[x]["owner"] = "supervise" THEN Pushes(x)'
           ELSE (Due(x)' <=> Due(x)) /\ (Pushes(x)' <=> Pushes(x))
    BY <1>5, DueOwns
  <2>4. pc'[x]["owner"] # "supervise"
    BY <1>5 DEF Owns
  <2>5. CASE pc[x]["owner"] = "supervise"
    BY <2>1, <2>2, <2>3, <2>4, <2>5 DEF Single, Due, BeforeServing
  <2>6. CASE pc[x]["owner"] # "supervise"
    BY <2>1, <2>2, <2>3, <2>4, <2>6 DEF Single
  <2> QED BY <2>5, <2>6
<1> QED BY <1>1, <1>2, <1>3, <1>4, <1>5 DEF PairStep

LEMMA SinglePeer ==
    ASSUME Context, NEW x \in Endpoint, NEW y \in Endpoint, Peer[x] = y, Peer[y] = x,
           PairStep(x), LagStep(x), Single(y)
    PROVE  Single(y)'
<1>1. Clear(x) => Clear(x)'
  BY ReadsClear, ElseClear
<1>2. UNCHANGED <<pc[y], messageQueue[y]>>
  BY DEF PairStep, Rests
<1>3. (Due(y)' <=> Due(y)) /\ (Sent(y)' <=> Sent(y)) /\ (Pushes(y)' <=> Pushes(y))
  BY <1>2 DEF Due, Sent, Pushes
<1> QED BY <1>1, <1>2, <1>3 DEF Single

LEMMA YoungOwn ==
    ASSUME Context, NEW x \in Endpoint, NEW y \in Endpoint, Peer[x] = y, PairStep(x), LagStep(y),
           Young(x)
    PROVE  Young(x)'
<1>0. Wait(y)' \in Nat
  BY LagAssumption DEF LagStep, Wait
<1>1. CASE pc[x]["send"] = "send" /\ pc'[x]["send"] = "pop"
  BY <1>1 DEF Young, Sent
<1>2. CASE sinceSent'[x] = 0
  BY <1>0, <1>2 DEF Young
<1>3. CASE sinceSent'[x] # 0 /\ ~(pc[x]["send"] = "send" /\ pc'[x]["send"] = "pop")
  <2>1. /\ Clear(y)' <=> Clear(y)
        /\ Wait(y)' = Wait(y)
    BY <1>3, PeerClear
  <2>2. sinceSent'[x] = sinceSent[x] /\ (Sent(x) => Sent(x)')
    BY <1>3 DEF PairStep, Reads, Writes, Puts, Supervises, Owns, Sent
  <2> QED BY <2>1, <2>2 DEF Young
<1> QED BY <1>1, <1>2, <1>3

LEMMA YoungPeer ==
    ASSUME Context, NEW x \in Endpoint, NEW y \in Endpoint, Peer[x] = y, Peer[y] = x,
           PairStep(x), LagStep(x), Young(y)
    PROVE  Young(y)'
<1>1. ~Clear(x)' => ~Clear(x)
  BY ReadsClear, ElseClear
<1>2. Wait(x)' >= Wait(x) /\ Wait(x) \in Nat /\ Wait(x)' \in Nat
  <2>1. Wait(x) \in Nat
    BY Numbers
  <2>2. CASE Reads(x)
    BY <2>1, <2>2, ReadsClear
  <2>3. CASE ~Reads(x)
    BY <2>1, <2>3, ElseClear
  <2> QED BY <2>1, <2>2, <2>3
<1>3. sinceSent'[y] = sinceSent[y] /\ (Sent(y) => Sent(y)') /\ sinceSent[y] \in Nat
  BY Numbers DEF PairStep, Rests, Sent
<1> QED BY <1>1, <1>2, <1>3 DEF Young

\* A supervisor that starts has nothing to send yet.
Ready(x) == pc[x]["receive"] = "activate" => ~Due(x) /\ sinceSent[x] <= Limit(x)

LEMMA PunctualOwn ==
    ASSUME Context, NEW x \in Endpoint, PairStep(x), Alive(x), Single(x), Punctual(x), Ready(x)
    PROVE  Punctual(x)'
<1>0. /\ StartTime \in Nat /\ StartTime >= 2 /\ Nap(StartTime) \in Nat /\ Nap(StartTime) >= 1
      /\ Gap \in Nat /\ Gap = StartTime + Nap(StartTime) - 1
      /\ sinceSent[x] \in Nat /\ sinceSent'[x] \in Nat /\ sleepLeft[x] \in Nat
      /\ Limit(x) \in Nat /\ Limit(x)' = Limit(x)
  BY Numbers DEF Context, Swift, Limit
<1> HIDE DEF Gap, Nap, Limit
<1>1. CASE Reads(x)
  <2>1. UNCHANGED <<sinceSent[x], sleepLeft[x]>> /\ (Due(x)' <=> Due(x))
    BY <1>1, DueReads DEF Reads
  <2>2. CASE pc[x]["receive"] = "activate"
    <3>1. pc'[x]["supervisor"] = "period"
      BY <1>1, <2>2 DEF Reads
    <3> QED BY <1>0, <2>1, <2>2, <3>1 DEF Punctual, Ready
  <2>3. CASE pc[x]["receive"] # "activate"
    <3>1. pc'[x]["supervisor"] = pc[x]["supervisor"]
      BY <1>1, <2>3 DEF Reads
    <3> QED BY <1>0, <2>1, <3>1 DEF Punctual
  <2> QED BY <2>2, <2>3
<1>2. CASE Writes(x)
  <2>1. /\ UNCHANGED <<pc[x]["supervisor"], sleepLeft[x]>>
        /\ Due(x)' => Due(x)
        /\ pc[x]["send"] # "stamp" => sinceSent'[x] = sinceSent[x] /\ (Due(x) => Due(x)')
        /\ pc[x]["send"] = "stamp" => sinceSent'[x] = 0 /\ Due(x) /\ ~Due(x)'
    BY <1>2, DueWrites DEF Writes, Due
  <2>2. CASE pc[x]["send"] # "stamp"
    BY <1>0, <2>1, <2>2 DEF Punctual
  <2>3. CASE pc[x]["send"] = "stamp"
    <3>1. pc[x]["supervisor"] = "sleeping" => sinceSent'[x] + sleepLeft'[x] <= Gap
      BY <1>0, <2>1, <2>3 DEF Punctual
    <3> QED BY <1>0, <2>1, <2>3, <3>1 DEF Punctual
  <2> QED BY <2>2, <2>3
<1>3. CASE Puts(x, "owner")
  <2>1. pc'[x]["supervisor"] = "off"
    BY <1>3 DEF Puts, Pusher, Pushing, Alive, BeforeServing
  <2> QED BY <2>1 DEF Punctual
<1>4. CASE Puts(x, "supervisor")
  <2>1. Due(x)' /\ sinceSent'[x] = sinceSent[x]
    BY <1>4, DuePuts DEF Context, Puts, Pusher
  <2>2. pc[x]["supervisor"] # "off" /\ pc'[x]["supervisor"] \in Pushing \cup {"timeout"}
    BY <1>4 DEF Puts, Return, Pushing
  <2> QED BY <1>0, <2>1, <2>2 DEF Punctual, Pushing
<1>5. CASE Supervises(x)
  <2>1. /\ sinceSent'[x] = sinceSent[x]
        /\ pc[x]["supervisor"] # "off"
        /\ (pc[x]["supervisor"] = "diff" /\ sinceSent[x] >= StartTime) \/ (Due(x)' <=> Due(x))
    BY <1>5, DueSupervises DEF Supervises
  <2>2. sinceSent'[x] <= Limit(x)'
    BY <1>0, <2>1 DEF Punctual
  <2>3. CASE pc[x]["supervisor"] \in {"period", "patience", "loop"}
    BY <1>5, <2>1, <2>2, <2>3 DEF Supervises, Punctual
  <2>4. CASE pc[x]["supervisor"] = "diff"
    BY <1>0, <1>5, <2>1, <2>2, <2>4 DEF Supervises, Punctual
  <2>5. CASE pc[x]["supervisor"] = "timeout"
    BY <1>0, <1>5, <2>1, <2>2, <2>5 DEF Supervises, Punctual
  <2>6. CASE pc[x]["supervisor"] = "sleep"
    <3>1. pc'[x]["supervisor"] = "sleeping" /\ sleepLeft'[x] = Nap(StartTime)
      BY <1>5, <2>6 DEF Supervises
    <3>2. Due(x)' \/ sinceSent'[x] + sleepLeft'[x] <= Gap
      BY <1>0, <2>1, <2>6, <3>1 DEF Punctual
    <3> QED BY <2>2, <3>1, <3>2 DEF Punctual
  <2>7. CASE pc[x]["supervisor"] = "sleeping"
    <3>1. pc'[x]["supervisor"] = "loop" /\ sleepLeft[x] = 0
      BY <1>5, <2>7 DEF Supervises
    <3>2. ~Due(x)
      BY <1>0, <2>7, <3>1 DEF Punctual
    <3> QED BY <2>1, <2>2, <2>7, <3>1, <3>2 DEF Punctual
  <2> QED BY <1>5, <2>3, <2>4, <2>5, <2>6, <2>7 DEF Supervises
<1>6. CASE Owns(x)
  <2>1. UNCHANGED <<pc[x]["supervisor"], sinceSent[x], sleepLeft[x]>>
    BY <1>6 DEF Owns
  <2>2. CASE pc[x]["owner"] = "supervise"
    BY <2>1, <2>2 DEF Alive, BeforeServing, Punctual
  <2>3. CASE pc[x]["owner"] # "supervise"
    <3>1. Due(x)' <=> Due(x)
      BY <1>6, <2>3, DueOwns
    <3> QED BY <1>0, <2>1, <3>1 DEF Punctual
  <2> QED BY <2>2, <2>3
<1> QED BY <1>1, <1>2, <1>3, <1>4, <1>5, <1>6 DEF PairStep, Pusher

LEMMA FreshOwn ==
    ASSUME Context, NEW x \in Endpoint, NEW y \in Endpoint, Peer[x] = y, PairStep(x),
           LagStep(x), Alive(x), Young(y), Peer[y] = x, Fresh(x)
    PROVE  Fresh(x)'
<1>0. /\ Gap \in Nat /\ MaxLag \in Nat /\ lag[x] \in Nat /\ lag'[x] \in Nat
      /\ sinceSent[y] \in Nat /\ sinceSent'[y] \in Nat
      /\ sinceReceived[x] \in Nat /\ sinceReceived'[x] \in Nat
      /\ Wait(x) \in Nat /\ Wait(x) <= MaxLag
  BY Numbers DEF LagStep
<1>1. (Sent(y)' <=> Sent(y)) /\ sinceSent'[y] = sinceSent[y]
  BY DEF PairStep, Rests, Sent
<1> HIDE DEF Gap, Wait
<1>2. CASE Reads(x)
  <2>1. CASE pc[x]["receive"] = "loop"
    <3>1. /\ pc'[x]["receive"] = "sync" /\ pc'[x]["supervisor"] = pc[x]["supervisor"]
          /\ UNCHANGED <<stream[x], sinceReceived[x]>>
      BY <1>2, <2>1 DEF Reads
    <3> QED BY <1>0, <1>1, <2>1, <3>1 DEF Fresh, Hears, Unread, LagStep
  <2>2. CASE pc[x]["receive"] \in {"sync", "header"}
    <3>1. /\ pc'[x]["receive"] \in {"header", "stamp"}
          /\ pc'[x]["supervisor"] = pc[x]["supervisor"]
          /\ stream[x] # <<>> /\ stream'[x] # <<>> /\ sinceReceived'[x] = sinceReceived[x]
      BY <1>2, <2>2 DEF Reads
    <3> QED BY <1>0, <1>1, <2>2, <3>1 DEF Fresh, Hears, Unread, LagStep
  <2>3. CASE pc[x]["receive"] = "stamp"
    <3>1. sinceReceived'[x] = 0
      BY <1>2, <2>3 DEF Reads
    <3> QED BY <1>0, <1>1, <3>1 DEF Fresh
  <2>4. CASE pc[x]["receive"] = "body"
    <3>1. pc'[x]["receive"] = "apply" /\ sinceReceived'[x] = sinceReceived[x]
      BY <1>2, <2>4 DEF Reads
    <3> QED BY <1>0, <1>1, <2>4, <3>1 DEF Fresh, Hears, Unread
  <2>5. CASE pc[x]["receive"] \in {"apply", "activate"}
    <3>1. /\ pc'[x]["receive"] \in {"activate", "loop"}
          /\ UNCHANGED <<stream[x], sinceReceived[x]>>
      BY <1>2, <2>5 DEF Reads
    <3>2. sinceReceived[x] <= IF Sent(y) THEN 0 ELSE sinceSent[y]
      BY <2>5 DEF Fresh, Hears, Unread
    <3>3. Sent(y) \/ sinceSent[y] <= MaxLag
      <4>1. ~Clear(x)
        BY <2>5 DEF Clear
      <4> QED BY <1>0, <4>1 DEF Young
    <3>4. stream[x] # <<>> => lag'[x] = lag[x]
      BY <3>1 DEF LagStep
    <3>5. CASE Sent(y)
      BY <1>0, <1>1, <3>1, <3>2, <3>5 DEF Fresh
    <3>6. CASE ~Sent(y)
      BY <1>0, <1>1, <3>1, <3>2, <3>3, <3>6 DEF Fresh
    <3> QED BY <3>5, <3>6
  <2> QED BY <1>2, <2>1, <2>2, <2>3, <2>4, <2>5 DEF Reads
<1>3. CASE ~Reads(x)
  <2>1. stream'[x] = stream[x] /\ pc'[x]["receive"] = pc[x]["receive"]
        /\ sinceReceived'[x] = sinceReceived[x]
    BY <1>3 DEF PairStep, Writes, Puts, Supervises, Owns
  <2>2. pc'[x]["supervisor"] # "off" => pc[x]["supervisor"] # "off"
    BY <1>3 DEF PairStep, Writes, Puts, Supervises, Owns, Pusher, Pushing
  <2>3. stream[x] # <<>> => lag'[x] = lag[x]
    BY <2>1 DEF LagStep
  <2>4. (Unread(x)' <=> Unread(x)) /\ (Hears(x)' => Hears(x))
    BY <2>1, <2>2 DEF Unread, Hears
  <2> QED BY <1>0, <1>1, <2>1, <2>3, <2>4 DEF Fresh, Unread
<1> QED BY <1>2, <1>3

\* Who is supervised is not silent for longer than this.
Bounded(x) == pc[Peer[x]]["supervisor"] # "off" => sinceSent[x] <= Gap + MaxLag

LEMMA FreshPeer ==
    ASSUME Context, NEW x \in Endpoint, NEW y \in Endpoint, Peer[x] = y, PairStep(x),
           LagStep(y), Single(x), Bounded(x), Peer[y] = x, Fresh(y)
    PROVE  Fresh(y)'
<1>0. /\ Gap \in Nat /\ MaxLag \in Nat /\ lag[y] \in Nat /\ lag'[y] \in Nat
      /\ sinceSent[x] \in Nat /\ sinceSent'[x] \in Nat
      /\ sinceReceived[y] \in Nat /\ sinceReceived'[y] \in Nat
  BY Numbers DEF LagStep
<1>1. UNCHANGED <<pc[y], sinceReceived[y]>>
  BY DEF PairStep, Rests
<1>2. Hears(y)' <=> Hears(y)
  BY <1>1 DEF Hears
<1> HIDE DEF Gap
<1>3. CASE pc[x]["send"] = "send" /\ pc'[x]["send"] = "pop"
  <2>1. stream'[y] # <<>> /\ sinceSent'[x] = sinceSent[x]
    BY <1>3 DEF PairStep, Reads, Writes, Puts, Supervises, Owns
  <2>2. Clear(y) /\ ~Sent(x)
    BY <1>3 DEF Single, Due, Sent
  <2>3. Unread(y)' /\ ~Unread(y)
    BY <1>1, <2>1, <2>2 DEF Unread, Clear
  <2>4. Hears(y) => pc[y]["supervisor"] # "off"
    BY <2>2 DEF Hears, Clear
  <2>5. Hears(y) => sinceReceived[y] <= sinceSent[x]
    BY <2>2, <2>3 DEF Fresh
  <2>6. Hears(y) => sinceReceived[y] <= Gap + MaxLag
    BY <1>0, <2>4, <2>5 DEF Bounded
  <2> QED BY <1>0, <1>1, <1>2, <2>3, <2>6 DEF Fresh
<1>4. CASE ~(pc[x]["send"] = "send" /\ pc'[x]["send"] = "pop")
  <2>1. stream'[y] = stream[y]
    BY <1>4, PeerClear
  <2>2. stream[y] # <<>> => lag'[y] = lag[y]
    BY <2>1 DEF LagStep
  <2>3. Unread(y)' <=> Unread(y)
    BY <1>1, <2>1 DEF Unread
  <2>4. CASE Sent(x) /\ ~Sent(x)'
    BY <1>0, <1>1, <1>2, <2>2, <2>3, <2>4 DEF Fresh, Unread
  <2>5. CASE ~(Sent(x) /\ ~Sent(x)')
    <3>1. (Sent(x)' <=> Sent(x)) /\ (~Sent(x) => sinceSent'[x] = sinceSent[x])
      BY <1>4, <2>5 DEF PairStep, Reads, Writes, Puts, Supervises, Owns, Sent
    <3> QED BY <1>0, <1>1, <1>2, <2>2, <2>3, <3>1 DEF Fresh, Unread
  <2> QED BY <2>4, <2>5
<1> QED BY <1>3, <1>4

-----------------------------------------------------------------------------
\* What the beginning of a connection says of the steps above.

LEMMA FirstOnes ==
    ASSUME Context, NEW c \in Client, NEW s \in Endpoint, Peer[c] = s, Peer[s] = c,
           Timed(c), Timed(s), Begins(c, s)
    PROVE  /\ Bounded(c) /\ Bounded(s) /\ Ready(c) /\ Ready(s)
           /\ pc[c]["owner"] \in BeforeServing => Clear(c) /\ Clear(s)
           /\ pc[s]["owner"] \notin BeforeServing
<1>0. /\ Gap \in Nat /\ Gap >= StartTime /\ MaxLag \in Nat /\ MaxLag < StartTime
      /\ StartTime \in Nat /\ c \in Endpoint /\ s \notin Client
      /\ sinceSent[c] \in Nat /\ sinceSent[s] \in Nat
      /\ Wait(c) \in Nat /\ Wait(c) <= MaxLag /\ Wait(s) \in Nat /\ Wait(s) <= MaxLag
  BY Numbers, OwnerAssumption DEF Context, Matched
<1>1. pc[s]["supervisor"] # "off" => sinceSent[s] <= Gap
  BY <1>0 DEF Timed, Punctual, Limit
<1> HIDE DEF Gap, Wait
<1>2. Bounded(c)
  <2>1. CASE pc[c]["supervisor"] # "off"
    BY <1>0, <2>1 DEF Timed, Punctual, Limit, Bounded
  <2>2. CASE pc[c]["supervisor"] = "off"
    <3>1. IF Clear(c) THEN sinceSent[c] <= sinceSent[s] ELSE sinceSent[c] <= Gap + Wait(c)
      BY <2>2 DEF Begins
    <3> QED BY <1>0, <1>1, <3>1 DEF Bounded
  <2> QED BY <2>1, <2>2
<1>3. Bounded(s)
  <2>1. pc[c]["supervisor"] # "off" => pc[s]["supervisor"] # "off"
    BY DEF Begins
  <2> QED BY <1>0, <1>1, <2>1 DEF Bounded
<1>4. Ready(s)
  <2> SUFFICES ASSUME pc[s]["receive"] = "activate" PROVE ~Due(s) /\ sinceSent[s] <= Limit(s)
    BY DEF Ready
  <2>1. pc[s]["supervisor"] = "off"
    BY DEF Timed, Alive
  <2> QED BY <1>0, <2>1 DEF Begins, Limit
<1>5. Ready(c)
  <2> SUFFICES ASSUME pc[c]["receive"] = "activate" PROVE ~Due(c) /\ sinceSent[c] <= Limit(c)
    BY DEF Ready
  <2>1. pc[c]["supervisor"] = "off" /\ ~Clear(c)
    BY DEF Timed, Alive, Clear
  <2> QED BY <1>0, <2>1 DEF Begins, Limit
<1>6. pc[c]["owner"] \in BeforeServing => Clear(c) /\ Clear(s)
  BY DEF Timed, Alive, Begins
<1>7. pc[s]["owner"] \notin BeforeServing
  BY <1>0 DEF Timed, Alive
<1> QED BY <1>2, <1>3, <1>4, <1>5, <1>6, <1>7

LEMMA BeginsByClient ==
    ASSUME Context, NEW c \in Client, NEW s \in Endpoint, Peer[c] = s, Peer[s] = c,
           Timed(c), Begins(c, s), PairStep(c), LagStep(c), LagStep(s)
    PROVE  Begins(c, s)'
<1>0. /\ Gap \in Nat /\ c \in Endpoint
      /\ sinceSent[c] \in Nat /\ sinceSent'[c] \in Nat /\ sinceSent[s] \in Nat
      /\ Wait(c) \in Nat /\ Wait(s) \in Nat /\ Wait(s)' \in Nat
      /\ Alive(c) /\ Single(c)
  BY Numbers, OwnerAssumption, LagAssumption DEF LagStep, Wait, Timed
<1>1. /\ pc'[s] = pc[s] /\ sinceSent'[s] = sinceSent[s]
      /\ (Due(s)' <=> Due(s)) /\ (Sent(s)' <=> Sent(s))
  BY DEF PairStep, Rests, Due, Sent, Pushes
<1>2. ~(pc[c]["send"] = "send" /\ pc'[c]["send"] = "pop") =>
          /\ Clear(s)' <=> Clear(s)
          /\ Wait(s)' = Wait(s)
  BY <1>0, PeerClear
<1> HIDE DEF Gap, Wait, Clear
<1>3. CASE Reads(c)
  <2>1. /\ pc'[c]["owner"] = pc[c]["owner"] /\ pc'[c]["send"] = pc[c]["send"]
        /\ sinceSent'[c] = sinceSent[c]
    BY <1>3 DEF Reads
  <2>2. (Due(c)' <=> Due(c)) /\ (Sent(c)' <=> Sent(c))
    BY <1>0, <1>3, DueReads
  <2>3. /\ Clear(c) => Clear(c)' /\ pc'[c]["supervisor"] = pc[c]["supervisor"]
        /\ Wait(c)' >= Wait(c) /\ Wait(c)' \in Nat
        /\ pc'[c]["supervisor"] = "off" => pc[c]["supervisor"] = "off" /\ (Clear(c)' => Clear(c))
    BY <1>0, <1>3, ReadsClear
  <2>4. (Clear(s)' <=> Clear(s)) /\ Wait(s)' = Wait(s)
    BY <1>2, <2>1
  <2> QED BY <1>0, <1>1, <2>1, <2>2, <2>3, <2>4 DEF Begins
<1>4. CASE Writes(c)
  <2>1. UNCHANGED <<pc[c]["owner"], pc[c]["supervisor"]>>
    BY <1>4 DEF Writes
  <2>2. (Clear(c)' <=> Clear(c)) /\ Wait(c)' = Wait(c)
    <3>1. stream'[c] = stream[c] /\ pc'[c]["receive"] = pc[c]["receive"]
      BY <1>4 DEF Writes
    <3> QED BY <1>0, <3>1 DEF Clear, Wait, LagStep
  <2>3. /\ Due(c)' => Due(c)
        /\ pc[c]["send"] # "stamp" => (Due(c) => Due(c)')
    BY <1>0, <1>4, DueWrites
  <2>4. sinceSent'[c] <= sinceSent[c]
    BY <1>0, <1>4 DEF Writes
  <2>5. CASE pc[c]["send"] = "send"
    <3>1. pc'[c]["send"] = "pop" /\ stream'[s] # <<>>
      BY <1>4, <2>5 DEF Writes
    <3>2. Due(c) /\ ~Clear(s)' /\ pc[c]["owner"] \notin BeforeServing
      <4>1. Due(c)
        BY <2>5 DEF Due
      <4>2. ~Pushes(c) /\ pc[c]["owner"] # "supervise"
        BY <1>0, <2>5, <4>1 DEF Single
      <4> QED BY <1>0, <3>1, <4>1, <4>2 DEF Pushes, Pushing, Pusher, BeforeServing, Clear
    <3>3. pc[c]["supervisor"] = "off" => sinceSent[s] = 0
      BY <3>2 DEF Begins
    <3> QED BY <1>0, <1>1, <2>1, <2>2, <2>3, <2>4, <3>2, <3>3 DEF Begins
  <2>6. CASE pc[c]["send"] # "send"
    <3>1. (Clear(s)' <=> Clear(s)) /\ Wait(s)' = Wait(s)
      BY <1>2, <2>6
    <3>2. pc[c]["send"] \in {"pop", "stamp"} \/ ~Sent(c)'
      BY <1>4, <2>6 DEF Writes, Sent
    <3>3. Due(c) /\ ~Sent(c) => Due(c)' /\ ~Sent(c)'
      BY <2>3, <3>2 DEF Sent
    <3> QED BY <1>0, <1>1, <2>1, <2>2, <2>3, <2>4, <3>1, <3>3 DEF Begins
  <2> QED BY <2>5, <2>6
<1>5. ASSUME NEW t \in Pusher, Puts(c, t) PROVE Begins(c, s)'
  <2>1. Due(c) /\ Due(c)' /\ ~Sent(c)'
    BY <1>0, <1>5, DuePuts DEF Context
  <2>2. /\ pc'[c]["send"] = pc[c]["send"] /\ sinceSent'[c] = sinceSent[c]
        /\ stream'[c] = stream[c] /\ pc'[c]["receive"] = pc[c]["receive"]
    BY <1>5 DEF Puts
  <2>3. /\ (Clear(c)' <=> Clear(c)) /\ Wait(c)' = Wait(c)
        /\ (Clear(s)' <=> Clear(s)) /\ Wait(s)' = Wait(s)
    BY <1>0, <1>2, <2>2 DEF Clear, Wait, LagStep
  <2>4. /\ pc'[c]["supervisor"] = "off" <=> pc[c]["supervisor"] = "off"
        /\ pc'[c]["owner"] \in BeforeServing => pc[c]["owner"] \in BeforeServing
    <3>1. CASE t = "owner"
      BY <1>5, <3>1 DEF Puts, Pusher, Pushing, BeforeServing
    <3>2. CASE t = "supervisor"
      BY <1>5, <3>2 DEF Puts, Pusher, Pushing, Return
    <3> QED BY <3>1, <3>2 DEF Pusher
  <2> QED BY <1>0, <1>1, <2>1, <2>2, <2>3, <2>4 DEF Begins
<1>6. CASE Supervises(c)
  <2>1. /\ pc[c]["supervisor"] # "off" /\ pc'[c]["supervisor"] # "off"
        /\ pc'[c]["owner"] = pc[c]["owner"] /\ pc'[c]["send"] = pc[c]["send"]
    BY <1>6 DEF Supervises
  <2> QED BY <1>1, <1>2, <2>1 DEF Begins
<1>7. CASE Owns(c)
  <2>1. /\ UNCHANGED <<pc[c]["send"], pc[c]["supervisor"], sinceSent[c]>>
        /\ stream'[c] = stream[c] /\ pc'[c]["receive"] = pc[c]["receive"]
    BY <1>7 DEF Owns
  <2>2. /\ (Clear(c)' <=> Clear(c)) /\ Wait(c)' = Wait(c)
        /\ (Clear(s)' <=> Clear(s)) /\ Wait(s)' = Wait(s)
    BY <1>0, <1>2, <2>1 DEF Clear, Wait, LagStep
  <2>3. /\ Sent(c)' <=> Sent(c)
        /\ pc[c]["owner"] # "supervise" => (Due(c)' <=> Due(c))
    BY <1>0, <1>7, DueOwns
  <2>4. CASE pc[c]["owner"] = "supervise"
    <3>1. pc[c]["owner"] \in BeforeServing /\ pc'[c]["owner"] \in BeforeServing
      BY <1>7, <2>4 DEF Owns, BeforeServing
    <3> QED BY <1>0, <1>1, <2>1, <2>2, <3>1 DEF Begins
  <2>5. CASE pc[c]["owner"] # "supervise"
    <3>1. pc[c]["owner"] \notin BeforeServing /\ pc'[c]["owner"] \notin BeforeServing
      BY <1>7, <2>5 DEF Owns, BeforeServing
    <3> QED BY <1>0, <1>1, <2>1, <2>2, <2>3, <2>5, <3>1 DEF Begins
  <2> QED BY <2>4, <2>5
<1> QED BY <1>3, <1>4, <1>5, <1>6, <1>7 DEF PairStep

LEMMA BeginsByServer ==
    ASSUME Context, NEW c \in Client, NEW s \in Endpoint, Peer[c] = s, Peer[s] = c,
           Timed(s), Begins(c, s), PairStep(s), LagStep(c), LagStep(s)
    PROVE  Begins(c, s)'
<1>0. /\ Gap \in Nat /\ c \in Endpoint /\ s \notin Client /\ StartTime >= 2 /\ StartTime \in Nat
      /\ sinceSent[c] \in Nat /\ sinceSent[s] \in Nat /\ sinceSent'[s] \in Nat
      /\ Wait(c) \in Nat /\ Wait(s) \in Nat /\ Wait(c)' \in Nat
      /\ Alive(s) /\ Single(s)
  BY Numbers, OwnerAssumption, LagAssumption DEF LagStep, Wait, Timed, Context, Matched, Swift
<1>1. /\ pc'[c] = pc[c] /\ sinceSent'[c] = sinceSent[c]
      /\ (Due(c)' <=> Due(c)) /\ (Sent(c)' <=> Sent(c))
  BY DEF PairStep, Rests, Due, Sent, Pushes
<1>2. ~(pc[s]["send"] = "send" /\ pc'[s]["send"] = "pop") =>
          /\ Clear(c)' <=> Clear(c)
          /\ Wait(c)' = Wait(c)
  BY <1>0, PeerClear
<1> HIDE DEF Gap, Wait, Clear
<1>3. CASE Reads(s)
  <2>1. pc'[s]["send"] = pc[s]["send"] /\ sinceSent'[s] = sinceSent[s]
    BY <1>3 DEF Reads
  <2>2. (Due(s)' <=> Due(s)) /\ (Sent(s)' <=> Sent(s))
    BY <1>0, <1>3, DueReads
  <2>3. /\ Clear(s) => Clear(s)' /\ pc'[s]["supervisor"] = pc[s]["supervisor"]
        /\ Wait(s)' >= Wait(s) /\ Wait(s)' \in Nat
        /\ pc'[s]["supervisor"] = "off" => pc[s]["supervisor"] = "off" /\ (Clear(s)' => Clear(s))
    BY <1>0, <1>3, ReadsClear
  <2>4. (Clear(c)' <=> Clear(c)) /\ Wait(c)' = Wait(c)
    BY <1>2, <2>1
  <2> QED BY <1>0, <1>1, <2>1, <2>2, <2>3, <2>4 DEF Begins
<1>4. CASE Writes(s)
  <2>1. /\ pc'[s]["supervisor"] = pc[s]["supervisor"]
        /\ Due(s)' => Due(s)
        /\ pc[s]["send"] # "stamp" => sinceSent'[s] = sinceSent[s]
    BY <1>0, <1>4, DueWrites DEF Writes
  <2>2. (Clear(s)' <=> Clear(s)) /\ Wait(s)' = Wait(s)
    <3>1. stream'[s] = stream[s] /\ pc'[s]["receive"] = pc[s]["receive"]
      BY <1>4 DEF Writes
    <3> QED BY <1>0, <3>1 DEF Clear, Wait, LagStep
  <2>3. CASE pc[s]["send"] = "send"
    <3>1. pc'[s]["send"] = "pop" /\ stream'[c] # <<>> /\ Due(s) /\ ~Sent(s)
      BY <1>4, <2>3 DEF Writes, Due, Sent
    <3>2. Clear(c) /\ ~Clear(c)' /\ pc[s]["supervisor"] # "off"
      BY <1>0, <3>1 DEF Single, Clear, Begins
    <3>3. pc[c]["supervisor"] = "off" => sinceSent[c] <= sinceSent[s] /\ sinceSent[s] <= Gap
      BY <1>0, <3>2 DEF Begins, Timed, Punctual, Limit
    <3>4. pc[c]["supervisor"] = "off" => ~(pc[c]["owner"] \in BeforeServing \/ Due(c))
      BY <3>1 DEF Begins
    <3> QED BY <1>0, <1>1, <2>1, <2>2, <3>2, <3>3, <3>4 DEF Begins
  <2>4. CASE pc[s]["send"] # "send"
    <3>1. (Clear(c)' <=> Clear(c)) /\ Wait(c)' = Wait(c)
      BY <1>2, <2>4
    <3>2. Sent(s)' => Sent(s)
      BY <1>4, <2>4 DEF Writes, Sent
    <3>3. ~Due(s) => pc[s]["send"] # "stamp"
      BY DEF Due
    <3>4. ~Sent(s) => pc[s]["send"] # "stamp"
      BY DEF Sent
    <3> QED BY <1>0, <1>1, <2>1, <2>2, <3>1, <3>2, <3>3, <3>4 DEF Begins
  <2> QED BY <2>3, <2>4
<1>5. ASSUME NEW t \in Pusher, Puts(s, t) PROVE Begins(c, s)'
  <2>1. Due(s) /\ ~Sent(s)'
    BY <1>0, <1>5, DuePuts DEF Context
  <2>2. /\ pc'[s]["send"] = pc[s]["send"] /\ sinceSent'[s] = sinceSent[s]
        /\ stream'[s] = stream[s] /\ pc'[s]["receive"] = pc[s]["receive"]
    BY <1>5 DEF Puts
  <2>3. /\ (Clear(s)' <=> Clear(s)) /\ Wait(s)' = Wait(s)
        /\ (Clear(c)' <=> Clear(c)) /\ Wait(c)' = Wait(c)
    BY <1>0, <1>2, <2>2 DEF Clear, Wait, LagStep
  <2>4. pc[s]["supervisor"] # "off" /\ pc'[s]["supervisor"] # "off"
    <3>1. t = "supervisor"
      BY <1>0, <1>5 DEF Puts, Pusher, Pushing, BeforeServing, Alive
    <3> QED BY <1>5, <3>1 DEF Puts, Pushing, Return
  <2> QED BY <1>0, <1>1, <2>1, <2>2, <2>3, <2>4 DEF Begins
<1>6. CASE Supervises(s)
  <2>1. /\ pc[s]["supervisor"] # "off" /\ pc'[s]["supervisor"] # "off"
        /\ pc'[s]["send"] = pc[s]["send"] /\ sinceSent'[s] = sinceSent[s]
        /\ stream'[s] = stream[s] /\ pc'[s]["receive"] = pc[s]["receive"]
    BY <1>6 DEF Supervises
  <2>2. /\ (Clear(s)' <=> Clear(s)) /\ (Clear(c)' <=> Clear(c)) /\ Wait(c)' = Wait(c)
    BY <1>2, <2>1 DEF Clear
  <2>3. /\ Sent(s)' <=> Sent(s)
        /\ sinceSent[s] >= StartTime \/ (Due(s)' <=> Due(s))
    BY <1>0, <1>6, DueSupervises
  <2> QED BY <1>0, <1>1, <2>1, <2>2, <2>3 DEF Begins
<1>7. CASE Owns(s)
  <2>1. /\ UNCHANGED <<pc[s]["send"], pc[s]["supervisor"], sinceSent[s]>>
        /\ stream'[s] = stream[s] /\ pc'[s]["receive"] = pc[s]["receive"]
    BY <1>7 DEF Owns
  <2>2. /\ (Clear(s)' <=> Clear(s)) /\ Wait(s)' = Wait(s)
        /\ (Clear(c)' <=> Clear(c)) /\ Wait(c)' = Wait(c)
    BY <1>0, <1>2, <2>1 DEF Clear, Wait, LagStep
  <2>3. pc[s]["owner"] # "supervise"
    BY <1>0 DEF Alive, BeforeServing
  <2>4. (Sent(s)' <=> Sent(s)) /\ (Due(s)' <=> Due(s))
    BY <1>0, <1>7, <2>3, DueOwns
  <2> QED BY <1>0, <1>1, <2>1, <2>2, <2>4 DEF Begins
<1> QED BY <1>3, <1>4, <1>5, <1>6, <1>7 DEF PairStep

-----------------------------------------------------------------------------
\* The invariant over every step that is no second.

\* What an endpoint gives up it does not get back.
LEMMA GivesUpOnce ==
    ASSUME TypeOK, AInv, NEW z \in Endpoint, ThreadStep(z) \/ NetworkStep(z), NEW x \in Endpoint
    PROVE  /\ fd'[x] = "open" => fd[x] = "open"
           /\ shouldContinue'[x] => shouldContinue[x]
<1> USE DEF TypeOK, DataTypeOK, SocketTypeOK
<1>1. CASE ReceiveStep(z)
  BY <1>1 DEF ReceiveStep, ReceiveLoop, While, ReceiveSync, ReceiveHeader, ReceiveStamp,
              ReceiveBody, ReceiveApply, ReceiveActivate, RecvBytes, RecvEnd, RecvError,
              RecvReturns, socketVars
<1>2. CASE SendStep(z)
  BY <1>2 DEF SendStep, SendLoop, While, SendPeek, SendLock, SendFront, SendSend, SendPop,
              Breaks, SendStamp, SendDelivers, SendIsLost, SendError, SendRaisesSigpipe,
              EndProcess, socketVars
<1>3. ASSUME NEW t, PushStep(z, t) PROVE UNCHANGED <<fd, shouldContinue>>
  BY <1>3 DEF PushStep, PushBuild, PushCheck, PushRecheck, PushTest, PushLock,
              PushConstruct, PushBump, Breaks, EndProcess, socketVars
<1>4. CASE SupervisorStep(z)
  BY <1>3, <1>4
  DEF SupervisorStep, SupervisorPeriod, SupervisorPatience, SupervisorLoop, While,
      SupervisorDiff, SupervisorTimeout, GoesOn, SupervisorSleep, SupervisorWake, Astray,
      socketVars
<1>5. CASE OwnerStep(z)
  BY <1>3, <1>5
  DEF OwnerStep, OwnerSupervise, OwnerClose, Close, OwnerStop, OwnerJoinReceive,
      OwnerJoinSend, OwnerJoin, OwnerExit, OwnerBreaks, Breaks, EndProcess, socketVars
<1>6. CASE NetworkStep(z)
  BY <1>6 DEF NetworkStep, Release, PeerCloses
<1> QED BY <1>1, <1>2, <1>4, <1>5, <1>6 DEF ThreadStep

LEMMA BothBefore ==
    ASSUME TypeOK, AInv, Matched, NEW z \in Endpoint, ThreadStep(z) \/ NetworkStep(z),
           NEW x \in Endpoint, Both(x)'
    PROVE  Both(x)
<1>1. Held(z) /\ Peer[x] \in Endpoint
  BY DEF AInv, Wire, Matched
<1>2. ASSUME NEW e \in Endpoint, Healthy(e)' PROVE Healthy(e)
  <2>1. Down(e)
    BY <1>1, StepDown
  <2>2. (fd'[e] = "open" => fd[e] = "open") /\ (shouldContinue'[e] => shouldContinue[e])
    BY GivesUpOnce
  <2> QED BY <1>2, <2>1, <2>2 DEF Down, Healthy
<1> QED BY <1>1, <1>2 DEF Both

LEMMA TimedOwn ==
    ASSUME Context, NEW x \in Endpoint, NEW y \in Endpoint, Peer[x] = y, Peer[y] = x,
           LagStep(x), LagStep(y), PairStep(x), Timed(x), Timed(y), Bounded(x), Ready(x),
           pc[x]["owner"] \in BeforeServing => Clear(x) /\ Clear(y)
    PROVE  Timed(x)' /\ Timed(y)'
<1>0. Alive(x) /\ Single(x) /\ Young(x) /\ Punctual(x) /\ Fresh(x)
  BY DEF Timed
<1>1. Alive(y) /\ Single(y) /\ Young(y) /\ Punctual(y) /\ Fresh(y)
  BY DEF Timed
<1>2. Alive(x)'
  BY <1>0, AliveOwn
<1>3. Single(x)'
  BY <1>0, SingleOwn
<1>4. Young(x)'
  BY <1>0, YoungOwn
<1>5. Punctual(x)'
  BY <1>0, PunctualOwn
<1>6. Fresh(x)'
  BY <1>0, <1>1, FreshOwn
<1>7. Alive(y)' /\ Punctual(y)'
  <2>1. Rests(y)
    BY DEF PairStep
  <2> QED BY <1>1, <2>1 DEF Rests, Alive, Punctual, Due, Pushes, Limit
<1>8. Single(y)'
  BY <1>1, SinglePeer
<1>9. Young(y)'
  BY <1>1, YoungPeer
<1>10. Fresh(y)'
  BY <1>0, <1>1, FreshPeer
<1> QED BY <1>2, <1>3, <1>4, <1>5, <1>6, <1>7, <1>8, <1>9, <1>10 DEF Timed

\* A step of a third endpoint.
LEMMA TimedElse ==
    ASSUME Context, NEW x \in Endpoint, NEW y \in Endpoint, Peer[x] = y, Peer[y] = x,
           NEW z \in Endpoint \ {x, y}, ThreadStep(z) \/ NetworkStep(z),
           LagStep(x), LagStep(y)
    PROVE  /\ Timed(x) => Timed(x)'
           /\ Begins(x, y) => Begins(x, y)'
<1>0. TypeOK /\ x # Peer[z] /\ y # Peer[z]
  BY PeerAssumption DEF Context
<1>1. Rests(x) /\ Rests(y) /\ stream'[x] = stream[x] /\ stream'[y] = stream[y]
  BY <1>0, PeerRests, StepFrame
<1>2. (stream[x] # <<>> => lag'[x] = lag[x]) /\ (stream[y] # <<>> => lag'[y] = lag[y])
  BY <1>1 DEF LagStep
<1>3. /\ (Clear(x)' <=> Clear(x)) /\ (Clear(y)' <=> Clear(y))
      /\ (Due(x)' <=> Due(x)) /\ (Due(y)' <=> Due(y)) /\ (Pushes(x)' <=> Pushes(x))
      /\ (Sent(x)' <=> Sent(x)) /\ (Sent(y)' <=> Sent(y))
      /\ Wait(x)' = Wait(x) /\ Wait(y)' = Wait(y)
      /\ (Unread(x)' <=> Unread(x)) /\ (Hears(x)' <=> Hears(x)) /\ Limit(x)' = Limit(x)
  BY <1>1, <1>2 DEF Rests, Clear, Due, Pushes, Sent, Wait, Unread, Hears, Limit
<1>4. UNCHANGED <<pc[x], messageQueue[x], sinceSent[x], sinceReceived[x], sleepLeft[x], pc[y],
                  sinceSent[y]>>
  BY <1>1 DEF Rests
<1>5. Unread(x) => lag'[x] = lag[x]
  BY <1>2 DEF Unread
<1> HIDE DEF Clear, Due, Pushes, Sent, Wait, Unread, Hears, Limit, Gap
<1>6. Timed(x) => Alive(x)' /\ Single(x)' /\ Young(x)' /\ Punctual(x)'
  BY <1>3, <1>4 DEF Timed, Alive, Single, Young, Punctual
<1>7. Timed(x) => Fresh(x)'
  BY <1>3, <1>4, <1>5 DEF Timed, Fresh
<1>8. Begins(x, y) => Begins(x, y)'
  BY <1>3, <1>4 DEF Begins
<1> QED BY <1>6, <1>7, <1>8 DEF Timed

LEMMA NextPairInv ==
    ASSUME Context, PairInv, NEW z \in Endpoint, ThreadStep(z) \/ NetworkStep(z),
           \A e \in Endpoint : LagStep(e)
    PROVE  PairInv'
<1>1. ASSUME NEW c \in Client, NEW s \in Endpoint, s = Peer[c], Both(c)'
      PROVE  Timed(c)' /\ Timed(s)' /\ Begins(c, s)'
  <2>0. TypeOK /\ AInv /\ Matched /\ c \in Endpoint
    BY OwnerAssumption DEF Context
  <2>1. Both(c) /\ Both(s) /\ Both(s)' /\ Peer[s] = c
    <3>1. Both(c)
      BY <1>1, <2>0, BothBefore
    <3>2. Both(s) /\ Peer[s] = c
      BY <1>1, <2>0, <3>1, BothOpen
    <3>3. Both(s)'
      BY <1>1, <3>2 DEF Both
    <3> QED BY <3>1, <3>2, <3>3
  <2>2. Timed(c) /\ Timed(s) /\ Begins(c, s)
    BY <1>1, <2>0, <2>1 DEF PairInv
  <2>3. /\ Bounded(c) /\ Bounded(s) /\ Ready(c) /\ Ready(s)
        /\ pc[c]["owner"] \in BeforeServing => Clear(c) /\ Clear(s)
        /\ pc[s]["owner"] \notin BeforeServing
    BY <1>1, <2>1, <2>2, FirstOnes
  <2>4. CASE z = c
    <3>1. PairStep(c)
      BY <1>1, <2>0, <2>1, <2>2, <2>4, AStepOfTwo DEF Timed
    <3>2. Timed(c)' /\ Timed(s)'
      BY <1>1, <2>0, <2>1, <2>2, <2>3, <3>1, TimedOwn
    <3>3. Begins(c, s)'
      BY <1>1, <2>0, <2>1, <2>2, <3>1, BeginsByClient
    <3> QED BY <3>2, <3>3
  <2>5. CASE z = s
    <3>1. PairStep(s)
      BY <1>1, <2>0, <2>1, <2>2, <2>5, AStepOfTwo DEF Timed
    <3>2. Timed(c)' /\ Timed(s)'
      BY <1>1, <2>0, <2>1, <2>2, <2>3, <3>1, TimedOwn
    <3>3. Begins(c, s)'
      BY <1>1, <2>0, <2>1, <2>2, <3>1, BeginsByServer
    <3> QED BY <3>2, <3>3
  <2>6. CASE z \notin {c, s}
    BY <1>1, <2>0, <2>1, <2>2, <2>6, TimedElse
  <2> QED BY <2>4, <2>5, <2>6
<1>2. ASSUME NEW x \in Endpoint, Both(x)' PROVE Timed(x)'
  <2>1. Matched /\ Peer[x] \in Endpoint
    BY DEF Context, Matched
  <2>2. CASE x \in Client
    BY <1>1, <1>2, <2>1, <2>2
  <2>3. CASE x \notin Client
    <3>1. Peer[x] \in Client /\ Peer[Peer[x]] = x
      BY <2>1, <2>3, PeerAssumption DEF Matched
    <3>2. Both(Peer[x])'
      BY <1>2, <3>1 DEF Both
    <3> QED BY <1>1, <3>1, <3>2
  <2> QED BY <2>2, <2>3
<1>3. ASSUME NEW c \in Client, Both(c)' PROVE Begins(c, Peer[c])'
  <2>1. Peer[c] \in Endpoint
    BY OwnerAssumption DEF Context, Matched
  <2> QED BY <1>1, <1>3, <2>1
<1> QED BY <1>2, <1>3 DEF PairInv

-----------------------------------------------------------------------------
\* The invariant when a second passes.

\* At that moment x has nothing to send, and what is on the way to it is not late yet.
Idle(x) ==
    /\ ~Due(x) /\ ~Sent(x) /\ pc[x]["owner"] \notin BeforeServing
    /\ pc[x]["supervisor"] = "off" \/ (pc[x]["supervisor"] = "sleeping" /\ sleepLeft[x] > 0)
    /\ pc[x]["receive"] \in Receiving
    /\ IF stream[x] = <<>> THEN pc[x]["receive"] = "sync" ELSE lag[x] < MaxLag

LEMMA NobodyWaitsInVain ==
    ASSUME Context, NEW x \in Endpoint, Both(x), Timed(x), Waits(x)
    PROVE  Idle(x)
<1> USE DEF Timed
<1>0. /\ ReceiveWaits(x) /\ SendWaits(x) /\ SupervisorWaits(x) /\ OwnerWaits(x)
      /\ Framed(x) /\ ~Ended(x) /\ Peer[x] \in Endpoint
  BY BothOpen DEF Waits, Context, AInv, Wire
<1>1. pc[x]["owner"] = "serving"
  BY <1>0 DEF OwnerWaits, Alive, BeforeServing
<1>2. pc[x]["supervisor"] = "off" \/ (pc[x]["supervisor"] = "sleeping" /\ sleepLeft[x] > 0)
  BY <1>0 DEF SupervisorWaits, Alive
<1>3. ~Pushes(x)
  BY <1>1, <1>2 DEF Pushes, Pusher, Pushing
<1>4. pc[x]["send"] \in {"loop", "peek"} /\ messageQueue[x] = <<>>
  <2>1. CASE pc[x]["send"] \in {"loop", "peek"}
    BY <1>0, <2>1 DEF SendWaits
  <2>2. CASE pc[x]["send"] \notin {"loop", "peek"}
    <3>1. pc[x]["send"] = "send" /\ SendBlocks(x, MessageSize)
      BY <1>0, <2>2 DEF SendWaits, Alive
    <3>2. stream[Peer[x]] = <<>>
      BY <3>1 DEF Single, Due, Sent, Clear
    <3>3. Len(<<>>) = 0
      BY EmptySeq, Zenon
    <3>4. Len(stream[Peer[x]]) = 0
      BY <3>2, <3>3, Zenon
    <3>5. 0 + MessageSize > BufferSize
      BY <3>1, <3>4 DEF SendBlocks
    <3> QED BY <3>5, SocketAssumption DEF Context, Swift, MessageSize
  <2> QED BY <2>1, <2>2
<1>5. pc[x]["receive"] \in Receiving
  BY <1>0 DEF ReceiveWaits, Alive, Receiving
<1>6. stream[x] = <<>> => pc[x]["receive"] = "sync"
  <2> SUFFICES ASSUME stream[x] = <<>>, pc[x]["receive"] \in {"header", "body"} PROVE FALSE
    BY <1>5 DEF Receiving
  <2>1. Whole(<<>>, Off(x)) /\ Off(x) \in {1, 10}
    BY <1>0 DEF Framed, Off, Lost
  <2> QED BY <2>1, WholeRestOfOne
<1>7. stream[x] # <<>> => lag[x] < MaxLag
  BY <1>0, <1>5 DEF ReceiveWaits, Receiving
<1> QED BY <1>1, <1>2, <1>3, <1>4, <1>5, <1>6, <1>7 DEF Idle, Due, Sent, BeforeServing

\* What a second changes.
Second(x) ==
    /\ UNCHANGED <<pc[x], messageQueue[x], stream[x]>>
    /\ sleepLeft[x] > 0 => sleepLeft'[x] = sleepLeft[x] - 1
    /\ sinceSent'[x] = Older(sinceSent[x]) /\ sinceReceived'[x] = Older(sinceReceived[x])
    /\ stream[x] # <<>> /\ lag[x] < MaxLag => lag'[x] = lag[x] + 1

LEMMA SecondOf ==
    ASSUME Context, PromptTick, NEW x \in Endpoint
    PROVE  Second(x)
<1>1. lag[x] \in Nat /\ MaxLag \in Nat
  BY Numbers
<1>2. stream[x] # <<>> /\ lag[x] < MaxLag => lag'[x] = lag[x] + 1
  BY <1>1 DEF PromptTick, AtMost
<1> QED BY <1>2 DEF PromptTick, Tick, Second, queueVars, socketVars

LEMMA OlderByOne ==
    ASSUME NEW a \in 0..MaxAge, NEW b \in 0..MaxAge
    PROVE  /\ Older(a) \in Nat /\ Older(a) <= a + 1
           /\ a <= b => Older(a) <= Older(b)
BY BoundAssumption DEF Older, AtMost

LEMMA TimedTick ==
    ASSUME Context, NEW x \in Endpoint, NEW y \in Endpoint, Peer[x] = y, Peer[y] = x,
           Second(x), Second(y), Idle(x), Idle(y), Timed(x)
    PROVE  Timed(x)'
<1> USE DEF Timed
<1>0. /\ Gap \in Nat /\ MaxLag \in Nat /\ Limit(x) \in Nat /\ Limit(x) >= Gap
      /\ sinceSent[x] \in Nat /\ sinceSent[y] \in Nat /\ sinceReceived[x] \in Nat
      /\ sleepLeft[x] \in Nat /\ lag[x] \in Nat /\ lag[y] \in Nat
  BY Numbers DEF Limit
<1>1. /\ sinceSent'[x] \in Nat /\ sinceSent'[x] <= sinceSent[x] + 1
      /\ sinceReceived'[x] \in Nat /\ sinceReceived'[x] <= sinceReceived[x] + 1
      /\ sinceReceived[x] <= sinceSent[y] => sinceReceived'[x] <= sinceSent'[y]
      /\ sinceSent'[y] \in Nat
  <2>1. /\ sinceSent[x] \in 0..MaxAge /\ sinceReceived[x] \in 0..MaxAge
        /\ sinceSent[y] \in 0..MaxAge
    BY DEF Context, TypeOK, DataTypeOK
  <2> QED BY <2>1, OlderByOne DEF Second
<1>2. /\ (Clear(y)' <=> Clear(y)) /\ (Due(x)' <=> Due(x)) /\ (Pushes(x)' <=> Pushes(x))
      /\ (Sent(x)' <=> Sent(x)) /\ (Sent(y)' <=> Sent(y))
      /\ (Unread(x)' <=> Unread(x)) /\ (Hears(x)' <=> Hears(x)) /\ Limit(x)' = Limit(x)
  BY DEF Second, Clear, Due, Pushes, Sent, Unread, Hears, Limit
<1>3. UNCHANGED <<pc[x], messageQueue[x]>>
  BY DEF Second
<1> HIDE DEF Gap, Limit
<1>4. Alive(x)' /\ Single(x)'
  BY <1>2, <1>3 DEF Alive, Single
<1>5. Young(x)'
  <2> SUFFICES ASSUME ~Clear(y) PROVE sinceSent'[x] <= Wait(y)'
    BY <1>2 DEF Young
  <2>1. stream[y] # <<>> /\ lag[y] < MaxLag
    BY DEF Idle, Clear, Receiving
  <2>2. Wait(y) = lag[y] /\ Wait(y)' = lag[y] + 1
    BY <2>1 DEF Second, Wait
  <2>3. sinceSent[x] <= Wait(y)
    BY DEF Young, Idle
  <2> QED BY <1>0, <1>1, <2>2, <2>3
<1>6. Punctual(x)'
  <2>1. CASE pc[x]["supervisor"] = "off"
    BY <1>3, <2>1 DEF Punctual
  <2>2. CASE pc[x]["supervisor"] = "sleeping" /\ sleepLeft[x] > 0
    <3>1. sinceSent[x] + sleepLeft[x] <= Gap /\ ~Due(x)
      BY <2>2 DEF Punctual, Idle
    <3>2. sleepLeft'[x] = sleepLeft[x] - 1
      BY <2>2 DEF Second
    <3>3. sinceSent'[x] + sleepLeft'[x] <= Gap /\ sinceSent'[x] <= Limit(x)
      BY <1>0, <1>1, <2>2, <3>1, <3>2
    <3> QED BY <1>2, <1>3, <2>2, <3>1, <3>3 DEF Punctual
  <2> QED BY <2>1, <2>2 DEF Idle
<1>7. Fresh(x)'
  <2> SUFFICES ASSUME Hears(x)
               PROVE  sinceReceived'[x] <= IF Unread(x) THEN Gap + MaxLag + lag'[x]
                                           ELSE sinceSent'[y]
    BY <1>2 DEF Fresh, Idle
  <2>1. CASE Unread(x)
    <3>1. lag'[x] = lag[x] + 1
      BY <2>1 DEF Unread, Idle, Second
    <3>2. sinceReceived[x] <= Gap + MaxLag + lag[x]
      BY <2>1 DEF Fresh
    <3> QED BY <1>0, <1>1, <2>1, <3>1, <3>2
  <2>2. CASE ~Unread(x)
    <3>1. sinceReceived[x] <= sinceSent[y]
      BY <2>2 DEF Fresh, Idle
    <3> QED BY <1>1, <2>2, <3>1
  <2> QED BY <2>1, <2>2
<1> QED BY <1>4, <1>5, <1>6, <1>7

LEMMA BeginsTick ==
    ASSUME Context, NEW c \in Client, NEW s \in Endpoint, Peer[c] = s, Peer[s] = c,
           Second(c), Second(s), Idle(c), Idle(s), Begins(c, s)
    PROVE  Begins(c, s)'
<1>0. /\ Gap \in Nat /\ MaxLag \in Nat /\ c \in Endpoint
      /\ sinceSent[c] \in Nat /\ sinceSent[s] \in Nat /\ lag[c] \in Nat /\ lag[s] \in Nat
  BY Numbers, OwnerAssumption
<1>1. /\ sinceSent'[c] \in Nat /\ sinceSent'[c] <= sinceSent[c] + 1
      /\ sinceSent'[s] \in Nat /\ sinceSent'[s] <= sinceSent[s] + 1
      /\ sinceSent[c] <= sinceSent[s] => sinceSent'[c] <= sinceSent'[s]
  <2>1. sinceSent[c] \in 0..MaxAge /\ sinceSent[s] \in 0..MaxAge
    BY <1>0 DEF Context, TypeOK, DataTypeOK
  <2> QED BY <2>1, OlderByOne DEF Second
<1>2. /\ (Clear(c)' <=> Clear(c)) /\ (Clear(s)' <=> Clear(s))
      /\ (Due(c)' <=> Due(c)) /\ (Due(s)' <=> Due(s))
      /\ (Sent(c)' <=> Sent(c)) /\ (Sent(s)' <=> Sent(s))
  BY DEF Second, Clear, Due, Pushes, Sent
<1>3. UNCHANGED <<pc[c], pc[s]>>
  BY DEF Second
<1>4. ASSUME NEW e \in {c, s}, ~Clear(e) PROVE Wait(e) = lag[e] /\ Wait(e)' = lag[e] + 1
  <2>1. stream[e] # <<>> /\ lag[e] < MaxLag /\ Second(e)
    BY <1>4 DEF Idle, Clear, Receiving
  <2> QED BY <2>1 DEF Second, Wait
<1> HIDE DEF Gap, Clear, Due, Sent, Wait
<1>5. pc[s]["supervisor"] = "off" => sinceSent'[s] <= Wait(s)'
  <2> SUFFICES ASSUME pc[s]["supervisor"] = "off" PROVE sinceSent'[s] <= Wait(s)'
    OBVIOUS
  <2>1. ~Clear(s) /\ sinceSent[s] <= Wait(s)
    BY DEF Begins, Idle
  <2> QED BY <1>0, <1>1, <1>4, <2>1
<1>6. pc[c]["supervisor"] = "off" =>
          IF Clear(c) THEN sinceSent'[c] <= sinceSent'[s] ELSE sinceSent'[c] <= Gap + Wait(c)'
  <2>1. ASSUME pc[c]["supervisor"] = "off", Clear(c) PROVE sinceSent'[c] <= sinceSent'[s]
    BY <1>1, <2>1 DEF Begins
  <2>2. ASSUME pc[c]["supervisor"] = "off", ~Clear(c) PROVE sinceSent'[c] <= Gap + Wait(c)'
    <3>1. sinceSent[c] <= Gap + Wait(c)
      BY <2>2 DEF Begins
    <3> QED BY <1>0, <1>1, <1>4, <2>2, <3>1
  <2> QED BY <2>1, <2>2
<1> QED BY <1>2, <1>3, <1>5, <1>6 DEF Begins, Idle

LEMMA TickPairInv ==
    ASSUME Context, PairInv, PromptTick
    PROVE  PairInv'
<1>1. ASSUME NEW x \in Endpoint, Both(x)' PROVE Both(x)
  BY <1>1 DEF Both, Healthy, PromptTick, Tick, socketVars
<1>2. ASSUME NEW x \in Endpoint, NEW y \in Endpoint, y = Peer[x], Both(x)
      PROVE  /\ Peer[y] = x /\ Idle(x) /\ Idle(y) /\ Second(x) /\ Second(y) /\ Timed(x)
  <2>1. Peer[y] = x /\ Both(y)
    BY <1>2, BothOpen DEF Context
  <2>2. Timed(x) /\ Timed(y) /\ Waits(x) /\ Waits(y)
    BY <1>2, <2>1 DEF PairInv, PromptTick
  <2> QED BY <1>2, <2>1, <2>2, NobodyWaitsInVain, SecondOf
<1>3. ASSUME NEW x \in Endpoint, Both(x)' PROVE Timed(x)'
  <2>1. Both(x) /\ Peer[x] \in Endpoint
    BY <1>1, <1>3 DEF Context, Matched
  <2> QED BY <1>2, <2>1, TimedTick
<1>4. ASSUME NEW c \in Client, Both(c)' PROVE Begins(c, Peer[c])'
  <2>1. Both(c) /\ Peer[c] \in Endpoint /\ c \in Endpoint
    BY <1>1, <1>4, OwnerAssumption DEF Context, Matched
  <2>2. Begins(c, Peer[c])
    BY <2>1 DEF PairInv
  <2> QED BY <1>2, <2>1, <2>2, BeginsTick
<1> QED BY <1>3, <1>4 DEF PairInv

LEMMA InitPairInv == Matched /\ TimedInit => PairInv
<1> SUFFICES ASSUME Matched, TimedInit PROVE PairInv
  OBVIOUS
<1>1. ASSUME NEW x \in Endpoint
      PROVE  /\ stream[x] = <<>> /\ messageQueue[x] = <<>> /\ sinceSent[x] = 0
             /\ pc[x]["receive"] = "loop" /\ pc[x]["send"] = "loop"
             /\ pc[x]["supervisor"] = "off"
             /\ pc[x]["owner"] = IF x \in Client THEN "supervise" ELSE "serving"
             /\ Peer[x] \in Endpoint
  BY DEF Matched, TimedInit, Init, SocketInit, StartLabel, Thread
<1>2. ASSUME NEW x \in Endpoint PROVE Clear(x) /\ ~Pushes(x) /\ ~Due(x) /\ ~Sent(x)
  BY <1>1 DEF Clear, Pushes, Due, Sent, Pusher, Pushing
<1>3. Len(<<>>) = 0
  BY EmptySeq, Zenon
<1>4. ASSUME NEW x \in Endpoint PROVE Timed(x)
  <2>1. Alive(x)
    BY <1>1 DEF Alive, BeforeServing, SupervisorAt
  <2>2. Len(messageQueue[x]) = 0
    BY <1>1, <1>3
  <2>3. Single(x)
    BY <1>1, <1>2, <2>2 DEF Single
  <2>4. Young(x) /\ Punctual(x) /\ Fresh(x)
    BY <1>1, <1>2 DEF Young, Punctual, Fresh, Hears
  <2> QED BY <2>1, <2>3, <2>4 DEF Timed
<1>5. ASSUME NEW c \in Client PROVE Begins(c, Peer[c])
  <2>1. c \in Endpoint /\ Peer[c] \in Endpoint
    BY <1>1, OwnerAssumption
  <2>2. Wait(Peer[c]) = MaxLag /\ MaxLag >= 0
    BY <1>1, <2>1, LagAssumption DEF Wait
  <2>3. pc[c]["owner"] \in BeforeServing
    BY <1>1, <2>1 DEF BeforeServing
  <2> QED BY <1>1, <1>2, <2>1, <2>2, <2>3 DEF Begins
<1> QED BY <1>4, <1>5 DEF PairInv

LEMMA TimedPairInv == Steady /\ Matched /\ Swift => (TimedSpec => [](IInv /\ AInv /\ BInv /\ PairInv))
<1> SUFFICES ASSUME Steady, Matched, Swift PROVE TimedSpec => [](IInv /\ AInv /\ BInv /\ PairInv)
  OBVIOUS
<1>1. MaxLag < Bound
  <2>1. StartTime \in Nat /\ MaxLag \in Nat /\ Bound \in Nat /\ StartTime \div 2 \in Nat
    BY Bounds, LagAssumption DEF Nap
  <2> QED BY <2>1 DEF Swift, Bound
<1>2. TimedSpec => [](IInv /\ AInv)
  BY TimedInvariant
<1>3. TimedSpec => []BInv
  BY <1>1, TimedBounds
<1>4. TimedInit => PairInv
  BY InitPairInv
<1>5. IInv /\ AInv /\ BInv /\ (IInv /\ AInv)' /\ PairInv /\ [TimedNext]_timedVars => PairInv'
  <2> SUFFICES ASSUME IInv, AInv, BInv, (IInv /\ AInv)', PairInv, [TimedNext]_timedVars
               PROVE  PairInv'
    OBVIOUS
  <2>1. Context
    BY DEF IInv, LInv, BInv, Context
  <2>2. ASSUME NEW z \in Endpoint, TimedStep(ThreadStep(z)) \/ TimedStep(NetworkStep(z))
        PROVE  PairInv'
    <3>1. ThreadStep(z) \/ NetworkStep(z)
      BY <2>2 DEF TimedStep
    <3>2. ASSUME NEW e \in Endpoint PROVE LagStep(e)
      <4>1. lag'[e] = IF stream'[e] = <<>> THEN 0 ELSE lag[e]
        BY <2>2 DEF TimedStep
      <4> QED BY <4>1, LagAssumption DEF BInv, LagStep
    <3> QED BY <2>1, <3>1, <3>2, NextPairInv
  <2>3. CASE PromptTick
    BY <2>1, <2>3, TickPairInv
  <2>4. CASE UNCHANGED timedVars
    <3>1. UNCHANGED <<fd, remote, stream, process, pc, shouldContinue, messageQueue, sinceSent,
                      sinceReceived, sleepLeft, lag>>
      BY <2>4 DEF timedVars, vars, socketVars, queueVars, ageVars, supervisorVars
    <3>2. \A x : (Both(x)' <=> Both(x)) /\ (Clear(x)' <=> Clear(x)) /\ (Due(x)' <=> Due(x))
                /\ (Pushes(x)' <=> Pushes(x)) /\ (Sent(x)' <=> Sent(x)) /\ Wait(x)' = Wait(x)
                /\ (Unread(x)' <=> Unread(x)) /\ (Hears(x)' <=> Hears(x))
      BY <3>1 DEF Both, Healthy, Clear, Pushes, Sent, Due, Wait, Hears, Unread
    <3>3. \A x : Timed(x)' <=> Timed(x)
      BY <3>1, <3>2 DEF Timed, Alive, Single, Young, Punctual, Fresh, Limit
    <3>4. \A c, s : Begins(c, s)' <=> Begins(c, s)
      BY <3>1, <3>2 DEF Begins
    <3> QED BY <3>2, <3>3, <3>4 DEF PairInv
  <2> QED BY <2>2, <2>3, <2>4 DEF TimedNext
<1> QED BY <1>2, <1>3, <1>4, <1>5, PTL DEF TimedSpec

-----------------------------------------------------------------------------
\* Nobody gives up a peer that does its part.

LEMMA InitSpared == Matched /\ TimedInit => SparedInv
<1> SUFFICES ASSUME Matched, TimedInit, NEW x \in Endpoint PROVE Kept(x) /\ Spared(x)
  BY DEF SparedInv
<1>1. fd[x] = "open" /\ ~expired[x] /\ pc[x]["supervisor"] = "off"
  BY DEF Matched, TimedInit, Init, SocketInit, StartLabel, Thread
<1> QED BY <1>1 DEF Kept, Spared

LEMMA KeptStep ==
    ASSUME TypeOK, NEW z \in Endpoint, ThreadStep(z) \/ NetworkStep(z), NEW x \in Endpoint,
           Kept(x)
    PROVE  Kept(x)'
<1> USE DEF TypeOK, ControlTypeOK, SocketTypeOK, Thread, Kept, BeforeServing
<1>0. CASE x # z
  <2>1. pc'[x] = pc[x] /\ fd'[x] = fd[x]
    BY <1>0, StepFrame, ElseFrame DEF Mine
  <2> QED BY <2>1
<1>1. CASE x = z /\ ReceiveStep(x)
  <2>1. pc'[x]["owner"] = pc[x]["owner"]
    BY <1>1 DEF ReceiveStep, ReceiveLoop, While, ReceiveSync, ReceiveHeader, ReceiveStamp,
                ReceiveBody, ReceiveApply, ReceiveActivate, At, Goto
  <2>2. fd[x] = "open" => fd'[x] = "open"
    BY <1>1 DEF ReceiveStep, ReceiveLoop, While, ReceiveSync, ReceiveHeader, ReceiveStamp,
                ReceiveBody, ReceiveApply, ReceiveActivate, RecvBytes, RecvEnd, RecvError,
                RecvReturns, socketVars
  <2> QED BY <2>1, <2>2
<1>2. CASE x = z /\ SendStep(x)
  BY <1>2 DEF SendStep, SendLoop, While, SendPeek, SendLock, SendFront, SendSend, SendPop,
              Breaks, SendStamp, SendDelivers, SendIsLost, SendError, SendRaisesSigpipe,
              At, Goto, EndProcess, socketVars
<1>3. ASSUME NEW t \in Pusher, PushStep(x, t)
      PROVE  fd' = fd /\ (pc'[x]["owner"] \in BeforeServing \cup {"serving"} =>
                             pc[x]["owner"] \in BeforeServing \cup {"serving"})
  BY <1>3 DEF PushStep, PushBuild, PushCheck, PushRecheck, PushTest, PushLock,
              PushConstruct, PushBump, Breaks, EndProcess, At, Goto, Pusher, socketVars
<1>4. CASE x = z /\ SupervisorStep(x)
  BY <1>3, <1>4
  DEF SupervisorStep, SupervisorPeriod, SupervisorPatience, SupervisorLoop, While,
      SupervisorDiff, SupervisorTimeout, SupervisorSleep, SupervisorWake, Astray, At, Goto,
      Pusher, socketVars
<1>5. CASE x = z /\ OwnerStep(x)
  BY <1>3, <1>5
  DEF OwnerStep, OwnerSupervise, OwnerClose, OwnerStop, OwnerJoinReceive, OwnerJoinSend,
      OwnerJoin, OwnerExit, OwnerBreaks, Breaks, EndProcess, At, Goto, Pusher, socketVars
<1>6. CASE x = z /\ NetworkStep(x)
  BY <1>6 DEF NetworkStep, Release, PeerCloses
<1> QED BY <1>0, <1>1, <1>2, <1>4, <1>5, <1>6 DEF ThreadStep

\* How the supervisor of x comes to its verdict.
LEMMA Judges ==
    ASSUME TypeOK, NEW z \in Endpoint, ThreadStep(z) \/ NetworkStep(z),
           NEW x \in Endpoint, sinceReceived'[x] \in Nat
    PROVE  /\ pc'[x]["supervisor"] # "off" =>
                  pc[x]["supervisor"] # "off" \/ pc[x]["receive"] = "activate"
           /\ pc'[x]["supervisor"] = "diff" =>
                  \/ pc[x]["supervisor"] = "diff"
                  \/ pc[x]["supervisor"] = "loop" /\ shouldContinue[x]
           /\ \/ expired'[x] = expired[x]
              \/ /\ process[x] = "up" /\ pc[x]["supervisor"] = "diff"
                 /\ expired'[x] = (sinceReceived[x] >= timeoutPeriod[x])
           /\ sinceReceived'[x] <= sinceReceived[x]
<1> USE DEF TypeOK, ControlTypeOK, DataTypeOK, Thread
<1>0. sinceReceived[x] \in Nat /\ sinceReceived'[x] \in Nat
  BY BoundAssumption
<1>1. CASE x # z
  <2>1. pc'[x] = pc[x] /\ expired'[x] = expired[x] /\ sinceReceived'[x] = sinceReceived[x]
    BY <1>1, StepFrame, ElseFrame DEF Mine
  <2> QED BY <1>0, <2>1
<1>2. CASE x = z /\ ReceiveStep(x)
  <2>1. sinceReceived'[x] <= sinceReceived[x]
    BY <1>0, <1>2
    DEF ReceiveStep, ReceiveLoop, While, ReceiveSync, ReceiveHeader, ReceiveStamp,
        ReceiveBody, ReceiveApply, ReceiveActivate, ageVars
  <2>2. /\ expired'[x] = expired[x]
        /\ \/ pc'[x]["supervisor"] = pc[x]["supervisor"]
           \/ pc[x]["receive"] = "activate" /\ pc'[x]["supervisor"] = "period"
    BY <1>2
    DEF ReceiveStep, ReceiveLoop, While, ReceiveSync, ReceiveHeader, ReceiveStamp,
        ReceiveBody, ReceiveApply, ReceiveActivate, At, Goto, supervisorVars
  <2> QED BY <2>1, <2>2
<1>3. CASE x = z /\ ~ReceiveStep(x)
  <2>1. sinceReceived'[x] = sinceReceived[x]
    BY <1>3, HeardByReceive
  <2>2. ASSUME NEW t \in Pusher, PushStep(x, t)
        PROVE  /\ expired' = expired
               /\ \/ pc'[x]["supervisor"] = pc[x]["supervisor"]
                  \/ /\ pc[x]["supervisor"] # "off"
                     /\ pc'[x]["supervisor"] \in Pushing \cup {"timeout"}
    BY <2>2 DEF PushStep, PushBuild, PushCheck, PushRecheck, PushTest, PushLock,
                PushConstruct, PushBump, Breaks, EndProcess, At, Goto, Pusher, Pushing,
                Return, supervisorVars
  <2>3. CASE SendStep(x)
    <3>1. expired' = expired /\ pc'[x]["supervisor"] = pc[x]["supervisor"]
      BY <2>3 DEF SendStep, SendLoop, While, SendPeek, SendLock, SendFront, SendSend,
                  SendPop, Breaks, EndProcess, SendStamp, Goto, supervisorVars
    <3> QED BY <1>0, <2>1, <3>1
  <2>4. CASE PushStep(x, "supervisor") \/ PushStep(x, "owner")
    BY <1>0, <2>1, <2>2, <2>4 DEF Pusher, Pushing
  <2>5. CASE SupervisorStep(x) /\ ~PushStep(x, "supervisor")
    BY <1>0, <2>1, <2>5
    DEF SupervisorStep, SupervisorPeriod, SupervisorPatience, SupervisorLoop, While,
        SupervisorDiff, Overdue, SupervisorTimeout, SupervisorSleep, SupervisorWake, Astray,
        At, Running, Goto, supervisorVars
  <2>6. CASE OwnerStep(x) /\ ~PushStep(x, "owner")
    <3>1. expired' = expired /\ pc'[x]["supervisor"] = pc[x]["supervisor"]
      BY <2>6
      DEF OwnerStep, OwnerSupervise, OwnerClose, OwnerStop, OwnerJoinReceive,
          OwnerJoinSend, OwnerJoin, OwnerExit, OwnerBreaks, Breaks, EndProcess, Goto,
          supervisorVars
    <3> QED BY <1>0, <2>1, <3>1
  <2>7. CASE NetworkStep(x)
    BY <1>0, <2>1, <2>7 DEF NetworkStep, supervisorVars
  <2> QED BY <1>3, <2>3, <2>4, <2>5, <2>6, <2>7 DEF ThreadStep
<1> QED BY <1>1, <1>2, <1>3

LEMMA SparedStep ==
    ASSUME Context, BInv, NEW z \in Endpoint, ThreadStep(z) \/ NetworkStep(z),
           NEW x \in Endpoint, Spared(x)
    PROVE  Spared(x)'
<1> SUFFICES ASSUME HealthyPeer(x)'
             PROVE  /\ ~expired'[x]
                    /\ /\ process'[x] = "up" /\ pc'[x]["supervisor"] # "off"
                       /\ shouldContinue'[x] \/ pc'[x]["supervisor"] = "diff"
                       => sinceReceived'[x] < 3 * StartTime
  BY DEF Spared
<1>0. /\ TypeOK /\ AInv /\ Peer[x] \in Endpoint
      /\ StartTime \in Nat /\ StartTime >= 2 /\ MaxLag \in Nat /\ MaxLag < StartTime
      /\ sinceReceived[x] \in Nat /\ sinceReceived'[x] \in Nat
  BY Numbers DEF Context, Swift, Matched
<1>1. Down(x) /\ HealthyPeer(x)
  <2>1. Down(x) /\ Down(Peer[x])
    BY <1>0, StepDown DEF AInv, Wire
  <2>2. /\ fd'[Peer[x]] = "open" => fd[Peer[x]] = "open"
        /\ shouldContinue'[Peer[x]] => shouldContinue[Peer[x]]
    BY <1>0, GivesUpOnce
  <2> QED BY <1>0, <2>1, <2>2 DEF Down, HealthyPeer, Healthy
<1>2. /\ ~expired[x]
      /\ /\ process[x] = "up" /\ pc[x]["supervisor"] # "off"
         /\ shouldContinue[x] \/ pc[x]["supervisor"] = "diff"
         => sinceReceived[x] < 3 * StartTime
  BY <1>1 DEF Spared
<1>3. process[x] = "up" /\ pc[x]["receive"] = "activate" => sinceReceived[x] < 3 * StartTime
  <2>1. process[x] = "up" /\ pc[x]["receive"] = "activate" => sinceReceived[x] <= MaxLag
    BY DEF BInv, Reading
  <2> QED BY <1>0, <2>1
<1>4. pc[x]["supervisor"] = "diff" => timeoutPeriod[x] = 3 * StartTime
  BY <1>0 DEF AInv, Says, Periodic
<1>5. /\ pc'[x]["supervisor"] # "off" =>
             pc[x]["supervisor"] # "off" \/ pc[x]["receive"] = "activate"
      /\ pc'[x]["supervisor"] = "diff" =>
             \/ pc[x]["supervisor"] = "diff"
             \/ pc[x]["supervisor"] = "loop" /\ shouldContinue[x]
      /\ \/ expired'[x] = expired[x]
         \/ /\ process[x] = "up" /\ pc[x]["supervisor"] = "diff"
            /\ expired'[x] = (sinceReceived[x] >= timeoutPeriod[x])
      /\ sinceReceived'[x] <= sinceReceived[x]
  BY <1>0, Judges
<1>6. shouldContinue'[x] => shouldContinue[x]
  BY <1>0, GivesUpOnce
<1>7. ~expired'[x]
  <2>1. process[x] = "up" /\ pc[x]["supervisor"] = "diff" => ~(sinceReceived[x] >= timeoutPeriod[x])
    BY <1>0, <1>2, <1>4
  <2>2. CASE expired'[x] = expired[x]
    BY <1>2, <2>2
  <2>3. CASE expired'[x] # expired[x]
    <3>1. /\ expired'[x] = (sinceReceived[x] >= timeoutPeriod[x])
          /\ ~(sinceReceived[x] >= timeoutPeriod[x])
      BY <1>5, <2>1, <2>3
    <3> QED BY <3>1, Zenon
  <2> QED BY <2>2, <2>3
<1>8. ASSUME process'[x] = "up", pc'[x]["supervisor"] # "off",
             shouldContinue'[x] \/ pc'[x]["supervisor"] = "diff"
      PROVE  sinceReceived'[x] < 3 * StartTime
  <2>1. process[x] = "up"
    BY <1>1, <1>8 DEF Down
  <2> QED BY <1>0, <1>2, <1>3, <1>5, <1>6, <1>8, <2>1
<1> QED BY <1>7, <1>8

\* A heartbeat comes late by a nap of its sender and by two delays, its own and that of the
\* first answer; three periods leave room for that.
Roomy == 2 * MaxLag + StartTime \div 2 <= 2 * StartTime

LEMMA SparedTick ==
    ASSUME Context, Roomy, Ending, PairInv, PromptTick, NEW x \in Endpoint, Kept(x), Spared(x)
    PROVE  Spared(x)'
<1> SUFFICES ASSUME process[x] = "up", HealthyPeer(x)
             PROVE  /\ pc[x]["supervisor"] # "diff"
                    /\ shouldContinue[x] /\ pc[x]["supervisor"] # "off" =>
                           sinceReceived'[x] < 3 * StartTime
  BY DEF Spared, PromptTick, Tick, socketVars, HealthyPeer, Healthy
<1> DEFINE y == Peer[x]
<1>0. Waits(x) /\ ReceiveWaits(x) /\ SupervisorWaits(x) /\ OwnerWaits(x) /\ y \in Endpoint
  BY DEF PromptTick, Waits, Context, Matched
<1>1. pc[x]["supervisor"] # "diff"
  BY <1>0 DEF SupervisorWaits
<1>2. ASSUME shouldContinue[x], pc[x]["supervisor"] # "off"
      PROVE  sinceReceived'[x] < 3 * StartTime
  <2>1. pc[x]["owner"] = "serving"
    BY <1>0, <1>2 DEF OwnerWaits, Ending
  <2>2. fd[x] = "open"
    BY <2>1 DEF Kept
  <2>3. remote[x] = "open"
    BY <1>0 DEF Context, AInv, Wire, Gone, HealthyPeer, Healthy
  <2>4. Both(x) /\ Both(y) /\ Peer[y] = x
    <3>1. Both(x)
      BY <1>2, <2>2, <2>3 DEF Healthy, HealthyPeer, Both
    <3> QED BY <3>1, BothOpen DEF Context
  <2>5. Timed(x) /\ Timed(y) /\ Idle(x) /\ Idle(y) /\ Second(x)
    <3>1. Timed(x) /\ Timed(y) /\ Waits(y)
      BY <1>0, <2>4 DEF PairInv, PromptTick
    <3> QED BY <1>0, <2>4, <3>1, NobodyWaitsInVain, SecondOf
  <2>6. sinceSent[y] <= Gap + MaxLag
    <3>1. CASE x \in Client
      <4>1. Begins(x, y)
        BY <2>4, <3>1 DEF PairInv
      <4>2. Bounded(y)
        BY <1>0, <2>4, <2>5, <3>1, <4>1, FirstOnes
      <4> QED BY <1>2, <2>4, <4>2 DEF Bounded
    <3>2. CASE x \notin Client
      <4>1. y \in Client
        BY <2>4, <3>2 DEF Context, Matched
      <4>2. Begins(y, x)
        BY <2>4, <4>1 DEF PairInv
      <4>3. Bounded(y)
        BY <1>0, <2>4, <2>5, <4>1, <4>2, FirstOnes
      <4> QED BY <1>2, <2>4, <4>3 DEF Bounded
    <3> QED BY <3>1, <3>2
  <2>7. /\ Gap \in Nat /\ StartTime \in Nat /\ MaxLag \in Nat /\ MaxLag < StartTime
        /\ Gap = StartTime + Nap(StartTime) - 1 /\ Nap(StartTime) \in Nat
        /\ Nap(StartTime) < StartTime
        /\ 2 * MaxLag + Nap(StartTime) <= 2 * StartTime
        /\ sinceReceived[x] \in Nat /\ sinceSent[y] \in Nat /\ lag[x] \in Nat
    <3>1. StartTime \in Nat /\ StartTime >= 2
      BY Numbers DEF Context, Swift
    <3>2. Nap(StartTime) < StartTime
      BY <3>1 DEF Nap
    <3>3. 2 * MaxLag + Nap(StartTime) <= 2 * StartTime
      BY DEF Roomy, Nap
    <3> QED BY <1>0, <3>2, <3>3, Numbers
  <2>8. sinceReceived'[x] \in Nat /\ sinceReceived'[x] <= sinceReceived[x] + 1
    <3>1. sinceReceived[x] \in 0..MaxAge
      BY DEF Context, TypeOK, DataTypeOK
    <3> QED BY <2>5, <3>1, OlderByOne DEF Second
  <2> HIDE DEF Gap, Nap, y
  <2>9. CASE Unread(x)
    <3>1. sinceReceived[x] <= Gap + MaxLag + lag[x] /\ lag[x] < MaxLag
      BY <1>2, <2>5, <2>9 DEF Timed, Fresh, Hears, Unread, Idle
    <3> QED BY <2>7, <2>8, <3>1
  <2>10. CASE ~Unread(x)
    <3>1. sinceReceived[x] <= sinceSent[y]
      BY <1>2, <2>5, <2>10 DEF Timed, Fresh, Hears, Idle, y
    <3> QED BY <2>6, <2>7, <2>8, <3>1
  <2> QED BY <2>9, <2>10
<1> QED BY <1>1, <1>2

-----------------------------------------------------------------------------
\* An endpoint whose supervisor is past its first pass is not silent for longer than one
\* period and one nap (OcpConnectionEndpoint.cxx:185-200), however the threads of the two ends
\* interleave: a heartbeat that is due is queued, sent and stamped before the supervisor naps
\* again.
THEOREM SendGapAlways == Steady /\ Matched /\ Swift => (TimedSpec => []SendGap)
<1> SUFFICES ASSUME Steady, Matched, Swift PROVE TimedSpec => []SendGap
  OBVIOUS
<1>1. IInv /\ AInv /\ BInv /\ PairInv => SendGap
  <2> SUFFICES ASSUME IInv, BInv, PairInv, NEW e \in Endpoint, Healthy(e), HealthyPeer(e),
                      pc[e]["supervisor"] = "sleeping", sleepLeft[e] < StartTime \div 2
               PROVE  sinceSent[e] < StartTime + StartTime \div 2
    BY DEF SendGap
  <2>1. Punctual(e)
    BY DEF PairInv, Both, HealthyPeer, Timed
  <2>2. sinceSent[e] \in Nat /\ sleepLeft[e] \in Nat /\ StartTime \in Nat
    BY BoundAssumption, TimeAssumption, UInt16IsNat DEF IInv, LInv, TypeOK, DataTypeOK
  <2>3. StartTime \div 2 \in Nat
    BY <2>2
  <2>4. ~Due(e)
    BY <2>1, <2>2, <2>3 DEF Punctual, Nap
  <2>5. sinceSent[e] + sleepLeft[e] <= StartTime + StartTime \div 2 - 1
    BY <2>1, <2>4 DEF Punctual, Gap, Nap
  <2> QED BY <2>2, <2>3, <2>5
<1> QED BY <1>1, TimedPairInv, PTL

\* A peer that does its part is never declared dead (lines 181-198), for any number of
\* connections and any period and delay that leave room, however its heartbeats fall between
\* the naps of either supervisor.
THEOREM NoFalseTimeoutAlways ==
    Steady /\ Matched /\ Swift /\ Roomy => (TimedSpec => []NoFalseTimeout)
<1> SUFFICES ASSUME Steady, Matched, Swift, Roomy PROVE TimedSpec => []NoFalseTimeout
  OBVIOUS
<1> DEFINE All == IInv /\ AInv /\ BInv /\ PairInv
           Own == Ending /\ SparedInv
<1>1. TimedInit => Own
  BY InitLife, InitSpared DEF TimedInit
<1>2. All /\ All' /\ Own /\ [TimedNext]_timedVars => Own'
  <2> SUFFICES ASSUME All, All', Own, [TimedNext]_timedVars PROVE Own'
    OBVIOUS
  <2>1. Context
    BY DEF IInv, LInv, BInv, Context
  <2>2. Ending'
    <3>1. [Next]_vars
      BY DEF TimedNext, TimedStep, PromptTick, Next, ThreadStep, timedVars
    <3> QED BY <3>1, NextLife DEF IInv
  <2>3. ASSUME NEW z \in Endpoint, TimedStep(ThreadStep(z)) \/ TimedStep(NetworkStep(z))
        PROVE  SparedInv'
    <3>1. TypeOK /\ (ThreadStep(z) \/ NetworkStep(z))
      BY <2>3 DEF TimedStep, IInv, LInv
    <3>2. ASSUME NEW x \in Endpoint PROVE Kept(x)' /\ Spared(x)'
      BY <2>1, <3>1, KeptStep, SparedStep DEF SparedInv
    <3> QED BY <3>2 DEF SparedInv
  <2>4. CASE PromptTick
    <3>1. ASSUME NEW x \in Endpoint PROVE Kept(x)' /\ Spared(x)'
      <4>1. Kept(x)'
        BY <2>4 DEF SparedInv, Kept, PromptTick, Tick, socketVars
      <4> QED BY <2>1, <2>4, <4>1, SparedTick DEF SparedInv
    <3> QED BY <2>2, <3>1 DEF SparedInv
  <2>5. CASE UNCHANGED timedVars
    <3>1. UNCHANGED <<pc, shouldContinue, sinceReceived, expired, fd, remote, process>>
      BY <2>5 DEF timedVars, vars, socketVars, ageVars, supervisorVars
    <3>2. ASSUME NEW x \in Endpoint PROVE Kept(x)' /\ Spared(x)'
      BY <3>1 DEF SparedInv, Kept, Spared, HealthyPeer, Healthy
    <3> QED BY <2>2, <3>2 DEF SparedInv
  <2> QED BY <2>2, <2>3, <2>4, <2>5 DEF TimedNext
<1>3. Own => NoFalseTimeout
  <2> SUFFICES ASSUME SparedInv, NEW e \in Endpoint, expired[e] PROVE ~HealthyPeer(e)
    BY DEF NoFalseTimeout
  <2> QED BY DEF SparedInv, Spared
<1> QED BY <1>1, <1>2, <1>3, TimedPairInv, PTL DEF TimedSpec
=============================================================================
