------------------------- MODULE ConnectionEndpoint -------------------------
(***************************************************************************)
(* oca::ocp::ConnectionEndpoint (src/src/OcpConnectionEndpoint.cxx): one   *)
(* object, up to four threads.  The owner is the thread that constructed   *)
(* it (~Client, ~Server and main of the examples run there), "receive" and *)
(* "send" are started by the constructor, "supervisor" by the first        *)
(* KeepAlive that arrives.  pc[e][t] names the next access thread t makes  *)
(* to the state the threads share; one action is one such access.          *)
(*                                                                         *)
(* Time is what time(NULL) shows, in seconds.  Only differences to the two *)
(* time stamps are ever computed, so the model keeps the ages of the       *)
(* stamps, which stop growing at MaxAge.                                   *)
(*                                                                         *)
(* Some definitions are preceded by a faulty variant, which no definition  *)
(* uses: a mutant, with which the property PROJECT.json names must fail.   *)
(***************************************************************************)
EXTENDS Socket

CONSTANTS
    Client,      \* endpoints owned by an oca::ocp::Client; the rest a Server's
    Destroyed,   \* endpoints whose owner deletes them
    StartTime,   \* what the Client passes to StartSupervision
    MaxAge,      \* bound on the ages of the two time stamps
    MaxQueue     \* bound on the messages waiting in messageQueue

ASSUME OwnerAssumption == Client \subseteq Endpoint /\ Destroyed \subseteq Endpoint
\* A Client connects to what listens (OcpClient.cxx:72): of liboca, a Server.
ASSUME RoleAssumption == \A e \in Client : Peer[e] \notin Client
ASSUME BoundAssumption == MaxAge \in Nat /\ MaxQueue \in Nat

VARIABLES
    pc,              \* where each thread of each endpoint is
    shouldContinue, heartbeatTime,     \* members
    messageQueue,    \* member: the deque, as the heartbeat times it carries
    torn,            \* two pushes to the deque have overlapped
    sinceReceived, sinceSent,          \* now minus lastMessage{Received,Sent}At
    received,        \* receive thread: bytes of its last header or body recv
    sending,         \* send thread: its local Message m
    built,           \* built[e][t]: the Message thread t is queueing
    heartbeatPeriod, timeoutPeriod,    \* supervisor: its local variables
    expired,         \* supervisor: receiveDiff >= timeoutPeriod
    sleepLeft        \* supervisor: seconds it still sleeps

queueVars == <<messageQueue, torn, built>>
ageVars == <<sinceReceived, sinceSent>>
supervisorVars == <<heartbeatPeriod, timeoutPeriod, expired, sleepLeft>>
vars == <<socketVars, pc, shouldContinue, heartbeatTime, queueVars, ageVars,
          received, sending, supervisorVars>>

Thread == {"owner", "receive", "send", "supervisor"}
Pusher == {"owner", "supervisor"}
Label == {"off", "loop", "done",
          "sync", "header", "stamp", "body", "apply", "activate",
          "peek", "lock", "front", "send", "pop",
          "period", "patience", "diff", "timeout", "sleep", "sleeping", "astray",
          "build", "check", "recheck", "construct", "bump",
          "supervise", "serving", "dtor", "joinReceive", "joinSend", "freed"}

MaxUInt16 == 65535
UInt16 == 0..MaxUInt16
ASSUME TimeAssumption == StartTime \in UInt16

\* A message is the heartbeat time it carries.  One value more stands for none, in
\* a local variable, and for what a torn deque may hold.
NoMessage == MaxUInt16 + 1
Message == 0..NoMessage

ControlTypeOK == pc \in [Endpoint -> [Thread -> Label]]

DataTypeOK ==
    /\ shouldContinue \in [Endpoint -> BOOLEAN]
    /\ heartbeatTime \in [Endpoint -> UInt16]
    /\ messageQueue \in [Endpoint -> Seq(UInt16)]
    /\ torn \in [Endpoint -> BOOLEAN]
    /\ sinceReceived \in [Endpoint -> 0..MaxAge]
    /\ sinceSent \in [Endpoint -> 0..MaxAge]
    /\ received \in [Endpoint -> Seq(Byte)]
    /\ sending \in [Endpoint -> Message]
    /\ built \in [Endpoint -> [Pusher -> Message]]
    /\ heartbeatPeriod \in [Endpoint -> UInt16]
    /\ timeoutPeriod \in [Endpoint -> Nat]
    /\ expired \in [Endpoint -> BOOLEAN]
    /\ sleepLeft \in [Endpoint -> UInt16]

\* Every variable has its type (OcpConnectionEndpoint.hxx:43-81), so that no
\* computed heartbeat time, period or sleep leaves the range of its C++ type.
TypeOK == SocketTypeOK /\ ControlTypeOK /\ DataTypeOK

-----------------------------------------------------------------------------
\* The encoding of a heartbeat that carries h, and its decoding.

SyncValue == 59
OcaKeepAlive == 4
High(h) == h \div 256
Low(h) == h % 256
MessageSize == 12
KeepAlive(h) == <<SyncValue, 1, 3, 0, 0, 0, 11, OcaKeepAlive, 0, 1, High(h), Low(h)>>

\* What a torn deque holds are bytes that only a peer outside the model is ever
\* sent: they need no value.
Payload(m) == IF m = NoMessage THEN <<>> ELSE KeepAlive(m)

\* The header buffer was zeroed and recv may have filled less than its 9 bytes.
MessageType(header) == IF Len(header) >= 7 THEN header[7] ELSE 0
HeartbeatUnswapped(body) == body[2] * 256 + body[1]   \* no ntohs
HeartbeatIn(body) == body[1] * 256 + body[2]

\* The two periods of the supervisor and its sleep.
PatienceOfOne(h) == h
Patience(h) == h * 3
NapWhole(h) == h
NapShorter(h) == h \div 2 - 1
Nap(h) == h \div 2
DefaultTime == 2
AskedTime == StartTime

-----------------------------------------------------------------------------
StartSupervised(e, t) ==   \* a supervisor from the start
    CASE t \in {"receive", "send"} -> IF e \in Connected THEN "loop" ELSE "done"
      [] t = "supervisor" -> "period"
      [] t = "owner" -> IF e \in Client THEN "supervise" ELSE "serving"
StartNoThread(e, t) ==     \* no thread to join for a descriptor of 0
    CASE t \in {"receive", "send"} -> IF e \in Connected THEN "loop" ELSE "off"
      [] t = "supervisor" -> "off"
      [] t = "owner" -> IF e \in Client THEN "supervise" ELSE "serving"

\* The constructor: both threads run, unless the wrappers find a descriptor of
\* 0, and the supervisor does not.  The owner of a Client's endpoint goes on to
\* StartSupervision, which a Server never calls.
StartLabel(e, t) ==
    CASE t \in {"receive", "send"} -> IF e \in Connected THEN "loop" ELSE "done"
      [] t = "supervisor" -> "off"
      [] t = "owner" -> IF e \in Client THEN "supervise" ELSE "serving"

Init ==
    /\ SocketInit
    /\ pc = [e \in Endpoint |-> [t \in Thread |-> StartLabel(e, t)]]
    /\ shouldContinue = [e \in Endpoint |-> TRUE]
    /\ heartbeatTime = [e \in Endpoint |-> DefaultTime]
    /\ messageQueue = [e \in Endpoint |-> <<>>]
    /\ torn = [e \in Endpoint |-> FALSE]
    /\ sinceReceived = [e \in Endpoint |-> 0]
    /\ sinceSent = [e \in Endpoint |-> 0]
    /\ received = [e \in Endpoint |-> <<>>]
    /\ sending = [e \in Endpoint |-> NoMessage]
    /\ built = [e \in Endpoint |-> [t \in Pusher |-> NoMessage]]
    /\ heartbeatPeriod = [e \in Endpoint |-> 0]
    /\ timeoutPeriod = [e \in Endpoint |-> 0]
    /\ expired = [e \in Endpoint |-> FALSE]
    /\ sleepLeft = [e \in Endpoint |-> 0]

\* A thread runs while its process does; the supervisor, which nobody joins,
\* has lost its object once the owner has freed it (see Astray).
Running(e, t) ==
    /\ process[e] = "up"
    /\ t = "supervisor" => pc[e]["owner"] # "freed"

At(e, t, label) == Running(e, t) /\ pc[e][t] = label
Goto(e, t, label) == pc' = [pc EXCEPT ![e][t] = label]

\* "while (shouldContinue)": every loop reads the flag again.
While(e, t, body) ==
    /\ At(e, t, "loop")
    /\ Goto(e, t, IF shouldContinue[e] THEN body ELSE "done")
    /\ UNCHANGED <<socketVars, shouldContinue, heartbeatTime, queueVars, ageVars,
                   received, sending, supervisorVars>>

-----------------------------------------------------------------------------
\* receiveLoop and processKeepAlive

ReceiveLoop(e) == While(e, "receive", "sync")

AfterSyncSearching(byte) == IF byte = SyncValue THEN "header" ELSE "loop"
AfterSync(byte) == IF byte = SyncValue THEN "header" ELSE "done"

\* One byte.  An end, an error and a byte that is not 0x3B all return.
ReceiveSync(e) ==
    /\ At(e, "receive", "sync")
    /\ \/ /\ RecvBytes(e, 1)
          /\ Goto(e, "receive", AfterSync(stream[e][1]))
       \/ (RecvEnd(e) \/ RecvError(e)) /\ Goto(e, "receive", "done")
    /\ UNCHANGED <<shouldContinue, heartbeatTime, queueVars, ageVars,
                   received, sending, supervisorVars>>

\* Up to 9 bytes.  Only a result of 0 returns: after an error the zeroed buffer
\* is parsed, and after a short read what there is of the header.
HeaderSizeOfTen == 10
HeaderSize == 9
ReceiveHeader(e) ==
    /\ At(e, "receive", "header")
    /\ \/ \E k \in ReadSizes(HeaderSize, Len(stream[e])) :
             /\ RecvBytes(e, k)
             /\ received' = [received EXCEPT ![e] = Prefix(e, k)]
             /\ Goto(e, "receive", "stamp")
       \/ RecvEnd(e) /\ Goto(e, "receive", "done") /\ UNCHANGED received
       \/ RecvError(e) /\ Goto(e, "receive", "stamp") /\ UNCHANGED received
    /\ UNCHANGED <<shouldContinue, heartbeatTime, queueVars, ageVars,
                   sending, supervisorVars>>

\* lastMessageReceivedAt = time(NULL), then the switch on the message type:
\* only a KeepAlive has its body read, any other body stays in the stream.
ReceiveStamp(e) ==
    /\ At(e, "receive", "stamp")
    /\ sinceReceived' = [sinceReceived EXCEPT ![e] = 0]
    /\ received' = [received EXCEPT ![e] = <<>>]
    /\ Goto(e, "receive",
            IF MessageType(received[e]) = OcaKeepAlive THEN "body" ELSE "loop")
    /\ UNCHANGED <<socketVars, shouldContinue, heartbeatTime, queueVars, sinceSent,
                   sending, supervisorVars>>

\* Two bytes; anything less is dropped and the loop goes on.
BodySize == 2
ReceiveBody(e) ==
    /\ At(e, "receive", "body")
    /\ \/ \E k \in ReadSizes(BodySize, Len(stream[e])) :
             /\ RecvBytes(e, k)
             /\ IF k = BodySize
                THEN /\ received' = [received EXCEPT ![e] = Prefix(e, k)]
                     /\ Goto(e, "receive", "apply")
                ELSE Goto(e, "receive", "loop") /\ UNCHANGED received
       \/ (RecvEnd(e) \/ RecvError(e)) /\ Goto(e, "receive", "loop") /\ UNCHANGED received
    /\ UNCHANGED <<shouldContinue, heartbeatTime, queueVars, ageVars,
                   sending, supervisorVars>>

ReceiveApply(e) ==
    /\ At(e, "receive", "apply")
    /\ heartbeatTime' = [heartbeatTime EXCEPT ![e] = HeartbeatIn(received[e])]
    /\ received' = [received EXCEPT ![e] = <<>>]
    /\ Goto(e, "receive", IF pc[e]["supervisor"] = "off" THEN "activate" ELSE "loop")
    /\ UNCHANGED <<socketVars, shouldContinue, queueVars, ageVars,
                   sending, supervisorVars>>

\* supervisorActivated = true and pthread_create; only this thread does it.
ReceiveActivate(e) ==
    /\ At(e, "receive", "activate")
    /\ pc' = [pc EXCEPT ![e]["receive"] = "loop", ![e]["supervisor"] = "period"]
    /\ UNCHANGED <<socketVars, shouldContinue, heartbeatTime, queueVars, ageVars,
                   received, sending, supervisorVars>>

ReceiveStep(e) ==
    \/ ReceiveLoop(e) \/ ReceiveSync(e) \/ ReceiveHeader(e) \/ ReceiveStamp(e)
    \/ ReceiveBody(e) \/ ReceiveApply(e) \/ ReceiveActivate(e)

-----------------------------------------------------------------------------
\* sendLoop

SendLoop(e) == While(e, "send", "peek")

\* messageQueue is a std::deque, and nobody locks push_back or pop_front: two words
\* say where it begins and where it ends.  One thread pops and moves the beginning;
\* one thread at a time may push and move the end.  From when a thread enters
\* push_back while another is in it, both go by one end: a message may be lost or
\* overwritten after it was copied, an element may be counted that nobody
\* constructed, and with an end stored too late the deque may end before it begins.
\* It is torn then: it may look empty or not, its elements are unknown (and not kept
\* in the model), and an access to it may end the process.
Breaks(e) == torn[e] /\ EndProcess(e, "killed")

AfterPeekSpinning(q) == IF q = <<>> THEN "peek" ELSE "lock"

\* The first look at the queue, without the mutex.
AfterPeek(q) == IF q = <<>> THEN "loop" ELSE "lock"
SendPeek(e) ==
    /\ At(e, "send", "peek")
    /\ \/ Goto(e, "send", AfterPeek(messageQueue[e]))
       \/ torn[e] /\ Goto(e, "send", "lock")
    /\ UNCHANGED <<socketVars, shouldContinue, heartbeatTime, queueVars, ageVars,
                   received, sending, supervisorVars>>

\* The mutex is held by the send thread while it is at "front".  Nobody else
\* keeps it: ScopedLock(&this->mutex) in queueMessageForSend, and again before
\* pop_front, is a temporary that unlocks at the end of its own statement.
Locked(e) == pc[e]["send"] = "front"

SendLock(e) ==
    /\ At(e, "send", "lock")
    /\ Goto(e, "send", "front")
    /\ UNCHANGED <<socketVars, shouldContinue, heartbeatTime, queueVars, ageVars,
                   received, sending, supervisorVars>>

\* m = front(), if there is one.  What is copied from a torn deque may be a message
\* with no buffer, which sends the loop round, or any bytes.
SendFront(e) ==
    /\ At(e, "send", "front")
    /\ \/ /\ messageQueue[e] = <<>>
          /\ Goto(e, "send", "loop")
          /\ UNCHANGED <<socketVars, sending>>
       \/ /\ messageQueue[e] # <<>>
          /\ sending' = [sending EXCEPT ![e] = Head(messageQueue[e])]
          /\ Goto(e, "send", "send")
          /\ UNCHANGED socketVars
       \/ torn[e] /\ Goto(e, "send", "send") /\ UNCHANGED <<socketVars, sending>>
       \/ Breaks(e) /\ UNCHANGED <<pc, sending>>
    /\ UNCHANGED <<shouldContinue, heartbeatTime, queueVars, ageVars,
                   received, supervisorVars>>

\* send(2); its result only decides whether a line is printed.
SendSend(e) ==
    /\ At(e, "send", "send")
    /\ \/ /\ \/ SendDelivers(e, Payload(sending[e]))
             \/ SendIsLost(e)
             \/ SendError(e, pc[e]["receive"] # "done")
          /\ Goto(e, "send", "pop")
       \/ SendRaisesSigpipe(e) /\ UNCHANGED pc
    /\ UNCHANGED <<shouldContinue, heartbeatTime, queueVars, ageVars,
                   received, sending, supervisorVars>>

PopNothing(q) == q

\* pop_front, with no mutex held.
PopFront(q) == SubSeq(q, 2, Len(q))
SendPop(e) ==
    /\ At(e, "send", "pop")
    /\ \/ /\ messageQueue' = [messageQueue EXCEPT ![e] = PopFront(@)]
          /\ Goto(e, "send", "stamp")
          /\ UNCHANGED socketVars
       \/ Breaks(e) /\ UNCHANGED <<pc, messageQueue>>
    /\ UNCHANGED <<shouldContinue, heartbeatTime, torn, built, ageVars,
                   received, sending, supervisorVars>>

\* lastMessageSentAt = time(NULL), also when the send failed; m is destroyed.
SendStamp(e) ==
    /\ At(e, "send", "stamp")
    /\ sinceSent' = [sinceSent EXCEPT ![e] = 0]
    /\ sending' = [sending EXCEPT ![e] = NoMessage]
    /\ Goto(e, "send", "loop")
    /\ UNCHANGED <<socketVars, shouldContinue, heartbeatTime, queueVars, sinceReceived,
                   received, supervisorVars>>

SendStep(e) ==
    \/ SendLoop(e) \/ SendPeek(e) \/ SendLock(e) \/ SendFront(e)
    \/ SendSend(e) \/ SendPop(e) \/ SendStamp(e)

-----------------------------------------------------------------------------
\* sendHeartbeat and queueMessageForSend, called by the supervisor and, through
\* StartSupervision, by the owner.

\* Where a thread goes on when sendHeartbeat returns.
Return(t) == IF t = "owner" THEN "serving" ELSE "timeout"

PushBuild(e, t) ==
    /\ At(e, t, "build")
    /\ built' = [built EXCEPT ![e][t] = heartbeatTime[e]]
    /\ Goto(e, t, "check")
    /\ UNCHANGED <<socketVars, shouldContinue, heartbeatTime, messageQueue, torn, ageVars,
                   received, sending, supervisorVars>>

\* The two tests of shouldContinue; a message that fails one is destroyed.
PushTest(e, t, from, to) ==
    /\ At(e, t, from)
    /\ Goto(e, t, IF shouldContinue[e] THEN to ELSE Return(t))
    /\ built' = [built EXCEPT ![e][t] = IF shouldContinue[e] THEN @ ELSE NoMessage]
    /\ UNCHANGED <<socketVars, shouldContinue, heartbeatTime, messageQueue, torn, ageVars,
                   received, sending, supervisorVars>>

PushCheck(e, t) == PushTest(e, t, "check", "lock")
PushRecheck(e, t) == PushTest(e, t, "recheck", "construct")

\* The temporary ScopedLock: waits for the mutex, and gives it back at once.
PushLock(e, t) ==
    /\ At(e, t, "lock")
    /\ ~Locked(e)
    /\ Goto(e, t, "recheck")
    /\ UNCHANGED <<socketVars, shouldContinue, heartbeatTime, queueVars, ageVars,
                   received, sending, supervisorVars>>

\* push_back begins: the thread finds the end of the deque and constructs its
\* element there.  Another thread that is still in push_back has found the same end.
PushConstruct(e, t) ==
    /\ At(e, t, "construct")
    /\ Len(messageQueue[e]) < MaxQueue
    /\ IF \E u \in Pusher \ {t} : At(e, u, "bump")
       THEN /\ torn' = [torn EXCEPT ![e] = TRUE]
            /\ messageQueue' = [messageQueue EXCEPT ![e] = <<>>]
       ELSE UNCHANGED <<torn, messageQueue>>
    /\ Goto(e, t, "bump")
    /\ UNCHANGED <<socketVars, shouldContinue, heartbeatTime, built, ageVars,
                   received, sending, supervisorVars>>

EnqueuedInFront(q, x) == <<x>> \o q

\* push_back ends: the end of the deque is moved past the element, which only now
\* the send thread can see.
Enqueued(q, x) == Append(q, x)
PushBump(e, t) ==
    /\ At(e, t, "bump")
    /\ \/ /\ messageQueue' = [messageQueue EXCEPT ![e] =
                                IF torn[e] THEN @ ELSE Enqueued(@, built[e][t])]
          /\ built' = [built EXCEPT ![e][t] = NoMessage]
          /\ Goto(e, t, Return(t))
          /\ UNCHANGED socketVars
       \/ Breaks(e) /\ UNCHANGED <<pc, messageQueue, built>>
    /\ UNCHANGED <<shouldContinue, heartbeatTime, torn, ageVars,
                   received, sending, supervisorVars>>

PushStep(e, t) ==
    \/ PushBuild(e, t) \/ PushCheck(e, t) \/ PushLock(e, t)
    \/ PushRecheck(e, t) \/ PushConstruct(e, t) \/ PushBump(e, t)

-----------------------------------------------------------------------------
\* supervisorLoop

\* Both periods are computed once, from two reads of heartbeatTime.
SupervisorPeriod(e) ==
    /\ At(e, "supervisor", "period")
    /\ heartbeatPeriod' = [heartbeatPeriod EXCEPT ![e] = heartbeatTime[e]]
    /\ Goto(e, "supervisor", "patience")
    /\ UNCHANGED <<socketVars, shouldContinue, heartbeatTime, queueVars, ageVars,
                   received, sending, timeoutPeriod, expired, sleepLeft>>

SupervisorPatience(e) ==
    /\ At(e, "supervisor", "patience")
    /\ timeoutPeriod' = [timeoutPeriod EXCEPT ![e] = Patience(heartbeatTime[e])]
    /\ Goto(e, "supervisor", "loop")
    /\ UNCHANGED <<socketVars, shouldContinue, heartbeatTime, queueVars, ageVars,
                   received, sending, heartbeatPeriod, expired, sleepLeft>>

SupervisorLoop(e) == While(e, "supervisor", "diff")

\* now, receiveDiff and sendDiff.  The verdict on the peer is passed here and
\* acted on in SupervisorTimeout, after the heartbeat.
OverdueLater(age, period) == age > period
Overdue(age, period) == age >= period
SupervisorDiff(e) ==
    /\ At(e, "supervisor", "diff")
    /\ expired' = [expired EXCEPT ![e] = Overdue(sinceReceived[e], timeoutPeriod[e])]
    /\ Goto(e, "supervisor",
            IF Overdue(sinceSent[e], heartbeatPeriod[e]) THEN "build" ELSE "timeout")
    /\ UNCHANGED <<socketVars, shouldContinue, heartbeatTime, queueVars, ageVars,
                   received, sending, heartbeatPeriod, timeoutPeriod, sleepLeft>>

GoesOnRegardless(continue, late) == continue
GoesOn(continue, late) == continue /\ ~late
SupervisorTimeout(e) ==
    /\ At(e, "supervisor", "timeout")
    /\ shouldContinue' = [shouldContinue EXCEPT ![e] = GoesOn(@, expired[e])]
    /\ Goto(e, "supervisor", "sleep")
    /\ UNCHANGED <<socketVars, heartbeatTime, queueVars, ageVars,
                   received, sending, supervisorVars>>

\* sleep(heartbeatTime / 2), with the heartbeatTime of now.
SupervisorSleep(e) ==
    /\ At(e, "supervisor", "sleep")
    /\ sleepLeft' = [sleepLeft EXCEPT ![e] = Nap(heartbeatTime[e])]
    /\ Goto(e, "supervisor", "sleeping")
    /\ UNCHANGED <<socketVars, shouldContinue, heartbeatTime, queueVars, ageVars,
                   received, sending, heartbeatPeriod, timeoutPeriod, expired>>

SupervisorWake(e) ==
    /\ At(e, "supervisor", "sleeping")
    /\ sleepLeft[e] = 0
    /\ Goto(e, "supervisor", "loop")
    /\ UNCHANGED <<socketVars, shouldContinue, heartbeatTime, queueVars, ageVars,
                   received, sending, supervisorVars>>

\* The destructor does not join the supervisor: its next access to the object
\* after the owner has freed it is undefined.
Astray(e) ==
    /\ process[e] = "up" /\ pc[e]["owner"] = "freed"
    /\ pc[e]["supervisor"] \notin {"off", "done", "astray"}
    /\ pc[e]["supervisor"] = "sleeping" => sleepLeft[e] = 0
    /\ Goto(e, "supervisor", "astray")
    /\ UNCHANGED <<socketVars, shouldContinue, heartbeatTime, queueVars, ageVars,
                   received, sending, supervisorVars>>

SupervisorStep(e) ==
    \/ SupervisorPeriod(e) \/ SupervisorPatience(e) \/ SupervisorLoop(e)
    \/ SupervisorDiff(e) \/ SupervisorTimeout(e) \/ SupervisorSleep(e)
    \/ SupervisorWake(e) \/ Astray(e) \/ PushStep(e, "supervisor")

-----------------------------------------------------------------------------
\* The owner: StartSupervision, ~Client, ~ConnectionEndpoint, return from main.

OwnerSupervise(e) ==
    /\ At(e, "owner", "supervise")
    /\ heartbeatTime' = [heartbeatTime EXCEPT ![e] = AskedTime]
    /\ Goto(e, "owner", "build")
    /\ UNCHANGED <<socketVars, shouldContinue, queueVars, ageVars,
                   received, sending, supervisorVars>>

\* ~Client closes the descriptor before its member, the endpoint, is destroyed;
\* a Server's endpoint is destroyed with its descriptor open.
OwnerClose(e) ==
    /\ At(e, "owner", "serving") /\ e \in Destroyed
    /\ IF e \in Client
       THEN Close(e, pc[e]["receive"] \in {"sync", "header", "body"})
       ELSE UNCHANGED socketVars
    /\ Goto(e, "owner", "dtor")
    /\ UNCHANGED <<shouldContinue, heartbeatTime, queueVars, ageVars,
                   received, sending, supervisorVars>>

OwnerForgetsToStop(e) ==
    /\ At(e, "owner", "dtor")
    /\ Goto(e, "owner", "joinReceive")
    /\ UNCHANGED <<socketVars, shouldContinue, heartbeatTime, queueVars, ageVars,
                   received, sending, supervisorVars>>
OwnerStop(e) ==
    /\ At(e, "owner", "dtor")
    /\ shouldContinue' = [shouldContinue EXCEPT ![e] = FALSE]
    /\ Goto(e, "owner", "joinReceive")
    /\ UNCHANGED <<socketVars, heartbeatTime, queueVars, ageVars,
                   received, sending, supervisorVars>>

OwnerJoin(e, from, t, to) ==
    /\ At(e, "owner", from)
    /\ pc[e][t] = "done"
    /\ Goto(e, "owner", to)
    /\ UNCHANGED <<socketVars, shouldContinue, heartbeatTime, queueVars, ageVars,
                   received, sending, supervisorVars>>

OwnerJoinReceive(e) == OwnerJoin(e, "joinReceive", "receive", "joinSend")
OwnerJoinSend(e) == OwnerJoin(e, "joinSend", "send", "freed")

\* The deque is destroyed with the object, and its elements with it.
OwnerBreaks(e) ==
    /\ At(e, "owner", "joinSend") /\ pc[e]["send"] = "done"
    /\ Breaks(e)
    /\ UNCHANGED <<pc, shouldContinue, heartbeatTime, queueVars, ageVars,
                   received, sending, supervisorVars>>

\* main returns once the object is gone.
OwnerExit(e) ==
    /\ At(e, "owner", "freed")
    /\ EndProcess(e, "exited")
    /\ UNCHANGED <<pc, shouldContinue, heartbeatTime, queueVars, ageVars,
                   received, sending, supervisorVars>>

OwnerStep(e) ==
    \/ OwnerSupervise(e) \/ PushStep(e, "owner") \/ OwnerClose(e)
    \/ OwnerStop(e) \/ OwnerJoinReceive(e) \/ OwnerJoinSend(e) \/ OwnerBreaks(e)
    \/ OwnerExit(e)

-----------------------------------------------------------------------------
\* One second passes.
Older(age) == AtMost(age + 1, MaxAge)
Tick ==
    /\ sinceReceived' = [e \in Endpoint |-> Older(sinceReceived[e])]
    /\ sinceSent' = [e \in Endpoint |-> Older(sinceSent[e])]
    /\ sleepLeft' = [e \in Endpoint |-> IF sleepLeft[e] > 0 THEN sleepLeft[e] - 1 ELSE 0]
    /\ UNCHANGED <<socketVars, pc, shouldContinue, heartbeatTime, queueVars,
                   received, sending, heartbeatPeriod, timeoutPeriod, expired>>

NetworkStep(e) ==
    /\ Release(e) \/ PeerCloses(e)
    /\ UNCHANGED <<pc, shouldContinue, heartbeatTime, queueVars, ageVars,
                   received, sending, supervisorVars>>

ThreadStep(e) == ReceiveStep(e) \/ SendStep(e) \/ SupervisorStep(e) \/ OwnerStep(e)

Next == (\E e \in Endpoint : ThreadStep(e) \/ NetworkStep(e)) \/ Tick

Spec == Init /\ [][Next]_vars

-----------------------------------------------------------------------------
\* The endpoint as its owner sees it.
Phase(e) == CASE pc[e]["owner"] \in {"joinReceive", "joinSend"} -> "ending"
              [] pc[e]["owner"] = "freed" -> "freed"
              [] OTHER -> "live"

Life(e) == INSTANCE Lifecycle WITH
    flag <- shouldContinue[e],
    receiving <- pc[e]["receive"] # "done",
    sending <- pc[e]["send"] # "done",
    object <- Phase(e)

\* Whatever the peer sends and however the threads of an endpoint, its un-joined
\* supervisor included, meet its destructor (OcpConnectionEndpoint.cxx:307-313), each
\* endpoint lives as Lifecycle says.  This is \A e \in Endpoint : Life(e)!Spec, in the
\* form TLC checks.
ImplementsLifecycle ==
    /\ \A e \in Endpoint : Life(e)!Init
    /\ [][\A e \in Endpoint : [Life(e)!Next]_<<Life(e)!vars>>]_vars

\* The send loop copies the front of the deque, sends the copy and pops the front
\* in three separate steps, two of them without the mutex (OcpConnectionEndpoint.cxx
\* 271-291).  Unless two pushes have overlapped, what it pops is what it sent.
SendsFront ==
    \A e \in Endpoint : ~torn[e] /\ pc[e]["send"] \in {"send", "pop"} =>
        /\ messageQueue[e] # <<>>
        /\ Head(messageQueue[e]) = sending[e]

\* What the receive thread hands on to line 147 is the two bytes of a body, and
\* what the send thread hands to send(2) is, unless the deque is torn, a message.
BodyRead ==
    \A e \in Endpoint : pc[e]["receive"] = "apply" => Len(received[e]) = BodySize
MessageTaken ==
    \A e \in Endpoint : ~torn[e] /\ pc[e]["send"] = "send" => sending[e] # NoMessage

\* Where in a script a sync byte and the KeepAlive type stand as in a header, the
\* times such messages carry, and those an endpoint may have been told, or start with.
Heartbeats(s) == {p \in DOMAIN s :
    s[p] = SyncValue /\ p + 7 <= Len(s) /\ s[p + 7] = OcaKeepAlive}
AnnouncedTimes == {h \in UInt16 :
    \E s \in Script : \E p \in Heartbeats(s) :
        p + 11 <= Len(s) /\ h = HeartbeatIn(<<s[p + 10], s[p + 11]>>)}
Meant(e) ==
    {DefaultTime} \cup AnnouncedTimes \cup (IF e \in Client THEN {AskedTime} ELSE {})

\* The receive thread is about to return, and nothing that arrives can stop it.
Doomed(e) ==
    \/ pc[e]["receive"] = "done"
    \/ /\ pc[e]["receive"] \in {"activate", "loop", "sync"}
       /\ stream[e] # <<>>
       /\ Head(stream[e]) # SyncValue

\* recv may return part of a header (OcpConnectionEndpoint.cxx:106-118) or of a body
\* (144-145), and the loop then goes on in the middle of a message.  A heartbeat time
\* that nobody announced may be applied (147), but then it is the last one: the next
\* byte is no sync byte and the receive thread returns (98-102).
MisreadIsFinal ==
    \A e \in Endpoint :
        Peer[e] \notin Endpoint /\ heartbeatTime[e] \notin Meant(e) => Doomed(e)

\* The owner is in StartSupervision, or has yet to call it.
BeforeServing == {"supervise", "build", "check", "lock", "recheck",
                  "construct", "bump"}

\* queueMessageForSend (lines 231-243) pushes without the mutex.  What protects
\* the deque between two liboca endpoints is the protocol: the owner's one
\* message has left before the heartbeat arrives that starts the supervisor.
OnePusher ==
    \A e \in Endpoint : pc[e]["supervisor"] # "off" =>
        pc[e]["owner"] \notin BeforeServing

\* OcpConnectionEndpoint.cxx:284-287 takes a send that does not succeed for
\* something to report ("Didn't send whole buffer") before the loop goes on.
SendFailureIsReported == \A e \in Endpoint : process[e] # "killed"
=============================================================================
