------------------------------ MODULE KeepAlive ------------------------------
(***************************************************************************)
(* The keep-alive protocol of two liboca endpoints, in time.               *)
(*                                                                         *)
(* ConnectionEndpoint lets a second pass between any two steps; here the   *)
(* threads are prompt: a second passes only when every thread waits for    *)
(* something (a byte, its sleep, another thread, an empty queue).  The     *)
(* network may sit on a message for up to MaxLag seconds, and the news     *)
(* that the other side has gone may never come (a host that is cut off).   *)
(***************************************************************************)
EXTENDS ConnectionEndpoint

CONSTANT MaxLag   \* seconds that bytes may take to arrive

ASSUME LagAssumption == MaxLag \in Nat

VARIABLE lag      \* lag[e]: seconds for which e has had bytes to receive

timedVars == <<vars, lag>>

TimedInit == Init /\ lag = [e \in Endpoint |-> 0]

\* The receive thread waits: for bytes, or for bytes the network still holds.
Receiving == {"sync", "header", "body"}
ReceiveWaits(e) ==
    \/ pc[e]["receive"] = "done"
    \/ /\ pc[e]["receive"] \in Receiving
       /\ fd[e] # "closed"
       /\ IF stream[e] = <<>> THEN remote[e] = "open" ELSE lag[e] < MaxLag

\* The send thread spins on an empty queue, or the peer's buffer is full.
SendWaits(e) ==
    \/ pc[e]["send"] = "done"
    \/ pc[e]["send"] \in {"loop", "peek"} /\ messageQueue[e] = <<>> /\ shouldContinue[e]
    \/ pc[e]["send"] = "send" /\ SendBlocks(e, MessageSize)

SupervisorWaits(e) ==
    \/ pc[e]["supervisor"] \in {"off", "done", "astray"}
    \/ pc[e]["supervisor"] = "sleeping" /\ sleepLeft[e] > 0

\* What the user of the library waits for is the user's business; a join waits
\* for its thread.
OwnerWaits(e) ==
    \/ pc[e]["owner"] \in {"serving", "freed"}
    \/ pc[e]["owner"] = "joinReceive" /\ pc[e]["receive"] # "done"
    \/ pc[e]["owner"] = "joinSend" /\ pc[e]["send"] # "done"

Waits(e) ==
    process[e] = "up" =>
        ReceiveWaits(e) /\ SendWaits(e) /\ SupervisorWaits(e) /\ OwnerWaits(e)

PromptTick ==
    /\ \A e \in Endpoint : Waits(e)
    /\ Tick
    /\ lag' = [e \in Endpoint |-> IF stream[e] = <<>> THEN 0 ELSE AtMost(lag[e] + 1, MaxLag)]

TimedStep(A) ==
    /\ A
    /\ lag' = [e \in Endpoint |-> IF stream'[e] = <<>> THEN 0 ELSE lag[e]]

TimedNext ==
    \/ \E e \in Endpoint : TimedStep(ThreadStep(e)) \/ TimedStep(NetworkStep(e))
    \/ PromptTick

TimedSpec == TimedInit /\ [][TimedNext]_timedVars

\* Every thread that can run does, and the clock does not stop.  Nothing is
\* assumed of the user (OwnerClose, OwnerExit) or of the news of a lost peer.
Fairness ==
    /\ WF_timedVars(PromptTick)
    /\ \A e \in Endpoint :
          /\ WF_timedVars(TimedStep(ReceiveStep(e)))
          /\ WF_timedVars(TimedStep(SendStep(e)))
          /\ WF_timedVars(TimedStep(SupervisorStep(e)))
          /\ WF_timedVars(TimedStep(OwnerSupervise(e) \/ PushStep(e, "owner") \/ OwnerStop(e)
                                    \/ OwnerJoinReceive(e) \/ OwnerJoinSend(e)))

FairSpec == TimedSpec /\ Fairness

-----------------------------------------------------------------------------
\* An endpoint does its part of the protocol.
Healthy(e) ==
    /\ process[e] = "up" /\ fd[e] = "open" /\ remote[e] = "open"
    /\ shouldContinue[e]

Supervised(e) ==
    /\ process[e] = "up"
    /\ pc[e]["supervisor"] \notin {"off", "period", "patience", "done", "astray"}

HealthyPeer(e) == Peer[e] \in Endpoint /\ Healthy(Peer[e])

\* A peer that does its part is never declared dead (OcpConnectionEndpoint.cxx
\* 181-198), however its heartbeats fall between the naps of this supervisor and
\* however late, within MaxLag, they arrive.
NoFalseTimeout == \A e \in Endpoint : expired[e] => ~HealthyPeer(e)

\* Silence is noticed in time: a supervisor that still goes on has heard from
\* its peer less than three heartbeat periods and one nap ago (lines 176-200).
DetectionBound ==
    \A e \in Endpoint :
        shouldContinue[e] /\ Supervised(e) =>
            sinceReceived[e] < 3 * StartTime + StartTime \div 2

\* As long as the object is there, its supervisor has ended by itself three periods and
\* two naps after the last message (lines 179-203).  So a destructor that frees it later
\* than that (307-313, which does not join the supervisor) leaves no thread that uses
\* it.  Of one that frees it sooner nothing is claimed: a supervisor that then wakes
\* reads what the memory holds, and may go on for ever.
SupervisorEnds ==
    \A e \in Endpoint :
        /\ process[e] = "up" /\ pc[e]["owner"] # "freed"
        /\ pc[e]["supervisor"] \notin {"off", "done"}
        => sinceReceived[e] < 3 * StartTime + 2 * (StartTime \div 2)

\* An endpoint whose supervisor is through its first pass is never silent for
\* longer than one heartbeat period and one nap (lines 185-200).  Before that it
\* may be: a Client sends no second heartbeat until it has received one.
SendGap ==
    \A e \in Endpoint :
        /\ Healthy(e) /\ HealthyPeer(e)
        /\ pc[e]["supervisor"] = "sleeping" /\ sleepLeft[e] < StartTime \div 2
        => sinceSent[e] < StartTime + StartTime \div 2

\* Both ends supervise with the period the Client asked for, although both were
\* constructed with one of their own (line 47), each takes over what the other
\* announces (line 147) and the periods are computed only once (176-177).
Agreement ==
    \A e \in Endpoint : Supervised(e) =>
        heartbeatPeriod[e] = StartTime /\ timeoutPeriod[e] = 3 * StartTime

\* Both ends end up supervising each other (lines 147-153 of either endpoint, set
\* off by the Client's StartSupervision), unless one of them is destroyed before.
BothSupervised ==
    \A e \in Endpoint :
        <>(Supervised(e) \/ \E p \in Destroyed : pc[p]["owner"] = "dtor")

\* The destructor (lines 307-313) joins a thread that may be blocked in recv.  It
\* returns if there is no connection, if the peer is known to have closed it, or
\* if the peer supervises it, so that its next heartbeat wakes that thread.
DestroyReturns ==
    \A e \in Endpoint :
        /\ pc[e]["owner"] = "dtor"
        /\ \/ e \notin Connected
           \/ remote[e] # "open"
           \/ HealthyPeer(e) /\ Supervised(Peer[e])
        ~> pc[e]["owner"] = "freed" \/ process[e] # "up"

\* A supervised endpoint whose peer has fallen silent, whatever it sent before and
\* even when no news of the loss ever arrives, and any endpoint whose flag fell, is
\* "terminating" (lines 193-198): the send thread and the supervisor end, and so does
\* the receive thread (lines 85-114) unless it stays in recv for good, on a
\* connection that is open and silent.  The peer reads what it is sent, and of a
\* supervisor whose object has been freed nothing is claimed.
Deaf(e) ==
    /\ pc[e]["receive"] \in Receiving
    /\ stream[e] = <<>> /\ fd[e] # "closed" /\ remote[e] = "open"
WindsDown ==
    \A e \in Endpoint :
        \/ ~shouldContinue[e]
        \/ Supervised(e) /\ (Peer[e] \in Endpoint => process[Peer[e]] # "up")
        ~>  \/ process[e] # "up"
            \/ /\ pc[e]["send"] = "done"
               /\ pc[e]["supervisor"] \in {"off", "done", "astray"}
               /\ pc[e]["receive"] = "done" \/ []Deaf(e)
=============================================================================
