--------------------------- MODULE WorkQueue_proofs ---------------------------
(***************************************************************************)
(* Proofs about WorkQueue, for any number of callers, workers and          *)
(* functions.                                                              *)
(***************************************************************************)
EXTENDS WorkQueue, TLAPS, SequenceTheorems

-----------------------------------------------------------------------------
\* The inductive invariant.  Its first part holds however often the queue is
\* started: who can be where, and what a worker is about to run.

StartLabel == {"startLock", "startRecheck", "startCreate", "startMark"}
StopLabel == {"stopLock", "stopClear", "stopJoin"}

Roles ==
    /\ \A c \in Caller : pc[c] \in CallerLabel
    /\ \A c \in Caller : c # Owner => pc[c] \in {"idle", "queueLock", "queuePush"}
    /\ \A w \in Worker : pc[w] \in WorkerLabel

Callable == \A w \in Worker : pc[w] = "run" => item[w] \in Work

TInv == TypeOK /\ Roles /\ Callable

\* The second part is about a queue that is started at most once.

\* Whoever is inside a critical section holds the mutex.
Guarded == {"startRecheck", "startCreate", "startMark", "stopClear", "queuePush",
            "front", "pop"}
Mutual == \A t \in Thread : pc[t] \in Guarded => mutex = t

\* Start has created one worker, or none yet.
OneWorker ==
    /\ \A w \in Worker : pc[w] # "none" => w = worker
    /\ starts = 0 => worker = None
    /\ pc[Owner] \in StartLabel \ {"startMark"} => worker = None

\* The flag falls in Stop and stays down.
Flag ==
    /\ starts = 0 => pc[Owner] \notin StartLabel \cup StopLabel
    /\ starts = 0 \/ pc[Owner] \in StartLabel => shouldContinueRunning
    /\ pc[Owner] = "stopJoin" => ~shouldContinueRunning

\* Stop has returned: its worker has ended.
Closed ==
    joined # {} =>
        /\ ~shouldContinueRunning
        /\ joined = {worker}
        /\ \A w \in Worker : pc[w] \in {"none", "ended"}

\* What the worker runs and pops is the front of the deque.
Carried ==
    \A w \in Worker : pc[w] \in {"run", "popLock", "pop"} =>
        deque # <<>> /\ item[w] = Head(deque)

Once == MaxStarts <= 1

IInv == TInv /\ Once /\ Mutual /\ OneWorker /\ Flag /\ Closed /\ Carried

-----------------------------------------------------------------------------
\* Types and roles: every step of every thread keeps them.

LEMMA InitTInv == Init => TInv
<1> SUFFICES ASSUME Init PROVE TInv
  OBVIOUS
<1>1. \A c \in Caller : pc[c] = "idle"
  BY DEF Init, Thread
<1>2. \A w \in Worker : pc[w] = "none"
  BY ThreadAssumption DEF Init, Thread
<1>3. Roles /\ Callable
  BY <1>1, <1>2 DEF Roles, Callable, CallerLabel, WorkerLabel
<1>4. pc \in [Thread -> CallerLabel \cup WorkerLabel]
  BY DEF Init, CallerLabel, WorkerLabel
<1>5. item \in [Thread -> Function]
  BY DEF Init, Function
<1>6. deque \in Seq(Function) /\ ran \in Seq(Work)
  BY DEF Init
<1>7. starts \in 0..MaxStarts /\ stops \in 0..MaxStops
  BY CallsAssumption DEF Init
<1>8. TypeOK
  BY <1>4, <1>5, <1>6, <1>7, Zenon DEF Init, TypeOK
<1> QED
  BY <1>3, <1>8 DEF TInv

LEMMA StartTInv ==
    ASSUME TInv, NEW c \in Caller, Start(c)
    PROVE  TInv'
<1> USE ThreadAssumption, CallsAssumption
    DEF TInv, TypeOK, Roles, Callable, Thread, CallerLabel, WorkerLabel, At, Goto,
        callVars, Unlock
<1>1. CASE StartTest(c)
  BY <1>1 DEF StartTest
<1>2. CASE StartLock(c)
  BY <1>2 DEF StartLock, Lock
<1>3. CASE StartRecheck(c)
  BY <1>3 DEF StartRecheck
<1>4. CASE StartCreate(c)
  BY <1>4 DEF StartCreate
<1>5. CASE StartMark(c)
  BY <1>5 DEF StartMark
<1> QED BY <1>1, <1>2, <1>3, <1>4, <1>5 DEF Start

LEMMA StopTInv ==
    ASSUME TInv, NEW c \in Caller, Stop(c)
    PROVE  TInv'
<1> USE ThreadAssumption, CallsAssumption
    DEF TInv, TypeOK, Roles, Callable, Thread, CallerLabel, WorkerLabel, At, Goto,
        callVars, Unlock
<1>1. CASE StopTest(c)
  BY <1>1 DEF StopTest
<1>2. CASE StopLock(c)
  BY <1>2 DEF StopLock, Lock
<1>3. CASE StopClear(c)
  BY <1>3 DEF StopClear
<1>4. CASE StopJoin(c)
  BY <1>4 DEF StopJoin
<1> QED BY <1>1, <1>2, <1>3, <1>4 DEF Stop

LEMMA QueueTInv ==
    ASSUME TInv, NEW c \in Caller, QueueWork(c)
    PROVE  TInv'
<1> USE ThreadAssumption, CallsAssumption
    DEF TInv, TypeOK, Roles, Callable, Thread, CallerLabel, WorkerLabel, At, Goto,
        callVars, Unlock, Function
<1>1. CASE QueueTest(c)
  BY <1>1 DEF QueueTest
<1>2. CASE QueueLock(c)
  BY <1>2 DEF QueueLock, Lock
<1>3. CASE QueuePush(c)
  BY <1>3 DEF QueuePush, Pushed
<1> QED BY <1>1, <1>2, <1>3 DEF QueueWork
LEMMA RunTInv ==
    ASSUME TInv, NEW w \in Worker, runInstance(w)
    PROVE  TInv'
<1> USE ThreadAssumption, CallsAssumption
    DEF TInv, TypeOK, Roles, Callable, Thread, CallerLabel, WorkerLabel, At, Goto,
        callVars, Unlock, Function
<1>1. CASE RunBegin(w)
  BY <1>1 DEF RunBegin
<1>2. CASE RunLoop(w)
  BY <1>2 DEF RunLoop
<1>3. CASE RunPeek(w)
  BY <1>3 DEF RunPeek
<1>4. CASE RunLock(w) \/ RunPopLock(w)
  BY <1>4 DEF RunLock, RunPopLock, Lock
<1>5. CASE RunFront(w)
  BY <1>5 DEF RunFront, AfterFront
<1>6. CASE RunItem(w)
  BY <1>6 DEF RunItem
<1>7. CASE RunPop(w)
  BY <1>7 DEF RunPop, Popped
<1>8. CASE RunEnd(w)
  BY <1>8 DEF RunEnd
<1> QED BY <1>1, <1>2, <1>3, <1>4, <1>5, <1>6, <1>7, <1>8 DEF runInstance

LEMMA NextTInv == TInv /\ [Next]_vars => TInv'
<1> SUFFICES ASSUME TInv, [Next]_vars PROVE TInv'
  OBVIOUS
<1>1. CASE UNCHANGED vars
  BY <1>1 DEF vars, callVars, TInv, TypeOK, Roles, Callable
<1> QED BY <1>1, StartTInv, StopTInv, QueueTInv, RunTInv DEF Next

-----------------------------------------------------------------------------
\* One Start: one worker, one critical section at a time, one end.

LEMMA InitIInv == Once /\ Init => IInv
<1> SUFFICES ASSUME Once, Init PROVE IInv
  OBVIOUS
<1>1. \A t \in Thread : pc[t] \in {"idle", "none"}
  BY DEF Init
<1>2. \A w \in Worker : pc[w] = "none"
  BY ThreadAssumption DEF Init, Thread
<1> QED
  BY <1>1, <1>2, ThreadAssumption, InitTInv
  DEF Init, IInv, Mutual, Guarded, OneWorker, StartLabel, StopLabel, Flag, Closed,
      Carried, Thread

LEMMA StartIInv ==
    ASSUME IInv, NEW c \in Caller, Start(c)
    PROVE  IInv'
<1> USE ThreadAssumption, CallsAssumption
    DEF IInv, Once, Mutual, Guarded, OneWorker, StartLabel, StopLabel, Flag, Closed, Carried
<1> USE
    DEF TInv, TypeOK, Roles, Thread, CallerLabel, WorkerLabel, At, Goto, callVars, Unlock
<1>0. TInv'
  BY StartTInv
<1>1. CASE StartTest(c)
  BY <1>0, <1>1 DEF StartTest
<1>2. CASE StartLock(c)
  BY <1>0, <1>2 DEF StartLock, Lock
<1>3. CASE StartRecheck(c)
  BY <1>0, <1>3 DEF StartRecheck
<1>4. CASE StartCreate(c)
  BY <1>0, <1>4 DEF StartCreate
<1>5. CASE StartMark(c)
  BY <1>0, <1>5 DEF StartMark
<1> QED BY <1>1, <1>2, <1>3, <1>4, <1>5 DEF Start

LEMMA StopIInv ==
    ASSUME IInv, NEW c \in Caller, Stop(c)
    PROVE  IInv'
<1> USE ThreadAssumption, CallsAssumption
    DEF IInv, Once, Mutual, Guarded, OneWorker, StartLabel, StopLabel, Flag, Closed, Carried
<1> USE
    DEF TInv, TypeOK, Roles, Thread, CallerLabel, WorkerLabel, At, Goto, callVars, Unlock
<1>0. TInv'
  BY StopTInv
<1>1. CASE StopTest(c)
  BY <1>0, <1>1 DEF StopTest
<1>2. CASE StopLock(c)
  BY <1>0, <1>2 DEF StopLock, Lock
<1>3. CASE StopClear(c)
  BY <1>0, <1>3 DEF StopClear
<1>4. CASE StopJoin(c)
  BY <1>0, <1>4 DEF StopJoin
<1> QED BY <1>1, <1>2, <1>3, <1>4 DEF Stop

\* What is at the front of the deque stays there when QueueWork appends.
LEMMA AppendKeepsHead ==
    ASSUME NEW S, NEW q \in Seq(S), NEW x \in S, q # <<>>
    PROVE  /\ Append(q, x) # <<>>
           /\ Head(Append(q, x)) = Head(q)
           /\ Tail(Append(q, x)) = Append(Tail(q), x)
<1>1. Len(q) \in Nat /\ Len(q) > 0
  OBVIOUS
<1>2. Append(q, x) # <<>> /\ Head(Append(q, x)) = Head(q)
  BY <1>1
<1>3. Tail(Append(q, x)) = Append(Tail(q), x)
  <2>1. Tail(Append(q, x)) \in Seq(S) /\ Append(Tail(q), x) \in Seq(S)
    BY <1>1
  <2>2. Len(Tail(Append(q, x))) = Len(q) /\ Len(Append(Tail(q), x)) = Len(q)
    BY <1>1
  <2>3. \A i \in 1..Len(q) : Tail(Append(q, x))[i] = Append(Tail(q), x)[i]
    BY <1>1
  <2> QED BY <2>1, <2>2, <2>3, SeqEqual
<1> QED BY <1>2, <1>3

LEMMA PushKeepsHead ==
    ASSUME TypeOK, NEW c \in Thread, QueuePush(c), deque # <<>>
    PROVE  deque' # <<>> /\ Head(deque') = Head(deque)
<1>1. item[c] \in Function /\ deque \in Seq(Function)
  BY DEF TypeOK
<1> QED BY <1>1, AppendKeepsHead DEF QueuePush, Pushed

LEMMA QueueIInv ==
    ASSUME IInv, NEW c \in Caller, QueueWork(c)
    PROVE  IInv'
<1> USE ThreadAssumption, CallsAssumption
    DEF IInv, Once, Mutual, Guarded, OneWorker, StartLabel, StopLabel, Flag, Closed, Carried
<1> USE
    DEF TInv, TypeOK, Roles, Thread, CallerLabel, WorkerLabel, At, Goto, callVars, Unlock,
        Function
<1>0. TInv'
  BY QueueTInv
<1>1. CASE QueueTest(c)
  BY <1>0, <1>1 DEF QueueTest
<1>2. CASE QueueLock(c)
  BY <1>0, <1>2 DEF QueueLock, Lock
<1>3. CASE QueuePush(c)
  <2>1. deque # <<>> => deque' # <<>> /\ Head(deque') = Head(deque)
    BY <1>3, PushKeepsHead
  <2>2. Carried'
    BY <1>3, <2>1 DEF QueuePush
  <2> QED
    BY <1>0, <1>3, <2>2 DEF QueuePush
<1> QED BY <1>1, <1>2, <1>3 DEF QueueWork

LEMMA RunIInv ==
    ASSUME IInv, NEW w \in Worker, runInstance(w)
    PROVE  IInv'
<1> USE ThreadAssumption, CallsAssumption
    DEF IInv, Once, Mutual, Guarded, OneWorker, StartLabel, StopLabel, Flag, Closed, Carried
<1> USE
    DEF TInv, TypeOK, Roles, Thread, CallerLabel, WorkerLabel, At, Goto, callVars, Unlock,
        Function
<1>0. TInv'
  BY RunTInv
<1>1. CASE RunBegin(w)
  BY <1>0, <1>1 DEF RunBegin
<1>2. CASE RunLoop(w)
  BY <1>0, <1>2 DEF RunLoop
<1>3. CASE RunPeek(w)
  BY <1>0, <1>3 DEF RunPeek
<1>4. CASE RunLock(w) \/ RunPopLock(w)
  BY <1>0, <1>4 DEF RunLock, RunPopLock, Lock
<1>5. CASE RunFront(w)
  BY <1>0, <1>5, WorkAssumption DEF RunFront, AfterFront
<1>6. CASE RunItem(w)
  BY <1>0, <1>6 DEF RunItem
<1>7. CASE RunPop(w)
  BY <1>0, <1>7 DEF RunPop, Popped
<1>8. CASE RunEnd(w)
  BY <1>0, <1>8 DEF RunEnd
<1> QED BY <1>1, <1>2, <1>3, <1>4, <1>5, <1>6, <1>7, <1>8 DEF runInstance

LEMMA NextIInv == IInv /\ [Next]_vars => IInv'
<1> SUFFICES ASSUME IInv, [Next]_vars PROVE IInv'
  OBVIOUS
<1>1. CASE UNCHANGED vars
  BY <1>1, NextTInv
  DEF vars, callVars, IInv, Once, Mutual, OneWorker, Flag, Closed, Carried
<1> QED BY <1>1, StartIInv, StopIInv, QueueIInv, RunIInv DEF Next

-----------------------------------------------------------------------------
\* Every step is a step of Outside or leaves what it sees alone.

LEMMA Frame ==
    ASSUME UNCHANGED <<deque, ran, shouldContinueRunning, joined>>, Executed' = Executed
    PROVE  UNCHANGED Outside!vars
BY DEF Outside!vars, Pending, State

LEMMA StartOutside ==
    ASSUME IInv, NEW c \in Caller, Start(c)
    PROVE  [Outside!Next]_Outside!vars
<1> USE ThreadAssumption DEF IInv, TInv, TypeOK, Thread, At, Goto, Executed
<1>1. CASE StartTest(c)
  BY <1>1, Frame DEF StartTest
<1>2. CASE StartLock(c)
  BY <1>2, Frame DEF StartLock, Lock
<1>3. CASE StartRecheck(c)
  BY <1>3, Frame DEF StartRecheck
<1>4. CASE StartCreate(c)
  BY <1>4, Frame DEF StartCreate
<1>5. CASE StartMark(c)
  BY <1>5, Frame DEF StartMark, Flag, StartLabel, Roles
<1> QED BY <1>1, <1>2, <1>3, <1>4, <1>5 DEF Start

LEMMA StopOutside ==
    ASSUME IInv, NEW c \in Caller, Stop(c)
    PROVE  [Outside!Next]_Outside!vars
<1> USE ThreadAssumption DEF IInv, TInv, TypeOK, Thread, At, Goto, Executed
<1>1. CASE StopTest(c)
  BY <1>1, Frame DEF StopTest
<1>2. CASE StopLock(c)
  BY <1>2, Frame DEF StopLock, Lock
<1>3. CASE StopClear(c)
  <2>1. UNCHANGED <<Pending, ran>>
    BY <1>3 DEF StopClear, Pending
  <2>2. CASE shouldContinueRunning
    <3>1. State = "open" /\ State' = "closing"
      BY <1>3, <2>2 DEF StopClear, State, Closed
    <3> QED BY <2>1, <3>1 DEF Outside!Next, Outside!Close
  <2>3. CASE ~shouldContinueRunning
    BY <1>3, <2>3, Frame DEF StopClear
  <2> QED BY <2>2, <2>3
<1>4. CASE StopJoin(c)
  <2>1. UNCHANGED <<Pending, ran>>
    BY <1>4 DEF StopJoin, Pending
  <2>2. ~shouldContinueRunning
    BY <1>4 DEF StopJoin, Flag, Roles
  <2>3. CASE joined = {} /\ joined' # {}
    <3>1. State = "closing" /\ State' = "closed"
      BY <1>4, <2>2, <2>3 DEF StopJoin, State
    <3> QED BY <2>1, <3>1 DEF Outside!Next, Outside!Close
  <2>4. CASE joined # {} \/ joined' = {}
    <3>1. UNCHANGED State
      BY <1>4, <2>4 DEF StopJoin, State
    <3> QED BY <2>1, <3>1 DEF Outside!vars
  <2> QED BY <2>3, <2>4
<1> QED BY <1>1, <1>2, <1>3, <1>4 DEF Stop

LEMMA QueueOutside ==
    ASSUME IInv, NEW c \in Caller, QueueWork(c)
    PROVE  [Outside!Next]_Outside!vars
<1> USE ThreadAssumption DEF IInv, TInv, TypeOK, Thread, At, Goto, Executed
<1>1. CASE QueueTest(c)
  BY <1>1, Frame DEF QueueTest
<1>2. CASE QueueLock(c)
  BY <1>2, Frame DEF QueueLock, Lock
<1>3. CASE QueuePush(c)
  <2>1. item[c] \in Function /\ deque \in Seq(Function)
    OBVIOUS
  <2>2. Executed' = Executed
    BY <1>3 DEF QueuePush
  <2>3. CASE shouldContinueRunning
    <3>1. State = "open" /\ UNCHANGED <<State, ran>>
      BY <1>3, <2>3 DEF QueuePush, State
    <3>2. deque' = Append(deque, item[c])
      BY <1>3, <2>3 DEF QueuePush, Pushed
    <3>3. Pending' = Append(Pending, item[c])
      <4>1. CASE Executed
        <5>1. deque # <<>>
          BY <4>1 DEF Carried
        <5> QED BY <2>1, <2>2, <3>2, <4>1, <5>1, AppendKeepsHead DEF Pending
      <4>2. CASE ~Executed
        BY <2>2, <3>2, <4>2 DEF Pending
      <4> QED BY <4>1, <4>2
    <3>4. Outside!Accept(item[c])
      BY <3>1, <3>3 DEF Outside!Accept
    <3> QED BY <2>1, <3>4 DEF Outside!Next
  <2>4. CASE ~shouldContinueRunning
    BY <1>3, <2>2, <2>4, Frame DEF QueuePush, Pushed
  <2> QED BY <2>3, <2>4
<1> QED BY <1>1, <1>2, <1>3 DEF QueueWork

LEMMA RunOutside ==
    ASSUME IInv, NEW w \in Worker, runInstance(w)
    PROVE  [Outside!Next]_Outside!vars
<1> USE ThreadAssumption DEF IInv, TInv, TypeOK, Thread, At, Goto, Executed
<1>0. \A v \in Worker : v # w => pc[v] = "none"
  BY DEF OneWorker, runInstance, RunBegin, RunLoop, RunPeek, RunLock, RunPopLock, Lock,
         RunFront, RunItem, RunPop, RunEnd
<1>1. CASE \/ RunBegin(w) \/ RunLoop(w) \/ RunPeek(w)
          \/ RunLock(w) \/ RunPopLock(w) \/ RunEnd(w)
  <2>1. UNCHANGED <<deque, ran, shouldContinueRunning, joined>>
    BY <1>1 DEF RunBegin, RunLoop, RunPeek, RunLock, RunPopLock, Lock, RunEnd
  <2>2. Executed' = Executed
    BY <1>1 DEF RunBegin, RunLoop, RunPeek, RunLock, RunPopLock, Lock, RunEnd
  <2> QED BY <2>1, <2>2, Frame
<1>2. CASE RunFront(w)
  BY <1>2, Frame DEF RunFront, AfterFront
<1>3. CASE RunItem(w)
  <2>1. ~Executed /\ Executed'
    BY <1>0, <1>3 DEF RunItem
  <2>2. deque # <<>> /\ item[w] = Head(deque)
    BY <1>3 DEF RunItem, Carried
  <2>3. Pending = deque /\ Pending' = Tail(deque) /\ ran' = Append(ran, Head(deque))
    BY <1>3, <2>1, <2>2 DEF RunItem, Pending
  <2>4. State # "closed" /\ UNCHANGED State
    BY <1>3 DEF RunItem, Closed, State
  <2> QED BY <2>2, <2>3, <2>4 DEF Outside!Next, Outside!Run
<1>4. CASE RunPop(w)
  <2>1. Executed /\ ~Executed'
    BY <1>0, <1>4 DEF RunPop
  <2>2. deque # <<>>
    BY <1>4 DEF RunPop, Carried
  <2>3. UNCHANGED <<Pending, ran, State>>
    BY <1>4, <2>1, <2>2 DEF RunPop, Popped, Pending, State
  <2> QED BY <2>3 DEF Outside!vars
<1> QED BY <1>1, <1>2, <1>3, <1>4 DEF runInstance

LEMMA NextOutside == IInv /\ [Next]_vars => [Outside!Next]_Outside!vars
<1> SUFFICES ASSUME IInv, [Next]_vars PROVE [Outside!Next]_Outside!vars
  OBVIOUS
<1>1. CASE UNCHANGED vars
  BY <1>1, Frame DEF vars, Executed
<1> QED BY <1>1, StartOutside, StopOutside, QueueOutside, RunOutside DEF Next

LEMMA InitOutside == Init => Outside!Init
<1> SUFFICES ASSUME Init PROVE Outside!Init
  OBVIOUS
<1>1. ~Executed
  BY ThreadAssumption DEF Init, Executed, Thread
<1> QED
  BY <1>1 DEF Init, Outside!Init, Pending, State

-----------------------------------------------------------------------------
\* Every variable keeps its type, however often and by whomever the queue is
\* started, stopped and filled: in particular what the worker calls
\* (WorkQueue.cxx:99-101) is never an empty function.
THEOREM TypeCorrect == Spec => []TypeOK
<1>1. TInv => TypeOK
  BY DEF TInv
<1> QED BY InitTInv, NextTInv, <1>1, PTL DEF Spec

\* A queue that is started at most once runs what it accepts once, in order of
\* acceptance, accepts nothing after Stop has cleared the flag and runs nothing
\* after Stop has returned, with any number of callers and functions: the tests of
\* flag and deque made without the mutex (WorkQueue.cxx:62-136) do no harm.
THEOREM ExecutorImplemented == MaxStarts <= 1 => (Spec => ImplementsExecutor)
<1>1. MaxStarts <= 1 /\ Init => IInv
  BY InitIInv DEF Once
<1> QED
  BY <1>1, NextIInv, InitOutside, NextOutside, PTL
  DEF Spec, ImplementsExecutor, Outside!Spec
=============================================================================
