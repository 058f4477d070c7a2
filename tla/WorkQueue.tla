------------------------------ MODULE WorkQueue ------------------------------
(***************************************************************************)
(* oca::util::WorkQueue (src/dep/wq/src/WorkQueue.cxx): a deque of         *)
(* functions that a worker thread runs.  One caller, the owner, starts,    *)
(* stops and destroys the queue, as its test does; any caller adds work.   *)
(* Every ScopedLock here has a name and holds the mutex to the end of its  *)
(* block, but flags and deque are also read without it.                    *)
(***************************************************************************)
EXTENDS Naturals, Sequences, SequencesExt

CONSTANTS
    Caller, Owner,   \* the threads that call the queue, and the one that owns it
    Worker,          \* the threads it can create
    None,            \* no thread
    Work, Null,      \* functions that can be queued; Null is an empty one
    MaxStarts,       \* bound on the calls of Start
    MaxStops         \* bound on the calls of Stop, the destructor's included

ASSUME ThreadAssumption ==
    /\ Owner \in Caller
    /\ Caller \cap Worker = {} /\ None \notin Caller \cup Worker
ASSUME WorkAssumption == Null \notin Work
ASSUME CallsAssumption == MaxStarts \in Nat /\ MaxStops \in Nat

VARIABLES
    shouldContinueRunning, isRunning,
    deque,
    worker,     \* member: the handle of the last thread created, zeroed at first
    mutex,      \* who holds it
    pc,         \* where every thread is
    item,       \* the function a thread holds: to be queued, or to be run
    ran,        \* the functions that were run, in order
    joined,     \* workers that were joined
    undefined,  \* something was done that POSIX or the C++ standard leave open
    starts, stops, queued   \* calls so far

callVars == <<starts, stops, queued>>
vars == <<shouldContinueRunning, isRunning, deque, worker, mutex, pc, item, ran,
          joined, undefined, callVars>>

Thread == Caller \cup Worker
Function == Work \cup {Null}
CallerLabel == {"idle", "startLock", "startRecheck", "startCreate", "startMark",
                "stopLock", "stopClear", "stopJoin", "queueLock", "queuePush"}
WorkerLabel == {"none", "begin", "loop", "peek", "lock", "front", "run",
                "popLock", "pop", "end", "ended"}

Init ==
    /\ shouldContinueRunning = TRUE /\ isRunning = FALSE
    /\ deque = <<>> /\ ran = <<>>
    /\ worker = None /\ mutex = None
    /\ pc = [t \in Thread |-> IF t \in Caller THEN "idle" ELSE "none"]
    /\ item = [t \in Thread |-> Null]
    /\ joined = {} /\ undefined = FALSE
    /\ starts = 0 /\ stops = 0 /\ queued = {}

At(t, label) == pc[t] = label
Goto(t, label) == pc' = [pc EXCEPT ![t] = label]

\* ScopedLock: its constructor, and its destructor at the end of the block.
Lock(t, from, to) ==
    /\ At(t, from)
    /\ mutex = None
    /\ mutex' = t
    /\ Goto(t, to)
    /\ UNCHANGED <<shouldContinueRunning, isRunning, deque, worker, item, ran,
                   joined, undefined, callVars>>
Unlock == mutex' = None

-----------------------------------------------------------------------------
\* Start

StartTest(c) ==
    /\ c = Owner /\ At(c, "idle") /\ starts < MaxStarts
    /\ starts' = starts + 1
    /\ Goto(c, IF isRunning THEN "idle" ELSE "startLock")
    /\ UNCHANGED <<shouldContinueRunning, isRunning, deque, worker, mutex, item, ran,
                   joined, undefined, stops, queued>>

StartLock(c) == Lock(c, "startLock", "startRecheck")

StartRecheck(c) ==
    /\ At(c, "startRecheck")
    /\ IF isRunning
       THEN Unlock /\ Goto(c, "idle")
       ELSE Goto(c, "startCreate") /\ UNCHANGED mutex
    /\ UNCHANGED <<shouldContinueRunning, isRunning, deque, worker, item, ran,
                   joined, undefined, callVars>>

\* pthread_create; the worker may run before the flag is set.
StartCreate(c) ==
    /\ At(c, "startCreate")
    /\ \E w \in Worker :
          /\ pc[w] = "none"
          /\ worker' = w
          /\ pc' = [pc EXCEPT ![c] = "startMark", ![w] = "begin"]
    /\ UNCHANGED <<shouldContinueRunning, isRunning, deque, mutex, item, ran,
                   joined, undefined, callVars>>

StartMark(c) ==
    /\ At(c, "startMark")
    /\ shouldContinueRunning' = TRUE
    /\ Unlock
    /\ Goto(c, "idle")
    /\ UNCHANGED <<isRunning, deque, worker, item, ran, joined, undefined, callVars>>

Start(c) ==
    StartTest(c) \/ StartLock(c) \/ StartRecheck(c) \/ StartCreate(c) \/ StartMark(c)

-----------------------------------------------------------------------------
\* Stop, of which the destructor is a call.  Only a queue that was started is stopped:
\* otherwise the join is of a zeroed handle.

StopTest(c) ==
    /\ c = Owner /\ At(c, "idle") /\ stops < MaxStops /\ starts > 0
    /\ stops' = stops + 1
    /\ Goto(c, IF shouldContinueRunning THEN "stopLock" ELSE "stopJoin")
    /\ UNCHANGED <<shouldContinueRunning, isRunning, deque, worker, mutex, item, ran,
                   joined, undefined, starts, queued>>

StopLock(c) == Lock(c, "stopLock", "stopClear")

StopClearHolding(c) ==   \* joins with the mutex held
    /\ At(c, "stopClear")
    /\ shouldContinueRunning' = FALSE
    /\ Goto(c, "stopJoin")
    /\ UNCHANGED <<isRunning, deque, worker, mutex, item, ran, joined, undefined, callVars>>
StopClear(c) ==
    /\ At(c, "stopClear")
    /\ shouldContinueRunning' = FALSE
    /\ Unlock
    /\ Goto(c, "stopJoin")
    /\ UNCHANGED <<isRunning, deque, worker, item, ran, joined, undefined, callVars>>

\* pthread_join(worker): undefined without a thread, or for one joined before.
StopJoin(c) ==
    /\ At(c, "stopJoin")
    /\ \/ /\ worker = None \/ worker \in joined
          /\ undefined' = TRUE
          /\ UNCHANGED joined
       \/ /\ worker # None /\ worker \notin joined /\ At(worker, "ended")
          /\ joined' = joined \cup {worker}
          /\ UNCHANGED undefined
    /\ Goto(c, "idle")
    /\ UNCHANGED <<shouldContinueRunning, isRunning, deque, worker, mutex, item, ran,
                   callVars>>

Stop(c) == StopTest(c) \/ StopLock(c) \/ StopClear(c) \/ StopJoin(c)

-----------------------------------------------------------------------------
\* QueueWork: each function is queued at most once, to tell their runs apart.

QueueTest(c) ==
    /\ At(c, "idle")
    /\ \E f \in Function \ queued :
          /\ queued' = queued \cup {f}
          /\ IF shouldContinueRunning
             THEN Goto(c, "queueLock") /\ item' = [item EXCEPT ![c] = f]
             ELSE UNCHANGED <<pc, item>>
    /\ UNCHANGED <<shouldContinueRunning, isRunning, deque, worker, mutex, ran,
                   joined, undefined, starts, stops>>

QueueLock(c) == Lock(c, "queueLock", "queuePush")

PushedAnyway(q, f, continue) == Append(q, f)
Pushed(q, f, continue) == IF continue THEN Append(q, f) ELSE q
QueuePush(c) ==
    /\ At(c, "queuePush")
    /\ deque' = Pushed(deque, item[c], shouldContinueRunning)
    /\ item' = [item EXCEPT ![c] = Null]
    /\ Unlock
    /\ Goto(c, "idle")
    /\ UNCHANGED <<shouldContinueRunning, isRunning, worker, ran, joined, undefined,
                   callVars>>

QueueWork(c) == QueueTest(c) \/ QueueLock(c) \/ QueuePush(c)

-----------------------------------------------------------------------------
\* runInstance

RunBegin(w) ==
    /\ At(w, "begin")
    /\ isRunning' = TRUE
    /\ Goto(w, "loop")
    /\ UNCHANGED <<shouldContinueRunning, deque, worker, mutex, item, ran, joined,
                   undefined, callVars>>

RunLoop(w) ==
    /\ At(w, "loop")
    /\ Goto(w, IF shouldContinueRunning THEN "peek" ELSE "end")
    /\ UNCHANGED <<shouldContinueRunning, isRunning, deque, worker, mutex, item, ran,
                   joined, undefined, callVars>>

RunPeek(w) ==
    /\ At(w, "peek")
    /\ Goto(w, IF deque = <<>> THEN "loop" ELSE "lock")
    /\ UNCHANGED <<shouldContinueRunning, isRunning, deque, worker, mutex, item, ran,
                   joined, undefined, callVars>>

RunLock(w) == Lock(w, "lock", "front")

AfterAnyFront(f) == "run"

\* An empty function stays where it is.
AfterFront(f) == IF f = Null THEN "loop" ELSE "run"
RunFront(w) ==
    /\ At(w, "front")
    /\ LET front == IF deque = <<>> THEN Null ELSE Head(deque) IN
       /\ item' = [item EXCEPT ![w] = front]
       /\ Goto(w, AfterFront(front))
    /\ Unlock
    /\ UNCHANGED <<shouldContinueRunning, isRunning, deque, worker, ran, joined,
                   undefined, callVars>>

RunItem(w) ==
    /\ At(w, "run")
    /\ ran' = Append(ran, item[w])
    /\ Goto(w, "popLock")
    /\ UNCHANGED <<shouldContinueRunning, isRunning, deque, worker, mutex, item,
                   joined, undefined, callVars>>

RunPopLock(w) == Lock(w, "popLock", "pop")

PoppedAll(q) == <<>>

\* pop_front, undefined on an empty deque.
Popped(q) == IF q = <<>> THEN q ELSE Tail(q)
RunPop(w) ==
    /\ At(w, "pop")
    /\ deque' = Popped(deque)
    /\ undefined' = (undefined \/ deque = <<>>)
    /\ item' = [item EXCEPT ![w] = Null]
    /\ Unlock
    /\ Goto(w, "loop")
    /\ UNCHANGED <<shouldContinueRunning, isRunning, worker, ran, joined, callVars>>

RunEnd(w) ==
    /\ At(w, "end")
    /\ isRunning' = FALSE
    /\ Goto(w, "ended")
    /\ UNCHANGED <<shouldContinueRunning, deque, worker, mutex, item, ran, joined,
                   undefined, callVars>>

runInstance(w) ==
    \/ RunBegin(w) \/ RunLoop(w) \/ RunPeek(w) \/ RunLock(w) \/ RunFront(w)
    \/ RunItem(w) \/ RunPopLock(w) \/ RunPop(w) \/ RunEnd(w)

Next ==
    \/ \E c \in Caller : Start(c) \/ Stop(c) \/ QueueWork(c)
    \/ \E w \in Worker : runInstance(w)

Spec == Init /\ [][Next]_vars

\* Threads run, and calls that were made go on; nobody has to make one.  Strong
\* fairness because the mutex starves no caller: a worker that finds an empty
\* function takes it again and again.
FairSpec ==
    /\ Spec
    /\ \A c \in Caller : SF_vars(pc[c] # "idle" /\ (Start(c) \/ Stop(c) \/ QueueWork(c)))
    /\ \A w \in Worker : WF_vars(runInstance(w))

-----------------------------------------------------------------------------
\* Every variable has its type (dep/wq/include/wq/WorkQueue.hxx:66-71): above all,
\* an empty function, which calling would throw, is never run (line 99).
TypeOK ==
    /\ shouldContinueRunning \in BOOLEAN /\ isRunning \in BOOLEAN
    /\ deque \in Seq(Function) /\ ran \in Seq(Work)
    /\ worker \in Worker \cup {None} /\ mutex \in Thread \cup {None}
    /\ pc \in [Thread -> CallerLabel \cup WorkerLabel]
    /\ item \in [Thread -> Function]
    /\ joined \subseteq Worker /\ undefined \in BOOLEAN
    /\ starts \in 0..MaxStarts /\ stops \in 0..MaxStops /\ queued \subseteq Function

\* Between item() and pop_front a function that was run is still in the deque.
Executed == \E w \in Worker : pc[w] \in {"popLock", "pop"}
Pending == IF Executed THEN Tail(deque) ELSE deque
State ==
    IF shouldContinueRunning THEN "open"
    ELSE IF joined = {} THEN "closing" ELSE "closed"

Outside == INSTANCE Executor WITH Work <- Function, pending <- Pending, state <- State

\* WorkQueue.cxx:82-136 with its double-checked flag and the two critical sections
\* of the worker is an Executor, when it is started once and stopped once: work
\* runs once and in order, none is accepted after Stop has cleared the flag, and
\* none runs after Stop has returned.
ImplementsExecutor == Outside!Spec

\* An empty function is ahead of f.
Blocked(f) ==
    \E i, j \in DOMAIN deque : i < j /\ deque[i] = Null /\ deque[j] = f

\* Work that was accepted runs, unless the queue is stopped or an empty function,
\* which is never popped (lines 99-106), is ahead of it.
WorkRuns ==
    \A f \in Work :
        f \in ToSet(deque) /\ worker # None
            ~> f \in ToSet(ran) \/ ~shouldContinueRunning \/ Blocked(f)

\* Stop (lines 111-124) returns, whatever is still queued and whoever still queues.
StopReturns == pc[Owner] = "stopLock" ~> pc[Owner] = "idle"

\* tests/test_WorkQueue.cxx:51-69 starts the queue, stops it and lets its
\* destructor run: nothing undefined may come of that.
Defined == ~undefined
=============================================================================
