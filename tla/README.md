# liboca in TLA+

A verification development for [liboca](https://github.com/guysherman/liboca), a
C++ library that speaks OCP.1, the TCP protocol of the Open Control
Architecture. At this commit the library connects a client and a server, keeps
the connection alive with heartbeats, and has the codec for the messages to
come. Paths and line numbers below are those of the repository.

## 1. The system

| Part | Source | State | Operations | Works with |
|---|---|---|---|---|
| **ConnectionEndpoint** | `src/OcpConnectionEndpoint.{cxx,hxx}` | descriptor, `shouldContinue`, `heartbeatTime`, `supervisorActivated`, two time stamps, `messageQueue`, a mutex, three threads | constructor (starts two threads), `receiveLoop` + `processKeepAlive` (starts the third), `sendLoop`, `supervisorLoop`, `sendHeartbeat` → `queueMessageForSend`, `StartSupervision`, destructor (joins two threads) | the endpoint at the other end of the TCP connection; its owner |
| **Client** | `src/OcpClient.cxx` | descriptor, one endpoint | constructor: resolve, try each address in turn, construct the endpoint, `StartSupervision(2)`; destructor: close the descriptor, then destroy the endpoint | owns an endpoint; shares the process's descriptor table |
| **Server** | `src/OcpServer.cxx` | listening descriptor, `continueAccepting`, accept thread, list of endpoints | constructor: resolve, bind, listen, start the thread; `acceptLoop`; destructor: join, close, then destroy the endpoints | owns endpoints |
| **Wire format** | `src/OcpMessage{Reader,Writer}.cxx`, `src/OcaBasicType{Reader,Writer}.cxx`, `src/Ocp1*.{cxx,hxx}` | none; a size field in each message | header, command, response, notification and lists of them from and to a buffer, and the sizes of all of these | the endpoint uses the header and the 16-bit value; the rest is used by its tests so far |
| **WorkQueue** | `dep/wq/src/WorkQueue.cxx`, `ScopedLock.cxx` | a deque of functions, a mutex, two flags, a worker | `Start`, `Stop`, `QueueWork`, the worker's loop | nothing in the library uses it but `ScopedLock`; its test does |
| Others | `examples/`, `tests/`, `dep/gtest`, `waftools/`, `util/`, `include/oca/OcaException.hxx` | | | not modelled: examples of use, tests, vendored code, build scripts, an exception nobody throws |

How they interact. The owner of an endpoint (the thread in `~Client`, `~Server`
or `main`) and up to three threads share one object without a lock: the mutex is
held only by the send loop while it copies the front of the queue, because
`util::ScopedLock(&this->mutex);` in `queueMessageForSend` (235) and before
`pop_front` (289) is a temporary that unlocks at the end of its statement.
Two endpoints interact through a TCP connection only. The Client's
`StartSupervision` puts the first heartbeat into its queue; when it reaches the
Server's endpoint that endpoint adopts the period it announces and starts its
supervisor, whose first heartbeat does the same for the Client.

What is hard here, and what makes the parts correct:

* *Unlocked sharing.* Queue, flag, period and stamps are read and written by four
  threads. Correct: what is popped is what was sent; messages are not lost,
  duplicated or reordered; the missing lock never matters between two liboca
  endpoints.
* *Short reads and foreign messages.* Only some results of `recv` are checked, and
  the bodies of other messages are not consumed. Correct: a misread does no
  lasting harm.
* *Time.* Naps of half a period, a timeout of three, default periods that are
  replaced on the fly, values captured early and used late. Correct: a live peer
  is never declared dead, a dead one is noticed within a bound, both ends agree.
* *Failure and shutdown.* The other side closes, resets, falls silent or dies; the
  destructor joins threads that may be blocked. Correct: destructors return, a
  timeout ends the endpoint, a failed send is survived.
* *Lifecycle of Client, Server and WorkQueue.* Constructors whose every call may fail;
  a descriptor closed under the threads that use its number; joins of blocked, absent
  or already joined threads; flags set before or after the thread they govern.
  Correct: nothing is leaked or closed twice, nobody's threads reach a connection that is not theirs.
* *Codec.* Unsigned sizes taken from messages; sizes that must agree between
  reader and writer; size fields that go stale when a message changes. Correct: what is
  written is read back, and one wrong size does not cost the rest of the list.

The hazards are listed, each at its line, in `PROJECT.json`.

## 2. Modules

| Module | Models | Notes |
|---|---|---|
| `Socket` | the connected TCP socket as the code uses it: `recv`, `send`, `close`, the end of a process, FIN and RST | external code; the rest is built on it |
| `ConnectionEndpoint` | the endpoint with its four threads | extends `Socket` |
| `Pipe` | abstract: messages go in whole at one end, bytes come out at the other, in order, until the connection is cut | what one direction of a connection promises |
| `Connection` | two endpoints seen from outside | refinement mapping to `Pipe` |
| `Lifecycle` | abstract: told to stop once, send thread until then, freed after both joins | what an endpoint promises its owner |
| `KeepAlive` | the endpoint in time, with prompt threads and a slow network | timing, liveness |
| `WorkQueue` | the queue of functions, its callers and its worker | interleaving of the double-checked flags |
| `Executor` | abstract: what is accepted runs once, in order, until the executor closes | what a `WorkQueue` promises |
| `Server` | constructor, accept loop, vector of endpoints, destructor | endpoints as far as their Server can tell |
| `Client` | the Clients of a process: constructors, destructors, descriptor table | endpoints as far as they can meet the table |
| `Ocp1Codec` | the structs and every function of the readers and writers | operators, no state |
| `ListExchange` | a list of messages built, sized, written, read | the loops over lists; extends `Ocp1Codec` |
| `MCEndpoint`, `MCKeepAlive`, `MCWorkQueue`, `MCServer`, `MCClient`, `MCListExchange` | instances for TLC | scripts of foreign peers; callers and functions; messages |
| `ConnectionEndpoint_proofs`, `Connection_proofs`, `KeepAlive_proofs`, `Timing_proofs`, `WorkQueue_proofs`, `Server_proofs`, `Client_proofs`, `ListExchange_proofs` | the inductive invariants and the proofs | |

### ConnectionEndpoint and the code

`pc[e][t]` says where thread `t` of endpoint `e` is; one action is one access to
what the threads share, in the order of the source.

| Thread | Code | Actions |
|---|---|---|
| `receive` | `receiveLoop` 85-137, `processKeepAlive` 139-157 | `ReceiveLoop` (87), `ReceiveSync` (89-102), `ReceiveHeader` (104-114), `ReceiveStamp` (116-129), `ReceiveBody` (144), `ReceiveApply` (147-148), `ReceiveActivate` (151-152) |
| `send` | `sendLoop` 266-299 | `SendLoop` (268), `SendPeek` (271), `SendLock` (273), `SendFront` (274-280), `SendSend` (283-287), `SendPop` (288-291), `SendStamp` (292) |
| `supervisor` | `supervisorLoop` 174-204 | `SupervisorPeriod` (176), `SupervisorPatience` (177), `SupervisorLoop` (179), `SupervisorDiff` (181-185), the `Push` actions, `SupervisorTimeout` (193-198), `SupervisorSleep` and `SupervisorWake` (200), `Astray` (after the destructor) |
| `owner` | `StartSupervision` 301-305, `~Client` 99-106, destructor 307-313 | `OwnerSupervise` (303), the `Push` actions, `OwnerClose`, `OwnerStop` (309), `OwnerJoinReceive` (310), `OwnerJoinSend` (311), `OwnerExit` |
| either pusher | `sendHeartbeat` 206-229, `queueMessageForSend` 231-243 | `PushBuild` (206-225), `PushCheck` (233), `PushLock` (235), `PushRecheck` (236), `PushConstruct` and `PushBump` (238) |

Choices that a reader should know of:

* **Messages** are the heartbeat time they carry: `sendHeartbeat` is the only
  producer and every other field is a constant. On the wire they are the twelve
  bytes `KeepAlive(h)`, because the receive loop may start reading anywhere.
* **Time** is two ages (`now - lastMessage...At`), which saturate at `MaxAge`; the
  code only ever compares differences. `now` and both differences (181-183) are
  sampled in one step, and `MaxAge` exceeds every threshold the run's periods
  reach, or is 0 where a run is not about time.
* **`push_back`** is two steps: finding the end and constructing the element there, and
  moving the end past it. As long as one thread at a time is between the two, this is what
  the send thread can tell of it. When a second one comes in, both write the
  same element and the same end with plain loads and stores, in any order and as late
  as they like: a data race, which is undefined. The deque is `torn` from then on: every use of it may
  end the process (`Breaks`), any test of it may give either answer, what is copied from it is
  unknown, and its elements are kept no more. What `sendLoop` does at the edge of a block while a push enters the
  next one (the deque's map and its two ends in different blocks) is not modelled.
* **The supervisor is not joined.** Once the owner has freed the object the
  supervisor's next access is undefined; `Astray` parks it there.
* **A descriptor of 0** makes both wrappers return at once; such an endpoint is not
  in `Connected`.
* **recv and send** may see the end of the stream, a reset, or a closed descriptor;
  `~Client` may close a descriptor in the middle of a `recv`, which then still
  returns (`"pinned"`). `Fragment` lets `recv` return any part of what was asked
  for. A peer that is not an endpoint sends one of `Script`, may close or reset at
  any time, and is assumed to read what it is sent: what `WindsDown` says of the send thread is said of such
  a peer. `Server` and `Client` have peers that do not read.
* **Roles.** A Client connects to what listens, so of two endpoints that are each other's peer one at most is
  a Client's (`RoleAssumption`).

### Lifecycle

An endpoint is `"live"` until its owner has cleared the flag (309), `"ending"` inside the two joins and
`"freed"` after them; `receiving` and `sending` say whether the joined threads have ended.
`ImplementsLifecycle` says that each step of any endpoint, the other endpoint, the network and
the clock is one of `Lifecycle`'s or leaves it alone. `Server` and `Client` use their endpoints this way.

### Pipe and Connection

An outgoing direction's `content` is what is on the wire followed by the encoding
of what is queued and not yet sent, and `writing` is which threads are in
`push_back`. `ImplementsPipe` says every step of the eight threads and of the
network is, for each direction, a step of `Pipe` or leaves its variables alone:
each push puts one heartbeat, whole and at the end, the receiver takes from the
front, and nothing is lost, doubled or overtaken while the connection lasts. A
direction is cut by a reset, by a closed descriptor, or when the endpoint that
feeds it has been freed.

### KeepAlive

`TimedSpec` lets a second pass only when every thread waits for something
(`PromptTick`): the code's threads spin or sleep, and their work takes far less
than the second that `time(NULL)` counts in. The network may hold back bytes for up to
`MaxLag` seconds and the news of a peer's end for ever.

`FairSpec` adds weak fairness of each thread (they are kernel threads, and none
waits for a lock that is held forever) and of the clock. The owner is fair inside
`StartSupervision` and the destructor; nothing obliges the application to destroy
an endpoint, or the network to deliver bad news.

### WorkQueue and Executor

`pc[t]` is where a caller or a worker is; again one action is one access to what
they share.

| Code | Actions |
|---|---|
| `Start` 60-72 | `StartTest` (62), `StartLock` (64), `StartRecheck` (65), `StartCreate` (67), `StartMark` (68) |
| `Stop` 111-124, `~WorkQueue` 54-58 | `StopTest` (113), `StopLock` (115), `StopClear` (116-121), `StopJoin` (122) |
| `QueueWork` 126-136 | `QueueTest` (128), `QueueLock` (130), `QueuePush` (131-135) |
| `runInstance` 82-109 | `RunBegin` (84), `RunLoop` (85), `RunPeek` (89), `RunLock` (91), `RunFront` (92-95), `RunItem` (99-101), `RunPopLock` (103), `RunPop` (104), `RunEnd` (108) |

Unlike the endpoint's, these scoped locks have names and hold. One caller, the
owner, starts and stops the queue, as `tests/test_WorkQueue.cxx` does, and
the destructor is a call of `Stop`, which comes after a `Start` (the join of a queue that
was never started is of a zeroed handle); every caller may queue. A function is queued at
most once, so that its runs can be told apart; what functions do (they may
take long, or queue more) is left out. `Null` is an empty function, which the worker does
not call and does not remove. The worker is seen from outside (`Executor`)
through `Pending`, which leaves out a function that has run and is still at the
front, and `State`.

### Server

| Code | Actions |
|---|---|
| constructor 54-130 | `SetupSocket` (79-86), `SetupOption` (88-95), `SetupBind` (97-103), `SetupListen` (105-118), `SetupFails` (121-126), `SetupCreate` (128) |
| `acceptLoop` 148-178 | `AcceptLoop` (152), `Accept` (157), `AcceptFails` (160-165), `AcceptConstruct` (171), `AcceptPush` (172) |
| `~Server` 182-191 and the destruction of its members | `OwnerStop` (184), `OwnerJoin` (185), `OwnerClose` (186-190), `OwnerDestroy`, `OwnerJoinReceive` and `OwnerJoinSend` for each endpoint, `OwnerGone` |
| its endpoints | `ReceiveEnds`, `SendBlocks`, `SendReturns`, `SendEnds`, `Timeout` |
| its clients | `Connect`, `ClientStops`, `ClientReads` |

`used` is the process's descriptor table: every call of `socket` and `accept` takes the
lowest free one, which is 0 in a process that was started with it closed. Any system call of the
constructor may fail; `accept` fails when the table is full, and as in Linux
does so without waiting for a client. `candidateAddresses` says whether the list that `getaddrinfo` allocated is still
there. Of an endpoint the module keeps the two threads that
`~ConnectionEndpoint` waits for. The receive thread ends when the client has
closed, or when the client sends something after the flag fell (or what
`receiveLoop` takes for the end). The send thread sees the flag by itself, unless it waits in `send` for a client that does not
read (`reads`). What happens inside, and the supervisor, is `ConnectionEndpoint`. That
creating a thread or allocating memory fails is left out.

### Client

| Code | Actions |
|---|---|
| constructor 42-97 | `Begin`, `SetupAddresses` (52-59), `SetupSocket` (60-70), `SetupConnect` (72-83), `SetupEnds` (84-92), `SetupCreate` (94-97) |
| `~Client` 99-106 and the destruction of its member | `OwnerClose` (99-106), `OwnerStop` and `OwnerJoin` (endpoint, 307-313) |
| its endpoint | `ReceiveLoop`, `ReceiveCall`, `ReceiveReturn`, `SendBlocks`, `SendReturns`, `SendEnds`, `Timeout` |
| its peer | `PeerStops`, `PeerStopsReading` |

`file[f]` says whose socket descriptor `f` is; `socket` takes the lowest free number, as in
`Server`, so that a number just closed is the next to be given out. `ReceiveCall` is the
moment a `recv` takes hold of what its number means; it keeps that socket when the number is closed.
`caller` maps each Client to the thread that constructs and deletes it, which is inside one of
them at a time. A connection that was connected to may fall silent or close at any moment. The
supervisor counts only for the flag it clears, and the send thread only for whether it runs.

### Ocp1Codec and ListExchange

`XBytes(x)` is what `WriteXToBuffer` puts into the buffer and `XFromBuffer(b, p)` is the function of
that name, for each struct. A byte has `Radix` values, 256 or fewer, and all widths follow from it:
`OcaUint16` is two bytes, whatever a byte is. What a `size_t` difference below zero does (more
than a vector can hold, so that `reserve` throws) is `Throws`; that nobody tells the reader
where the buffer ends is `StaysInside`.

`ListExchange` is the loops over lists, one turn each, and their callers. The library has no caller
yet but its tests, so callers are modelled as those allow: a list may be built
(`PushMessage`), changed (`Grow`, `Shrink`) and sized (`ComputeBegin`, `ComputeNext`, `ComputeEnd`,
188-197) in any order, is written with a header into a buffer of at least the size computed, which was
not cleared (`WriteHeader`, `WriteNext`, `WriteEnd`), and read back (`ReadHeader`, `ReadNext`, `ReadEnd`). It may go
wrong in three ways: the assertion at `OcaBasicTypeWriter.cxx:44` fails (`"aborted"`), something is
written or read behind the buffer (`"outside"`), or the reader throws (`"thrown"`).

## 3. What is checked

| Run | Instance | Properties |
|---|---|---|
| `EndpointRace` | one Client endpoint and its destructor; the peer speaks first, with a heartbeat of 1 or 0 seconds or a command; ages up to 3 | `TypeOK`, `SendsFront`, `ImplementsLifecycle` |
| `EndpointFragments` | one Server endpoint, any fragmentation of messages of 2 and 300 seconds and of a command | `MisreadIsFinal` |
| `EndpointPair` | Client and Server, both complete, the Client may be destroyed; a period of 0, so that each end sends one heartbeat and times out | `OnePusher`, `ImplementsPipe` |
| `KeepAliveLag` | Client and Server in time, period 3, up to 2 seconds on the way | `NoFalseTimeout`, `SendGap`, `Agreement` |
| `KeepAliveStop` | Client and Server, fair; the Server's endpoint may be destroyed at any moment | `BothSupervised`, `DestroyReturns`, `ImplementsPipe` |
| `KeepAliveSilent` | a Server endpoint and a peer that falls silent or closes, beside an endpoint with descriptor 0 (`tests/test_GrindConstructors.cxx:65-76`) | `DetectionBound`, `SupervisorEnds`, `WindsDown`, `DestroyReturns` |
| `Client` | two Clients of one thread or two, up to two addresses, two descriptors; both peers may fall silent or close, one may stop reading | `TypeOK`, `ResourcesAccounted`, `OwnConnection`, `DestructorReturns` |
| `Server` | up to two addresses, two clients, three descriptors, a backlog of two; deleted at any moment or never | `TypeOK`, `ResourcesAccounted`, `CleanEnd`, `Served`, `DestructorReturns` |
| `Lists` | lists of up to three messages of any kind, vectors that grow to two bytes, contexts of 0, 2 and 37, bytes of six values | `TypeOK`, `RoundTrip`, `StaleSizeIsLocal`, `WalkAdvances` |
| `WorkQueue` | an owner, two more producers, three functions and an empty one, one `Start`, one `Stop` | `TypeOK`, `ImplementsExecutor`, `WorkRuns`, `StopReturns` |
| `KeepAliveSigpipe` | Client and Server, the Client leaves | violation of `SendFailureIsReported` |
| `ServerDeleted` | the instance of `Server` | violation of `DeleteReturns` |

What they show:

* **The missing locks are survivable, between liboca endpoints.** `SendsFront` holds
  because only the send thread removes elements and pushes append behind the
  front, as long as no two pushes overlap. `OnePusher` shows that owner and supervisor never push at once when the
  peer is a liboca Server: the supervisor starts when the Server's heartbeat
  arrives, which answers the message the owner's push has completed
  (`NeverTornBetweenPeers`). With another
  peer, which may speak first, they do: that is a data race, after which the deque may hold anything
  and the process may crash, and nothing is claimed but `TypeOK` and `ImplementsLifecycle`.
* **Misreads are final.** A short header or body makes the receive loop read on in
  the middle of a message; a heartbeat time nobody announced may be applied, but
  the loop then meets a byte that is no sync byte, and returns. (Unless the time itself has the byte 59: see
  `MisreadIsFinalAlways`.)
  The endpoint then goes on sending and times out (`WindsDown`), which is also what
  becomes of one whose peer sends a command.
* **The timing works, with little margin.** With a period of 3 and up to 2 seconds
  on the way nobody is declared dead. With the 2 seconds that `OcpClient.cxx:95`
  asks for, one second is the most: with `StartTime = 2` and `MaxLag = 2` TLC finds
  `NoFalseTimeout` violated, and so with `StartTime = 3` and `MaxLag = 3`. The
  tightest moment is the start, when the Client stays silent until it has heard
  the Server. Silence is noticed in less than three periods and one nap.
* **A timeout stops less than it says.** After "Idled for too long, terminating."
  (196) the send thread and the supervisor end, wherever they are, but the receive thread may
  stay in `recv` for ever: on an open, silent connection, and nowhere else (`WindsDown`).
* **The supervisor that nobody joins** (309) cannot set the flag again or have the object
  freed under a joined thread (`ImplementsLifecycle`). As long as the object is there, it ends by itself within three
  periods and two naps of the last message (`SupervisorEnds`), so a destructor that runs later than
  that is safe. One that runs sooner is not: the supervisor then wakes in freed memory, where it may
  find the flag set and go on for ever. That is `Astray`, of which nothing is claimed.
* **Destructors** return when there is no connection, when the peer's end is known, or
  when the peer supervises the endpoint and so keeps sending (`DestroyReturns`). Otherwise the join of
  the receive thread waits for a peer that may never speak. With a peer that does not read, the join of
  the send thread may wait as well: `send` is called with the flag set, and does not see it fall.
* **A Client leaves nothing behind**, whichever calls fail: each socket is closed
  once and each address list freed (`ResourcesAccounted`); descriptor 0, which the code takes
  for none, is the exception. `~Client` closes the descriptor before it stops the threads that use its
  number. As long as the application opens descriptors in one thread only, these get hold of nothing
  that is not theirs; otherwise another thread's new connection is within their reach until
  `~Client` returns, and not after (`OwnConnection`). It hangs in two cases: its receive thread waits for a
  peer that has fallen silent, or its send thread for one that does not read (`DestructorReturns`), as closing a descriptor
  wakes neither a `recv` nor a `send`.
* **The codec's three ways to count agree.** When sizes are computed, a list fits the buffer
  that was sized for it and is read as it was written (`RoundTrip`). When they are stale, that costs
  bytes of the one message, not of its neighbours (`StaleSizeIsLocal`). A size smaller than the
  message's fixed part ends in an exception; the walk never stands still (`WalkAdvances`). A context of 65535
  bytes or more is stopped by an assertion only, on which `StaleSizeIsLocal` depends.
* **A Server ends cleanly, when it ends.** Its vector is never appended to while it is
  destroyed, and the receive and send threads of its endpoints are gone when it returns, those of the client that is accepted after the flag
  fell included (`CleanEnd`); their supervisors, which nobody joins, may outlive it. `DestructorReturns` says there are three ways to
  hang: in `accept` with nobody connecting, and in the joins of an endpoint whose client is
  silent, or does not read. Every client is served, until the table is full: endpoints are never
  removed and accepted sockets never closed, not even by `~Server`, so that is for good
  (`Served`, `ResourcesAccounted`). The constructor leaks a socket in one case, a failed `setsockopt`, and the list of addresses in
  another, a failed `listen`.
* **A WorkQueue that is started once and stopped once works.** The unlocked tests
  of the flag do not matter, because each is repeated under the lock: what was accepted
  runs once and in order (`ImplementsExecutor`), nothing is accepted after `Stop` has cleared
  the flag, nothing runs after it has returned. `WorkRuns` names the one way in which
  accepted work can starve: an empty function ahead of it, which is never removed.
  Only one `Start` is safe: a second before the first worker has set `isRunning` creates a
  second worker, and with `MaxStarts = 2` TLC finds `ImplementsExecutor` and `WorkRuns` violated.
  Nor is a second `Stop`: the destructor of a queue that was stopped joins its worker once more
  (122), which POSIX leaves undefined; `tests/test_WorkQueue.cxx:51-69` does so, and with
  `MaxStops = 2` TLC finds `Defined` violated.
* **Findings.** A send that fails because the peer's
  TCP has reset the connection raises SIGPIPE and ends the process, where line
  286 means to report it. And `~Server` joins a thread that is blocked in `accept` before it
  closes the socket: the delete in `tests/test_GrindConstructors.cxx:43` hangs, unless the flag falls before
  the accept thread first tests it.

Bounds. `BufferSize` holds two messages (untimed) or eight (timed): `send` blocks in the first
case. `MaxQueue` caps the queue at one to three; an
endpoint with a period of 2 or more never has more than that waiting, and one
whose time drops to 0, which queues without limit, is cut off there (the supervisor
then waits before `PushConstruct`). Deadlock is checked for the endpoint: in the
untimed model a second may always pass, and in the timed one every state that
cannot pass a second has a thread that can step. It is not for the `WorkQueue`, where
every call may have been made and every thread have ended, nor for `Server` and `Client`, which may
throw or be gone, nor for a `ListExchange`, which ends.

Fairness of the `WorkQueue`: threads run, and a call that was made goes on. It is strong
for the callers, weak for the workers: a worker that finds an empty function takes and
releases the mutex for ever, and a mutex is assumed not to starve a caller for ever.
Fairness of the `Server`: the constructor, the accept thread and the destructor go on, and a
receive thread ends when its client has closed or, having been told to stop, talks. A `send` returns to a client that
reads, or reads again and again (strong fairness). No
client is obliged to connect, to talk, to read or to close. Fairness of the `Client`: the endpoint's threads
and the destructor go on, and a `send` returns when its connection is closed by the peer; nobody has to construct or delete a Client, and no peer to speak,
read or close. A peer that pauses is not told apart from a `send` that takes its time.

With three descriptors the Server listens on 0 and serves both clients, or
listens on 1 and has a full table after one, as descriptor 0 was free or taken. With two
descriptors two Clients may or may not find one each, descriptor 0 among them, and a closed one is taken again by
the other while the threads of the first still use its number. Two Clients that hold a descriptor other than 0 each, before either is
deleted, need three: that too passes, in a time close to what a run may take. `Unread` is one
Client: what becomes of the other's threads shows how peers differ. Six values of a byte bring the limit of a blob's size, 34 bytes, below the 37 of the longest
context, so that the assertion decides; four bytes then still count to 1296, more than three
messages take. `Spare` gives the buffer 25 bytes more or none: with room to spare a stale size is read
to the end, without it a message that grew may be written behind the buffer (`"outside"`).

Each property has a mutant in `PROJECT.json`: a variant of one definition, written
beside it in the module, with which TLC finds the property violated.

## 4. What is proved

`ConnectionEndpoint_proofs`, for all values of the constants, from the assumptions
named in `Socket` and `ConnectionEndpoint` (peers are mutual, scripts are bytes,
the Client's period fits 16 bits, bounds are naturals):

* `TypeCorrect`: `Spec => []TypeOK`. Besides the shape of the state it says that what
  comes from the wire, however cut, stays in range: two bytes give 16 bits, three
  times 16 bits is a natural number, half of 16 bits is 16 bits.
* `SendsFrontAlways`: `Spec => []SendsFront`, of a deque that is not torn.

The inductive invariant is `LInv == TypeOK /\ BodyRead /\ MessageTaken /\ SendsFront /\ Carried`.
`TypeOK` alone is not inductive: that the heartbeat time applied at line 147 is a
16-bit value needs that the buffer holds two bytes there (`BodyRead`), and
that what is encoded at `send` is a message needs that the copy of the front was one
(`MessageTaken`); both relate a thread's program counter to what it carries.
`SendsFront` is inductive because, as long as the deque is not torn, each thread other than the
send thread leaves the queue alone or appends to it (`Appends`), which keeps the head of a non-empty
queue, and the send thread itself moves from `front` to `pop` without touching it. `Carried` says that
what a pusher is about to queue is a message.
The proof has one lemma per thread and part of the invariant, and one for each kind
of step the invariant does not feel. On it rest:

* `LifecycleImplemented`: `Spec => ImplementsLifecycle`, the refinement. The invariant adds what the
  owner knows after each join (`Ending`): that the flag is down, that the receive thread and then the send
  thread have ended. A step then is classified by what it moves of the flag, the two threads
  and the owner, and the rest leaves `Lifecycle`'s variables alone (`Unmoved`).
* `OnePusherAlways`: `Paired => (Spec => []OnePusher)`, where `Paired` says that each Client is
  connected to a Server's endpoint of the model. Its invariant is `Quiet`: while an owner has yet to
  finish its push, nothing is on the wire, in a queue or in a thread of either side that could start a
  supervisor. Without `Paired` the property is false: in `EndpointRace` two pushes overlap.
* `NeverTornBetweenPeers`: without `Paired`, the deque of an endpoint whose peer is an endpoint of the model is
  never torn, and `SendsFront` holds of it without a condition (`Untorn`). It needs that of two such endpoints one at most is
  a Client's, and `IInv == LInv /\ Quiet /\ Untorn`.

* `MisreadIsFinalAlways`: `Unambiguous => (Spec => []MisreadIsFinal)`, for any scripts and with `recv` returning any part
  of what it was asked for. `Unambiguous` says that wherever a script has a sync byte and, seven bytes on, the type of a
  KeepAlive, there is a whole heartbeat, neither byte of whose time is 59, the sync byte. That is needed: with
  heartbeats of 59 seconds TLC finds the property violated, for a reader that is a byte early applies 256 seconds,
  takes the 59 for a sync byte and goes on. The invariant, `ReadInv`, follows the reader through the script (`ReadFrom`):
  the stream is the rest of a script from some byte on, what is in the header buffer lies behind a sync byte
  there, a body is read only behind a real heartbeat's type (a short read leaves zeros, never a 4), and so what is applied is that
  heartbeat's time, or ends one or two bytes before it does. In that case the next byte belongs to the time, and
  the receive thread has to return (`Doomed`).

`WorkQueue_proofs`, for any callers, workers, functions and number of calls:

* `TypeCorrect`: `Spec => []TypeOK`, of which the heart is that an empty function is never
  called. It needs to know which thread can be where (`Roles`) and that the worker goes to
  `run` only with a function (`Callable`).
* `ExecutorImplemented`: `MaxStarts <= 1 => (Spec => ImplementsExecutor)`, the refinement. The
  invariant adds that critical sections exclude each other (`Mutual`), that one worker at
  most was created, and none while `Start` is about to (`OneWorker`), that the flag falls once
  (`Flag`), that after the join nothing runs (`Closed`), and that what the worker runs and
  pops is the front (`Carried`). Each action then is a step of `Executor` or leaves
  `Pending`, `ran` and `State` alone; `QueuePush` needs that a push changes neither the head nor
  what the tail lacks (`AppendKeepsHead`).

`Server_proofs`, for any clients, addresses, descriptors and backlog:

* `TypeCorrect`, `ResourcesAlwaysAccounted` and `EndIsClean`, from one invariant: the accept
  thread runs from the end of the constructor to the join (`Joined`), a joined thread
  that runs belongs to the vector or to the client about to be put there (`Tracked`),
  the constructor's socket is new (`SetupHolds`), the listening descriptor is nobody
  else's (`Apart`), and a client is connected and accepted once (`Once`). That the lowest free
  descriptor exists (`LowestIsFree`) is the well-foundedness of the natural numbers.

`Client_proofs`, for any number of Clients, threads of the application, addresses and descriptors:
`TypeCorrect`, `ResourcesAlwaysAccounted` and `OwnConnectionAlways`, from one invariant. Neither of the two properties is
inductive without the other: what a thread can reach depends on which descriptors its Client holds. The
rest is what each thread finds at each place (`Placed`: which locals are set, that a descriptor of 0 has no
threads, that the threads are gone after the joins), that a thread of the application is in one
constructor or destructor at a time (`OneAtATime`), and that only descriptor 0 is inherited.

`ListExchange_proofs`, for any messages, vectors and buffers:

* `TypeCorrect` and `WalkAlwaysAdvances`, from an invariant that says the header that is read is the one
  that was written (`Headed`) and the counts agree (`Counted`). They hold whatever the sizes are,
  stale ones included.
* `RoundTripAlways`: for every `n` such that no message takes more than `n` bytes and `MaxMessages * n`
  fits in 32 bits (`Fits(n)`), `Spec => []RoundTrip`. Without such a bound the sum of the sizes wraps around, and the property is
  false. The key lemma is `MessageWritten`: a message written anywhere in a buffer, with its size computed, takes just that many bytes
  and is read back. The invariant then lays the messages out behind each other: there are offsets, sums of the size
  fields, at which each message written so far is in the buffer (`Stored`).
* `StaleSizeIsLocalAlways`: for every `n` below 2^32 such that no message takes more than `n` bytes (`Small(n)`),
  `Spec => []StaleSizeIsLocal`. The list as a whole may take more. Here a message is written with more bytes than its size
  says, and the next one is put over the excess, or with fewer, and what is behind it is anything. The key
  lemmas are `MessageDivided`, that a message's bytes are its fixed part, the vector and what comes from neither, and
  `ReadsStale`, that a reader who finds the first `size` bytes of a message (`Begun`) gets all of it back but for the
  vector, which is cut or filled up to the size. The invariant, `LInv`, then says where they are: while lists are written
  and read, each message lies at the sum of the sizes before it, and `Left` of it in the buffer are as many bytes as its size says (`Rows`).
  It needs `Ranked`: a size is that of an earlier state of the message, which had the same fixed part, or was never computed; messages
  whose size is 0 are the last of the list, and all written at one place, where the reader finds a size of 0 and throws.

`KeepAlive_proofs`, for any endpoints, period, bounds and delay. Its theorems assume `Steady`: that `recv` returns
all there is (`Fragment = FALSE`, without which `Agreement` is false, as a cut message may be taken for a
heartbeat of another period), and that a peer outside the model sends whole heartbeats of the Client's period and
at most one other message, a command say, or the beginning of one (`OneOther`). Of that message the endpoint reads the header, and
what is behind it must not begin with a sync byte, so that the reader loses its way. Of
endpoints connected to each other it asks no more. `MaxLag < Bound` says that no bytes are under way for longer
than three periods and one nap.

* `AgreementAlways`: `Spec => []Agreement`, for the untimed specification, hence for any schedule.
* `TimedImplementsSpec`: `TimedSpec => Spec`. What is proved of `Spec`, `Agreement` and the two
  refinements included, holds in time.
* `DetectionBoundAlways` and `SupervisorEndsAlways`: `TimedSpec => []DetectionBound` and `[]SupervisorEnds`, the latter of a
  supervisor whose object is still there.

There are two invariants. `AInv` is about values. On the wire (`Wire`): the bytes an endpoint has yet to receive are
the rest of a row of heartbeats of `StartTime`, cut just where its receive thread is in reading the
first (`Whole`), perhaps with that other message behind (`OneOther`); or it has read its sync byte and finds no other (`Lost`); or it will never read again (`Ended`). That a connection told of its end gets no more bytes is `Gone`;
that a closed descriptor does not come back to life in the middle of a `recv` is `Held`. In the endpoint (`Says`): nobody
pushes before `heartbeatTime` is `StartTime` (`Timely`), so every message anywhere carries it. The two
parts need each other, of different endpoints: what one says is what the other reads. `BInv` is about time: how old the last message may be at each
place of the supervisor's loop (`Watching`) and of the receive thread's (`Reading`). A second passes only where a thread waits, so the
supervisor's nap is all that grows, and a thread in the middle of a heartbeat waits for bytes that are there, for
`MaxLag` seconds at most.

`Connection_proofs`: `PipeImplemented`, that `Steady /\ Joined => (Spec => ImplementsPipe)`, for any
number of connections, any period, buffer and queue. `Joined` says the endpoints are connected to each other, and
as two Clients never are (`RoleAssumption`), no deque is torn and what is queued is what was pushed. The
invariant is that of the earlier theorems (`IInv`, `AInv`) and that the supervisor is started
once (`Starts`). A step then is
a push, which appends, a step of the send thread, which moves bytes from the queue to the wire and leaves the content as it
is, a step of the receiver, which takes from the front, or one that cuts the connection or leaves it alone. For the first two
`Encoded`, the bytes of a row of messages, has to be shown to grow at the end by one message when one is appended, and to
give up its first when one is popped. It is written as a function of the position, and not as a fold, because
what a fold computes is out of the prover's reach.

`Timing_proofs`: `SendGapAlways` and `NoFalseTimeoutAlways`, for any number of connections, each from a Client to a
Server's endpoint (`Matched`), between which `Steady` holds. `Swift` asks for three things: a period of 2 or more (half of
1 is a nap of nothing, and a supervisor that never sleeps leaves no second to pass), a delay below the
period, and room for one message in the buffer. `NoFalseTimeout` needs `Roomy` too: that three periods are enough for
a period, a nap and twice the delay. With `StartTime = 2`, which is what `OcpClient.cxx:95` asks for, that is a delay of one second; TLC finds it violated with two.

The invariant, `PairInv`, is about the two ends of a connection as long as both do their part. There is one heartbeat of an endpoint at a time:
while one is made and queued, the one before it has been read (`Single`). What is on the way is no older than the
time since it was sent (`Young`). A supervisor is back from its nap before the last heartbeat is a period and a nap
old, and a Client's, whose first nap begins when the Server's answer arrives, before that and one delay (`Punctual`). So what was heard last is as old as what
the peer sent last, or what is unread is on its way (`Fresh`). The start is a part of its own (`Begins`): the Client is silent
until it has heard the Server, which is silent until it has heard the Client. Steps of threads are summarised by what they
change of the connection (`PairStep`), and a second passes only when nobody has anything to send (`Idle`). `SparedInv` draws the
conclusion for the supervisor that has compared the times and not yet acted.

The invariants of `ConnectionEndpoint_proofs`, `KeepAlive_proofs`, `Timing_proofs`, `WorkQueue_proofs` and `Server_proofs`, and `Ranked` and `Rows` of `ListExchange_proofs`, also hold as
invariants of TLC on the instances of the runs (those of `KeepAlive_proofs` on that of `KeepAliveSilent`, whose command
is one that `Steady` allows; the scripts of `EndpointFragments` are `Unambiguous`).

Every invariant that a run checks is stated by a theorem. Only model-checked are the liveness properties
(`WorkRuns`, `StopReturns`, `Served`, `BothSupervised`, `DestroyReturns`, `WindsDown` and the two `DestructorReturns`), which are
beyond the prover.

## 5. Not modelled

* googletest (`dep/gtest`), which is most of the lines in the repository, is vendored and
  part of no program but the tests; Waf (`waftools/`, `util/`) builds; `examples/hello` prints a line. (The two
  programs in `examples/KeepAlive` are what `EndpointPair` and `KeepAlive` run.)
* `OcaException` is thrown nowhere.
* The tests are read as statements about the code and as the callers of the codec and the queue.
* That memory or a thread cannot be had (`new`, `pthread_create`): the code does not look.
* What a function in a `WorkQueue` does when it is run, calls into the queue included.
* What becomes of the deque once two pushes have overlapped. That is a data race, hence undefined: the model calls the deque
  torn and lets every later use of it yield anything or end the process.
* That a deque is made of blocks: a push that needs a new block and a pop that leaves one, at the same time, would need about thirty
  queued messages. One pusher and one popper otherwise touch different words, which is what the model says of them.
* What a supervisor does that wakes after its object was freed (`astray`): it may do anything to the process, and no property claims that it ends.
* `getaddrinfo`'s choice of addresses and the reasons why a system call fails; that it may fail is modelled.
