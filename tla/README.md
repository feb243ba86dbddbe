# TLA+ verification of netpp

netpp is a C++20 network library for Linux: event loops over epoll, TCP servers
and clients, connections with byte-array channels, timers and a time wheel that
closes idle connections, a thread pool and a signal watcher. This directory holds
TLA+ models of these parts, the TLC configurations that check them, and TLAPS
proofs that the safety properties of all ten components hold for every value of
their constants. Paths below are relative to the repository (`src/...` in `PROJECT.json`).

To check a run: `tlc -config MCRunInLoop.cfg MCRunInLoop`. To check the proofs:
`tlapm RunInLoopProofs.tla`, and so on for every `*Proofs.tla`.

## 1. Inventory

| Component | State | Operations | Hard behaviour | What makes it correct |
|---|---|---|---|---|
| `EventLoop`, `EventLoopImpl` (src/EventLoop.cpp) | `m_loopRunning`, `m_handlers`, the active channels of a round | `run`, `runInLoop`, `add`, `remove` | several threads may call `run`; an exception leaves the loop, which may be run again; a round holds raw pointers to `EpollEvent`s | one thread at a time in a loop; no event of a destroyed handler |
| `RunInLoopHandler` | `m_pendingFunctors` under a mutex, an eventfd | `addPendingFunction` (any thread), `handleIn` (loop's thread) | the eventfd and the list are two steps; functors post functors and throw | order, no loss, no duplicate, every functor is called |
| `Epoll`, `EpollEvent` | `_events` (fd to event), `m_watchingEvents`, `m_activeEvents` | `updateEvent`, `removeEvent`, `poll`, `active`, `deactivate`, `disable`, `handleEvents` | level-triggered readiness; several handlers in one dispatch, the first of which may close the connection | registered iff the handler is alive and wants events; no pointer to a dead handler; a round fits its vector |
| `TcpConnection` | `m_state`, `m_isWaitWriting`, two wheel entries | `makeTcpConnection`, `handleIn`, `handleOut`, `handleRdhup`, `sendInLoop`, `closeAfterWriteCompleted`, `forceClose` | made on the acceptor's thread, lives on another; closes race (user, peer, idle timeout, half-close timeout, io errors) | the state machine only moves forward, `onDisconnect` once, a half-closed connection is closed in the end |
| `Channel`, `TcpChannel`, buffer conversion | two `ByteArray`s, a `weak_ptr` to the connection | `send`, `close`, reader, writer | which array is drained and filled by the socket | what the user wrote is sent |
| `TimeWheel` | buckets, timeout index, each entry's index | `addToWheel`, `removeFromWheel`, `renew`, `tick` | `onTimeout` comes back into the wheel; wrap-around; 0, 1, 2 buckets | an entry is called a fixed number of ticks after it was last renewed |
| `Connector`, `TcpClient` | `m_state`, `m_socket`, `m_timer`, retry interval | `connect`, `stopConnect`, `handleOut`, `reconnect` | non-blocking connect; a periodic retry timer; descriptor reuse | connected once; never stranded; stopped means silent |
| `ByteArray`, `CowLink`, `BufferNode` | nodes with extents, read and write node, two counters | `writeRaw`, `retrieveRaw`, typed variants, head move, allocation, copy | node boundaries; copies share nodes | a queue of bytes; counters equal extents |
| `SocketIO` | iovecs over a locked `ByteArray` | `read`, `write`, `adjustByteArray` | partial transfers | the read node never crosses the write node |
| `Acceptor`, `TcpServer`, `EventLoopDispatcher` | listening socket, `_acceptor` (a `weak_ptr`), loops, dispatch index | `listen`, `stopListen`, `handleIn`, `dispatchEventLoop`, `startLoop` | `listen` and `stop` are functors in a loop that may not run; `bind` fails in several ways; the pool may fail to start | stopping stops every acceptor; a waiting client is given to a loop that runs |
| `Timer`, `TimerHandler` | timerfd, interval, flags | set, start, stop, destroy, `handleIn` | expirations from before the last call; the descriptor is closed before the handler is removed; carry of nanoseconds | callbacks when due, not more often, none forgotten |
| `ThreadPool`, `ThreadSafeQueue`, `PooledTask` | queue, workers, two counters | `start`, `run`, `waitForDone`, destructor | notify against quit, a lost notification, two counters read one after the other | each task once; `waitForDone` returns when what was added is done; the destructor ends |
| `SignalWatcher`, `SignalHandler` | watched set, signalfd, the mask of one thread, the handler | `enableWatchSignal`, `watch`, `restore`, `with` | delivery against a changed mask; handover between loops over one descriptor | no signal stays pending; the last handler hears |
| `AsyncDnsHandler`, HTTP, `Uri` | — | — | unfinished in this commit (DNS, HTTP) or plain string handling (`Uri`) | not modelled |

How they interact. A loop's thread repeats: `epoll_wait`, then for every
reported `EpollEvent` (a raw pointer) `handleEvents`, which locks its handler and
calls error, in, out and other handlers in a fixed order. Other threads reach a
handler only through `runInLoop` functors, which capture `weak_ptr`s. An
`Acceptor` on one loop makes connections on another loop chosen by the
dispatcher, from its own thread. Every loop may own a `TimeWheel`, ticked by a
`Timer` of that loop. The full list of hazards, each at its line, is in
`PROJECT.json`.

## 2. Modules

| Module | Models | Composes or refines |
|---|---|---|
| `FunctorQueue` | what `runInLoop` promises: a queue, an exception loses a prefix | abstract |
| `RunInLoop` | `EventLoop::run`/`start`, `Epoll::poll`, `RunInLoopHandler` | implements `FunctorQueue` |
| `TcpConnection` | a connection with its acceptor, channel users, epoll event, round, functors, wheel entries, peer | uses what `FunctorQueue` and `WheelCountdown` promise |
| `WheelCountdown` | what the wheel promises: entries that count ticks down | abstract |
| `TimeWheel` | the wheel's buckets and indexes, `tick` one entry at a time | implements `WheelCountdown` up to an erase through an invalid iterator |
| `Connector` | a connector, its socket in the kernel, epoll keys, retry timer, functors | uses what `FunctorQueue` promises |
| `ByteQueue` | what a byte array promises: a queue of bytes | abstract |
| `ByteArray` | nodes, extents, counters, allocation, head move, copies that share nodes, two readers, the adjustments of socket transfers in both directions | implements `ByteQueue` until a node loses its extents or a transfer's node arithmetic goes wrong |
| `ThreadPool` | the pool, its queue, users, tasks that add tasks, and the owner | |
| `Epoll` | `_events`, the kernel's interest list, `EpollEvent`, the vectors of a round | what `TcpConnection` and `Connector` assume per descriptor, with the limits they leave out |
| `Timer` | a timer, its timerfd and handler, and the next owner of its descriptor | |
| `Signals` | `SignalWatcher`, `SignalHandler`, the thread with the open mask, the loops | what `RunInLoop` does when two functors are posted from another thread, wake-ups that get lost included |
| `Server` | `TcpServer`, `Acceptor`, `EventLoopDispatcher`, the loops and clients | composes loops, functors and the pool; uses what `FunctorQueue` promises |
| `MC*` | one small instance each | |
| `*Proofs` | TLAPS proofs; `ConnectionProofs` is about `TcpConnection` and `ByteArray`, `TimingProofs` about `Timer` and `TimeWheel`, the others about the module they are named after | each extends the modules it is about |

State and actions follow the code's names. A definition with the suffix
`Mutant...` is a deliberately faulty variant that no specification uses; it
documents which property notices that fault.

Atomicity. A step is what no other thread can see the middle of:

* `RunInLoop`: the eventfd write and the push are two steps; reading the eventfd,
  swapping the list out, and each call and return of a functor are one step each. The
  critical sections of `m_functorMutex` touch only the list, so each is a step.
  `Start` is the atomic test-and-set; `UserThrows` unwinds to `StartCatch`.
* `TcpConnection`: a handler, a functor or a tick runs to completion on the
  loop's thread, and others see only `m_state` and the reference count. The
  acceptor's four steps and the user's lock, post and release interleave with
  everything. `Alive` is the reference count: the connection is destroyed when no
  holder is left. Following a dangling or a null pointer leads to `"undefined"`
  or `"null"`, where the model stops: nothing is claimed after undefined
  behaviour.
* `TimeWheel`: `tick` takes a step per entry, since `onTimeout` of a half-close
  entry is `forceClose`, which removes entries from the bucket being walked. That
  entry is then erased through an invalid iterator (`badErase`), where the model
  stops. `TcpConnection` takes the wheel as `WheelCountdown` promises it, that is, as
  if such an erase did nothing.
* `Connector`: functors, handlers and the timer's callback are one step each; the
  answer of the network is a step of its own. `tcp` is the kernel's socket with
  its pending `SO_ERROR`, which `getError` clears; `keys` are the descriptors in
  `Epoll::_events`; a new socket takes any free descriptor, since other parts of the
  program open and close descriptors in between.
* `ByteArray`: every public method holds the mutex from beginning to end, so a
  method is one action. The loops over nodes are functions of the node's index.
  The typed methods are `writeRaw`/`retrieveRaw` of some length; bytes are numbered
  in writing order, so that any permutation, loss or duplicate is visible. A
  `ChannelReader` asks for the readable bytes and retrieves under two locks, so
  these are two steps. A copy shares nodes: `twin` names the node of the copy that
  is the same object, `Cow` replaces it before a write, with the bytes and without the
  extents, which is what `BufferNode`'s copy constructor does. `SocketTransfers`
  sends from the array through `ByteArrayReaderWithLock`, `SocketFills` receives into
  its free space through `ByteArrayWriterWithLock`; the iovecs, the system call and
  `adjustByteArray` are one step under the mutex. `lost` and `crossed` mark arrays that
  the code has damaged, `crossed` those whose transfer or fill was not exact
  (`AdjustExactIff`); they are not followed further. In this commit a connection
  receives through the reader (2 below), and the writer is driven by tests only.
* `ThreadPool`: every access to an atomic, every queue operation (under the queue's
  mutex) and every call on the condition variable is a step. `notify` reaches only
  threads that wait at that moment, and `wait_for` may end by its timeout.
* `Epoll`: a call of `active`, `deactivate` or `disable` is one step with its
  `epoll_ctl`, whose refusal (ENOMEM, ENOSPC) is a choice. A round is the sequence of
  pointers `epoll_wait` returned. Handlers are made with the lowest free descriptor.
  `Destroy` keeps to EpollEvent.h:57 ("must call this to remove event from epoll before
  destruction"), so that the stale key which Epoll.cpp:70-74 then runs into does not
  arise here. The classes that break the rule are modelled with what follows:
  `Connector` (`StaleKeyExplained`) and `Timer` (`OtherIsWatched`).
* `Timer`: a method is one step, and the clock advances between any two steps. The
  timerfd is a deadline, a period and an unread expiration. Times are multiples of
  the clock's nanosecond unit with a short second, so that the carry is reached.
* `Signals`: `watch` and `restore` hold the mutex, so each is one step; the thread
  that sets the mask, each functor, the read of the signalfd and each signal
  read are steps of their own. `with` posts the old handler's `stop` and the new one's
  `add`, and each post is two steps, the write of the loop's eventfd and the push. A round
  fetches functors only when it finds the eventfd readable. The calls of `with` are made
  one after the other (`m_signalHandler` has no lock).
* `Server`: the user's calls, each functor, each event and each thread's start are
  steps. An acceptor lives while its loop or a functor holds it.

## 3. Runs

| Run | Module, bounds | Result |
|---|---|---|
| `run_in_loop` | one producer, two runners, 2 posts each, 1 exception (71,851 states) | `TypeOK`, `OneLoopThread`, `PostOrderKept`, `NothingLost`, `DroppedNeverRuns`, `QueueSpec` (refinement), `LoopPostsRun` (liveness) hold |
| `lost_wakeup` | one producer, one runner, 1 post | `PostsRun` is violated |
| `connection` | one unit of data per buffer, one queued user functor, timeout 2, wheel or none (781,319 states) | `OutIffWaitWriting`, `NeverForgotten`, `DanglingExplained`, `DisconnectOnce`, `StateOrder`, `HalfCloseEnds` (liveness) hold |
| `write_completed` | as above, timeout 1 | `WrittenOut` is violated |
| `time_wheel` | two connections, wheels of 0 to 4 buckets (22,405 states) | `IndexNamesBucket`, `CountdownSpec` (refinement) hold |
| `connector` | two queued functors, 3 descriptors (2,128,965 states) | `NeverStranded`, `RemovedIsQuiet`, `ConnectedOnce`, `StaleKeyExplained` hold |
| `byte_array` | nodes of 2 bytes, up to 4 nodes, lengths 0 to 5, 8 bytes written, one copy at a time (49,924 states) | `CountersAreExtents`, `AdjustExactIff`, `CopyIntact`, `FifoUntilLost` (refinement), `InventedExplained` hold |
| `thread_pool` | three tasks, two workers, one user, one owner (125,227 states) | `WaitedTasksDone`, `EachTaskOnce`, `DestructorEnds`, `TasksRun` (liveness) hold |
| `epoll` | three handlers, 3 descriptors, vectors of 1 and 3 elements (697,875 states, up to symmetry) | `KernelPointsToLive`, `WatchedOrRefused`, `OverflowExplained` hold |
| `timer` | a second of 3 milliseconds of 2 units, 20 units of time (31,221 states) | `CallsAreDue`, `NothingForgotten`, `RefusedOnlyAtWholeSecond`, `OtherIsWatched` hold |
| `signals` | two loops, 2 handlers, 3 calls of watch or restore, 2 signals sent (236,362 states) | `HandoverKeepsWatch`, `MaskLagsOnlyThread`, `Answered` (liveness) hold |
| `server` | 0 to 2 loops, 2 acceptors, 2 functors per loop, one client (311,399 states) | `StopReachesAcceptor`, `ClientsServed` (liveness) hold |

Every module states its state space as `TypeOK`. Only `run_in_loop` lists it, where
it is part of the proved invariant; it holds in the other instances too
(`INVARIANT TypeOK` in the module's cfg shows it).

Why the bounds are enough.

* `run_in_loop`: two runners give two threads racing in `start` and a restart on
  another thread after an exception; two posts per thread give an order to keep,
  a functor that posts a functor, and a batch whose first functor throws while the
  second waits. The proofs drop the bounds altogether.
* `connection`: the queue of user functors is refilled as soon as it is fetched,
  so any number of sends and closes happens over a behaviour, before and after
  the close; the code tests buffers only for empty and non-empty, and a timeout of
  2 separates a renewed entry from one that was not.
* `time_wheel`: 0 to 4 buckets cover the wheel that is off, the single bucket, the
  two-bucket wheel whose latest bucket is also the next, and wrap-around in wheels
  with inner buckets.
* `connector`: three descriptors let a stale key and the reused number meet; two
  functors let connect and stop wait together in one batch.
* `byte_array`: a length of 5 spans three nodes of 2; four nodes allow two
  doublings and a head move of several nodes. `MaxNodes` and `MaxBytes` are in the
  guard of `Write`: behaviours that would need more are cut off. 8 bytes fill all nodes
  once and leave enough for writes after a head move.
* `thread_pool`: two workers race for one task and leave one asleep while the other
  works; three tasks let a running task add one while another is queued.
* `epoll`: sizes 1 and 3 stand for 4 and 32: a round can exceed the first, fall short
  of the second, or fill it and make both grow. Three handlers let a number be reused
  while a refused key of another stands. Handlers are interchangeable, so the
  symmetry is sound (no liveness is checked there).
* `timer`: a second of 3 milliseconds of 2 units lets an interval (0 to 5
  milliseconds) carry, not carry and hit the second exactly; 20 units are more than
  three seconds, so periodic timers fire, are restarted and stopped repeatedly.
* `signals`: two calls of `with` on equal or different loops are one handover, whose two
  posts can each lose their wake-up, and the second can find the functor of the first;
  numbers 1 and 2 can be watched, 34 has no enumerator. Two sends let a signal arrive
  before and after a change of the mask.
* `server`: two loops separate the caller's loop from the pool's; two acceptors give a
  second `listen`; loops of 0 and 1 have no pool.

`CHECK_DEADLOCK FALSE` is set where behaviours really stop: all calls made and
the loop blocked in `epoll_wait`, the connection gone, the connector served, the pool
or server destroyed, a bound used up, or a model that has reached undefined behaviour.

### Fairness

* `RunInLoop`: weak fairness of the push (a thread inside `addPendingFunction` is
  never blocked for good: the mutex is held for a few instructions) and of the
  loop's steps, where `epoll_wait` must return only when the eventfd is readable.
  Nobody has to call `run` or `runInLoop`, and other descriptors owe nothing.
* `TcpConnection`: weak fairness of the acceptor, of the loop's handlers and of
  the return of a `Channel` call. Strong fairness of polls that report the wheel's
  timer, which is periodic, and of polls that find the socket writable. Users and
  peer need do nothing.

* `ThreadPool`: weak fairness of every worker (scheduled by the system, and a task
  returns), of a thread inside `addTask`, and of the destructor's own steps. Users
  and owner need call nothing.
* `Signals`: weak fairness of the thread with the open mask, of a call of `with` that
  has begun (it waits for nothing but short mutexes), and of every loop, which wakes
  only for a readable eventfd or signalfd: a functor whose wake-up was consumed before
  its push has no claim to be run. Nobody has to call or send anything.
* `Server`: weak fairness of loops and pool threads whose `start` succeeded; strong
  fairness of `accept`, which the process cannot find without descriptors for ever.

The other modules state safety only.

### What the violations show

1. `lost_wakeup`: `addPendingFunction` writes the eventfd before it pushes
   (RunInLoopHandler.cpp:46). The loop can consume the wake-up and swap an empty
   list; the functor then waits for some other event, for ever if none comes.
   Functors posted by the loop's own thread do not have this problem
   (`LoopPostsRun`).
2. `write_completed`: `handleOut` drains `m_readArray`, while users write into
   `m_writeArray` (ChannelBufferConversion.cpp:13, TcpChannel.cpp:205): nothing is
   sent and `onWriteCompleted` is reported.

### Claims the code does not keep

These are stated in the modules and are not among the runs; adding the
definition to the module's cfg shows the behaviour.

* `TcpConnection!AcceptorNeverNull`: "connection ptr will not expire here"
  (Acceptor.cpp:62) is false when the connection's loop closes it first.
* `TimeWheel!EraseIsValid`: a half-close entry that times out removes itself, and
  `tick` then erases through an invalid iterator (TimeWheel.cpp:77), against the
  comment in line 72.
* `TcpConnection!HalfCloseRenewed`: `renewWheel` is to "refresh time wheel when received
  any data" (TcpConnection.h:97), and the half-close entry is to close a connection
  when "no data transferred" (137). The branch for it renews the idle entry
  (TcpConnection.cpp:209-210), so a half closed connection is closed a timeout after its
  half-close began, in the middle of a transfer too.
* `Timer!SingleShotWaits`: `setSingleShot(true)` on a running timer calls
  `triggerOnceIn(0)` (Timer.cpp:105), so the callback comes at once. TimerTest.cpp:203-206
  expects the timer to be armed for its interval, the comment above the call speaks of
  the interval only, and that of `changeIntervalTo` (Timer.cpp:27) says "not effect start
  value".
* `Connector!ConnectedIsConnected`: `handleOut` takes `SO_ERROR` 0 for connected,
  which an unconnected socket reports too (Connector.cpp:85).
* `Connector!StopStops`: EINPROGRESS is thrown past the assignment of `Connecting`,
  so `stopConnect` finds `Closed` and does nothing (Connector.cpp:52).

### Properties with exceptions

Some passing properties are stated with the exception the code really has:
`DanglingExplained` and `DisconnectOnce` name a send functor that runs on a closed
connection, a half-close timeout in the middle of a round, and a reset;
`RemovedIsQuiet` and `StaleKeyExplained` a late event of the same round and a
timer that fires while an attempt is under way. They show that nothing else leads
there.

* `AdjustExactIff` says exactly for which socket transfers `adjustByteArray` leaves
  the read node where the transfer ended (SocketIO.cpp:55): for instance not after N+1
  of N+2 readable bytes, where a remainder counts as a node more and the read node
  passes the write node. The writer's adjustment (SocketIO.cpp:98) is right only
  while the write node is and stays the last one (`ExactFill`). Its sizes are 64-bit integers that
  underflow; the model counts modulo `LengthModulus`.
* `CountersAreExtents` and `FifoUntilLost` are about arrays whose transfers and fills were
  exact so far: after any other one the code's counters are no extents any more, as
  `AdjustExactIff` says.
* `FifoUntilLost` ends also with the first node that is replaced because a copy shares it:
  `BufferNode`'s copy constructor does not take the extents, so what the node
  held is no longer readable. `CopyIntact` shows that the copy itself never suffers.
* `InventedExplained`: a reader gets fewer bytes than it checked for only if somebody
  else took some in between.
* `WatchedOrRefused`: a refused `epoll_ctl` leaves a key in `_events`, and every later
  update is a MOD of a descriptor that the kernel does not have.
* `OverflowExplained`: more than 4 and fewer than 32 events in one round are
  written past the end of `activeChannels` (EventLoop.cpp:103, Epoll.cpp:36).
* `CallsAreDue` and `NothingForgotten` except the one callback that `setSingleShot(true)` on
  a running timer hurries (`hurried`, see `SingleShotWaits`): it comes early, and once.
  `CallsAreDue` also excepts a timer whose arming the kernel refused.
* `RefusedOnlyAtWholeSecond`: `timerfd_settime` refuses a nanosecond field of
  1000000000 (Timer.cpp:185); `OtherIsWatched` excepts the window between the close of
  the timer's descriptor and the removal functor.
* `Answered`: a signal stays pending when it is watched and nobody hears (no `with`,
  `with` before `enableWatchSignal`, or a loop that was not woken for the last handler's
  functor: `WakeUpLost`, the fault of `lost_wakeup`), and always when `signalfd` failed, since every
  signal was blocked before.
* `StopReachesAcceptor`: an acceptor that a second `listen` overwrote is never
  stopped (TcpServer.cpp:24). A failed `bind` leaves the acceptor in the loop, where its
  HUP is reported without end; `stop` reaches it there too.
* `ClientsServed`: `startLoop` ignores a failed `start` (EventLoopDispatcher.cpp:57), so
  clients go to loops that no thread runs.

`HalfCloseEnds` is about loops with a wheel and about connections that transfer data
finitely often: it holds for the code, whose half-close timeout nothing restarts, and
would hold for a `renewWheel` that restarts it at every transfer, as documented. What it
excludes is that an event which transfers nothing, such as the level-triggered end of
file, keeps the connection. Without a wheel, a connection closed by the user is never
closed: RDHUP is no longer watched, and `handleIn` does not look at the end of file. It
also holds because `SocketIO::write` finds nothing to send (2): once data is sent, a peer
that stops reading could keep a pending write, and with it the connection.

## 4. Proofs

Eight modules prove that the safety properties of the runs hold for every value of
the constants. Two of them are about two components each, which is why `ByteArray`
and `TimeWheel` call their specifications `ArraySpec` and `WheelSpec`.

| Module | Theorem | Statement |
|---|---|---|
| `RunInLoopProofs` | `TypesOK` | `Spec => []TypeOK` |
| | `LoopIsExclusive` | `Spec => []OneLoopThread` |
| | `OrderIsKept` | `Spec => []PostOrderKept` |
| | `NothingIsLost` | `Spec => []NothingLost` |
| | `DroppedStaysDropped` | `Spec => []DroppedNeverRuns` |
| | `ImplementsQueue` | `Spec => QueueSpec`, the refinement of `FunctorQueue` |
| `ConnectionProofs` | `ConnInvariant` | `Spec => []ConnInv`, types included |
| | `OutIffWaitWritingTheorem`, `NeverForgottenTheorem`, `DanglingExplainedTheorem`, `DisconnectOnceTheorem` | `Spec => []P` for each |
| | `StateOrderTheorem` | `Spec => StateOrder`, an action property |
| | `ArrayInvariant` | `ArraySpec => []ArrayInv` |
| | `CountersAreExtentsTheorem`, `AdjustExactIffTheorem` | `ArraySpec => []P` for each |
| | `InventedExplainedTheorem` | `ArraySpec => InventedExplained`, an action property |
| | `FifoUntilLostTheorem` | `ArraySpec => FifoUntilLost`, the refinement of `ByteQueue` |
| | `CopyIntactTheorem` | `ArraySpec => CopyIntact`, an action property |
| `ConnectorProofs` | `ConnectorInvariant` | `Spec => []ConnectorInv`, types included |
| | `NeverStrandedTheorem`, `RemovedIsQuietTheorem`, `ConnectedOnceTheorem`, `StaleKeyExplainedTheorem` | `Spec => []P` for each |
| `ThreadPoolProofs` | `PoolInvariant`, `TypeCorrect` | `Spec => []PoolInv`, `Spec => []TypeOK` |
| | `EachTaskOnceTheorem`, `WaitedTasksDoneTheorem` | `Spec => []P` for each |
| `EpollProofs` | `EpollInvariant` | `Spec => []EpollInv`, types included |
| | `KernelPointsToLiveTheorem`, `WatchedOrRefusedTheorem`, `OverflowExplainedTheorem` | `Spec => []P` for each |
| `TimingProofs` | `TimerInvariant` | `Spec => []TimerInv`, types included |
| | `CallsAreDueTheorem`, `NothingForgottenTheorem`, `RefusedOnlyAtWholeSecondTheorem`, `OtherIsWatchedTheorem` | `Spec => []P` for each |
| | `WheelInvariant`, `IndexNamesBucketTheorem` | `WheelSpec => []WheelInv`, `WheelSpec => []IndexNamesBucket` |
| | `CountdownTheorem` | `WheelSpec => CountdownSpec`, the refinement of `WheelCountdown` |
| `SignalsProofs` | `SignalsInvariant` | `Spec => []SignalsInv`, types included |
| | `HandoverKeepsWatchTheorem`, `MaskLagsOnlyThreadTheorem` | `Spec => []P` for each |
| `ServerProofs` | `ServerInvariant` | `Spec => []ServerInv`, types included |
| | `StopReachesAcceptorTheorem` | `Spec => []StopReachesAcceptor` |

### Assumptions

The bounds are naturals (`BoundsAssumption` and the like), and "no value" constants are
not values (`NoneAssumption`, `NoHandlerAssumption`, `NoInterestAssumption`,
`NeverAssumption`, `LoopsAssumption`). The rest:

* `RunInLoop`, `ThreadsAssumption`: no thread is producer and runner at once; a runner
  outside the loop can be regarded as another producer.
* `TcpConnection`, `TimeoutAssumption`: the idle timeout is at least one tick.
* `ThreadPool`, `CallersAssumption` and `WorkersAssumption`: the user is no worker, and
  there are finitely many workers, `threadNumber` of them; without that
  `m_activeThreads` would have no value.
* `Epoll`, `SizesAssumption`: both vectors have at least one element.
* `ByteArray`, `SizesAssumption`: a node has room for a byte, and `LengthModulus`, which
  stands for 2^64, is greater than the bytes that `MaxNodes` nodes and one more hold: an
  array whose sizes wrapped around would not fit into memory.
* `Server`, `BoundsAssumption`: there may be a loop.
* `Timer`, `UnitsAssumption`: a second has milliseconds and they have units;
  `ClockAssumption`: the bound of the clock lies behind its first moments, which only
  the types need.

TLC evaluates all of them in the runs.

### Arguments

Hardly any of the properties is inductive by itself. Each module names its
inductive invariant, which TLC has checked on the instance of the module's run (put
`EXTENDS ...Proofs` in place of the MC module's and the invariant in its cfg).

**`RunInLoop`**

* `LoopInv` = `TypeOK`, `PostingBounded` (a thread between wake-up and push has
  a call left), `FlagCovers` (a thread in the loop implies `m_loopRunning`),
  `OneLoopThread`, and `BatchInHandler` (only a thread in the handler's call loop
  has a batch). `FlagCovers` makes the test-and-set exclude a second thread;
  `BatchInHandler` with `OneLoopThread` makes `Fetched` the one batch there is, so
  that `Waiting` is well defined.
* Lemmas `WaitingStep` and `LineStep` reduce every action to what it does to
  `Waiting` and to `Line`, the called functors followed by the waiting ones: a push
  appends, a call moves the first waiting functor over, a throw cuts the batch
  out, everything else leaves them.
* `OrderInv` = `PostOrderKept`, `Counted` (a functor in `Line` has a number its
  thread has posted), `DroppedCounted`, `DroppedNeverRuns`, `NothingLost`.
  `Counted` is what makes an appended functor new (`FreshFunctor`). `OrderedAppend`
  and `OrderedCut` are the two facts about sequences: appending a fresh functor and
  cutting a middle piece out keep the order.
* `QueueStep` maps every step to `Post`, `Call`, `Lose` or a stutter.

**`TcpConnection`**: `ConnInv` = `TypeOK`, `QuietInv` and `NeverForgotten`. `QuietInv`
adds what the code never writes down: until the acceptor has handed it over a
connection is unknown to everybody, it is in its loop until closed, a batch exists only
in the functor handler, OUT is watched only when a write waits, and a closed connection
is quiet unless a send functor revived it. `DanglingExplained` and `DisconnectOnce` need
these to exclude every cause but the ones they name; `NeverForgotten` needs that a
close functor stays in the queue until it is run (`TailKeepsClose`).

**`TimeWheel`**: entries in a bucket exist, a wheel that ticks has buckets, and the
index names the bucket. The refinement needs arithmetic modulo the number of buckets:
the distance from the bucket that is due to an entry's bucket is the number of ticks left
(`TicksTo`), `renew` makes it the whole period, and `tick` makes it one less for all
entries at once.

**`Connector`**: the run's four invariants with six facts about the attempt: a timer's
event in a round has its timer, the kernel watches a socket only on behalf of its key, a
key that the kernel has forgotten belongs to a retry or to the connection made, nothing
calls a connector that has handed its socket over, `onConnected` comes with the handing
over, and an attempt that was given up is no longer watched.

**`ThreadPool`**: `Places` says that every pushed task is in exactly one place (queue, a
worker between pop and return, finished); `Counters` that `taskCount` and
`m_activeThreads` are the cardinalities of the sets of tasks not begun and of workers
that are counted. `WaitInv` carries what the first read of `waitForDone` has shown to its
second: a task it waits for is finished or its worker is counted, because a worker
counts itself before it takes the task off `taskCount`.

**`Epoll`**: handlers that live have descriptors of their own (`OwnFd`), and a key of
`_events` belongs to the living handler with that descriptor. Both are needed where a
number is reused.

**`Timer`**: the arithmetic first. `SumOfFields` and `FirstTriggerMoment` show that
the two fields add up to the moment asked for, or that the field is one whole second;
`OneUnit` that a unit of time either reaches the next deadline and makes one more timeout
due, or changes nothing. They rest on the uniqueness of quotient and remainder.
`TimerInv` then has two halves: `WaitingIsDue` counts an unread expiration as a call
(`CallsAreDue` alone says nothing of it), `StoppedIsQuiet` and `ArmedAsAsked` say what
the timerfd holds when the timer is stopped or runs; `FunctorPending` and `KeyIsClean`
follow the removal functor and the key.

**`Signals`**: `HandoverKeepsWatch` speaks of the moment when all queues are empty.
`QueuesLeadToWatch` says for every moment what each queue, with the functor whose eventfd
is written and that is not pushed yet (`Coming`), will leave behind: its
last functor of a handler that is not deaf decides, or, when there is none, what is
registered already; between the two posts of `with`, nobody (`Wanted`). No wake-up is
mentioned: a functor whose wake-up was lost stays in its queue. `AppendDecides`,
`AppendIgnored` and `RunHead` are the facts about queues it needs.

**`Server`**: the acceptors' functors are in the queue of the acceptor's own loop
(`AtHome`), an acceptor in a loop has been made (`InLoopMade`), every acceptor that was made
is the one `_acceptor` names or was overwritten by a later `listen` (`KnownOrOrphan`), and
only a loop that runs has a batch, and none runs before `startLoop` (`BatchRuns`).
`StopComes` says of one acceptor, wherever its `stop` is, that no functor of it comes
later: taking the first functor of a batch and fetching a batch keep that.

**`ByteArray`**: `ArrayInv` says that an array that has lost nothing and has not crossed
has its `Shape`, that only an array with a copy can have lost extents, that without a
copy no node has a twin, and that the bytes a reader has checked stay unless somebody
overtook it. `Shape` is in three parts:

* `Typed`: the fields and extents have their types.
* `Extents`: what is readable has no gaps. It goes from the read node's start to the
  write node's end; nodes from the read node up to the write node are full, nodes
  behind it empty, and the write node has room.
* `Counted`: `availableSizeToRead` is the distance from the read node's start to the write
  node's end, `availableSizeToWrite` what is left behind it.

The operations' loops are recursive functions over the interval of nodes they walk. What
such a loop has computed at a node is shown by induction in the form of sets: if it were
wrong somewhere there would be a first node where it is (`IntervalInduction`, from a least
element of a nonempty set of naturals), and there the one step of the loop contradicts
it. No library theorem with an operator parameter is needed. `ReaderVisitsAre` and its
like then say in closed form at which node a transfer of `n` bytes ends, and
`AdjustExactIff` compares that with the arithmetic of `adjustByteArray`.

For the refinement the contents are read by place: byte `k` of the queue lies at place
`start + k`, counted over all nodes (`ContentsAre`).
Head move and allocation then keep the bytes by a shift of the places, a retrieve moves
the first place, a write adds places behind the last (`MoveHeadContents`,
`AllocContents`, `RetrieveContents`, `WriteContents`), an exact fill leaves the array that
a write of the same bytes would have left (`ReceivedIsWritten`), and every action is a `Write`,
`Retrieve` or `Send` of `ByteQueue`, the last also with no bytes (`FifoStep`).

`CopyIntact` is claimed for an array that has lost extents too, of which `Shape` says
nothing. `SharedInv` is the invariant it needs, as long as the read node has not crossed
the write node, after which the model takes no step. Of the array it keeps only that the
read node is not past the write node (`Placed`) and that no node from there on ends before
it starts (`Ordered`). Of every node still shared it says that the copy has the same bytes,
the same start where the copy reads first, and had read what the array has read (`Linked`).
An operation keeps `Linked` when every node still shared afterwards comes unchanged from a
node of the old array, or from one that was read before and may be reset (`Follows`). That
is shown of the head move, the allocation, the write, the retrieve and the adjustment
(`MoveHeadFollows`, `AllocFollows`, `WriteFollows`, `RetrieveFollows`, `AdjustFollows`),
and it composes (`FollowsOn`). A node the copy has still to read is therefore replaced
before it is changed, and the copy's contents stay (`CopiesKept`).

### Only model-checked

* Liveness (`LoopPostsRun`, `HalfCloseEnds`, `DestructorEnds`, `TasksRun`, `Answered`,
  `ClientsServed`, and the refuted `PostsRun`): fairness and ENABLED are out of the
  prover's reach.
* The refuted `WrittenOut`, and the claims of section 3 that the code does not keep.

## 5. Left out

* `RunInLoop`: `wakeUp` failing, and a second loop.
* `TcpConnection`: ENOMEM (`ResourceLimitException`), the data race inside the
  wheel's containers when the acceptor's thread adds an entry, the wording of
  callbacks. User callbacks return and do not throw here; `RunInLoop` models
  exceptions.
* `TimeWheel`: what follows an erase through an invalid iterator, the timer's start, and
  the lifetime of connections, except that a removed entry is expired.
* `Connector`: the timer descriptor's own registration, exceptions of socket
  creation, and the EINPROGRESS branch of `getError`. `Answer`, and what
  `epoll_wait` reports of a socket, model the kernel.
* `ByteArray`: after a copy only one of the two arrays is used, and there is at most
  one copy at a time; what follows an inexact transfer or fill; moving an array;
  `SequentialByteArrayReaderWithLock` (HTTP only); byte order of the typed methods.
* `ThreadPool`: tasks that throw (a `packaged_task` keeps the exception for its
  future), and a second call of `start`.
* `Epoll`: the data race on `_events` between the acceptor's thread and the loop's,
  which has no bounded set of outcomes.
* `Timer`: calls by several threads at once (the class has no locks), callbacks that
  throw, which Timer.h:34 forbids (`onTimeOut` logs the exception and throws it again,
  Timer.cpp:74, so it leaves the loop; `RunInLoop` models what follows).
* `Signals`: real-time signals' queueing, `with` called by several threads at once.
* `Server`: several user threads, and what accepted connections do (`TcpConnection`).

### Not modelled

* DNS: unfinished in this commit; the handler's constructor follows a null pointer, so
  there is no state behind it.
* HTTP: `HttpClient` and `HttpServer` are empty; the parser hands one call's
  characters to `llhttp`, whose source is not part of the repository, and keeps
  nothing between calls. `HttpRequest`, `HttpCode` and `Route` are tables and accessors.
* `Uri`, `Address`, errors and logging are conversions of strings without state.

## 6. Plan

Done: every stateful component of the table in section 1, and the safety properties of
all of them as theorems. What could follow: a second array over the
shared nodes, so that both halves of a copy are used, and the composition of
`TcpConnection` with `ByteArray` once `handleOut` drains the array that users write.
