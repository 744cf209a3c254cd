# A verification project for mymuduo

TLA+ models of mymuduo, a multi-reactor C++ network library, with the TLC runs
that check them on small instances and the TLAPS proofs that hold for every
instance. Source references are to files of the repository (`EventLoop.cc:128`).

## 1. The system

A `TcpServer` lives in one thread, the *base loop*, and has a pool of *io
loops*, one per thread. The base loop accepts connections, keeps them in a map
and turns a timer wheel; each connection belongs to one io loop, which polls its
socket and runs its handlers. Threads talk to a loop by queueing functors. A
back-end thread writes the log.

```
            accept                   connectEstablished, connectDestroyed
  Acceptor --------> TcpServer ---------------------------------> io loop
                      |    ^  removeConnectionInLoop                | poll
        updateConn.   v    +----------------------------------------+ dispatch
                  TimerWheel ---- ~Entry: shutdown() ------> TcpConnection
  any thread: send(), shutdown() --- queueInLoop ---------->  (Channel, Buffers)
  any thread: LOG_* ----------> AsyncLogging::append ---> back-end ---> file
```

### Inventory

| Component | State | Operations | Hard behaviour | What makes it correct |
|---|---|---|---|---|
| **EventLoop** | `quit_`, `callingPendingFunctors_`, `pendingFunctors_` under `mutex_`, eventfd | `loop`, `quit`, `runInLoop`, `queueInLoop`, `wakeup`, `doPendingFunctors` | pushes and quits from any thread between any two steps of the loop | no lost wakeup; functors run in order, each once; a running loop can be stopped |
| **Channel, EpollPoller** | `events_`, `index_`; `channels_`, `events_`; the kernel's epoll set | `enable*/disable*`, `remove`, `updateChannel`, `removeChannle`, `poll` | three records of one registration; descriptors reused; a full event list | the records agree; epoll_ctl never fails; nobody starves |
| **TcpConnection** | `state_`, channel, two buffers, callbacks, `context_` | `send`, `shutdown`, `connectEstablished`, `connectDestroyed`, four handlers | partial writes, resets, half-close, calls from other threads, ownership through functors | the stream is whole and in order; one down callback, nothing after it; never used after it is freed; always reclaimed |
| **TcpServer** | `connections_`, wheel, pool, acceptor | `start`, `newConnection`, `removeConnection(InLoop)`, destructor | close on the io loop, removal on the base loop, destruction of the members while io loops run; all of it on one thread when there is no pool | no connection forgotten or freed too early; every closed one gives its descriptor back; the destructor returns and leaves nothing behind |
| **TimerWheel, Entry** | a deque of sets of entries, a weak link in `context_` | `onTimerTick`, `updateConnection`, `~Entry` | ticks against clock seconds, entries in several buckets, several threads without a lock | active connections spared, silent ones shut down in time |
| **EventLoopThreadPool, EventLoopThread, Thread** | `loops_`, `next_`; `waitStarted_`, `loop_` | `start`, `startLoop`, `getNextLoop`, `threadFunc`, destructors | publication of the loop, quit against start and end of the loop | no dangling loop, no thread left behind, an even deal |
| **Buffer** | a vector, two indices | `append`, `makeSpace`, `retrieve*`, `readFd` | moving against growing, a read that spills | a queue of bytes; indices in range |
| **AsyncLogging** | `currentBuffer_`, `nextBuffer_`, `buffers_` under `mutex_`, two local spares | `append`, `start`, `stop`, `threadFunc` | swap against append, lost notify, shutdown | every line once, in order; no missing buffer; `stop()` flushes and returns |
| **Acceptor** | listening channel | `listen`, `handleRead` | one connection for each report; at the descriptor limit only the level-triggered channel brings it back | nobody waits for ever |
| **Logger** | `loglevel_` | the macros, `setloglevel`, `log`, `exit()` of `LOG_FATAL` | one level shared by all threads; `exit()` while others log | no stale level; the fatal line is written |
| Socket, InetAddress, Timestamp, CurrentThread | — | wrappers, formatting | — | not modelled |

`PROJECT.json` lists the hazards of this code, each at its line, with the
properties aimed at it, and those no property covers yet with the reason.

## 2. The modules

`M` has the state and the actions, `MCM` gives it to TLC, `MProofs` holds the
theorems. The order is that of the plan: the loop first, because all the others
rest on it, then what it polls, then connections, then the rest, and last the
server that is made of all of them.

| Module | Models | Rests on |
|---|---|---|
| `Executor` | abstract: what a loop promises, a FIFO executor | |
| `EventLoop` | one loop and any number of calling threads | |
| `Channel` | operators: interest mask and registration of a channel | |
| `Poller` | EpollPoller, its channels, the epoll set, descriptors | `Channel` |
| `TcpConnection` | a connection with io loop, base loop, workers, peer, server | `Channel`; the queues are those of `Executor` |
| `Countdown` | abstract: what a timer wheel promises, a countdown for each entry | |
| `TimerWheel` | the wheel on the base loop | |
| `AsyncLogging` | the log's front and back end | |
| `Logger` | the `LOG_` macros in front of it, up to the end of the process | extends `AsyncLogging` |
| `ByteQueue` | abstract: what a Buffer promises | |
| `Buffer` | the vector and its indices | |
| `EventLoopThreadPool` | the pool and its threads | `EventLoop`'s properties of quit |
| `TcpServer` | acceptor, map, wheel, loops and destructor of a whole server, with any number of connections and io threads | `Executor`, `Countdown`, `EventLoopThreadPool`, as below |

How they fit together. `TcpConnection` uses queues of functors that run in
order; that a loop is such a queue is `LoopIsFifoExecutor`. It takes a channel
to be in the epoll set exactly when its index is `kAdded`; that is
`EpollSetIsCurrent`. `EventLoopThreadPool` takes a loop that is in `loop()` to
end when `quit_` is set; that is `QuitStopsRunningLoop`. Buffers are sequences
in `TcpConnection`; that is `BufferIsByteQueue`. `TcpServer` has a number of
ticks for each connection instead of buckets; that is `WheelIsCountdown`. Its io
loops exist from `start()`, though their threads may not have called `loop()`
yet, to the pool's destructor, unless the user makes one quit, which `TcpServer`
leaves out; that is `HandedOutLoopsExist` with `PoolStarts`. `TcpServer` has the
pool's `quit()` and `join()` again, against all else that an io thread may be
doing. `Logger` extends `AsyncLogging`, and each of its steps is a step of it or
leaves it alone; that is `LoggerIsAsyncLogging`.

### EventLoop
A step is what a thread does between two accesses to shared state. `phase`
follows the loop's thread through `loop()`; `call[t]` is what a thread still has
to do of `queueInLoop` or `quit` after the flag or the vector has changed: the
eventfd write. User code runs on the loop's thread in four places (before
`loop()`, in a channel callback, in a functor, in the timer callback), and may
make any call there. `PollReturns` may report any ready channels; `PollTimesOut`
stands for `kPollTimeMs` and for an interrupted `epoll_wait`. Not in the model:
`~EventLoop`, return times.

### Channel and Poller
A channel is a record, a method what it makes of it. `Operation` and
`UpdateChannel` are the two halves of `EpollPoller::updateChannel`. `Poller`
has the kernel's side: `ptr` and `mask` are what epoll knows of each descriptor,
an `EPOLL_CTL_*` that does not fit sets `failed`. Owners close a descriptor only
after `remove()`, as the code does. `Poll` returns any choice of the reportable
descriptors that fits the list, and `ClearActive` empties the list of active
channels before the next one.

### TcpConnection
One connection of a server with a thread pool, from `newConnection` on. The io
thread is a sequence of polls, of *turns* (one handler each, in the order of
`Channel::handleEventWithGuard`) and of functors; a handler is one step up to
the user callback it makes, and within the callback the user sends and shuts
down as often as it likes. Other threads' calls take one step per access to
`state_` or to the queue. `sock` is the kernel's socket: what has arrived, FIN,
RST, SO_ERROR, SHUT_WR. A message is `MessageLen` units, and `write()` takes any
number of them that fits the send buffer. `Owned` says that somebody holds a
`shared_ptr`: the map, a queued functor, a functor of the running pass, a thread.

Abstractions: a functor of the base loop drops its reference when it returns, a
little earlier than in the code, and the lock on the channel's tie is not
counted, so that the model frees the object no later than the program does;
after `~TcpServer` the base loop runs nothing while the io loop goes on; the
wheel appears as up to `Expiries` entry expiries at any moment (its own module
and `TcpServer` say when they come).

### TimerWheel
`wheel_` is the deque of sets; an entry is a connection with a number, so that a
connection may have two (after the user has replaced `context_`). The clock is
what the code compares: `stamped` are the connections whose entry carries the
current second, `ticked` says that the wheel has advanced in this second. Ticks
may be late, as `EventLoop.cc:81` describes, and are at most one per second. An
expiry shuts down the connection that the weak reference still finds. `Countdown`
forgets the buckets: a timer has ticks left, and `TicksLeft`, the refinement
mapping, is the last bucket that holds the Entry. The module is of a server on
one thread; with io threads, two of them may be in the deque at once.

### AsyncLogging
A critical section is one step; `wait_for` is a step into the wait and one out
of it, by a notify or by the three seconds. Notifies reach only a waiting
thread. A moved-from pointer is `Null`, and following it in `append()` sets
`crashed`.

### Buffer
The vector is a function from indices to bytes, of any size; a method is an
operator on the record of vector and indices, and `readFd` receives any number
of bytes that its two areas hold. Callers are taken to ask for no more than there
is, as those in the repository do (`Buffer.h:55` would copy on).

### Logger
A macro is two steps of its thread: it sets the shared level, and later `log()`
reads it and appends. `beside` is a history variable: the lines that were being
logged when this one was, or since. The log is a variable of `main()` or a
global one: `exit()` runs the destructor of the latter only, so that `LOG_FATAL`
with a log in `main()` ends the process with what was not flushed
(`process = "killed"`). Lines may come after `stop()`: `AppendToNull` of
`AsyncLogging` is the `append()` that meets the moved-from buffer.

### EventLoopThreadPool
The base thread starts, uses and destroys the pool; each thread goes through
`threadFunc`. A critical section is one step, except the last, whose lock lasts
until the function returns. The loop itself is `quit_` and two places. The user
may make a running loop quit at any moment, which `userQuit` remembers: the
destructor reads `loop_` twice without the lock, and may find no loop, join
nothing and leave the thread to itself, or call `quit()` on a null pointer
(`crashed`). `~Thread` detaches a thread that was not joined.

### TcpServer
Where `TcpConnection` takes one connection apart into single accesses, this
module has the whole server at the grain of handlers: `newConnection` on the
base thread, the message callback, `handleClose` and the queued functors on the
connection's loop, `removeConnectionInLoop` on the base loop again, and the tick
at the end of a pass of the base loop. The number of io threads is chosen at the
start. Without any (`NextLoop = Base`) a functor for the connection runs inside
the call that makes it, as `runInLoop` does, and `shutdown()` likewise. A
thread publishes its loop and calls `loop()` after that
(`EventLoopThread.cc:51`, `:55`), so when `start()` returns the io threads are
before `loop()`, and so is the base thread; `EnterLoop` clears `quit`. A
dispatch works on what epoll reported when the poll returned (`active`), a pass
on what was queued when it began (`functors`). `Owned` holds for the map and for
every queued functor except that of `shutdown()`, which binds a plain `this`; a
connection that is not owned is freed, and its descriptor free again.

The destructor is a sequence of steps among those of the io loops: it empties
the map, destroys the wheel (whose entries call `shutdown()`, those of a bucket
in any order), tells one io thread after the other to quit and joins it
(`joining`), and takes the acceptor out of the poller. The order is that of the
members in `TcpServer.h`, backwards. A thread that calls `loop()` only after it
has been told to quit has forgotten it, and is joined for ever: `QuitForgotten`.
An io loop that ends drops its queue; the base loop is over and keeps its own.
Once the wheel has gone, a message callback on an io thread uses a destroyed
member: this is `lateUse`, and what follows it is what the program does if it
gets away with it.

`SameSecond` is the clock: the wheel leaves an entry alone that it has seen in
this second, in which it may have ticked since.

## 3. The runs

| Run | Instance | Checks |
|---|---|---|
| `loop` | 3 functors, 2 threads besides the loop's | the loop implements `Executor`; `NoLostWakeup`; `WakeupsSuffice` and `QuitStopsRunningLoop`, both without the poll's timeout |
| `poller` | 2 channels, 2 descriptors, list of 1 | the three records agree, no failed epoll_ctl, `NoReadyChannelStarves` |
| `conn_loops` | 2 messages of 2 units, send buffer 2, 2 units from the peer, both optional callbacks, 2 expiries, resets, `~TcpServer` | stream, lifetime, registration, callbacks, half-close, `ClosedIsReclaimed` |
| `conn_threads` | the same with a worker, send buffer 1, high-water callback, 1 expiry | stream, `OnlyQueuedSendsWriteLate` |
| `log` | `Logger`: 4 lines of 1, 1, 2 and 3 bytes, one of them fatal, 2 threads, buffers of 3 | buffers exist, order, notify, flush, `EveryLineWritten`, `StopEnds`, `LastWordsAreKept`, `LevelIsCurrent` |
| `wheel` | 2 connections, 3 seconds, 1 `setContext` | implements `Countdown`; spared, shut down in time |
| `buffer` | vector of 1+2, extrabuf 2, chunks up to 3, at most 4 bytes | indices; the buffer implements `ByteQueue` |
| `pool` | 3 threads, 2 uses each, destroyed and quit by the user at any moment | loops exist, `PoolStarts`, `PoolEnds` |
| `server` | 2 peers, 0 or 1 io thread, 1 or 2 descriptors, 2 seconds, destroyed at any moment, also before the io thread calls `loop()` | `PollersForgetFreed`, `WatchedOnBaseLoop`, `NothingLeftBehind`, `ClosedAreReclaimed`, `NobodyWaitsForEver`, `DestructorReturns` |

Why the bounds are enough. Two threads and three functors give a push while the
eventfd is drained, one during a pass and one after it. Two channels on two
descriptors give reuse of a descriptor by another channel, and of both at once;
an event list of one is full with the first ready channel. The send buffer and
the message lengths (each in its `.cfg`) make a write complete, partial or
impossible, and the high-water mark is crossed. Two expiries give two
`shutdown()` calls, on either side of a close, of the removal and of the
server's destruction; the worker's calls interleave with them. Buffers of three
bytes make a line fit with room to spare, fill the rest exactly, overflow into
the next buffer, or fit none. A wheel of three has a first, a middle and a last
bucket. In the server's run one io thread gives both ways a functor can go,
queued or called through, and two loops to be ahead of one another; one
descriptor for two peers makes `accept()` fail while another connection is still
on its way out, two let both be served; two seconds let a connection speak
between two ticks. Two logging threads are enough for one to set the level
between the two halves of the other's macro, and a third line to come when one
of the two has gone. The vector of three bytes with chunks of three makes every
append either fit, move or grow, and a read spill.

`CHECK_DEADLOCK FALSE` is set for connections (a freed connection does nothing
more), the log (the process has ended), the pool and the server (destroyed). The
loop, the poller, the buffer and the wheel go on for ever and are checked for
deadlock.

### Runs that are expected to fail

Each states what a comment of the repository says, quoted in `PROJECT.json`.

| Run | Statement | What happens |
|---|---|---|
| `conn_stuck_output` | `OutputDrains` | `isWriting()` is false while the channel also reads (`Channel.h:50`), so `handleWrite` never writes what a partial write left |
| `conn_freed` | `ShutdownFindsConnection` | the functor of `shutdown()` binds a plain `this`; a dying server's wheel queues it behind `connectDestroyed` |
| `server_unwatched` | `EstablishedIsWatched` | the wheel counts from `newConnection`, not from `connectEstablished`: an entry that expires before the io loop gets to it finds `kConnecting`, does nothing and is gone |

### What the conditions in the properties leave out

Some properties of passing runs hold under a condition they state. Each
condition is a behaviour of the code, met while modelling:

- `~sock.rst` in `DownCallbackOnce` and `NoMessageAfterDown`: a reset is
  reported as error, hang-up and input together; `handleError` and `handleRead`
  each call `handleClose`, so that the down callback comes twice, and unread data
  is delivered between (`Channel.cc:61`, `TcpConnection.cc:220`).
- `QueuedSend` in `OnlyQueuedSendsWriteLate`: a worker's `send()` tests
  `kConnected` and queues; when its functor runs, `sendInLoop` tests for
  `kDisconnected` only (`TcpConnection.cc:71`), and so it writes behind the
  `SHUT_WR` of a `shutdown()` that came between, although the comment above the
  test says 「之前调用过shutdown不能再发送了」, after a `shutdown()` one can send
  no more (`TcpConnection.cc:70`). The property says that nothing else does, and
  that with any number of workers. It is about the time up to the down callback
  (`downs = 0`): later a queued `send()` may have brought the channel back, see
  the next entry.
- no worker in the run of `NoUseAfterFree` and `EventsFindConnection`: a
  worker that calls `shutdown()` and drops its reference leaves the same plain
  pointer in the queue as the wheel of `conn_freed`; and a worker's queued
  `send()` that runs behind `connectDestroyed` registers the channel again when
  its write is partial and a `shutdown()` has put `kDisconnecting` over
  `kDisconnected` (`TcpConnection.cc:71`, `:112`, `:120`). The same leads past
  `RegisteredIsManaged` and, by the hang-up of the channel registered again,
  past `DownCallbackOnce`.
- `~serverDown` in `NoUseAfterFree` and `ClosedIsReclaimed`: see `conn_freed`.
- `QuitStopsRunningLoop` is about a loop that has been entered, and `PoolEnds`
  about a pool whose loops have: `loop()` clears a `quit_` set before it
  (`EventLoop.cc:61`), and `join()` would then wait for ever.
- `userQuit` in `LoopsExist`, `PoolStarts` and `NoThreadOutlivesPool`: the pool
  goes on handing out a loop that the user has made quit, its destructor may not
  wait for the thread, and `start()` hangs when a functor of the thread-init
  callback has made the loop quit before `startLoop()` looked at `loop_`
  (`EventLoopThread.cc:29`). `PoolEnds` allows for the null pointer, and
  `OnlyUsersCrash` says that only such a quit leads to it.
- `contextSets = 0` in `ActivityResetsTimeout`: the wheel finds an entry through
  `context_`, which the user may replace; the old entry then expires under an
  active connection (`TimerWheel.cc:43`).
- `EveryLineWritten` and `StopEnds` allow for `crashed`, an `append()` after the
  final flush, which has left no current buffer (`AsyncLogging.cc:107`), and for
  `killed`, a `LOG_FATAL` that ends the process while the log is a variable of
  `main()` (`Logger.h:39`).
- `numThreads_ = 0` in `WatchedOnBaseLoop`: with io threads it is
  `EstablishedIsWatched`, which `server_unwatched` refutes.
- `stage # "run"` in `ClosedAreReclaimed` and `NobodyWaitsForEver`: a removal that
  is queued in the base loop when it ends stays there until the `EventLoop`, an
  object of the user, is destroyed. `NothingLeftBehind` leaves these connections
  out for the same reason; their down callback has been called, that of the ones
  whose functor an ending io loop drops may be lost.
- `QuitForgotten` in `DestructorReturns`: `startLoop()` returns when `loop_` is
  published, before the thread calls `loop()` (`EventLoopThread.cc:51`, `:55`),
  which clears `quit_` (`EventLoop.cc:61`). The `quit()` of a destructor that
  comes in between is lost, and its `join()` waits for ever
  (`EventLoopThread.cc:19`). `lateUse` in the same property: see the module above.

Also met, without a property: `shutdownInLoop` closes the write side with output
waiting, for the same reason as in `conn_stuck_output` (`TcpConnection.cc:128`);
`shutdown()` may turn `kDisconnected` back into `kDisconnecting`
(`TcpConnection.cc:119`); `callingPendingFunctors_` is never cleared, at the cost
of superfluous wakeups (`EventLoop.cc:166`); `quit()` sets the flag and then
wakes a loop that may be destroyed by then (`EventLoop.cc:104`).

### Fairness

- EventLoop: the loop's thread is scheduled and user code returns (`Round`), a
  thread that has begun `wakeup()` finishes it. That `epoll_wait` returns after
  `kPollTimeMs` is not assumed: the eventfd has to do.
- Poller: the loop goes round: it polls, serves what came and clears its list.
- TcpConnection: the io thread, the removal functor and calls already begun are
  scheduled, and a peer that is owed data reads it. Nothing is assumed of the
  user, of workers, or of the peer's wish to close.
- AsyncLogging: the back-end and `stop()`'s thread are scheduled, the wait's
  three seconds pass. Nothing is assumed of the producers.
- Logger: that of AsyncLogging, and the thread that is in `exit()`.
- TcpServer: the base thread, with one fairness for its loop and the destructor,
  and each io thread, which in the end calls `loop()`. The user calls `loop()`
  after `start()`. Nothing is assumed of the peers, nor that the user ends the loop.
  The base loop polls again within `kPollTimeMs` whatever happens; an io loop is
  assumed to leave the poll only for what is ready, queued or told to quit.
- TimerWheel: none; how long a silent connection may last is counted in ticks.
- EventLoopThreadPool: each thread is scheduled, the thread-init callback returns.

All of it is weak fairness of a thread as a whole, which is what an operating
system gives.

## 4. What is proved

Proofs are checked by TLAPS from nothing, for every value of the constants that
satisfies the named assumptions.

| Module | Theorem | Says |
|---|---|---|
| `EventLoopProofs` | `TypeCorrect` | `Spec => []TypeOK` |
| | `NoWakeupIsLost` | `Spec => []NoLostWakeup`, for any number of threads and functors |
| | `LoopIsFifoExecutor` | `Spec` implements `Executor` |
| `PollerProofs` | `TypeCorrect` | `Spec => []TypeOK` |
| | `RegistrationNeverFails` | epoll_ctl always fits the epoll set |
| | `EpollSetIsCurrent` | no stale pointer in the epoll set |
| | `MapIsExact` | the map holds the registered channels |
| `TcpConnectionProofs` | `TypeCorrect` | `Spec => []TypeOK`, for any number of workers, as the next three |
| | `StreamIntact` | `Spec => []StreamInOrder`, for any messages, lengths and send buffer |
| | `DownIsLast` | `Spec => []NoMessageAfterDown` |
| | `LateWritesWereQueued` | `Spec => OnlyQueuedSendsWriteLate`: behind `SHUT_WR` only a `send()` queued before writes |
| | `ConnectionIsAlive` | `NoUseAfterFree`, without workers, as all that follow |
| | `RegisteredStaysManaged` | no channel in the epoll set that nobody will take out |
| | `EventsFindOwner` | `handleEvent` never runs on a freed connection |
| | `DownOnce` | one down callback, unless reset |
| `BufferProofs` | `TypeCorrect` | indices in order and in range |
| | `BufferIsByteQueue` | `Spec` implements `ByteQueue` |
| `TimerWheelProofs` | `TypeCorrect` | `Spec => []TypeOK`: one bucket for each second |
| | `SilentAreShut` | `Spec => []ShutWithinTimeout`, for every timeout |
| | `ActiveAreSpared` | `Spec => ActivityResetsTimeout`, however late the ticks are |
| | `WheelIsCountdown` | `Spec` implements `Countdown` |
| `LoggerProofs` | `TypeCorrect` | no buffer is overfilled |
| | `CurrentBufferAlways` | `append()` finds a buffer until the final flush |
| | `RefillIsSafe` | the untested takes of `AsyncLogging.cc:90` and `:95` succeed |
| | `NoNotifyIsLost` | the back-end never sleeps on a full buffer |
| | `LogStaysInOrder` | `Spec => []LogInOrder`: file and buffers are the log, in order |
| | `StopLosesNothing` | `Spec => []StopFlushes` |
| | `NoStaleLevel` | `LoggerSpec => LevelIsCurrent`, for any lines and threads |
| | `LoggerIsAsyncLogging` | `LoggerSpec` implements `AsyncLogging!Spec` |
| | `LogIsSafe` | so the above is true to the end of the process |
| | `LastWordsReachFile` | `LoggerSpec => []LastWordsAreKept`: the line of `LOG_FATAL` is written |
| `EventLoopThreadPoolProofs` | `TypeCorrect` | `Spec => []TypeOK` |
| | `HandedOutLoopsExist` | `getNextLoop` returns no loop that is gone |
| | `NoThreadIsLeft` | the destructor returns after the last thread has ended |
| | `QuitFindsLoop` | its `quit()` meets no null pointer |
| | | (the last three for loops the user has not made quit) |
| | `DealtEvenly` | no loop is dealt out two times more than another |
| `TcpServerProofs` | `TypeCorrect` | `Spec => []TypeOK` |
| | `NoChannelIsFreed` | `Spec => []PollersForgetFreed`, for any connections, threads, timeout, descriptors |
| | `BaseLoopWatches` | without io threads an established connection is in the wheel |
| | `NothingIsLeft` | all io threads joined, only the base loop's queue left |

**The arguments.** *EventLoop*: the only window without a wakeup is between the
poll's return and the swap, and everything pushed there is taken by the swap; so
`NoLostWakeup` is inductive with the types and the fact that the flag is set
from the first pass on. The refinement maps the queue to the swapped-out vector
followed by the pending one: the swap is a stutter, a functor's return takes the
head. *Poller*: the strengthening ties `index_`, the map and the epoll set
together in both directions for every open channel, and says that a closed one
is `kNew`; `EpollCtlNeverFails` follows because each operation is chosen by
`index_`. *AsyncLogging*: a spare is missing only when it has been moved into
the front end, and then a buffer came back for it; the invariant counts buffers
by the back-end's place: before the exchange both spares are there, and after it
the second is gone only if a full buffer was among those taken. *Buffer*: each
method keeps the order of the indices, and its effect on the contents is one
lemma: moving and growing leave them, appending adds at the end, a read that
spills adds the two parts one after the other. *TimerWheel*: bucket plus ticks
since the last activity never exceed the timeout, and every open connection that
was not shut down has an Entry somewhere, which gives the upper bound; as long
as `context_` is the wheel's own there is one Entry for each connection, at
least as far back as the silent seconds leave it, which gives the lower one. A
tick moves every bucket one place, so the last bucket of an Entry counts down.
*Logger* (`NoStaleLevel`): a line that begins puts itself `beside` all that are
being logged, so the level always is that of some line the reader was beside.
*EventLoopThreadPool*: the invariant says, for each thread, where it can be
given how far the base thread has come with it, and that `loop_` is set exactly
while the loop lives; the even deal is that all loops before `next_` have been
dealt out once more than those from it on.

*TcpServer*: a channel stays in a poller until `connectDestroyed` runs, so there
must always be somebody who is still to queue or run it (`Kept`): the map, a
`removeConnectionInLoop` in the base loop's queue, a `connectDestroyed` in the
loop of the connection, or that loop has ended. This alone is not inductive. A
`connectEstablished` behind a `connectDestroyed` would put the channel back, so
`Ordered` says of each loop, across what the pass has taken and what is pending,
that this order never occurs; it is preserved because `connectEstablished` is
queued only for a connection that did not exist, and `QueueInv` says that every
functor's connection does. `LoopInv` and `StageInv` give how far the destructor
is, `joining` included: an io loop has not ended before the pool's destructor is
at it, so that a `connectDestroyed` queued until then is run, and one that has
ended has an empty queue, which is what `NothingLeftBehind` needs. `WatchInv`
ties map, state and wheel for a server without io threads: there the three
change in one step.

*TcpConnection*, the stream: `StreamInv` says that either nothing is missing, or
a write has failed, and then the output buffer stays empty: a `send()` that
fails keeps nothing, and while units are kept no `send()` writes. That EPOLLOUT
is asked for only with units kept is what makes it inductive. *No message after
the down callback*: `MessageInv` says that EPOLLIN is asked for by
`connectEstablished` alone, which is first in the queue, and that nothing has
happened to the connection before. A worker's late `send()` may bring a closed
channel back into the epoll set, but for output only; so this holds with any
number of workers. *Writes behind `SHUT_WR`*: `ShutInv` says that whoever has
shut the write side, or is about to, has first made `send()` find the connection
no longer `kConnected`, and that until the down callback the channel asks for
EPOLLIN, so that `handleWrite` does nothing; what is left is a queued `send()`.

*TcpConnection*, without workers: `LoopsInv` rests on these and has five parts.
`ConnectingInv`: nothing before `connectEstablished`. `DownInv`: what was
reported down is closed and asks for nothing. `ManagedInv`: a connection that is
open, or known to the poller, is in the map or has `connectDestroyed` queued.
`RemovedInv`: when the base loop has taken a connection out of the map, its own
call of `shutdown()` has been posted, ahead of the `connectDestroyed`; so the
functor with the plain pointer runs first. `OnceInv`: a handler that closes
leaves nothing behind it in the dispatch that would close again. The parts are
preserved together: `RemovedInv`, say, by `DownInv`, as only a connection that
is down is removed. The hypothesis is needed: with one worker TLC refutes each
of the four properties (see *What the conditions leave out*).

*AsyncLogging*, the order: `OrderInv` adds to `LogInOrder` that spare buffers
are empty, and that a current buffer without bytes is one without lines, for
that is what `cur > 0` tests. `LinesOf` is a concatenation of the buffers'
lines; what it gives for a buffer more or less is proved in a few lemmas by
induction on its length, through the least element of a set of numbers, because
the library's induction theorem has an operator as a parameter. `StopInv` says
of each place of the back-end after its loop that what was logged when `stop()`
was called is in what it holds; `WordsInv` that the fatal line had been appended
when `exit()` began.

**Assumptions** are the `ASSUME`s of the modules: the loop's thread is not one of
the callers; `NoFd`, `NoChannel` and `Null` are outside the sets they stand
beside, and so is the acceptor's channel; the connections of a server are
finitely many; sizes are natural numbers, and a line has at least one byte
(`Logger::log` writes the time in any case). Every one is evaluated in the runs.

The type invariants of the loop, the poller, the wheel, the pool and the server
are proved and not run again; so are `NoThreadOutlivesPool`, `OnlyUsersCrash` and
`RoundRobin`.

**Only model-checked.** Liveness (beyond the prover): `WakeupsSuffice`,
`QuitStopsRunningLoop`, `NoReadyChannelStarves`, `ClosedIsReclaimed`,
`EveryLineWritten`, `StopEnds`, `PoolStarts`, `PoolEnds`, `ClosedAreReclaimed`,
`NobodyWaitsForEver`, `DestructorReturns`. Every safety property and every
refinement that a passing run checks is a theorem, with the hypothesis that the run
has too: no workers, where `conn_loops` has none.

## 5. Plan

1. Done: loop, poller, connection, log, wheel, buffer and pool, each by itself.
2. Done: the compositions. The server with its acceptor, several connections,
   with and without io threads, and its destructor; the logger in front of the
   log, to the end of the process; the wheel's abstraction and the refinement.
3. Done: theorems on eight modules.
4. Done: the connection's and the log's safety properties as theorems.
5. Left: `NoUseAfterFree` and its neighbours for workers that only `send()` while
   they hold the connection and do not shut it down; runs that vary the
   connection's constants one at a time (longer messages, two workers).
6. Left: that `TcpConnection` implements the handlers of `TcpServer` for its one
   connection; a user's quit of an io loop in `TcpServer`; `updateConnection`
   split into its accesses.

## 6. Not modelled, and why

InetAddress, Timestamp, CurrentThread: formatting and a thread's number. Of
Socket, `accept`, `shutdownWrite` and the close are steps of the modules that
call them; `bind` and the options are system calls. Failure
of `eventfd`, `epoll_create`, `fopen`, allocation: the code ends the process.
Data races without a defined outcome (`waitStarted_`, `loop_` in the destructor,
the wheel's deque on io threads, the server's members after the wheel has gone,
`loglevel_`): where the model has the variable
at all, an access is taken to be atomic; the hazards list names each. The
environment variable of `DefaultPoller.cc` that asks for `poll(2)` selects
nothing. The example programs.
