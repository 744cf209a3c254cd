----------------------------- MODULE TcpServer ------------------------------
(***************************************************************************)
(* A TcpServer with its Acceptor, its map of connections, its timer wheel  *)
(* and the loops of its threads, from start() to the end of its            *)
(* destructor.  Loop 0 is the base loop, on whose thread the server lives; *)
(* without io threads it serves the connections too, and runInLoop() calls *)
(* straight through.                                                       *)
(*                                                                         *)
(* The parts are what their own modules show of them: a loop is a FIFO     *)
(* executor that is woken for what is pending (EventLoop), the wheel a     *)
(* countdown for each connection (TimerWheel, Countdown), the pool's loops *)
(* exist from start() to the pool's destructor (EventLoopThreadPool).  A   *)
(* handler is one step; sending and the user's callbacks are those of      *)
(* TcpConnection.  A functor drops its reference when it returns, a little *)
(* earlier than in the code.                                               *)
(***************************************************************************)
EXTENDS Integers, Sequences, FiniteSets, SequencesExt

CONSTANTS
  Conns,         \* peers that may connect, each once
  MaxThreads,
  idleTimeout_,  \* 0: no wheel
  MaxDescriptors \* connections the process has descriptors for, at most

ASSUME ConnsAssumption == IsFiniteSet(Conns)
ASSUME ThreadsAssumption == MaxThreads \in Nat
ASSUME IdleTimeoutAssumption == idleTimeout_ \in Nat
ASSUME DescriptorsAssumption == MaxDescriptors \in Nat \ {0}

VARIABLES
  numThreads_,   \* as setThreadNum() has left it
  descriptors,   \* connections the descriptor limit leaves room for
  stage,         \* "new", "run", then what ~TcpServer destroys next, "gone"
  at,            \* the io thread the pool's destructor is at
  joining,       \* it has told that thread to quit and is in join()
  listening,     \* the accept channel is in the base loop's poller
  backlog,       \* accept queue of the listening socket
  next_, connections_,
  left,          \* ticks the wheel leaves a connection, 0 when it is not in it
  conn,          \* the connections, see NewConn
  peer,          \* their peers: [fin, unread]
  loop,          \* the loops, see NewLoop
  lateUse        \* a message callback has used members already destroyed; what
                 \* follows is what the program does if it gets away with it

constVars == <<numThreads_, descriptors>>
serverVars == <<constVars, next_, connections_>>
dyingVars == <<stage, at, joining, lateUse>>
netVars == <<listening, backlog, peer>>
vars == <<serverVars, dyingVars, netVars, left, conn, loop>>

Base == 0
Loops == 0..MaxThreads
IoLoops == 1..numThreads_
Acceptor == "acceptor"

ASSUME AcceptorAssumption == Acceptor \notin Conns

NewConn == [state |-> "none", channel |-> "kNew", loop |-> Base, wrShut |-> FALSE]

\* phase: where the thread is, "before" it has called loop(); active: channels
\* of this dispatch not handled yet; functors: what the pass has still to run;
\* quit: quit_ is set.
NewLoop == [phase |-> "before", active |-> {}, pending |-> <<>>, functors |-> <<>>, quit |-> FALSE]

Init ==
  /\ numThreads_ \in 0..MaxThreads /\ descriptors \in 1..MaxDescriptors
  /\ stage = "new" /\ at = 1 /\ joining = FALSE /\ lateUse = FALSE
  /\ listening = FALSE /\ backlog = <<>>
  /\ next_ = 1 /\ connections_ = {}
  /\ left = [c \in Conns |-> 0]
  /\ conn = [c \in Conns |-> NewConn]
  /\ peer = [c \in Conns |-> [fin |-> FALSE, unread |-> FALSE]]
  /\ loop = [l \in Loops |-> NewLoop]

-----------------------------------------------------------------------------
(* Loops and connections as values.                                        *)

\* A functor is <<method, connection>>.
Queue(loops, l, f) == [loops EXCEPT ![l].pending = Append(@, f)]

Queued(l) == Range(loop[l].pending) \cup Range(loop[l].functors)

\* shutdown() binds a plain pointer, everything else a shared one.
Owned(c) ==
  \/ c \in connections_
  \/ \E l \in Loops : \E f \in Queued(l) : f[2] = c /\ f[1] # "shutdownInLoop"

OpenDescriptors == Cardinality({c \in Conns : Owned(c)})

Established(k) == [k EXCEPT !.state = "kConnected", !.channel = "kAdded"]

\* disableAll(): a channel that is not in the poller is put into it again.
DisabledAll(k) == [k EXCEPT !.channel = IF @ = "kAdded" THEN "kDeleted" ELSE "kAdded"]

Closed(k) == [DisabledAll(k) EXCEPT !.state = "kDisconnected"]

\* connectDestroyed().
Destroyed(k) == [IF k.state = "kConnected" THEN Closed(k) ELSE k EXCEPT !.channel = "kNew"]

-----------------------------------------------------------------------------
(* The peers and the kernel.                                               *)

Reachable(c) == Owned(c) \/ c \in Range(backlog)

PeerStep(c, p) ==
  /\ peer' = [peer EXCEPT ![c] = p]
  /\ UNCHANGED <<serverVars, dyingVars, listening, left, conn, loop>>

PeerConnects(c) ==
  /\ listening /\ conn[c].state = "none" /\ c \notin Range(backlog)
  /\ backlog' = Append(backlog, c)
  /\ PeerStep(c, peer[c])

PeerSends(c) ==
  /\ Reachable(c) /\ ~peer[c].fin
  /\ PeerStep(c, [peer[c] EXCEPT !.unread = TRUE]) /\ UNCHANGED backlog

PeerCloses(c) ==
  /\ Reachable(c) /\ ~peer[c].fin
  /\ PeerStep(c, [peer[c] EXCEPT !.fin = TRUE]) /\ UNCHANGED backlog

\* What epoll reports, level-triggered, to loop l.
Ready(l) ==
  {c \in Conns : /\ Owned(c) /\ conn[c].loop = l /\ conn[c].channel = "kAdded"
                 /\ peer[c].unread \/ peer[c].fin}
  \cup (IF l = Base /\ listening /\ backlog # <<>> THEN {Acceptor} ELSE {})

-----------------------------------------------------------------------------
(* start(), on the base thread, before its loop().                         *)

Listen == listening' = TRUE

\* The pool's threads have published their loops when it returns (PoolStarts),
\* and may not have called loop() yet; the wheel's tick is the base loop's timer
\* callback.
Start ==
  /\ stage = "new" /\ stage' = "run"
  /\ Listen
  /\ UNCHANGED <<serverVars, at, joining, lateUse, backlog, peer, left, conn, loop>>

-----------------------------------------------------------------------------
(* The loops.                                                              *)

In(l, phase) == stage # "new" /\ loop[l].phase = phase

\* loop() up to its while; a quit() that came earlier is forgotten.
EnterLoop(l) ==
  /\ In(l, "before")
  /\ loop' = [loop EXCEPT ![l].phase = "poll", ![l].quit = FALSE]
  /\ UNCHANGED <<serverVars, dyingVars, netVars, left, conn>>

Polled(l) ==
  /\ In(l, "poll")
  /\ loop' = [loop EXCEPT ![l].phase = "dispatch", ![l].active = Ready(l)]
  /\ UNCHANGED <<serverVars, dyingVars, netVars, left, conn>>

Idle(l) == Ready(l) = {} /\ loop[l].pending = <<>>

\* Mutant: quit() does not wake the loop, which has no timeout.
PollReturnsForWork(l) == Polled(l) /\ ~(l # Base /\ Idle(l))

\* The base loop goes round at least every kPollTimeMs; so do the others, to
\* no effect unless there is something to do.
PollReturns(l) == Polled(l) /\ ~(l # Base /\ Idle(l) /\ ~loop[l].quit)

\* The handler of channel x, and the loops when it has returned.
Dispatch(l, x) == In(l, "dispatch") /\ x \in loop[l].active
Handled(l, x) == [loop EXCEPT ![l].active = @ \ {x}]

\* getNextLoop().
NextLoop == IF numThreads_ = 0 THEN Base ELSE next_

\* newConnection() up to the call of connectEstablished, which runs at once
\* when the base loop is to serve the connection.
AcceptAs(c, ticksLeft) ==
  LET new == [NewConn EXCEPT !.state = "kConnecting", !.loop = NextLoop]
      loops == Handled(Base, Acceptor)
  IN /\ backlog' = Tail(backlog)
     /\ next_' = IF next_ < numThreads_ THEN next_ + 1 ELSE 1
     /\ connections_' = connections_ \cup {c}
     /\ left' = ticksLeft
     /\ conn' = [conn EXCEPT ![c] = IF NextLoop = Base THEN Established(new) ELSE new]
     /\ loop' = IF NextLoop = Base THEN loops
                ELSE Queue(loops, NextLoop, <<"connectEstablished", c>>)
     /\ UNCHANGED <<constVars, dyingVars, listening, peer>>

\* updateConnection() gives a connection all its ticks; no effect without a
\* wheel.
Updated(c) == [left EXCEPT ![c] = idleTimeout_]

\* It leaves a connection alone that it has seen in this second, in which the
\* wheel may have ticked since.
SameSecond(c) == IF left[c] > 0 /\ left[c] = idleTimeout_ - 1 THEN {left} ELSE {}

\* Mutant: the wheel hears of a connection when it first speaks.
NewConnectionUnwatched(c) == AcceptAs(c, left)

NewConnection(c) == AcceptAs(c, Updated(c))

\* Acceptor::handleRead: one connection for each report.
Accept ==
  /\ Dispatch(Base, Acceptor) /\ OpenDescriptors < descriptors
  /\ NewConnection(Head(backlog))

RefuseAnd(listens) ==
  /\ Dispatch(Base, Acceptor) /\ OpenDescriptors = descriptors
  /\ loop' = Handled(Base, Acceptor) /\ listening' = listens
  /\ UNCHANGED <<serverVars, dyingVars, backlog, peer, left, conn>>

\* Mutant: a failing accept() stops the listening.
AcceptFailsAndStops == RefuseAnd(FALSE)

\* EMFILE is logged; the peer stays in the queue, the channel stays ready.
AcceptFails == RefuseAnd(listening)

\* The message callback of newConnection(), which uses the server's wheel and
\* its messageCallback_.
HandleMessage(l, c) ==
  LET membersExist == stage \in {"run", "connections"}
  IN /\ Dispatch(l, c) /\ peer[c].unread
     /\ peer' = [peer EXCEPT ![c].unread = FALSE]
     /\ left' \in IF membersExist THEN {Updated(c)} \cup SameSecond(c) ELSE {left}
     /\ lateUse' = (lateUse \/ ~membersExist)
     /\ loop' = Handled(l, c)
     /\ UNCHANGED <<serverVars, stage, at, joining, listening, backlog, conn>>

\* removeConnectionInLoop(), on the base thread.
RemoveInLoop(c, loops) ==
  /\ connections_' = connections_ \ {c}
  /\ loop' = Queue(loops, conn[c].loop, <<"connectDestroyed", c>>)

\* Mutant: nobody has set the close callback.
HandleCloseUnreported(l, c) ==
  /\ Dispatch(l, c) /\ ~peer[c].unread
  /\ conn' = [conn EXCEPT ![c] = Closed(@)] /\ loop' = Handled(l, c)
  /\ UNCHANGED <<serverVars, dyingVars, netVars, left>>

\* handleClose() and removeConnection(): inline when the server's thread is
\* the connection's.
HandleClose(l, c) ==
  /\ Dispatch(l, c) /\ ~peer[c].unread
  /\ conn' = [conn EXCEPT ![c] = Closed(@)]
  /\ IF l = Base THEN RemoveInLoop(c, Handled(l, c))
     ELSE /\ loop' = Queue(Handled(l, c), Base, <<"removeConnectionInLoop", c>>)
          /\ UNCHANGED connections_
  /\ UNCHANGED <<constVars, next_, dyingVars, netVars, left>>

TakeFunctors(l) ==
  /\ In(l, "dispatch") /\ loop[l].active = {}
  /\ loop' = [loop EXCEPT ![l].phase = "functors", ![l].functors = loop[l].pending, ![l].pending = <<>>]
  /\ UNCHANGED <<serverVars, dyingVars, netVars, left, conn>>

\* The next functor of the pass is a call of "method" on c.
Functor(l, method, c) ==
  /\ In(l, "functors") /\ loop[l].functors # <<>> /\ Head(loop[l].functors) = <<method, c>>
  /\ UNCHANGED <<constVars, next_, dyingVars, netVars, left>>

Returned(l) == [loop EXCEPT ![l].functors = Tail(@)]

Runs(l, method, c, k) ==
  /\ Functor(l, method, c)
  /\ conn' = [conn EXCEPT ![c] = k] /\ loop' = Returned(l)
  /\ UNCHANGED connections_

ConnectEstablished(l, c) == Runs(l, "connectEstablished", c, Established(conn[c]))

\* Mutant: a connection that has closed by itself is left in the poller.
ConnectDestroyedIfOpen(l, c) ==
  Runs(l, "connectDestroyed", c,
       IF conn[c].state = "kConnected" THEN Destroyed(conn[c]) ELSE conn[c])

ConnectDestroyed(l, c) == Runs(l, "connectDestroyed", c, Destroyed(conn[c]))

ShutdownInLoop(l, c) == Runs(l, "shutdownInLoop", c, [conn[c] EXCEPT !.wrShut = TRUE])

\* Mutant: the map forgets the connection, and so does everybody.
RemoveFromMapOnly(c) ==
  /\ Functor(Base, "removeConnectionInLoop", c)
  /\ connections_' = connections_ \ {c} /\ loop' = Returned(Base)
  /\ UNCHANGED conn

RemoveConnectionInLoop(c) ==
  /\ Functor(Base, "removeConnectionInLoop", c)
  /\ RemoveInLoop(c, Returned(Base))
  /\ UNCHANGED conn

PassDone(l) == In(l, "functors") /\ loop[l].functors = <<>>

\* while (!quit_); an io thread's loop goes with what is queued in it.
AfterPass(l) ==
  IF ~loop[l].quit THEN [loop[l] EXCEPT !.phase = "poll"]
  ELSE [loop[l] EXCEPT !.phase = "ended", !.pending = IF l = Base THEN @ ELSE <<>>]

\* Without a tick, if less than a second has gone.
PassEnds(l) ==
  /\ PassDone(l)
  /\ loop' = [loop EXCEPT ![l] = AfterPass(l)]
  /\ UNCHANGED <<serverVars, dyingVars, netVars, left, conn>>

\* ~Entry of these connections, in any order, on the base thread, whose loop is
\* "base" afterwards.
ShutDown(expired, base) ==
  LET open == {c \in expired : Owned(c) /\ conn[c].state = "kConnected"}
      others == Loops \ {Base}
      functors(l) == {<<"shutdownInLoop", c>> : c \in {d \in open : conn[d].loop = l}}
  IN /\ conn' = [c \in Conns |->
                   IF c \in open
                   THEN [conn[c] EXCEPT !.state = "kDisconnecting", !.wrShut = @ \/ conn[c].loop = Base]
                   ELSE conn[c]]
     /\ \E order \in [others -> UNION {SetToSeqs(functors(l)) : l \in others}] :
          /\ \A l \in others : order[l] \in SetToSeqs(functors(l))
          /\ loop' = [l \in Loops |->
                        IF l = Base THEN base
                        ELSE [loop[l] EXCEPT !.pending = @ \o order[l]]]

\* timerCallback_; a pass may take a second or more.
Tick ==
  /\ PassDone(Base) /\ idleTimeout_ > 0
  /\ left' = [c \in Conns |-> IF left[c] > 0 THEN left[c] - 1 ELSE 0]
  /\ ShutDown({c \in Conns : left[c] = 1}, AfterPass(Base))
  /\ UNCHANGED <<serverVars, dyingVars, netVars>>

\* The user ends the base loop, in a callback or from another thread.
UserQuits ==
  /\ stage = "run" /\ ~loop[Base].quit
  /\ loop' = [loop EXCEPT ![Base].quit = TRUE]
  /\ UNCHANGED <<serverVars, dyingVars, netVars, left, conn>>

-----------------------------------------------------------------------------
(* ~TcpServer, on the base thread, when its loop has returned: the body,   *)
(* then the members, the last one first.                                   *)

BeginDestructor ==
  /\ stage = "run" /\ loop[Base].phase = "ended" /\ stage' = "connections"
  /\ UNCHANGED <<serverVars, at, joining, lateUse, netVars, left, conn, loop>>

DestroyConnection(c) ==
  /\ stage = "connections" /\ c \in connections_
  /\ connections_' = connections_ \ {c}
  /\ IF conn[c].loop = Base
     THEN conn' = [conn EXCEPT ![c] = Destroyed(@)] /\ UNCHANGED loop
     ELSE loop' = Queue(loop, conn[c].loop, <<"connectDestroyed", c>>) /\ UNCHANGED conn
  /\ UNCHANGED <<constVars, next_, dyingVars, netVars, left>>

\* timerWheel_ and what it holds, then the callbacks.
DestroyWheel ==
  /\ stage = "connections" /\ connections_ = {} /\ stage' = "threadPool_"
  /\ left' = [c \in Conns |-> 0]
  /\ ShutDown({c \in Conns : left[c] > 0}, loop[Base])
  /\ UNCHANGED <<serverVars, at, joining, lateUse, netVars>>

\* threadPool_ quits and joins one thread after the other.
QuitThread ==
  /\ stage = "threadPool_" /\ at \in IoLoops /\ ~joining
  /\ joining' = TRUE /\ loop' = [loop EXCEPT ![at].quit = TRUE]
  /\ UNCHANGED <<serverVars, stage, at, lateUse, netVars, left, conn>>

NextThread ==
  /\ joining /\ joining' = FALSE /\ at' = at + 1
  /\ UNCHANGED <<serverVars, stage, lateUse, netVars, left, conn, loop>>

\* Mutant: the thread is told to quit and not waited for.
DetachThread == NextThread

JoinThread == NextThread /\ loop[at].phase = "ended"

\* acceptor_ takes its channel out of the poller and closes its socket.
DestroyAcceptor ==
  /\ stage = "threadPool_" /\ at = numThreads_ + 1
  /\ stage' = "gone" /\ listening' = FALSE
  /\ UNCHANGED <<serverVars, at, joining, lateUse, backlog, peer, left, conn, loop>>

-----------------------------------------------------------------------------
Step(l) ==
  \/ EnterLoop(l) \/ PollReturns(l) \/ TakeFunctors(l) \/ PassEnds(l)
  \/ \E c \in Conns : HandleMessage(l, c) \/ HandleClose(l, c) \/ ConnectDestroyed(l, c)

\* What the base loop does at once is queued for an io loop.
IoStep(l) == Step(l) \/ \E c \in Conns : ConnectEstablished(l, c) \/ ShutdownInLoop(l, c)

BaseStep ==
  \/ Step(Base) \/ Accept \/ AcceptFails \/ Tick
  \/ \E c \in Conns : RemoveConnectionInLoop(c)

Destructor ==
  \/ BeginDestructor \/ DestroyWheel \/ QuitThread \/ JoinThread \/ DestroyAcceptor
  \/ \E c \in Conns : DestroyConnection(c)

Next ==
  \/ Start \/ BaseStep \/ UserQuits \/ Destructor
  \/ \E l \in IoLoops : IoStep(l)
  \/ \E c \in Conns : PeerConnects(c) \/ PeerSends(c) \/ PeerCloses(c)

Spec == Init /\ [][Next]_vars

\* Every thread is scheduled, and the user calls loop() after start(); nothing
\* else is assumed of the user, nor of the peers.
FairSpec ==
  /\ Spec
  /\ WF_vars(BaseStep \/ Destructor)
  /\ \A l \in 1..MaxThreads : WF_vars(l <= numThreads_ /\ IoStep(l))

-----------------------------------------------------------------------------
(* Properties.                                                             *)

Functors ==
  {"connectEstablished", "connectDestroyed", "removeConnectionInLoop", "shutdownInLoop"} \X Conns

LoopType ==
  [phase : {"before", "poll", "dispatch", "functors", "ended"}, active : SUBSET (Conns \cup {Acceptor}),
   pending : Seq(Functors), functors : Seq(Functors), quit : BOOLEAN]

ConnType ==
  [state : {"none", "kConnecting", "kConnected", "kDisconnecting", "kDisconnected"},
   channel : {"kNew", "kAdded", "kDeleted"}, loop : Loops, wrShut : BOOLEAN]

TypeOK ==
  /\ numThreads_ \in 0..MaxThreads /\ descriptors \in 1..MaxDescriptors
  /\ at \in 1..(MaxThreads + 1)
  /\ stage \in {"new", "run", "connections", "threadPool_", "gone"}
  /\ {listening, joining, lateUse} \subseteq BOOLEAN
  /\ backlog \in Seq(Conns) /\ connections_ \subseteq Conns
  /\ next_ \in 1..(IF numThreads_ = 0 THEN 1 ELSE numThreads_)
  /\ left \in [Conns -> 0..idleTimeout_]
  /\ conn \in [Conns -> ConnType]
  /\ peer \in [Conns -> [fin : BOOLEAN, unread : BOOLEAN]]
  /\ loop \in [Loops -> LoopType]

\* A poller never keeps the channel of a connection that has been freed, with
\* and without io threads, while the server runs and while it dies: whoever
\* gives the last reference up has called connectDestroyed in its loop.
PollersForgetFreed ==
  \A c \in Conns :
    conn[c].channel # "kNew" /\ loop[conn[c].loop].phase # "ended" => Owned(c)

\* An established connection is in the wheel until the wheel shuts it down
\* (TcpServer.cc:109): no silence lasts for ever unnoticed.
EstablishedIsWatched ==
  \A c \in Conns :
    stage = "run" /\ idleTimeout_ > 0 /\ Owned(c) /\ conn[c].state = "kConnected" => left[c] > 0

\* It is when the base loop serves the connections itself.
WatchedOnBaseLoop == numThreads_ = 0 => EstablishedIsWatched

\* When the destructor returns no io thread is left, and no connection but
\* those whose removal the base loop, which is over, has still in its queue.
NothingLeftBehind ==
  stage = "gone" =>
    /\ \A l \in IoLoops : loop[l].phase = "ended"
    /\ \A c \in Conns : Owned(c) => \E f \in Queued(Base) : f[2] = c

\* A connection whose peer has closed gives its descriptor back, whatever
\* loops its removal has to pass through.
ClosedAreReclaimed ==
  \A c \in Conns : (peer[c].fin /\ Owned(c)) ~> (~Owned(c) \/ stage # "run")

\* A peer is not left waiting for accept() while there are descriptors, and
\* one refused for want of them is accepted when there are some again.
NobodyWaitsForEver ==
  \A c \in Conns :
    c \in Range(backlog) ~> (c \notin Range(backlog) \/ OpenDescriptors = descriptors \/ stage # "run")

\* quit() came before the io thread called loop(), which has cleared quit_
\* (EventLoop.cc:61): it runs on and join() waits for it (EventLoopThread.cc:19).
QuitForgotten == joining /\ ~loop[at].quit

\* The destructor returns, whatever the io threads are doing inside loop(): only
\* an io thread that has used what is destroyed, or one whose loop was entered
\* after the destructor had told it to quit, can keep it from that.
DestructorReturns == stage = "connections" ~> stage = "gone" \/ lateUse \/ QuitForgotten

=============================================================================
