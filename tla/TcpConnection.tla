--------------------------- MODULE TcpConnection ----------------------------
(***************************************************************************)
(* One TcpConnection of a TcpServer with a thread pool, from newConnection *)
(* on: the io loop that owns it, the base loop that keeps it in the        *)
(* server's map and expires its timer-wheel entry, worker threads the user *)
(* has handed the connection to, and the peer behind the kernel's socket.  *)
(*                                                                         *)
(* Each loop is the FIFO executor of module Executor; the io loop's passes *)
(* over its functors are kept, because a functor's reference to the        *)
(* connection lives until its pass ends.  The channel is that of module    *)
(* Channel; it is in the epoll set when its index is kAdded (PollerProofs).*)
(* A handler is one step up to the user callback it makes: between them    *)
(* the threads share state_ and the two queues only.                       *)
(***************************************************************************)
EXTENDS Channel, SequencesExt, Naturals

CONSTANTS
  Messages,       \* what the user may send, each at most once
  MessageLen,     \* units a message is made of; write() may stop at any
  SendRoom,       \* units the socket's send buffer holds
  PeerData,       \* units the peer may send
  Workers,        \* threads other than the two loops that use the connection
  Callbacks,      \* the optional ones set: subset of {"complete", "highWater"}
  HighWaterMark,
  Expiries,       \* how often the wheel drops the connection's entry
  Resets,         \* the peer may reset the connection
  ServerDies      \* the TcpServer may be destroyed

ASSUME SizesAssumption ==
  {MessageLen, SendRoom, PeerData, HighWaterMark, Expiries} \subseteq Nat
ASSUME SwitchAssumption == {Resets, ServerDies} \subseteq BOOLEAN

VARIABLES
  state_, channel_, outputBuffer_,
  sock,           \* the kernel's side, see Init
  io,             \* the io loop's thread: "poll", "dispatch", "functors"
  revents,        \* events of this dispatch not handled yet
  inUser,         \* the io thread is in a callback of the user
  ioQueue,        \* functors of the io loop, oldest first
  pass,           \* how many of them the running pass still has to run
  passRef,        \* a functor this pass has run holds a reference
  baseQueue,      \* removeConnectionInLoop functors of the base loop
  inMap,          \* TcpServer::connections_ has the connection
  serverDown,     \* ~TcpServer has run
  expired,        \* entries of the wheel dropped so far
  call,           \* where each other thread is in a call on the connection
  accepted,       \* history: units sendInLoop took on
  wire,           \* history: units the kernel took
  downs,          \* history: connectionCallback_ calls that found it closed
  lateMessage     \* history: a message callback came after one of these

histVars == <<accepted, wire, downs, lateMessage>>
serverVars == <<baseQueue, inMap, serverDown, expired>>
loopVars == <<io, revents, inUser, ioQueue, pass, passRef>>
connVars == <<state_, channel_, outputBuffer_, sock>>
vars == <<connVars, loopVars, serverVars, call, histVars>>

Threads == {"base"} \cup Workers

\* newConnection() has put the connection in the map and posted
\* connectEstablished.
Init ==
  /\ state_ = "kConnecting" /\ channel_ = NewChannel /\ outputBuffer_ = <<>>
  /\ sock = [rx |-> 0, received |-> 0,     \* units unread, units arrived
             fin |-> FALSE, rst |-> FALSE, \* the peer has closed, has reset
             err |-> FALSE,                \* SO_ERROR is pending
             wrShut |-> FALSE,             \* SHUT_WR
             taken |-> 0]                  \* units the peer has read
  /\ io = "poll" /\ revents = {} /\ inUser = FALSE
  /\ ioQueue = <<<<"establish">>>> /\ pass = 0 /\ passRef = FALSE
  /\ baseQueue = <<>> /\ inMap = TRUE /\ serverDown = FALSE /\ expired = 0
  /\ call = [t \in Threads |-> IF t = "base" THEN <<"idle">> ELSE <<"none">>]
  /\ accepted = <<>> /\ wire = <<>> /\ downs = 0
  /\ lateMessage = FALSE

-----------------------------------------------------------------------------
\* Mutant: connectDestroyed is bound to a plain pointer.
HoldsButDestroy(f) == f[1] \notin {"shutdown", "destroy"}

\* Functors hold a shared_ptr to the connection, but for shutdownInLoop's.
Holds(f) == f[1] # "shutdown"

\* Somebody shares ownership of the connection object; once nobody does, it
\* is freed.  The weak reference of Channel::tie is not counted.
Owned ==
  \/ inMap
  \/ \E i \in DOMAIN ioQueue : Holds(ioQueue[i])
  \/ passRef
  \/ baseQueue # <<>>
  \/ \E t \in Workers : call[t] \notin {<<"none">>, <<"gone">>}
  \/ call["base"] # <<"idle">>

-----------------------------------------------------------------------------
(* The kernel and the peer.                                                *)

Room == SendRoom - (Len(wire) - sock.taken)

\* What epoll reports of the descriptor: error and hang-up always, the rest
\* on demand.  ~Socket has closed the descriptor of a freed connection.
Reported ==
  IF channel_.index # "kAdded" \/ ~Owned THEN {}
  ELSE {e \in {"hup", "err", "in", "out"} :
          CASE e = "hup" -> sock.rst \/ (sock.fin /\ sock.wrShut)
            [] e = "err" -> sock.err
            [] e = "in"  -> "in" \in channel_.events /\ (sock.rx > 0 \/ sock.fin \/ sock.rst)
            [] e = "out" -> "out" \in channel_.events /\ (Room > 0 \/ sock.wrShut \/ sock.rst)}

PeerStep(s) == sock' = s /\ UNCHANGED <<state_, channel_, outputBuffer_, loopVars,
                                        serverVars, call, histVars>>

PeerSends ==
  /\ ~sock.fin /\ ~sock.rst /\ sock.received < PeerData
  /\ PeerStep([sock EXCEPT !.rx = @ + 1, !.received = @ + 1])

PeerReads ==
  /\ ~sock.rst /\ sock.taken < Len(wire)
  /\ PeerStep([sock EXCEPT !.taken = @ + 1])

PeerCloses == ~sock.fin /\ ~sock.rst /\ PeerStep([sock EXCEPT !.fin = TRUE])

\* Data that has arrived before the reset can still be read.
PeerResets ==
  /\ Resets /\ ~sock.rst
  /\ PeerStep([sock EXCEPT !.rst = TRUE, !.err = TRUE])

-----------------------------------------------------------------------------
(* sendInLoop(), shutdownInLoop(), handleWrite(): on the io thread.  They  *)
(* say what becomes of the connection; "posts" are the callbacks queued.   *)

Units(m) == [i \in 1..MessageLen |-> <<m, i>>]
From(s, k) == SubSeq(s, k + 1, Len(s))
Optional(name) == IF name \in Callbacks THEN <<<<name>>>> ELSE <<>>

\* A write() of the units u: the kernel takes some or, when it fails, none.
WriteFails == sock.wrShut \/ sock.rst
Writable(u) == IF WriteFails \/ Room = 0 THEN {0} ELSE 1..(IF Len(u) < Room THEN Len(u) ELSE Room)

\* The part of sendInLoop that keeps what write() did not take.
Keep(rest, queue) ==
  LET old == Len(outputBuffer_)
      crosses == old < HighWaterMark /\ old + Len(rest) >= HighWaterMark
  IN /\ outputBuffer_' = outputBuffer_ \o rest
     /\ channel_' = IF IsWriting(channel_) THEN channel_ ELSE UpdateChannel(EnableWriting(channel_))
     /\ ioQueue' = queue \o (IF crosses THEN Optional("highWater") ELSE <<>>)

\* sendInLoop, trying write() first if "direct"; queue is what is left of the
\* loop's functors.
SendUnits(m, queue, direct) ==
  IF state_ = "kDisconnected"
  THEN ioQueue' = queue /\ UNCHANGED <<channel_, outputBuffer_, sock, accepted, wire>>
  ELSE /\ accepted' = accepted \o Units(m)
       /\ \/ ~direct /\ Keep(Units(m), queue) /\ UNCHANGED <<sock, wire>>
          \/ \E n \in Writable(Units(m)) :
               /\ direct
               /\ wire' = wire \o SubSeq(Units(m), 1, n)
               /\ sock' = [sock EXCEPT !.err = FALSE]
               /\ IF n < MessageLen /\ ~WriteFails
                  THEN Keep(From(Units(m), n), queue)
                  ELSE /\ ioQueue' = queue \o (IF n = MessageLen THEN Optional("complete") ELSE <<>>)
                       /\ UNCHANGED <<outputBuffer_, channel_>>

\* Mutant: write() is tried although earlier data is waiting.
SendOvertaking(m, queue) == SendUnits(m, queue, ~IsWriting(channel_))

SendInLoop(m, queue) ==
  SendUnits(m, queue, ~IsWriting(channel_) /\ outputBuffer_ = <<>>)

\* The socket after shutdownInLoop, for the channel as it is by then.
ShutdownInLoop(ch) == IF IsWriting(ch) THEN sock ELSE [sock EXCEPT !.wrShut = TRUE]

\* Acts only when EPOLLOUT is all the channel asks for.
HandleWrite ==
  IF ~IsWriting(channel_)
  THEN UNCHANGED <<channel_, outputBuffer_, sock, ioQueue, wire>>
  ELSE \E n \in Writable(outputBuffer_) :
         LET flushed == n > 0 /\ n = Len(outputBuffer_)
             quiet == UpdateChannel(DisableWriting(channel_))
             s == [sock EXCEPT !.err = FALSE]
         IN /\ wire' = wire \o SubSeq(outputBuffer_, 1, n)
            /\ outputBuffer_' = From(outputBuffer_, n)
            /\ channel_' = IF flushed THEN quiet ELSE channel_
            /\ ioQueue' = ioQueue \o (IF flushed THEN Optional("complete") ELSE <<>>)
            /\ sock' = IF flushed /\ state_ = "kDisconnecting"
                       THEN [ShutdownInLoop(quiet) EXCEPT !.err = FALSE] ELSE s

-----------------------------------------------------------------------------
(* Calls of the user inside a callback, on the io thread.                  *)

InCallback == inUser /\ UNCHANGED <<io, revents, inUser, pass, passRef, call, serverVars>>

\* A message nobody has sent yet.
Unsent(m) ==
  /\ m \notin {accepted[i][1] : i \in DOMAIN accepted}
  /\ <<"send", m>> \notin Range(ioQueue) \cup Range(call)

\* On a connection that is not kConnected, send() and shutdown() do nothing.
SendWhen(m, open) ==
  /\ InCallback /\ Unsent(m)
  /\ open
  /\ SendInLoop(m, ioQueue)
  /\ UNCHANGED <<state_, downs, lateMessage>>

\* Mutant: send() tests for kDisconnected only.
UserSendsUnlessClosed(m) == SendWhen(m, state_ # "kDisconnected")

UserSends(m) == SendWhen(m, state_ = "kConnected")

UserShutsDown ==
  /\ InCallback
  /\ state_ = "kConnected"
  /\ state_' = "kDisconnecting"
  /\ sock' = ShutdownInLoop(channel_)
  /\ UNCHANGED <<channel_, outputBuffer_, ioQueue, histVars>>

UserReturns ==
  /\ inUser /\ inUser' = FALSE
  /\ UNCHANGED <<connVars, io, revents, ioQueue, pass, passRef, serverVars, call, histVars>>

-----------------------------------------------------------------------------
(* The io loop: poll, dispatch of the channel's events, functors.          *)

IoThreadIn(where) == io = where /\ ~inUser

PollReports ==
  /\ IoThreadIn("poll") /\ Reported # {}
  /\ io' = "dispatch" /\ revents' = Reported
  /\ UNCHANGED <<connVars, inUser, ioQueue, pass, passRef, serverVars, call, histVars>>

\* The loop goes round for something else: another channel or the eventfd.
PollReportsOthers ==
  /\ IoThreadIn("poll") /\ ioQueue # <<>>
  /\ io' = "dispatch" /\ revents' = {}
  /\ UNCHANGED <<connVars, inUser, ioQueue, pass, passRef, serverVars, call, histVars>>

\* handleEventWithGuard looks for the events in this order.
Order == <<"hup", "err", "in", "out">>

Turn(e) ==
  /\ IoThreadIn("dispatch") /\ e \in revents
  /\ \E i \in 1..4 : Order[i] = e /\ \A j \in 1..(i-1) : Order[j] \notin revents
  /\ revents' = revents \ {e}
  /\ UNCHANGED <<io, pass, passRef, call, inMap, serverDown, expired>>

Closing(queue) ==
  /\ state_' = "kDisconnected"
  /\ channel_' = UpdateChannel(DisableAll(channel_))
  /\ downs' = downs + 1
  /\ baseQueue' = queue

\* Mutant: the server is not told.
CloseWithoutRemoval == Closing(baseQueue)

\* The down callback can neither send nor shut down: state_ is not kConnected.
HandleClose == Closing(Append(baseQueue, <<"remove">>))

TurnHupIf(closes) ==
  /\ Turn("hup")
  /\ IF closes THEN HandleClose ELSE UNCHANGED <<state_, channel_, downs, baseQueue>>
  /\ UNCHANGED <<outputBuffer_, sock, inUser, ioQueue, accepted, wire, lateMessage>>

\* Mutant: a hang-up closes although there is data to read.
TurnHupAlways == TurnHupIf(TRUE)

TurnHup == TurnHupIf("in" \notin revents)

\* getsockopt(SO_ERROR) clears the error; every error closes.
HandleError == sock' = [sock EXCEPT !.err = FALSE] /\ HandleClose

TurnErr ==
  /\ Turn("err")
  /\ HandleError
  /\ UNCHANGED <<outputBuffer_, inUser, ioQueue, accepted, wire, lateMessage>>

\* readFd() returns all that has arrived, else the error, else end of file.
HandleRead ==
  /\ Turn("in")
  /\ \/ /\ sock.rx > 0
        /\ sock' = [sock EXCEPT !.rx = 0]
        /\ inUser' = TRUE
        /\ lateMessage' = (lateMessage \/ downs > 0)
        /\ UNCHANGED <<state_, channel_, downs, baseQueue>>
     \/ /\ sock.rx = 0 /\ sock.err
        /\ HandleError
        /\ UNCHANGED <<inUser, lateMessage>>
     \/ /\ sock.rx = 0 /\ ~sock.err
        /\ HandleClose
        /\ UNCHANGED <<sock, inUser, lateMessage>>
  /\ UNCHANGED <<outputBuffer_, ioQueue, accepted, wire>>

TurnOut ==
  /\ Turn("out")
  /\ HandleWrite
  /\ UNCHANGED <<state_, inUser, baseQueue, accepted, downs, lateMessage>>

\* doPendingFunctors() takes the functors queued so far.
SwapFunctors ==
  /\ IoThreadIn("dispatch") /\ revents = {}
  /\ io' = "functors" /\ pass' = Len(ioQueue) /\ passRef' = FALSE
  /\ UNCHANGED <<connVars, revents, inUser, ioQueue, serverVars, call, histVars>>

\* The next functor of the pass is a call of f.
NextFunctor(f) ==
  /\ IoThreadIn("functors") /\ pass > 0 /\ Head(ioQueue)[1] = f
  /\ pass' = pass - 1
  /\ passRef' = (passRef \/ Holds(Head(ioQueue)))
  /\ UNCHANGED <<io, revents, call, serverVars>>

ConnectEstablished ==
  /\ NextFunctor("establish")
  /\ ioQueue' = Tail(ioQueue)
  /\ state_' = "kConnected"
  /\ channel_' = UpdateChannel(EnableReading(channel_))
  /\ inUser' = TRUE
  /\ UNCHANGED <<outputBuffer_, sock, histVars>>

DestroyReporting(closes) ==
  /\ NextFunctor("destroy")
  /\ ioQueue' = Tail(ioQueue)
  /\ state_' = IF closes THEN "kDisconnected" ELSE state_
  /\ downs' = IF closes THEN downs + 1 ELSE downs
  /\ channel_' = RemoveChannel(IF closes THEN UpdateChannel(DisableAll(channel_)) ELSE channel_)
  /\ UNCHANGED <<outputBuffer_, sock, inUser, accepted, wire, lateMessage>>

\* Mutant: the down callback is made whatever the state.
ConnectDestroyedReportsAlways == DestroyReporting(TRUE)

\* Closes what is still connected, and takes the channel out of the poller.
ConnectDestroyed == DestroyReporting(state_ = "kConnected")

QueuedShutdown ==
  /\ NextFunctor("shutdown")
  /\ ioQueue' = Tail(ioQueue)
  /\ sock' = ShutdownInLoop(channel_)
  /\ UNCHANGED <<state_, channel_, outputBuffer_, inUser, histVars>>

QueuedSend ==
  /\ NextFunctor("send")
  /\ SendInLoop(Head(ioQueue)[2], Tail(ioQueue))
  /\ UNCHANGED <<state_, inUser, downs, lateMessage>>

UserCallback ==
  /\ NextFunctor("complete") \/ NextFunctor("highWater")
  /\ ioQueue' = Tail(ioQueue)
  /\ inUser' = TRUE
  /\ UNCHANGED <<connVars, histVars>>

\* The pass's vector is destroyed, and with it the references it held.
PassEnds ==
  /\ IoThreadIn("functors") /\ pass = 0
  /\ io' = "poll" /\ passRef' = FALSE
  /\ UNCHANGED <<connVars, revents, inUser, ioQueue, pass, serverVars, call, histVars>>

-----------------------------------------------------------------------------
(* The other threads.  A call reads state_ in one step, writes it in the   *)
(* next and queues its functor in a third.                                 *)

Steps(t, from, to) ==
  /\ call[t] = from
  /\ call' = [call EXCEPT ![t] = to]

\* The user passes the connection on to a worker.
HandOver(w) ==
  /\ inUser /\ Steps(w, <<"none">>, <<"idle">>)
  /\ UNCHANGED <<connVars, loopVars, serverVars, histVars>>

DropReference(w) ==
  /\ Steps(w, <<"idle">>, <<"gone">>)
  /\ UNCHANGED <<connVars, loopVars, serverVars, histVars>>

\* send() on another thread: the functor it queues holds a reference.
Send(w, m) ==
  /\ Unsent(m) /\ state_ = "kConnected"
  /\ Steps(w, <<"idle">>, <<"send", m>>)
  /\ UNCHANGED <<connVars, loopVars, serverVars, histVars>>

PostSend(w) ==
  /\ call[w][1] = "send" /\ Steps(w, call[w], <<"idle">>)
  /\ ioQueue' = Append(ioQueue, call[w])
  /\ UNCHANGED <<connVars, io, revents, inUser, pass, passRef, serverVars, histVars>>

\* shutdown() on another thread: its functor holds a plain pointer.
Shutdown(t) ==
  /\ state_ = "kConnected"
  /\ Steps(t, <<"idle">>, <<"store">>)
  /\ UNCHANGED <<connVars, loopVars, histVars>>

StoreDisconnecting(t) ==
  /\ Steps(t, <<"store">>, <<"post">>)
  /\ state_' = "kDisconnecting"
  /\ UNCHANGED <<channel_, outputBuffer_, sock, loopVars, serverVars, histVars>>

PostShutdown(t) ==
  /\ Steps(t, <<"post">>, <<"idle">>)
  /\ ioQueue' = Append(ioQueue, <<"shutdown">>)
  /\ UNCHANGED <<connVars, io, revents, inUser, pass, passRef, serverVars, histVars>>

\* The wheel drops the connection's entry, at a tick or with the server;
\* its destructor locks the weak reference and calls shutdown().  On a
\* connection that is not kConnected the call does nothing.
EntryExpires ==
  /\ Owned /\ expired < Expiries
  /\ expired' = expired + 1
  /\ Shutdown("base")
  /\ UNCHANGED <<baseQueue, inMap, serverDown>>

RemoveAnd(post) ==
  /\ inMap' = FALSE
  /\ ioQueue' = ioQueue \o post
  /\ UNCHANGED <<connVars, io, revents, inUser, pass, passRef, expired, call, histVars>>

\* Mutant: the server forgets the connection and no more.
ForgetsConnection == RemoveAnd(<<>>)

RemovesFromMap == RemoveAnd(<<<<"destroy">>>>)

\* A functor of the base loop, in a thread that is in no other call.
RemoveConnectionInLoop ==
  /\ ~serverDown /\ call["base"] = <<"idle">> /\ baseQueue # <<>>
  /\ baseQueue' = Tail(baseQueue)
  /\ RemovesFromMap
  /\ UNCHANGED serverDown

\* ~TcpServer, when the base loop has returned and runs no functor any more.
DestroyServer ==
  /\ ServerDies /\ ~serverDown /\ call["base"] = <<"idle">>
  /\ serverDown' = TRUE
  /\ UNCHANGED baseQueue
  /\ IF inMap THEN RemovesFromMap
     ELSE UNCHANGED <<inMap, connVars, loopVars, expired, call, histVars>>

-----------------------------------------------------------------------------
Peer == PeerSends \/ PeerReads \/ PeerCloses \/ PeerResets

User == (\E m \in Messages : UserSends(m)) \/ UserShutsDown

IoThread ==
  \/ UserReturns
  \/ PollReports
  \/ TurnHup \/ TurnErr \/ HandleRead \/ TurnOut
  \/ SwapFunctors
  \/ ConnectEstablished \/ ConnectDestroyed \/ QueuedShutdown \/ QueuedSend \/ UserCallback
  \/ PassEnds
  \/ PollReportsOthers

Worker(w) ==
  \/ HandOver(w)
  \/ DropReference(w)
  \/ \E m \in Messages : Send(w, m)
  \/ Shutdown(w) /\ UNCHANGED serverVars

Finishes(t) ==
  \/ t \in Workers /\ PostSend(t)
  \/ StoreDisconnecting(t)
  \/ PostShutdown(t)

Next ==
  \/ Peer \/ User \/ IoThread
  \/ \E w \in Workers : Worker(w)
  \/ \E t \in Threads : Finishes(t)
  \/ EntryExpires \/ RemoveConnectionInLoop \/ DestroyServer

Spec == Init /\ [][Next]_vars

\* Every thread is scheduled, callbacks return, the loops serve their queues,
\* and a peer that is owed data reads it.
FairSpec ==
  /\ Spec
  /\ WF_vars(IoThread)
  /\ WF_vars(RemoveConnectionInLoop)
  /\ \A t \in Threads : WF_vars(Finishes(t))
  /\ WF_vars(PeerReads)

-----------------------------------------------------------------------------
(* Properties.                                                             *)

TypeOK ==
  /\ state_ \in {"kDisconnected", "kConnecting", "kConnected", "kDisconnecting"}
  /\ channel_ \in ChannelType
  /\ outputBuffer_ \in Seq(Messages \X (1..MessageLen))
  /\ sock.rx \in 0..PeerData
  /\ io \in {"poll", "dispatch", "functors"}
  /\ revents \subseteq {"hup", "err", "in", "out"}
  /\ revents # {} => io = "dispatch"
  /\ inUser => io \in {"dispatch", "functors"}
  /\ pass \in 0..Len(ioQueue)
  /\ passRef \in BOOLEAN

\* What the kernel has taken, followed by what is buffered, is what send()
\* was given, in order, nothing twice; units are missing only behind a write()
\* that failed because one side had ended the stream.
StreamInOrder ==
  /\ IsPrefix(wire \o outputBuffer_, accepted)
  /\ ~WriteFails => wire \o outputBuffer_ = accepted

\* The functor of shutdown(), which holds a plain pointer, finds the object
\* alive, ...
ShutdownFindsConnection == (io = "functors" /\ pass > 0) => Owned

\* ... as long as the server lives.
NoUseAfterFree == ~serverDown => ShutdownFindsConnection

\* What epoll reports for the channel finds the object alive: a connection
\* taken out of the poller by connectDestroyed does not come back.
EventsFindConnection == (io = "dispatch" /\ revents # {}) => Owned

\* A channel in the epoll set belongs to a connection that the map holds or
\* whose removal is queued: epoll never keeps a pointer to a freed channel,
\* and none is left behind for good.
RegisteredIsManaged ==
  channel_.index = "kAdded" =>
    inMap \/ baseQueue # <<>> \/ <<"destroy">> \in Range(ioQueue)

\* Unless the peer resets, when one dispatch may call several handlers that
\* close, the user hears once at most that the connection is down, ...
DownCallbackOnce == ~sock.rst => downs <= 1

\* ... and gets no message after that.
NoMessageAfterDown == ~sock.rst => ~lateMessage

\* Once the write side is shut, nothing more is taken on or written until the
\* connection is down, by a callback's send() or by handleWrite(), but what
\* another thread's send() queued that had found it kConnected: sendInLoop tests
\* for kDisconnected only (TcpConnection.cc:71).
OnlyQueuedSendsWriteLate ==
  [][sock.wrShut /\ downs = 0 /\ (accepted' # accepted \/ (TurnOut /\ IsWriting(channel_)))
       => QueuedSend]_vars

\* A closed connection is freed, and its channel gone from the poller, as long
\* as the server lives.
ClosedIsReclaimed ==
  (sock.fin \/ sock.rst) ~> (~Owned /\ channel_.index = "kNew") \/ serverDown

\* What is buffered is sent, or the connection is closed.
OutputDrains == outputBuffer_ # <<>> ~> (outputBuffer_ = <<>> \/ downs > 0)

=============================================================================
