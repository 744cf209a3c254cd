------------------------- MODULE EventLoopThreadPool ------------------------
(***************************************************************************)
(* The io threads of a server (EventLoopThreadPool, EventLoopThread and    *)
(* Thread): the base thread starts them one by one, each with a loop on    *)
(* its stack, hands their loops out in turn and destroys the pool, which   *)
(* quits and joins the threads one by one.                                 *)
(*                                                                         *)
(* A loop is what EventLoop.tla makes of it: loop() clears quit_ first,    *)
(* and then ends once quit_ is set (QuitStopsRunningLoop).  The user may   *)
(* make one quit, too.  A critical section under mutex_ is one step, but   *)
(* the last, which lasts until the lock's destructor.  wait() returns for  *)
(* a notify only.                                                          *)
(***************************************************************************)
EXTENDS Integers, FiniteSets

CONSTANTS
  numThreads_,
  MaxUses        \* calls of getNextLoop()

ASSUME NumThreadsAssumption == numThreads_ \in Nat /\ MaxUses \in Nat

Threads == 1..numThreads_

VARIABLES
  base,         \* the base thread: "start", "run", "destroy" or "done", or
                \* "crashed" when it calls quit() on a null pointer
  at,           \* the EventLoopThread it starts or destroys
  step,         \* how far it is with that one
  thread,       \* each thread's place in threadFunc()
  waitStarted_, loop_, notified,
  quit_,        \* quit_ of each loop
  userQuit,     \* the loops the user has made quit
  next_, uses   \* getNextLoop's index, and how often it chose each loop

baseVars == <<base, at, step>>
loopVars == <<waitStarted_, loop_, notified, quit_, userQuit>>
useVars == <<next_, uses>>
vars == <<baseVars, thread, loopVars, useVars>>

ForAll(value) == [t \in Threads |-> value]

Init ==
  /\ base = "start" /\ at = 1 /\ step = "begin"
  /\ thread = ForAll("none")
  /\ waitStarted_ = ForAll(FALSE) /\ loop_ = ForAll(FALSE)  \* loop_ # nullptr
  /\ notified = ForAll(FALSE) /\ quit_ = ForAll(FALSE)
  /\ userQuit = {} /\ next_ = 1 /\ uses = ForAll(0)

Set(f, t, value) == [f EXCEPT ![t] = value]

-----------------------------------------------------------------------------
(* The base thread: start(), getNextLoop() and the destructors.            *)

BaseAt(where, what) == base = where /\ at \in Threads /\ step = what
GoOn(what) == step' = what /\ UNCHANGED <<base, at>>
NextThread == step' = "begin" /\ at' = at + 1 /\ UNCHANGED base

\* Thread::start() returns once the thread runs.
StartThread ==
  /\ BaseAt("start", "begin") /\ GoOn("lock")
  /\ thread' = Set(thread, at, "init")
  /\ UNCHANGED <<loopVars, useVars>>

LockedTest(enough) ==
  /\ BaseAt("start", "lock")
  /\ waitStarted_' = Set(waitStarted_, at, TRUE)
  /\ IF enough THEN NextThread ELSE GoOn("wait")
  /\ UNCHANGED <<thread, loop_, notified, quit_, userQuit, useVars>>

\* Mutant: the pointer is taken as it is.
StartLoopTakesAny == LockedTest(TRUE)

\* startLoop() under the lock: it waits until the loop is published.
StartLoopLocked == LockedTest(loop_[at])

WaitReturns ==
  /\ BaseAt("start", "wait") /\ notified[at]
  /\ GoOn("lock")
  /\ notified' = Set(notified, at, FALSE)
  /\ UNCHANGED <<thread, waitStarted_, loop_, quit_, userQuit, useVars>>

Started ==
  /\ base = "start" /\ at = numThreads_ + 1
  /\ base' = "run" /\ UNCHANGED <<at, step>>
  /\ UNCHANGED <<thread, loopVars, useVars>>

GetNextLoop ==
  /\ base = "run" /\ numThreads_ > 0 /\ uses[next_] < MaxUses
  /\ uses' = Set(uses, next_, uses[next_] + 1)
  /\ next_' = IF next_ = numThreads_ THEN 1 ELSE next_ + 1
  /\ UNCHANGED <<baseVars, thread, loopVars>>

\* The pool goes with its server, once the base loop has returned.
DestroyPool ==
  /\ base = "run"
  /\ base' = "destroy" /\ at' = 1 /\ step' = "begin"
  /\ UNCHANGED <<thread, loopVars, useVars>>

\* ~EventLoopThread reads loop_ without the lock, to see whether there is
\* something to quit, and to call quit().
FindsLoop ==
  /\ BaseAt("destroy", "begin") /\ loop_[at]
  /\ GoOn("quit")
  /\ UNCHANGED <<thread, loopVars, useVars>>

\* The thread is left to itself.
FindsNoLoop ==
  /\ BaseAt("destroy", "begin") /\ ~loop_[at]
  /\ NextThread
  /\ UNCHANGED <<thread, loopVars, useVars>>

QuitWith(value) ==
  /\ BaseAt("destroy", "quit") /\ loop_[at]
  /\ quit_' = Set(quit_, at, value)
  /\ GoOn("wake")
  /\ UNCHANGED <<thread, waitStarted_, loop_, notified, userQuit, useVars>>

\* Mutant: the thread is joined without being told.
SetQuitNot == QuitWith(FALSE)

SetQuit == QuitWith(TRUE)

\* The loop has gone since.
QuitsNull ==
  /\ BaseAt("destroy", "quit") /\ ~loop_[at]
  /\ base' = "crashed" /\ UNCHANGED <<at, step>>
  /\ UNCHANGED <<thread, loopVars, useVars>>

\* The second half of quit(): the loop may have seen quit_ by itself.
WakeQuitted ==
  /\ BaseAt("destroy", "wake") /\ GoOn("join")
  /\ UNCHANGED <<thread, loopVars, useVars>>

Join ==
  /\ BaseAt("destroy", "join") /\ thread[at] = "ended"
  /\ NextThread
  /\ UNCHANGED <<thread, loopVars, useVars>>

Destroyed ==
  /\ base = "destroy" /\ at = numThreads_ + 1
  /\ base' = "done" /\ UNCHANGED <<at, step>>
  /\ UNCHANGED <<thread, loopVars, useVars>>

-----------------------------------------------------------------------------
(* threadFunc().                                                           *)

Moves(t, from, to) ==
  /\ thread[t] = from /\ base # "crashed" /\ thread' = Set(thread, t, to)
  /\ UNCHANGED <<baseVars, useVars>>

InitCallbackReturns(t) == Moves(t, "init", "spin") /\ UNCHANGED loopVars

SpinEnds(t) == Moves(t, "spin", "publish") /\ waitStarted_[t] /\ UNCHANGED loopVars

PublishAnd(t, notify) ==
  /\ Moves(t, "publish", "before")
  /\ loop_' = Set(loop_, t, TRUE)
  /\ notified' = Set(notified, t, notify /\ BaseAt("start", "wait") /\ at = t)
  /\ UNCHANGED <<waitStarted_, quit_, userQuit>>

\* Mutant: the waiting thread is not told.
PublishSilently(t) == PublishAnd(t, FALSE)

PublishLoop(t) == PublishAnd(t, TRUE)

EnterLoop(t) ==
  /\ Moves(t, "before", "loop")
  /\ quit_' = Set(quit_, t, FALSE)
  /\ UNCHANGED <<waitStarted_, loop_, notified, userQuit>>

\* In a callback of the loop's own, for one.
UserQuits(t) ==
  /\ thread[t] = "loop" /\ base # "crashed"
  /\ quit_' = Set(quit_, t, TRUE) /\ userQuit' = userQuit \cup {t}
  /\ UNCHANGED <<baseVars, thread, waitStarted_, loop_, notified, useVars>>

LoopReturns(t) == Moves(t, "loop", "left") /\ quit_[t] /\ UNCHANGED loopVars

ClearLoop(t) ==
  /\ Moves(t, "left", "cleared")
  /\ loop_' = Set(loop_, t, FALSE)
  /\ UNCHANGED <<waitStarted_, notified, quit_, userQuit>>

\* The lock is released and the loop destroyed.
ThreadEnds(t) == Moves(t, "cleared", "ended") /\ UNCHANGED loopVars

-----------------------------------------------------------------------------
Base ==
  \/ StartThread \/ StartLoopLocked \/ WaitReturns \/ Started
  \/ FindsLoop \/ FindsNoLoop \/ SetQuit \/ QuitsNull \/ WakeQuitted \/ Join \/ Destroyed

ThreadFunc(t) ==
  \/ InitCallbackReturns(t) \/ SpinEnds(t) \/ PublishLoop(t)
  \/ EnterLoop(t) \/ LoopReturns(t) \/ ClearLoop(t) \/ ThreadEnds(t)

Next == Base \/ GetNextLoop \/ DestroyPool \/ \E t \in Threads : ThreadFunc(t) \/ UserQuits(t)

Spec == Init /\ [][Next]_vars

\* Every thread is scheduled, and the thread-init callback returns.
FairSpec == Spec /\ WF_vars(Base) /\ \A t \in Threads : WF_vars(ThreadFunc(t))

-----------------------------------------------------------------------------
(* Properties.                                                             *)

TypeOK ==
  /\ base \in {"start", "run", "destroy", "done", "crashed"}
  /\ at \in 1..(numThreads_ + 1)
  /\ step \in {"begin", "lock", "wait", "quit", "wake", "join"}
  /\ thread \in [Threads -> {"none", "init", "spin", "publish", "before", "loop",
                             "left", "cleared", "ended"}]
  /\ {waitStarted_, loop_, notified, quit_} \subseteq [Threads -> BOOLEAN]
  /\ userQuit \subseteq Threads
  /\ next_ \in 1..(IF numThreads_ = 0 THEN 1 ELSE numThreads_) /\ uses \in [Threads -> 0..MaxUses]

\* A loop that startLoop() has returned exists, and goes on existing until
\* the pool or the user makes it quit: unless the user does, the pool hands
\* out no dangling pointer.
LoopsExist ==
  \A t \in Threads \ userQuit :
    ((base = "start" /\ t < at) \/ base = "run" \/ (base = "destroy" /\ t > at))
      => loop_[t] /\ thread[t] \in {"before", "loop"}

\* When the pool is gone no thread of it is left behind, but one whose loop the
\* user has made quit: this may have cleared loop_, and is not waited for.
NoThreadOutlivesPool == base = "done" => \A t \in Threads \ userQuit : thread[t] = "ended"

\* The destructor calls quit() on a null pointer only if the user has made the
\* loop quit between its two readings of loop_, or shortly before.
OnlyUsersCrash == base = "crashed" => at \in userQuit

\* Connections are dealt out evenly.
RoundRobin == \A t, u \in Threads : uses[t] <= uses[u] + 1

\* start() returns: no notify is lost between the threads.  It hangs when the
\* user's loop has come and gone before startLoop() looks.
PoolStarts == base = "start" ~> base = "run" \/ at \in userQuit

\* The destructor returns, when every loop is in loop() by then or has been:
\* join() does not wait for a thread that quit() has not reached.
PoolEnds ==
  (base = "destroy" /\ at = 1 /\ step = "begin"
   /\ \A t \in Threads : thread[t] \in {"loop", "left", "cleared", "ended"})
    ~> base = "done" \/ base = "crashed"

=============================================================================
