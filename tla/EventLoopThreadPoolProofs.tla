---------------------- MODULE EventLoopThreadPoolProofs ---------------------
(***************************************************************************)
(* Theorems about EventLoopThreadPool, for every number of threads: the    *)
(* pool hands out no loop that does not exist, leaves no thread behind and *)
(* quits no null pointer, unless the user makes a loop quit, and it deals  *)
(* its loops out evenly.                                                   *)
(***************************************************************************)
EXTENDS EventLoopThreadPool, TLAPS

\* quit() of t's loop has been called, by the user or by the destructor.
Told(t) ==
  \/ t \in userQuit \/ base = "done"
  \/ base \in {"destroy", "crashed"} /\ (t < at \/ (t = at /\ step \notin {"begin", "quit"}))

\* startLoop() has returned t's loop.
HandedOut(t) == base # "start" \/ t < at

Untouched(t) == base = "start" /\ (t > at \/ (t = at /\ step = "begin"))

\* The base thread's program counter fits what it does.
BaseInv ==
  /\ base = "start" => step \in {"begin", "lock", "wait"}
  /\ base = "destroy" => step \in {"begin", "quit", "wake", "join"}
  /\ base = "crashed" => step = "quit" /\ at \in userQuit
  /\ at = numThreads_ + 1 => step = "begin"

\* Where a thread can be, from how far the base thread is with it, and that
\* its loop is published for as long as the loop lives.
ThreadInv(t) ==
  /\ thread[t] = "none" <=> Untouched(t)
  /\ HandedOut(t) => thread[t] \notin {"none", "init", "spin", "publish"}
  /\ loop_[t] <=> thread[t] \in {"before", "loop", "left"}
  /\ quit_[t] => Told(t)
  /\ thread[t] \in {"left", "cleared", "ended"} => Told(t)
  /\ base = "done" \/ (base = "destroy" /\ t < at) => thread[t] = "ended" \/ t \in userQuit

PoolInv == TypeOK /\ BaseInv /\ \A t \in Threads : ThreadInv(t)

USE NumThreadsAssumption DEF Threads

LEMMA PoolInit == Init => PoolInv
BY DEF Init, PoolInv, TypeOK, BaseInv, ThreadInv, Told, HandedOut, Untouched, ForAll

LEMMA TypeStep == TypeOK /\ [Next]_vars => TypeOK'
<1> SUFFICES ASSUME TypeOK, [Next]_vars PROVE TypeOK'
  OBVIOUS
<1> USE DEF TypeOK, baseVars, loopVars, useVars, BaseAt, GoOn, NextThread, Set, Moves
<1>1. CASE StartThread
  BY <1>1 DEF StartThread
<1>2. CASE StartLoopLocked
  BY <1>2 DEF StartLoopLocked, LockedTest
<1>3. CASE WaitReturns \/ Started \/ DestroyPool
  <2>1. CASE WaitReturns
    BY <2>1 DEF WaitReturns
  <2>2. CASE Started
    BY <2>2 DEF Started
  <2>3. CASE DestroyPool
    BY <2>3 DEF DestroyPool
  <2> QED
    BY <1>3, <2>1, <2>2, <2>3
<1>4. CASE GetNextLoop
  BY <1>4 DEF GetNextLoop
<1>5. CASE SetQuit
  BY <1>5 DEF SetQuit, QuitWith
<1>6. CASE FindsLoop \/ FindsNoLoop \/ QuitsNull \/ WakeQuitted \/ Join \/ Destroyed
  <2>1. CASE FindsLoop
    BY <2>1 DEF FindsLoop
  <2>2. CASE FindsNoLoop
    BY <2>2 DEF FindsNoLoop
  <2>3. CASE QuitsNull
    BY <2>3 DEF QuitsNull
  <2>4. CASE WakeQuitted
    BY <2>4 DEF WakeQuitted
  <2>5. CASE Join
    BY <2>5 DEF Join
  <2>6. CASE Destroyed
    BY <2>6 DEF Destroyed
  <2> QED
    BY <1>6, <2>1, <2>2, <2>3, <2>4, <2>5, <2>6
<1>7. ASSUME NEW t \in Threads, ThreadFunc(t) PROVE TypeOK'
  <2>1. CASE InitCallbackReturns(t) \/ SpinEnds(t) \/ LoopReturns(t) \/ ThreadEnds(t)
    BY <2>1, ZenonT(60) DEF InitCallbackReturns, SpinEnds, LoopReturns, ThreadEnds
  <2>2. CASE PublishLoop(t)
    BY <2>2 DEF PublishLoop, PublishAnd
  <2>3. CASE EnterLoop(t)
    BY <2>3 DEF EnterLoop
  <2>4. CASE ClearLoop(t)
    BY <2>4 DEF ClearLoop
  <2> QED
    BY <1>7, <2>1, <2>2, <2>3, <2>4 DEF ThreadFunc
<1>8. ASSUME NEW t \in Threads, UserQuits(t) PROVE TypeOK'
  BY <1>8 DEF UserQuits
<1>9. CASE UNCHANGED vars
  BY <1>9 DEF vars
<1> QED
  BY <1>1, <1>2, <1>3, <1>4, <1>5, <1>6, <1>7, <1>8, <1>9 DEF Next, Base

\* A step of a thread keeps what is known of it and touches no other.
LEMMA ThreadStep ==
  ASSUME PoolInv, NEW t \in Threads, ThreadFunc(t) \/ UserQuits(t)
  PROVE  BaseInv' /\ \A u \in Threads : ThreadInv(u)'
<1> USE DEF PoolInv, TypeOK, Moves, Set, baseVars, loopVars
<1>1. UNCHANGED baseVars /\ userQuit \subseteq userQuit' /\ userQuit' \subseteq userQuit \cup {t}
  BY DEF ThreadFunc, InitCallbackReturns, SpinEnds, PublishLoop, PublishAnd,
     EnterLoop, LoopReturns, ClearLoop, ThreadEnds, UserQuits
<1>2. ASSUME NEW u \in Threads, u # t PROVE ThreadInv(u)'
  <2>1. thread'[u] = thread[u] /\ loop_'[u] = loop_[u] /\ quit_'[u] = quit_[u]
    BY <1>2 DEF ThreadFunc, InitCallbackReturns, SpinEnds, PublishLoop, PublishAnd,
       EnterLoop, LoopReturns, ClearLoop, ThreadEnds, UserQuits
  <2> QED
    BY <1>1, <1>2, <2>1 DEF ThreadInv, Told, HandedOut, Untouched
<1>3. ThreadInv(t)'
  <2> USE DEF ThreadInv, Told, HandedOut, Untouched
  <2>1. CASE InitCallbackReturns(t) \/ SpinEnds(t)
    BY <1>1, <2>1 DEF InitCallbackReturns, SpinEnds
  <2>2. CASE PublishLoop(t)
    BY <1>1, <2>2 DEF PublishLoop, PublishAnd
  <2>3. CASE EnterLoop(t)
    BY <1>1, <2>3 DEF EnterLoop
  <2>4. CASE LoopReturns(t)
    BY <1>1, <2>4 DEF LoopReturns
  <2>5. CASE ClearLoop(t)
    BY <1>1, <2>5 DEF ClearLoop
  <2>6. CASE ThreadEnds(t)
    BY <1>1, <2>6 DEF ThreadEnds
  <2>7. CASE UserQuits(t)
    BY <1>1, <2>7 DEF UserQuits
  <2> QED
    BY <2>1, <2>2, <2>3, <2>4, <2>5, <2>6, <2>7 DEF ThreadFunc
<1> QED
  BY <1>1, <1>2, <1>3 DEF BaseInv

\* The base thread: a loop is handed out once it is published, a thread left
\* only once it has ended.
LEMMA BaseStep ==
  ASSUME PoolInv, Base \/ GetNextLoop \/ DestroyPool
  PROVE  BaseInv' /\ \A u \in Threads : ThreadInv(u)'
<1> USE DEF PoolInv, TypeOK, BaseInv, ThreadInv, Told, HandedOut, Untouched, BaseAt,
        GoOn, NextThread, Set, baseVars, loopVars
<1>1. CASE StartThread
  <2>1. BaseInv'
    BY <1>1 DEF StartThread
  <2>2. \A u \in Threads : u = at => ThreadInv(u)'
    BY <1>1 DEF StartThread
  <2>3. \A u \in Threads : u # at => ThreadInv(u)'
    BY <1>1 DEF StartThread
  <2> HIDE DEF BaseInv, ThreadInv
  <2> QED
    BY <2>1, <2>2, <2>3
<1>2. CASE StartLoopLocked
  BY <1>2 DEF StartLoopLocked, LockedTest
<1>3. CASE WaitReturns
  BY <1>3 DEF WaitReturns
<1>4. CASE Started
  BY <1>4 DEF Started
<1>5. CASE SetQuit
  BY <1>5 DEF SetQuit, QuitWith
<1>6. CASE FindsLoop \/ FindsNoLoop
  BY <1>6 DEF FindsLoop, FindsNoLoop
<1>7. CASE QuitsNull
  BY <1>7 DEF QuitsNull
<1>8. CASE WakeQuitted
  BY <1>8 DEF WakeQuitted
<1>9. CASE Join
  BY <1>9 DEF Join
<1>10. CASE Destroyed
  BY <1>10 DEF Destroyed
<1>11. CASE GetNextLoop
  BY <1>11 DEF GetNextLoop
<1>12. CASE DestroyPool
  BY <1>12 DEF DestroyPool
<1> QED
  BY <1>1, <1>2, <1>3, <1>4, <1>5, <1>6, <1>7, <1>8, <1>9, <1>10, <1>11, <1>12 DEF Base

LEMMA PoolStep == PoolInv /\ [Next]_vars => PoolInv'
<1> SUFFICES ASSUME PoolInv, [Next]_vars PROVE PoolInv'
  OBVIOUS
<1>1. TypeOK'
  BY TypeStep DEF PoolInv
<1>2. CASE UNCHANGED vars
  BY <1>1, <1>2 DEF vars, baseVars, loopVars, PoolInv, BaseInv, ThreadInv, Told, HandedOut,
     Untouched
<1> QED
  BY <1>1, <1>2, ThreadStep, BaseStep DEF Next, PoolInv

LEMMA PoolInvAlways == Spec => []PoolInv
BY PoolInit, PoolStep, PTL DEF Spec

\* Every variable of the pool keeps its range.
THEOREM TypeCorrect == Spec => []TypeOK
BY PoolInvAlways, PTL DEF PoolInv

\* A loop that startLoop() or getNextLoop() has returned is there until the
\* pool itself makes its thread quit (EventLoopThread.cc: threadFunc).
THEOREM HandedOutLoopsExist == Spec => []LoopsExist
<1>1. PoolInv => LoopsExist
  BY DEF PoolInv, TypeOK, ThreadInv, Told, HandedOut, LoopsExist
<1> QED
  BY <1>1, PoolInvAlways, PTL

\* The pool's destructor has joined every thread (EventLoopThread.cc:14).
THEOREM NoThreadIsLeft == Spec => []NoThreadOutlivesPool
<1>1. PoolInv => NoThreadOutlivesPool
  BY DEF PoolInv, ThreadInv, NoThreadOutlivesPool
<1> QED
  BY <1>1, PoolInvAlways, PTL

\* The destructor's quit() finds a loop, unless the user has made it quit
\* (EventLoopThread.cc:17, :18: loop_ is read twice, without the lock).
THEOREM QuitFindsLoop == Spec => []OnlyUsersCrash
<1>1. PoolInv => OnlyUsersCrash
  BY DEF PoolInv, BaseInv, OnlyUsersCrash
<1> QED
  BY <1>1, PoolInvAlways, PTL

-----------------------------------------------------------------------------

\* The loops before the next one have been chosen once more than the others.
DealtInv ==
  \A t, u \in Threads :
    /\ t < next_ /\ u >= next_ => uses[t] = uses[u] + 1
    /\ (t < next_ <=> u < next_) => uses[t] = uses[u]

LEMMA DealtStep == TypeOK /\ DealtInv /\ [Next]_vars => DealtInv'
<1> SUFFICES ASSUME TypeOK, DealtInv, [Next]_vars PROVE DealtInv'
  OBVIOUS
<1>1. CASE GetNextLoop
  <2> USE DEF TypeOK, DealtInv
  <2>1. /\ numThreads_ > 0 /\ next_ \in Threads
        /\ next_' = IF next_ = numThreads_ THEN 1 ELSE next_ + 1
        /\ \A t \in Threads : uses'[t] = IF t = next_ THEN uses[t] + 1 ELSE uses[t]
    BY <1>1 DEF GetNextLoop, Set
  <2>2. \A t \in Threads : uses[t] \in Nat
    OBVIOUS
  <2>3. CASE next_ = numThreads_
    <3>1. \A t \in Threads : uses'[t] = uses[next_] + 1
      BY <2>1, <2>2, <2>3
    <3> QED
      BY <2>1, <2>2, <2>3, <3>1
  <2>4. CASE next_ # numThreads_
    <3> SUFFICES ASSUME NEW t \in Threads, NEW u \in Threads
                 PROVE  /\ t < next_' /\ u >= next_' => uses'[t] = uses'[u] + 1
                        /\ (t < next_' <=> u < next_') => uses'[t] = uses'[u]
      OBVIOUS
    <3>1. next_' = next_ + 1 /\ next_ \in Int /\ t \in Int /\ u \in Int
      BY <2>1, <2>4
    <3>2. /\ t < next_ /\ u >= next_ => uses[t] = uses[u] + 1
          /\ u < next_ /\ t >= next_ => uses[u] = uses[t] + 1
          /\ (t < next_ <=> u < next_) => uses[t] = uses[u]
      OBVIOUS
    <3>3. /\ t < next_ => uses[t] = uses[next_] + 1
          /\ u < next_ => uses[u] = uses[next_] + 1
          /\ ~(t < next_) => uses[t] = uses[next_]
          /\ ~(u < next_) => uses[u] = uses[next_]
      BY <2>1, <3>1
    <3> QED
      BY <2>1, <2>2, <3>1, <3>2, <3>3
  <2> QED
    BY <2>3, <2>4
<1>2. CASE UNCHANGED useVars
  BY <1>2 DEF useVars, DealtInv
<1> QED
  BY <1>1, <1>2 DEF Next, Base, StartThread, StartLoopLocked, LockedTest, WaitReturns, Started,
     FindsLoop, FindsNoLoop, QuitsNull, UserQuits, SetQuit, QuitWith, WakeQuitted, Join, Destroyed, DestroyPool, ThreadFunc,
     InitCallbackReturns, SpinEnds, PublishLoop, PublishAnd, EnterLoop, LoopReturns, ClearLoop,
     ThreadEnds, Moves, vars

\* getNextLoop() deals out evenly: no loop is ever two connections ahead of
\* another (EventLoopThreadPool.cc: next_ and its reset).
THEOREM DealtEvenly == Spec => []RoundRobin
<1>1. Init => DealtInv
  BY DEF Init, DealtInv, ForAll
<1>2. TypeOK /\ DealtInv => RoundRobin
  <2> SUFFICES ASSUME TypeOK, DealtInv, NEW t \in Threads, NEW u \in Threads
               PROVE  uses[t] <= uses[u] + 1
    BY DEF RoundRobin
  <2>1. uses[t] \in Nat /\ uses[u] \in Nat /\ next_ \in Int
    BY DEF TypeOK
  <2> QED
    BY <2>1 DEF DealtInv
<1> QED
  BY <1>1, <1>2, DealtStep, TypeCorrect, PTL DEF Spec

=============================================================================
