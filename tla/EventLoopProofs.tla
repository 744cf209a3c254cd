-------------------------- MODULE EventLoopProofs ---------------------------
(***************************************************************************)
(* Theorems about EventLoop, for any number of calling threads and of      *)
(* functors: the types, the absence of lost wakeups, and the refinement of *)
(* Executor.                                                               *)
(***************************************************************************)
EXTENDS EventLoop, SequenceTheorems, TLAPS

\* The condition of NoLostWakeup is inductive once it also knows that the
\* flag is set only by a pass, so that no loop() is yet to be entered.
WakeInv ==
  /\ NoLostWakeup
  /\ callingPendingFunctors_ => phase # "created"

LEMMA TypeInit == Init => TypeOK
BY EmptySeq DEF Init, TypeOK, Phases

\* Each call and each phase of the loop keeps every variable in its range.
LEMMA TypeStep == TypeOK /\ [Next]_vars => TypeOK'
<1> SUFFICES ASSUME TypeOK, [Next]_vars PROVE TypeOK'
  OBVIOUS
<1> USE DEF TypeOK, Phases, functorVars, sharedVars, OnlyPhase
<1>1. ASSUME NEW t \in Threads, NEW f \in Functors, QueueInLoop(t, f) PROVE TypeOK'
  BY <1>1, AppendProperties DEF QueueInLoop, Push
<1>2. ASSUME NEW t \in Threads, NEW f \in Functors, RunInLoop(t, f) PROVE TypeOK'
  BY <1>2, AppendProperties DEF RunInLoop
<1>3. ASSUME NEW t \in Threads, Quit(t) PROVE TypeOK'
  BY <1>3 DEF Quit, AskToQuit
<1>4. ASSUME NEW t \in Threads, Wakeup(t) PROVE TypeOK'
  BY <1>4 DEF Wakeup
<1>5. CASE EnterLoop
  BY <1>5 DEF EnterLoop, Advance
<1>6. CASE TestQuit
  BY <1>6 DEF TestQuit, Advance
<1>7. ASSUME NEW ready \in SUBSET {"wakeup", "io"}, PollReturns(ready) PROVE TypeOK'
  BY <1>7 DEF PollReturns, Advance
<1>8. CASE PollTimesOut
  BY <1>8 DEF PollTimesOut, Advance
<1>9. CASE HandleRead
  BY <1>9 DEF HandleRead, Advance
<1>10. CASE IoCallbackReturns
  BY <1>10 DEF IoCallbackReturns, Advance
<1>11. CASE DispatchDone
  BY <1>11 DEF DispatchDone, Advance
<1>12. CASE MarkCalling
  BY <1>12 DEF MarkCalling, Advance
<1>13. CASE SwapFunctors
  BY <1>13, EmptySeq DEF SwapFunctors, TakeFunctors, Advance
<1>14. CASE FunctorReturns
  <2>1. Head(functors) \in Functors /\ Tail(functors) \in Seq(Functors)
    BY <1>14, HeadTailProperties DEF FunctorReturns
  <2> QED
    BY <1>14, <2>1, AppendProperties DEF FunctorReturns, Advance
<1>15. CASE FunctorsDone
  BY <1>15 DEF FunctorsDone, Advance
<1>16. ASSUME NEW due \in BOOLEAN, TimerDue(due) PROVE TypeOK'
  BY <1>16 DEF TimerDue, Advance
<1>17. CASE TimerCallbackReturns
  BY <1>17 DEF TimerCallbackReturns, Advance
<1>18. CASE UNCHANGED vars
  BY <1>18 DEF vars
<1> QED
  BY <1>1, <1>2, <1>3, <1>4, <1>5, <1>6, <1>7, <1>8, <1>9, <1>10, <1>11, <1>12,
     <1>13, <1>14, <1>15, <1>16, <1>17, <1>18
  DEF Next, Call, Round

\* Every variable of the loop keeps its range, and the vectors local to one
\* phase of loop() are empty outside it.
THEOREM TypeCorrect == Spec => []TypeOK
<1> QED
  BY TypeInit, TypeStep, PTL DEF Spec

-----------------------------------------------------------------------------

\* A call that pushes a functor or asks to quit leaves the loop's own phase
\* and flag alone and never takes a wakeup away.
LEMMA CallKeepsWakeInv ==
  ASSUME TypeOK, WakeInv, NEW t \in Threads, Call(t) \/ Wakeup(t)
  PROVE  WakeInv'
<1> USE DEF WakeInv, NoLostWakeup, WakeupOnItsWay, TypeOK, functorVars, sharedVars
<1>1. ASSUME NEW f \in Functors, QueueInLoop(t, f) PROVE WakeInv'
  BY <1>1 DEF QueueInLoop, Push
<1>2. ASSUME NEW f \in Functors, RunInLoop(t, f) PROVE WakeInv'
  BY <1>2 DEF RunInLoop
<1>3. CASE Quit(t)
  BY <1>3 DEF Quit, AskToQuit, MayCall
<1>4. CASE Wakeup(t)
  BY <1>4 DEF Wakeup
<1> QED
  BY <1>1, <1>2, <1>3, <1>4 DEF Call

\* Steps of the loop's thread: only HandleRead takes a wakeup away, and a
\* swap of the pending functors follows it before the next poll.
LEMMA LoopKeepsWakeInv ==
  ASSUME TypeOK, WakeInv,
         \/ Round
         \/ PollTimesOut
         \/ PollReturns({"io"})
         \/ PollReturns({"io", "wakeup"})
  PROVE  WakeInv'
<1> USE DEF WakeInv, NoLostWakeup, WakeupOnItsWay, TypeOK, Advance, OnlyPhase,
            functorVars, sharedVars
<1>1. CASE EnterLoop
  BY <1>1 DEF EnterLoop
<1>2. CASE TestQuit
  BY <1>2 DEF TestQuit
<1>3. ASSUME NEW ready, PollReturns(ready) PROVE WakeInv'
  BY <1>3 DEF PollReturns
<1>4. CASE PollTimesOut
  BY <1>4 DEF PollTimesOut
<1>5. CASE HandleRead
  BY <1>5 DEF HandleRead
<1>6. CASE IoCallbackReturns
  BY <1>6 DEF IoCallbackReturns
<1>7. CASE DispatchDone
  BY <1>7 DEF DispatchDone
<1>8. CASE MarkCalling
  BY <1>8 DEF MarkCalling
<1>9. CASE SwapFunctors
  BY <1>9 DEF SwapFunctors, TakeFunctors
<1>10. CASE FunctorReturns
  BY <1>10 DEF FunctorReturns
<1>11. CASE FunctorsDone
  BY <1>11 DEF FunctorsDone
<1>12. ASSUME NEW due \in BOOLEAN, TimerDue(due) PROVE WakeInv'
  BY <1>12 DEF TimerDue
<1>13. CASE TimerCallbackReturns
  BY <1>13 DEF TimerCallbackReturns
<1> QED
  BY <1>1, <1>2, <1>3, <1>4, <1>5, <1>6, <1>7, <1>8, <1>9, <1>10, <1>11, <1>12,
     <1>13 DEF Round

\* From the first pass over the functors on, the loop never blocks in
\* epoll_wait with a functor pending and no wakeup under way.
THEOREM NoWakeupIsLost == Spec => []NoLostWakeup
<1>1. Init => WakeInv
  BY DEF Init, WakeInv, NoLostWakeup
<1>2. TypeOK /\ WakeInv /\ [Next]_vars => WakeInv'
  <2> SUFFICES ASSUME TypeOK, WakeInv, [Next]_vars PROVE WakeInv'
    OBVIOUS
  <2>1. CASE \E t \in Threads : Call(t) \/ Wakeup(t)
    BY <2>1, CallKeepsWakeInv
  <2>2. CASE Round \/ PollReturns({"io"}) \/ PollReturns({"io", "wakeup"}) \/ PollTimesOut
    BY <2>2, LoopKeepsWakeInv
  <2>3. CASE UNCHANGED vars
    BY <2>3 DEF vars, WakeInv, NoLostWakeup, WakeupOnItsWay
  <2> QED
    BY <2>1, <2>2, <2>3 DEF Next
<1>3. WakeInv => NoLostWakeup
  BY DEF WakeInv
<1> QED
  BY <1>1, <1>2, <1>3, TypeCorrect, PTL DEF Spec

-----------------------------------------------------------------------------
(* The loop implements Executor.                                           *)

\* Appending to the pending functors appends to the whole queue.
LEMMA AppendToQueue ==
  ASSUME NEW S, NEW s \in Seq(S), NEW p \in Seq(S), NEW f \in S
  PROVE  s \o Append(p, f) = Append(s \o p, f)
<1>1. <<f>> \in Seq(S)
  BY AppendProperties, AppendIsConcat, EmptySeq, ConcatEmptySeq
<1>2. s \o p \in Seq(S)
  BY ConcatProperties
<1> QED
  BY <1>1, <1>2, AppendIsConcat, ConcatAssociative

\* The head of the pass is the head of the whole queue.
LEMMA HeadTailOfQueue ==
  ASSUME NEW S, NEW s \in Seq(S), NEW p \in Seq(S), s # <<>>
  PROVE  /\ s \o p # <<>>
         /\ Head(s \o p) = Head(s)
         /\ Tail(s \o p) = Tail(s) \o p
<1> DEFINE q == s \o p
<1>1. q \in Seq(S) /\ Len(q) = Len(s) + Len(p) /\ Len(s) \in Nat \ {0} /\ Len(p) \in Nat
  BY ConcatProperties, EmptySeq, LenProperties
<1>2. \A i \in 1..Len(q) : q[i] = IF i <= Len(s) THEN s[i] ELSE p[i - Len(s)]
  BY ConcatProperties, <1>1
<1>3. q # <<>>
  BY <1>1, EmptySeq
<1>4. Head(q) = Head(s)
  BY <1>1, <1>2
<1>5. /\ Tail(q) \in Seq(S) /\ Len(Tail(q)) = Len(q) - 1
      /\ \A i \in 1..Len(Tail(q)) : Tail(q)[i] = q[i+1]
  BY <1>1, <1>3, HeadTailProperties
<1>6. /\ Tail(s) \in Seq(S) /\ Len(Tail(s)) = Len(s) - 1
      /\ \A i \in 1..Len(Tail(s)) : Tail(s)[i] = s[i+1]
  BY HeadTailProperties
<1>7. /\ Tail(s) \o p \in Seq(S) /\ Len(Tail(s) \o p) = Len(Tail(s)) + Len(p)
      /\ \A i \in 1..(Len(Tail(s)) + Len(p)) :
           (Tail(s) \o p)[i] = IF i <= Len(Tail(s)) THEN Tail(s)[i] ELSE p[i - Len(Tail(s))]
  BY <1>6, ConcatProperties
<1>8. ASSUME NEW i \in 1..Len(Tail(q)) PROVE Tail(q)[i] = (Tail(s) \o p)[i]
  <2>1. CASE i <= Len(s) - 1
    BY <2>1, <1>1, <1>2, <1>5, <1>6, <1>7
  <2>2. CASE i > Len(s) - 1
    <3>1. i + 1 \in 1..Len(q) /\ i + 1 > Len(s) /\ (i + 1) - Len(s) = i - (Len(s) - 1)
      BY <2>2, <1>1, <1>5
    <3>2. Tail(q)[i] = p[(i + 1) - Len(s)]
      BY <3>1, <1>1, <1>2, <1>5
    <3>3. (Tail(s) \o p)[i] = p[i - (Len(s) - 1)]
      BY <2>2, <1>1, <1>5, <1>6, <1>7
    <3> QED
      BY <3>1, <3>2, <3>3
  <2> QED
    BY <2>1, <2>2, <1>1, <1>5
<1>9. Tail(q) = Tail(s) \o p
  BY <1>1, <1>5, <1>6, <1>7, <1>8, SeqEqual
<1> QED
  BY <1>3, <1>4, <1>9

\* Every step of the loop or of a caller is a step of Executor or leaves its
\* variables alone.
LEMMA StepRefines ==
  ASSUME TypeOK, [Next]_vars
  PROVE  [Exec!Next]_(Exec!execVars)
<1> USE DEF TypeOK, Exec!execVars, functorVars, sharedVars, OnlyPhase
<1>1. ASSUME NEW t \in Threads, NEW f \in Functors, QueueInLoop(t, f)
      PROVE  Exec!Next
  <2>1. functors' \o pendingFunctors_' = Append(functors \o pendingFunctors_, f)
    BY <1>1, AppendToQueue DEF QueueInLoop, Push
  <2>2. Exec!Post(f)
    BY <1>1, <2>1 DEF QueueInLoop, Push, Exec!Post
  <2> QED
    BY <2>2 DEF Exec!Next
<1>2. ASSUME NEW t \in Threads, NEW f \in Functors, RunInLoop(t, f)
      PROVE  Exec!Next
  <2>1. Exec!RunInline(f)
    BY <1>2 DEF RunInLoop, MayCall, InCallback, Exec!RunInline
  <2> QED
    BY <2>1 DEF Exec!Next
<1>3. ASSUME NEW t \in Threads, Quit(t) \/ Wakeup(t) PROVE UNCHANGED Exec!execVars
  BY <1>3 DEF Quit, AskToQuit, Wakeup
<1>4. CASE TestQuit
  <2>1. CASE quit_
    <3>1. Exec!Stop
      BY <1>4, <2>1 DEF TestQuit, Advance, Exec!Stop
    <3> QED
      BY <3>1 DEF Exec!Next
  <2>2. CASE ~quit_
    BY <1>4, <2>2 DEF TestQuit, Advance
  <2> QED
    BY <2>1, <2>2
<1>5. CASE SwapFunctors
  <2>1. functors = <<>>
    BY <1>5 DEF SwapFunctors, TakeFunctors, Advance
  <2>2. functors' \o pendingFunctors_' = functors \o pendingFunctors_
    BY <1>5, <2>1, ConcatEmptySeq DEF SwapFunctors, TakeFunctors
  <2> QED
    BY <1>5, <2>2 DEF SwapFunctors, TakeFunctors, Advance
<1>6. CASE FunctorReturns
  <2>1. /\ functors \o pendingFunctors_ # <<>>
        /\ Head(functors \o pendingFunctors_) = Head(functors)
        /\ Tail(functors \o pendingFunctors_) = Tail(functors) \o pendingFunctors_
    BY <1>6, HeadTailOfQueue DEF FunctorReturns
  <2>2. Exec!RunNext
    BY <1>6, <2>1 DEF FunctorReturns, Advance, Exec!RunNext
  <2> QED
    BY <2>2 DEF Exec!Next
<1>7. CASE \/ EnterLoop \/ HandleRead \/ IoCallbackReturns \/ DispatchDone
           \/ MarkCalling \/ FunctorsDone \/ TimerCallbackReturns \/ PollTimesOut
  BY <1>7 DEF Advance, EnterLoop, HandleRead, IoCallbackReturns, DispatchDone,
              MarkCalling, FunctorsDone, TimerCallbackReturns, PollTimesOut
<1>8. ASSUME NEW ready, PollReturns(ready) PROVE UNCHANGED Exec!execVars
  BY <1>8 DEF PollReturns, Advance
<1>9. ASSUME NEW due \in BOOLEAN, TimerDue(due) PROVE UNCHANGED Exec!execVars
  BY <1>9 DEF TimerDue, Advance
<1>10. CASE UNCHANGED vars
  BY <1>10 DEF vars
<1> QED
  BY <1>1, <1>2, <1>3, <1>4, <1>5, <1>6, <1>7, <1>8, <1>9, <1>10
  DEF Next, Call, Round

\* The loop is a FIFO executor: functors run in the order of their pushes,
\* each once, for any number of threads calling in.
THEOREM LoopIsFifoExecutor == Spec => ImplementsExecutor
<1>1. Init => Exec!Init
  BY EmptySeq, ConcatEmptySeq DEF Init, Exec!Init
<1>2. TypeOK /\ [Next]_vars => [Exec!Next]_(Exec!execVars)
  BY StepRefines
<1> QED
  BY <1>1, <1>2, TypeCorrect, PTL DEF Spec, ImplementsExecutor, Exec!Spec

=============================================================================
