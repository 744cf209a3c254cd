----------------------------- MODULE EventLoop ------------------------------
(***************************************************************************)
(* One EventLoop (EventLoop.h, EventLoop.cc): its thread going round       *)
(* loop(), and any number of other threads that call queueInLoop,          *)
(* runInLoop and quit on it at any moment.                                 *)
(*                                                                         *)
(* A step is what one thread does between two accesses to shared state:    *)
(* the push under mutex_ is one step, the eventfd write that may follow it *)
(* is another, and the loop's thread may run in between.  The eventfd is   *)
(* readable or not (its count is never looked at).  Functor identities are *)
(* used once each, which bounds the number of calls.  All channels but the *)
(* wakeup channel are one channel "io" whose callback is user code.        *)
(*                                                                         *)
(* Left out: ~EventLoop (see README), the return time of the poll, logging.*)
(***************************************************************************)
EXTENDS Naturals, Sequences

CONSTANTS Functors,    \* the functors handed to the loop, each at most once
          LoopThread,  \* the thread that constructed the loop
          Callers      \* the other threads

ASSUME ThreadsDistinct == LoopThread \notin Callers

VARIABLES
  phase,                   \* where the loop's thread is in loop()
  quit_,
  callingPendingFunctors_,
  pendingFunctors_,        \* guarded by mutex_
  functors,                \* the local vector of doPendingFunctors()
  activeChannels_,         \* channels of this round not handled yet
  wakeupFd_,               \* the eventfd is readable
  call,                    \* what each thread still has to do of its call
  ran                      \* history: functors completed, in order

vars == <<phase, quit_, callingPendingFunctors_, pendingFunctors_, functors,
          activeChannels_, wakeupFd_, call, ran>>

functorVars == <<pendingFunctors_, functors, ran>>
sharedVars == <<quit_, wakeupFd_, call>>

Threads == Callers \cup {LoopThread}

Phases == {"created", "test", "poll", "dispatch", "mark", "swap", "functors",
           "timer", "ticking", "exited"}

SeqElems(s) == {s[i] : i \in 1..Len(s)}

Init ==
  /\ phase = "created"
  /\ quit_ = FALSE
  /\ callingPendingFunctors_ = FALSE
  /\ pendingFunctors_ = <<>>
  /\ functors = <<>>
  /\ activeChannels_ = {}
  /\ wakeupFd_ = FALSE
  /\ call = [t \in Threads |-> "idle"]
  /\ ran = <<>>

-----------------------------------------------------------------------------
(* Calls any thread makes.                                                 *)

\* The loop's thread is inside user code: the thread-init callback before
\* loop(), a channel callback, a functor, or the timer callback.
InCallback ==
  \/ phase = "created"
  \/ phase = "dispatch" /\ "io" \in activeChannels_
  \/ phase = "functors" /\ functors # <<>>
  \/ phase = "ticking"

MayCall(t) == call[t] = "idle" /\ (t = LoopThread => InCallback)

Fresh(f) == f \notin SeqElems(pendingFunctors_) \cup SeqElems(functors) \cup SeqElems(ran)

\* The functor is pushed under the lock; the loop is woken, if at all, after
\* the lock is released.
Push(t, f, wakes) ==
  /\ MayCall(t) /\ Fresh(f)
  /\ pendingFunctors_' = Append(pendingFunctors_, f)
  /\ call' = [call EXCEPT ![t] = IF wakes THEN "wake" ELSE "idle"]
  /\ UNCHANGED <<phase, quit_, callingPendingFunctors_, functors,
                 activeChannels_, wakeupFd_, ran>>

\* Mutant: the loop's own thread never wakes the loop.
QueueInLoopWakesForOthersOnly(t, f) == Push(t, f, t # LoopThread)

QueueInLoop(t, f) == Push(t, f, t # LoopThread \/ callingPendingFunctors_)

\* On another thread runInLoop is queueInLoop; on the loop's own thread the
\* functor runs inside the call.
RunInLoop(t, f) ==
  /\ t = LoopThread
  /\ MayCall(t) /\ Fresh(f)
  /\ ran' = Append(ran, f)
  /\ UNCHANGED <<phase, callingPendingFunctors_, pendingFunctors_, functors,
                 activeChannels_, sharedVars>>

AskToQuit(t, wakes) ==
  /\ MayCall(t)
  /\ quit_' = TRUE
  /\ call' = [call EXCEPT ![t] = IF wakes THEN "wake" ELSE "idle"]
  /\ UNCHANGED <<phase, callingPendingFunctors_, activeChannels_, wakeupFd_, functorVars>>

\* Mutant: quit() only sets its flag.
QuitWithoutWakeup(t) == AskToQuit(t, FALSE)

Quit(t) == AskToQuit(t, t # LoopThread)

Wakeup(t) ==
  /\ call[t] = "wake"
  /\ wakeupFd_' = TRUE
  /\ call' = [call EXCEPT ![t] = "idle"]
  /\ UNCHANGED <<phase, quit_, callingPendingFunctors_, activeChannels_, functorVars>>

-----------------------------------------------------------------------------
(* The loop's thread in loop().                                            *)

\* The thread is not in the middle of a call and goes from one phase to another.
Advance(from, to) ==
  /\ call[LoopThread] = "idle"
  /\ phase = from
  /\ phase' = to

\* Nothing but the phase changes.
OnlyPhase == UNCHANGED <<callingPendingFunctors_, activeChannels_, sharedVars, functorVars>>

EnterLoop ==
  /\ Advance("created", "test")
  /\ quit_' = FALSE
  /\ UNCHANGED <<callingPendingFunctors_, activeChannels_, wakeupFd_, call, functorVars>>

TestQuit == Advance("test", IF quit_ THEN "exited" ELSE "poll") /\ OnlyPhase

\* epoll_wait returns some of the ready channels (its list may be full).
PollReturns(ready) ==
  /\ Advance("poll", "dispatch")
  /\ ready # {}
  /\ "wakeup" \in ready => wakeupFd_
  /\ activeChannels_' = ready
  /\ UNCHANGED <<callingPendingFunctors_, sharedVars, functorVars>>

\* kPollTimeMs ran out, or epoll_wait was interrupted.
PollTimesOut == Advance("poll", "mark") /\ OnlyPhase

HandleRead ==
  /\ Advance("dispatch", "dispatch")
  /\ "wakeup" \in activeChannels_
  /\ wakeupFd_' = FALSE
  /\ activeChannels_' = activeChannels_ \ {"wakeup"}
  /\ UNCHANGED <<quit_, callingPendingFunctors_, call, functorVars>>

IoCallbackReturns ==
  /\ Advance("dispatch", "dispatch")
  /\ "io" \in activeChannels_
  /\ activeChannels_' = activeChannels_ \ {"io"}
  /\ UNCHANGED <<callingPendingFunctors_, sharedVars, functorVars>>

DispatchDone == Advance("dispatch", "mark") /\ activeChannels_ = {} /\ OnlyPhase

\* doPendingFunctors() sets the flag and never clears it.
MarkCalling ==
  /\ Advance("mark", "swap")
  /\ callingPendingFunctors_' = TRUE
  /\ UNCHANGED <<activeChannels_, sharedVars, functorVars>>

TakeFunctors(left) ==
  /\ Advance("swap", "functors")
  /\ functors' = pendingFunctors_
  /\ pendingFunctors_' = left
  /\ UNCHANGED <<callingPendingFunctors_, activeChannels_, sharedVars, ran>>

\* Mutant: the pending functors are copied, not swapped out.
CopyFunctors == TakeFunctors(pendingFunctors_)

SwapFunctors == TakeFunctors(<<>>)

\* The functor at the head has been running since the step before; it returns.
FunctorReturns ==
  /\ Advance("functors", "functors")
  /\ functors # <<>>
  /\ ran' = Append(ran, Head(functors))
  /\ functors' = Tail(functors)
  /\ UNCHANGED <<callingPendingFunctors_, pendingFunctors_, activeChannels_, sharedVars>>

FunctorsDone == Advance("functors", "timer") /\ functors = <<>> /\ OnlyPhase

\* timerCallback_ runs if it is set and a second has passed since it last ran.
TimerDue(due) == Advance("timer", IF due THEN "ticking" ELSE "test") /\ OnlyPhase

TimerCallbackReturns == Advance("ticking", "test") /\ OnlyPhase

-----------------------------------------------------------------------------
Call(t) ==
  \/ \E f \in Functors : QueueInLoop(t, f) \/ RunInLoop(t, f)
  \/ Quit(t)

\* What the loop's thread does by itself once user code has returned.
Round ==
  \/ EnterLoop
  \/ TestQuit
  \/ PollReturns({"wakeup"})
  \/ HandleRead
  \/ IoCallbackReturns
  \/ DispatchDone
  \/ MarkCalling
  \/ SwapFunctors
  \/ FunctorReturns
  \/ FunctorsDone
  \/ \E due \in BOOLEAN : TimerDue(due)
  \/ TimerCallbackReturns

Next ==
  \/ \E t \in Threads : Call(t) \/ Wakeup(t)
  \/ Round
  \/ PollReturns({"io"})
  \/ PollReturns({"io", "wakeup"})
  \/ PollTimesOut

Spec == Init /\ [][Next]_vars

\* Every thread is scheduled, callbacks return, and a readable eventfd ends
\* the poll.  Nothing is assumed of the poll's timeout or of other channels.
WakeFairness == WF_vars(Round) /\ \A t \in Threads : WF_vars(Wakeup(t))

WakeSpec == Spec /\ WakeFairness

-----------------------------------------------------------------------------
(* Properties.                                                             *)

\* The vectors that live for one phase are empty outside it: activeChannels_
\* is cleared before each poll, functors is local to doPendingFunctors().
TypeOK ==
  /\ phase \in Phases
  /\ quit_ \in BOOLEAN
  /\ callingPendingFunctors_ \in BOOLEAN
  /\ pendingFunctors_ \in Seq(Functors)
  /\ functors \in Seq(Functors)
  /\ activeChannels_ \subseteq {"wakeup", "io"}
  /\ wakeupFd_ \in BOOLEAN
  /\ call \in [Threads -> {"idle", "wake"}]
  /\ ran \in Seq(Functors)
  /\ activeChannels_ # {} => phase = "dispatch"
  /\ functors # <<>> => phase = "functors"

\* A wakeup is on its way: the eventfd is readable, or a thread that has
\* pushed its functor is about to write it.
WakeupOnItsWay == wakeupFd_ \/ \E t \in Threads : call[t] = "wake"

\* The loop never sleeps on work: from the first pass over the functors on,
\* whenever the loop is in (or on its way into) epoll_wait with a functor
\* pending, a wakeup is on its way.  This is what the condition of
\* queueInLoop (EventLoop.cc:128) is for; it covers functors pushed while the
\* eventfd was being drained, by a functor of the running pass, and by the
\* timer callback, after which no pass follows before the poll.
NoLostWakeup ==
  (phase \in {"functors", "timer", "ticking", "test", "poll"}
     /\ callingPendingFunctors_ /\ pendingFunctors_ # <<>>) => WakeupOnItsWay

\* The loop is a FIFO executor: functors run in the order their pushes took
\* the lock, each once, whatever the callers and the swap interleave to.
Exec == INSTANCE Executor WITH queue <- functors \o pendingFunctors_,
                               stopped <- phase = "exited"
ImplementsExecutor == Exec!Spec

\* Wakeups alone suffice: a functor pending once the loop has made a pass
\* runs, or the loop exits, without the poll's timeout (WakeSpec).
WakeupsSuffice ==
  \A f \in Functors :
    (f \in SeqElems(pendingFunctors_) /\ callingPendingFunctors_)
      ~> (f \in SeqElems(ran) \/ phase = "exited")

\* quit() on a loop that is in loop() stops it, from whatever thread it comes
\* and wherever the loop is, without waiting for the poll's timeout.
QuitStopsRunningLoop == (quit_ /\ phase # "created") ~> (phase = "exited")

=============================================================================
