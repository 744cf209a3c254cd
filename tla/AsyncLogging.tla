---------------------------- MODULE AsyncLogging ----------------------------
(***************************************************************************)
(* The double-buffered log (AsyncLogging.h, AsyncLogging.cc): any number   *)
(* of threads that append lines, one back-end thread that swaps the full   *)
(* buffers out and writes them, and the thread that starts and stops it.   *)
(*                                                                         *)
(* A critical section under mutex_ is one step.  A buffer is the sequence  *)
(* of its lines with cur, the bytes used; a moved-from pointer is Null.    *)
(* A line is appended once.  fwrite does not fail; start() is called once, *)
(* and stop() after it.                                                    *)
(***************************************************************************)
EXTENDS SequencesExt, Naturals

CONSTANTS Lines, LineLen, kBufferSize, Null

\* A line of no bytes would leave the log as it is.
ASSUME LineLenAssumption == LineLen \in [Lines -> Nat \ {0}]
ASSUME BufferSizeAssumption == kBufferSize \in Nat \ {0}

VARIABLES
  running_, currentBuffer_, nextBuffer_,
  buffers_,          \* full buffers, oldest first
  buffer1, buffer2,  \* the spare buffers of threadFunc
  buffersToWrite,
  pc,                \* the back-end's place in threadFunc
  signaled,          \* a notify has reached the waiting back-end
  stopper,           \* the thread in stop(): "idle", "notify", "join", "returned"
  crashed,           \* append() went through a null currentBuffer_
  logged,            \* history: lines appended that fit a buffer, in order
  dropped,           \* history: lines appended that fit none
  atStop,            \* history: the value of logged when stop() was called
  file               \* what has been written

frontVars == <<currentBuffer_, nextBuffer_, buffers_>>
backVars == <<buffer1, buffer2, buffersToWrite, pc>>
stopVars == <<running_, stopper, atStop>>
histVars == <<logged, dropped>>
vars == <<frontVars, backVars, stopVars, signaled, crashed, histVars, file>>

EmptyBuffer == [lines |-> <<>>, cur |-> 0]
BufferType == [lines : Seq(Lines), cur : 0..(kBufferSize - 1)]

ASSUME NullAssumption == Null \notin BufferType

Init ==
  /\ running_ = FALSE
  /\ currentBuffer_ = EmptyBuffer /\ nextBuffer_ = EmptyBuffer /\ buffers_ = <<>>
  /\ buffer1 = EmptyBuffer /\ buffer2 = EmptyBuffer /\ buffersToWrite = <<>>
  /\ pc = "off" /\ signaled = FALSE
  /\ stopper = "idle" /\ crashed = FALSE
  /\ logged = <<>> /\ dropped = {} /\ atStop = <<>> /\ file = <<>>

-----------------------------------------------------------------------------
(* append(), on any thread.                                                *)

Avail(b) == kBufferSize - b.cur

PutIf(fits, b, line) ==
  IF fits THEN [lines |-> Append(b.lines, line), cur |-> b.cur + LineLen[line]] ELSE b

\* Mutant: a fresh buffer is thought to hold any line.
PutUntested(b, line) == PutIf(b.cur = 0 \/ Avail(b) > LineLen[line], b, line)

\* FixedBuffer::append: a line that does not fit is dropped.
Put(b, line) == PutIf(Avail(b) > LineLen[line], b, line)

\* notify_one() reaches the back-end only if it waits.
Notify == signaled' = (signaled \/ pc = "waiting")

\* What append() does with the buffers; "full" becomes the list of full ones.
AppendLine(line, full) ==
  IF Avail(currentBuffer_) > LineLen[line]
  THEN /\ currentBuffer_' = Put(currentBuffer_, line)
       /\ UNCHANGED <<nextBuffer_, buffers_, signaled>>
  ELSE /\ buffers_' = full
       /\ currentBuffer_' = Put(IF nextBuffer_ # Null THEN nextBuffer_ ELSE EmptyBuffer, line)
       /\ nextBuffer_' = Null
       /\ Notify

\* The line has not been logged yet; threads go on logging when stop() is
\* under way.
MayAppend(line) == ~crashed /\ line \notin Range(logged) \cup dropped

AppendWith(line, full) ==
  /\ MayAppend(line) /\ currentBuffer_ # Null
  /\ AppendLine(line, full)
  /\ IF LineLen[line] < kBufferSize
     THEN logged' = Append(logged, line) /\ UNCHANGED dropped
     ELSE dropped' = dropped \cup {line} /\ UNCHANGED logged
  /\ UNCHANGED <<backVars, stopVars, crashed, file>>

\* Mutant: the full buffer is put in front of the older ones.
AppendNewestFirst(line) == AppendWith(line, <<currentBuffer_>> \o buffers_)

AppendLog(line) == AppendWith(line, Append(buffers_, currentBuffer_))

AppendToNull(line) ==
  /\ MayAppend(line) /\ currentBuffer_ = Null
  /\ crashed' = TRUE
  /\ UNCHANGED <<frontVars, backVars, stopVars, signaled, histVars, file>>

-----------------------------------------------------------------------------
(* start() and stop().                                                     *)

\* The back-end's thread goes on; a crash ends everything.
At(from, to) == ~crashed /\ pc = from /\ pc' = to

Start ==
  /\ At("off", "test")
  /\ running_' = TRUE
  /\ UNCHANGED <<frontVars, buffer1, buffer2, buffersToWrite, stopper, atStop,
                 signaled, crashed, histVars, file>>

Stop ==
  /\ ~crashed /\ running_ /\ stopper = "idle"
  /\ running_' = FALSE /\ stopper' = "notify" /\ atStop' = logged
  /\ UNCHANGED <<frontVars, backVars, signaled, crashed, histVars, file>>

StopNotifies ==
  /\ ~crashed /\ stopper = "notify" /\ stopper' = "join"
  /\ Notify
  /\ UNCHANGED <<frontVars, backVars, running_, atStop, crashed, histVars, file>>

StopReturns ==
  /\ ~crashed /\ stopper = "join" /\ pc = "done" /\ stopper' = "returned"
  /\ UNCHANGED <<frontVars, backVars, running_, atStop, signaled, crashed, histVars, file>>

-----------------------------------------------------------------------------
(* threadFunc(), the back-end's thread.                                    *)

TestRunning ==
  /\ At("test", IF running_ THEN "lock" ELSE "final")
  /\ UNCHANGED <<frontVars, buffer1, buffer2, buffersToWrite, stopVars, signaled,
                 crashed, histVars, file>>

WaitIf(idle) ==
  /\ At("lock", "waiting") /\ idle
  /\ signaled' = FALSE
  /\ UNCHANGED <<frontVars, buffer1, buffer2, buffersToWrite, stopVars, crashed, histVars, file>>

\* Mutant: the wait does not depend on what is there.
WaitUntested == WaitIf(TRUE)

\* wait_for releases the mutex; a notify from before is not remembered.
Wait == WaitIf(buffers_ = <<>>)

\* The exchange of buffers: the current one goes out with the full ones, and
\* a spare takes its place; another replaces the stand-by one if that is gone.
TakeWith(spare) ==
  /\ buffersToWrite' = Append(buffers_, currentBuffer_)
  /\ buffers_' = <<>>
  /\ currentBuffer_' = buffer1 /\ buffer1' = Null
  /\ nextBuffer_' = IF spare THEN buffer2 ELSE nextBuffer_
  /\ buffer2' = IF spare THEN Null ELSE buffer2
  /\ UNCHANGED <<stopVars, signaled, crashed, histVars, file>>

\* Mutant: the stand-by buffer is always replaced.
TakeAlwaysSpare == TakeWith(TRUE)

Take == TakeWith(nextBuffer_ = Null)

TakeFull == At("lock", "write") /\ buffers_ # <<>> /\ Take

\* The wait is over because of a notify, or after three seconds.
TakeNotified == At("waiting", "write") /\ signaled /\ Take

\* Mutant: the wait has no time limit.
TakeNever == FALSE /\ At("waiting", "write") /\ Take

TakeTimedOut == At("waiting", "write") /\ ~signaled /\ Take

LinesOf(bufs) == FlattenSeq([i \in DOMAIN bufs |-> bufs[i].lines])

WriteAll ==
  /\ file' = file \o LinesOf(buffersToWrite)
  /\ UNCHANGED <<frontVars, buffer1, buffer2, buffersToWrite, stopVars, signaled, crashed, histVars>>

WriteBuffers == At("write", "refill") /\ WriteAll

\* "had" is the number of buffers written from which spares can be taken.
RefillFrom(had) ==
  /\ At("refill", "test")
  /\ buffer1' = IF buffer1 = Null /\ had > 0 THEN EmptyBuffer ELSE buffer1
  /\ buffer2' = IF buffer2 = Null /\ had > (IF buffer1 = Null THEN 1 ELSE 0)
                THEN EmptyBuffer ELSE buffer2
  /\ buffersToWrite' = <<>>
  /\ UNCHANGED <<frontVars, stopVars, signaled, crashed, histVars, file>>

\* Mutant: no buffer is kept when there were more than two.
RefillUnlessMany == RefillFrom(IF Len(buffersToWrite) > 2 THEN 0 ELSE Len(buffersToWrite))

\* The missing spares are the last of the buffers written, reset; at most two
\* of these are kept for it, and the rest freed.
Refill == RefillFrom(IF Len(buffersToWrite) > 2 THEN 2 ELSE Len(buffersToWrite))

TakeLastWith(holds) ==
  /\ At("final", "finalWrite")
  /\ buffersToWrite' = IF holds THEN Append(buffers_, currentBuffer_) ELSE buffers_
  /\ currentBuffer_' = IF holds THEN Null ELSE currentBuffer_
  /\ buffers_' = <<>>
  /\ UNCHANGED <<nextBuffer_, buffer1, buffer2, stopVars, signaled, crashed, histVars, file>>

\* Mutant: the buffer in use is not flushed at the end.
TakeLastFullOnly == TakeLastWith(FALSE)

TakeLast == TakeLastWith(currentBuffer_ # Null /\ currentBuffer_.cur > 0)

WriteLast == At("finalWrite", "done") /\ WriteAll

-----------------------------------------------------------------------------
BackEnd ==
  \/ TestRunning \/ Wait \/ TakeFull \/ TakeNotified
  \/ WriteBuffers \/ Refill \/ TakeLast \/ WriteLast

Next ==
  \/ \E line \in Lines : AppendLog(line) \/ AppendToNull(line)
  \/ Start \/ Stop \/ StopNotifies \/ StopReturns
  \/ BackEnd \/ TakeTimedOut

Spec == Init /\ [][Next]_vars

-----------------------------------------------------------------------------
(* Properties.                                                             *)

\* Among the types: no buffer is filled to more than it holds.
TypeOK ==
  /\ running_ \in BOOLEAN
  /\ {currentBuffer_, nextBuffer_, buffer1, buffer2} \subseteq BufferType \cup {Null}
  /\ buffers_ \in Seq(BufferType)
  /\ buffersToWrite \in Seq(BufferType)
  /\ pc \in {"off", "test", "lock", "waiting", "write", "refill", "final", "finalWrite", "done"}
  /\ signaled \in BOOLEAN
  /\ stopper \in {"idle", "notify", "join", "returned"}
  /\ crashed \in BOOLEAN
  /\ logged \in Seq(Lines) /\ atStop \in Seq(Lines)

\* Until the back-end's final flush, append() always finds a current buffer,
\* whenever it comes between the two critical sections of threadFunc().
CurrentBufferExists == pc \notin {"finalWrite", "done"} => currentBuffer_ # Null

\* threadFunc() takes its spares from the back of a vector that has as many
\* buffers as are missing (AsyncLogging.cc:89-98 does not test): the stand-by
\* buffer is gone only if append() has filled the current one since.
RefillHasBuffers ==
  pc = "refill" =>
    Len(buffersToWrite) >= (IF buffer1 = Null THEN 1 ELSE 0) + (IF buffer2 = Null THEN 1 ELSE 0)

\* The back-end does not sleep on a full buffer: its test of buffers_ and its
\* wait are one critical section.
NoLostNotify == pc = "waiting" /\ buffers_ # <<>> => signaled

\* The file, the buffers being written, the full buffers and the current one
\* hold the lines of the log in the order they were appended, each once.
LogInOrder ==
  file \o (IF pc \in {"write", "finalWrite"} THEN LinesOf(buffersToWrite) ELSE <<>>)
       \o LinesOf(buffers_)
       \o (IF currentBuffer_ = Null THEN <<>> ELSE currentBuffer_.lines) = logged

\* When stop() returns, all that was logged before it was called is written.
StopFlushes == stopper = "returned" => IsPrefix(atStop, file)

=============================================================================
