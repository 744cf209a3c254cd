------------------------------ MODULE Executor ------------------------------
(***************************************************************************)
(* What an EventLoop promises to the code that hands it functors: a FIFO   *)
(* executor.  A functor posted from anywhere joins the end of one queue;   *)
(* the functors of the queue run one at a time, in the order they were     *)
(* posted, each once; a functor that the loop's own thread passes to       *)
(* runInLoop runs on the spot and overtakes the queue.  Once the loop has  *)
(* left loop() nothing of the queue runs any more.                         *)
(***************************************************************************)
EXTENDS Sequences

CONSTANT Functors      \* the functors that can be handed to the loop

VARIABLES queue,       \* functors posted and not yet completed, oldest first
          ran,         \* functors completed, in the order of completion
          stopped      \* loop() has returned

execVars == <<queue, ran, stopped>>

Init ==
  /\ queue = <<>>
  /\ ran = <<>>
  /\ stopped = FALSE

Post(f) ==
  /\ queue' = Append(queue, f)
  /\ UNCHANGED <<ran, stopped>>

\* A functor runs while it is still the head of the queue: what it posts in
\* turn lands behind it, and it leaves the queue when it returns.
RunNext ==
  /\ ~stopped
  /\ queue # <<>>
  /\ ran' = Append(ran, Head(queue))
  /\ queue' = Tail(queue)
  /\ UNCHANGED stopped

RunInline(f) ==
  /\ ~stopped
  /\ ran' = Append(ran, f)
  /\ UNCHANGED <<queue, stopped>>

Stop ==
  /\ ~stopped
  /\ stopped' = TRUE
  /\ UNCHANGED <<queue, ran>>

Next ==
  \/ \E f \in Functors : Post(f) \/ RunInline(f)
  \/ RunNext
  \/ Stop

Spec == Init /\ [][Next]_execVars

=============================================================================
