----------------------------- MODULE ByteQueue ------------------------------
(***************************************************************************)
(* What a Buffer promises: a queue of bytes, appended to at one end and    *)
(* retrieved from the other.  op is the last call, with the bytes given to *)
(* it or returned by it.                                                   *)
(***************************************************************************)
EXTENDS Sequences, Integers

CONSTANTS Byte,
          MaxLen    \* the longest chunk of a call

VARIABLES queue, op

Chunks == UNION {[1..n -> Byte] : n \in 0..MaxLen}

Init == queue = <<>> /\ op = <<"new", <<>>>>

\* append(), or readFd() with what was read.
Put(s) == queue' = queue \o s /\ op' = <<"put", s>>

\* retrieve() and retrieveAsString(): the first k bytes, or all there are.
Take(k) ==
  LET n == IF k < Len(queue) THEN k ELSE Len(queue)
  IN /\ queue' = SubSeq(queue, n + 1, Len(queue))
     /\ op' = <<"take", SubSeq(queue, 1, n)>>

Next == (\E s \in Chunks : Put(s)) \/ (\E k \in 0..MaxLen : Take(k))

Spec == Init /\ [][Next]_<<queue, op>>

=============================================================================
