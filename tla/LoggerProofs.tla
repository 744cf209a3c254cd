---------------------------- MODULE LoggerProofs ----------------------------
(***************************************************************************)
(* Theorems about AsyncLogging and about Logger in front of it, for every  *)
(* set of lines, their lengths, the buffers' size and the number of        *)
(* threads: no pointer moved from is used before the final flush, no       *)
(* notify is lost, the file has the lines in the order of append(), and    *)
(* stop() returns when all of them are there.  Logger uses the log as      *)
(* AsyncLogging specifies it, so what is proved of that holds to the end   *)
(* of the process; no line is printed with a stale level, and the last     *)
(* words of LOG_FATAL reach the file.                                      *)
(***************************************************************************)
EXTENDS Logger, SequenceTheorems, WellFoundedInduction, TLAPS

-----------------------------------------------------------------------------
(* Induction over the natural numbers, and over sequences with it.  The    *)
(* library's induction theorems are about predicates; for a set of numbers *)
(* its theorem on least elements is enough.                                *)

\* A set of numbers has a least one.
LEMMA LeastNatural ==
  ASSUME NEW T \in SUBSET Nat, T # {}
  PROVE  \E x \in T : \A y \in T : x <= y
<1> DEFINE R == OpToRel(<, Nat)
<1>1. IsWellFoundedOn(R, Nat)
  BY NatLessThanWellFounded
<1>2. ASSUME NEW x \in Nat, NEW y \in Nat, <<y, x>> \notin R
      PROVE  x <= y
  <2>1. <<y, x>> \in Nat \X Nat /\ <<y, x>>[1] = y /\ <<y, x>>[2] = x
    OBVIOUS
  <2>2. ~ (y < x)
    BY <1>2, <2>1, Zenon DEF OpToRel
  <2> QED
    BY <2>2
<1> HIDE DEF R
<1>3. PICK x \in T : \A y \in T : ~ (<<y, x>> \in R)
  BY <1>1, WFMin
<1> QED
  BY <1>2, <1>3

\* Induction, for a set of numbers.
LEMMA Induction ==
  ASSUME NEW S \in SUBSET Nat, 0 \in S, \A n \in S : n + 1 \in S
  PROVE  S = Nat
<1> SUFFICES ASSUME S # Nat PROVE FALSE
  OBVIOUS
<1>1. Nat \ S \in SUBSET Nat /\ Nat \ S # {}
  OBVIOUS
<1>2. PICK x \in Nat \ S : \A y \in Nat \ S : x <= y
  BY <1>1, LeastNatural
<1>3. x # 0 /\ x \in Nat
  BY <1>2
<1>4. x - 1 \in Nat /\ ~(x <= x - 1) /\ (x - 1) + 1 = x
  BY <1>3
<1>5. x - 1 \in S
  BY <1>2, <1>4
<1> QED
  BY <1>2, <1>4, <1>5

\* What FlattenSeq defines by recursion, as far as the n-th sequence.
Flattens(f, s, n) == f = [i \in 1..n |-> IF i = 1 THEN s[i] ELSE f[i - 1] \o s[i]]

LEMMA FlattenChosen ==
  ASSUME NEW s, Len(s) # 0
  PROVE  FlattenSeq(s) = (CHOOSE f : Flattens(f, s, Len(s)))[Len(s)]
BY DEF FlattenSeq, Flattens

LEMMA FlattenExists ==
  ASSUME NEW s, NEW n \in Nat
  PROVE  \E f : Flattens(f, s, n)
<1> DEFINE S == {k \in Nat : \E f : Flattens(f, s, k)}
<1>1. 0 \in S
  <2>1. Flattens([i \in {} |-> i], s, 0)
    BY DEF Flattens
  <2> QED
    BY <2>1
<1>2. ASSUME NEW k \in S PROVE k + 1 \in S
  <2>1. PICK g : g = [i \in 1..k |-> IF i = 1 THEN s[i] ELSE g[i - 1] \o s[i]]
    BY DEF Flattens
  <2> DEFINE f == [i \in 1..(k + 1) |-> IF i <= k THEN g[i] ELSE IF i = 1 THEN s[i] ELSE g[i - 1] \o s[i]]
  <2>2. f = [i \in 1..(k + 1) |-> IF i = 1 THEN s[i] ELSE f[i - 1] \o s[i]]
    <3>1. ASSUME NEW i \in 1..(k + 1)
          PROVE  f[i] = IF i = 1 THEN s[i] ELSE f[i - 1] \o s[i]
      <4>0. k \in Nat
        OBVIOUS
      <4>1. CASE i <= k
        <5>1. i \in 1..k /\ f[i] = g[i]
          BY <4>1, <4>0
        <5>2. g[i] = IF i = 1 THEN s[i] ELSE g[i - 1] \o s[i]
          BY <2>1, <5>1
        <5>3. i # 1 => i - 1 \in 1..(k + 1) /\ i - 1 <= k
          BY <4>0, <5>1
        <5>4. i # 1 => f[i - 1] = g[i - 1]
          BY <5>3
        <5> QED
          BY <5>1, <5>2, <5>4
      <4>2. CASE ~(i <= k)
        <5>1. i # 1 => i - 1 \in 1..(k + 1) /\ i - 1 <= k
          BY <4>0, <4>2
        <5>2. i # 1 => f[i - 1] = g[i - 1]
          BY <5>1
        <5> QED
          BY <4>2, <5>2
      <4> QED
        BY <4>1, <4>2
    <3> QED
      BY <3>1
  <2> HIDE DEF f
  <2>3. Flattens(f, s, k + 1)
    BY <2>2 DEF Flattens
  <2> QED
    BY <2>3
<1> HIDE DEF S
<1>3. S = Nat
  BY <1>1, <1>2, Induction DEF S
<1> QED
  BY <1>3 DEF S

\* Two such functions agree as far as both go.
LEMMA FlattenUnique ==
  ASSUME NEW s, NEW m \in Nat, NEW n \in Nat, m <= n, NEW f, NEW g,
         Flattens(f, s, m), Flattens(g, s, n)
  PROVE  \A i \in 1..m : f[i] = g[i]
<1> DEFINE S == {k \in Nat : k \in 1..m => f[k] = g[k]}
<1>1. 0 \in S
  OBVIOUS
<1>2. ASSUME NEW k \in S PROVE k + 1 \in S
  <2> SUFFICES ASSUME k + 1 \in 1..m PROVE f[k + 1] = g[k + 1]
    OBVIOUS
  <2>1. k + 1 \in 1..n /\ k \in Nat /\ (k + 1) - 1 = k
    OBVIOUS
  <2>2. f[k + 1] = IF k + 1 = 1 THEN s[k + 1] ELSE f[k] \o s[k + 1]
    BY <2>1 DEF Flattens
  <2>3. g[k + 1] = IF k + 1 = 1 THEN s[k + 1] ELSE g[k] \o s[k + 1]
    BY <2>1 DEF Flattens
  <2>4. k + 1 # 1 => k \in 1..m
    BY <2>1
  <2>5. k + 1 # 1 => f[k] = g[k]
    BY <2>4
  <2> QED
    BY <2>2, <2>3, <2>5
<1> HIDE DEF S
<1>3. S = Nat
  BY <1>1, <1>2, Induction DEF S
<1> QED
  BY <1>3 DEF S

\* So FlattenSeq is the value of any of them.
LEMMA FlattenValue ==
  ASSUME NEW S, NEW s \in Seq(S), Len(s) # 0, NEW n \in Nat, Len(s) <= n, NEW f, NEW t,
         Flattens(f, t, n), \A i \in 1..Len(s) : t[i] = s[i]
  PROVE  FlattenSeq(s) = f[Len(s)]
<1> DEFINE chosen == CHOOSE g : Flattens(g, s, Len(s))
<1>1. Len(s) \in Nat /\ Len(s) \in 1..Len(s)
  BY LenProperties
<1>2. Flattens(chosen, s, Len(s))
  BY <1>1, FlattenExists
<1>3. FlattenSeq(s) = chosen[Len(s)]
  BY FlattenChosen
<1> DEFINE g == [i \in 1..Len(s) |-> f[i]]
<1>4. Flattens(g, s, Len(s))
  <2>1. ASSUME NEW i \in 1..Len(s)
        PROVE  g[i] = IF i = 1 THEN s[i] ELSE g[i - 1] \o s[i]
    <3>1. i \in 1..n /\ (i # 1 => i - 1 \in 1..Len(s))
      BY <1>1
    <3>2. f[i] = IF i = 1 THEN s[i] ELSE f[i - 1] \o s[i]
      BY <3>1 DEF Flattens
    <3> QED
      BY <3>1, <3>2
  <2> HIDE DEF chosen
  <2> QED
    BY <2>1 DEF Flattens
<1> HIDE DEF chosen
<1>5. chosen[Len(s)] = g[Len(s)]
  <2> HIDE DEF g
  <2> QED
    BY <1>1, <1>2, <1>4, FlattenUnique
<1> QED
  BY <1>1, <1>3, <1>5

\* The elements of a sequence of sequences, laid end to end.
LEMMA FlattenEmpty == FlattenSeq(<<>>) = <<>>
BY DEF FlattenSeq

LEMMA FlattenAppend ==
  ASSUME NEW S, NEW s \in Seq(Seq(S)), NEW x \in Seq(S)
  PROVE  FlattenSeq(Append(s, x)) = FlattenSeq(s) \o x
<1> DEFINE t == Append(s, x)
           n == Len(s) + 1
<1>1. /\ Len(s) \in Nat /\ t \in Seq(Seq(S)) /\ Len(t) = n
      /\ \A i \in 1..Len(s) : t[i] = s[i]
      /\ t[n] = x /\ n \in Nat /\ n # 0 /\ Len(s) <= n /\ n = Len(s) + 1
  BY LenProperties, AppendProperties
<1> HIDE DEF t, n
<1>2. PICK f : Flattens(f, t, n)
  BY <1>1, FlattenExists
<1>3. FlattenSeq(t) = f[n]
  <2>1. Len(t) # 0 /\ Len(t) <= n
    BY <1>1
  <2> QED
    BY <1>1, <1>2, <2>1, FlattenValue
<1>4. n \in 1..n /\ n - 1 = Len(s)
  BY <1>1
<1>5. f[n] = IF n = 1 THEN t[n] ELSE f[n - 1] \o t[n]
  BY <1>2, <1>4 DEF Flattens
<1>6. CASE Len(s) = 0
  <2>1. s = <<>> /\ FlattenSeq(s) = <<>> /\ n = 1
    BY <1>1, <1>6, EmptySeq, FlattenEmpty
  <2>2. <<>> \o x = x
    BY ConcatEmptySeq
  <2> QED
    BY <1>1, <1>3, <1>5, <2>1, <2>2 DEF t
<1>7. CASE Len(s) # 0
  <2>1. FlattenSeq(s) = f[Len(s)]
    BY <1>1, <1>2, <1>7, FlattenValue
  <2>2. n # 1
    BY <1>1, <1>7
  <2> QED
    BY <1>1, <1>3, <1>4, <1>5, <2>1, <2>2 DEF t
<1> QED
  BY <1>6, <1>7

LEMMA FlattenType ==
  ASSUME NEW S, NEW s \in Seq(Seq(S))
  PROVE  FlattenSeq(s) \in Seq(S)
<1>1. Len(s) \in Nat /\ \A i \in 1..Len(s) : s[i] \in Seq(S)
  BY LenProperties, ElementOfSeq
<1>2. CASE Len(s) = 0
  BY <1>2, EmptySeq, FlattenEmpty
<1>3. CASE Len(s) # 0
  <2>1. PICK f : Flattens(f, s, Len(s))
    BY <1>1, FlattenExists
  <2>2. FlattenSeq(s) = f[Len(s)]
    BY <1>1, <1>3, <2>1, FlattenValue
  <2> DEFINE T == {k \in Nat : k \in 1..Len(s) => f[k] \in Seq(S)}
  <2>3. 0 \in T
    OBVIOUS
  <2>4. ASSUME NEW k \in T PROVE k + 1 \in T
    <3> SUFFICES ASSUME k + 1 \in 1..Len(s) PROVE f[k + 1] \in Seq(S)
      OBVIOUS
    <3>1. k \in Nat /\ (k + 1) - 1 = k /\ s[k + 1] \in Seq(S)
      BY <1>1
    <3>2. f[k + 1] = IF k + 1 = 1 THEN s[k + 1] ELSE f[k] \o s[k + 1]
      BY <2>1, <3>1 DEF Flattens
    <3>3. k + 1 # 1 => f[k] \in Seq(S)
      BY <1>1, <3>1
    <3> QED
      BY <3>1, <3>2, <3>3, ConcatProperties
  <2> HIDE DEF T
  <2>5. T = Nat
    BY <2>3, <2>4, Induction DEF T
  <2> QED
    BY <1>1, <1>3, <2>2, <2>5 DEF T
<1> QED
  BY <1>2, <1>3

-----------------------------------------------------------------------------
(* The lines of a list of buffers.                                         *)

LEMMA LinesOfEmpty == LinesOf(<<>>) = <<>>
<1>1. [i \in DOMAIN <<>> |-> <<>>[i].lines] = <<>>
  OBVIOUS
<1> QED
  BY <1>1, FlattenEmpty DEF LinesOf

LEMMA BufferLines ==
  ASSUME NEW bufs \in Seq(BufferType)
  PROVE  /\ [i \in DOMAIN bufs |-> bufs[i].lines] \in Seq(Seq(Lines))
         /\ LinesOf(bufs) \in Seq(Lines)
<1> DEFINE lines == [i \in DOMAIN bufs |-> bufs[i].lines]
<1>1. DOMAIN bufs = 1..Len(bufs) /\ Len(bufs) \in Nat
  BY LenProperties
<1>2. \A i \in 1..Len(bufs) : bufs[i].lines \in Seq(Lines)
  <2>1. \A i \in 1..Len(bufs) : bufs[i] \in BufferType
    BY ElementOfSeq
  <2> QED
    BY <2>1 DEF BufferType
<1>3. lines \in Seq(Seq(Lines))
  BY <1>1, <1>2
<1> QED
  BY <1>3, FlattenType DEF LinesOf

LEMMA LinesOfAppend ==
  ASSUME NEW bufs \in Seq(BufferType), NEW b \in BufferType
  PROVE  LinesOf(Append(bufs, b)) = LinesOf(bufs) \o b.lines
<1> DEFINE lines == [i \in DOMAIN bufs |-> bufs[i].lines]
           more == [i \in DOMAIN Append(bufs, b) |-> Append(bufs, b)[i].lines]
<1>1. lines \in Seq(Seq(Lines)) /\ b.lines \in Seq(Lines)
  BY BufferLines DEF BufferType
<1>2. /\ Len(bufs) \in Nat /\ DOMAIN bufs = 1..Len(bufs)
      /\ DOMAIN Append(bufs, b) = 1..(Len(bufs) + 1)
      /\ \A i \in 1..Len(bufs) : Append(bufs, b)[i] = bufs[i]
      /\ Append(bufs, b)[Len(bufs) + 1] = b
  <2>1. Append(bufs, b) \in Seq(BufferType) /\ Len(Append(bufs, b)) = Len(bufs) + 1
    BY AppendProperties
  <2> QED
    BY <2>1, LenProperties, AppendProperties
<1>3. Len(lines) = Len(bufs)
  BY <1>1, <1>2, LenProperties
<1>4. more = Append(lines, b.lines)
  <2>1. /\ Append(lines, b.lines) \in Seq(Seq(Lines))
        /\ Len(Append(lines, b.lines)) = Len(bufs) + 1
        /\ \A i \in 1..Len(bufs) : Append(lines, b.lines)[i] = lines[i]
        /\ Append(lines, b.lines)[Len(bufs) + 1] = b.lines
    <3> HIDE DEF lines
    <3> QED
      BY <1>1, <1>3, AppendProperties
  <2>2. \A i \in 1..Len(bufs) : lines[i] = bufs[i].lines
    BY <1>2
  <2>3. more \in Seq(Seq(Lines)) /\ Len(more) = Len(bufs) + 1
    <3>1. Append(bufs, b) \in Seq(BufferType)
      BY AppendProperties
    <3>2. more \in Seq(Seq(Lines))
      BY <3>1, BufferLines
    <3>3. DOMAIN more = 1..(Len(bufs) + 1)
      BY <1>2
    <3> HIDE DEF more
    <3> QED
      BY <1>2, <3>2, <3>3, LenProperties
  <2>4. \A i \in 1..(Len(bufs) + 1) : more[i] = Append(lines, b.lines)[i]
    <3> SUFFICES ASSUME NEW i \in 1..(Len(bufs) + 1)
                 PROVE  more[i] = Append(lines, b.lines)[i]
      OBVIOUS
    <3>1. more[i] = Append(bufs, b)[i].lines
      BY <1>2
    <3> HIDE DEF more, lines
    <3>2. i \in 1..Len(bufs) \/ i = Len(bufs) + 1
      BY <1>2
    <3> QED
      BY <1>2, <2>1, <2>2, <3>1, <3>2
  <2> HIDE DEF more, lines
  <2> QED
    BY <2>1, <2>3, <2>4, SeqEqual
<1>5. FlattenSeq(Append(lines, b.lines)) = FlattenSeq(lines) \o b.lines
  BY <1>1, FlattenAppend
<1> QED
  BY <1>4, <1>5 DEF LinesOf

-----------------------------------------------------------------------------
(* The log itself, AsyncLogging.                                            *)

\* The spare buffers are there whenever the back-end is about to exchange
\* buffers; after the exchange it holds a buffer for each one missing.
SparesInv ==
  /\ pc \in {"test", "lock", "waiting", "final"} => buffer1 # Null /\ buffer2 # Null
  /\ pc = "off" => buffer1 # Null /\ buffer2 # Null
  /\ pc \in {"write", "refill"} =>
       Len(buffersToWrite) >= (IF buffer1 = Null THEN 1 ELSE 0) + (IF buffer2 = Null THEN 1 ELSE 0)

\* Before the final flush the stand-by buffer is gone only while a full one
\* waits to be taken.
BufferInv ==
  /\ CurrentBufferExists
  /\ SparesInv
  /\ (pc \notin {"finalWrite", "done"} /\ nextBuffer_ = Null) => buffers_ # <<>>

LEMMA EmptyIsBuffer == EmptyBuffer \in BufferType
BY EmptySeq, BufferSizeAssumption DEF EmptyBuffer, BufferType

\* append() writes within the buffer.
LEMMA PutType ==
  ASSUME NEW b \in BufferType, NEW line \in Lines
  PROVE  Put(b, line) \in BufferType
<1>1. LineLen[line] \in Nat /\ b.cur \in 0..(kBufferSize - 1) /\ b.lines \in Seq(Lines)
  BY LineLenAssumption DEF BufferType
<1>2. Append(b.lines, line) \in Seq(Lines)
  BY <1>1, AppendProperties
<1>3. kBufferSize - b.cur > LineLen[line] => b.cur + LineLen[line] \in 0..(kBufferSize - 1)
  BY <1>1, BufferSizeAssumption
<1> QED
  BY <1>2, <1>3 DEF Put, PutIf, Avail, BufferType

LEMMA TypeInit == Init => TypeOK
BY EmptyIsBuffer, EmptySeq DEF Init, TypeOK

\* append() moves buffers between three places, all of them buffers.
LEMMA AppendType ==
  ASSUME TypeOK, NEW line \in Lines, AppendLog(line)
  PROVE  TypeOK'
<1> USE DEF TypeOK
<1>1. currentBuffer_ \in BufferType
  BY DEF AppendLog, AppendWith
<1>2. logged' \in Seq(Lines)
  <2>1. CASE LineLen[line] < kBufferSize
    <3>1. logged' = Append(logged, line) /\ logged \in Seq(Lines)
      BY <2>1 DEF AppendLog, AppendWith
    <3> QED
      BY <3>1, AppendProperties
  <2>2. CASE ~(LineLen[line] < kBufferSize)
    BY <2>2 DEF AppendLog, AppendWith
  <2> QED
    BY <2>1, <2>2
<1>3. UNCHANGED <<running_, buffer1, buffer2, buffersToWrite, pc, stopper, atStop, crashed>>
  BY DEF AppendLog, AppendWith, backVars, stopVars
<1>4. CASE Avail(currentBuffer_) > LineLen[line]
  <2>1. currentBuffer_' = Put(currentBuffer_, line) /\ UNCHANGED <<nextBuffer_, buffers_, signaled>>
    BY <1>4 DEF AppendLog, AppendWith, AppendLine
  <2> QED
    BY <1>1, <1>2, <1>3, <2>1, PutType
<1>5. CASE ~(Avail(currentBuffer_) > LineLen[line])
  <2> DEFINE new == IF nextBuffer_ # Null THEN nextBuffer_ ELSE EmptyBuffer
  <2>1. /\ currentBuffer_' = Put(new, line) /\ nextBuffer_' = Null
        /\ buffers_' = Append(buffers_, currentBuffer_)
        /\ signaled' = (signaled \/ pc = "waiting")
    BY <1>5 DEF AppendLog, AppendWith, AppendLine, Notify
  <2>2. new \in BufferType
    BY EmptyIsBuffer
  <2>3. Put(new, line) \in BufferType
    BY <2>2, PutType
  <2>4. buffers_' \in Seq(BufferType)
    BY <1>1, <2>1, AppendProperties
  <2> QED
    BY <1>2, <1>3, <2>1, <2>3, <2>4
<1> QED
  BY <1>4, <1>5

\* The exchange of buffers under the lock.
LEMMA TakeType ==
  ASSUME TypeOK, BufferInv, pc \in {"lock", "waiting"}, pc' = "write", Take
  PROVE  TypeOK'
<1>1. currentBuffer_ \in BufferType
  BY DEF TypeOK, BufferInv, CurrentBufferExists
<1> QED
  BY <1>1, AppendProperties, EmptySeq
  DEF TypeOK, Take, TakeWith, stopVars, histVars

LEMMA TypeStep == TypeOK /\ BufferInv /\ [Next]_vars => TypeOK'
<1> SUFFICES ASSUME TypeOK, BufferInv, [Next]_vars PROVE TypeOK'
  OBVIOUS
<1> USE DEF TypeOK, At, frontVars, backVars, stopVars, histVars
<1>1. ASSUME NEW line \in Lines, AppendLog(line) PROVE TypeOK'
  BY <1>1, AppendType
<1>2. ASSUME NEW line \in Lines, AppendToNull(line) PROVE TypeOK'
  BY <1>2 DEF AppendToNull
<1>3. CASE Start
  BY <1>3 DEF Start
<1>4. CASE Stop
  BY <1>4 DEF Stop
<1>5. CASE StopNotifies
  BY <1>5 DEF StopNotifies, Notify
<1>6. CASE StopReturns
  BY <1>6 DEF StopReturns
<1>7. CASE TestRunning
  BY <1>7 DEF TestRunning
<1>8. CASE Wait
  BY <1>8 DEF Wait, WaitIf
<1>9. CASE TakeFull \/ TakeNotified \/ TakeTimedOut
  BY <1>9, TakeType DEF TakeFull, TakeNotified, TakeTimedOut
<1>10. CASE WriteBuffers \/ WriteLast
  BY <1>10 DEF WriteBuffers, WriteLast, WriteAll
<1>11. CASE Refill
  BY <1>11, EmptyIsBuffer, EmptySeq DEF Refill, RefillFrom
<1>12. CASE TakeLast
  BY <1>12, AppendProperties, EmptySeq DEF TakeLast, TakeLastWith
<1>13. CASE UNCHANGED vars
  BY <1>13 DEF vars
<1> QED
  BY <1>1, <1>2, <1>3, <1>4, <1>5, <1>6, <1>7, <1>8, <1>9, <1>10, <1>11, <1>12, <1>13
  DEF Next, BackEnd

-----------------------------------------------------------------------------

\* append() leaves a current buffer, and takes the stand-by one only when it
\* puts a full one in the list.
LEMMA AppendKeepsBufferInv ==
  ASSUME TypeOK, BufferInv, NEW line \in Lines, AppendLog(line)
  PROVE  BufferInv'
<1> USE DEF TypeOK, BufferInv, CurrentBufferExists, SparesInv
<1>1. currentBuffer_ \in BufferType /\ UNCHANGED <<buffer1, buffer2, buffersToWrite, pc>>
  BY DEF AppendLog, AppendWith, backVars
<1>2. CASE Avail(currentBuffer_) > LineLen[line]
  <2>1. currentBuffer_' = Put(currentBuffer_, line) /\ UNCHANGED <<nextBuffer_, buffers_>>
    BY <1>2 DEF AppendLog, AppendWith, AppendLine
  <2>2. currentBuffer_' # Null
    BY <1>1, <2>1, PutType, NullAssumption
  <2> QED
    BY <1>1, <2>1, <2>2
<1>3. CASE ~(Avail(currentBuffer_) > LineLen[line])
  <2> DEFINE new == IF nextBuffer_ # Null THEN nextBuffer_ ELSE EmptyBuffer
  <2>1. currentBuffer_' = Put(new, line) /\ buffers_' = Append(buffers_, currentBuffer_)
    BY <1>3 DEF AppendLog, AppendWith, AppendLine
  <2>2. new \in BufferType
    BY EmptyIsBuffer
  <2>3. currentBuffer_' # Null
    BY <2>1, <2>2, PutType, NullAssumption
  <2>4. buffers_' # <<>>
    BY <1>1, <2>1, AppendProperties
  <2> QED
    BY <1>1, <2>3, <2>4
<1> QED
  BY <1>2, <1>3

\* After the exchange under the lock a buffer is being written for each spare
\* that is gone: the stand-by one is replaced only if a full buffer waited.
LEMMA TakeKeepsBufferInv ==
  ASSUME TypeOK, BufferInv, pc \in {"lock", "waiting"}, pc' = "write", Take
  PROVE  BufferInv'
<1> USE DEF TypeOK, BufferInv, CurrentBufferExists, SparesInv, Take, TakeWith
<1>1. /\ currentBuffer_ \in BufferType
      /\ currentBuffer_' # Null /\ buffer1' = Null /\ nextBuffer_' # Null
  OBVIOUS
<1>2. Len(buffersToWrite') = Len(buffers_) + 1 /\ Len(buffers_) \in Nat
  BY <1>1, AppendProperties, LenProperties
<1>3. buffer2' = Null => Len(buffers_) # 0
  BY EmptySeq
<1> QED
  BY <1>1, <1>2, <1>3

LEMMA BufferInvStep == TypeOK /\ BufferInv /\ [Next]_vars => BufferInv'
<1> SUFFICES ASSUME TypeOK, BufferInv, [Next]_vars PROVE BufferInv'
  OBVIOUS
<1> USE DEF BufferInv, CurrentBufferExists, SparesInv, At, frontVars, backVars
<1>1. ASSUME NEW line \in Lines, AppendLog(line) PROVE BufferInv'
  BY <1>1, AppendKeepsBufferInv
<1>2. ASSUME NEW line \in Lines, AppendToNull(line) PROVE BufferInv'
  BY <1>2 DEF AppendToNull
<1>3. CASE Start
  BY <1>3 DEF Start
<1>4. CASE Stop \/ StopNotifies \/ StopReturns
  BY <1>4 DEF Stop, StopNotifies, StopReturns
<1>5. CASE TestRunning
  BY <1>5 DEF TestRunning
<1>6. CASE Wait
  BY <1>6 DEF Wait, WaitIf
<1>7. CASE TakeFull \/ TakeNotified \/ TakeTimedOut
  BY <1>7, TakeKeepsBufferInv DEF TakeFull, TakeNotified, TakeTimedOut
<1>8. CASE WriteBuffers \/ WriteLast
  BY <1>8 DEF WriteBuffers, WriteLast, WriteAll
<1>9. CASE Refill
  <2>1. EmptyBuffer # Null
    BY EmptyIsBuffer, NullAssumption
  <2>2. Len(buffersToWrite) \in Nat
    BY LenProperties DEF TypeOK
  <2>3. buffer1' # Null /\ buffer2' # Null
    BY <1>9, <2>1, <2>2 DEF Refill, RefillFrom
  <2> QED
    BY <1>9, <2>3 DEF Refill, RefillFrom
<1>10. CASE TakeLast
  BY <1>10 DEF TakeLast, TakeLastWith
<1>11. CASE UNCHANGED vars
  BY <1>11 DEF vars
<1> QED
  BY <1>1, <1>2, <1>3, <1>4, <1>5, <1>6, <1>7, <1>8, <1>9, <1>10, <1>11 DEF Next, BackEnd

LEMMA BufferInvAlways == Spec => [](TypeOK /\ BufferInv)
<1>1. Init => BufferInv
  BY EmptyIsBuffer, NullAssumption DEF Init, BufferInv, CurrentBufferExists, SparesInv
<1> QED
  BY <1>1, TypeInit, TypeStep, BufferInvStep, PTL DEF Spec

\* Every variable of the log keeps its range.
THEOREM TypeCorrect == Spec => []TypeOK
BY BufferInvAlways, PTL

\* append() finds a current buffer at every moment before the final flush.
THEOREM CurrentBufferAlways == Spec => []CurrentBufferExists
BY BufferInvAlways, PTL DEF BufferInv

\* The back-end never takes a spare from an empty vector.
THEOREM RefillIsSafe == Spec => []RefillHasBuffers
<1>1. BufferInv => RefillHasBuffers
  BY DEF BufferInv, SparesInv, RefillHasBuffers
<1> QED
  BY <1>1, BufferInvAlways, PTL

\* The back-end never waits on a full buffer without a notify under way.
THEOREM NoNotifyIsLost == Spec => []NoLostNotify
<1>1. Init => NoLostNotify
  BY DEF Init, NoLostNotify
<1>2. NoLostNotify /\ [Next]_vars => NoLostNotify'
  BY DEF NoLostNotify, Next, BackEnd, vars, frontVars, backVars, stopVars, At,
     AppendLog, AppendWith, AppendLine, Notify, AppendToNull, Start, Stop,
     StopNotifies, StopReturns, TestRunning, Wait, WaitIf, TakeFull, TakeNotified,
     TakeTimedOut, WriteBuffers, WriteLast, WriteAll, Refill, RefillFrom, TakeLast,
     TakeLastWith
<1> QED
  BY <1>1, <1>2, PTL DEF Spec

-----------------------------------------------------------------------------
(* The order of the lines.                                                 *)

\* What the back-end has in hand, and the lines of the buffer in use.
BeingWritten == IF pc \in {"write", "finalWrite"} THEN LinesOf(buffersToWrite) ELSE <<>>
InUse == IF currentBuffer_ = Null THEN <<>> ELSE currentBuffer_.lines

\* All spare buffers are empty: a buffer that comes into use has no old lines.
OrderInv ==
  /\ file \in Seq(Lines)
  /\ file \o BeingWritten \o LinesOf(buffers_) \o InUse = logged
  /\ {nextBuffer_, buffer1, buffer2} \subseteq {EmptyBuffer, Null}
  /\ (currentBuffer_ # Null /\ currentBuffer_.cur = 0) => currentBuffer_.lines = <<>>

LEMMA OrderTypes ==
  ASSUME TypeOK, OrderInv
  PROVE  /\ file \in Seq(Lines) /\ BeingWritten \in Seq(Lines)
         /\ LinesOf(buffers_) \in Seq(Lines) /\ InUse \in Seq(Lines)
         /\ file \o BeingWritten \in Seq(Lines)
         /\ file \o BeingWritten \o LinesOf(buffers_) \in Seq(Lines)
<1>1. file \in Seq(Lines) /\ BeingWritten \in Seq(Lines) /\ LinesOf(buffers_) \in Seq(Lines)
  BY BufferLines, EmptySeq DEF TypeOK, OrderInv, BeingWritten
<1>2. InUse \in Seq(Lines)
  BY EmptySeq DEF TypeOK, InUse, BufferType
<1> QED
  BY <1>1, <1>2, ConcatProperties

LEMMA LinesAssociate ==
  ASSUME NEW a \in Seq(Lines), NEW b \in Seq(Lines), NEW c \in Seq(Lines)
  PROVE  a \o (b \o c) = a \o b \o c
BY ConcatAssociative, SMTT(40)

LEMMA LineBehind ==
  ASSUME NEW a \in Seq(Lines), NEW b \in Seq(Lines), NEW line \in Lines
  PROVE  a \o Append(b, line) = Append(a \o b, line)
<1>1. Append(b, line) = b \o <<line>> /\ <<line>> \in Seq(Lines)
  BY AppendIsConcat
<1>2. a \o b \in Seq(Lines)
  BY ConcatProperties
<1>3. Append(a \o b, line) = (a \o b) \o <<line>>
  BY <1>2, AppendIsConcat
<1> QED
  BY <1>1, <1>3, LinesAssociate

\* A line is added to the lines of a buffer if it fits there.
LEMMA PutLines ==
  ASSUME NEW b \in BufferType, NEW line \in Lines
  PROVE  /\ Avail(b) > LineLen[line] =>
              /\ Put(b, line).lines = Append(b.lines, line)
              /\ Put(b, line).cur > 0 /\ LineLen[line] < kBufferSize
         /\ ~(Avail(b) > LineLen[line]) => Put(b, line) = b
<1>1. /\ LineLen[line] \in Nat \ {0} /\ b.cur \in 0..(kBufferSize - 1) /\ kBufferSize \in Nat
      /\ Avail(b) = kBufferSize - b.cur
  BY LineLenAssumption, BufferSizeAssumption DEF BufferType, Avail
<1>2. Avail(b) > LineLen[line] =>
        Put(b, line) = [lines |-> Append(b.lines, line), cur |-> b.cur + LineLen[line]]
  BY DEF Put, PutIf
<1>3. b.cur + LineLen[line] > 0 /\ (Avail(b) > LineLen[line] => LineLen[line] < kBufferSize)
  BY <1>1
<1>4. ~(Avail(b) > LineLen[line]) => Put(b, line) = b
  BY DEF Put, PutIf
<1> QED
  BY <1>2, <1>3, <1>4

\* append() adds its line behind all others, to the buffer in use or to a new
\* one behind the one that had no room; a line that is too long for any is lost.
LEMMA AppendKeepsOrder ==
  ASSUME TypeOK, BufferInv, OrderInv, NEW line \in Lines, AppendLog(line)
  PROVE  OrderInv'
<1> DEFINE before == file \o BeingWritten
           old == LinesOf(buffers_)
<1>1. /\ before \in Seq(Lines) /\ old \in Seq(Lines) /\ before \o old \in Seq(Lines)
      /\ logged = before \o old \o currentBuffer_.lines
      /\ currentBuffer_ \in BufferType /\ currentBuffer_ # Null /\ currentBuffer_.lines \in Seq(Lines)
      /\ logged \in Seq(Lines)
  BY OrderTypes DEF OrderInv, InUse, AppendLog, AppendWith, TypeOK, BufferType
<1>2. /\ UNCHANGED <<file, buffer1, buffer2, buffersToWrite, pc>>
      /\ BeingWritten' = BeingWritten
  BY DEF AppendLog, AppendWith, backVars, BeingWritten
<1>3. logged' = IF LineLen[line] < kBufferSize THEN Append(logged, line) ELSE logged
  BY DEF AppendLog, AppendWith
<1>4. /\ file \o BeingWritten' = before
      /\ file \in Seq(Lines)
  BY <1>2 DEF OrderInv
<1> HIDE DEF before, old
<1>5. CASE Avail(currentBuffer_) > LineLen[line]
  <2>1. currentBuffer_' = Put(currentBuffer_, line) /\ UNCHANGED <<nextBuffer_, buffers_>>
    BY <1>5 DEF AppendLog, AppendWith, AppendLine
  <2>2. /\ currentBuffer_'.lines = Append(currentBuffer_.lines, line)
        /\ currentBuffer_'.cur > 0 /\ currentBuffer_' # Null /\ LineLen[line] < kBufferSize
    BY <1>1, <1>5, <2>1, PutLines, PutType, NullAssumption
  <2>3. before \o old \o Append(currentBuffer_.lines, line) = Append(logged, line)
    BY <1>1, LineBehind
  <2>4. InUse' = Append(currentBuffer_.lines, line) /\ LinesOf(buffers_)' = old
    BY <2>1, <2>2 DEF InUse, old
  <2>5. logged' = Append(logged, line) /\ ~(currentBuffer_'.cur = 0)
    BY <1>3, <2>2
  <2> QED
    BY <1>2, <1>4, <2>1, <2>3, <2>4, <2>5 DEF OrderInv
<1>6. CASE ~(Avail(currentBuffer_) > LineLen[line])
  <2>1. /\ currentBuffer_' = Put(EmptyBuffer, line) /\ nextBuffer_' = Null
        /\ buffers_' = Append(buffers_, currentBuffer_)
    BY <1>6 DEF AppendLog, AppendWith, AppendLine, OrderInv
  <2>2. /\ EmptyBuffer \in BufferType /\ EmptyBuffer.lines = <<>> /\ EmptyBuffer.cur = 0
        /\ Avail(EmptyBuffer) = kBufferSize
    BY EmptyIsBuffer, BufferSizeAssumption DEF EmptyBuffer, Avail
  <2>3. kBufferSize \in Nat /\ LineLen[line] \in Nat
    BY LineLenAssumption, BufferSizeAssumption
  <2>4. /\ currentBuffer_'.lines = IF LineLen[line] < kBufferSize THEN <<line>> ELSE <<>>
        /\ currentBuffer_'.cur = 0 => currentBuffer_'.lines = <<>>
        /\ currentBuffer_' # Null
    <3>1. CASE LineLen[line] < kBufferSize
      <4>1. Avail(EmptyBuffer) > LineLen[line]
        BY <2>2, <2>3, <3>1
      <4>2. currentBuffer_'.lines = Append(<<>>, line) /\ currentBuffer_'.cur > 0
        BY <2>1, <2>2, <4>1, PutLines
      <4> QED
        BY <2>1, <2>2, <3>1, <4>2, PutType, NullAssumption
    <3>2. CASE ~(LineLen[line] < kBufferSize)
      <4>1. ~(Avail(EmptyBuffer) > LineLen[line])
        BY <2>2, <2>3, <3>2
      <4> QED
        BY <2>1, <2>2, <3>2, <4>1, PutLines, NullAssumption
    <3> QED
      BY <3>1, <3>2
  <2>5. LinesOf(buffers_)' = old \o currentBuffer_.lines
    BY <1>1, <2>1, LinesOfAppend DEF TypeOK, old
  <2>6. before \o (old \o currentBuffer_.lines) = logged
    BY <1>1, LinesAssociate, ZenonT(40)
  <2>7. logged \o InUse' = logged'
    BY <1>1, <1>3, <2>4, AppendIsConcat, ConcatEmptySeq DEF InUse
  <2> QED
    BY <1>2, <1>4, <2>1, <2>4, <2>5, <2>6, <2>7 DEF OrderInv
<1> QED
  BY <1>5, <1>6

\* The exchange of buffers: what was full or in use is being written, in its
\* order, and an empty buffer is in use.
LEMMA TakeKeepsOrder ==
  ASSUME TypeOK, BufferInv, OrderInv, pc \in {"lock", "waiting"}, pc' = "write", Take
  PROVE  OrderInv'
<1>1. /\ buffersToWrite' = Append(buffers_, currentBuffer_) /\ buffers_' = <<>>
      /\ currentBuffer_' = buffer1 /\ buffer1' = Null
      /\ nextBuffer_' \in {nextBuffer_, buffer2} /\ buffer2' \in {Null, buffer2}
      /\ UNCHANGED <<logged, file>>
  BY DEF Take, TakeWith, histVars
<1>2. currentBuffer_ \in BufferType /\ currentBuffer_ # Null
      /\ buffer1 = EmptyBuffer
  BY NullAssumption DEF BufferInv, CurrentBufferExists, SparesInv, TypeOK, OrderInv
<1>3. InUse' = <<>> /\ currentBuffer_'.lines = <<>>
  BY <1>1, <1>2 DEF InUse, EmptyBuffer
<1>4. BeingWritten = <<>> /\ BeingWritten' = LinesOf(buffers_) \o InUse
  BY <1>1, <1>2, LinesOfAppend DEF BeingWritten, InUse, TypeOK
<1>5. LinesOf(buffers_)' = <<>>
  BY <1>1, LinesOfEmpty
<1>6. /\ file \in Seq(Lines) /\ LinesOf(buffers_) \in Seq(Lines) /\ InUse \in Seq(Lines)
      /\ file \o LinesOf(buffers_) \o InUse = logged
  BY <1>4, OrderTypes, ConcatEmptySeq DEF OrderInv
<1>7. logged \in Seq(Lines) /\ file \o (LinesOf(buffers_) \o InUse) = logged
  BY <1>6, LinesAssociate, ZenonT(40) DEF TypeOK
<1>8. file' \o BeingWritten' \o LinesOf(buffers_)' \o InUse' = logged'
  BY <1>1, <1>3, <1>4, <1>5, <1>7, ConcatEmptySeq
<1>9. {nextBuffer_', buffer1', buffer2'} \subseteq {EmptyBuffer, Null}
  BY <1>1 DEF OrderInv
<1> QED
  BY <1>1, <1>3, <1>6, <1>8, <1>9 DEF OrderInv

\* At the end the buffer in use goes out with the others, or is empty.
LEMMA TakeLastKeepsOrder ==
  ASSUME TypeOK, BufferInv, OrderInv, TakeLast
  PROVE  /\ OrderInv'
         /\ file \o LinesOf(buffersToWrite') = logged
<1>1. /\ pc = "final" /\ pc' = "finalWrite" /\ buffers_' = <<>>
      /\ UNCHANGED <<nextBuffer_, buffer1, buffer2, logged, file>>
  BY DEF TakeLast, TakeLastWith, At, histVars
<1>2. currentBuffer_ \in BufferType /\ currentBuffer_ # Null /\ InUse = currentBuffer_.lines
  BY <1>1 DEF BufferInv, CurrentBufferExists, TypeOK, InUse
<1>3. /\ file \in Seq(Lines) /\ LinesOf(buffers_) \in Seq(Lines) /\ InUse \in Seq(Lines)
      /\ BeingWritten = <<>>
      /\ file \o LinesOf(buffers_) \o InUse = logged /\ logged \in Seq(Lines)
  <2>1. BeingWritten = <<>>
    BY <1>1 DEF BeingWritten
  <2> QED
    BY <2>1, OrderTypes, ConcatEmptySeq DEF OrderInv, TypeOK
<1>4. LinesOf(buffers_)' = <<>> /\ BeingWritten' = LinesOf(buffersToWrite')
  BY <1>1, LinesOfEmpty DEF BeingWritten
<1>5. CASE currentBuffer_.cur > 0
  <2>1. buffersToWrite' = Append(buffers_, currentBuffer_) /\ currentBuffer_' = Null
    BY <1>2, <1>5 DEF TakeLast, TakeLastWith
  <2>2. LinesOf(buffersToWrite') = LinesOf(buffers_) \o InUse /\ InUse' = <<>>
    BY <1>2, <2>1, LinesOfAppend DEF TypeOK, InUse
  <2>3. file \o LinesOf(buffersToWrite') = logged
    <3>1. file \o (LinesOf(buffers_) \o InUse) = logged
      BY <1>3, LinesAssociate, ZenonT(40)
    <3> QED
      BY <2>2, <3>1
  <2>4. file' \o BeingWritten' \o LinesOf(buffers_)' \o InUse' = logged'
    BY <1>1, <1>3, <1>4, <2>2, <2>3, ConcatEmptySeq
  <2> QED
    BY <1>1, <1>3, <2>1, <2>3, <2>4 DEF OrderInv
<1>6. CASE ~(currentBuffer_.cur > 0)
  <2>1. buffersToWrite' = buffers_ /\ currentBuffer_' = currentBuffer_
    BY <1>2, <1>6 DEF TakeLast, TakeLastWith
  <2>2. currentBuffer_.cur = 0
    BY <1>2, <1>6, BufferSizeAssumption DEF BufferType
  <2>3. InUse = <<>> /\ InUse' = <<>>
    BY <1>2, <2>1, <2>2 DEF OrderInv, InUse
  <2>4. file \o LinesOf(buffersToWrite') = logged
    <3>1. file \o LinesOf(buffers_) \in Seq(Lines)
      BY <1>3, ConcatProperties
    <3> QED
      BY <1>3, <2>1, <2>3, <3>1, ConcatEmptySeq
  <2>5. file' \o BeingWritten' \o LinesOf(buffers_)' \o InUse' = logged'
    BY <1>1, <1>3, <1>4, <2>3, <2>4, ConcatEmptySeq
  <2> QED
    BY <1>1, <1>3, <2>1, <2>4, <2>5 DEF OrderInv
<1> QED
  BY <1>5, <1>6

LEMMA OrderStep == TypeOK /\ BufferInv /\ OrderInv /\ [Next]_vars => OrderInv'
<1> SUFFICES ASSUME TypeOK, BufferInv, OrderInv, [Next]_vars PROVE OrderInv'
  OBVIOUS
\* The back-end moves on without touching a buffer.
<1>1. ASSUME UNCHANGED <<frontVars, buffer1, buffer2, buffersToWrite, logged, file>>,
             pc' = pc \/ {pc, pc'} \cap {"write", "finalWrite"} = {}
      PROVE  OrderInv'
  <2>1. BeingWritten' = BeingWritten /\ InUse' = InUse
    BY <1>1 DEF BeingWritten, InUse, frontVars
  <2> QED
    BY <1>1, <2>1 DEF OrderInv, frontVars
<1>2. ASSUME NEW line \in Lines, AppendToNull(line) PROVE OrderInv'
  BY <1>1, <1>2 DEF AppendToNull, backVars, histVars
<1>3. CASE Start \/ Stop \/ StopNotifies \/ StopReturns \/ TestRunning \/ Wait
  BY <1>1, <1>3 DEF Start, Stop, StopNotifies, StopReturns, TestRunning, Wait, WaitIf, At,
                    backVars, histVars
<1>4. CASE TakeFull \/ TakeNotified \/ TakeTimedOut
  BY <1>4, TakeKeepsOrder DEF TakeFull, TakeNotified, TakeTimedOut, At
<1>5. CASE WriteBuffers \/ WriteLast
  <2>1. /\ pc \in {"write", "finalWrite"} /\ pc' \notin {"write", "finalWrite"}
        /\ file' = file \o LinesOf(buffersToWrite)
        /\ UNCHANGED <<frontVars, buffer1, buffer2, logged>>
    BY <1>5 DEF WriteBuffers, WriteLast, WriteAll, At, histVars
  <2>2. /\ file' = file \o BeingWritten /\ BeingWritten' = <<>> /\ InUse' = InUse
        /\ LinesOf(buffers_)' = LinesOf(buffers_)
    BY <2>1 DEF BeingWritten, InUse, frontVars
  <2>3. file' \in Seq(Lines) /\ file' \o BeingWritten' = file \o BeingWritten
    BY <2>2, OrderTypes, ConcatEmptySeq
  <2> QED
    BY <2>1, <2>2, <2>3 DEF OrderInv, frontVars
<1>6. CASE Refill
  <2>1. /\ pc = "refill" /\ pc' = "test" /\ UNCHANGED <<frontVars, logged, file>>
        /\ {buffer1', buffer2'} \subseteq {EmptyBuffer, buffer1, buffer2}
    BY <1>6 DEF Refill, RefillFrom, At, histVars
  <2>2. BeingWritten' = BeingWritten /\ InUse' = InUse /\ LinesOf(buffers_)' = LinesOf(buffers_)
    BY <2>1 DEF BeingWritten, InUse, frontVars
  <2> QED
    BY <2>1, <2>2 DEF OrderInv, frontVars
<1>7. CASE UNCHANGED vars
  BY <1>1, <1>7 DEF vars, backVars, histVars
<1> QED
  BY <1>2, <1>3, <1>4, <1>5, <1>6, <1>7, AppendKeepsOrder, TakeLastKeepsOrder DEF Next, BackEnd

LEMMA OrderInit == Init => OrderInv
<1> SUFFICES ASSUME Init PROVE OrderInv
  OBVIOUS
<1>1. /\ file = <<>> /\ BeingWritten = <<>> /\ LinesOf(buffers_) = <<>> /\ logged = <<>>
      /\ currentBuffer_ = EmptyBuffer
  BY LinesOfEmpty DEF Init, BeingWritten
<1>2. InUse = <<>> /\ currentBuffer_.lines = <<>>
  BY <1>1 DEF InUse, EmptyBuffer
<1>3. <<>> \o <<>> = <<>>
  BY EmptySeq, ConcatEmptySeq
<1> QED
  BY <1>1, <1>2, <1>3, EmptySeq DEF OrderInv, Init

LEMMA OrderAlways == Spec => [](TypeOK /\ BufferInv /\ OrderInv)
BY OrderInit, OrderStep, BufferInvAlways, PTL DEF Spec

\* No line is lost, doubled or overtaken between append() and the file,
\* whenever the buffers change hands.
THEOREM LogStaysInOrder == Spec => []LogInOrder
<1>1. OrderInv => LogInOrder
  BY DEF OrderInv, LogInOrder, BeingWritten, InUse
<1> QED
  BY <1>1, OrderAlways, PTL

-----------------------------------------------------------------------------
(* What stop() leaves.                                                     *)

LEMMA PrefixOfConcat ==
  ASSUME NEW s \in Seq(Lines), NEW t \in Seq(Lines), NEW u \in Seq(Lines), IsPrefix(s, t)
  PROVE  IsPrefix(s, t \o u)
<1>1. /\ Len(s) \in Nat /\ Len(t) \in Nat /\ Len(u) \in Nat
      /\ Len(s) <= Len(t) /\ SubSeq(s, 1, Len(s)) = SubSeq(t, 1, Len(s))
      /\ Len(t \o u) = Len(t) + Len(u)
  BY LenProperties, ConcatProperties DEF IsPrefix
<1>2. \A i \in 1..Len(s) : (t \o u)[i] = t[i]
  BY <1>1, ConcatProperties
<1>3. SubSeq(t \o u, 1, Len(s)) = SubSeq(t, 1, Len(s))
  BY <1>1, <1>2
<1> QED
  BY <1>1, <1>3 DEF IsPrefix

LEMMA PrefixOfItself ==
  ASSUME NEW s \in Seq(Lines)
  PROVE  IsPrefix(s, s)
BY LenProperties DEF IsPrefix

\* The back-end leaves its loop only after stop() has been called, and what
\* it takes last is all that had been logged by then.
StopInv ==
  /\ running_ <=> pc # "off" /\ stopper = "idle"
  /\ pc = "off" => stopper = "idle"
  /\ pc \in {"final", "finalWrite", "done"} => stopper # "idle"
  /\ IsPrefix(atStop, logged)
  /\ pc = "finalWrite" => IsPrefix(atStop, file \o LinesOf(buffersToWrite))
  /\ pc = "done" => IsPrefix(atStop, file)
  /\ stopper = "returned" => pc = "done"

LEMMA StopStep ==
  TypeOK /\ BufferInv /\ OrderInv /\ StopInv /\ [Next]_vars => StopInv'
<1> SUFFICES ASSUME TypeOK, BufferInv, OrderInv, StopInv, [Next]_vars PROVE StopInv'
  OBVIOUS
<1>1. logged \in Seq(Lines) /\ atStop \in Seq(Lines) /\ file \in Seq(Lines)
  BY DEF TypeOK, OrderInv
<1>2. ASSUME NEW line \in Lines, AppendLog(line) PROVE StopInv'
  <2>1. UNCHANGED <<running_, stopper, atStop, pc, buffersToWrite, file>>
        /\ logged' \in {logged, Append(logged, line)}
    BY <1>2 DEF AppendLog, AppendWith, backVars, stopVars
  <2>2. IsPrefix(atStop, Append(logged, line))
    <3>1. Append(logged, line) = logged \o <<line>> /\ <<line>> \in Seq(Lines)
      BY <1>1, AppendIsConcat
    <3> QED
      BY <1>1, <3>1, PrefixOfConcat DEF StopInv
  <2>3. IsPrefix(atStop, logged')
    BY <2>1, <2>2 DEF StopInv
  <2> QED
    BY <2>1, <2>3 DEF StopInv
<1>3. ASSUME NEW line \in Lines, AppendToNull(line) PROVE StopInv'
  BY <1>3 DEF AppendToNull, StopInv, backVars, stopVars, histVars
<1>4. CASE Start
  BY <1>4 DEF Start, At, StopInv, histVars
<1>5. CASE Stop
  <2>1. /\ running_ /\ ~running_' /\ stopper' = "notify" /\ atStop' = logged
        /\ UNCHANGED <<pc, logged>>
    BY <1>5 DEF Stop, backVars, histVars
  <2>2. pc \notin {"final", "finalWrite", "done"}
    BY <2>1 DEF StopInv
  <2>3. IsPrefix(atStop', logged')
    BY <1>1, <2>1, PrefixOfItself
  <2> QED
    BY <2>1, <2>2, <2>3 DEF StopInv
<1>6. CASE StopNotifies \/ StopReturns
  BY <1>6 DEF StopNotifies, StopReturns, StopInv, backVars, histVars
<1>7. CASE TestRunning
  BY <1>7 DEF TestRunning, At, StopInv, stopVars, histVars
<1>8. CASE \/ Wait \/ TakeFull \/ TakeNotified \/ TakeTimedOut \/ Refill
  <2>1. /\ UNCHANGED <<running_, stopper, atStop, logged>>
        /\ pc \notin {"off", "done"} /\ pc' \notin {"off", "final", "finalWrite", "done"}
    BY <1>8 DEF Wait, WaitIf, TakeFull, TakeNotified, TakeTimedOut, Take, TakeWith,
                Refill, RefillFrom, At, stopVars, histVars
  <2> QED
    BY <2>1 DEF StopInv
<1>9. CASE WriteBuffers
  BY <1>9 DEF WriteBuffers, WriteAll, At, StopInv, stopVars, histVars
\* The last buffers hold all that the file lacks, and the log begins with
\* what had been logged when stop() was called.
<1>10. CASE TakeLast
  <2>1. pc = "final" /\ pc' = "finalWrite"
        /\ UNCHANGED <<running_, stopper, atStop, logged, file>>
    BY <1>10 DEF TakeLast, TakeLastWith, At, stopVars, histVars
  <2>2. file \o LinesOf(buffersToWrite') = logged
    BY <1>10, TakeLastKeepsOrder
  <2>3. IsPrefix(atStop', file' \o LinesOf(buffersToWrite'))
    BY <2>1, <2>2 DEF StopInv
  <2> QED
    BY <2>1, <2>3 DEF StopInv
<1>11. CASE WriteLast
  <2>1. pc = "finalWrite" /\ pc' = "done" /\ file' = file \o LinesOf(buffersToWrite)
        /\ UNCHANGED <<running_, stopper, atStop, logged>>
    BY <1>11 DEF WriteLast, WriteAll, At, stopVars, histVars
  <2> QED
    BY <2>1 DEF StopInv
<1>12. CASE UNCHANGED vars
  BY <1>12 DEF vars, backVars, stopVars, histVars, StopInv
<1> QED
  BY <1>2, <1>3, <1>4, <1>5, <1>6, <1>7, <1>8, <1>9, <1>10, <1>11, <1>12 DEF Next, BackEnd

LEMMA StopAlways == Spec => [](TypeOK /\ OrderInv /\ StopInv)
<1>1. Init => StopInv
  BY EmptySeq, PrefixOfItself DEF Init, StopInv
<1> QED
  BY <1>1, StopStep, OrderAlways, PTL DEF Spec

\* stop() returns when all that was logged before it is in the file, however
\* the threads that append, the back-end and stop() itself interleave.
THEOREM StopLosesNothing == Spec => []StopFlushes
<1>1. StopInv => StopFlushes
  BY DEF StopInv, StopFlushes
<1> QED
  BY <1>1, StopAlways, PTL

-----------------------------------------------------------------------------
(* The Logger in front of the log.                                         *)

Calls == {"none", "log", "exit", "done"}

LoggerTypeOK == call \in [Lines -> Calls] /\ beside \in [Lines -> SUBSET Lines]

\* The level found by a line that is being logged was set for it, or for a
\* line whose logging has begun since.
LevelInv ==
  /\ LoggerTypeOK
  /\ \A line \in Lines : call[line] = "log" =>
       \E other \in beside[line] \cup {line} : loglevel_ = LevelOf[other]

LEMMA LevelInit == LoggerInit => LevelInv
BY DEF LoggerInit, LevelInv, LoggerTypeOK, Calls

LEMMA LevelKept == LevelInv /\ UNCHANGED <<call, beside, loglevel_>> => LevelInv'
BY DEF LevelInv, LoggerTypeOK

\* A line that begins leaves its level to all that are being logged.
LEMMA SetKeepsLevel ==
  ASSUME LevelInv, NEW line \in Lines, SetLogLevel(line)
  PROVE  LevelInv'
<1> USE DEF LevelInv, LoggerTypeOK, Calls
<1>1. /\ call' = [call EXCEPT ![line] = "log"] /\ loglevel_' = LevelOf[line]
      /\ beside' = [l \in Lines |-> IF l = line THEN Logged
                                    ELSE IF l \in Logged THEN beside[l] \cup {line} ELSE {}]
  BY DEF SetLogLevel, LogAt, Goes
<1>2. LoggerTypeOK'
  BY <1>1 DEF Logged
<1>3. ASSUME NEW l \in Lines, call'[l] = "log"
      PROVE  line \in beside'[l] \cup {l}
  BY <1>1, <1>3 DEF Logged
<1> QED
  BY <1>1, <1>2, <1>3

\* A line that has read the level leaves the others as they are.
LEMMA LogKeepsLevel ==
  ASSUME LevelInv, NEW line \in Lines, Log(line)
  PROVE  LevelInv'
<1> USE DEF LevelInv, LoggerTypeOK, Calls
<1> DEFINE next == IF LevelOf[line] = "FATAL" THEN "exit" ELSE "done"
<1>1. /\ call' = [call EXCEPT ![line] = next] /\ next \in Calls /\ next # "log"
      /\ beside' = [beside EXCEPT ![line] = {}] /\ loglevel_' = loglevel_
  BY DEF Log, Goes
<1>2. LoggerTypeOK'
  BY <1>1
<1>3. ASSUME NEW l \in Lines, call'[l] = "log"
      PROVE  call[l] = "log" /\ beside'[l] = beside[l]
  BY <1>1, <1>3
<1> QED
  BY <1>1, <1>2, <1>3

LEMMA LevelStep == LevelInv /\ [LoggerNext]_allVars => LevelInv'
<1> SUFFICES ASSUME LevelInv, [LoggerNext]_allVars PROVE LevelInv'
  OBVIOUS
<1>1. ASSUME NEW line \in Lines, SetLogLevel(line) PROVE LevelInv'
  BY <1>1, SetKeepsLevel
<1>2. ASSUME NEW line \in Lines, Log(line) PROVE LevelInv'
  BY <1>2, LogKeepsLevel
<1>3. ASSUME NEW line \in Lines, FatalExits(line) PROVE LevelInv'
  BY <1>3, LevelKept DEF FatalExits, Exit
<1>4. CASE MainStops
  BY <1>4, LevelKept DEF MainStops, loggerVars
<1>5. CASE MainReturns
  BY <1>5, LevelKept DEF MainReturns, Exit
<1>6. CASE ExitEnds
  BY <1>6, LevelKept DEF ExitEnds
<1>7. CASE \/ LogRuns(Main /\ Start) \/ LogRuns(StopNotifies \/ StopReturns)
           \/ LogRuns(BackEnd) \/ LogRuns(TakeTimedOut)
  BY <1>7, LevelKept DEF LogRuns, loggerVars
<1>8. CASE UNCHANGED allVars
  BY <1>8, LevelKept DEF allVars, loggerVars
<1> QED
  BY <1>1, <1>2, <1>3, <1>4, <1>5, <1>6, <1>7, <1>8 DEF LoggerNext

\* The level that log() reads, unguarded, is the line's own or that of a line
\* logged beside it (Logger.h:14 sets it, Logger.cc:30 reads it).
THEOREM NoStaleLevel == LoggerSpec => LevelIsCurrent
<1>1. LevelInv =>
        (\A line \in Lines :
           call[line] = "log" /\ call'[line] # "log" =>
             \E other \in beside[line] \cup {line} : loglevel_ = LevelOf[other])
  BY DEF LevelInv
<1>2. LevelInv /\ [LoggerNext]_allVars =>
        [\A line \in Lines :
           call[line] = "log" /\ call'[line] # "log" =>
             \E other \in beside[line] \cup {line} : loglevel_ = LevelOf[other]]_allVars
  BY <1>1
<1> QED
  BY <1>2, LevelInit, LevelStep, PTL DEF LoggerSpec, LevelIsCurrent

-----------------------------------------------------------------------------

\* The macros, main() and exit() call the log's operations one at a time and
\* touch its state in no other way.
LEMMA LoggerUsesLog == [LoggerNext]_allVars => [Next]_vars
<1> SUFFICES ASSUME [LoggerNext]_allVars PROVE [Next]_vars
  OBVIOUS
<1>1. ASSUME NEW line \in Lines, SetLogLevel(line) PROVE UNCHANGED vars
  BY <1>1 DEF SetLogLevel, LogAt
<1>2. ASSUME NEW line \in Lines, Log(line) PROVE Next
  BY <1>2 DEF Log, Next
<1>3. ASSUME NEW line \in Lines, FatalExits(line) PROVE Stop \/ UNCHANGED vars
  BY <1>3 DEF FatalExits, Exit
<1>4. CASE MainReturns
  BY <1>4 DEF MainReturns, Exit, Next
<1>5. CASE MainStops
  BY <1>5 DEF MainStops, Next
<1>6. CASE ExitEnds
  BY <1>6 DEF ExitEnds
<1>7. CASE \/ LogRuns(Main /\ Start) \/ LogRuns(StopNotifies \/ StopReturns)
           \/ LogRuns(BackEnd) \/ LogRuns(TakeTimedOut)
  BY <1>7 DEF LogRuns, Next
<1>8. CASE UNCHANGED allVars
  BY <1>8 DEF allVars
<1> QED
  BY <1>1, <1>2, <1>3, <1>4, <1>5, <1>6, <1>7, <1>8 DEF LoggerNext, Next

\* The log inside the process behaves as AsyncLogging says, whatever ends the
\* process and whoever logs meanwhile.
THEOREM LoggerIsAsyncLogging == LoggerSpec => Spec
<1>1. LoggerInit => Init
  BY DEF LoggerInit
<1> QED
  BY <1>1, LoggerUsesLog, PTL DEF LoggerSpec, Spec

\* So the log is safe in the process too: append() finds a buffer, the
\* back-end its spares and every notify, the file the lines in their order,
\* and the destructor's stop() flushes them.
THEOREM LogIsSafe ==
  LoggerSpec => [](/\ CurrentBufferExists /\ RefillHasBuffers /\ NoLostNotify
                   /\ LogInOrder /\ StopFlushes)
BY LoggerIsAsyncLogging, CurrentBufferAlways, RefillIsSafe, NoNotifyIsLost,
   LogStaysInOrder, StopLosesNothing, PTL

-----------------------------------------------------------------------------
(* The last words.                                                         *)

\* The line whose macro calls exit() has been logged by then, so stop(), which
\* exit() calls, finds it there.
WordsInv ==
  /\ call \in [Lines -> Calls]
  /\ \A line \in Lines : call[line] = "exit" => crashed \/ line \in Range(logged) \cup dropped
  /\ process \in {"exiting", "ended"} /\ exitBy # Null => exitBy \in Range(atStop) \cup dropped
  /\ process = "ended" => stopper = "returned"

LEMMA AppendedInRange ==
  ASSUME NEW s \in Seq(Lines), NEW line \in Lines
  PROVE  Range(Append(s, line)) = Range(s) \cup {line}
<1>1. /\ Len(s) \in Nat /\ DOMAIN s = 1..Len(s)
      /\ DOMAIN Append(s, line) = 1..(Len(s) + 1)
      /\ \A i \in 1..Len(s) : Append(s, line)[i] = s[i]
      /\ Append(s, line)[Len(s) + 1] = line
  <2>1. Append(s, line) \in Seq(Lines) /\ Len(Append(s, line)) = Len(s) + 1
    BY AppendProperties
  <2> QED
    BY <2>1, LenProperties, AppendProperties
<1>2. 1..(Len(s) + 1) = 1..Len(s) \cup {Len(s) + 1}
  BY <1>1
<1> QED
  BY <1>1, <1>2 DEF Range

LEMMA PrefixInRange ==
  ASSUME NEW s \in Seq(Lines), NEW t \in Seq(Lines), IsPrefix(s, t)
  PROVE  Range(s) \subseteq Range(t)
<1>1. /\ Len(s) \in Nat /\ Len(t) \in Nat /\ Len(s) <= Len(t)
      /\ DOMAIN s = 1..Len(s) /\ DOMAIN t = 1..Len(t)
      /\ SubSeq(s, 1, Len(s)) = SubSeq(t, 1, Len(s))
  BY LenProperties DEF IsPrefix
<1>2. ASSUME NEW i \in 1..Len(s) PROVE i \in DOMAIN t /\ s[i] = t[i]
  <2>1. SubSeq(s, 1, Len(s))[i] = s[i] /\ SubSeq(t, 1, Len(s))[i] = t[i]
    BY <1>1
  <2> QED
    BY <1>1, <2>1
<1> QED
  BY <1>1, <1>2 DEF Range

\* A step of the log that no macro makes: what was logged or dropped stays.
LEMMA WordsKept ==
  ASSUME WordsInv, UNCHANGED <<logged, dropped, call, process, exitBy>>, crashed => crashed',
         process \in {"exiting", "ended"} => atStop' = atStop,
         stopper = "returned" => stopper' = "returned"
  PROVE  WordsInv'
BY DEF WordsInv

LEMMA WordsStep == TypeOK /\ WordsInv /\ [LoggerNext]_allVars => WordsInv'
<1> SUFFICES ASSUME TypeOK, WordsInv, [LoggerNext]_allVars PROVE WordsInv'
  OBVIOUS
<1>1. ASSUME NEW line \in Lines, SetLogLevel(line) PROVE WordsInv'
  <2>1. call' = [call EXCEPT ![line] = "log"]
        /\ UNCHANGED <<logged, dropped, crashed, atStop, stopper, process, exitBy>>
    BY <1>1 DEF SetLogLevel, LogAt, Goes, vars, histVars, stopVars
  <2> QED
    BY <2>1 DEF WordsInv, Calls
<1>2. ASSUME NEW line \in Lines, Log(line) PROVE WordsInv'
  <2>1. /\ call' = [call EXCEPT ![line] = IF LevelOf[line] = "FATAL" THEN "exit" ELSE "done"]
        /\ UNCHANGED <<atStop, stopper, process, exitBy>> /\ (crashed => crashed')
        /\ Range(logged) \subseteq Range(logged') /\ dropped \subseteq dropped'
        /\ crashed' \/ line \in Range(logged') \cup dropped'
    <3>1. /\ call' = [call EXCEPT ![line] = IF LevelOf[line] = "FATAL" THEN "exit" ELSE "done"]
          /\ UNCHANGED <<process, exitBy>>
      BY <1>2 DEF Log, Goes
    <3>2. CASE AppendLog(line)
      <4>1. UNCHANGED <<atStop, stopper, crashed>>
        BY <3>2 DEF AppendLog, AppendWith, stopVars
      <4>2. CASE LineLen[line] < kBufferSize
        <5>1. logged' = Append(logged, line) /\ dropped' = dropped /\ logged \in Seq(Lines)
          BY <3>2, <4>2 DEF AppendLog, AppendWith, TypeOK
        <5>2. Range(logged') = Range(logged) \cup {line}
          BY <5>1, AppendedInRange
        <5> QED
          BY <3>1, <4>1, <5>1, <5>2
      <4>3. CASE ~(LineLen[line] < kBufferSize)
        <5>1. logged' = logged /\ dropped' = dropped \cup {line}
          BY <3>2, <4>3 DEF AppendLog, AppendWith
        <5> QED
          BY <3>1, <4>1, <5>1
      <4> QED
        BY <4>2, <4>3
    <3>3. CASE AppendToNull(line)
      <4>1. crashed' = TRUE /\ UNCHANGED <<atStop, stopper, logged, dropped>>
        BY <3>3 DEF AppendToNull, stopVars, histVars
      <4> QED
        BY <3>1, <4>1
    <3> QED
      BY <1>2, <3>2, <3>3 DEF Log
  <2> QED
    BY <2>1 DEF WordsInv, Calls
<1>3. ASSUME NEW by, Exit(by), by = Null \/ by \in Range(logged) \cup dropped
      PROVE  WordsInv'
  <2>1. exitBy' = by /\ process = "runs" /\ UNCHANGED call
    BY <1>3 DEF Exit, Main
  <2>2. CASE global /\ running_
    <3>1. /\ process' = "exiting" /\ atStop' = logged
          /\ UNCHANGED <<logged, dropped, crashed>>
      BY <1>3, <2>2 DEF Exit, Stop, histVars
    <3> QED
      BY <1>3, <2>1, <3>1 DEF WordsInv
  <2>3. CASE ~(global /\ running_)
    <3>1. process' = "killed" /\ UNCHANGED <<logged, dropped, crashed>>
      BY <1>3, <2>3 DEF Exit, vars, histVars
    <3> QED
      BY <2>1, <3>1 DEF WordsInv
  <2> QED
    BY <2>2, <2>3
<1>4. ASSUME NEW line \in Lines, FatalExits(line) PROVE WordsInv'
  <2>1. call[line] = "exit" /\ ~crashed /\ Exit(line)
    BY <1>4 DEF FatalExits, Exit, Main
  <2>2. line \in Range(logged) \cup dropped
    BY <2>1 DEF WordsInv
  <2> QED
    BY <1>3, <2>1, <2>2
<1>5. CASE MainReturns
  BY <1>3, <1>5 DEF MainReturns
<1>6. CASE ExitEnds
  BY <1>6 DEF ExitEnds, WordsInv, vars, histVars, stopVars
<1>7. CASE MainStops
  BY <1>7, WordsKept DEF MainStops, Main, Stop, histVars, loggerVars
<1>8. CASE \/ LogRuns(Main /\ Start) \/ LogRuns(StopNotifies \/ StopReturns)
           \/ LogRuns(BackEnd) \/ LogRuns(TakeTimedOut)
  <2>1. /\ UNCHANGED <<logged, dropped, crashed, atStop, call, process, exitBy>>
        /\ stopper = "returned" => stopper' = "returned"
    BY <1>8 DEF LogRuns, Start, StopNotifies, StopReturns, BackEnd, TestRunning, Wait, WaitIf,
      TakeFull, TakeNotified, TakeTimedOut, Take, TakeWith, WriteBuffers, WriteLast, WriteAll,
      Refill, RefillFrom, TakeLast, TakeLastWith, stopVars, histVars, loggerVars
  <2> QED
    BY <2>1, WordsKept
<1>9. CASE UNCHANGED allVars
  BY <1>9, WordsKept DEF allVars, vars, histVars, stopVars, loggerVars
<1> QED
  BY <1>1, <1>2, <1>4, <1>5, <1>6, <1>7, <1>8, <1>9 DEF LoggerNext

\* The line of LOG_FATAL is in the file when exit() has ended, with any number
\* of threads logging and any sizes; only one too long for any buffer is not.
THEOREM LastWordsReachFile == LoggerSpec => []LastWordsAreKept
<1>1. LoggerInit => WordsInv
  BY DEF LoggerInit, WordsInv, Calls
<1>2. TypeOK /\ OrderInv /\ StopInv /\ WordsInv => LastWordsAreKept
  <2> SUFFICES ASSUME TypeOK, OrderInv, StopInv, WordsInv, process = "ended", exitBy # Null
               PROVE  exitBy \in Range(file) \cup dropped
    BY DEF LastWordsAreKept
  <2>1. exitBy \in Range(atStop) \cup dropped /\ IsPrefix(atStop, file)
    BY DEF WordsInv, StopInv
  <2>2. atStop \in Seq(Lines) /\ file \in Seq(Lines)
    BY DEF TypeOK, OrderInv
  <2> QED
    BY <2>1, <2>2, PrefixInRange
<1> QED
  BY <1>1, <1>2, WordsStep, LoggerIsAsyncLogging, StopAlways, PTL DEF LoggerSpec

=============================================================================
