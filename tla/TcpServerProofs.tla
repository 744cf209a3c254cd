-------------------------- MODULE TcpServerProofs ---------------------------
(***************************************************************************)
(* Theorems about TcpServer, for every set of connections, number of       *)
(* threads, idle timeout and descriptor limit: no poller keeps a channel   *)
(* whose connection has been freed, nothing is left when the destructor    *)
(* returns, and without io threads every established connection is in the  *)
(* wheel.  The argument is the order of the queues: a functor waits in the *)
(* loop it is for, connectEstablished never behind connectDestroyed, so a  *)
(* channel that is in a poller has somebody who is still to take it out.   *)
(***************************************************************************)
EXTENDS TcpServer, SequenceTheorems, FiniteSetTheorems, TLAPS

LoopsType == [Loops -> LoopType]

QueuedIn(ls, l) == Range(ls[l].pending) \cup Range(ls[l].functors)

Before(q, f, g) == \A i, j \in 1..Len(q) : i < j /\ q[i] = g => q[j] # f

\* No connectEstablished of c comes after a connectDestroyed of it.
OrderedQueue(q) ==
  \A c \in Conns : Before(q, <<"connectEstablished", c>>, <<"connectDestroyed", c>>)

Ordered(k) ==
  /\ OrderedQueue(k.functors) /\ OrderedQueue(k.pending)
  /\ \A c \in Conns : <<"connectDestroyed", c>> \in Range(k.functors)
                        => <<"connectEstablished", c>> \notin Range(k.pending)

-----------------------------------------------------------------------------
(* Queues.                                                                 *)

LEMMA RangeOfAppend ==
  ASSUME NEW S, NEW q \in Seq(S), NEW e \in S
  PROVE  Range(Append(q, e)) = Range(q) \cup {e}
<1>1. /\ Append(q, e) \in Seq(S) /\ Len(Append(q, e)) = Len(q) + 1
      /\ \A i \in 1..Len(q) : Append(q, e)[i] = q[i]
      /\ Append(q, e)[Len(q) + 1] = e
  BY AppendProperties
<1>2. Range(q) = {q[i] : i \in 1..Len(q)}
      /\ Range(Append(q, e)) = {Append(q, e)[i] : i \in 1..(Len(q) + 1)}
  BY <1>1, RangeEquality
<1>3. Len(q) \in Nat
  BY LenProperties
<1> QED
  BY <1>1, <1>2, <1>3

LEMMA RangeOfTail ==
  ASSUME NEW S, NEW q \in Seq(S), q # <<>>
  PROVE  Range(q) = {Head(q)} \cup Range(Tail(q))
<1>1. /\ Tail(q) \in Seq(S) /\ Len(Tail(q)) = Len(q) - 1
      /\ \A i \in 1..Len(Tail(q)) : Tail(q)[i] = q[i + 1]
      /\ Head(q) = q[1] /\ Len(q) \in Nat \ {0}
  BY HeadTailProperties, EmptySeq
<1>2. Range(q) = {q[i] : i \in 1..Len(q)}
      /\ Range(Tail(q)) = {Tail(q)[i] : i \in 1..(Len(q) - 1)}
  BY <1>1, RangeEquality, ZenonT(40)
<1>3. ASSUME NEW i \in 1..Len(q) PROVE q[i] \in {Head(q)} \cup Range(Tail(q))
  <2>1. CASE i = 1
    BY <1>1, <2>1
  <2>2. CASE i # 1
    <3>1. i - 1 \in 1..(Len(q) - 1) /\ q[i] = Tail(q)[i - 1]
      BY <1>1, <2>2
    <3> QED
      BY <1>2, <3>1
  <2> QED
    BY <2>1, <2>2
<1>4. ASSUME NEW i \in 1..(Len(q) - 1) PROVE Tail(q)[i] \in Range(q)
  BY <1>1, <1>2
<1>5. Head(q) \in Range(q)
  BY <1>1, <1>2
<1> QED
  BY <1>2, <1>3, <1>4, <1>5

LEMMA OrdersAreSequences ==
  ASSUME NEW S, IsFiniteSet(S), NEW q \in SetToSeqs(S)
  PROVE  q \in Seq(S)
<1>1. Cardinality(S) \in Nat
  BY FS_CardinalityType
<1>2. q \in [1..Cardinality(S) -> S]
  BY DEF SetToSeqs
<1> QED
  BY <1>1, <1>2

LEMMA OrderedAppend ==
  ASSUME NEW q \in Seq(Functors), OrderedQueue(q), NEW f \in Functors,
         \A c \in Conns : f = <<"connectEstablished", c>>
                            => <<"connectDestroyed", c>> \notin Range(q)
  PROVE  OrderedQueue(Append(q, f))
<1>1. /\ Len(Append(q, f)) = Len(q) + 1 /\ Len(q) \in Nat
      /\ \A i \in 1..Len(q) : Append(q, f)[i] = q[i] /\ q[i] \in Range(q)
      /\ Append(q, f)[Len(q) + 1] = f
  BY AppendProperties, LenProperties, RangeEquality
<1> SUFFICES ASSUME NEW c \in Conns, NEW i \in 1..(Len(q) + 1), NEW j \in 1..(Len(q) + 1),
                    i < j, Append(q, f)[i] = <<"connectDestroyed", c>>,
                    Append(q, f)[j] = <<"connectEstablished", c>>
             PROVE  FALSE
  BY <1>1 DEF OrderedQueue, Before
<1>2. i \in 1..Len(q) /\ q[i] = <<"connectDestroyed", c>>
  BY <1>1
<1>3. CASE j = Len(q) + 1
  BY <1>1, <1>2, <1>3
<1>4. CASE j # Len(q) + 1
  BY <1>1, <1>2, <1>4 DEF OrderedQueue, Before
<1> QED
  BY <1>3, <1>4

LEMMA OrderedTail ==
  ASSUME NEW q \in Seq(Functors), OrderedQueue(q), q # <<>>
  PROVE  /\ OrderedQueue(Tail(q))
         /\ \A c \in Conns : Head(q) = <<"connectDestroyed", c>>
                               => <<"connectEstablished", c>> \notin Range(Tail(q))
<1>1. /\ Tail(q) \in Seq(Functors) /\ Len(Tail(q)) = Len(q) - 1 /\ Len(q) \in Nat \ {0}
      /\ \A i \in 1..(Len(q) - 1) : Tail(q)[i] = q[i + 1]
      /\ Head(q) = q[1]
  BY HeadTailProperties, EmptySeq
<1>2. Range(Tail(q)) = {Tail(q)[i] : i \in 1..(Len(q) - 1)}
  BY <1>1, RangeEquality
<1>3. ASSUME NEW c \in Conns, NEW i \in 1..(Len(q) - 1), NEW j \in 1..(Len(q) - 1),
             i < j, q[i + 1] = <<"connectDestroyed", c>>
      PROVE  q[j + 1] # <<"connectEstablished", c>>
  <2>1. i + 1 \in 1..Len(q) /\ j + 1 \in 1..Len(q) /\ i + 1 < j + 1
    BY <1>1, <1>3
  <2> QED
    BY <1>3, <2>1 DEF OrderedQueue, Before
<1>4. ASSUME NEW c \in Conns, q[1] = <<"connectDestroyed", c>>, NEW j \in 1..(Len(q) - 1)
      PROVE  q[j + 1] # <<"connectEstablished", c>>
  <2>1. 1 \in 1..Len(q) /\ j + 1 \in 1..Len(q) /\ 1 < j + 1
    BY <1>1
  <2> QED
    BY <1>4, <2>1 DEF OrderedQueue, Before
<1> QED
  BY <1>1, <1>2, <1>3, <1>4 DEF OrderedQueue, Before

\* Functors that are no connectEstablished may be added in any number.
LEMMA OrderedConcat ==
  ASSUME NEW q \in Seq(Functors), OrderedQueue(q), NEW s \in Seq({"shutdownInLoop"} \X Conns)
  PROVE  /\ q \o s \in Seq(Functors) /\ OrderedQueue(q \o s)
         /\ Range(q \o s) = Range(q) \cup Range(s)
<1>1. s \in Seq(Functors)
  BY SeqMonotonic DEF Functors
<1>2. /\ q \o s \in Seq(Functors) /\ Len(q \o s) = Len(q) + Len(s)
      /\ \A i \in 1..(Len(q) + Len(s)) :
           (q \o s)[i] = IF i <= Len(q) THEN q[i] ELSE s[i - Len(q)]
      /\ Len(q) \in Nat /\ Len(s) \in Nat
  BY <1>1, ConcatProperties, LenProperties
<1>3. ASSUME NEW i \in 1..(Len(q) + Len(s)), i > Len(q)
      PROVE  (q \o s)[i][1] = "shutdownInLoop"
  <2>1. i - Len(q) \in 1..Len(s) /\ (q \o s)[i] = s[i - Len(q)]
    BY <1>2, <1>3
  <2>2. (q \o s)[i] \in {"shutdownInLoop"} \X Conns
    BY <2>1, ElementOfSeq
  <2> QED
    BY <2>2
<1>4. ASSUME NEW c \in Conns, NEW i \in 1..(Len(q) + Len(s)), NEW j \in 1..(Len(q) + Len(s)),
             i < j, (q \o s)[i] = <<"connectDestroyed", c>>
      PROVE  (q \o s)[j] # <<"connectEstablished", c>>
  <2>1. CASE j > Len(q)
    BY <1>3, <2>1
  <2>2. CASE ~(j > Len(q))
    BY <1>2, <1>4, <2>2 DEF OrderedQueue, Before
  <2> QED
    BY <2>1, <2>2
<1> QED
  BY <1>1, <1>2, <1>4, RangeConcatenation, SMTT(40) DEF OrderedQueue, Before

-----------------------------------------------------------------------------
(* What the primitive changes of a loop do to its queues.                  *)

LEMMA QueueAppends ==
  ASSUME NEW ls \in LoopsType, NEW l \in Loops, NEW f \in Functors
  PROVE  /\ Queue(ls, l, f) \in LoopsType
         /\ \A k \in Loops :
              /\ k # l => Queue(ls, l, f)[k] = ls[k]
              /\ Queue(ls, l, f)[k].phase = ls[k].phase
              /\ Queue(ls, l, f)[k].active = ls[k].active
              /\ Queue(ls, l, f)[k].quit = ls[k].quit
              /\ Queue(ls, l, f)[k].functors = ls[k].functors
              /\ QueuedIn(Queue(ls, l, f), k) = QueuedIn(ls, k) \cup (IF k = l THEN {f} ELSE {})
         /\ Ordered(ls[l])
            /\ (\A c \in Conns : f = <<"connectEstablished", c>>
                                  => <<"connectDestroyed", c>> \notin QueuedIn(ls, l))
            => Ordered(Queue(ls, l, f)[l])
<1> DEFINE new == [ls[l] EXCEPT !.pending = Append(ls[l].pending, f)]
<1>1. ls[l] \in LoopType /\ Append(ls[l].pending, f) \in Seq(Functors)
  BY AppendProperties DEF LoopsType, LoopType
<1>2. /\ new \in LoopType /\ new.pending = Append(ls[l].pending, f)
      /\ new.phase = ls[l].phase /\ new.active = ls[l].active
      /\ new.quit = ls[l].quit /\ new.functors = ls[l].functors
  BY <1>1 DEF LoopType
<1>3. Queue(ls, l, f) = [ls EXCEPT ![l] = new]
  BY DEF Queue
<1>4. Range(new.pending) = Range(ls[l].pending) \cup {f}
  BY <1>1, <1>2, RangeOfAppend DEF LoopType
<1>5. ASSUME Ordered(ls[l]),
             \A c \in Conns : f = <<"connectEstablished", c>>
                               => <<"connectDestroyed", c>> \notin QueuedIn(ls, l)
      PROVE  Ordered(new)
  <2>1. OrderedQueue(new.pending)
    BY <1>1, <1>2, <1>5, OrderedAppend DEF Ordered, QueuedIn, LoopType
  <2> HIDE DEF new
  <2> QED
    BY <1>2, <1>4, <1>5, <2>1 DEF Ordered, QueuedIn
<1> HIDE DEF new
<1> QED
  BY <1>1, <1>2, <1>3, <1>4, <1>5 DEF LoopsType, QueuedIn

\* The handler of a channel has returned.
LEMMA HandledLeavesQueues ==
  ASSUME TypeOK, NEW l \in Loops, NEW x
  PROVE  /\ Handled(l, x) \in LoopsType
         /\ \A k \in Loops :
              /\ Handled(l, x)[k].phase = loop[k].phase
              /\ Handled(l, x)[k].active = IF k = l THEN loop[k].active \ {x} ELSE loop[k].active
              /\ Handled(l, x)[k].quit = loop[k].quit
              /\ Handled(l, x)[k].functors = loop[k].functors
              /\ Handled(l, x)[k].pending = loop[k].pending
              /\ QueuedIn(Handled(l, x), k) = Queued(k)
              /\ Ordered(loop[k]) => Ordered(Handled(l, x)[k])
<1>1. loop \in [Loops -> LoopType]
  BY DEF TypeOK
<1>2. Handled(l, x) \in LoopsType
  BY <1>1 DEF Handled, LoopsType, LoopType
<1>3. \A k \in Loops :
        /\ Handled(l, x)[k].phase = loop[k].phase
        /\ Handled(l, x)[k].active = IF k = l THEN loop[k].active \ {x} ELSE loop[k].active
        /\ Handled(l, x)[k].quit = loop[k].quit
        /\ Handled(l, x)[k].functors = loop[k].functors
        /\ Handled(l, x)[k].pending = loop[k].pending
  BY <1>1 DEF Handled, LoopType
<1> QED
  BY <1>2, <1>3 DEF QueuedIn, Queued, Ordered

\* The first functor of the pass has returned.
LEMMA ReturnedTakesHead ==
  ASSUME TypeOK, NEW l \in Loops, loop[l].functors # <<>>
  PROVE  /\ Returned(l) \in LoopsType
         /\ Head(loop[l].functors) \in Queued(l)
         /\ \A k \in Loops :
              /\ k # l => Returned(l)[k] = loop[k]
              /\ Returned(l)[k].phase = loop[k].phase
              /\ Returned(l)[k].active = loop[k].active
              /\ Returned(l)[k].quit = loop[k].quit
              /\ Returned(l)[k].pending = loop[k].pending
              /\ Queued(k) = QueuedIn(Returned(l), k)
                             \cup (IF k = l THEN {Head(loop[l].functors)} ELSE {})
         /\ Ordered(loop[l]) =>
              /\ Ordered(Returned(l)[l])
              /\ \A c \in Conns : Head(loop[l].functors) = <<"connectDestroyed", c>>
                   => <<"connectEstablished", c>> \notin QueuedIn(Returned(l), l)
<1> DEFINE q == loop[l].functors
           new == [loop[l] EXCEPT !.functors = Tail(q)]
<1>1. loop \in [Loops -> LoopType] /\ loop[l] \in LoopType /\ q \in Seq(Functors)
  BY DEF TypeOK, LoopType
<1>2. Tail(q) \in Seq(Functors) /\ Range(q) = {Head(q)} \cup Range(Tail(q))
  BY <1>1, HeadTailProperties, RangeOfTail
<1>3. /\ new \in LoopType /\ new.functors = Tail(q) /\ new.pending = loop[l].pending
      /\ new.phase = loop[l].phase /\ new.active = loop[l].active /\ new.quit = loop[l].quit
  BY <1>1, <1>2 DEF LoopType
<1>4. Returned(l) = [loop EXCEPT ![l] = new]
  BY DEF Returned
<1>5. ASSUME Ordered(loop[l])
      PROVE  /\ Ordered(new)
             /\ \A c \in Conns : Head(q) = <<"connectDestroyed", c>>
                  => <<"connectEstablished", c>> \notin Range(new.pending) \cup Range(new.functors)
  <2>1. /\ OrderedQueue(Tail(q))
        /\ \A c \in Conns : Head(q) = <<"connectDestroyed", c>>
                              => <<"connectEstablished", c>> \notin Range(Tail(q))
    BY <1>1, <1>5, OrderedTail DEF Ordered
  <2> HIDE DEF new
  <2> QED
    BY <1>2, <1>3, <1>5, <2>1 DEF Ordered
<1> HIDE DEF new
<1> QED
  BY <1>1, <1>2, <1>3, <1>4, <1>5 DEF LoopsType, QueuedIn, Queued

\* A pass begins with all that is pending.
LEMMA TakenAreOrdered ==
  ASSUME TypeOK, NEW l \in Loops, loop[l].functors = <<>>, TakeFunctors(l)
  PROVE  /\ loop' \in LoopsType
         /\ \A k \in Loops :
              /\ k # l => loop'[k] = loop[k]
              /\ loop'[k].quit = loop[k].quit /\ loop'[k].active = loop[k].active
              /\ Queued(k)' = Queued(k)
         /\ loop'[l].phase = "functors" /\ loop'[l].pending = <<>>
         /\ Ordered(loop[l]) => Ordered(loop'[l])
<1> DEFINE new == [loop[l] EXCEPT !.phase = "functors", !.functors = loop[l].pending, !.pending = <<>>]
<1>1. loop \in [Loops -> LoopType] /\ loop[l] \in LoopType
  BY DEF TypeOK
<1>2. /\ new \in LoopType /\ new.functors = loop[l].pending /\ new.pending = <<>>
      /\ new.phase = "functors" /\ new.active = loop[l].active /\ new.quit = loop[l].quit
  BY <1>1 DEF LoopType
<1>3. loop' = [loop EXCEPT ![l] = new]
  BY DEF TakeFunctors
<1>4. Range(<<>>) = {}
  BY DEF Range
<1>5. Ordered(loop[l]) => Ordered(new)
  <2> HIDE DEF new
  <2>1. OrderedQueue(<<>>)
    BY DEF OrderedQueue, Before
  <2> QED
    BY <1>2, <1>4, <2>1 DEF Ordered
<1> HIDE DEF new
<1> QED
  BY <1>1, <1>2, <1>3, <1>4, <1>5 DEF LoopsType, Queued

\* After the pass the loop polls again or ends.
LEMMA PassLeavesQueue ==
  ASSUME TypeOK, NEW l \in Loops
  PROVE  /\ AfterPass(l) \in LoopType
         /\ AfterPass(l).functors = loop[l].functors
         /\ AfterPass(l).active = loop[l].active /\ AfterPass(l).quit = loop[l].quit
         /\ AfterPass(l).phase = IF loop[l].quit THEN "ended" ELSE "poll"
         /\ AfterPass(l).pending = IF loop[l].quit /\ l # Base THEN <<>> ELSE loop[l].pending
         /\ Ordered(loop[l]) => Ordered(AfterPass(l))
<1>1. loop[l] \in LoopType
  BY DEF TypeOK
<1>2. /\ AfterPass(l) \in LoopType
      /\ AfterPass(l).functors = loop[l].functors
      /\ AfterPass(l).active = loop[l].active /\ AfterPass(l).quit = loop[l].quit
      /\ AfterPass(l).phase = IF loop[l].quit THEN "ended" ELSE "poll"
      /\ AfterPass(l).pending = IF loop[l].quit /\ l # Base THEN <<>> ELSE loop[l].pending
  <2> USE DEF LoopType
  <2>1. CASE ~loop[l].quit
    BY <1>1, <2>1 DEF AfterPass
  <2>2. CASE loop[l].quit
    <3>1. <<>> \in Seq(Functors) /\ loop[l].pending \in Seq(Functors)
      BY <1>1, EmptySeq
    <3> DEFINE rest == IF l = Base THEN loop[l].pending ELSE <<>>
    <3>2. rest \in Seq(Functors)
      BY <3>1
    <3>3. AfterPass(l) = [loop[l] EXCEPT !.phase = "ended", !.pending = rest]
      BY <2>2 DEF AfterPass
    <3> HIDE DEF rest
    <3>4. /\ AfterPass(l) \in LoopType
          /\ AfterPass(l).functors = loop[l].functors
          /\ AfterPass(l).active = loop[l].active /\ AfterPass(l).quit = loop[l].quit
          /\ AfterPass(l).phase = "ended" /\ AfterPass(l).pending = rest
      BY <1>1, <3>2, <3>3
    <3> QED
      BY <2>2, <3>4 DEF rest
  <2>3. loop[l].quit \in BOOLEAN
    BY <1>1
  <2> QED
    BY <2>1, <2>2, <2>3
<1>3. OrderedQueue(<<>>) /\ Range(<<>>) = {}
  BY DEF OrderedQueue, Before, Range
<1> QED
  BY <1>2, <1>3 DEF Ordered

\* Destroyed Entries shut established connections down: on the base thread at
\* once, on the others by a functor.
LEMMA ShutDownQueues ==
  ASSUME TypeOK, NEW expired \in SUBSET Conns, NEW base \in LoopType, ShutDown(expired, base)
  PROVE  /\ conn' \in [Conns -> ConnType] /\ loop' \in LoopsType
         /\ \A c \in Conns :
              /\ conn'[c].loop = conn[c].loop /\ conn'[c].channel = conn[c].channel
              /\ conn'[c].state = "none" <=> conn[c].state = "none"
              /\ conn'[c].state = "kConnected"
                   => conn[c].state = "kConnected" /\ ~(c \in expired /\ Owned(c))
         /\ loop'[Base] = base
         /\ \A l \in Loops \ {Base} :
              /\ loop'[l].phase = loop[l].phase /\ loop'[l].active = loop[l].active
              /\ loop'[l].quit = loop[l].quit /\ loop'[l].functors = loop[l].functors
              /\ Ordered(loop[l]) => Ordered(loop'[l])
              /\ Queued(l) \subseteq Queued(l)'
              /\ \A f \in Queued(l)' \ Queued(l) :
                   /\ f[1] = "shutdownInLoop" /\ f[2] \in Conns
                   /\ conn[f[2]].loop = l /\ conn[f[2]].state = "kConnected"
<1> DEFINE open == {c \in expired : Owned(c) /\ conn[c].state = "kConnected"}
           functors(l) == {<<"shutdownInLoop", c>> : c \in {d \in open : conn[d].loop = l}}
           shut(c) == [conn[c] EXCEPT !.state = "kDisconnecting", !.wrShut = @ \/ conn[c].loop = Base]
           others == Loops \ {Base}
           new(order, l) == [loop[l] EXCEPT !.pending = loop[l].pending \o order[l]]
<1>1. conn' = [c \in Conns |-> IF c \in open THEN shut(c) ELSE conn[c]]
  BY DEF ShutDown
<1>11. PICK order \in [others -> UNION {SetToSeqs(functors(l)) : l \in others}] :
         /\ \A l \in others : order[l] \in SetToSeqs(functors(l))
         /\ loop' = [l \in Loops |-> IF l = Base THEN base ELSE new(order, l)]
  BY DEF ShutDown
<1>2. conn \in [Conns -> ConnType] /\ loop \in [Loops -> LoopType] /\ open \subseteq Conns
  BY DEF TypeOK
<1>3. ASSUME NEW c \in Conns
      PROVE  /\ shut(c) \in ConnType /\ shut(c).loop = conn[c].loop
             /\ shut(c).channel = conn[c].channel /\ shut(c).state = "kDisconnecting"
  BY <1>2 DEF ConnType
<1>4. /\ conn' \in [Conns -> ConnType]
      /\ \A c \in Conns :
           /\ conn'[c].loop = conn[c].loop /\ conn'[c].channel = conn[c].channel
           /\ conn'[c].state = "none" <=> conn[c].state = "none"
           /\ conn'[c].state = "kConnected"
                => conn[c].state = "kConnected" /\ ~(c \in expired /\ Owned(c))
  <2>1. \A c \in open : conn[c].state = "kConnected"
    OBVIOUS
  <2>2. \A c \in Conns : c \notin open =>
          (conn[c].state = "kConnected" => ~(c \in expired /\ Owned(c)))
    OBVIOUS
  <2> HIDE DEF open, shut
  <2> QED
    BY <1>1, <1>2, <1>3, <2>1, <2>2
<1>5. ASSUME NEW l \in Loops \ {Base}
      PROVE  /\ new(order, l) \in LoopType
             /\ new(order, l).phase = loop[l].phase /\ new(order, l).active = loop[l].active
             /\ new(order, l).quit = loop[l].quit /\ new(order, l).functors = loop[l].functors
             /\ Ordered(loop[l]) => Ordered(new(order, l))
             /\ Range(loop[l].pending) \subseteq Range(new(order, l).pending)
             /\ Range(new(order, l).pending) \ Range(loop[l].pending) \subseteq functors(l)
  <2> DEFINE p == loop[l].pending
             s == order[l]
  <2>1. functors(l) \subseteq {"shutdownInLoop"} \X Conns
    BY <1>2
  <2>2. IsFiniteSet(functors(l))
    BY <2>1, ConnsAssumption, FS_Singleton, FS_Product, FS_Subset
  <2>3. s \in Seq(functors(l)) /\ Range(s) \subseteq functors(l)
    BY <1>11, <2>2, OrdersAreSequences, RangeOfSeq
  <2>4. s \in Seq({"shutdownInLoop"} \X Conns)
    BY <2>1, <2>3, SeqMonotonic
  <2>5. p \in Seq(Functors) /\ loop[l] \in LoopType
    BY <1>2 DEF LoopType
  <2> HIDE DEF p, s
  <2>6. /\ p \o s \in Seq(Functors)
        /\ Range(p \o s) = Range(p) \cup Range(s)
    <3>1. s \in Seq(Functors)
      BY <2>4, SeqMonotonic DEF Functors
    <3> QED
      BY <2>5, <3>1, ConcatProperties, RangeConcatenation
  <2>7. OrderedQueue(p) => OrderedQueue(p \o s)
    BY <2>4, <2>5, OrderedConcat
  <2>8. /\ new(order, l) \in LoopType /\ new(order, l).pending = p \o s
        /\ new(order, l).phase = loop[l].phase /\ new(order, l).active = loop[l].active
        /\ new(order, l).quit = loop[l].quit /\ new(order, l).functors = loop[l].functors
    BY <2>5, <2>6 DEF LoopType, p, s
  <2>9. \A c \in Conns : <<"connectEstablished", c>> \notin functors(l)
    BY <2>1
  <2> HIDE DEF new, functors
  <2>10. Ordered(loop[l]) => Ordered(new(order, l))
    BY <2>3, <2>6, <2>7, <2>8, <2>9 DEF Ordered, p
  <2> QED
    BY <2>3, <2>6, <2>8, <2>10 DEF p
<1>6. ASSUME NEW l \in Loops, NEW f \in functors(l)
      PROVE  /\ f[1] = "shutdownInLoop" /\ f[2] \in Conns
             /\ conn[f[2]].loop = l /\ conn[f[2]].state = "kConnected"
  BY <1>2, <1>6
<1> HIDE DEF open, functors, shut, new
<1>7. \A l \in Loops : loop'[l] = IF l = Base THEN base ELSE new(order, l)
  BY <1>11
<1>8. loop' \in LoopsType
  BY <1>5, <1>11 DEF LoopsType
<1>9. Base \in Loops
  BY ThreadsAssumption DEF Base, Loops
<1>10. ASSUME NEW l \in Loops \ {Base}
       PROVE  /\ Queued(l) \subseteq Queued(l)'
              /\ Queued(l)' \ Queued(l) \subseteq functors(l)
  <2>1. Queued(l)' = Range(new(order, l).pending) \cup Range(new(order, l).functors)
    BY <1>7 DEF Queued
  <2> QED
    BY <1>5, <2>1 DEF Queued
<1> QED
  BY <1>4, <1>5, <1>6, <1>7, <1>8, <1>9, <1>10

-----------------------------------------------------------------------------
(* The invariant.                                                          *)

\* A functor waits in the loop it is for, and only for a connection made.
QueueInv ==
  \A l \in Loops :
    /\ Ordered(loop[l])
    /\ \A f \in Queued(l) :
         /\ conn[f[2]].state # "none"
         /\ IF f[1] = "removeConnectionInLoop" THEN l = Base /\ numThreads_ > 0
            ELSE l = conn[f[2]].loop
         /\ f[1] = "connectEstablished" => l # Base

\* An io loop ends only when the pool's destructor makes it, and with nothing
\* left in its queue.
LoopInv ==
  \A l \in Loops :
    /\ loop[l].phase # "functors" => loop[l].functors = <<>>
    /\ loop[l].phase = "ended" => loop[l].quit
    /\ l # Base /\ loop[l].quit => stage \in {"threadPool_", "gone"}
    /\ l # Base /\ loop[l].phase = "ended" => loop[l].pending = <<>>

\* What a poll has reported is still there when it is handled.
ActiveInv ==
  \A l \in Loops :
    /\ Acceptor \in loop[l].active => l = Base /\ backlog # <<>>
    /\ \A c \in Conns : c \in loop[l].active => conn[c].state # "none"

\* How far the destructor is with the loops and the connections.
StageInv ==
  /\ stage \in {"connections", "threadPool_", "gone"} => loop[Base].phase = "ended"
  /\ stage \in {"threadPool_", "gone"} => connections_ = {}
  /\ stage \in {"new", "run", "connections"} => at = 1
  /\ stage \in {"threadPool_", "gone"} =>
       \A l \in IoLoops : l < at => loop[l].phase = "ended"
  /\ stage = "gone" => at = numThreads_ + 1
  /\ stage = "new" => \A c \in Conns : conn[c].state = "none"
  /\ joining => stage = "threadPool_" /\ at \in IoLoops

\* A peer waits for accept() once.
BacklogInv ==
  /\ \A i, j \in 1..Len(backlog) : backlog[i] = backlog[j] => i = j
  /\ \A i \in 1..Len(backlog) : conn[backlog[i]].state = "none"

\* Somebody is still to take the channel of c out of its loop's poller, or the
\* poller has gone.
Kept(c) ==
  \/ c \in connections_
  \/ <<"removeConnectionInLoop", c>> \in Queued(Base)
  \/ <<"connectDestroyed", c>> \in Queued(conn[c].loop)
  \/ loop[conn[c].loop].phase = "ended"

ConnInv ==
  \A c \in Conns :
    /\ conn[c].loop \in 0..numThreads_
    /\ conn[c].state = "none" => conn[c].channel = "kNew" /\ c \notin connections_
    /\ conn[c].channel # "kNew" \/ <<"connectEstablished", c>> \in Queued(conn[c].loop)
         => Kept(c)

\* Without io threads a connection is established, in the map and in the wheel
\* at the same time.
WatchInv ==
  numThreads_ = 0 /\ stage = "run" =>
    \A c \in Conns : conn[c].state = "kConnected" =>
      c \in connections_ /\ (idleTimeout_ > 0 => left[c] > 0)

IInv ==
  /\ TypeOK /\ QueueInv /\ LoopInv /\ ActiveInv /\ StageInv
  /\ BacklogInv /\ ConnInv /\ WatchInv

USE ThreadsAssumption, IdleTimeoutAssumption, DescriptorsAssumption DEF Base, Loops, IoLoops

LEMMA InitiallyTrue == Init => IInv
<1> SUFFICES ASSUME Init PROVE IInv
  OBVIOUS
<1>1. /\ NewLoop \in LoopType /\ NewConn \in ConnType
      /\ \A l \in Loops : loop[l] = NewLoop
      /\ \A c \in Conns : conn[c] = NewConn
  BY EmptySeq DEF Init, NewLoop, NewConn, LoopType, ConnType
<1>2. TypeOK
  <2>1. backlog \in Seq(Conns) /\ loop \in [Loops -> LoopType]
    BY <1>1, EmptySeq DEF Init
  <2>2. conn \in [Conns -> ConnType] /\ left \in [Conns -> 0..idleTimeout_]
    BY <1>1 DEF Init
  <2>3. peer \in [Conns -> [fin : BOOLEAN, unread : BOOLEAN]]
    BY DEF Init
  <2>4. numThreads_ \in 0..MaxThreads /\ descriptors \in 1..MaxDescriptors
    BY DEF Init
  <2>5. {listening, joining, lateUse} \subseteq BOOLEAN /\ stage = "new" /\ connections_ = {}
    BY Zenon DEF Init
  <2>6. at \in 1..(MaxThreads + 1) /\ next_ = 1
    BY DEF Init
  <2> QED
    BY <2>1, <2>2, <2>3, <2>4, <2>5, <2>6 DEF TypeOK
<1>3. Range(<<>>) = {} /\ OrderedQueue(<<>>) /\ Len(<<>>) = 0
  BY DEF Range, OrderedQueue, Before
<1>4. QueueInv /\ \A l \in Loops : Queued(l) = {}
  BY <1>1, <1>3 DEF QueueInv, Queued, NewLoop, Ordered
<1>5. LoopInv /\ ActiveInv /\ StageInv
  BY <1>1, <1>4 DEF LoopInv, ActiveInv, StageInv, NewLoop, NewConn, Init
<1>6. BacklogInv
  BY <1>3 DEF BacklogInv, Init
<1>7. ConnInv /\ WatchInv
  BY <1>1, <1>2, <1>4 DEF ConnInv, WatchInv, NewConn, Init, TypeOK
<1> QED
  BY <1>2, <1>4, <1>5, <1>6, <1>7 DEF IInv

\* A step that leaves the queues, the connections and the map alone.
LEMMA QuietStep ==
  ASSUME IInv, UNCHANGED <<conn, connections_, numThreads_>>,
         \A l \in Loops :
           /\ loop'[l].pending = loop[l].pending /\ loop'[l].functors = loop[l].functors
           /\ loop[l].phase = "ended" => loop'[l].phase = "ended"
  PROVE  QueueInv' /\ ConnInv'
<1>1. ASSUME NEW l \in Loops
      PROVE  Queued(l)' = Queued(l) /\ (Ordered(loop[l]) => Ordered(loop'[l]))
  <2>1. loop'[l].pending = loop[l].pending /\ loop'[l].functors = loop[l].functors
    OBVIOUS
  <2>2. Queued(l)' = Queued(l)
    BY <2>1 DEF Queued
  <2>3. Ordered(loop[l]) => Ordered(loop'[l])
    BY <2>1 DEF Ordered
  <2> QED
    BY <2>2, <2>3
<1>2. QueueInv'
  BY <1>1 DEF IInv, QueueInv
<1>3. \A c \in Conns : conn[c].loop \in Loops /\ (Kept(c) => Kept(c)')
  <2>1. \A c \in Conns : conn[c].loop \in Loops /\ conn'[c].loop = conn[c].loop
    BY DEF IInv, TypeOK, ConnType
  <2> QED
    BY <1>1, <2>1 DEF Kept
<1>4. ConnInv'
  BY <1>1, <1>3 DEF IInv, ConnInv
<1> QED
  BY <1>2, <1>4

\* The same for one that leaves the loops alone altogether.
LEMMA OutsideStep ==
  ASSUME IInv, TypeOK', UNCHANGED <<conn, connections_, numThreads_, loop>>
  PROVE  QueueInv' /\ ConnInv'
BY QuietStep

\* What a sequence is with one element more.
LEMMA OneMore ==
  ASSUME NEW S, NEW seq \in Seq(S), NEW e \in S
  PROVE  /\ Append(seq, e) \in Seq(S) /\ Append(seq, e) # <<>>
         /\ Len(Append(seq, e)) = Len(seq) + 1 /\ Len(seq) \in Nat
         /\ \A i \in 1..Len(seq) : Append(seq, e)[i] = seq[i]
         /\ Append(seq, e)[Len(seq) + 1] = e
<1>1. Append(seq, e) \in Seq(S) /\ Append(seq, e) # <<>>
  BY AppendProperties
<1>2. Len(Append(seq, e)) = Len(seq) + 1 /\ Len(seq) \in Nat
  BY AppendProperties, LenProperties
<1>3. \A i \in 1..Len(seq) : Append(seq, e)[i] = seq[i]
  BY AppendProperties
<1>4. Append(seq, e)[Len(seq) + 1] = e
  BY AppendProperties
<1> QED
  BY <1>1, <1>2, <1>3, <1>4

LEMMA PeerSteps ==
  ASSUME IInv, NEW c \in Conns, PeerConnects(c) \/ PeerSends(c) \/ PeerCloses(c)
  PROVE  IInv'
<1> USE DEF IInv, TypeOK, PeerStep, serverVars, constVars, dyingVars
<1>1. UNCHANGED <<serverVars, dyingVars, listening, left, conn, loop>>
  BY DEF PeerConnects, PeerSends, PeerCloses
<1>2. CASE PeerConnects(c)
  <2>1. backlog' = Append(backlog, c) /\ conn[c].state = "none" /\ c \notin Range(backlog)
        /\ peer' = [peer EXCEPT ![c] = peer[c]]
    BY <1>2 DEF PeerConnects
  <2>2. /\ backlog' \in Seq(Conns) /\ backlog' # <<>> /\ Len(backlog') = Len(backlog) + 1
        /\ \A i \in 1..Len(backlog) : backlog'[i] = backlog[i] /\ backlog[i] \in Range(backlog)
        /\ backlog'[Len(backlog) + 1] = c /\ Len(backlog) \in Nat
    <3>1. backlog \in Seq(Conns)
      OBVIOUS
    <3>2. \A i \in 1..Len(backlog) : backlog[i] \in Range(backlog)
      BY <3>1, RangeEquality
    <3>3. /\ Append(backlog, c) \in Seq(Conns) /\ Append(backlog, c) # <<>>
          /\ Len(Append(backlog, c)) = Len(backlog) + 1 /\ Len(backlog) \in Nat
          /\ \A i \in 1..Len(backlog) : Append(backlog, c)[i] = backlog[i]
          /\ Append(backlog, c)[Len(backlog) + 1] = c
      BY <3>1, OneMore
    <3> QED
      BY <2>1, <3>2, <3>3
  <2>3. TypeOK'
    BY <1>1, <2>1, <2>2
  <2>4. BacklogInv'
    BY <1>1, <2>1, <2>2 DEF BacklogInv
  <2> QED
    BY <1>1, <2>2, <2>3, <2>4, OutsideStep DEF LoopInv, ActiveInv, StageInv, WatchInv
<1>3. CASE PeerSends(c) \/ PeerCloses(c)
  <2>1. UNCHANGED backlog /\ peer' \in [Conns -> [fin : BOOLEAN, unread : BOOLEAN]]
    BY <1>3, ZenonT(40) DEF PeerSends, PeerCloses
  <2> QED
    BY <1>1, <2>1, OutsideStep DEF LoopInv, ActiveInv, StageInv, WatchInv, BacklogInv
<1> QED
  BY <1>2, <1>3

\* start() and the steps of the destructor that only wait.
LEMMA StageSteps ==
  ASSUME IInv, Start \/ BeginDestructor \/ JoinThread \/ DestroyAcceptor
  PROVE  IInv'
<1> USE DEF serverVars, constVars, dyingVars, netVars
<1>1. UNCHANGED <<numThreads_, descriptors, next_, connections_, lateUse, backlog, peer, left, conn, loop>>
  BY DEF Start, BeginDestructor, JoinThread, NextThread, DestroyAcceptor
<1>2. TypeOK'
  <2> USE DEF IInv, TypeOK
  <2>1. stage' \in {"new", "run", "connections", "threadPool_", "gone"}
    BY DEF Start, BeginDestructor, JoinThread, NextThread, DestroyAcceptor
  <2>2. at' \in 1..(MaxThreads + 1)
    BY DEF StageInv, Start, BeginDestructor, JoinThread, NextThread, DestroyAcceptor
  <2>3. listening' \in BOOLEAN /\ joining' \in BOOLEAN
    BY DEF Start, Listen, BeginDestructor, JoinThread, NextThread, DestroyAcceptor
  <2> QED
    BY <1>1, <2>1, <2>2, <2>3
<1>3. QueueInv' /\ ConnInv' /\ BacklogInv'
  BY <1>1, <1>2, OutsideStep DEF IInv, BacklogInv
<1>4. LoopInv' /\ ActiveInv'
  <2>1. LoopInv'
    BY <1>1 DEF IInv, LoopInv, Start, BeginDestructor, JoinThread, NextThread, DestroyAcceptor
  <2> QED
    BY <1>1, <2>1 DEF IInv, ActiveInv
<1>5. StageInv'
  <2>1. numThreads_ \in 0..MaxThreads /\ at \in Nat
    BY DEF IInv, TypeOK
  <2>2. CASE Start \/ BeginDestructor
    BY <1>1, <2>2 DEF IInv, StageInv, Start, BeginDestructor
  <2>3. CASE JoinThread
    BY <1>1, <2>1, <2>3 DEF IInv, StageInv, JoinThread, NextThread
  <2>4. CASE DestroyAcceptor
    BY <1>1, <2>1, <2>4 DEF IInv, StageInv, DestroyAcceptor
  <2> QED
    BY <2>2, <2>3, <2>4
<1>6. WatchInv'
  BY <1>1 DEF IInv, WatchInv, StageInv, Start, BeginDestructor, JoinThread, NextThread, DestroyAcceptor
<1> QED
  BY <1>2, <1>3, <1>4, <1>5, <1>6 DEF IInv

\* quit_ of a loop is set.
LEMMA QuitSteps ==
  ASSUME IInv, UserQuits \/ QuitThread
  PROVE  IInv'
<1>1. PICK l \in Loops :
        /\ loop' = [loop EXCEPT ![l].quit = TRUE]
        /\ \/ l = Base /\ joining' = joining
           \/ stage = "threadPool_" /\ joining' /\ at \in IoLoops
  <2>1. CASE UserQuits
    <3>1. 0 \in Loops
      OBVIOUS
    <3>2. joining' = joining /\ loop' = [loop EXCEPT ![0].quit = TRUE]
      BY <2>1 DEF UserQuits, dyingVars
    <3> QED
      BY <3>1, <3>2
  <2>2. CASE QuitThread
    <3>1. at \in Loops
      BY <2>2 DEF QuitThread, IInv, TypeOK
    <3>2. stage = "threadPool_" /\ joining' /\ at \in IoLoops /\ loop' = [loop EXCEPT ![at].quit = TRUE]
      BY <2>2 DEF QuitThread
    <3> QED
      BY <3>1, <3>2
  <2> QED
    BY <2>1, <2>2
<1>2. /\ UNCHANGED <<serverVars, stage, at, lateUse, netVars, left, conn>>
      /\ joining' \in BOOLEAN
  BY DEF UserQuits, QuitThread, dyingVars, IInv, TypeOK
<1> USE DEF serverVars, constVars, dyingVars, netVars
<1>3. /\ loop' \in [Loops -> LoopType]
      /\ \A k \in Loops :
           /\ loop'[k].phase = loop[k].phase /\ loop'[k].active = loop[k].active
           /\ loop'[k].pending = loop[k].pending /\ loop'[k].functors = loop[k].functors
           /\ k # l => loop'[k].quit = loop[k].quit
           /\ loop[k].quit => loop'[k].quit
  <2>1. loop \in [Loops -> LoopType]
    BY DEF IInv, TypeOK
  <2> QED
    BY <1>1, <2>1 DEF LoopType
<1>4. TypeOK'
  BY <1>2, <1>3 DEF IInv, TypeOK
<1>5. QueueInv' /\ ConnInv'
  BY <1>2, <1>3, QuietStep
<1>6. LoopInv' /\ ActiveInv'
  <2>1. LoopInv'
    BY <1>1, <1>2, <1>3 DEF IInv, LoopInv
  <2> QED
    BY <1>1, <1>2, <1>3, <2>1 DEF IInv, ActiveInv
<1>7. StageInv' /\ BacklogInv' /\ WatchInv'
  <2>1. numThreads_ \in 0..MaxThreads
    BY DEF IInv, TypeOK
  <2>2. StageInv'
    BY <1>1, <1>2, <1>3, <2>1 DEF IInv, StageInv
  <2> QED
    BY <1>2, <2>2 DEF IInv, BacklogInv, WatchInv
<1> QED
  BY <1>4, <1>5, <1>6, <1>7 DEF IInv

\* A thread calls loop(), which clears quit_.
LEMMA EnterStep ==
  ASSUME IInv, NEW l \in Loops, EnterLoop(l)
  PROVE  IInv'
<1> USE DEF serverVars, constVars, dyingVars, netVars
<1>1. /\ loop' = [loop EXCEPT ![l].phase = "poll", ![l].quit = FALSE]
      /\ loop[l].phase = "before"
      /\ UNCHANGED <<serverVars, dyingVars, netVars, left, conn>>
  BY DEF EnterLoop, In
<1>2. /\ loop' \in [Loops -> LoopType]
      /\ \A k \in Loops :
           /\ loop'[k].phase = IF k = l THEN "poll" ELSE loop[k].phase
           /\ loop'[k].quit = IF k = l THEN FALSE ELSE loop[k].quit
           /\ loop'[k].active = loop[k].active
           /\ loop'[k].pending = loop[k].pending /\ loop'[k].functors = loop[k].functors
  <2>1. loop \in [Loops -> LoopType]
    BY DEF IInv, TypeOK
  <2> QED
    BY <1>1, <2>1 DEF LoopType
<1>3. TypeOK'
  BY <1>1, <1>2 DEF IInv, TypeOK
<1>4. QueueInv' /\ ConnInv'
  BY <1>1, <1>2, QuietStep
<1>5. LoopInv' /\ ActiveInv'
  <2>1. LoopInv'
    BY <1>1, <1>2 DEF IInv, LoopInv
  <2> QED
    BY <1>1, <1>2, <2>1 DEF IInv, ActiveInv
<1>6. StageInv' /\ BacklogInv' /\ WatchInv'
  <2>1. numThreads_ \in 0..MaxThreads
    BY DEF IInv, TypeOK
  <2>2. StageInv'
    BY <1>1, <1>2, <2>1 DEF IInv, StageInv
  <2> QED
    BY <1>1, <2>2 DEF IInv, BacklogInv, WatchInv
<1> QED
  BY <1>3, <1>4, <1>5, <1>6 DEF IInv

\* A loop polls, handles a report without effect on the connections, or ends
\* its pass.
LEMMA PollStep ==
  ASSUME IInv, NEW l \in Loops, PollReturns(l)
  PROVE  IInv'
<1> USE DEF serverVars, constVars, dyingVars, netVars
<1>1. /\ loop' = [loop EXCEPT ![l].phase = "dispatch", ![l].active = Ready(l)]
      /\ loop[l].phase = "poll"
      /\ UNCHANGED <<serverVars, dyingVars, netVars, left, conn>>
  BY DEF PollReturns, Polled, In
<1>2. /\ Ready(l) \in SUBSET (Conns \cup {Acceptor})
      /\ Acceptor \in Ready(l) => l = Base /\ backlog # <<>>
      /\ \A c \in Conns : c \in Ready(l) => conn[c].state # "none"
  BY AcceptorAssumption DEF Ready, IInv, ConnInv
<1>3. /\ loop' \in [Loops -> LoopType]
      /\ \A k \in Loops :
           /\ loop'[k].phase = IF k = l THEN "dispatch" ELSE loop[k].phase
           /\ loop'[k].active = IF k = l THEN Ready(l) ELSE loop[k].active
           /\ loop'[k].pending = loop[k].pending /\ loop'[k].functors = loop[k].functors
           /\ loop'[k].quit = loop[k].quit
  <2>1. loop \in [Loops -> LoopType]
    BY DEF IInv, TypeOK
  <2> QED
    BY <1>1, <1>2, <2>1 DEF LoopType
<1>4. TypeOK'
  BY <1>1, <1>3 DEF IInv, TypeOK
<1>5. QueueInv' /\ ConnInv'
  BY <1>1, <1>3, QuietStep
<1>6. LoopInv' /\ ActiveInv'
  <2>1. LoopInv'
    BY <1>1, <1>3 DEF IInv, LoopInv
  <2>2. \A k \in Loops :
          /\ Acceptor \in loop'[k].active => k = Base /\ backlog # <<>>
          /\ \A c \in Conns : c \in loop'[k].active => conn[c].state # "none"
    <3> TAKE k \in Loops
    <3>1. loop'[k].active = IF k = l THEN Ready(l) ELSE loop[k].active
      BY <1>3
    <3>2. /\ Acceptor \in loop[k].active => k = Base /\ backlog # <<>>
          /\ \A c \in Conns : c \in loop[k].active => conn[c].state # "none"
      BY DEF IInv, ActiveInv
    <3>3. CASE k = l
      <4>1. loop'[k].active = Ready(l)
        BY <3>1, <3>3
      <4> QED
        BY <1>2, <3>3, <4>1, Zenon
    <3>4. CASE k # l
      BY <3>1, <3>2, <3>4
    <3> QED
      BY <3>3, <3>4
  <2> QED
    BY <1>1, <2>1, <2>2 DEF ActiveInv
<1>7. StageInv' /\ BacklogInv' /\ WatchInv'
  <2>1. numThreads_ \in 0..MaxThreads
    BY DEF IInv, TypeOK
  <2>2. StageInv'
    BY <1>1, <1>3, <2>1 DEF IInv, StageInv
  <2> QED
    BY <1>1, <2>2 DEF IInv, BacklogInv, WatchInv
<1> QED
  BY <1>4, <1>5, <1>6, <1>7 DEF IInv

\* A handler without effect on the connections.
LEMMA HandledStep ==
  ASSUME IInv, NEW l \in Loops, NEW x, loop' = Handled(l, x),
         UNCHANGED <<serverVars, stage, at, joining, backlog, conn>>
  PROVE  /\ QueueInv' /\ LoopInv' /\ ActiveInv' /\ StageInv' /\ BacklogInv' /\ ConnInv'
         /\ loop' \in [Loops -> LoopType]
<1> USE DEF serverVars, constVars
<1>1. /\ loop' \in LoopsType
      /\ \A k \in Loops :
           /\ loop'[k].phase = loop[k].phase /\ loop'[k].quit = loop[k].quit
           /\ loop'[k].active \subseteq loop[k].active
           /\ loop'[k].functors = loop[k].functors /\ loop'[k].pending = loop[k].pending
  <2>1. TypeOK
    BY DEF IInv
  <2>2. /\ Handled(l, x) \in LoopsType
        /\ \A k \in Loops :
             /\ Handled(l, x)[k].phase = loop[k].phase /\ Handled(l, x)[k].quit = loop[k].quit
             /\ Handled(l, x)[k].functors = loop[k].functors
             /\ Handled(l, x)[k].pending = loop[k].pending
             /\ Handled(l, x)[k].active = IF k = l THEN loop[k].active \ {x} ELSE loop[k].active
    BY <2>1, HandledLeavesQueues
  <2>3. \A k \in Loops : Handled(l, x)[k].active \subseteq loop[k].active
    BY <2>2
  <2> QED
    BY <2>2, <2>3
<1>2. QueueInv' /\ ConnInv'
  BY <1>1, QuietStep
<1>3. LoopInv' /\ ActiveInv'
  <2>1. LoopInv'
    BY <1>1 DEF IInv, LoopInv
  <2> QED
    BY <1>1, <2>1 DEF IInv, ActiveInv
<1>4. StageInv'
  <2>1. numThreads_ \in 0..MaxThreads
    BY DEF IInv, TypeOK
  <2> QED
    BY <1>1, <2>1 DEF IInv, StageInv
<1> QED
  BY <1>1, <1>2, <1>3, <1>4 DEF IInv, BacklogInv, LoopsType

LEMMA AcceptFailsStep ==
  ASSUME IInv, AcceptFails
  PROVE  IInv'
<1> USE DEF serverVars, constVars, dyingVars
<1>1. /\ loop' = Handled(Base, Acceptor) /\ listening' = listening
      /\ UNCHANGED <<serverVars, dyingVars, backlog, peer, left, conn>>
  BY DEF AcceptFails, RefuseAnd
<1>2. Base \in Loops
  OBVIOUS
<1>3. /\ QueueInv' /\ LoopInv' /\ ActiveInv' /\ StageInv' /\ BacklogInv' /\ ConnInv'
      /\ loop' \in [Loops -> LoopType]
  BY <1>1, <1>2, HandledStep
<1> QED
  BY <1>1, <1>3 DEF IInv, TypeOK, WatchInv

LEMMA MessageStep ==
  ASSUME IInv, NEW l \in Loops, NEW c \in Conns, HandleMessage(l, c)
  PROVE  IInv'
<1> USE DEF serverVars, constVars, dyingVars
<1>1. /\ loop' = Handled(l, c) /\ peer' = [peer EXCEPT ![c].unread = FALSE]
      /\ left' \in {Updated(c), left} /\ lateUse' \in BOOLEAN
      /\ UNCHANGED <<serverVars, stage, at, joining, listening, backlog, conn>>
  BY DEF HandleMessage, SameSecond, IInv, TypeOK
<1>2. /\ QueueInv' /\ LoopInv' /\ ActiveInv' /\ StageInv' /\ BacklogInv' /\ ConnInv'
      /\ loop' \in [Loops -> LoopType]
  BY <1>1, HandledStep
<1>3. left' \in [Conns -> 0..idleTimeout_]
      /\ \A d \in Conns : left'[d] = left[d] \/ left'[d] = idleTimeout_
  <2>1. left \in [Conns -> 0..idleTimeout_] /\ idleTimeout_ \in 0..idleTimeout_
    BY DEF IInv, TypeOK
  <2>2. CASE left' = left
    BY <2>1, <2>2
  <2>3. CASE left' = [left EXCEPT ![c] = idleTimeout_]
    BY <2>1, <2>3
  <2> QED
    BY <1>1, <2>2, <2>3 DEF Updated
<1>4. TypeOK'
  <2>1. peer' \in [Conns -> [fin : BOOLEAN, unread : BOOLEAN]]
    BY <1>1 DEF IInv, TypeOK
  <2> QED
    BY <1>1, <1>2, <1>3, <2>1 DEF IInv, TypeOK
<1>5. WatchInv'
  BY <1>1, <1>3 DEF IInv, WatchInv
<1> QED
  BY <1>2, <1>4, <1>5 DEF IInv

LEMMA PassEndsStep ==
  ASSUME IInv, NEW l \in Loops, PassEnds(l)
  PROVE  IInv'
<1> USE DEF serverVars, constVars, dyingVars, netVars
<1>1. /\ loop' = [loop EXCEPT ![l] = AfterPass(l)]
      /\ loop[l].phase = "functors" /\ loop[l].functors = <<>>
      /\ UNCHANGED <<serverVars, dyingVars, netVars, left, conn>>
  BY DEF PassEnds, PassDone, In
<1>2. /\ loop \in [Loops -> LoopType] /\ loop' \in [Loops -> LoopType]
      /\ \A k \in Loops : k # l => loop'[k] = loop[k]
      /\ loop'[l] = AfterPass(l)
  BY <1>1, PassLeavesQueue DEF IInv, TypeOK
<1>3. \A k \in Loops :
        /\ loop'[k].functors = loop[k].functors /\ loop'[k].active = loop[k].active
        /\ loop'[k].quit = loop[k].quit
        /\ loop[k].phase = "ended" => loop'[k].phase = "ended"
        /\ loop'[k].phase = "functors" => loop[k].phase = "functors"
        /\ loop'[k].phase = "ended" => loop'[k].quit \/ loop[k].phase = "ended"
        /\ loop'[k].pending = loop[k].pending \/ (loop'[k].pending = <<>> /\ loop'[k].phase = "ended")
        /\ k # Base /\ loop'[k].phase = "ended" /\ loop[k].phase # "ended" => loop'[k].pending = <<>>
        /\ Ordered(loop[k]) => Ordered(loop'[k])
  BY <1>1, <1>2, PassLeavesQueue DEF IInv
<1>4. TypeOK'
  BY <1>1, <1>2 DEF IInv, TypeOK
<1>5. ASSUME NEW k \in Loops
      PROVE  Queued(k)' \subseteq Queued(k) /\ (Queued(k)' = Queued(k) \/ loop'[k].phase = "ended")
  <2>1. Range(<<>>) = {}
    BY DEF Range
  <2> QED
    BY <1>3, <2>1 DEF Queued
<1>6. loop'[Base].pending = loop[Base].pending
  BY <1>2, PassLeavesQueue DEF IInv
<1>7. Queued(Base)' = Queued(Base)
  BY <1>3, <1>6 DEF Queued
<1>8. QueueInv'
  BY <1>1, <1>3, <1>5 DEF IInv, QueueInv
<1>9. ConnInv'
  <2>1. \A c \in Conns : conn[c].loop \in Loops /\ conn'[c] = conn[c]
    BY <1>1 DEF IInv, TypeOK, ConnType
  <2>2. \A c \in Conns : Kept(c) => Kept(c)'
    BY <1>1, <1>3, <1>5, <1>7, <2>1 DEF Kept
  <2> QED
    BY <1>1, <1>5, <2>1, <2>2 DEF IInv, ConnInv
<1>10. LoopInv' /\ ActiveInv'
  <2>1. LoopInv'
    BY <1>1, <1>3 DEF IInv, LoopInv
  <2> QED
    BY <1>1, <1>3, <2>1 DEF IInv, ActiveInv
<1>11. StageInv'
  <2>1. numThreads_ \in 0..MaxThreads
    BY DEF IInv, TypeOK
  <2> QED
    BY <1>1, <1>3, <2>1 DEF IInv, StageInv
<1> QED
  BY <1>1, <1>4, <1>8, <1>9, <1>10, <1>11 DEF IInv, BacklogInv, WatchInv

LEMMA TakeStep ==
  ASSUME IInv, NEW l \in Loops, TakeFunctors(l)
  PROVE  IInv'
<1> USE DEF serverVars, constVars, dyingVars, netVars
<1>1. /\ loop[l].phase = "dispatch" /\ loop[l].functors = <<>>
      /\ UNCHANGED <<serverVars, dyingVars, netVars, left, conn>>
  BY DEF TakeFunctors, In, IInv, LoopInv
<1>2. /\ loop' \in [Loops -> LoopType]
      /\ \A k \in Loops :
           /\ loop'[k].quit = loop[k].quit /\ loop'[k].active = loop[k].active
           /\ loop'[k].phase = IF k = l THEN "functors" ELSE loop[k].phase
           /\ k # l => loop'[k] = loop[k]
           /\ Queued(k)' = Queued(k)
           /\ Ordered(loop[k]) => Ordered(loop'[k])
  BY <1>1, TakenAreOrdered DEF IInv, LoopsType
<1>3. TypeOK'
  BY <1>1, <1>2 DEF IInv, TypeOK
<1>4. QueueInv'
  BY <1>1, <1>2 DEF IInv, QueueInv
<1>5. ConnInv'
  <2>1. \A c \in Conns : conn[c].loop \in Loops /\ conn'[c] = conn[c]
    BY <1>1 DEF IInv, TypeOK, ConnType
  <2>2. \A c \in Conns : Kept(c) => Kept(c)'
    BY <1>1, <1>2, <2>1 DEF Kept
  <2> QED
    BY <1>1, <1>2, <2>1, <2>2 DEF IInv, ConnInv
<1>6. LoopInv' /\ ActiveInv'
  <2>1. LoopInv'
    BY <1>1, <1>2 DEF IInv, LoopInv
  <2> QED
    BY <1>1, <1>2, <2>1 DEF IInv, ActiveInv
<1>7. StageInv'
  <2>1. numThreads_ \in 0..MaxThreads
    BY DEF IInv, TypeOK
  <2> QED
    BY <1>1, <1>2, <2>1 DEF IInv, StageInv
<1> QED
  BY <1>1, <1>3, <1>4, <1>5, <1>6, <1>7 DEF IInv, BacklogInv, WatchInv

\* The methods of a connection keep its loop and leave it made.
LEMMA ConnMethods ==
  ASSUME NEW k \in ConnType
  PROVE  /\ Established(k) \in ConnType /\ Established(k).loop = k.loop
         /\ Established(k).state = "kConnected"
         /\ Closed(k) \in ConnType /\ Closed(k).loop = k.loop
         /\ Closed(k).state = "kDisconnected"
         /\ Destroyed(k) \in ConnType /\ Destroyed(k).loop = k.loop
         /\ Destroyed(k).channel = "kNew" /\ Destroyed(k).state # "kConnected"
         /\ k.state # "none" => Destroyed(k).state # "none"
<1>1. /\ Established(k) \in ConnType /\ Established(k).loop = k.loop
      /\ Established(k).state = "kConnected"
  BY DEF Established, ConnType
<1>2. /\ Closed(k) \in ConnType /\ Closed(k).loop = k.loop
      /\ Closed(k).state = "kDisconnected"
  BY DEF Closed, DisabledAll, ConnType
<1>3. /\ Destroyed(k) \in ConnType /\ Destroyed(k).loop = k.loop
      /\ Destroyed(k).channel = "kNew" /\ Destroyed(k).state # "kConnected"
      /\ k.state # "none" => Destroyed(k).state # "none"
  <2>1. CASE k.state = "kConnected"
    <3>1. Destroyed(k) = [Closed(k) EXCEPT !.channel = "kNew"]
      BY <2>1 DEF Destroyed
    <3> QED
      BY <1>2, <3>1 DEF ConnType
  <2>2. CASE k.state # "kConnected"
    <3>1. Destroyed(k) = [k EXCEPT !.channel = "kNew"]
      BY <2>2 DEF Destroyed
    <3> QED
      BY <2>2, <3>1 DEF ConnType
  <2> QED
    BY <2>1, <2>2
<1> QED
  BY <1>1, <1>2, <1>3

LEMMA QueuedAreFunctors ==
  ASSUME TypeOK, NEW l \in Loops, NEW f \in Queued(l)
  PROVE  f \in Functors /\ f[2] \in Conns
<1>1. loop[l].pending \in Seq(Functors) /\ loop[l].functors \in Seq(Functors)
  BY DEF TypeOK, LoopType
<1>2. f \in Functors
  BY <1>1, RangeOfSeq DEF Queued
<1> QED
  BY <1>2 DEF Functors

\* A functor that changes its connection only; what it leaves of the
\* connection is to be kept, and it establishes none without io threads.
LEMMA FunctorStep ==
  ASSUME IInv, NEW l \in Loops, NEW c \in Conns, NEW k \in ConnType, NEW method,
         Runs(l, method, c, k), method # "removeConnectionInLoop",
         k.loop = conn[c].loop, conn[c].state # "none" => k.state # "none",
         k.state = "kConnected" => conn[c].state = "kConnected" \/ numThreads_ # 0,
         k.channel # "kNew" \/ <<"connectEstablished", c>> \in Queued(l)'
           => method # "connectDestroyed"
              /\ (conn[c].channel # "kNew" \/ <<"connectEstablished", c>> \in Queued(l))
  PROVE  IInv'
<1> USE DEF constVars, dyingVars, netVars
<1>1. /\ loop[l].phase = "functors" /\ loop[l].functors # <<>> /\ stage # "new"
      /\ Head(loop[l].functors) = <<method, c>>
      /\ conn' = [conn EXCEPT ![c] = k] /\ loop' = Returned(l)
      /\ UNCHANGED <<constVars, next_, dyingVars, netVars, left, connections_>>
  BY DEF Runs, Functor, In
<1>2. TypeOK /\ QueueInv /\ LoopInv /\ StageInv /\ ConnInv
  BY DEF IInv
<1>3. /\ loop' \in [Loops -> LoopType]
      /\ <<method, c>> \in Queued(l)
      /\ \A j \in Loops :
           /\ j # l => loop'[j] = loop[j]
           /\ loop'[j].phase = loop[j].phase /\ loop'[j].active = loop[j].active
           /\ loop'[j].quit = loop[j].quit /\ loop'[j].pending = loop[j].pending
           /\ Queued(j) = Queued(j)' \cup (IF j = l THEN {<<method, c>>} ELSE {})
      /\ Ordered(loop[l]) => Ordered(loop'[l])
  BY <1>1, <1>2, ReturnedTakesHead, ZenonT(40) DEF LoopsType, QueuedIn, Queued
<1>4. /\ conn \in [Conns -> ConnType] /\ conn' \in [Conns -> ConnType] /\ conn'[c] = k
      /\ \A d \in Conns : d # c => conn'[d] = conn[d]
      /\ \A d \in Conns : conn'[d].loop = conn[d].loop /\ conn[d].loop \in Loops
      /\ \A d \in Conns : conn[d].state # "none" => conn'[d].state # "none"
  BY <1>1, <1>2 DEF TypeOK, ConnType
<1>5. TypeOK'
  BY <1>1, <1>2, <1>3, <1>4 DEF TypeOK
<1>6. conn[c].state # "none" /\ l = conn[c].loop
  BY <1>2, <1>3 DEF QueueInv
<1>7. \A j \in Loops : \A f \in Queued(j) : f[2] \in Conns
  BY <1>2, QueuedAreFunctors
<1>8. QueueInv'
  BY <1>1, <1>2, <1>3, <1>4, <1>7 DEF QueueInv
<1>9. LoopInv'
  <2> SUFFICES ASSUME NEW j \in Loops
               PROVE  /\ loop'[j].phase # "functors" => loop'[j].functors = <<>>
                      /\ loop'[j].phase = "ended" => loop'[j].quit
                      /\ j # Base /\ loop'[j].quit => stage \in {"threadPool_", "gone"}
                      /\ j # Base /\ loop'[j].phase = "ended" => loop'[j].pending = <<>>
    BY <1>1 DEF LoopInv
  <2>1. /\ loop[j].phase # "functors" => loop[j].functors = <<>>
        /\ loop[j].phase = "ended" => loop[j].quit
        /\ j # Base /\ loop[j].quit => stage \in {"threadPool_", "gone"}
        /\ j # Base /\ loop[j].phase = "ended" => loop[j].pending = <<>>
    BY <1>2 DEF LoopInv
  <2>2. /\ j # l => loop'[j] = loop[j]
        /\ loop'[j].phase = loop[j].phase
        /\ loop'[j].quit = loop[j].quit /\ loop'[j].pending = loop[j].pending
    BY <1>3
  <2> QED
    BY <1>1, <2>1, <2>2
<1>10. ActiveInv'
  BY <1>1, <1>3, <1>4, ZenonT(60) DEF IInv, ActiveInv
<1>11. StageInv'
  <2>1. numThreads_ \in 0..MaxThreads
    BY <1>2 DEF TypeOK
  <2> QED
    BY <1>1, <1>2, <1>3, <2>1 DEF StageInv
<1>12. BacklogInv'
  <2>1. \A i \in 1..Len(backlog) : backlog[i] \in Conns
    BY <1>2 DEF TypeOK
  <2> QED
    BY <1>1, <1>4, <1>6, <2>1 DEF IInv, BacklogInv
<1>13. ConnInv'
  <2>1. ASSUME NEW d \in Conns, Kept(d), d # c \/ method # "connectDestroyed" PROVE Kept(d)'
    <3>1. <<method, c>> # <<"removeConnectionInLoop", d>> /\ <<method, c>> # <<"connectDestroyed", d>>
      BY <2>1
    <3> QED
      BY <1>1, <1>3, <1>4, <2>1, <3>1 DEF Kept
  <2>2. ASSUME NEW d \in Conns, d # c
        PROVE  conn'[d].channel # "kNew" \/ <<"connectEstablished", d>> \in Queued(conn[d].loop)'
                 => Kept(d)'
    BY <1>2, <1>3, <1>4, <2>1, <2>2 DEF ConnInv
  <2>3. conn'[c].channel # "kNew" \/ <<"connectEstablished", c>> \in Queued(conn[c].loop)'
          => Kept(c)'
    BY <1>2, <1>4, <1>6, <2>1 DEF ConnInv
  <2> QED
    BY <1>1, <1>2, <1>4, <1>6, <2>2, <2>3 DEF ConnInv
<1>14. WatchInv'
  BY <1>1, <1>4 DEF IInv, WatchInv
<1> QED
  BY <1>5, <1>8, <1>9, <1>10, <1>11, <1>12, <1>13, <1>14 DEF IInv

LEMMA FunctorSteps ==
  ASSUME IInv, NEW l \in Loops, NEW c \in Conns,
         ConnectEstablished(l, c) \/ ConnectDestroyed(l, c) \/ ShutdownInLoop(l, c)
  PROVE  IInv'
<1>1. conn[c] \in ConnType /\ TypeOK /\ QueueInv /\ numThreads_ \in 0..MaxThreads
  BY DEF IInv, TypeOK
<1>2. ASSUME NEW method, NEW k, Runs(l, method, c, k)
      PROVE  /\ loop[l].functors # <<>> /\ Head(loop[l].functors) = <<method, c>>
             /\ <<method, c>> \in Queued(l) /\ Queued(l)' \subseteq Queued(l)
             /\ method = "connectDestroyed" => <<"connectEstablished", c>> \notin Queued(l)'
  <2>1. loop[l].functors # <<>> /\ Head(loop[l].functors) = <<method, c>> /\ loop' = Returned(l)
    BY <1>2 DEF Runs, Functor
  <2>2. /\ <<method, c>> \in Queued(l)
        /\ Queued(l) = QueuedIn(Returned(l), l) \cup {<<method, c>>}
        /\ method = "connectDestroyed"
             => <<"connectEstablished", c>> \notin QueuedIn(Returned(l), l)
    BY <1>1, <2>1, ReturnedTakesHead DEF QueueInv
  <2>3. Queued(l)' = QueuedIn(Returned(l), l)
    BY <2>1 DEF Queued, QueuedIn
  <2> QED
    BY <2>1, <2>2, <2>3
<1>3. CASE ConnectEstablished(l, c)
  <2>1. Runs(l, "connectEstablished", c, Established(conn[c]))
    BY <1>3 DEF ConnectEstablished
  <2>2. <<"connectEstablished", c>> \in Queued(l)
    BY <1>2, <2>1
  <2>3. l # Base /\ l = conn[c].loop
    BY <1>1, <2>2 DEF QueueInv
  <2>4. conn[c].loop \in 0..numThreads_
    BY DEF IInv, ConnInv
  <2>5. numThreads_ # 0
    BY <1>1, <2>3, <2>4
  <2> QED
    BY <1>1, <2>1, <2>2, <2>5, ConnMethods, FunctorStep
<1>4. CASE ConnectDestroyed(l, c)
  <2>1. Runs(l, "connectDestroyed", c, Destroyed(conn[c]))
    BY <1>4 DEF ConnectDestroyed
  <2>2. <<"connectEstablished", c>> \notin Queued(l)'
    BY <1>2, <2>1
  <2> QED
    BY <1>1, <2>1, <2>2, ConnMethods, FunctorStep
<1>5. CASE ShutdownInLoop(l, c)
  <2> DEFINE k == [conn[c] EXCEPT !.wrShut = TRUE]
  <2>1. Runs(l, "shutdownInLoop", c, k)
    BY <1>5 DEF ShutdownInLoop
  <2>2. Queued(l)' \subseteq Queued(l)
    BY <1>2, <2>1
  <2>3. /\ k \in ConnType /\ k.loop = conn[c].loop /\ k.state = conn[c].state
        /\ k.channel = conn[c].channel
    BY <1>1 DEF ConnType
  <2> HIDE DEF k
  <2> QED
    BY <2>1, <2>2, <2>3, FunctorStep
<1> QED
  BY <1>3, <1>4, <1>5

\* A step that forgets c in the map and asks for connectDestroyed of it, in
\* its loop, or for its removal, in the base loop.
LEMMA RemovalStep ==
  ASSUME IInv, NEW ls \in LoopsType, NEW l \in Loops, NEW c \in Conns, NEW method,
         loop' = Queue(ls, l, <<method, c>>),
         \/ method = "connectDestroyed" /\ l = conn[c].loop
         \/ method = "removeConnectionInLoop" /\ l = Base /\ numThreads_ > 0,
         l = Base \/ stage \in {"run", "connections"},
         \A j \in Loops :
           /\ ls[j].phase = loop[j].phase /\ ls[j].quit = loop[j].quit
           /\ ls[j].pending = loop[j].pending /\ ls[j].active \subseteq loop[j].active
           /\ ls[j].phase # "functors" => ls[j].functors = <<>>
           /\ QueuedIn(ls, j) \subseteq Queued(j) /\ Ordered(ls[j])
           /\ \A f \in Queued(j) \ QueuedIn(ls, j) : f = <<"removeConnectionInLoop", c>>,
         connections_ \ {c} \subseteq connections_', connections_' \subseteq connections_,
         conn' \in [Conns -> ConnType],
         \A d \in Conns : d # c => conn'[d] = conn[d],
         conn'[c].loop = conn[c].loop, conn[c].state # "none", conn'[c].state # "none",
         numThreads_ # 0 \/ conn'[c].state # "kConnected",
         UNCHANGED <<constVars, next_, dyingVars, netVars, left>>
  PROVE  IInv'
<1> DEFINE f == <<method, c>>
<1> USE DEF constVars, dyingVars, netVars
<1>1. TypeOK /\ QueueInv /\ LoopInv /\ StageInv /\ ConnInv /\ numThreads_ \in 0..MaxThreads
  BY DEF IInv, TypeOK
<1>2. f \in Functors
  BY DEF Functors
<1>3. f[1] = method /\ f[2] = c /\ \A d \in Conns : f # <<"connectEstablished", d>>
  OBVIOUS
<1> HIDE DEF f
<1>4. /\ loop' \in LoopsType
      /\ \A j \in Loops :
           /\ loop'[j].phase = loop[j].phase /\ loop'[j].quit = loop[j].quit
           /\ loop'[j].active \subseteq loop[j].active
           /\ loop'[j].functors = ls[j].functors
           /\ j # l => loop'[j].pending = loop[j].pending
           /\ Ordered(loop'[j])
  <2>1. loop' = Queue(ls, l, f)
    BY DEF f
  <2>2. /\ Queue(ls, l, f) \in LoopsType
        /\ \A j \in Loops :
             /\ j # l => Queue(ls, l, f)[j] = ls[j]
             /\ Queue(ls, l, f)[j].phase = ls[j].phase
             /\ Queue(ls, l, f)[j].active = ls[j].active
             /\ Queue(ls, l, f)[j].quit = ls[j].quit
             /\ Queue(ls, l, f)[j].functors = ls[j].functors
        /\ Ordered(ls[l]) => Ordered(Queue(ls, l, f)[l])
    BY <1>2, <1>3, QueueAppends
  <2>3. ASSUME NEW j \in Loops
        PROVE  /\ loop'[j].phase = loop[j].phase /\ loop'[j].quit = loop[j].quit
               /\ loop'[j].active \subseteq loop[j].active
               /\ loop'[j].functors = ls[j].functors
               /\ j # l => loop'[j].pending = loop[j].pending
    <3>1. /\ ls[j].phase = loop[j].phase /\ ls[j].quit = loop[j].quit
          /\ ls[j].pending = loop[j].pending /\ ls[j].active \subseteq loop[j].active
      OBVIOUS
    <3> QED
      BY <2>1, <2>2, <3>1, ZenonT(40)
  <2>4. ASSUME NEW j \in Loops PROVE Ordered(loop'[j])
    <3>1. Ordered(ls[j])
      OBVIOUS
    <3> QED
      BY <2>1, <2>2, <3>1
  <2> QED
    BY <2>1, <2>2, <2>3, <2>4
<1>5. \A j \in Loops : Queued(j)' = QueuedIn(ls, j) \cup (IF j = l THEN {f} ELSE {})
  <2>1. loop' = Queue(ls, l, f)
    BY DEF f
  <2>2. \A j \in Loops : QueuedIn(Queue(ls, l, f), j) = QueuedIn(ls, j) \cup (IF j = l THEN {f} ELSE {})
    BY <1>2, QueueAppends
  <2>3. \A j \in Loops : Queued(j)' = QueuedIn(Queue(ls, l, f), j)
    BY <2>1 DEF Queued, QueuedIn
  <2> QED
    BY <2>2, <2>3
<1>6. /\ conn \in [Conns -> ConnType]
      /\ \A d \in Conns : conn'[d].loop = conn[d].loop /\ conn[d].loop \in Loops
      /\ \A d \in Conns : conn[d].state # "none" => conn'[d].state # "none"
  BY <1>1 DEF TypeOK, ConnType
<1>7. \A j \in Loops : \A g \in Queued(j) : g[2] \in Conns
  BY <1>1, QueuedAreFunctors
<1>8. TypeOK'
  BY <1>1, <1>4 DEF TypeOK, LoopsType
<1>9. QueueInv'
  BY <1>1, <1>3, <1>4, <1>5, <1>6, <1>7 DEF QueueInv
<1>10. LoopInv'
  BY <1>1, <1>4 DEF LoopInv
<1>11. ActiveInv'
  BY <1>4, <1>6 DEF IInv, ActiveInv
<1>12. StageInv'
  BY <1>1, <1>4 DEF StageInv
<1>13. ConnInv'
  <2>1. ASSUME NEW d \in Conns, Kept(d), d # c PROVE Kept(d)'
    <3>1. <<"removeConnectionInLoop", c>> # <<"removeConnectionInLoop", d>>
          /\ <<"removeConnectionInLoop", c>> # <<"connectDestroyed", d>>
      BY <2>1
    <3>2. ASSUME NEW j \in Loops
          PROVE  /\ <<"removeConnectionInLoop", d>> \in Queued(j)
                      => <<"removeConnectionInLoop", d>> \in Queued(j)'
                 /\ <<"connectDestroyed", d>> \in Queued(j)
                      => <<"connectDestroyed", d>> \in Queued(j)'
      BY <1>5, <3>1
    <3>3. 0 \in Loops /\ conn[d].loop \in Loops /\ conn'[d] = conn[d]
      BY <1>6, <2>1
    <3>4. d \in connections_ => d \in connections_'
      BY <2>1
    <3> QED
      BY <1>4, <2>1, <3>2, <3>3, <3>4 DEF Kept
  <2>2. Kept(c)'
    <3>1. f \in Queued(l)'
      BY <1>5
    <3> QED
      BY <1>6, <3>1 DEF Kept, f
  <2>3. ASSUME NEW d \in Conns, d # c
        PROVE  conn'[d].channel # "kNew" \/ <<"connectEstablished", d>> \in Queued(conn[d].loop)'
                 => Kept(d)'
    <3>1. f # <<"connectEstablished", d>>
      BY <1>3
    <3>2. Queued(conn[d].loop)' \subseteq Queued(conn[d].loop) \cup {f}
      BY <1>5, <1>6
    <3> QED
      BY <1>1, <2>1, <2>3, <3>1, <3>2 DEF ConnInv
  <2> QED
    BY <1>1, <1>6, <2>2, <2>3 DEF ConnInv
<1>14. BacklogInv'
  <2>1. \A i \in 1..Len(backlog) : backlog[i] \in Conns
    BY <1>1 DEF TypeOK
  <2> QED
    BY <1>6, <2>1 DEF IInv, BacklogInv
<1>15. WatchInv'
  BY DEF IInv, WatchInv
<1> QED
  BY <1>8, <1>9, <1>10, <1>11, <1>12, <1>13, <1>14, <1>15 DEF IInv

LEMMA CloseStep ==
  ASSUME IInv, NEW l \in Loops, l = Base \/ l \in IoLoops, NEW c \in Conns, HandleClose(l, c)
  PROVE  IInv'
<1> USE DEF constVars, dyingVars, netVars
<1>1. /\ TypeOK /\ conn[c] \in ConnType /\ conn \in [Conns -> ConnType]
      /\ numThreads_ \in 0..MaxThreads
  BY DEF IInv, TypeOK
<1>2. /\ loop[l].phase = "dispatch" /\ stage # "new" /\ conn[c].state # "none"
      /\ conn' = [conn EXCEPT ![c] = Closed(conn[c])]
      /\ UNCHANGED <<constVars, next_, dyingVars, netVars, left>>
  BY DEF HandleClose, Dispatch, In, IInv, ActiveInv
<1>3. /\ conn' \in [Conns -> ConnType] /\ \A d \in Conns : d # c => conn'[d] = conn[d]
      /\ conn'[c].loop = conn[c].loop /\ conn'[c].state = "kDisconnected"
  BY <1>1, <1>2, ConnMethods
<1> DEFINE ls == Handled(l, c)
<1>4. /\ ls \in LoopsType
      /\ \A j \in Loops :
           /\ ls[j].phase = loop[j].phase /\ ls[j].quit = loop[j].quit
           /\ ls[j].pending = loop[j].pending /\ ls[j].functors = loop[j].functors
           /\ ls[j].active = IF j = l THEN loop[j].active \ {c} ELSE loop[j].active
           /\ QueuedIn(ls, j) = Queued(j)
           /\ Ordered(loop[j]) => Ordered(ls[j])
  BY <1>1, HandledLeavesQueues
<1> HIDE DEF ls
<1>5. \A j \in Loops :
        /\ ls[j].phase = loop[j].phase /\ ls[j].quit = loop[j].quit
        /\ ls[j].pending = loop[j].pending /\ ls[j].active \subseteq loop[j].active
        /\ ls[j].phase # "functors" => ls[j].functors = <<>>
        /\ QueuedIn(ls, j) \subseteq Queued(j) /\ Ordered(ls[j])
        /\ \A f \in Queued(j) \ QueuedIn(ls, j) : f = <<"removeConnectionInLoop", c>>
  BY <1>4 DEF IInv, QueueInv, LoopInv
<1>6. CASE l = Base
  <2>1. /\ loop' = Queue(ls, conn[c].loop, <<"connectDestroyed", c>>)
        /\ connections_' = connections_ \ {c}
    BY <1>6 DEF HandleClose, RemoveInLoop, ls
  <2>2. conn[c].loop \in Loops
    BY <1>1 DEF ConnType
  <2>3. stage \in {"run", "connections"}
    BY <1>1, <1>2, <1>6 DEF IInv, StageInv, TypeOK
  <2>4. connections_ \ {c} \subseteq connections_' /\ connections_' \subseteq connections_
    BY <2>1
  <2> QED
    BY <1>2, <1>3, <1>4, <1>5, <2>1, <2>2, <2>3, <2>4, RemovalStep
<1>7. CASE l # Base
  <2>1. /\ loop' = Queue(ls, Base, <<"removeConnectionInLoop", c>>)
        /\ connections_' = connections_
    BY <1>7 DEF HandleClose, ls
  <2>2. 0 \in Loops /\ numThreads_ > 0
    BY <1>1, <1>7
  <2>3. connections_ \ {c} \subseteq connections_' /\ connections_' \subseteq connections_
    BY <2>1
  <2> QED
    BY <1>2, <1>3, <1>4, <1>5, <2>1, <2>2, <2>3, RemovalStep
<1> QED
  BY <1>6, <1>7

LEMMA RemoveStep ==
  ASSUME IInv, NEW c \in Conns, RemoveConnectionInLoop(c)
  PROVE  IInv'
<1> USE DEF constVars, dyingVars, netVars
<1> DEFINE ls == Returned(Base)
           f == <<"removeConnectionInLoop", c>>
<1>1. /\ TypeOK /\ QueueInv /\ conn[c] \in ConnType /\ conn \in [Conns -> ConnType]
      /\ numThreads_ \in 0..MaxThreads /\ 0 \in Loops /\ conn[c].loop \in Loops
  BY DEF IInv, TypeOK, ConnType
<1>2. /\ loop[Base].phase = "functors" /\ loop[Base].functors # <<>> /\ stage # "new"
      /\ Head(loop[Base].functors) = f
      /\ UNCHANGED <<constVars, next_, dyingVars, netVars, left, conn>>
      /\ loop' = Queue(ls, conn[c].loop, <<"connectDestroyed", c>>)
      /\ connections_' = connections_ \ {c}
  BY DEF RemoveConnectionInLoop, Functor, In, RemoveInLoop
<1>3. /\ ls \in LoopsType /\ f \in Queued(Base)
      /\ \A j \in Loops :
           /\ j # Base => ls[j] = loop[j]
           /\ ls[j].phase = loop[j].phase /\ ls[j].active = loop[j].active
           /\ ls[j].quit = loop[j].quit /\ ls[j].pending = loop[j].pending
           /\ Queued(j) = QueuedIn(ls, j) \cup (IF j = Base THEN {f} ELSE {})
      /\ Ordered(loop[Base]) => Ordered(ls[Base])
  BY <1>1, <1>2, ReturnedTakesHead
<1>4. conn[c].state # "none" /\ numThreads_ # 0
  <2>1. f[1] = "removeConnectionInLoop" /\ f[2] = c
    OBVIOUS
  <2>2. conn[f[2]].state # "none" /\ numThreads_ > 0
    BY <1>1, <1>3, <2>1 DEF QueueInv
  <2> QED
    BY <2>1, <2>2
<1>5. stage \in {"run", "connections"}
  BY <1>1, <1>2 DEF IInv, StageInv, TypeOK
<1> HIDE DEF ls
<1>6. \A j \in Loops :
        /\ ls[j].phase = loop[j].phase /\ ls[j].quit = loop[j].quit
        /\ ls[j].pending = loop[j].pending /\ ls[j].active \subseteq loop[j].active
        /\ ls[j].phase # "functors" => ls[j].functors = <<>>
        /\ QueuedIn(ls, j) \subseteq Queued(j) /\ Ordered(ls[j])
        /\ \A g \in Queued(j) \ QueuedIn(ls, j) : g = <<"removeConnectionInLoop", c>>
  BY <1>2, <1>3 DEF IInv, QueueInv, LoopInv
<1>7. connections_ \ {c} \subseteq connections_' /\ connections_' \subseteq connections_
  BY <1>2
<1> QED
  BY <1>1, <1>2, <1>3, <1>4, <1>5, <1>6, <1>7, RemovalStep

LEMMA DestroyConnectionStep ==
  ASSUME IInv, NEW c \in Conns, DestroyConnection(c)
  PROVE  IInv'
<1> USE DEF constVars, dyingVars, netVars
<1>1. /\ TypeOK /\ QueueInv /\ conn[c] \in ConnType /\ conn \in [Conns -> ConnType]
      /\ numThreads_ \in 0..MaxThreads /\ 0 \in Loops /\ conn[c].loop \in Loops
      /\ loop \in [Loops -> LoopType]
  BY DEF IInv, TypeOK, ConnType
<1>2. /\ stage = "connections" /\ c \in connections_ /\ connections_' = connections_ \ {c}
      /\ UNCHANGED <<constVars, next_, dyingVars, netVars, left>>
  BY DEF DestroyConnection
<1>3. conn[c].state # "none"
  BY <1>2 DEF IInv, ConnInv
<1>4. CASE conn[c].loop # Base
  <2>1. loop' = Queue(loop, conn[c].loop, <<"connectDestroyed", c>>) /\ conn' = conn
    BY <1>4 DEF DestroyConnection
  <2>2. \A j \in Loops :
          /\ loop[j].phase # "functors" => loop[j].functors = <<>>
          /\ QueuedIn(loop, j) = Queued(j) /\ Ordered(loop[j])
    BY DEF IInv, QueueInv, LoopInv, QueuedIn, Queued
  <2>3. numThreads_ # 0
    <3>1. conn[c].loop \in 0..numThreads_
      BY DEF IInv, ConnInv
    <3> QED
      BY <1>1, <1>4, <3>1
  <2> QED
    BY <1>1, <1>2, <1>3, <2>1, <2>2, <2>3, RemovalStep DEF LoopsType
<1>5. CASE conn[c].loop = Base
  <2>1. conn' = [conn EXCEPT ![c] = Destroyed(conn[c])] /\ loop' = loop
    BY <1>5 DEF DestroyConnection
  <2>2. /\ conn' \in [Conns -> ConnType] /\ \A d \in Conns : d # c => conn'[d] = conn[d]
        /\ conn'[c].loop = conn[c].loop /\ conn'[c].state # "none" /\ conn'[c].channel = "kNew"
    BY <1>1, <1>3, <2>1, ConnMethods
  <2>3. \A l \in Loops : Queued(l)' = Queued(l) /\ \A f \in Queued(l) : f[2] \in Conns
    BY <1>1, <2>1, QueuedAreFunctors DEF Queued
  <2>4. \A d \in Conns : conn'[d].loop = conn[d].loop /\ conn[d].loop \in Loops
          /\ (conn[d].state # "none" => conn'[d].state # "none")
    BY <1>1, <2>2 DEF ConnType
  <2>5. TypeOK'
    BY <1>1, <1>2, <2>1, <2>2 DEF TypeOK
  <2>6. QueueInv'
    BY <1>1, <1>2, <2>1, <2>3, <2>4 DEF QueueInv
  <2>7. LoopInv' /\ ActiveInv'
    <3>1. LoopInv'
      BY <1>2, <2>1 DEF IInv, LoopInv
    <3> QED
      BY <1>2, <2>1, <2>4, <3>1 DEF IInv, ActiveInv
  <2>8. StageInv' /\ WatchInv'
    BY <1>2, <2>1 DEF IInv, StageInv, WatchInv
  <2>9. BacklogInv'
    <3>1. \A i \in 1..Len(backlog) : backlog[i] \in Conns
      BY <1>1 DEF TypeOK
    <3> QED
      BY <1>2, <1>3, <2>2, <3>1 DEF IInv, BacklogInv
  <2>10. ConnInv'
    <3>1. <<"connectEstablished", c>> \notin Queued(Base)
      <4>1. <<"connectEstablished", c>>[1] = "connectEstablished"
        OBVIOUS
      <4> QED
        BY <1>1, <4>1 DEF QueueInv
    <3>2. ASSUME NEW d \in Conns, d # c, Kept(d) PROVE Kept(d)'
      BY <1>1, <1>2, <2>1, <2>3, <2>4, <3>2 DEF Kept
    <3> QED
      BY <1>2, <1>5, <2>2, <2>3, <2>4, <3>1, <3>2 DEF IInv, ConnInv
  <2> QED
    BY <2>5, <2>6, <2>7, <2>8, <2>9, <2>10 DEF IInv
<1> QED
  BY <1>4, <1>5

\* The first peer of the queue leaves it; the others go on waiting.
LEMMA BacklogShrinks ==
  ASSUME IInv, backlog # <<>>
  PROVE  LET c == Head(backlog)
         IN  /\ c \in Conns /\ conn[c].state = "none"
             /\ Tail(backlog) \in Seq(Conns)
             /\ \A i, j \in 1..Len(Tail(backlog)) : Tail(backlog)[i] = Tail(backlog)[j] => i = j
             /\ \A i \in 1..Len(Tail(backlog)) :
                  /\ Tail(backlog)[i] \in Conns \ {c}
                  /\ conn[Tail(backlog)[i]].state = "none"
<1>1. /\ backlog \in Seq(Conns) /\ Len(backlog) \in Nat \ {0}
      /\ Head(backlog) = backlog[1] /\ Tail(backlog) \in Seq(Conns)
      /\ Len(Tail(backlog)) = Len(backlog) - 1
      /\ \A i \in 1..Len(Tail(backlog)) : Tail(backlog)[i] = backlog[i + 1]
  BY HeadTailProperties, EmptySeq DEF IInv, TypeOK
<1>2. \A i \in 1..Len(backlog) : backlog[i] \in Conns /\ conn[backlog[i]].state = "none"
  BY <1>1 DEF IInv, BacklogInv
<1>3. 1 \in 1..Len(backlog) /\ \A i \in 1..Len(Tail(backlog)) : i + 1 \in 1..Len(backlog) /\ i + 1 # 1
  BY <1>1
<1>4. \A i, j \in 1..Len(backlog) : backlog[i] = backlog[j] => i = j
  BY DEF IInv, BacklogInv
<1>5. \A i, j \in 1..Len(Tail(backlog)) : Tail(backlog)[i] = Tail(backlog)[j] => i = j
  <2> SUFFICES ASSUME NEW i \in 1..Len(Tail(backlog)), NEW j \in 1..Len(Tail(backlog)),
                      Tail(backlog)[i] = Tail(backlog)[j]
               PROVE  i = j
    OBVIOUS
  <2>1. i + 1 = j + 1
    BY <1>1, <1>3, <1>4
  <2> QED
    BY <2>1
<1>6. \A i \in 1..Len(Tail(backlog)) :
        /\ Tail(backlog)[i] \in Conns \ {Head(backlog)}
        /\ conn[Tail(backlog)[i]].state = "none"
  BY <1>1, <1>2, <1>3, <1>4
<1> QED
  BY <1>1, <1>2, <1>3, <1>5, <1>6

LEMMA AcceptStep ==
  ASSUME IInv, Accept
  PROVE  IInv'
<1>1. backlog # <<>>
  BY DEF Accept, Dispatch, In, IInv, ActiveInv
<1>2. PICK c \in Conns : c = Head(backlog)
  BY <1>1, BacklogShrinks
<1> DEFINE new == [NewConn EXCEPT !.state = "kConnecting", !.loop = NextLoop]
           ls == Handled(Base, Acceptor)
           f == <<"connectEstablished", c>>
<1> USE DEF constVars, dyingVars
<1>3. /\ TypeOK /\ QueueInv /\ LoopInv /\ StageInv /\ ConnInv /\ 0 \in Loops
      /\ numThreads_ \in 0..MaxThreads /\ conn \in [Conns -> ConnType]
  BY DEF IInv, TypeOK
<1>4. loop[Base].phase = "dispatch" /\ stage # "new" /\ Acceptor \in loop[Base].active
  BY DEF Accept, Dispatch, In
<1>5. backlog # <<>> /\ stage = "run"
  BY <1>3, <1>4 DEF IInv, ActiveInv, StageInv, TypeOK
<1>6. /\ backlog' = Tail(backlog)
      /\ next_' = (IF next_ < numThreads_ THEN next_ + 1 ELSE 1)
      /\ connections_' = connections_ \cup {c}
      /\ left' = [left EXCEPT ![c] = idleTimeout_]
      /\ conn' = [conn EXCEPT ![c] = IF NextLoop = Base THEN Established(new) ELSE new]
      /\ loop' = IF NextLoop = Base THEN ls ELSE Queue(ls, NextLoop, f)
      /\ UNCHANGED <<constVars, dyingVars, listening, peer>>
  BY <1>2 DEF Accept, NewConnection, AcceptAs, Updated
<1>7. /\ conn[c].state = "none" /\ backlog' \in Seq(Conns)
      /\ \A i, j \in 1..Len(backlog') : backlog'[i] = backlog'[j] => i = j
      /\ \A i \in 1..Len(backlog') : backlog'[i] \in Conns \ {c} /\ conn[backlog'[i]].state = "none"
  BY <1>2, <1>5, <1>6, BacklogShrinks
<1>8. /\ NextLoop \in 0..numThreads_ /\ NextLoop \in Loops
      /\ numThreads_ = 0 <=> NextLoop = Base
  BY <1>3 DEF NextLoop, TypeOK
<1>9. /\ new \in ConnType /\ new.loop = NextLoop /\ new.state = "kConnecting"
      /\ new.channel = "kNew"
  BY <1>8 DEF NewConn, ConnType
<1>10. f \in Functors /\ f[1] = "connectEstablished" /\ f[2] = c
  BY <1>7 DEF Functors
<1>11. /\ ls \in LoopsType
      /\ \A k \in Loops :
           /\ ls[k].phase = loop[k].phase /\ ls[k].quit = loop[k].quit
           /\ ls[k].active = IF k = Base THEN loop[k].active \ {Acceptor} ELSE loop[k].active
           /\ ls[k].functors = loop[k].functors /\ ls[k].pending = loop[k].pending
           /\ QueuedIn(ls, k) = Queued(k)
           /\ Ordered(loop[k]) => Ordered(ls[k])
  <2> DEFINE x == Acceptor
  <2> HIDE DEF x
  <2>1. /\ Handled(0, x) \in LoopsType
        /\ \A k \in Loops :
           /\ Handled(0, x)[k].phase = loop[k].phase /\ Handled(0, x)[k].quit = loop[k].quit
           /\ Handled(0, x)[k].active = IF k = 0 THEN loop[k].active \ {x} ELSE loop[k].active
           /\ Handled(0, x)[k].functors = loop[k].functors
           /\ Handled(0, x)[k].pending = loop[k].pending
           /\ QueuedIn(Handled(0, x), k) = Queued(k)
           /\ Ordered(loop[k]) => Ordered(Handled(0, x)[k])
    BY <1>3, HandledLeavesQueues
  <2>2. ls = Handled(0, x)
    BY DEF x
  <2> HIDE DEF ls
  <2> QED
    BY <2>1, <2>2 DEF x
<1> HIDE DEF new, ls, f
<1>12. /\ conn' \in [Conns -> ConnType] /\ \A d \in Conns : d # c => conn'[d] = conn[d]
       /\ conn'[c].loop = NextLoop /\ conn'[c].state # "none"
       /\ NextLoop # Base => conn'[c].channel = "kNew"
       /\ \A d \in Conns : conn[d].state # "none" => conn'[d] = conn[d]
  BY <1>3, <1>6, <1>7, <1>9, ConnMethods
<1>13. \A l \in Loops : \A g \in Queued(l) : g[2] # c /\ conn'[g[2]] = conn[g[2]]
  <2>1. \A l \in Loops : \A g \in Queued(l) : g[2] \in Conns /\ conn[g[2]].state # "none"
    BY <1>3, QueuedAreFunctors DEF QueueInv
  <2> QED
    BY <1>7, <1>12, <2>1
<1>14. /\ loop' \in LoopsType
       /\ \A k \in Loops :
            /\ loop'[k].phase = loop[k].phase /\ loop'[k].quit = loop[k].quit
            /\ loop'[k].active = IF k = Base THEN loop[k].active \ {Acceptor} ELSE loop[k].active
            /\ loop'[k].functors = loop[k].functors
            /\ (k = NextLoop /\ k # Base) \/ loop'[k].pending = loop[k].pending
            /\ Queued(k)' = Queued(k) \cup (IF k = NextLoop /\ k # Base THEN {f} ELSE {})
            /\ Ordered(loop'[k])
  <2>1. \A k \in Loops : Ordered(ls[k])
    BY <1>3, <1>11 DEF QueueInv
  <2>2. CASE NextLoop = Base
    <3>1. loop' = ls
      BY <1>6, <2>2
    <3>2. \A k \in Loops : Queued(k)' = QueuedIn(ls, k)
      BY <3>1 DEF Queued, QueuedIn
    <3> QED
      BY <1>11, <2>1, <2>2, <3>1, <3>2
  <2>3. CASE NextLoop # Base
    <3>1. loop' = Queue(ls, NextLoop, f)
      BY <1>6, <2>3
    <3>2. \A k \in Loops : Queued(k)' = QueuedIn(Queue(ls, NextLoop, f), k)
      BY <3>1 DEF Queued, QueuedIn
    <3>3. \A d \in Conns : f = <<"connectEstablished", d>>
                            => <<"connectDestroyed", d>> \notin QueuedIn(ls, NextLoop)
      <4> SUFFICES ASSUME NEW d \in Conns, d = c,
                          <<"connectDestroyed", d>> \in QueuedIn(ls, NextLoop)
                   PROVE  FALSE
        BY DEF f
      <4>1. <<"connectDestroyed", d>>[2] = d
        OBVIOUS
      <4> QED
        BY <1>8, <1>11, <1>13, <4>1, ZenonT(40)
    <3>4. /\ Queue(ls, NextLoop, f) \in LoopsType
          /\ \A k \in Loops :
               /\ k # NextLoop => Queue(ls, NextLoop, f)[k] = ls[k]
               /\ Queue(ls, NextLoop, f)[k].phase = ls[k].phase
               /\ Queue(ls, NextLoop, f)[k].active = ls[k].active
               /\ Queue(ls, NextLoop, f)[k].quit = ls[k].quit
               /\ Queue(ls, NextLoop, f)[k].functors = ls[k].functors
               /\ QueuedIn(Queue(ls, NextLoop, f), k)
                     = QueuedIn(ls, k) \cup (IF k = NextLoop THEN {f} ELSE {})
          /\ Ordered(Queue(ls, NextLoop, f)[NextLoop])
      <4> DEFINE n == NextLoop
      <4>1. n \in Loops /\ ls \in LoopsType /\ Ordered(ls[n])
        BY <1>8, <1>11, <2>1
      <4> HIDE DEF n
      <4>2. \A d \in Conns : f = <<"connectEstablished", d>>
                              => <<"connectDestroyed", d>> \notin QueuedIn(ls, n)
        BY <3>3 DEF n
      <4>3. /\ Queue(ls, n, f) \in LoopsType
            /\ \A k \in Loops :
                 /\ k # n => Queue(ls, n, f)[k] = ls[k]
                 /\ Queue(ls, n, f)[k].phase = ls[k].phase
                 /\ Queue(ls, n, f)[k].active = ls[k].active
                 /\ Queue(ls, n, f)[k].quit = ls[k].quit
                 /\ Queue(ls, n, f)[k].functors = ls[k].functors
                 /\ QueuedIn(Queue(ls, n, f), k) = QueuedIn(ls, k) \cup (IF k = n THEN {f} ELSE {})
        BY <1>10, <4>1, QueueAppends
      <4>4. Ordered(Queue(ls, n, f)[n])
        BY <1>10, <4>1, <4>2, QueueAppends
      <4> QED
        BY <4>3, <4>4 DEF n
    <3>5. \A k \in Loops : Ordered(loop'[k])
      BY <2>1, <3>1, <3>4
    <3> QED
      BY <1>11, <2>3, <3>1, <3>2, <3>4, <3>5
  <2> QED
    BY <2>2, <2>3
<1>15. TypeOK'
  <2>1. left' \in [Conns -> 0..idleTimeout_]
    <3>1. left \in [Conns -> 0..idleTimeout_] /\ idleTimeout_ \in 0..idleTimeout_
      BY <1>3 DEF TypeOK
    <3> QED
      BY <1>6, <3>1
  <2>3. next_' \in 1..(IF numThreads_ = 0 THEN 1 ELSE numThreads_)
    <3>1. next_ \in 1..(IF numThreads_ = 0 THEN 1 ELSE numThreads_)
      BY <1>3 DEF TypeOK
    <3>2. next_' = IF next_ < numThreads_ THEN next_ + 1 ELSE 1
      BY <1>6
    <3> QED
      BY <1>3, <3>1, <3>2
  <2>2. connections_' \subseteq Conns
    BY <1>3, <1>6, <1>7 DEF TypeOK
  <2> QED
    BY <1>3, <1>6, <1>7, <1>12, <1>14, <2>1, <2>2, <2>3 DEF TypeOK, LoopsType
<1>16. QueueInv'
  <2> SUFFICES ASSUME NEW l \in Loops, NEW g \in Queued(l)'
               PROVE  /\ conn'[g[2]].state # "none"
                      /\ IF g[1] = "removeConnectionInLoop" THEN l = Base /\ numThreads_ > 0
                         ELSE l = conn'[g[2]].loop
                      /\ g[1] = "connectEstablished" => l # Base
    BY <1>6, <1>14 DEF QueueInv
  <2>1. CASE g \in Queued(l)
    BY <1>3, <1>13, <2>1 DEF QueueInv
  <2>2. CASE g \notin Queued(l)
    <3>1. g = f /\ l = NextLoop /\ l # Base
      BY <1>14, <2>2
    <3> QED
      BY <1>10, <1>12, <3>1
  <2> QED
    BY <2>1, <2>2
<1>17. LoopInv' /\ ActiveInv'
  <2>0. \A l \in Loops : l # 0 => ~loop[l].quit /\ loop[l].phase # "ended"
    BY <1>3, <1>5 DEF LoopInv
  <2>1. LoopInv'
    BY <1>3, <1>6, <1>14, <2>0, ZenonT(40) DEF LoopInv
  <2>2. \A l \in Loops : Acceptor \notin loop'[l].active
    BY <1>14 DEF IInv, ActiveInv
  <2> QED
    BY <1>12, <1>14, <2>1, <2>2, ZenonT(60) DEF IInv, ActiveInv
<1>18. StageInv'
  BY <1>3, <1>5, <1>6 DEF StageInv
<1>19. BacklogInv'
  BY <1>7, <1>12 DEF BacklogInv
<1>20. ConnInv'
  <2>1. ASSUME NEW d \in Conns, d # c
        PROVE  /\ conn'[d] = conn[d] /\ conn[d].loop \in Loops
               /\ <<"connectEstablished", d>> \in Queued(conn[d].loop)'
                    => <<"connectEstablished", d>> \in Queued(conn[d].loop)
               /\ Kept(d) => Kept(d)'
    <3>1. conn'[d] = conn[d] /\ conn[d].loop \in Loops
      BY <1>3, <1>12, <2>1 DEF ConnType
    <3>2. f # <<"connectEstablished", d>>
      BY <2>1 DEF f
    <3>3. \A k \in Loops : Queued(k)' \subseteq Queued(k) \cup {f} /\ Queued(k) \subseteq Queued(k)'
      BY <1>14
    <3>4. Kept(d) => Kept(d)'
      BY <1>3, <1>6, <1>14, <3>1, <3>3 DEF Kept
    <3> QED
      BY <3>1, <3>2, <3>3, <3>4
  <2>2. Kept(c)'
    BY <1>6 DEF Kept
  <2>3. conn'[c].loop \in 0..numThreads_ /\ numThreads_' = numThreads_
    BY <1>6, <1>8, <1>12
  <2> QED
    BY <1>3, <1>6, <1>12, <2>1, <2>2, <2>3 DEF ConnInv
<1>21. WatchInv'
  <2>1. \A d \in Conns : left'[d] = IF d = c THEN idleTimeout_ ELSE left[d]
    BY <1>3, <1>6 DEF TypeOK
  <2> QED
    BY <1>6, <1>12, <2>1 DEF IInv, WatchInv
<1> QED
  BY <1>15, <1>16, <1>17, <1>18, <1>19, <1>20, <1>21 DEF IInv

\* The wheel shuts connections down, while the io threads' loops go on.
LEMMA ShutStep ==
  ASSUME IInv, NEW expired \in SUBSET Conns, NEW base \in LoopType, ShutDown(expired, base),
         base.pending = loop[Base].pending, base.functors = loop[Base].functors,
         base.active = loop[Base].active, base.quit = loop[Base].quit,
         base.phase # "functors" => base.functors = <<>>,
         base.phase = "ended" => base.quit,
         loop[Base].phase = "ended" => base.phase = "ended", Ordered(base),
         stage \in {"run", "connections"}, stage' \in {"run", "connections", "threadPool_"},
         stage' # "run" => base.phase = "ended", stage' = "threadPool_" => connections_ = {},
         left' \in [Conns -> 0..idleTimeout_],
         stage' = "run" => stage = "run"
           /\ \A c \in Conns : left[c] > 0 => left'[c] > 0 \/ c \in expired,
         UNCHANGED <<serverVars, at, joining, lateUse, netVars>>
  PROVE  IInv'
<1> USE DEF serverVars, constVars, netVars
<1>1. /\ TypeOK /\ QueueInv /\ LoopInv /\ StageInv /\ ConnInv /\ ActiveInv
      /\ numThreads_ \in 0..MaxThreads /\ 0 \in Loops
  BY DEF IInv, TypeOK
<1>2. /\ conn' \in [Conns -> ConnType] /\ loop' \in [Loops -> LoopType]
      /\ \A c \in Conns :
           /\ conn'[c].loop = conn[c].loop /\ conn'[c].channel = conn[c].channel
           /\ conn'[c].state = "none" <=> conn[c].state = "none"
           /\ conn'[c].state = "kConnected"
                => conn[c].state = "kConnected" /\ ~(c \in expired /\ Owned(c))
      /\ loop'[0] = base
      /\ \A l \in Loops \ {0} :
           /\ loop'[l].phase = loop[l].phase /\ loop'[l].active = loop[l].active
           /\ loop'[l].quit = loop[l].quit /\ loop'[l].functors = loop[l].functors
           /\ Ordered(loop[l]) => Ordered(loop'[l])
           /\ Queued(l) \subseteq Queued(l)'
           /\ \A f \in Queued(l)' \ Queued(l) :
                /\ f[1] = "shutdownInLoop" /\ f[2] \in Conns
                /\ conn[f[2]].loop = l /\ conn[f[2]].state = "kConnected"
  BY <1>1, ShutDownQueues DEF LoopsType
<1>3. \A c \in Conns : conn[c].loop \in Loops
  BY <1>1 DEF TypeOK, ConnType
<1>4. Queued(0)' = Queued(0)
  BY <1>2 DEF Queued
<1>5. \A l \in Loops :
        /\ loop'[l].active = loop[l].active /\ loop'[l].quit = loop[l].quit
        /\ loop'[l].functors = loop[l].functors
        /\ Ordered(loop'[l]) /\ Queued(l) \subseteq Queued(l)'
        /\ loop[l].phase = "ended" => loop'[l].phase = "ended"
  BY <1>1, <1>2, <1>4 DEF QueueInv
<1>6. TypeOK'
  BY <1>1, <1>2 DEF TypeOK
<1>7. QueueInv'
  <2> SUFFICES ASSUME NEW l \in Loops, NEW f \in Queued(l)'
               PROVE  /\ conn'[f[2]].state # "none"
                      /\ IF f[1] = "removeConnectionInLoop" THEN l = Base /\ numThreads_ > 0
                         ELSE l = conn'[f[2]].loop
                      /\ f[1] = "connectEstablished" => l # Base
    BY <1>5 DEF QueueInv
  <2>1. CASE f \in Queued(l)
    <3>1. f[2] \in Conns
      BY <1>1, <2>1, QueuedAreFunctors
    <3> QED
      BY <1>1, <1>2, <2>1, <3>1, SMTT(40) DEF QueueInv
  <2>2. CASE f \notin Queued(l)
    <3>1. l # 0 /\ f \in Queued(l)' \ Queued(l)
      BY <1>4, <2>2
    <3>2. /\ f[1] = "shutdownInLoop" /\ f[2] \in Conns
          /\ conn[f[2]].loop = l /\ conn[f[2]].state = "kConnected"
      BY <1>2, <3>1
    <3> QED
      BY <1>2, <3>2
  <2> QED
    BY <2>1, <2>2
<1>8. LoopInv' /\ ActiveInv'
  <2>1. \A l \in Loops : l # 0 => ~loop[l].quit /\ loop[l].phase # "ended"
    BY <1>1 DEF LoopInv
  <2>2. ASSUME NEW l \in Loops
        PROVE  /\ loop'[l].phase # "functors" => loop'[l].functors = <<>>
               /\ loop'[l].phase = "ended" => loop'[l].quit
               /\ l # Base => ~loop'[l].quit /\ loop'[l].phase # "ended"
    <3>1. CASE l = 0
      BY <1>2, <3>1
    <3>2. CASE l # 0
      <4>1. /\ loop'[l].phase = loop[l].phase /\ loop'[l].quit = loop[l].quit
            /\ loop'[l].functors = loop[l].functors
        BY <1>2, <3>2
      <4>2. ~loop[l].quit /\ loop[l].phase # "ended"
        BY <2>1, <3>2
      <4>3. loop[l].phase # "functors" => loop[l].functors = <<>>
        BY <1>1 DEF LoopInv
      <4> QED
        BY <4>1, <4>2, <4>3
    <3> QED
      BY <3>1, <3>2
  <2>3. LoopInv'
    BY <2>2 DEF LoopInv
  <2>4. ActiveInv'
    BY <1>1, <1>2, <1>5 DEF ActiveInv
  <2> QED
    BY <2>3, <2>4
<1>9. StageInv'
  BY <1>1, <1>2 DEF StageInv
<1>10. BacklogInv'
  <2>1. \A i \in 1..Len(backlog) : backlog[i] \in Conns
    BY <1>1 DEF TypeOK
  <2> QED
    BY <1>2, <2>1 DEF IInv, BacklogInv
<1>11. ConnInv'
  <2>1. ASSUME NEW c \in Conns
        PROVE  /\ Kept(c) => Kept(c)'
               /\ (<<"connectEstablished", c>> \in Queued(conn[c].loop))'
                    => <<"connectEstablished", c>> \in Queued(conn[c].loop)
    <3>1. conn'[c].loop = conn[c].loop /\ conn[c].loop \in Loops
      BY <1>2, <1>3
    <3>2. Kept(c) => Kept(c)'
      BY <1>1, <1>4, <1>5, <3>1 DEF Kept
    <3>3. ASSUME NEW l \in Loops, NEW f \in Queued(l)', f[1] # "shutdownInLoop"
          PROVE  f \in Queued(l)
      <4>1. CASE l = 0
        BY <1>4, <4>1
      <4>2. CASE l # 0
        BY <1>2, <3>3, <4>2
      <4> QED
        BY <4>1, <4>2
    <3>4. <<"connectEstablished", c>>[1] # "shutdownInLoop"
      OBVIOUS
    <3>5. PICK l \in Loops : l = conn[c].loop
      BY <3>1
    <3>6. <<"connectEstablished", c>> \in Queued(l)' => <<"connectEstablished", c>> \in Queued(l)
      BY <3>3, <3>4
    <3>7. conn[c].loop' = l
      BY <3>1, <3>5
    <3>8. (<<"connectEstablished", c>> \in Queued(conn[c].loop))'
            <=> <<"connectEstablished", c>> \in Queued(l)'
      BY <3>7
    <3> QED
      BY <3>2, <3>5, <3>6, <3>8
  <2>2. ASSUME NEW c \in Conns
        PROVE  /\ conn'[c].loop \in 0..numThreads_'
               /\ conn'[c].state = "none" => conn'[c].channel = "kNew" /\ c \notin connections_'
    <3>1. /\ conn[c].loop \in 0..numThreads_
          /\ conn[c].state = "none" => conn[c].channel = "kNew" /\ c \notin connections_
      BY <1>1 DEF ConnInv
    <3>2. /\ conn'[c].loop = conn[c].loop /\ conn'[c].channel = conn[c].channel
          /\ conn'[c].state = "none" <=> conn[c].state = "none"
      BY <1>2
    <3>3. numThreads_' = numThreads_ /\ connections_' = connections_
      OBVIOUS
    <3> QED
      BY <3>1, <3>2, <3>3
  <2>3. ASSUME NEW c \in Conns,
               conn'[c].channel # "kNew" \/ (<<"connectEstablished", c>> \in Queued(conn[c].loop))'
        PROVE  Kept(c)'
    BY <1>1, <1>2, <2>1, <2>3 DEF ConnInv
  <2> QED
    BY <2>2, <2>3 DEF ConnInv
<1>12. WatchInv'
  BY <1>1, <1>2 DEF IInv, WatchInv, Owned
<1> QED
  BY <1>6, <1>7, <1>8, <1>9, <1>10, <1>11, <1>12 DEF IInv

LEMMA TickStep ==
  ASSUME IInv, Tick
  PROVE  IInv'
<1> DEFINE base == AfterPass(Base)
           expired == {c \in Conns : left[c] = 1}
<1>1. /\ TypeOK /\ LoopInv /\ QueueInv /\ StageInv /\ 0 \in Loops
      /\ left \in [Conns -> 0..idleTimeout_]
  BY DEF IInv, TypeOK
<1>2. /\ loop[Base].phase = "functors" /\ loop[Base].functors = <<>> /\ stage # "new"
      /\ left' = [c \in Conns |-> IF left[c] > 0 THEN left[c] - 1 ELSE 0]
      /\ ShutDown(expired, base) /\ UNCHANGED <<serverVars, dyingVars, netVars>>
  BY DEF Tick, PassDone, In
<1>3. /\ base \in LoopType /\ base.pending = loop[Base].pending
      /\ base.functors = loop[Base].functors /\ base.active = loop[Base].active
      /\ base.quit = loop[Base].quit /\ (base.phase = "ended" => base.quit)
      /\ Ordered(base)
  <2>1. Ordered(loop[0])
    BY <1>1 DEF QueueInv
  <2> QED
    BY <1>1, <2>1, PassLeavesQueue
<1>4. stage = "run"
  BY <1>1, <1>2 DEF StageInv, TypeOK
<1>5. left' \in [Conns -> 0..idleTimeout_]
      /\ \A c \in Conns : left[c] > 0 => left'[c] > 0 \/ c \in expired
  BY <1>1, <1>2
<1>6. expired \in SUBSET Conns
  OBVIOUS
<1> HIDE DEF base, expired
<1>7. /\ base.phase # "functors" => base.functors = <<>>
      /\ loop[Base].phase = "ended" => base.phase = "ended"
      /\ stage' = "run" /\ UNCHANGED <<serverVars, at, joining, lateUse, netVars>>
  BY <1>2, <1>3, <1>4 DEF dyingVars
<1> QED
  BY <1>2, <1>3, <1>4, <1>5, <1>6, <1>7, ShutStep

LEMMA DestroyWheelStep ==
  ASSUME IInv, DestroyWheel
  PROVE  IInv'
<1> DEFINE base == loop[Base]
           expired == {c \in Conns : left[c] > 0}
<1>1. /\ TypeOK /\ LoopInv /\ QueueInv /\ StageInv /\ 0 \in Loops
      /\ base \in LoopType /\ Ordered(base) /\ expired \in SUBSET Conns
      /\ base.phase # "functors" => base.functors = <<>>
      /\ base.phase = "ended" => base.quit
  BY DEF IInv, TypeOK, QueueInv, LoopInv
<1>2. /\ stage = "connections" /\ connections_ = {} /\ stage' = "threadPool_"
      /\ left' = [c \in Conns |-> 0]
      /\ ShutDown(expired, base) /\ UNCHANGED <<serverVars, at, joining, lateUse, netVars>>
  BY DEF DestroyWheel
<1>3. base.phase = "ended"
  BY <1>1, <1>2 DEF StageInv
<1>4. left' \in [Conns -> 0..idleTimeout_]
  BY <1>2
<1> HIDE DEF expired
<1> QED
  BY <1>1, <1>2, <1>3, <1>4, ShutStep

-----------------------------------------------------------------------------

LEMMA InvariantStep == IInv /\ [Next]_vars => IInv'
<1> SUFFICES ASSUME IInv, [Next]_vars PROVE IInv'
  OBVIOUS
<1>1. ASSUME NEW l \in Loops, l = Base \/ l \in IoLoops, Step(l) PROVE IInv'
  <2>1. CASE EnterLoop(l) \/ PollReturns(l)
    BY <2>1, EnterStep, PollStep
  <2>2. CASE TakeFunctors(l)
    BY <2>2, TakeStep
  <2>3. CASE PassEnds(l)
    BY <2>3, PassEndsStep
  <2>4. ASSUME NEW c \in Conns, HandleMessage(l, c) PROVE IInv'
    BY <2>4, MessageStep
  <2>5. ASSUME NEW c \in Conns, HandleClose(l, c) PROVE IInv'
    BY <1>1, <2>5, CloseStep
  <2>6. ASSUME NEW c \in Conns, ConnectDestroyed(l, c) PROVE IInv'
    BY <2>6, FunctorSteps
  <2> QED
    BY <1>1, <2>1, <2>2, <2>3, <2>4, <2>5, <2>6 DEF Step
<1>2. CASE BaseStep
  <2>1. 0 \in Loops
    OBVIOUS
  <2> QED
    BY <1>1, <1>2, <2>1, AcceptStep, AcceptFailsStep, TickStep, RemoveStep DEF BaseStep
<1>3. CASE Destructor
  BY <1>3, StageSteps, QuitSteps, DestroyWheelStep, DestroyConnectionStep DEF Destructor
<1>4. ASSUME NEW l \in IoLoops, IoStep(l) PROVE IInv'
  <2>1. l \in Loops
    BY DEF IInv, TypeOK
  <2> QED
    BY <1>1, <1>4, <2>1, FunctorSteps DEF IoStep
<1>5. CASE Start \/ UserQuits
  BY <1>5, StageSteps, QuitSteps
<1>6. ASSUME NEW c \in Conns, PeerConnects(c) \/ PeerSends(c) \/ PeerCloses(c) PROVE IInv'
  BY <1>6, PeerSteps
<1>7. CASE UNCHANGED vars
  <2>1. UNCHANGED <<serverVars, dyingVars, netVars, left, conn, loop>>
    BY <1>7 DEF vars
  <2>2. QueueInv' /\ ConnInv'
    BY <2>1, QuietStep DEF serverVars, constVars
  <2> QED
    BY <2>1, <2>2 DEF IInv, TypeOK, LoopInv, ActiveInv, StageInv, BacklogInv, WatchInv,
       serverVars, constVars, dyingVars, netVars
<1> QED
  BY <1>2, <1>3, <1>4, <1>5, <1>6, <1>7 DEF Next

THEOREM Invariant == Spec => []IInv
BY InitiallyTrue, InvariantStep, PTL DEF Spec

\* Every variable of the server keeps its range.
THEOREM TypeCorrect == Spec => []TypeOK
BY Invariant, PTL DEF IInv

\* A connection whose channel a poller still holds is owned: by the map, or by
\* a functor on its way to connectDestroyed (TcpServer.cc:147-168).
THEOREM NoChannelIsFreed == Spec => []PollersForgetFreed
<1>1. IInv => PollersForgetFreed
  <2> SUFFICES ASSUME IInv, NEW c \in Conns, conn[c].channel # "kNew",
                      loop[conn[c].loop].phase # "ended"
               PROVE  Owned(c)
    BY DEF PollersForgetFreed
  <2>1. conn[c].loop \in Loops /\ 0 \in Loops
    BY DEF IInv, TypeOK, ConnType
  <2>2. \/ c \in connections_
        \/ <<"removeConnectionInLoop", c>> \in Queued(0)
        \/ <<"connectDestroyed", c>> \in Queued(conn[c].loop)
    BY DEF IInv, ConnInv, Kept
  <2>3. /\ <<"removeConnectionInLoop", c>>[1] # "shutdownInLoop"
        /\ <<"removeConnectionInLoop", c>>[2] = c
        /\ <<"connectDestroyed", c>>[1] # "shutdownInLoop" /\ <<"connectDestroyed", c>>[2] = c
    OBVIOUS
  <2> QED
    BY <2>1, <2>2, <2>3 DEF Owned
<1> QED
  BY <1>1, Invariant, PTL

\* Without io threads no established connection is ever outside the wheel.
THEOREM BaseLoopWatches == Spec => []WatchedOnBaseLoop
<1>1. IInv => WatchedOnBaseLoop
  BY DEF IInv, WatchInv, WatchedOnBaseLoop, EstablishedIsWatched
<1> QED
  BY <1>1, Invariant, PTL

\* When the destructor has returned every io thread has been joined, and only
\* the base loop's queue can hold a connection.
THEOREM NothingIsLeft == Spec => []NothingLeftBehind
<1>1. IInv => NothingLeftBehind
  <2> SUFFICES ASSUME IInv, stage = "gone"
               PROVE  /\ \A l \in IoLoops : loop[l].phase = "ended"
                      /\ \A c \in Conns : Owned(c) => \E f \in Queued(Base) : f[2] = c
    BY DEF NothingLeftBehind
  <2>1. numThreads_ \in 0..MaxThreads /\ at = numThreads_ + 1 /\ connections_ = {}
    BY DEF IInv, TypeOK, StageInv
  <2>2. \A l \in IoLoops : loop[l].phase = "ended"
    BY <2>1 DEF IInv, StageInv
  <2>3. ASSUME NEW l \in Loops, l # Base, NEW f \in Queued(l) PROVE FALSE
    <3>1. f[1] # "removeConnectionInLoop" /\ l = conn[f[2]].loop /\ f[2] \in Conns
      BY <2>3, QueuedAreFunctors DEF IInv, QueueInv
    <3>2. l \in 0..numThreads_
      BY <3>1 DEF IInv, ConnInv
    <3>3. loop[l].phase = "ended"
      BY <2>1, <2>2, <2>3, <3>2
    <3>4. loop[l].pending = <<>> /\ loop[l].functors = <<>>
      BY <2>3, <3>3 DEF IInv, LoopInv
    <3>5. Range(<<>>) = {}
      BY DEF Range
    <3> QED
      BY <2>3, <3>4, <3>5 DEF Queued
  <2>4. ASSUME NEW c \in Conns, Owned(c) PROVE \E f \in Queued(Base) : f[2] = c
    <3>1. PICK l \in Loops : \E f \in Queued(l) : f[2] = c
      BY <2>1, <2>4 DEF Owned
    <3> QED
      BY <2>3, <3>1
  <2> QED
    BY <2>2, <2>4
<1> QED
  BY <1>1, Invariant, PTL

=============================================================================
