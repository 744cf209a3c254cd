-------------------------- MODULE TimerWheelProofs --------------------------
(***************************************************************************)
(* The wheel is a countdown for each Entry, shuts silent connections down  *)
(* in time and spares the active ones, for every timeout and any number of *)
(* connections and of changes of context_.                                 *)
(***************************************************************************)
EXTENDS TimerWheel, SequenceTheorems, TLAPS

n == idleSeconds_
Bucket == SUBSET Entries
Shifted(w) == [i \in 1..n |-> IF i < n THEN w[i + 1] ELSE {}]

\* Every Entry has a last bucket, or none.
Counted == \A e \in Entries : \E k \in 0..n : IsLast(e, k, wheel_)

\* Entries are those of connections that were made, and the ticks since a
\* connection's last activity have moved its Entries forward.
EntriesInTime ==
  \A i \in 1..n : \A e \in wheel_[i] : e[1] \in opened /\ i + ticks[e[1]] <= n

Watched == \A c \in alive \ shut : \E i \in 1..n : \E e \in wheel_[i] : e[1] = c

\* As long as context_ is the wheel's own, a connection has one Entry, and this
\* is as far from the front as the silent seconds leave it.
OneEntry ==
  contextSets = 0 =>
    \A c \in alive : \A i \in 1..n : \A e \in wheel_[i] :
      e[1] = c =>
        /\ context_[c] = e[2]
        /\ \E k \in 1..n : e \in wheel_[k] /\ k + idle[c] + (IF ticked THEN 1 ELSE 0) >= n

StampedNow == \A c \in stamped : idle[c] = 0

IInv == TypeOK /\ Counted /\ EntriesInTime /\ Watched /\ OneEntry /\ StampedNow

-----------------------------------------------------------------------------
(* The buckets as a sequence.                                              *)

LEMMA NIsPositive == n \in Nat /\ n > 0
BY IdleSecondsAssumption DEF n

\* Advancing the wheel moves every bucket one place to the front.
LEMMA AdvancedWheel ==
  ASSUME NEW w \in [1..n -> Bucket]
  PROVE  /\ Append(Tail(w), {}) = Shifted(w)
         /\ Shifted(w) \in [1..n -> Bucket]
         /\ Head(w) = w[1]
         /\ \A e : Held(e, Tail(w)) <=> \E i \in 2..n : e \in w[i]
<1> USE NIsPositive
<1>1. w \in Seq(Bucket) /\ Len(w) = n
  OBVIOUS
<1>2. Len(Tail(w)) = n - 1 /\ \A i \in 1..(n - 1) : Tail(w)[i] = w[i + 1]
  BY <1>1
<1>3. Tail(w) \in Seq(Bucket) /\ DOMAIN Tail(w) = 1..(n - 1)
  BY <1>1, <1>2
<1>4. Append(Tail(w), {}) \in Seq(Bucket) /\ Len(Append(Tail(w), {})) = n
  BY <1>2, <1>3 DEF Bucket
<1>5. \A i \in 1..n : Append(Tail(w), {})[i] = IF i < n THEN w[i + 1] ELSE {}
  BY <1>2, <1>3
<1>6. Append(Tail(w), {}) = Shifted(w)
  <2>1. Append(Tail(w), {}) \in [1..n -> Bucket]
    BY <1>4, LenProperties
  <2> QED BY <2>1, <1>5, Zenon DEF Shifted
<1>7. Shifted(w) \in [1..n -> Bucket]
  BY DEF Shifted, Bucket
<1>8. ASSUME NEW e
      PROVE  Held(e, Tail(w)) <=> \E i \in 2..n : e \in w[i]
  <2>1. ASSUME Held(e, Tail(w)) PROVE \E i \in 2..n : e \in w[i]
    <3>1. PICK i \in 1..(n - 1) : e \in Tail(w)[i]
      BY <2>1, <1>3 DEF Held
    <3>2. i + 1 \in 2..n /\ e \in w[i + 1]
      BY <3>1, <1>2
    <3> QED BY <3>2
  <2>2. ASSUME NEW i \in 2..n, e \in w[i] PROVE Held(e, Tail(w))
    <3>1. i - 1 \in 1..(n - 1) /\ Tail(w)[i - 1] = w[i]
      BY <1>2
    <3> QED BY <3>1, <2>2, <1>3 DEF Held
  <2> QED BY <2>1, <2>2
<1>9. Head(w) = w[1]
  BY <1>1
<1> QED BY <1>6, <1>7, <1>8, <1>9

\* An Entry has one last bucket.
LEMMA LastIsUnique ==
  ASSUME NEW w, NEW e \in Entries, NEW k \in 0..n, IsLast(e, k, w)
  PROVE  (CHOOSE j \in 0..n : IsLast(e, j, w)) = k
<1>1. ASSUME NEW j \in 0..n, IsLast(e, j, w) PROVE j = k
  <2>1. CASE j < k
    BY <2>1, <1>1, NIsPositive DEF IsLast, n
  <2>2. CASE k < j
    BY <2>2, <1>1, NIsPositive DEF IsLast, n
  <2> QED BY <2>1, <2>2, NIsPositive
<1> QED BY <1>1

\* e has been put into the last bucket for connection c.
Inserted(c, e) ==
  /\ e \in Entries /\ e[1] = c /\ e[2] \in EntryNumbers
  /\ wheel_' \in [1..n -> Bucket]
  /\ \A i \in 1..n : wheel_'[i] = IF i = n THEN wheel_[n] \cup {e} ELSE wheel_[i]
  /\ context_' = [context_ EXCEPT ![c] = e[2]]
  /\ stamped' = stamped \cup {c}
  /\ Held(<<c, context_[c]>>, wheel_) => e[2] = context_[c]

\* An update finds the Entry in the wheel and leaves it, or inserts one.
LEMMA UpdateCases ==
  ASSUME TypeOK, NEW c \in Conns, UpdateConnection(c)
  PROVE  \/ /\ UNCHANGED <<wheel_, context_, stamped>>
            /\ c \in stamped
            /\ \E i \in 1..n : <<c, context_[c]>> \in wheel_[i]
         \/ \E e \in Entries : Inserted(c, e)
<1>1. wheel_ \in [1..n -> Bucket] /\ Len(wheel_) = n /\ DOMAIN wheel_ = 1..n
  BY NIsPositive DEF TypeOK, n, Bucket
<1>2. ASSUME NEW e, e \in {c} \X EntryNumbers, InsertAt(n, e),
             Held(<<c, context_[c]>>, wheel_) => e[2] = context_[c]
      PROVE  Inserted(c, e)
  <2>1. e \in Entries /\ e[1] = c /\ e[2] \in EntryNumbers
    BY <1>2 DEF Entries
  <2>2. wheel_' = [wheel_ EXCEPT ![n] = wheel_[n] \cup {e}]
    BY <1>2 DEF InsertAt
  <2>3. wheel_[n] \cup {e} \in Bucket /\ n \in 1..n
    BY <1>1, <2>1, NIsPositive DEF Bucket
  <2>4. wheel_' \in [1..n -> Bucket]
    BY <1>1, <2>2, <2>3
  <2>5. \A i \in 1..n : wheel_'[i] = IF i = n THEN wheel_[n] \cup {e} ELSE wheel_[i]
    BY <1>1, <2>2, <2>3
  <2> QED BY <1>2, <2>1, <2>4, <2>5 DEF InsertAt, Inserted
<1>3. CASE Held(<<c, context_[c]>>, wheel_)
  <2>1. \E i \in 1..n : <<c, context_[c]>> \in wheel_[i]
    BY <1>1, <1>3 DEF Held
  <2>2. <<c, context_[c]>> \in {c} \X EntryNumbers
    BY <1>1, <2>1 DEF Bucket, Entries
  <2>3. CASE c \in stamped
    BY <1>1, <1>3, <2>1, <2>3 DEF UpdateConnection, UpdateAt
  <2>4. CASE c \notin stamped
    <3>1. InsertAt(n, <<c, context_[c]>>)
      BY <1>1, <1>3, <2>4 DEF UpdateConnection, UpdateAt
    <3>2. Inserted(c, <<c, context_[c]>>)
      BY <3>1, <2>2, <1>2
    <3> QED BY <3>2 DEF Inserted
  <2> QED BY <2>3, <2>4
<1>4. CASE ~Held(<<c, context_[c]>>, wheel_)
  <2>1. PICK e \in NewEntries(c) : InsertAt(n, e)
    BY <1>1, <1>4 DEF UpdateConnection, UpdateAt
  <2>2. e \in {c} \X EntryNumbers
    BY DEF NewEntries
  <2>3. Inserted(c, e)
    BY <1>2, <1>4, <2>1, <2>2
  <2> QED BY <2>3 DEF Inserted
<1> QED BY <1>3, <1>4

-----------------------------------------------------------------------------
(* The invariant holds at first.                                           *)

LEMMA InitiallyInvariant == Init => IInv
<1> SUFFICES ASSUME Init PROVE IInv
  OBVIOUS
<1>1. wheel_ = [i \in 1..n |-> {}]
  BY DEF Init, InitWith, n
<1>2. TypeOK
  <2>1. wheel_ \in [1..idleSeconds_ -> SUBSET Entries]
    BY <1>1 DEF n
  <2>2. 0 \in 0..idleSeconds_ /\ 0 \in 0..ContextSets
    BY IdleSecondsAssumption, ContextSetsAssumption
  <2> QED BY <2>1, <2>2 DEF Init, InitWith, TypeOK
<1>3. Counted
  BY <1>1, NIsPositive DEF Counted, IsLast, n
<1>4. EntriesInTime /\ OneEntry
  BY <1>1 DEF EntriesInTime, OneEntry
<1>5. Watched /\ StampedNow
  BY DEF Watched, StampedNow, Init, InitWith
<1> QED BY <1>2, <1>3, <1>4, <1>5 DEF IInv

-----------------------------------------------------------------------------
(* Every step keeps it.                                                    *)

\* newConnection() and the message callback.
LEMMA ActivityKeepsInvariant ==
  ASSUME IInv, NEW c \in Conns, Active(c), c \in alive \/ c \notin opened,
         alive' = alive \cup {c}, opened' = opened \cup {c}
  PROVE  IInv'
<1>1. /\ idle' = [idle EXCEPT ![c] = 0] /\ ticks' = [ticks EXCEPT ![c] = 0]
      /\ UNCHANGED <<ticked, shut, contextSets>>
  BY DEF Active
<1>2. /\ wheel_ \in [1..n -> Bucket]
      /\ idle \in [Conns -> 0..n] /\ ticks \in [Conns -> 0..n]
      /\ context_ \in [Conns -> EntryNumbers \cup {0}]
      /\ ticked \in BOOLEAN /\ alive \subseteq opened /\ opened \subseteq Conns
  BY DEF IInv, TypeOK, n, Bucket
<1>3. /\ idle' \in [Conns -> 0..n] /\ ticks' \in [Conns -> 0..n]
      /\ idle'[c] = 0 /\ ticks'[c] = 0
      /\ \A d \in Conns \ {c} : idle'[d] = idle[d] /\ ticks'[d] = ticks[d]
  BY <1>1, <1>2, NIsPositive
<1>4. CASE /\ UNCHANGED <<wheel_, context_, stamped>>
           /\ c \in stamped
           /\ \E i \in 1..n : <<c, context_[c]>> \in wheel_[i]
  <2>1. c \in alive /\ idle[c] = 0
    BY <1>4 DEF IInv, EntriesInTime, StampedNow
  <2>2. alive' = alive /\ opened' = opened /\ idle' = idle
    BY <1>1, <1>2, <2>1
  <2>3. TypeOK'
    BY <1>1, <1>3, <1>4, <2>2 DEF IInv, TypeOK, n
  <2>4. Counted' /\ Watched' /\ StampedNow'
    BY <1>1, <1>4, <2>2 DEF IInv, Counted, Watched, StampedNow
  <2>5. EntriesInTime'
    BY <1>2, <1>3, <1>4, <2>2, NIsPositive DEF IInv, EntriesInTime, Bucket, Entries
  <2>6. OneEntry'
    BY <1>1, <1>4, <2>2 DEF IInv, OneEntry
  <2> QED BY <2>3, <2>4, <2>5, <2>6 DEF IInv
<1>5. ASSUME NEW e \in Entries, Inserted(c, e) PROVE IInv'
  <2>1. /\ e[1] = c /\ e[2] \in EntryNumbers
        /\ wheel_' \in [1..n -> Bucket]
        /\ \A i \in 1..n : wheel_'[i] = IF i = n THEN wheel_[n] \cup {e} ELSE wheel_[i]
        /\ context_' = [context_ EXCEPT ![c] = e[2]] /\ stamped' = stamped \cup {c}
    BY <1>5 DEF Inserted
  <2>2. TypeOK'
    <3>1. context_' \in [Conns -> EntryNumbers \cup {0}]
      BY <1>2, <2>1
    <3> QED BY <1>1, <1>3, <2>1, <3>1 DEF IInv, TypeOK, n, Bucket
  <2>3. Counted'
    <3> SUFFICES ASSUME NEW f \in Entries PROVE \E k \in 0..n : IsLast(f, k, wheel_')
      BY DEF Counted
    <3>1. CASE f = e
      BY <2>1, <3>1, NIsPositive DEF IsLast, n
    <3>2. CASE f # e
      <4>1. PICK k \in 0..n : IsLast(f, k, wheel_)
        BY DEF IInv, Counted
      <4>2. \A i \in 1..n : f \in wheel_'[i] <=> f \in wheel_[i]
        BY <2>1, <3>2
      <4> QED BY <4>1, <4>2 DEF IsLast, n
    <3> QED BY <3>1, <3>2
  <2>4. EntriesInTime'
    <3> SUFFICES ASSUME NEW i \in 1..n, NEW f \in wheel_'[i]
                 PROVE  f[1] \in opened' /\ i + ticks'[f[1]] <= n
      BY DEF EntriesInTime
    <3>1. CASE f[1] = c
      BY <1>3, <3>1, NIsPositive
    <3>2. CASE f[1] # c
      <4>1. f \in wheel_[i]
        BY <2>1, <3>2
      <4>2. f[1] \in opened /\ i + ticks[f[1]] <= n
        BY <4>1 DEF IInv, EntriesInTime
      <4> QED BY <1>2, <1>3, <3>2, <4>2
    <3> QED BY <3>1, <3>2
  <2>5. Watched'
    <3> SUFFICES ASSUME NEW d \in alive' \ shut' PROVE \E i \in 1..n : \E f \in wheel_'[i] : f[1] = d
      BY DEF Watched
    <3>1. CASE d = c
      BY <2>1, <3>1, NIsPositive
    <3>2. CASE d # c
      <4>1. PICK i \in 1..n : \E f \in wheel_[i] : f[1] = d
        BY <1>1, <3>2 DEF IInv, Watched
      <4> QED BY <2>1, <4>1
    <3> QED BY <3>1, <3>2
  <2>6. OneEntry'
    <3> SUFFICES ASSUME contextSets = 0, NEW d \in alive', NEW i \in 1..n,
                        NEW f \in wheel_'[i], f[1] = d
                 PROVE  /\ context_'[d] = f[2]
                        /\ \E k \in 1..n : f \in wheel_'[k]
                                /\ k + idle'[d] + (IF ticked' THEN 1 ELSE 0) >= n
      BY <1>1 DEF OneEntry
    <3>1. CASE d = c
      <4>1. f = e
        <5>1. CASE f \in wheel_[i]
          <6>1. c \in alive /\ context_[c] = f[2]
            BY <3>1, <5>1 DEF IInv, EntriesInTime, OneEntry
          <6>2. f = <<f[1], f[2]>> /\ e = <<e[1], e[2]>>
            BY <1>2, <5>1, SMTT(40) DEF Bucket, Entries
          <6>3. Held(<<c, context_[c]>>, wheel_)
            <7>1. f = <<c, context_[c]>>
              BY <3>1, <6>1, <6>2
            <7>2. i \in DOMAIN wheel_ /\ f \in wheel_[i]
              BY <1>2, <5>1
            <7> QED BY <7>1, <7>2 DEF Held
          <6> QED BY <1>5, <2>1, <3>1, <6>1, <6>2, <6>3 DEF Inserted
        <5>2. CASE f \notin wheel_[i]
          BY <2>1, <5>2
        <5> QED BY <5>1, <5>2
      <4>2. context_'[c] = e[2]
        BY <1>2, <2>1
      <4>3. n \in 1..n /\ e \in wheel_'[n] /\ n + idle'[c] + (IF ticked' THEN 1 ELSE 0) >= n
        BY <1>3, <2>1, NIsPositive
      <4> QED BY <3>1, <4>1, <4>2, <4>3
    <3>2. CASE d # c
      <4>1. \A k \in 1..n : f \in wheel_'[k] <=> f \in wheel_[k]
        BY <2>1, <3>2
      <4>2. d \in alive /\ d \in Conns
        BY <1>2, <3>2
      <4>3. /\ context_[d] = f[2]
            /\ \E k \in 1..n : f \in wheel_[k] /\ k + idle[d] + (IF ticked THEN 1 ELSE 0) >= n
        BY <4>1, <4>2 DEF IInv, OneEntry
      <4> QED BY <1>1, <1>2, <1>3, <2>1, <3>2, <4>1, <4>2, <4>3
    <3> QED BY <3>1, <3>2
  <2>7. StampedNow'
    BY <1>2, <1>3, <2>1 DEF IInv, StampedNow, TypeOK
  <2> QED BY <2>2, <2>3, <2>4, <2>5, <2>6, <2>7 DEF IInv
<1>6. UpdateConnection(c)
  BY DEF Active
<1> QED BY <1>4, <1>5, <1>6, UpdateCases DEF IInv

\* Advancing the wheel: what is left of the Entries, and whom they shut down.
LEMMA TickKeepsInvariant ==
  ASSUME IInv, OnTimerTick
  PROVE  IInv'
<1>1. /\ wheel_ \in [1..n -> Bucket]
      /\ idle \in [Conns -> 0..n] /\ ticks \in [Conns -> 0..n]
      /\ ticked \in BOOLEAN /\ alive \subseteq opened /\ opened \subseteq Conns
  BY DEF IInv, TypeOK, n, Bucket
<1>2. /\ ~ticked /\ ticked' = TRUE /\ ticks' = Older(ticks)
      /\ UNCHANGED <<context_, stamped, alive, opened, idle, contextSets>>
      /\ shut' = shut \cup {c \in alive : \E m \in EntryNumbers :
                              <<c, m>> \in {e \in Head(wheel_) : ~Held(e, Tail(wheel_))}}
  BY DEF OnTimerTick, Expire, ShutDownAll
<1>3. /\ wheel_' = Shifted(wheel_) /\ wheel_' \in [1..n -> Bucket]
      /\ Head(wheel_) = wheel_[1]
      /\ \A e : Held(e, Tail(wheel_)) <=> \E i \in 2..n : e \in wheel_[i]
  BY <1>1, AdvancedWheel DEF OnTimerTick
<1>4. \A i \in 1..n : wheel_'[i] = IF i < n THEN wheel_[i + 1] ELSE {}
  BY <1>3 DEF Shifted
<1>5. /\ ticks' \in [Conns -> 0..n]
      /\ \A c \in Conns : ticks'[c] = IF ticks[c] < n THEN ticks[c] + 1 ELSE ticks[c]
  BY <1>1, <1>2, NIsPositive DEF Older, n
<1>6. TypeOK'
  <2>1. shut' \subseteq opened'
    BY <1>1, <1>2 DEF IInv, TypeOK
  <2> QED BY <1>2, <1>3, <1>5, <2>1 DEF IInv, TypeOK, n, Bucket
<1>7. Counted'
  <2> SUFFICES ASSUME NEW e \in Entries PROVE \E k \in 0..n : IsLast(e, k, wheel_')
    BY DEF Counted
  <2>1. PICK k \in 0..n : IsLast(e, k, wheel_)
    BY DEF IInv, Counted
  <2>2. CASE k <= 1
    <3>1. \A j \in 1..n : e \notin wheel_'[j]
      BY <1>4, <2>1, <2>2, NIsPositive DEF IsLast, n
    <3> QED BY <3>1, NIsPositive DEF IsLast, n
  <2>3. CASE k > 1
    <3>1. k - 1 \in 1..n /\ e \in wheel_'[k - 1]
      BY <1>4, <2>1, <2>3, NIsPositive DEF IsLast
    <3>2. \A j \in 1..n : j > k - 1 => e \notin wheel_'[j]
      BY <1>4, <2>1, <2>3, NIsPositive DEF IsLast, n
    <3> QED BY <3>1, <3>2 DEF IsLast, n
  <2> QED BY <2>1, <2>2, <2>3, NIsPositive
<1>8. EntriesInTime'
  <2> SUFFICES ASSUME NEW i \in 1..n, NEW e \in wheel_'[i]
               PROVE  e[1] \in opened /\ i + ticks'[e[1]] <= n
    BY <1>2 DEF EntriesInTime
  <2>1. i < n /\ i + 1 \in 1..n /\ e \in wheel_[i + 1]
    BY <1>4, NIsPositive
  <2>2. e[1] \in opened /\ i + 1 + ticks[e[1]] <= n
    BY <2>1 DEF IInv, EntriesInTime
  <2> QED BY <1>1, <1>5, <2>1, <2>2, NIsPositive
<1>9. Watched'
  <2> SUFFICES ASSUME NEW c \in alive \ shut' PROVE \E i \in 1..n : \E e \in wheel_'[i] : e[1] = c
    BY <1>2 DEF Watched
  <2>1. c \notin shut
    BY <1>2
  <2>2. PICK i \in 1..n : \E e \in wheel_[i] : e[1] = c
    BY <2>1 DEF IInv, Watched
  <2>3. PICK e \in wheel_[i] : e[1] = c
    BY <2>2
  <2>4. \E j \in 2..n : e \in wheel_[j]
    <3>1. CASE i \in 2..n
      BY <2>3, <3>1
    <3>2. CASE i = 1
      <4>1. e = <<c, e[2]>> /\ e[2] \in EntryNumbers
        BY <1>1, <2>3 DEF Bucket, Entries
      <4>2. Held(e, Tail(wheel_))
        BY <1>2, <1>3, <2>3, <3>2, <4>1
      <4> QED BY <1>3, <4>2
    <3> QED BY <3>1, <3>2, NIsPositive
  <2>5. PICK j \in 2..n : e \in wheel_[j]
    BY <2>4
  <2>6. j - 1 \in 1..n /\ wheel_'[j - 1] = wheel_[j]
    BY <1>4, NIsPositive
  <2> QED BY <2>3, <2>5, <2>6
<1>10. OneEntry'
  <2> SUFFICES ASSUME contextSets = 0, NEW c \in alive, NEW i \in 1..n, NEW e \in wheel_'[i], e[1] = c
               PROVE  context_[c] = e[2] /\ \E k \in 1..n : e \in wheel_'[k] /\ k + idle[c] + 1 >= n
    BY <1>2 DEF OneEntry
  <2>1. i + 1 \in 2..n /\ e \in wheel_[i + 1]
    BY <1>4, NIsPositive
  <2>2. context_[c] = e[2] /\ \E k \in 1..n : e \in wheel_[k] /\ k + idle[c] + 0 >= n
    BY <1>2, <2>1 DEF IInv, OneEntry
  <2>3. PICK k \in 1..n : e \in wheel_[k] /\ k + idle[c] + 0 >= n
    BY <2>2
  <2>4. idle[c] \in 0..n
    BY <1>1
  <2>5. CASE k > 1
    <3>1. k - 1 \in 1..n /\ e \in wheel_'[k - 1]
      BY <1>4, <2>3, <2>5, NIsPositive
    <3>2. (k - 1) + idle[c] + 1 >= n
      BY <2>3, <2>4, NIsPositive
    <3> QED BY <2>2, <3>1, <3>2
  <2>6. CASE k = 1
    BY <2>2, <2>3, <2>4, <2>6, NIsPositive
  <2> QED BY <2>5, <2>6, NIsPositive
<1>11. StampedNow'
  BY <1>2 DEF IInv, StampedNow
<1> QED BY <1>6, <1>7, <1>8, <1>9, <1>10, <1>11 DEF IInv

LEMMA NextKeepsInvariant == IInv /\ [Next]_vars => IInv'
<1> SUFFICES ASSUME IInv, [Next]_vars PROVE IInv'
  OBVIOUS
<1>1. /\ idle \in [Conns -> 0..n] /\ context_ \in [Conns -> EntryNumbers \cup {0}]
      /\ alive \subseteq opened /\ opened \subseteq Conns
  BY DEF IInv, TypeOK, n
<1>2. ASSUME NEW c \in Conns, NewConnection(c) PROVE IInv'
  BY <1>2, ActivityKeepsInvariant DEF NewConnection
<1>3. ASSUME NEW c \in Conns, Message(c) PROVE IInv'
  <2>1. alive' = alive \cup {c} /\ opened' = opened \cup {c}
    BY <1>1, <1>3 DEF Message
  <2> QED BY <1>3, <2>1, ActivityKeepsInvariant DEF Message
<1>4. ASSUME NEW c \in Conns, Free(c) PROVE IInv'
  <2>1. /\ alive' = alive \ {c} /\ context_' = [context_ EXCEPT ![c] = 0]
        /\ UNCHANGED <<wheel_, stamped, ticked, opened, shut, idle, ticks, contextSets>>
    BY <1>4 DEF Free, histVars
  <2>2. TypeOK'
    BY <2>1 DEF IInv, TypeOK
  <2>3. Counted' /\ EntriesInTime' /\ Watched' /\ StampedNow'
    BY <2>1 DEF IInv, Counted, EntriesInTime, Watched, StampedNow
  <2>4. OneEntry'
    BY <1>1, <2>1 DEF IInv, OneEntry
  <2> QED BY <2>2, <2>3, <2>4 DEF IInv
<1>5. ASSUME NEW c \in Conns, UserSetsContext(c) PROVE IInv'
  <2>1. /\ contextSets' = contextSets + 1 /\ context_' = [context_ EXCEPT ![c] = 0]
        /\ UNCHANGED <<wheel_, stamped, ticked, alive, opened, shut, idle, ticks>>
    BY <1>5 DEF UserSetsContext, histVars
  <2>2. TypeOK'
    <3>1. contextSets < ContextSets /\ contextSets \in 0..ContextSets
      BY <1>5 DEF UserSetsContext, IInv, TypeOK
    <3>2. contextSets' \in 0..ContextSets
      BY <2>1, <3>1, ContextSetsAssumption
    <3> QED BY <2>1, <3>2 DEF IInv, TypeOK
  <2>3. Counted' /\ EntriesInTime' /\ Watched' /\ StampedNow'
    BY <2>1 DEF IInv, Counted, EntriesInTime, Watched, StampedNow
  <2>4. contextSets' # 0
    <3>1. contextSets \in 0..ContextSets
      BY DEF IInv, TypeOK
    <3> QED BY <2>1, <3>1, ContextSetsAssumption
  <2>5. OneEntry'
    BY <2>4 DEF OneEntry
  <2> QED BY <2>2, <2>3, <2>5 DEF IInv
<1>6. ASSUME SecondPasses PROVE IInv'
  <2>1. /\ ticked' = FALSE /\ stamped' = {} /\ idle' = Older(idle)
        /\ UNCHANGED <<wheel_, context_, alive, opened, shut, ticks, contextSets>>
    BY <1>6 DEF SecondPasses
  <2>2. /\ idle' \in [Conns -> 0..n]
        /\ \A c \in Conns : idle'[c] = IF idle[c] < n THEN idle[c] + 1 ELSE idle[c]
    BY <1>1, <2>1, NIsPositive DEF Older, n
  <2>3. TypeOK'
    BY <2>1, <2>2 DEF IInv, TypeOK, n
  <2>4. Counted' /\ EntriesInTime' /\ Watched' /\ StampedNow'
    BY <2>1 DEF IInv, Counted, EntriesInTime, Watched, StampedNow
  <2>5. OneEntry'
    <3> SUFFICES ASSUME contextSets = 0, NEW c \in alive, NEW i \in 1..n, NEW e \in wheel_[i], e[1] = c
                 PROVE  context_[c] = e[2] /\ \E k \in 1..n : e \in wheel_[k] /\ k + idle'[c] + 0 >= n
      BY <2>1 DEF OneEntry
    <3>1. PICK k \in 1..n : e \in wheel_[k] /\ k + idle[c] + (IF ticked THEN 1 ELSE 0) >= n
      BY DEF IInv, OneEntry
    <3>2. k + idle'[c] + 0 >= n
      BY <1>1, <2>2, <3>1, NIsPositive
    <3> QED BY <3>1, <3>2 DEF IInv, OneEntry
  <2> QED BY <2>3, <2>4, <2>5 DEF IInv
<1>7. CASE UNCHANGED vars
  BY <1>7 DEF vars, histVars, IInv, TypeOK, Counted, EntriesInTime, Watched, OneEntry, StampedNow
<1> QED BY <1>2, <1>3, <1>4, <1>5, <1>6, <1>7, TickKeepsInvariant DEF Next

THEOREM Invariant == Spec => []IInv
BY InitiallyInvariant, NextKeepsInvariant, PTL DEF Spec

-----------------------------------------------------------------------------
(* What follows from it.                                                   *)

\* TypeOK is an invariant: the wheel keeps its number of buckets.
THEOREM TypeCorrect == Spec => []TypeOK
<1>1. IInv => TypeOK
  BY DEF IInv
<1> QED BY <1>1, Invariant, PTL

\* ShutWithinTimeout: an open connection is in the wheel, and the ticks since
\* its last activity have moved it no further than the front.
THEOREM SilentAreShut == Spec => []ShutWithinTimeout
<1>1. IInv => ShutWithinTimeout
  <2> SUFFICES ASSUME IInv, NEW c \in alive \ shut PROVE ticks[c] < n
    BY DEF ShutWithinTimeout, n
  <2>1. PICK i \in 1..n : \E e \in wheel_[i] : e[1] = c
    BY DEF IInv, Watched
  <2>2. i + ticks[c] <= n /\ c \in Conns
    BY <2>1 DEF IInv, EntriesInTime, TypeOK
  <2>3. ticks[c] \in 0..n
    BY <2>2 DEF IInv, TypeOK, n
  <2> QED BY <2>2, <2>3, NIsPositive
<1> QED BY <1>1, Invariant, PTL

\* ActivityResetsTimeout: the Entry that expires is a connection's only one,
\* and it was put in the last bucket when the connection last spoke.
THEOREM ActiveAreSpared == Spec => ActivityResetsTimeout
<1>1. IInv /\ [Next]_vars =>
        [contextSets = 0 => \A c \in shut' \ shut : idle[c] >= idleSeconds_ - 1]_vars
  <2> SUFFICES ASSUME IInv, Next, contextSets = 0, NEW c \in shut' \ shut
               PROVE  idle[c] >= n - 1
    BY DEF n
  <2>1. OnTimerTick
    BY DEF Next, NewConnection, Message, Active, Free, UserSetsContext, SecondPasses, histVars
  <2>2. wheel_ \in [1..n -> Bucket] /\ idle \in [Conns -> 0..n] /\ alive \subseteq Conns
    BY DEF IInv, TypeOK, n, Bucket
  <2>3. c \in alive /\ \E m \in EntryNumbers :
          <<c, m>> \in {e \in Head(wheel_) : ~Held(e, Tail(wheel_))}
    BY <2>1 DEF OnTimerTick, Expire, ShutDownAll
  <2>4. PICK m \in EntryNumbers : <<c, m>> \in Head(wheel_) /\ ~Held(<<c, m>>, Tail(wheel_))
    BY <2>3
  <2>5. <<c, m>> \in wheel_[1] /\ \A i \in 2..n : <<c, m>> \notin wheel_[i]
    BY <2>2, <2>4, AdvancedWheel
  <2>6. \E k \in 1..n : <<c, m>> \in wheel_[k] /\ k + idle[c] + (IF ticked THEN 1 ELSE 0) >= n
    BY <2>3, <2>5, NIsPositive DEF IInv, OneEntry
  <2>7. ~ticked /\ idle[c] \in 0..n
    BY <2>1, <2>2, <2>3 DEF OnTimerTick
  <2> QED BY <2>5, <2>6, <2>7, NIsPositive
<1> QED BY <1>1, Invariant, PTL DEF Spec, ActivityResetsTimeout

-----------------------------------------------------------------------------
(* The refinement.                                                         *)

\* The mapping gives every Entry its last bucket, before and after a step.
LEMMA TicksLeftIsLast ==
  ASSUME IInv, NEW e \in Entries, NEW k \in 0..n, IsLast(e, k, wheel_)
  PROVE  TicksLeft[e] = k
BY LastIsUnique DEF TicksLeft, n

LEMMA NewTicksLeftIsLast ==
  ASSUME NEW e \in Entries, NEW k \in 0..n, IsLast(e, k, wheel_')
  PROVE  TicksLeft'[e] = k
BY LastIsUnique DEF TicksLeft, n

LEMMA TicksLeftIsFunction ==
  /\ TicksLeft = [e \in Entries |-> TicksLeft[e]]
  /\ TicksLeft' = [e \in Entries |-> TicksLeft'[e]]
<1> DEFINE C(e) == CHOOSE k \in 0..idleSeconds_ : IsLast(e, k, wheel_)
           D(e) == CHOOSE k \in 0..idleSeconds_ : IsLast(e, k, wheel_')
<1>1. TicksLeft = [e \in Entries |-> C(e)] /\ TicksLeft' = [e \in Entries |-> D(e)]
  BY DEF TicksLeft
<1> HIDE DEF C, D
<1> QED BY <1>1

LEMMA InitMaps == Init => Countdowns!Init
<1> SUFFICES ASSUME Init PROVE Countdowns!Init
  OBVIOUS
<1>1. wheel_ = [i \in 1..n |-> {}] /\ alive = {} /\ shut = {}
  BY DEF Init, InitWith, n
<1>2. ASSUME NEW e \in Entries PROVE TicksLeft[e] = 0
  <2>1. IsLast(e, 0, wheel_) /\ 0 \in 0..n
    BY <1>1, NIsPositive DEF IsLast, n
  <2> QED BY <2>1, InitiallyInvariant, TicksLeftIsLast
<1>3. TicksLeft = [e \in Entries |-> 0]
  BY <1>2 DEF TicksLeft
<1> QED BY <1>1, <1>3 DEF Countdowns!Init

\* An update is a Reset of the Entry it inserts, or changes no countdown.
LEMMA ActivityMaps ==
  ASSUME IInv, NEW c \in Conns, Active(c), alive' = alive \cup {c}, c \in alive \/ c \notin opened
  PROVE  Countdowns!Next \/ UNCHANGED <<TicksLeft, alive, shut>>
<1>1. shut' = shut /\ UpdateConnection(c)
  BY DEF Active, histVars
<1>2. CASE /\ UNCHANGED <<wheel_, context_, stamped>>
           /\ \E i \in 1..n : <<c, context_[c]>> \in wheel_[i]
  <2>1. TicksLeft' = TicksLeft
    BY <1>2 DEF TicksLeft
  <2>2. c \in alive
    BY <1>2 DEF IInv, EntriesInTime
  <2> QED BY <1>1, <2>1, <2>2
<1>3. ASSUME NEW e \in Entries, Inserted(c, e) PROVE Countdowns!Reset(e)
  <2>1. TicksLeft'[e] = n
    <3>1. IsLast(e, n, wheel_') /\ n \in 0..n
      BY <1>3, NIsPositive DEF Inserted, IsLast, n
    <3> QED BY <3>1, NewTicksLeftIsLast
  <2>2. ASSUME NEW f \in Entries \ {e} PROVE TicksLeft'[f] = TicksLeft[f]
    <3>1. PICK k \in 0..n : IsLast(f, k, wheel_)
      BY DEF IInv, Counted
    <3>2. IsLast(f, k, wheel_')
      <4>1. \A i \in 1..n : f \in wheel_'[i] <=> f \in wheel_[i]
        BY <1>3, <2>2 DEF Inserted
      <4> QED BY <3>1, <4>1 DEF IsLast, n
    <3> QED BY <3>1, <3>2, TicksLeftIsLast, NewTicksLeftIsLast
  <2>3. TicksLeft' = [TicksLeft EXCEPT ![e] = n]
    BY <2>1, <2>2, TicksLeftIsFunction
  <2>4. alive' = alive \cup {e[1]}
    BY <1>3 DEF Inserted
  <2> QED BY <1>1, <2>3, <2>4 DEF Countdowns!Reset, n
<1>4. CASE \E e \in Entries : Inserted(c, e)
  BY <1>3, <1>4 DEF Countdowns!Next
<1> QED BY <1>1, <1>2, <1>4, UpdateCases DEF IInv

\* A tick of the wheel is a Tick of all countdowns; those at one run out.
LEMMA TickMaps ==
  ASSUME IInv, OnTimerTick
  PROVE  Countdowns!Tick
<1>1. wheel_ \in [1..n -> Bucket] /\ alive \subseteq Conns
  BY DEF IInv, TypeOK, n, Bucket
<1>2. /\ alive' = alive
      /\ shut' = shut \cup {c \in alive : \E m \in EntryNumbers :
                              <<c, m>> \in {e \in Head(wheel_) : ~Held(e, Tail(wheel_))}}
  BY DEF OnTimerTick, Expire, ShutDownAll
<1>3. /\ wheel_' = Shifted(wheel_)
      /\ Head(wheel_) = wheel_[1]
      /\ \A e : Held(e, Tail(wheel_)) <=> \E i \in 2..n : e \in wheel_[i]
  BY <1>1, AdvancedWheel DEF OnTimerTick
<1>4. \A i \in 1..n : wheel_'[i] = IF i < n THEN wheel_[i + 1] ELSE {}
  BY <1>3 DEF Shifted
<1>5. ASSUME NEW e \in Entries
      PROVE  /\ TicksLeft'[e] = IF TicksLeft[e] > 0 THEN TicksLeft[e] - 1 ELSE 0
             /\ TicksLeft[e] = 1 <=> e \in Head(wheel_) /\ ~Held(e, Tail(wheel_))
  <2>1. PICK k \in 0..n : IsLast(e, k, wheel_)
    BY DEF IInv, Counted
  <2>2. TicksLeft[e] = k
    BY <2>1, TicksLeftIsLast
  <2>3. k = 1 <=> e \in Head(wheel_) /\ ~Held(e, Tail(wheel_))
    <3>1. CASE k = 0
      BY <1>3, <2>1, <3>1, NIsPositive DEF IsLast, n
    <3>2. CASE k = 1
      BY <1>3, <2>1, <3>2, NIsPositive DEF IsLast, n
    <3>3. CASE k > 1
      BY <1>3, <2>1, <3>3, NIsPositive DEF IsLast, n
    <3> QED BY <2>1, <3>1, <3>2, <3>3, NIsPositive
  <2>4. CASE k = 0
    <3>1. IsLast(e, 0, wheel_') /\ 0 \in 0..n
      BY <1>4, <2>1, <2>4, NIsPositive DEF IsLast, n
    <3> QED BY <2>2, <2>3, <2>4, <3>1, NewTicksLeftIsLast
  <2>5. CASE k > 0
    <3>1. k - 1 \in 0..n /\ IsLast(e, k - 1, wheel_')
      BY <1>4, <2>1, <2>5, NIsPositive DEF IsLast, n
    <3> QED BY <2>2, <2>3, <2>5, <3>1, NewTicksLeftIsLast
  <2> QED BY <2>1, <2>4, <2>5, NIsPositive
<1>6. TicksLeft' = [e \in Entries |-> IF TicksLeft[e] > 0 THEN TicksLeft[e] - 1 ELSE 0]
  BY <1>5, TicksLeftIsFunction
<1>7. shut' = shut \cup {c \in alive : \E e \in Entries : e[1] = c /\ TicksLeft[e] = 1}
  <2>1. ASSUME NEW c \in alive
        PROVE (\E m \in EntryNumbers : <<c, m>> \in {e \in Head(wheel_) : ~Held(e, Tail(wheel_))})
                <=> \E e \in Entries : e[1] = c /\ TicksLeft[e] = 1
    <3>1. ASSUME NEW m \in EntryNumbers, <<c, m>> \in Head(wheel_), ~Held(<<c, m>>, Tail(wheel_))
          PROVE  \E e \in Entries : e[1] = c /\ TicksLeft[e] = 1
      <4>1. <<c, m>> \in Entries
        BY <1>1 DEF Entries
      <4> QED BY <1>5, <3>1, <4>1
    <3>2. ASSUME NEW e \in Entries, e[1] = c, TicksLeft[e] = 1
          PROVE  \E m \in EntryNumbers : <<c, m>> \in {f \in Head(wheel_) : ~Held(f, Tail(wheel_))}
      <4>1. e = <<c, e[2]>> /\ e[2] \in EntryNumbers
        BY <3>2 DEF Entries
      <4>2. e \in Head(wheel_) /\ ~Held(e, Tail(wheel_))
        BY <1>5, <3>2
      <4> QED BY <4>1, <4>2
    <3> QED BY <3>1, <3>2
  <2> QED BY <1>2, <2>1
<1> QED BY <1>2, <1>6, <1>7 DEF Countdowns!Tick

LEMMA NextMaps == IInv /\ [Next]_vars => Countdowns!Next \/ UNCHANGED <<TicksLeft, alive, shut>>
<1> SUFFICES ASSUME IInv, [Next]_vars
             PROVE  Countdowns!Next \/ UNCHANGED <<TicksLeft, alive, shut>>
  OBVIOUS
<1>1. ASSUME NEW c \in Conns, NewConnection(c) \/ Message(c)
      PROVE  Countdowns!Next \/ UNCHANGED <<TicksLeft, alive, shut>>
  BY <1>1, ActivityMaps DEF NewConnection, Message
<1>2. ASSUME NEW c \in Conns, Free(c) PROVE Countdowns!Next
  <2>1. TicksLeft' = TicksLeft
    BY <1>2 DEF Free, TicksLeft
  <2> QED BY <1>2, <2>1 DEF Free, histVars, Countdowns!Free, Countdowns!Next
<1>3. ASSUME NEW c \in Conns, UserSetsContext(c) PROVE UNCHANGED <<TicksLeft, alive, shut>>
  BY <1>3 DEF UserSetsContext, histVars, TicksLeft
<1>4. ASSUME SecondPasses PROVE UNCHANGED <<TicksLeft, alive, shut>>
  BY <1>4 DEF SecondPasses, TicksLeft
<1>5. CASE UNCHANGED vars
  BY <1>5 DEF vars, histVars, TicksLeft
<1>6. CASE OnTimerTick
  BY <1>6, TickMaps DEF Countdowns!Next
<1> QED BY <1>1, <1>2, <1>3, <1>4, <1>5, <1>6 DEF Next

\* ImplementsCountdown: for every timeout, any number of connections, and
\* whatever the user does to context_, the deque of sets of shared pointers
\* counts down every Entry from its last update.
THEOREM WheelIsCountdown == Spec => ImplementsCountdown
<1>1. IInv /\ [Next]_vars => [Countdowns!Next]_<<TicksLeft, alive, shut>>
  BY NextMaps
<1> QED BY <1>1, InitMaps, Invariant, PTL DEF Spec, ImplementsCountdown, Countdowns!Spec, Countdowns!vars

=============================================================================
