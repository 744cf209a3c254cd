------------------------ MODULE TcpConnectionProofs -------------------------
(***************************************************************************)
(* Theorems about TcpConnection, for every set of messages, size of a      *)
(* message, of the send buffer and of the peer's data, and whatever the    *)
(* peer, the wheel and the server do.  The first part, up to               *)
(* LateWritesWereQueued, holds with any number of worker threads.  The     *)
(* second is about a connection that only its two loops use, Workers = {}: *)
(* with workers what it says does not hold of the code.                    *)
(***************************************************************************)
EXTENDS TcpConnection, SequenceTheorems, TLAPS

Functors ==
  {<<"establish">>, <<"destroy">>, <<"shutdown">>, <<"complete">>, <<"highWater">>}
    \cup {<<"send", m>> : m \in Messages}

CallStates ==
  {<<"none">>, <<"idle">>, <<"gone">>, <<"store">>, <<"post">>}
    \cup {<<"send", m>> : m \in Messages}

UnitSet == Messages \X (1..MessageLen)

SockType == [rx : Nat, received : Nat, fin : BOOLEAN, rst : BOOLEAN, err : BOOLEAN,
             wrShut : BOOLEAN, taken : Nat]

\* The types the proofs use.
DataTypes ==
  /\ accepted \in Seq(UnitSet) /\ wire \in Seq(UnitSet) /\ outputBuffer_ \in Seq(UnitSet)
  /\ sock \in SockType
  /\ channel_ \in ChannelType
  /\ ioQueue \in Seq(Functors)
  /\ call \in [Threads -> CallStates]

ControlTypes ==
  /\ state_ \in {"kDisconnected", "kConnecting", "kConnected", "kDisconnecting"}
  /\ sock.rx \in 0..sock.received /\ sock.received \in 0..PeerData
  /\ io \in {"poll", "dispatch", "functors"}
  /\ revents \subseteq {"hup", "err", "in", "out"}
  /\ revents # {} => io = "dispatch"
  /\ inUser \in BOOLEAN /\ (inUser => io \in {"dispatch", "functors"})
  /\ pass \in 0..Len(ioQueue)
  /\ passRef \in BOOLEAN
  /\ baseQueue \in Seq({<<"remove">>}) /\ downs \in Nat

\* Units are missing only behind a write() that failed, and nothing is kept
\* after that: an output buffer that holds units keeps EPOLLOUT asked for.
StreamInv ==
  /\ \/ wire \o outputBuffer_ = accepted
     \/ WriteFails /\ outputBuffer_ = <<>> /\ IsPrefix(wire, accepted)
  /\ "out" \in channel_.events => outputBuffer_ # <<>>

-----------------------------------------------------------------------------
(* Sequences of units, and what a write() does with them.                  *)

LEMMA PrefixOfConcat ==
  ASSUME NEW S, NEW s \in Seq(S), NEW t \in Seq(S), NEW u \in Seq(S), IsPrefix(s, t)
  PROVE  IsPrefix(s, t \o u)
<1>1. /\ Len(s) \in Nat /\ Len(t) \in Nat /\ Len(u) \in Nat
      /\ Len(s) <= Len(t) /\ SubSeq(s, 1, Len(s)) = SubSeq(t, 1, Len(s))
      /\ Len(t \o u) = Len(t) + Len(u)
  BY LenProperties, ConcatProperties DEF IsPrefix
<1>2. SubSeq(t \o u, 1, Len(s)) = SubSeq(t, 1, Len(s))
  <2>1. CASE Len(s) = 0
    BY <2>1, SubSeqEmpty
  <2>2. CASE Len(s) # 0
    <3>1. 1 \in 1..Len(t) /\ Len(s) \in 1..Len(t)
      BY <1>1, <2>2
    <3> QED
      BY <3>1, SubSeqOfConcat1
  <2> QED
    BY <2>1, <2>2
<1> QED
  BY <1>1, <1>2 DEF IsPrefix

LEMMA PrefixOfItself ==
  ASSUME NEW S, NEW s \in Seq(S)
  PROVE  IsPrefix(s, s)
BY LenProperties DEF IsPrefix

\* What is taken from the front and what stays make up the whole.
LEMMA Split ==
  ASSUME NEW S, NEW s \in Seq(S), NEW n \in 0..Len(s)
  PROVE  /\ SubSeq(s, 1, n) \in Seq(S) /\ From(s, n) \in Seq(S)
         /\ SubSeq(s, 1, n) \o From(s, n) = s
         /\ Len(From(s, n)) = Len(s) - n
         /\ n = Len(s) => SubSeq(s, 1, n) = s /\ From(s, n) = <<>>
<1>1. Len(s) \in Nat
  BY LenProperties
<1>2. /\ \A i \in 1..n : s[i] \in S
      /\ \A i \in (n + 1)..Len(s) : s[i] \in S
  BY <1>1, ElementOfSeq
<1>3. SubSeq(s, 1, n) \in Seq(S)
  BY <1>1, <1>2, SubSeqProperties
<1>4. From(s, n) \in Seq(S) /\ Len(From(s, n)) = IF n + 1 <= Len(s) THEN Len(s) - (n + 1) + 1 ELSE 0
  BY <1>1, <1>2, SubSeqProperties DEF From
<1>5. SubSeq(s, 1, n) \o From(s, n) = SubSeq(s, 1, Len(s))
  <2>1. 1 \in 1..Len(s)+1 /\ n \in 1-1..Len(s) /\ Len(s) \in n..Len(s)
    BY <1>1
  <2> QED
    BY <2>1, ConcatAdjacentSubSeq DEF From
<1>6. SubSeq(s, 1, Len(s)) = s
  BY SubSeqFull
<1>7. n = Len(s) => From(s, n) = <<>>
  BY <1>1, SubSeqEmpty DEF From
<1>8. Len(From(s, n)) = Len(s) - n
  BY <1>1, <1>4
<1>9. n = Len(s) => SubSeq(s, 1, n) = s
  BY <1>6
<1> QED
  BY <1>3, <1>4, <1>5, <1>6, <1>7, <1>8, <1>9

LEMMA SplitBehind ==
  ASSUME NEW S, NEW w \in Seq(S), NEW s \in Seq(S), NEW n \in 0..Len(s)
  PROVE  (w \o SubSeq(s, 1, n)) \o From(s, n) = w \o s
<1> DEFINE taken == SubSeq(s, 1, n)
           rest == From(s, n)
<1>1. taken \in Seq(S) /\ rest \in Seq(S)
  BY Split
<1>2. taken \o rest = s
  BY Split
<1> HIDE DEF taken, rest
<1>3. (w \o taken) \o rest = w \o (taken \o rest)
  BY <1>1, ConcatAssociative, SMTT(40)
<1> QED
  BY <1>2, <1>3 DEF taken, rest

LEMMA UnitsType ==
  ASSUME NEW m \in Messages
  PROVE  Units(m) \in Seq(UnitSet) /\ Len(Units(m)) = MessageLen
<1>1. MessageLen \in Nat
  BY SizesAssumption
<1>2. Units(m) \in [1..MessageLen -> UnitSet]
  BY DEF Units, UnitSet
<1> QED
  BY <1>1, <1>2

\* A write() that fails takes nothing; one that does not takes no more than
\* there is.
LEMMA WriteTakes ==
  ASSUME DataTypes, NEW u \in Seq(UnitSet), NEW n \in Writable(u)
  PROVE  /\ n \in 0..Len(u)
         /\ WriteFails => n = 0
<1>1. Len(u) \in Nat /\ Len(wire) \in Nat /\ sock.taken \in Nat /\ SendRoom \in Nat
  BY LenProperties, SizesAssumption DEF DataTypes, SockType
<1>2. Room \in Int
  BY <1>1 DEF Room
<1> QED
  BY <1>1, <1>2 DEF Writable

-----------------------------------------------------------------------------
(* What a call does to the channel.                                        *)

LEMMA ChannelCalls ==
  ASSUME NEW ch \in ChannelType
  PROVE  /\ UpdateChannel(EnableReading(ch)) = [events |-> ch.events \cup {"in"}, index |-> "kAdded"]
         /\ UpdateChannel(EnableWriting(ch)) = [events |-> ch.events \cup {"out"}, index |-> "kAdded"]
         /\ UpdateChannel(DisableAll(ch)) =
              [events |-> {}, index |-> IF ch.index = "kAdded" THEN "kDeleted" ELSE "kAdded"]
         /\ UpdateChannel(DisableWriting(ch)) \in ChannelType
         /\ UpdateChannel(DisableWriting(ch)).events = ch.events \ {"out"}
         /\ RemoveChannel(ch) = [events |-> ch.events, index |-> "kNew"]
<1> USE DEF UpdateChannel, Operation, IsNoneEvent, ChannelType, Masks, KReadEvent, KWriteEvent
<1>1. /\ ch = [events |-> ch.events, index |-> ch.index]
      /\ ch.events \in SUBSET {"in", "out"} /\ ch.index \in {"kNew", "kAdded", "kDeleted"}
  OBVIOUS
<1>2. /\ EnableReading(ch) = [events |-> ch.events \cup {"in"}, index |-> ch.index]
      /\ EnableWriting(ch) = [events |-> ch.events \cup {"out"}, index |-> ch.index]
      /\ DisableWriting(ch) = [events |-> ch.events \ {"out"}, index |-> ch.index]
      /\ DisableAll(ch) = [events |-> {}, index |-> ch.index]
  BY <1>1 DEF EnableReading, EnableWriting, DisableWriting, DisableAll
<1>3. UpdateChannel(EnableReading(ch)) = [events |-> ch.events \cup {"in"}, index |-> "kAdded"]
  BY <1>1, <1>2
<1>4. UpdateChannel(EnableWriting(ch)) = [events |-> ch.events \cup {"out"}, index |-> "kAdded"]
  BY <1>1, <1>2
<1>5. UpdateChannel(DisableAll(ch)) =
        [events |-> {}, index |-> IF ch.index = "kAdded" THEN "kDeleted" ELSE "kAdded"]
  BY <1>1, <1>2
<1>6. /\ UpdateChannel(DisableWriting(ch)) \in ChannelType
      /\ UpdateChannel(DisableWriting(ch)).events = ch.events \ {"out"}
  BY <1>1, <1>2
<1>7. RemoveChannel(ch) = [events |-> ch.events, index |-> "kNew"]
  BY <1>1 DEF RemoveChannel
<1> QED
  BY <1>3, <1>4, <1>5, <1>6, <1>7

\* A channel changed by any call is a channel.
LEMMA ChannelStays ==
  ASSUME NEW ch \in ChannelType
  PROVE  /\ UpdateChannel(EnableReading(ch)) \in ChannelType
         /\ UpdateChannel(EnableWriting(ch)) \in ChannelType
         /\ UpdateChannel(DisableAll(ch)) \in ChannelType
         /\ UpdateChannel(DisableWriting(ch)) \in ChannelType
         /\ RemoveChannel(ch) \in ChannelType /\ RemoveChannel(ch).events = ch.events
BY ChannelCalls DEF ChannelType, Masks, KReadEvent, KWriteEvent

-----------------------------------------------------------------------------
(* What the handlers that write do, whatever they find.                    *)

\* The callbacks a handler may queue.
Posts == Seq({<<"complete">>, <<"highWater">>})

LEMMA OptionalPosts ==
  /\ Optional("complete") \in Posts /\ Optional("highWater") \in Posts /\ <<>> \in Posts
  /\ Posts \subseteq Seq(Functors)
<1>1. <<>> \in Posts /\ <<<<"complete">>>> \in Posts /\ <<<<"highWater">>>> \in Posts
  BY DEF Posts
<1>2. Posts \subseteq Seq(Functors)
  BY SeqMonotonic DEF Posts, Functors
<1> QED
  BY <1>1, <1>2 DEF Optional

LEMMA KeepEffect ==
  ASSUME DataTypes, NEW rest \in Seq(UnitSet), NEW queue \in Seq(Functors), Keep(rest, queue)
  PROVE  /\ outputBuffer_' = outputBuffer_ \o rest
         /\ outputBuffer_' \in Seq(UnitSet)
         /\ channel_' \in {channel_, UpdateChannel(EnableWriting(channel_))}
         /\ \E post \in Posts : ioQueue' = queue \o post
BY OptionalPosts, ConcatProperties DEF Keep, DataTypes

\* sendInLoop: nothing on a connection that is down; else the message is
\* accepted, and written, kept, or both.
LEMMA SendEffect ==
  ASSUME DataTypes, NEW m \in Messages, NEW queue \in Seq(Functors), SendInLoop(m, queue)
  PROVE  /\ accepted' \in Seq(UnitSet) /\ wire' \in Seq(UnitSet) /\ outputBuffer_' \in Seq(UnitSet)
         /\ \/ channel_' = channel_
            \/ state_ # "kDisconnected" /\ channel_' = UpdateChannel(EnableWriting(channel_))
         /\ sock' \in {sock, [sock EXCEPT !.err = FALSE]}
         /\ \E post \in Posts : ioQueue' = queue \o post
<1> DEFINE direct == ~IsWriting(channel_) /\ outputBuffer_ = <<>>
           u == Units(m)
<1> USE DEF DataTypes
<1>1. u \in Seq(UnitSet) /\ Len(u) = MessageLen /\ accepted \o u \in Seq(UnitSet)
  BY UnitsType, ConcatProperties
<1>2. queue \o <<>> = queue
  BY ConcatEmptySeq
<1> HIDE DEF u
<1>3. CASE state_ = "kDisconnected"
  BY <1>2, <1>3, OptionalPosts DEF SendInLoop, SendUnits
<1>4. CASE state_ # "kDisconnected" /\ ~direct
  <2>1. /\ accepted' = accepted \o u /\ Keep(u, queue) /\ UNCHANGED <<sock, wire>>
    BY <1>4 DEF SendInLoop, SendUnits, u
  <2> QED
    BY <1>1, <1>4, <2>1, KeepEffect
<1>5. CASE state_ # "kDisconnected" /\ direct
  <2>1. PICK n \in Writable(u) :
          /\ wire' = wire \o SubSeq(u, 1, n)
          /\ sock' = [sock EXCEPT !.err = FALSE]
          /\ IF n < MessageLen /\ ~WriteFails
             THEN Keep(From(u, n), queue)
             ELSE /\ ioQueue' = queue \o (IF n = MessageLen THEN Optional("complete") ELSE <<>>)
                  /\ UNCHANGED <<outputBuffer_, channel_>>
    BY <1>5 DEF SendInLoop, SendUnits, u
  <2>2. n \in 0..Len(u)
    BY <1>1, WriteTakes
  <2>3. SubSeq(u, 1, n) \in Seq(UnitSet) /\ From(u, n) \in Seq(UnitSet)
    BY <1>1, <2>2, Split
  <2>4. accepted' = accepted \o u
    BY <1>5 DEF SendInLoop, SendUnits, u
  <2>5. wire' \in Seq(UnitSet)
    BY <2>1, <2>3, ConcatProperties
  <2>6. CASE n < MessageLen /\ ~WriteFails
    BY <1>1, <1>5, <2>1, <2>3, <2>4, <2>5, <2>6, KeepEffect
  <2>7. CASE ~(n < MessageLen /\ ~WriteFails)
    BY <1>1, <1>5, <2>1, <2>4, <2>5, <2>7, OptionalPosts
  <2> QED
    BY <2>6, <2>7
<1> QED
  BY <1>3, <1>4, <1>5

\* handleWrite: units move from the buffer to the wire; the channel stops
\* asking for EPOLLOUT when none is left, and only then.
LEMMA WriteEffect ==
  ASSUME DataTypes, HandleWrite
  PROVE  /\ wire' \in Seq(UnitSet) /\ outputBuffer_' \in Seq(UnitSet)
         /\ wire' \o outputBuffer_' = wire \o outputBuffer_
         /\ channel_' \in {channel_, UpdateChannel(DisableWriting(channel_))}
         /\ outputBuffer_ # <<>> /\ outputBuffer_' = <<>> =>
              channel_' = UpdateChannel(DisableWriting(channel_))
         /\ sock' \in SockType /\ sock' = [sock EXCEPT !.err = sock'.err, !.wrShut = sock'.wrShut]
         /\ sock.wrShut => sock'.wrShut
         /\ \E post \in Posts : ioQueue' = ioQueue \o post
         /\ ~IsWriting(channel_) =>
              UNCHANGED <<wire, outputBuffer_, channel_, sock, ioQueue>>
<1> USE DEF DataTypes
<1>1. CASE ~IsWriting(channel_)
  <2>1. ioQueue \o <<>> = ioQueue
    BY ConcatEmptySeq
  <2> QED
    BY <1>1, <2>1, OptionalPosts DEF HandleWrite, SockType
<1>2. CASE IsWriting(channel_)
  <2> DEFINE quiet == UpdateChannel(DisableWriting(channel_))
  <2>1. PICK n \in Writable(outputBuffer_) :
          /\ wire' = wire \o SubSeq(outputBuffer_, 1, n)
          /\ outputBuffer_' = From(outputBuffer_, n)
          /\ channel_' = IF n > 0 /\ n = Len(outputBuffer_) THEN quiet ELSE channel_
          /\ ioQueue' = ioQueue \o (IF n > 0 /\ n = Len(outputBuffer_)
                                    THEN Optional("complete") ELSE <<>>)
          /\ sock' = IF (n > 0 /\ n = Len(outputBuffer_)) /\ state_ = "kDisconnecting"
                     THEN [ShutdownInLoop(quiet) EXCEPT !.err = FALSE]
                     ELSE [sock EXCEPT !.err = FALSE]
    BY <1>2 DEF HandleWrite
  <2> HIDE DEF quiet
  <2>2. n \in 0..Len(outputBuffer_) /\ Len(outputBuffer_) \in Nat
    BY WriteTakes, LenProperties
  <2>3. /\ SubSeq(outputBuffer_, 1, n) \in Seq(UnitSet) /\ From(outputBuffer_, n) \in Seq(UnitSet)
        /\ SubSeq(outputBuffer_, 1, n) \o From(outputBuffer_, n) = outputBuffer_
        /\ Len(From(outputBuffer_, n)) = Len(outputBuffer_) - n
    BY <2>2, Split
  <2>4. wire' \in Seq(UnitSet) /\ outputBuffer_' \in Seq(UnitSet)
    BY <2>1, <2>3, ConcatProperties
  <2>5. wire' \o outputBuffer_' = wire \o outputBuffer_
    BY <2>1, <2>2, SplitBehind
  <2>6. sock' \in SockType /\ sock' = [sock EXCEPT !.err = sock'.err, !.wrShut = sock'.wrShut]
    BY <2>1 DEF ShutdownInLoop, SockType
  <2>7. sock.wrShut => sock'.wrShut
    BY <2>1 DEF ShutdownInLoop, SockType
  <2>8. outputBuffer_ # <<>> /\ outputBuffer_' = <<>> => n > 0 /\ n = Len(outputBuffer_)
    <3>1. SUFFICES ASSUME outputBuffer_ # <<>>, outputBuffer_' = <<>>
                   PROVE  n > 0 /\ n = Len(outputBuffer_)
      OBVIOUS
    <3>2. Len(outputBuffer_) # 0 /\ Len(outputBuffer_') = 0
      BY <3>1, EmptySeq
    <3> QED
      BY <2>1, <2>2, <2>3, <3>2
  <2>9. \E post \in Posts : ioQueue' = ioQueue \o post
    BY <2>1, OptionalPosts
  <2> QED
    BY <1>2, <2>1, <2>4, <2>5, <2>6, <2>7, <2>8, <2>9 DEF quiet
<1> QED
  BY <1>1, <1>2

-----------------------------------------------------------------------------
(* The stream is intact.                                                   *)

\* A step that leaves the stream alone, asks for EPOLLOUT no more than before
\* and forgets no end of the stream.
LEMMA StreamKept ==
  ASSUME DataTypes, StreamInv, UNCHANGED <<accepted, wire, outputBuffer_>>,
         "out" \in channel_'.events => "out" \in channel_.events,
         sock.rst => sock'.rst, sock.wrShut => sock'.wrShut
  PROVE  StreamInv'
BY DEF StreamInv, WriteFails

\* What write() does not take is kept behind what is kept already; what is
\* not kept is lost with all that follows it.
LEMMA SendStream ==
  ASSUME DataTypes, StreamInv, NEW m \in Messages, NEW queue \in Seq(Functors),
         SendInLoop(m, queue)
  PROVE  StreamInv'
<1> DEFINE direct == ~IsWriting(channel_) /\ outputBuffer_ = <<>>
           u == Units(m)
<1> USE DEF DataTypes
<1>1. u \in Seq(UnitSet) /\ Len(u) = MessageLen
  BY UnitsType
<1>2. sock'.rst = sock.rst /\ sock'.wrShut = sock.wrShut
  BY SendEffect DEF SockType
<1>3. IsWriting(channel_) => "out" \in channel_.events
  BY DEF IsWriting, KWriteEvent
<1> HIDE DEF u
<1>4. CASE state_ = "kDisconnected"
  <2>1. UNCHANGED <<channel_, outputBuffer_, sock, accepted, wire>>
    BY <1>4 DEF SendInLoop, SendUnits
  <2> QED
    BY <2>1, StreamKept
<1>5. CASE state_ # "kDisconnected" /\ ~direct
  <2>1. accepted' = accepted \o u /\ Keep(u, queue) /\ UNCHANGED <<sock, wire>>
    BY <1>5 DEF SendInLoop, SendUnits, u
  <2>2. outputBuffer_' = outputBuffer_ \o u
    BY <2>1 DEF Keep
  <2>3. outputBuffer_ # <<>>
    BY <1>3, <1>5 DEF StreamInv
  <2>4. wire \o outputBuffer_ = accepted
    BY <2>3 DEF StreamInv
  <2>5. wire' \o outputBuffer_' = accepted'
    <3>1. (wire \o outputBuffer_) \o u = wire \o (outputBuffer_ \o u)
      BY <1>1, ConcatAssociative, SMTT(40)
    <3> QED
      BY <2>1, <2>2, <2>4, <3>1
  <2>6. outputBuffer_' # <<>>
    BY <1>1, <2>2, <2>3, ConcatEqualIffEmpty
  <2> QED
    BY <2>5, <2>6, Zenon DEF StreamInv
<1>6. CASE state_ # "kDisconnected" /\ direct
  <2>1. PICK n \in Writable(u) :
          /\ accepted' = accepted \o u
          /\ wire' = wire \o SubSeq(u, 1, n)
          /\ IF n < MessageLen /\ ~WriteFails
             THEN Keep(From(u, n), queue)
             ELSE UNCHANGED <<outputBuffer_, channel_>>
    BY <1>6 DEF SendInLoop, SendUnits, u
  <2>2. n \in 0..Len(u) /\ (WriteFails => n = 0)
    BY <1>1, WriteTakes
  <2>3. /\ SubSeq(u, 1, n) \in Seq(UnitSet) /\ From(u, n) \in Seq(UnitSet)
        /\ SubSeq(u, 1, n) \o From(u, n) = u
        /\ Len(From(u, n)) = Len(u) - n
        /\ n = Len(u) => SubSeq(u, 1, n) = u
    BY <1>1, <2>2, Split
  <2>4. outputBuffer_ = <<>> /\ "out" \notin channel_.events
    BY <1>6 DEF StreamInv
  <2>5. wire \o outputBuffer_ = wire
    BY <2>4, ConcatEmptySeq
  <2>6. CASE ~WriteFails
    <3>1. wire = accepted
      BY <2>5, <2>6 DEF StreamInv
    <3>2. CASE n < MessageLen
      <4>1. outputBuffer_' = From(u, n)
        BY <2>1, <2>3, <2>4, <2>6, <3>2, ConcatEmptySeq DEF Keep
      <4>2. From(u, n) # <<>>
        <5>1. Len(From(u, n)) # 0
          BY <1>1, <2>2, <2>3, <3>2, SizesAssumption
        <5> QED
          BY <5>1, EmptySeq
      <4>3. (wire \o SubSeq(u, 1, n)) \o From(u, n) = wire \o u
        BY <1>1, <2>2, SplitBehind
      <4>4. wire' \o outputBuffer_' = accepted'
        BY <2>1, <3>1, <4>1, <4>3
      <4> QED
        BY <4>1, <4>2, <4>4, Zenon DEF StreamInv
    <3>3. CASE ~(n < MessageLen)
      <4>1. n = Len(u)
        BY <1>1, <2>2, <3>3, SizesAssumption
      <4>2. wire' = accepted' /\ UNCHANGED <<outputBuffer_, channel_>>
        BY <2>1, <2>3, <3>1, <3>3, <4>1
      <4>3. wire' \in Seq(UnitSet)
        BY SendEffect
      <4>4. wire' \o outputBuffer_' = wire'
        BY <2>4, <4>2, <4>3, ConcatEmptySeq
      <4> QED
        BY <2>4, <4>2, <4>4 DEF StreamInv
    <3> QED
      BY <3>2, <3>3
  <2>7. CASE WriteFails
    <3>1. UNCHANGED <<outputBuffer_, channel_>> /\ n = 0
      BY <2>1, <2>2, <2>7
    <3>2. SubSeq(u, 1, n) = <<>>
      BY <3>1, SubSeqEmpty
    <3>3. wire' = wire
      BY <2>1, <3>2, ConcatEmptySeq
    <3>4. IsPrefix(wire, accepted)
      BY <2>5, PrefixOfItself DEF StreamInv
    <3>5. IsPrefix(wire', accepted')
      BY <1>1, <2>1, <3>3, <3>4, PrefixOfConcat
    <3>6. WriteFails'
      BY <1>2, <2>7 DEF WriteFails
    <3> QED
      BY <2>4, <3>1, <3>5, <3>6 DEF StreamInv
  <2> QED
    BY <2>6, <2>7
<1> QED
  BY <1>4, <1>5, <1>6

LEMMA WriteStream ==
  ASSUME DataTypes, StreamInv, HandleWrite, UNCHANGED accepted
  PROVE  StreamInv'
<1>1. CASE ~IsWriting(channel_)
  BY <1>1, WriteEffect, StreamKept
<1>2. CASE IsWriting(channel_)
  <2>1. outputBuffer_ # <<>>
    BY <1>2 DEF IsWriting, KWriteEvent, StreamInv
  <2>2. wire' \o outputBuffer_' = accepted'
    BY <2>1, WriteEffect DEF StreamInv
  <2>3. "out" \in channel_'.events => outputBuffer_' # <<>>
    <3>1. "out" \notin UpdateChannel(DisableWriting(channel_)).events
      BY ChannelCalls DEF DataTypes
    <3> QED
      BY <2>1, <3>1, WriteEffect
  <2> QED
    BY <2>2, <2>3 DEF StreamInv
<1> QED
  BY <1>1, <1>2

-----------------------------------------------------------------------------
(* Queues of functors.                                                     *)

Types == DataTypes /\ ControlTypes

LEMMA FunctorNames ==
  ASSUME NEW x \in Functors
  PROVE  /\ x[1] \in {"establish", "destroy", "shutdown", "complete", "highWater", "send"}
         /\ x[1] # "send" => x = <<x[1]>>
         /\ x[1] = "send" => x[2] \in Messages
BY DEF Functors

\* A functor that runs is the first one, and leaves the others.
LEMMA NextRuns ==
  ASSUME Types, NEW f, NextFunctor(f)
  PROVE  /\ ioQueue # <<>> /\ Head(ioQueue) = ioQueue[1] /\ ioQueue[1] \in Functors
         /\ ioQueue[1][1] = f
         /\ Tail(ioQueue) \in Seq(Functors) /\ Len(Tail(ioQueue)) = Len(ioQueue) - 1
         /\ pass' \in 0..Len(Tail(ioQueue)) /\ passRef' \in BOOLEAN
         /\ io = "functors" /\ io' = io /\ ~inUser /\ UNCHANGED <<revents, call, serverVars>>
<1> USE DEF NextFunctor, Types, DataTypes, ControlTypes, IoThreadIn
<1>1. Len(ioQueue) \in Nat /\ pass \in 0..Len(ioQueue) /\ pass > 0 /\ pass' = pass - 1
  BY LenProperties
<1>2. ioQueue # <<>>
  BY <1>1, EmptySeq
<1>3. 1 \in 1..Len(ioQueue)
  BY <1>1
<1>4. ioQueue[1] \in Functors
  BY <1>3, ElementOfSeq
<1>5. Head(ioQueue) = ioQueue[1]
  BY <1>2
<1>6. Tail(ioQueue) \in Seq(Functors) /\ Len(Tail(ioQueue)) = Len(ioQueue) - 1
  BY <1>2, HeadTailProperties
<1>7. pass' \in 0..Len(Tail(ioQueue))
  BY <1>1, <1>6
<1>8. passRef' \in BOOLEAN
  BY DEF Holds
<1> QED
  BY <1>2, <1>4, <1>5, <1>6, <1>7, <1>8

\* More functors in the queue, and a pass no longer than before.
LEMMA QueueGrows ==
  ASSUME NEW q \in Seq(Functors), NEW post \in Seq(Functors), NEW k \in 0..Len(q)
  PROVE  q \o post \in Seq(Functors) /\ k \in 0..Len(q \o post)
<1>1. q \o post \in Seq(Functors) /\ Len(q \o post) = Len(q) + Len(post)
  BY ConcatProperties
<1>2. Len(q) \in Nat /\ Len(post) \in Nat
  BY LenProperties
<1> QED
  BY <1>1, <1>2

-----------------------------------------------------------------------------
(* The types and the stream, step by step.                                 *)

StreamTypesInv == Types /\ StreamInv

\* A step of the loop or of another thread that touches none of the data.
LEMMA ControlStep ==
  ASSUME StreamTypesInv, ControlTypes', UNCHANGED <<channel_, outputBuffer_, accepted, wire>>,
         sock' \in SockType, sock.rst => sock'.rst, sock.wrShut => sock'.wrShut,
         ioQueue' \in Seq(Functors), call' \in [Threads -> CallStates]
  PROVE  StreamTypesInv'
<1>1. DataTypes'
  BY DEF StreamTypesInv, Types, DataTypes
<1>2. StreamInv'
  BY StreamKept DEF StreamTypesInv, Types
<1> QED
  BY <1>1, <1>2 DEF StreamTypesInv, Types

LEMMA PeerTypes ==
  ASSUME StreamTypesInv, Peer
  PROVE  StreamTypesInv'
<1>1. UNCHANGED <<state_, channel_, outputBuffer_, accepted, wire, ioQueue, call, io, revents,
                  inUser, pass, passRef, baseQueue, downs>>
  BY DEF Peer, PeerSends, PeerReads, PeerCloses, PeerResets, PeerStep, loopVars, serverVars, histVars
<1>2. sock \in SockType /\ sock.rx \in 0..sock.received /\ sock.received \in 0..PeerData
      /\ PeerData \in Nat
  BY SizesAssumption DEF StreamTypesInv, Types, DataTypes, ControlTypes
<1>3. /\ sock' \in SockType /\ (sock.rst => sock'.rst) /\ (sock.wrShut => sock'.wrShut)
      /\ sock'.rx \in 0..sock'.received /\ sock'.received \in 0..PeerData
  <2> USE DEF SockType
  <2>1. CASE PeerSends
    <3>1. sock' = [sock EXCEPT !.rx = @ + 1, !.received = @ + 1] /\ sock.received < PeerData
      BY <2>1 DEF PeerSends, PeerStep
    <3>2. sock' \in SockType
      <4>1. sock.rx + 1 \in Nat /\ sock.received + 1 \in Nat
        BY <1>2
      <4> QED
        BY <1>2, <3>1, <4>1
    <3>3. /\ sock'.rst = sock.rst /\ sock'.wrShut = sock.wrShut
          /\ sock'.rx = sock.rx + 1 /\ sock'.received = sock.received + 1
      BY <1>2, <3>1
    <3>4. sock'.rx \in 0..sock'.received /\ sock'.received \in 0..PeerData
      BY <1>2, <3>1, <3>3
    <3> QED
      BY <3>2, <3>3, <3>4
  <2>2. CASE PeerReads
    <3>1. sock' = [sock EXCEPT !.taken = @ + 1]
      BY <2>2 DEF PeerReads, PeerStep
    <3>2. sock' \in SockType
      BY <1>2, <3>1
    <3>3. /\ sock'.rst = sock.rst /\ sock'.wrShut = sock.wrShut
          /\ sock'.rx = sock.rx /\ sock'.received = sock.received
      BY <1>2, <3>1
    <3> QED
      BY <1>2, <3>2, <3>3
  <2>3. CASE PeerCloses
    <3>1. sock' = [sock EXCEPT !.fin = TRUE]
      BY <2>3 DEF PeerCloses, PeerStep
    <3> QED
      BY <1>2, <3>1
  <2>4. CASE PeerResets
    <3>1. sock' = [sock EXCEPT !.rst = TRUE, !.err = TRUE]
      BY <2>4 DEF PeerResets, PeerStep
    <3> QED
      BY <1>2, <3>1
  <2> QED
    BY <2>1, <2>2, <2>3, <2>4 DEF Peer
<1>4. ControlTypes'
  BY <1>1, <1>3 DEF StreamTypesInv, Types, ControlTypes
<1> QED
  BY <1>1, <1>3, <1>4, ControlStep DEF StreamTypesInv, Types, DataTypes

\* shutdownWrite() does not touch what was received.
LEMMA ShutdownType ==
  ASSUME DataTypes, NEW ch
  PROVE  /\ ShutdownInLoop(ch) \in SockType
         /\ ShutdownInLoop(ch) = [sock EXCEPT !.wrShut = ShutdownInLoop(ch).wrShut]
         /\ sock.wrShut => ShutdownInLoop(ch).wrShut
BY DEF DataTypes, SockType, ShutdownInLoop

LEMMA UserTypes ==
  ASSUME StreamTypesInv, User
  PROVE  StreamTypesInv'
<1> USE DEF StreamTypesInv, Types
<1>1. ASSUME NEW m \in Messages, UserSends(m) PROVE StreamTypesInv'
  <2>1. /\ SendInLoop(m, ioQueue)
        /\ UNCHANGED <<state_, downs, io, revents, inUser, pass, passRef, call, baseQueue>>
    BY <1>1 DEF UserSends, SendWhen, InCallback, serverVars
  <2>2. ioQueue \in Seq(Functors) /\ channel_ \in ChannelType /\ pass \in 0..Len(ioQueue)
    BY DEF DataTypes, ControlTypes
  <2>3. PICK post \in Posts : ioQueue' = ioQueue \o post
    BY <2>1, <2>2, SendEffect
  <2>4. ioQueue' \in Seq(Functors) /\ pass' \in 0..Len(ioQueue')
    BY <2>1, <2>2, <2>3, QueueGrows, OptionalPosts
  <2>5. sock' \in SockType /\ sock'.rx = sock.rx /\ sock'.received = sock.received
    BY <2>1, <2>2, SendEffect DEF DataTypes, SockType
  <2>6. channel_' \in ChannelType
    BY <2>1, <2>2, SendEffect, ChannelStays
  <2>7. DataTypes'
    BY <2>1, <2>2, <2>4, <2>5, <2>6, SendEffect DEF DataTypes
  <2>8. ControlTypes'
    BY <2>1, <2>4, <2>5 DEF ControlTypes
  <2> QED
    BY <2>1, <2>2, <2>7, <2>8, SendStream
<1>2. CASE UserShutsDown
  <2>1. /\ sock' = ShutdownInLoop(channel_) /\ state_' = "kDisconnecting"
        /\ UNCHANGED <<channel_, outputBuffer_, ioQueue, accepted, wire, downs, io, revents,
                       inUser, pass, passRef, call, baseQueue>>
    BY <1>2 DEF UserShutsDown, InCallback, serverVars, histVars
  <2>2. sock' \in SockType /\ sock' = [sock EXCEPT !.wrShut = sock'.wrShut]
        /\ (sock.wrShut => sock'.wrShut)
    BY <2>1, ShutdownType
  <2>3. sock'.rst = sock.rst /\ sock'.rx = sock.rx /\ sock'.received = sock.received
    BY <2>2 DEF DataTypes, SockType
  <2>4. ControlTypes'
    BY <2>1, <2>3 DEF ControlTypes
  <2> QED
    BY <2>1, <2>2, <2>3, <2>4, ControlStep DEF DataTypes
<1> QED
  BY <1>1, <1>2 DEF User

\* A handler that closes: the channel asks for nothing any more.
LEMMA CloseEffect ==
  ASSUME Types, HandleClose
  PROVE  /\ state_' = "kDisconnected" /\ downs' = downs + 1 /\ downs' \in Nat
         /\ channel_' = UpdateChannel(DisableAll(channel_)) /\ channel_' \in ChannelType
         /\ channel_'.events = {}
         /\ baseQueue' \in Seq({<<"remove">>}) /\ baseQueue' # <<>>
<1>1. /\ state_' = "kDisconnected" /\ downs' = downs + 1
      /\ channel_' = UpdateChannel(DisableAll(channel_))
      /\ baseQueue' = Append(baseQueue, <<"remove">>)
  BY DEF HandleClose, Closing
<1>2. channel_ \in ChannelType /\ baseQueue \in Seq({<<"remove">>}) /\ downs \in Nat
  BY DEF Types, DataTypes, ControlTypes
<1>3. channel_' \in ChannelType /\ channel_'.events = {}
  BY <1>1, <1>2, ChannelCalls, ChannelStays
<1>4. baseQueue' \in Seq({<<"remove">>}) /\ baseQueue' # <<>>
  BY <1>1, <1>2, AppendProperties
<1> QED
  BY <1>1, <1>2, <1>3, <1>4

\* The steps of the loop that handle events.
LEMMA TurnTypes ==
  ASSUME StreamTypesInv, TurnHup \/ TurnErr \/ HandleRead
  PROVE  StreamTypesInv'
<1>1. Types /\ StreamInv
  BY DEF StreamTypesInv
<1>2. /\ UNCHANGED <<io, pass, passRef, call, outputBuffer_, ioQueue, accepted, wire>>
      /\ revents' \subseteq revents /\ io = "dispatch"
  BY DEF TurnHup, TurnHupIf, TurnErr, HandleRead, Turn, IoThreadIn
<1>3. /\ sock' \in SockType /\ sock'.rst = sock.rst /\ sock'.wrShut = sock.wrShut
      /\ sock'.rx \in 0..sock'.received /\ sock'.received \in 0..PeerData
  <2>1. sock' \in {sock, [sock EXCEPT !.err = FALSE], [sock EXCEPT !.rx = 0]}
    BY DEF TurnHup, TurnHupIf, TurnErr, HandleRead, HandleError
  <2>2. sock \in SockType /\ sock.rx \in 0..sock.received /\ sock.received \in 0..PeerData
    BY <1>1 DEF Types, DataTypes, ControlTypes
  <2>3. sock' \in SockType /\ sock'.rst = sock.rst /\ sock'.wrShut = sock.wrShut
    <3>1. CASE sock' = sock
      BY <2>2, <3>1
    <3>2. CASE sock' = [sock EXCEPT !.err = FALSE]
      BY <2>2, <3>2 DEF SockType
    <3>3. CASE sock' = [sock EXCEPT !.rx = 0]
      BY <2>2, <3>3 DEF SockType
    <3> QED
      BY <2>1, <3>1, <3>2, <3>3
  <2>4. sock'.rx \in {0, sock.rx} /\ sock'.received = sock.received /\ sock.received \in Nat
    BY <2>1, <2>2 DEF SockType
  <2>5. sock'.rx \in 0..sock'.received
    BY <2>2, <2>4
  <2> QED
    BY <2>2, <2>3, <2>4, <2>5
<1>4. HandleClose \/ UNCHANGED <<state_, channel_, downs, baseQueue>>
  BY DEF TurnHup, TurnHupIf, TurnErr, HandleRead, HandleError
<1>5. inUser' \in BOOLEAN
  BY <1>1 DEF TurnHup, TurnHupIf, TurnErr, HandleRead, Types, ControlTypes
<1>6. ControlTypes'
  BY <1>1, <1>2, <1>3, <1>4, <1>5, CloseEffect DEF Types, ControlTypes
<1>7. channel_' \in ChannelType /\ ("out" \in channel_'.events => "out" \in channel_.events)
  BY <1>1, <1>4, CloseEffect DEF Types, DataTypes
<1>8. DataTypes'
  BY <1>1, <1>2, <1>3, <1>7 DEF Types, DataTypes
<1>9. StreamInv'
  BY <1>1, <1>2, <1>3, <1>7, StreamKept DEF Types
<1> QED
  BY <1>6, <1>8, <1>9 DEF StreamTypesInv, Types

LEMMA WriteTypes ==
  ASSUME StreamTypesInv, TurnOut
  PROVE  StreamTypesInv'
<1>1. Types /\ StreamInv
  BY DEF StreamTypesInv
<1>2. /\ HandleWrite /\ revents' \subseteq revents
      /\ UNCHANGED <<state_, inUser, io, pass, passRef, call, baseQueue, accepted, downs>>
      /\ io = "dispatch"
  BY DEF TurnOut, Turn, IoThreadIn
<1>3. ioQueue' \in Seq(Functors) /\ pass' \in 0..Len(ioQueue')
  <2>1. PICK post \in Posts : ioQueue' = ioQueue \o post
    BY <1>1, <1>2, WriteEffect DEF Types
  <2>2. ioQueue \in Seq(Functors) /\ pass \in 0..Len(ioQueue) /\ pass' = pass
    BY <1>1, <1>2 DEF Types, DataTypes, ControlTypes
  <2> QED
    BY <2>1, <2>2, QueueGrows, OptionalPosts
<1>4. sock' \in SockType /\ sock'.rx = sock.rx /\ sock'.received = sock.received
  <2>1. sock' \in SockType /\ sock' = [sock EXCEPT !.err = sock'.err, !.wrShut = sock'.wrShut]
    BY <1>1, <1>2, WriteEffect DEF Types
  <2>2. sock \in SockType
    BY <1>1 DEF Types, DataTypes
  <2> QED
    BY <2>1, <2>2 DEF SockType
<1>5. channel_' \in ChannelType
  BY <1>1, <1>2, WriteEffect, ChannelStays DEF Types, DataTypes
<1>6. ControlTypes'
  BY <1>1, <1>2, <1>3, <1>4 DEF Types, ControlTypes
<1>7. DataTypes'
  BY <1>1, <1>2, <1>3, <1>4, <1>5, WriteEffect DEF Types, DataTypes
<1>8. StreamInv'
  BY <1>1, <1>2, WriteStream DEF Types
<1> QED
  BY <1>6, <1>7, <1>8 DEF StreamTypesInv, Types

\* The steps of the loop that run a functor.
LEMMA FunctorTypes ==
  ASSUME StreamTypesInv,
         \/ ConnectEstablished \/ ConnectDestroyed \/ QueuedShutdown \/ QueuedSend \/ UserCallback
  PROVE  StreamTypesInv'
<1> DEFINE rest == Tail(ioQueue)
<1>1. Types /\ StreamInv
  BY DEF StreamTypesInv
<1>2. PICK f : NextFunctor(f)
  BY DEF ConnectEstablished, ConnectDestroyed, DestroyReporting, QueuedShutdown, QueuedSend,
         UserCallback
<1>3. /\ rest \in Seq(Functors) /\ pass' \in 0..Len(rest) /\ passRef' \in BOOLEAN
      /\ io' = "functors" /\ revents' = {} /\ UNCHANGED <<call, baseQueue>>
      /\ Head(ioQueue) \in Functors
  BY <1>1, <1>2, NextRuns DEF serverVars, Types, ControlTypes
<1> HIDE DEF rest
<1>4. ASSUME ioQueue' = rest, UNCHANGED <<outputBuffer_, accepted, wire>>,
             sock' \in {sock, ShutdownInLoop(channel_)},
             state_' \in {state_, "kConnected", "kDisconnected"}, inUser' \in {inUser, TRUE},
             downs' \in {downs, downs + 1},
             channel_' \in ChannelType, "out" \in channel_'.events => "out" \in channel_.events
      PROVE  StreamTypesInv'
  <2>1. sock' \in SockType /\ sock' = [sock EXCEPT !.wrShut = sock'.wrShut]
        /\ (sock.wrShut => sock'.wrShut)
    BY <1>1, <1>4, ShutdownType DEF Types, DataTypes, SockType
  <2>2. sock'.rst = sock.rst /\ sock'.rx = sock.rx /\ sock'.received = sock.received
    BY <1>1, <2>1 DEF Types, DataTypes, SockType
  <2>3. ControlTypes'
    <3>1. /\ state_' \in {"kDisconnected", "kConnecting", "kConnected", "kDisconnecting"}
          /\ downs' \in Nat
      BY <1>1, <1>4 DEF Types, ControlTypes
    <3>2. inUser' \in BOOLEAN
      BY <1>1, <1>4, Zenon DEF Types, ControlTypes
    <3>3. sock'.rx \in 0..sock'.received /\ sock'.received \in 0..PeerData
      BY <1>1, <2>2 DEF Types, ControlTypes
    <3>4. pass' \in 0..Len(ioQueue') /\ baseQueue' \in Seq({<<"remove">>})
      BY <1>1, <1>3, <1>4 DEF Types, ControlTypes
    <3> QED
      BY <1>3, <3>1, <3>2, <3>3, <3>4 DEF ControlTypes
  <2>4. DataTypes'
    BY <1>1, <1>3, <1>4, <2>1 DEF Types, DataTypes
  <2>5. StreamInv'
    BY <1>1, <1>4, <2>1, <2>2, StreamKept DEF Types
  <2> QED
    BY <2>3, <2>4, <2>5 DEF StreamTypesInv, Types
<1>5. channel_ \in ChannelType
  BY <1>1 DEF Types, DataTypes
<1>6. CASE ConnectEstablished
  <2>1. "out" \in UpdateChannel(EnableReading(channel_)).events => "out" \in channel_.events
    BY <1>5, ChannelCalls
  <2> QED
    BY <1>4, <1>5, <1>6, <2>1, ChannelStays DEF ConnectEstablished, histVars, rest
<1>7. CASE ConnectDestroyed
  <2> DEFINE closed == UpdateChannel(DisableAll(channel_))
  <2>1. closed \in ChannelType /\ closed.events = {}
    BY <1>5, ChannelCalls, ChannelStays
  <2>2. channel_' = RemoveChannel(IF state_ = "kConnected" THEN closed ELSE channel_)
    BY <1>7 DEF ConnectDestroyed, DestroyReporting
  <2> HIDE DEF closed
  <2>3. channel_' \in ChannelType /\ ("out" \in channel_'.events => "out" \in channel_.events)
    <3>1. CASE state_ = "kConnected"
      <4>1. channel_' = RemoveChannel(closed)
        BY <2>2, <3>1
      <4>2. channel_' \in ChannelType /\ channel_'.events = closed.events
        BY <2>1, <4>1, ChannelCalls, ChannelStays
      <4> QED
        BY <2>1, <4>2
    <3>2. CASE state_ # "kConnected"
      <4>1. channel_' = RemoveChannel(channel_)
        BY <2>2, <3>2
      <4>2. channel_' \in ChannelType /\ channel_'.events = channel_.events
        BY <1>5, <4>1, ChannelCalls, ChannelStays
      <4> QED
        BY <4>2
    <3> QED
      BY <3>1, <3>2
  <2>4. /\ state_' \in {state_, "kDisconnected"} /\ downs' \in {downs, downs + 1}
        /\ ioQueue' = rest /\ UNCHANGED <<outputBuffer_, sock, inUser, accepted, wire>>
    BY <1>7 DEF ConnectDestroyed, DestroyReporting, rest
  <2> QED
    BY <1>4, <2>3, <2>4
<1>8. CASE QueuedShutdown
  BY <1>4, <1>5, <1>8 DEF QueuedShutdown, histVars, rest
<1>9. CASE QueuedSend
  <2>1. NextFunctor("send") /\ SendInLoop(Head(ioQueue)[2], rest)
        /\ UNCHANGED <<state_, inUser, downs>>
    BY <1>9 DEF QueuedSend, rest
  <2>2. Head(ioQueue)[2] \in Messages
    BY <1>1, <2>1, NextRuns, FunctorNames
  <2>3. PICK post \in Posts : ioQueue' = rest \o post
    BY <1>1, <1>3, <2>1, <2>2, SendEffect DEF Types
  <2>4. ioQueue' \in Seq(Functors) /\ pass' \in 0..Len(ioQueue')
    BY <1>3, <2>3, QueueGrows, OptionalPosts
  <2>5. sock' \in {sock, [sock EXCEPT !.err = FALSE]}
    BY <1>1, <1>3, <2>1, <2>2, SendEffect DEF Types
  <2>6. sock' \in SockType /\ sock'.rx = sock.rx /\ sock'.received = sock.received
    BY <1>1, <2>5 DEF Types, DataTypes, SockType
  <2>7. channel_' \in ChannelType
    BY <1>1, <1>3, <1>5, <2>1, <2>2, SendEffect, ChannelStays DEF Types
  <2>8. accepted' \in Seq(UnitSet) /\ wire' \in Seq(UnitSet) /\ outputBuffer_' \in Seq(UnitSet)
    BY <1>1, <1>3, <2>1, <2>2, SendEffect DEF Types
  <2>9. DataTypes'
    BY <1>1, <1>3, <2>4, <2>6, <2>7, <2>8 DEF Types, DataTypes
  <2>10. ControlTypes'
    BY <1>1, <1>3, <2>1, <2>4, <2>6 DEF Types, ControlTypes
  <2>11. StreamInv'
    BY <1>1, <1>3, <2>1, <2>2, SendStream DEF Types
  <2> QED
    BY <2>9, <2>10, <2>11 DEF StreamTypesInv, Types
<1>10. CASE UserCallback
  BY <1>4, <1>5, <1>10 DEF UserCallback, connVars, histVars, rest
<1> QED
  BY <1>6, <1>7, <1>8, <1>9, <1>10

\* The steps of the loop between handlers.
LEMMA LoopTypes ==
  ASSUME StreamTypesInv,
         \/ UserReturns \/ PollReports \/ PollReportsOthers \/ SwapFunctors \/ PassEnds
  PROVE  StreamTypesInv'
<1>1. Types
  BY DEF StreamTypesInv
<1>2. UNCHANGED <<connVars, ioQueue, accepted, wire, call, baseQueue, downs>>
  BY DEF UserReturns, PollReports, PollReportsOthers, SwapFunctors, PassEnds, serverVars, histVars
<1>3. Len(ioQueue) \in Nat
  BY <1>1, LenProperties DEF Types, DataTypes
<1>4. ControlTypes'
  <2> USE <1>1, <1>2, <1>3 DEF Types, ControlTypes, connVars, IoThreadIn
  <2>1. CASE UserReturns
    BY <2>1 DEF UserReturns
  <2>2. CASE PollReports
    <3>1. Reported \subseteq {"hup", "err", "in", "out"}
      BY DEF Reported
    <3> QED
      BY <2>2, <3>1 DEF PollReports
  <2>3. CASE PollReportsOthers
    BY <2>3 DEF PollReportsOthers
  <2>4. CASE SwapFunctors
    <3>1. pass' \in 0..Len(ioQueue') /\ revents' = {} /\ ~inUser' /\ passRef' = FALSE
          /\ io' = "functors"
      BY <2>4 DEF SwapFunctors
    <3> QED
      BY <2>4, <3>1 DEF SwapFunctors
  <2>5. CASE PassEnds
    BY <2>5 DEF PassEnds
  <2> QED
    BY <2>1, <2>2, <2>3, <2>4, <2>5
<1> QED
  BY <1>1, <1>2, <1>4, ControlStep DEF Types, DataTypes, connVars

LEMMA IoTypes == ASSUME StreamTypesInv, IoThread PROVE StreamTypesInv'
BY TurnTypes, WriteTypes, FunctorTypes, LoopTypes DEF IoThread

\* A call of another thread goes one step further.
LEMMA CallTypes ==
  ASSUME StreamTypesInv, UNCHANGED <<channel_, outputBuffer_, sock, loopVars, histVars>>,
         state_' \in {state_, "kDisconnecting"}, UNCHANGED baseQueue,
         NEW t \in Threads, NEW to \in CallStates, call' = [call EXCEPT ![t] = to]
  PROVE  StreamTypesInv'
<1>1. Types
  BY DEF StreamTypesInv
<1>2. call' \in [Threads -> CallStates]
  BY <1>1 DEF Types, DataTypes
<1>3. ControlTypes'
  BY <1>1 DEF Types, ControlTypes, loopVars, histVars
<1> QED
  BY <1>1, <1>2, <1>3, ControlStep DEF Types, DataTypes, loopVars, histVars

\* A thread that is not the loop's queues functors.
LEMMA PostTypes ==
  ASSUME StreamTypesInv, NEW post \in Seq(Functors), ioQueue' = ioQueue \o post,
         UNCHANGED <<connVars, io, revents, inUser, pass, passRef, histVars>>,
         baseQueue' \in Seq({<<"remove">>}), call' \in [Threads -> CallStates]
  PROVE  StreamTypesInv'
<1>1. Types
  BY DEF StreamTypesInv
<1>2. ioQueue' \in Seq(Functors) /\ pass' \in 0..Len(ioQueue')
  BY <1>1, QueueGrows DEF Types, DataTypes, ControlTypes
<1>3. ControlTypes'
  BY <1>1, <1>2 DEF Types, ControlTypes, connVars, histVars
<1> QED
  BY <1>1, <1>2, <1>3, ControlStep DEF Types, DataTypes, connVars, histVars

LEMMA ThreadTypes ==
  ASSUME StreamTypesInv,
         \/ \E w \in Workers : Worker(w)
         \/ \E t \in Threads : Finishes(t)
         \/ EntryExpires \/ RemoveConnectionInLoop \/ DestroyServer
  PROVE  StreamTypesInv'
<1>1. /\ call \in [Threads -> CallStates] /\ ioQueue \in Seq(Functors)
      /\ baseQueue \in Seq({<<"remove">>})
  BY DEF StreamTypesInv, Types, DataTypes, ControlTypes
<1>2. Workers \subseteq Threads /\ "base" \in Threads
  BY DEF Threads
<1>3. {<<"idle">>, <<"gone">>, <<"store">>, <<"post">>} \subseteq CallStates
      /\ (\A m \in Messages : <<"send", m>> \in CallStates)
  BY DEF CallStates
<1>4. ASSUME NEW w \in Workers, Worker(w) PROVE StreamTypesInv'
  <2>1. CASE HandOver(w) \/ DropReference(w) \/ (Shutdown(w) /\ UNCHANGED serverVars)
    <3>1. PICK to \in CallStates : call' = [call EXCEPT ![w] = to]
      BY <1>3, <2>1 DEF HandOver, DropReference, Shutdown, Steps
    <3>2. UNCHANGED <<connVars, loopVars, baseQueue, histVars>>
      BY <2>1 DEF HandOver, DropReference, Shutdown, serverVars
    <3> QED
      BY <1>2, <3>1, <3>2, CallTypes DEF connVars
  <2>2. ASSUME NEW m \in Messages, Send(w, m) PROVE StreamTypesInv'
    BY <1>2, <1>3, <2>2, CallTypes DEF Send, Steps, connVars, serverVars
  <2> QED
    BY <1>4, <2>1, <2>2 DEF Worker
<1>5. ASSUME NEW t \in Threads, Finishes(t) PROVE StreamTypesInv'
  <2>1. CASE t \in Workers /\ PostSend(t)
    <3>1. call[t] \in Functors
      <4>1. call[t] \in CallStates /\ call[t][1] = "send"
        BY <1>1, <2>1 DEF PostSend
      <4> QED
        BY <4>1 DEF CallStates, Functors
    <3>2. <<call[t]>> \in Seq(Functors) /\ ioQueue' = ioQueue \o <<call[t]>>
      BY <1>1, <2>1, <3>1, AppendIsConcat DEF PostSend
    <3>3. call' \in [Threads -> CallStates]
      BY <1>1, <1>3, <2>1 DEF PostSend, Steps
    <3> QED
      BY <1>1, <2>1, <3>2, <3>3, PostTypes DEF PostSend, serverVars
  <2>2. CASE StoreDisconnecting(t)
    BY <1>3, <2>2, CallTypes DEF StoreDisconnecting, Steps, serverVars
  <2>3. CASE PostShutdown(t)
    <3>1. <<"shutdown">> \in Functors
      BY DEF Functors
    <3>2. <<<<"shutdown">>>> \in Seq(Functors) /\ ioQueue' = ioQueue \o <<<<"shutdown">>>>
      BY <1>1, <2>3, <3>1, AppendIsConcat DEF PostShutdown
    <3>3. call' \in [Threads -> CallStates]
      BY <1>1, <1>3, <2>3 DEF PostShutdown, Steps
    <3> QED
      BY <1>1, <2>3, <3>2, <3>3, PostTypes DEF PostShutdown, serverVars
  <2> QED
    BY <1>5, <2>1, <2>2, <2>3 DEF Finishes
<1>6. CASE EntryExpires
  BY <1>2, <1>3, <1>6, CallTypes DEF EntryExpires, Shutdown, Steps, connVars
<1>7. ASSUME RemovesFromMap, baseQueue' \in Seq({<<"remove">>}) PROVE StreamTypesInv'
  <2>1. <<<<"destroy">>>> \in Seq(Functors) /\ ioQueue' = ioQueue \o <<<<"destroy">>>>
    BY <1>7 DEF RemovesFromMap, RemoveAnd, Functors
  <2> QED
    BY <1>1, <1>7, <2>1, PostTypes DEF RemovesFromMap, RemoveAnd
<1>8. CASE RemoveConnectionInLoop
  <2>1. baseQueue' \in Seq({<<"remove">>})
    BY <1>1, <1>8, HeadTailProperties DEF RemoveConnectionInLoop
  <2> QED
    BY <1>7, <1>8, <2>1 DEF RemoveConnectionInLoop
<1>9. CASE DestroyServer
  <2>1. CASE inMap
    BY <1>1, <1>7, <1>9, <2>1 DEF DestroyServer
  <2>2. CASE ~inMap
    <3>1. UNCHANGED <<connVars, loopVars, baseQueue, call, histVars>>
      BY <1>9, <2>2 DEF DestroyServer
    <3>2. ControlTypes'
      BY <3>1 DEF StreamTypesInv, Types, ControlTypes, connVars, loopVars, histVars
    <3> QED
      BY <3>1, <3>2, ControlStep
      DEF StreamTypesInv, Types, DataTypes, connVars, loopVars, histVars
  <2> QED
    BY <2>1, <2>2
<1> QED
  BY <1>4, <1>5, <1>6, <1>8, <1>9

LEMMA StreamTypesInit == Init => StreamTypesInv
<1> SUFFICES ASSUME Init PROVE StreamTypesInv
  OBVIOUS
<1> USE DEF Init
<1>1. DataTypes
  <2>1. ioQueue \in Seq(Functors)
    BY DEF Functors
  <2>2. channel_ \in ChannelType
    BY DEF NewChannel, ChannelType, Masks, KReadEvent, KWriteEvent
  <2>3. sock \in SockType
    BY DEF SockType
  <2>4. call \in [Threads -> CallStates]
    BY DEF CallStates
  <2>5. <<>> \in Seq(UnitSet)
    BY EmptySeq
  <2> QED
    BY <2>1, <2>2, <2>3, <2>4, <2>5 DEF DataTypes
<1>2. ControlTypes
  <2>1. PeerData \in Nat
    BY SizesAssumption
  <2>2. baseQueue \in Seq({<<"remove">>})
    BY EmptySeq
  <2>3. Len(ioQueue) = 1 /\ pass = 0 /\ sock.rx = 0 /\ sock.received = 0
    OBVIOUS
  <2>4. pass \in 0..Len(ioQueue) /\ sock.rx \in 0..sock.received /\ sock.received \in 0..PeerData
    BY <2>1, <2>3
  <2>5. revents = {} /\ ~inUser /\ inUser \in BOOLEAN /\ passRef \in BOOLEAN /\ downs \in Nat
        /\ io = "poll" /\ state_ = "kConnecting"
    OBVIOUS
  <2> HIDE DEF Init
  <2> QED
    BY <2>2, <2>4, <2>5 DEF ControlTypes
<1>3. StreamInv
  <2>1. wire \o outputBuffer_ = accepted
    BY EmptySeq, ConcatEmptySeq
  <2> QED
    BY <2>1 DEF StreamInv, NewChannel
<1> QED
  BY <1>1, <1>2, <1>3 DEF StreamTypesInv, Types

LEMMA StreamTypesStep == StreamTypesInv /\ [Next]_vars => StreamTypesInv'
<1> SUFFICES ASSUME StreamTypesInv, [Next]_vars PROVE StreamTypesInv'
  OBVIOUS
<1>1. CASE Next
  BY <1>1, PeerTypes, UserTypes, IoTypes, ThreadTypes DEF Next
<1>2. CASE UNCHANGED vars
  <2>1. ControlTypes'
    BY <1>2 DEF StreamTypesInv, Types, ControlTypes, vars, connVars, loopVars, serverVars, histVars
  <2> QED
    BY <1>2, <2>1, ControlStep
    DEF StreamTypesInv, Types, DataTypes, vars, connVars, loopVars, histVars
<1> QED
  BY <1>1, <1>2

LEMMA StreamTypesAlways == Spec => []StreamTypesInv
BY StreamTypesInit, StreamTypesStep, PTL DEF Spec

\* Every variable of the connection keeps its range.
THEOREM TypeCorrect == Spec => []TypeOK
<1>1. StreamTypesInv => TypeOK
  BY SizesAssumption, SMTT(40) DEF StreamTypesInv, Types, DataTypes, ControlTypes, TypeOK, UnitSet
<1> QED
  BY <1>1, StreamTypesAlways, PTL

\* What the kernel took and what is buffered is what send() was given, for any
\* number of threads that send, shut down and lose the connection.
THEOREM StreamIntact == Spec => []StreamInOrder
<1>1. StreamTypesInv => StreamInOrder
  <2> SUFFICES ASSUME StreamTypesInv PROVE StreamInOrder
    OBVIOUS
  <2>1. accepted \in Seq(UnitSet) /\ wire \in Seq(UnitSet) /\ StreamInv
    BY DEF StreamTypesInv, Types, DataTypes
  <2>2. IsPrefix(accepted, accepted) /\ wire \o <<>> = wire
    BY <2>1, PrefixOfItself, ConcatEmptySeq
  <2> QED
    BY <2>1, <2>2 DEF StreamInv, StreamInOrder
<1> QED
  BY <1>1, StreamTypesAlways, PTL

-----------------------------------------------------------------------------
(* No message after the down callback.                                     *)

At(q, i, f) == i \in 1..Len(q) /\ q[i] = f

\* connectEstablished, the first functor, is what asks for EPOLLIN; what has
\* been reported down never asks for it again, though a send() whose functor
\* comes later may put the channel back into the epoll set.
MessageInv ==
  /\ \A i \in Nat : At(ioQueue, i, <<"establish">>) => i = 1 /\ state_ = "kConnecting"
  /\ state_ = "kConnecting" =>
       /\ At(ioQueue, 1, <<"establish">>)
       /\ channel_ = NewChannel /\ revents = {} /\ ~inUser /\ downs = 0
       /\ \A t \in Threads : call[t] # <<"store">>
  /\ downs > 0 => "in" \notin channel_.events
  /\ ~sock.rst => /\ ~sock.err /\ "err" \notin revents /\ ~lateMessage
                  /\ (downs > 0 => "in" \notin revents)

\* The functors added to the queue are no connectEstablished.
LEMMA EstablishIsFirst ==
  ASSUME NEW q \in Seq(Functors), NEW post \in Seq(Functors),
         \A i \in 1..Len(post) : post[i] # <<"establish">>
  PROVE  \A i \in Nat : At(q \o post, i, <<"establish">>) <=> At(q, i, <<"establish">>)
<1>1. /\ Len(q) \in Nat /\ Len(post) \in Nat /\ Len(q \o post) = Len(q) + Len(post)
      /\ \A i \in 1..(Len(q) + Len(post)) :
           (q \o post)[i] = IF i <= Len(q) THEN q[i] ELSE post[i - Len(q)]
  BY LenProperties, ConcatProperties
<1>2. ASSUME NEW i \in Nat
      PROVE  At(q \o post, i, <<"establish">>) <=> At(q, i, <<"establish">>)
  <2>1. CASE i <= Len(q)
    BY <1>1, <2>1 DEF At
  <2>2. CASE i > Len(q)
    <3>1. i \in 1..Len(q \o post) => i - Len(q) \in 1..Len(post)
      BY <1>1, <2>2
    <3> QED
      BY <1>1, <2>2, <3>1 DEF At
  <2> QED
    BY <1>1, <2>1, <2>2
<1> QED
  BY <1>2

\* Callbacks for the user are none either.
LEMMA PostsEstablishNothing ==
  ASSUME NEW q \in Seq(Functors), NEW post \in Posts
  PROVE  \A i \in Nat : At(q \o post, i, <<"establish">>) <=> At(q, i, <<"establish">>)
<1>1. \A i \in 1..Len(post) : post[i] \in {<<"complete">>, <<"highWater">>}
  BY ElementOfSeq DEF Posts
<1>2. post \in Seq(Functors) /\ \A i \in 1..Len(post) : post[i] # <<"establish">>
  BY <1>1, OptionalPosts
<1> QED
  BY <1>2, EstablishIsFirst

\* A step that leaves the state and the channel alone, ...
LEMMA MessageQuiet ==
  ASSUME MessageInv, UNCHANGED <<state_, channel_, downs>>,
         \A i \in Nat : At(ioQueue', i, <<"establish">>) <=> At(ioQueue, i, <<"establish">>),
         state_ = "kConnecting" =>
           revents' = {} /\ ~inUser' /\ \A t \in Threads : call'[t] # <<"store">>,
         sock'.rst \/ (~sock.rst /\ (sock'.err => sock.err) /\ (lateMessage' => lateMessage)),
         ~sock'.rst => "err" \notin revents' /\ (downs > 0 => "in" \notin revents')
  PROVE  MessageInv'
BY DEF MessageInv

\* ... and one of an established connection that asks for EPOLLIN no more
\* than before and not at all when it closes.
LEMMA MessageOpened ==
  ASSUME MessageInv, state_ # "kConnecting", state_' # "kConnecting",
         \A i \in Nat : ~At(ioQueue', i, <<"establish">>),
         downs' = downs \/ "in" \notin channel_'.events,
         "in" \in channel_'.events => "in" \in channel_.events,
         sock'.rst = sock.rst, sock'.err => sock.err, UNCHANGED lateMessage,
         revents' \subseteq revents,
         sock.rst \/ downs' = downs \/ "in" \notin revents'
  PROVE  MessageInv'
BY DEF MessageInv

LEMMA MessagePeer ==
  ASSUME Types, MessageInv, Peer
  PROVE  MessageInv'
<1>1. UNCHANGED <<state_, channel_, ioQueue, call, downs, lateMessage, revents, inUser>>
  BY DEF Peer, PeerSends, PeerReads, PeerCloses, PeerResets, PeerStep, loopVars, serverVars, histVars
<1>2. sock \in SockType
  BY DEF Types, DataTypes
<1>3. sock'.rst \/ (~sock.rst /\ sock'.err = sock.err)
  BY <1>2 DEF SockType, Peer, PeerSends, PeerReads, PeerCloses, PeerResets, PeerStep
<1>4. ~sock'.rst => ~sock.rst
  BY <1>2, <1>3 DEF SockType
<1> QED
  BY <1>1, <1>3, <1>4, MessageQuiet DEF MessageInv

LEMMA MessagePoll ==
  ASSUME Types, MessageInv,
         UserReturns \/ PollReports \/ PollReportsOthers \/ SwapFunctors \/ PassEnds
  PROVE  MessageInv'
<1>1. /\ UNCHANGED <<state_, channel_, sock, ioQueue, call, downs, lateMessage>>
      /\ inUser' => inUser
      /\ revents' \in {{}, revents, Reported}
  BY DEF UserReturns, PollReports, PollReportsOthers, SwapFunctors, PassEnds, connVars,
         serverVars, histVars
<1>2. /\ "in" \in Reported => "in" \in channel_.events
      /\ "err" \in Reported => sock.err
      /\ channel_ = NewChannel => Reported = {}
  <2>1. "in" \in Reported => "in" \in channel_.events
    BY DEF Reported
  <2>2. "err" \in Reported => sock.err
    BY DEF Reported
  <2>3. channel_ = NewChannel => Reported = {}
    BY DEF Reported, NewChannel
  <2> QED
    BY <2>1, <2>2, <2>3
<1>3. sock.rst \in BOOLEAN
  BY DEF Types, DataTypes, SockType
<1>4. state_ = "kConnecting" => revents' = {} /\ ~inUser'
  BY <1>1, <1>2 DEF MessageInv
<1>5. ~sock.rst => "err" \notin revents' /\ (downs > 0 => "in" \notin revents')
  BY <1>1, <1>2 DEF MessageInv
<1> QED
  BY <1>1, <1>3, <1>4, <1>5, MessageQuiet DEF MessageInv

\* A handler that closes saw no EPOLLIN after it, unless the peer has reset.
LEMMA MessageTurn ==
  ASSUME Types, MessageInv, TurnHup \/ TurnErr \/ HandleRead \/ TurnOut
  PROVE  MessageInv'
<1>1. /\ sock \in SockType /\ sock.rst \in BOOLEAN /\ ioQueue \in Seq(Functors)
      /\ channel_ \in ChannelType
  BY DEF Types, DataTypes, SockType
<1>2. ASSUME NEW e, Turn(e)
      PROVE  /\ e \in revents /\ revents' = revents \ {e} /\ state_ # "kConnecting"
             /\ UNCHANGED call /\ \A i \in Nat : ~At(ioQueue, i, <<"establish">>)
  BY <1>2 DEF Turn, MessageInv
<1>3. ASSUME NEW e, Turn(e), HandleClose, UNCHANGED <<ioQueue, lateMessage>>,
             sock' \in {sock, [sock EXCEPT !.err = FALSE]},
             sock.rst \/ "in" \notin revents'
      PROVE  MessageInv'
  <2>1. state_' = "kDisconnected" /\ channel_'.events = {}
    BY <1>3, CloseEffect
  <2>2. sock'.rst = sock.rst /\ (sock'.err => sock.err)
    BY <1>1, <1>3 DEF SockType
  <2>3. /\ revents' \subseteq revents /\ state_ # "kConnecting"
        /\ \A i \in Nat : ~At(ioQueue', i, <<"establish">>)
    BY <1>2, <1>3
  <2> QED
    BY <1>3, <2>1, <2>2, <2>3, MessageOpened
<1>4. CASE TurnHup
  <2>1. Turn("hup") /\ UNCHANGED <<sock, ioQueue, lateMessage, inUser>>
    BY <1>4 DEF TurnHup, TurnHupIf
  <2>2. CASE "in" \notin revents
    <3>1. HandleClose /\ revents' \subseteq revents
      BY <1>2, <1>4, <2>1, <2>2 DEF TurnHup, TurnHupIf
    <3> QED
      BY <1>3, <2>1, <2>2, <3>1
  <2>3. CASE "in" \in revents
    <3>1. UNCHANGED <<state_, channel_, downs>> /\ revents' \subseteq revents
      BY <1>2, <1>4, <2>1, <2>3 DEF TurnHup, TurnHupIf
    <3> QED
      BY <1>2, <2>1, <3>1, MessageOpened
  <2> QED
    BY <2>2, <2>3
<1>5. CASE TurnErr
  <2>1. /\ Turn("err") /\ HandleClose /\ UNCHANGED <<ioQueue, lateMessage>>
        /\ sock' = [sock EXCEPT !.err = FALSE]
    BY <1>5 DEF TurnErr, HandleError
  <2>2. sock.rst
    BY <1>2, <2>1 DEF MessageInv
  <2> QED
    BY <1>3, <2>1, <2>2
<1>6. CASE HandleRead
  <2>1. Turn("in") /\ UNCHANGED ioQueue /\ "in" \in revents /\ "in" \notin revents'
    BY <1>2, <1>6 DEF HandleRead
  <2>2. CASE sock.rx > 0
    <3>1. sock' = [sock EXCEPT !.rx = 0] /\ UNCHANGED <<state_, channel_, downs>>
          /\ lateMessage' = (lateMessage \/ downs > 0)
      BY <1>6, <2>2 DEF HandleRead
    <3>2. sock'.rst = sock.rst /\ sock'.err = sock.err
      BY <1>1, <3>1 DEF SockType
    <3>3. ~sock.rst => ~lateMessage'
      BY <2>1, <3>1 DEF MessageInv
    <3>4. state_ # "kConnecting" /\ revents' \subseteq revents
      BY <1>2, <2>1
    <3> QED
      BY <1>1, <2>1, <3>1, <3>2, <3>3, <3>4, MessageQuiet DEF MessageInv
  <2>3. CASE ~(sock.rx > 0)
    <3>1. HandleClose /\ sock' \in {sock, [sock EXCEPT !.err = FALSE]} /\ UNCHANGED lateMessage
      BY <1>6, <2>3 DEF HandleRead, HandleError
    <3> QED
      BY <1>3, <2>1, <3>1
  <2> QED
    BY <2>2, <2>3
<1>7. CASE TurnOut
  <2>1. Turn("out") /\ HandleWrite /\ UNCHANGED <<state_, downs, lateMessage>>
    BY <1>7 DEF TurnOut
  <2>2. PICK post \in Posts : ioQueue' = ioQueue \o post
    BY <2>1, WriteEffect DEF Types
  <2>3. "in" \in channel_'.events => "in" \in channel_.events
    BY <1>1, <2>1, WriteEffect, ChannelCalls DEF Types
  <2>4. sock'.rst = sock.rst
    BY <1>1, <2>1, WriteEffect DEF Types, SockType
  <2>5. sock'.err => sock.err
    BY <1>1, <2>1 DEF HandleWrite, ShutdownInLoop, SockType
  <2>6. /\ state_ # "kConnecting" /\ revents' \subseteq revents
        /\ \A i \in Nat : ~At(ioQueue', i, <<"establish">>)
    BY <1>1, <1>2, <2>1, <2>2, PostsEstablishNothing
  <2> QED
    BY <2>1, <2>3, <2>4, <2>5, <2>6, MessageOpened
<1> QED
  BY <1>4, <1>5, <1>6, <1>7

\* sendInLoop, on what is left of the queue, asks for EPOLLOUT only.
LEMMA MessageSend ==
  ASSUME Types, MessageInv, NEW m \in Messages, NEW queue \in Seq(Functors),
         SendInLoop(m, queue), state_ # "kConnecting",
         \A i \in Nat : ~At(queue, i, <<"establish">>),
         UNCHANGED <<state_, downs, lateMessage, revents>>
  PROVE  MessageInv'
<1>1. DataTypes /\ channel_ \in ChannelType /\ sock \in SockType
  BY DEF Types, DataTypes
<1>2. PICK post \in Posts : ioQueue' = queue \o post
  BY <1>1, SendEffect
<1>3. \A i \in Nat : ~At(ioQueue', i, <<"establish">>)
  BY <1>2, PostsEstablishNothing
<1>4. channel_' = channel_ \/ channel_' = [events |-> channel_.events \cup {"out"}, index |-> "kAdded"]
  BY <1>1, SendEffect, ChannelCalls
<1>5. sock'.rst = sock.rst /\ (sock'.err => sock.err)
  <2>1. sock' \in {sock, [sock EXCEPT !.err = FALSE]}
    BY <1>1, SendEffect
  <2> QED
    BY <1>1, <2>1 DEF SockType
<1> QED
  BY <1>3, <1>4, <1>5, MessageOpened

LEMMA MessageUser ==
  ASSUME Types, MessageInv, User
  PROVE  MessageInv'
<1>1. /\ state_ = "kConnected" /\ UNCHANGED <<revents, inUser, call, downs, lateMessage>>
      /\ ioQueue \in Seq(Functors) /\ sock \in SockType
  BY DEF User, UserSends, SendWhen, UserShutsDown, InCallback, histVars, Types, DataTypes
<1>2. \A i \in Nat : ~At(ioQueue, i, <<"establish">>)
  BY <1>1 DEF MessageInv
<1>3. ASSUME NEW m \in Messages, UserSends(m) PROVE MessageInv'
  BY <1>1, <1>2, <1>3, MessageSend DEF UserSends, SendWhen
<1>4. CASE UserShutsDown
  <2>1. /\ sock' = ShutdownInLoop(channel_) /\ state_' = "kDisconnecting"
        /\ UNCHANGED <<channel_, ioQueue>>
    BY <1>4 DEF UserShutsDown
  <2>2. sock'.rst = sock.rst /\ sock'.err = sock.err
    BY <1>1, <2>1 DEF ShutdownInLoop, SockType
  <2> QED
    BY <1>1, <1>2, <2>1, <2>2, MessageOpened
<1> QED
  BY <1>3, <1>4 DEF User

LEMMA MessageFunctor ==
  ASSUME Types, MessageInv,
         \/ ConnectEstablished \/ ConnectDestroyed \/ QueuedShutdown \/ QueuedSend \/ UserCallback
  PROVE  MessageInv'
<1>1. PICK f : NextFunctor(f)
  BY DEF ConnectEstablished, ConnectDestroyed, DestroyReporting, QueuedShutdown, QueuedSend,
         UserCallback
<1>2. /\ ioQueue # <<>> /\ Head(ioQueue) = ioQueue[1] /\ ioQueue[1] \in Functors
      /\ Tail(ioQueue) \in Seq(Functors) /\ UNCHANGED <<revents, call>> /\ revents = {}
      /\ channel_ \in ChannelType /\ sock \in SockType
  BY <1>1, NextRuns DEF Types, ControlTypes, DataTypes
<1>3. \A i \in Nat : ~At(Tail(ioQueue), i, <<"establish">>)
  <2> SUFFICES ASSUME NEW i \in Nat, At(Tail(ioQueue), i, <<"establish">>) PROVE FALSE
    OBVIOUS
  <2>1. /\ Len(ioQueue) \in Nat /\ Len(Tail(ioQueue)) = Len(ioQueue) - 1
        /\ \A k \in 1..Len(Tail(ioQueue)) : Tail(ioQueue)[k] = ioQueue[k + 1]
    BY <1>2, LenProperties, HeadTailProperties DEF Types, DataTypes
  <2>2. At(ioQueue, i + 1, <<"establish">>) /\ i + 1 # 1 /\ i + 1 \in Nat
    BY <2>1 DEF At
  <2> QED
    BY <2>2 DEF MessageInv
<1>4. ASSUME ioQueue[1][1] # "establish" PROVE state_ # "kConnecting"
  BY <1>4 DEF MessageInv, At
<1>5. CASE ConnectEstablished
  <2>1. /\ NextFunctor("establish") /\ ioQueue' = Tail(ioQueue) /\ state_' = "kConnected"
        /\ UNCHANGED <<sock, downs, lateMessage>>
    BY <1>5 DEF ConnectEstablished, histVars
  <2>2. At(ioQueue, 1, <<"establish">>)
    <3>1. ioQueue[1] = <<"establish">>
      BY <1>2, <2>1, NextRuns, FunctorNames
    <3>2. Len(ioQueue) \in Nat \ {0}
      BY <1>2, EmptySeq, LenProperties DEF Types, DataTypes
    <3> QED
      BY <3>1, <3>2 DEF At
  <2>3. downs = 0
    BY <2>2 DEF MessageInv
  <2> QED
    BY <1>2, <1>3, <2>1, <2>3 DEF MessageInv
<1>6. CASE ConnectDestroyed
  <2>1. /\ NextFunctor("destroy") /\ ioQueue' = Tail(ioQueue)
        /\ state_' \in {state_, "kDisconnected"}
        /\ channel_' = RemoveChannel(IF state_ = "kConnected"
                                     THEN UpdateChannel(DisableAll(channel_)) ELSE channel_)
        /\ state_ # "kConnected" => downs' = downs
        /\ UNCHANGED <<sock, lateMessage>>
    BY <1>6 DEF ConnectDestroyed, DestroyReporting
  <2>2. state_ # "kConnecting"
    BY <1>2, <1>4, <2>1, NextRuns
  <2>3. UpdateChannel(DisableAll(channel_)) \in ChannelType
        /\ UpdateChannel(DisableAll(channel_)).events = {}
    BY <1>2, ChannelCalls, ChannelStays
  <2>4. /\ state_ = "kConnected" => channel_'.events = {}
        /\ state_ # "kConnected" => channel_'.events = channel_.events
    <3>1. CASE state_ = "kConnected"
      BY <2>1, <2>3, <3>1, ChannelCalls
    <3>2. CASE state_ # "kConnected"
      BY <1>2, <2>1, <3>2, ChannelCalls
    <3> QED
      BY <3>1, <3>2
  <2> QED
    BY <1>2, <1>3, <2>1, <2>2, <2>4, MessageOpened
<1>7. CASE QueuedShutdown
  <2>1. /\ NextFunctor("shutdown") /\ ioQueue' = Tail(ioQueue) /\ sock' = ShutdownInLoop(channel_)
        /\ UNCHANGED <<state_, channel_, downs, lateMessage>>
    BY <1>7 DEF QueuedShutdown, histVars
  <2>2. sock'.rst = sock.rst /\ sock'.err = sock.err
    BY <1>2, <2>1 DEF ShutdownInLoop, SockType
  <2>3. state_ # "kConnecting"
    BY <1>2, <1>4, <2>1, NextRuns
  <2> QED
    BY <1>2, <1>3, <2>1, <2>2, <2>3, MessageOpened
<1>8. CASE QueuedSend
  <2>1. /\ NextFunctor("send") /\ SendInLoop(Head(ioQueue)[2], Tail(ioQueue))
        /\ UNCHANGED <<state_, downs, lateMessage>>
    BY <1>8 DEF QueuedSend
  <2>2. Head(ioQueue)[2] \in Messages /\ state_ # "kConnecting"
    BY <1>2, <1>4, <2>1, NextRuns, FunctorNames
  <2> QED
    BY <1>2, <1>3, <2>1, <2>2, MessageSend
<1>9. CASE UserCallback
  <2>1. /\ NextFunctor("complete") \/ NextFunctor("highWater")
        /\ ioQueue' = Tail(ioQueue)
        /\ UNCHANGED <<state_, channel_, sock, downs, lateMessage>>
    BY <1>9 DEF UserCallback, connVars, histVars
  <2>2. state_ # "kConnecting"
    BY <1>2, <1>4, <2>1, NextRuns
  <2> QED
    BY <1>2, <1>3, <2>1, <2>2, MessageOpened
<1> QED
  BY <1>5, <1>6, <1>7, <1>8, <1>9

LEMMA MessageThreads ==
  ASSUME Types, MessageInv,
         \/ \E w \in Workers : Worker(w)
         \/ \E t \in Threads : Finishes(t)
         \/ EntryExpires \/ RemoveConnectionInLoop \/ DestroyServer
  PROVE  MessageInv'
<1>1. /\ call \in [Threads -> CallStates] /\ ioQueue \in Seq(Functors)
      /\ sock.rst \in BOOLEAN /\ Workers \subseteq Threads /\ "base" \in Threads
  BY DEF Types, DataTypes, SockType, Threads
\* What these threads leave alone, and the functors they queue.
<1>2. ASSUME UNCHANGED <<state_, channel_, sock, downs, lateMessage, revents, inUser>>,
             \/ ioQueue' = ioQueue
             \/ \E f \in Functors \ {<<"establish">>} : ioQueue' = ioQueue \o <<f>>,
             state_ = "kConnecting" => \A t \in Threads : call'[t] # <<"store">>
      PROVE  MessageInv'
  <2>1. \A i \in Nat : At(ioQueue', i, <<"establish">>) <=> At(ioQueue, i, <<"establish">>)
    <3>1. CASE ioQueue' = ioQueue
      BY <3>1
    <3>2. ASSUME NEW f \in Functors \ {<<"establish">>}, ioQueue' = ioQueue \o <<f>>
          PROVE  \A i \in Nat : At(ioQueue', i, <<"establish">>) <=> At(ioQueue, i, <<"establish">>)
      <4>1. <<f>> \in Seq(Functors) /\ \A i \in 1..Len(<<f>>) : <<f>>[i] # <<"establish">>
        BY <3>2
      <4> QED
        BY <1>1, <3>2, <4>1, EstablishIsFirst
    <3> QED
      BY <1>2, <3>1, <3>2
  <2> QED
    BY <1>1, <1>2, <2>1, MessageQuiet DEF MessageInv
\* A call that goes one step further.
<1>3. ASSUME NEW t \in Threads, NEW to \in CallStates, call' = [call EXCEPT ![t] = to],
             state_ = "kConnecting" => to # <<"store">>
      PROVE  state_ = "kConnecting" => \A u \in Threads : call'[u] # <<"store">>
  BY <1>1, <1>3 DEF MessageInv
<1>4. {<<"idle">>, <<"gone">>, <<"store">>, <<"post">>} \subseteq CallStates
      /\ (\A m \in Messages : <<"send", m>> \in CallStates)
  BY DEF CallStates
<1>5. ASSUME NEW w \in Workers, Worker(w) PROVE MessageInv'
  <2>1. PICK to \in CallStates : /\ call' = [call EXCEPT ![w] = to]
                                 /\ state_ = "kConnecting" => to # <<"store">>
    <3>1. CASE HandOver(w) \/ DropReference(w)
      BY <1>4, <3>1 DEF HandOver, DropReference, Steps
    <3>2. ASSUME NEW m \in Messages, Send(w, m)
          PROVE  \E to \in CallStates : /\ call' = [call EXCEPT ![w] = to]
                                        /\ state_ = "kConnecting" => to # <<"store">>
      BY <1>4, <3>2 DEF Send, Steps
    <3>3. CASE Shutdown(w)
      BY <1>4, <3>3 DEF Shutdown, Steps
    <3> QED
      BY <1>5, <3>1, <3>2, <3>3 DEF Worker
  <2>2. UNCHANGED <<state_, channel_, sock, downs, lateMessage, revents, inUser, ioQueue>>
    BY <1>5 DEF Worker, HandOver, DropReference, Send, Shutdown, connVars, loopVars, histVars
  <2> QED
    BY <1>1, <1>2, <1>3, <2>1, <2>2
<1>6. ASSUME NEW t \in Threads, Finishes(t) PROVE MessageInv'
  <2>1. CASE PostSend(t)
    <3>1. /\ call[t] \in Functors \ {<<"establish">>} /\ ioQueue' = ioQueue \o <<call[t]>>
          /\ call' = [call EXCEPT ![t] = <<"idle">>]
          /\ UNCHANGED <<state_, channel_, sock, downs, lateMessage, revents, inUser>>
      <4>1. call[t] \in CallStates /\ call[t][1] = "send"
        BY <1>1, <2>1 DEF PostSend
      <4>2. call[t] \in Functors \ {<<"establish">>}
        BY <4>1 DEF CallStates, Functors
      <4>3. ioQueue' = ioQueue \o <<call[t]>>
        BY <1>1, <2>1, <4>2, AppendIsConcat DEF PostSend
      <4> QED
        BY <2>1, <4>2, <4>3 DEF PostSend, Steps, connVars, histVars
    <3> QED
      BY <1>2, <1>3, <1>4, <3>1
  <2>2. CASE StoreDisconnecting(t)
    <3>1. /\ call[t] = <<"store">> /\ state_' = "kDisconnecting"
          /\ UNCHANGED <<channel_, sock, ioQueue, revents, downs, lateMessage>>
      BY <2>2 DEF StoreDisconnecting, Steps, loopVars, histVars
    <3>2. state_ # "kConnecting"
      BY <3>1 DEF MessageInv
    <3>3. \A i \in Nat : ~At(ioQueue', i, <<"establish">>)
      BY <3>1, <3>2 DEF MessageInv
    <3> QED
      BY <3>1, <3>2, <3>3, MessageOpened
  <2>3. CASE PostShutdown(t)
    <3>1. /\ ioQueue' = ioQueue \o <<<<"shutdown">>>> /\ <<"shutdown">> \in Functors
          /\ call' = [call EXCEPT ![t] = <<"idle">>]
          /\ UNCHANGED <<state_, channel_, sock, downs, lateMessage, revents, inUser>>
      BY <1>1, <2>3, AppendIsConcat DEF PostShutdown, Steps, connVars, histVars, Functors
    <3> QED
      BY <1>2, <1>3, <1>4, <3>1
  <2> QED
    BY <1>6, <2>1, <2>2, <2>3 DEF Finishes
<1>7. CASE EntryExpires
  <2>1. /\ state_ = "kConnected"
        /\ UNCHANGED <<state_, channel_, sock, downs, lateMessage, revents, inUser, ioQueue>>
    BY <1>7 DEF EntryExpires, Shutdown, connVars, loopVars, histVars
  <2> QED
    BY <1>2, <2>1
<1>8. CASE RemoveConnectionInLoop \/ DestroyServer
  <2>1. /\ UNCHANGED <<state_, channel_, sock, downs, lateMessage, revents, inUser, call>>
        /\ ioQueue' = ioQueue \/ ioQueue' = ioQueue \o <<<<"destroy">>>>
    BY <1>8 DEF RemoveConnectionInLoop, DestroyServer, RemovesFromMap, RemoveAnd, connVars,
                loopVars, histVars
  <2>2. <<"destroy">> \in Functors \ {<<"establish">>}
    BY DEF Functors
  <2>3. state_ = "kConnecting" => \A t \in Threads : call'[t] # <<"store">>
    BY <2>1 DEF MessageInv
  <2> QED
    BY <1>2, <2>1, <2>2, <2>3
<1> QED
  BY <1>5, <1>6, <1>7, <1>8

LEMMA MessageAlways == Spec => [](Types /\ MessageInv)
<1>1. Init => MessageInv
  <2> SUFFICES ASSUME Init PROVE MessageInv
    OBVIOUS
  <2>1. /\ state_ = "kConnecting" /\ channel_ = NewChannel /\ revents = {} /\ ~inUser
        /\ downs = 0 /\ ~sock.err /\ ~lateMessage /\ ioQueue = <<<<"establish">>>>
        /\ \A t \in Threads : call[t] # <<"store">>
    BY DEF Init
  <2>2. \A i \in Nat : At(ioQueue, i, <<"establish">>) <=> i = 1
    BY <2>1 DEF At
  <2> QED
    BY <2>1, <2>2 DEF MessageInv
<1>2. Types /\ MessageInv /\ [Next]_vars => MessageInv'
  <2> SUFFICES ASSUME Types, MessageInv, [Next]_vars PROVE MessageInv'
    OBVIOUS
  <2>1. CASE UNCHANGED vars
    <3>1. UNCHANGED <<state_, channel_, sock, downs, lateMessage, revents, inUser, call, ioQueue>>
      BY <2>1 DEF vars, connVars, loopVars, histVars
    <3> QED
      BY <3>1 DEF MessageInv
  <2>2. CASE IoThread
    BY <2>2, MessagePoll, MessageTurn, MessageFunctor DEF IoThread
  <2> QED
    BY <2>1, <2>2, MessagePeer, MessageUser, MessageThreads DEF Next
<1>3. StreamTypesInv => Types
  BY DEF StreamTypesInv
<1> QED
  BY <1>1, <1>2, <1>3, StreamTypesAlways, PTL DEF Spec

\* A reset apart, messageCallback_ is not called after the down callback,
\* whatever the other threads do with the connection.
THEOREM DownIsLast == Spec => []NoMessageAfterDown
<1>1. MessageInv => NoMessageAfterDown
  BY DEF MessageInv, NoMessageAfterDown
<1> QED
  BY <1>1, MessageAlways, PTL

-----------------------------------------------------------------------------
(* The queue of functors, callbacks of the user apart.                     *)

Open == {"kConnecting", "kConnected"}

\* The functors but for the callbacks of the user.
Control == Functors \ {<<"complete">>, <<"highWater">>}

Queued(f) == \E i \in Nat : At(ioQueue, i, f)

\* How a step changes the queue: callbacks are added, f is, or the first
\* functor is gone.
SameControl == \A f \in Control, i \in Nat : At(ioQueue', i, f) <=> At(ioQueue, i, f)
Added(new) == \A f \in Control, i \in Nat :
                At(ioQueue', i, f) <=> At(ioQueue, i, f) \/ (f = new /\ i = Len(ioQueue) + 1)
Shifted == \A f \in Control, i \in Nat : At(ioQueue', i, f) <=> i > 0 /\ At(ioQueue, i + 1, f)

LEMMA ControlFunctors ==
  /\ {<<"establish">>, <<"destroy">>, <<"shutdown">>} \subseteq Control
  /\ \A m \in Messages : <<"send", m>> \in Control
BY DEF Control, Functors

\* Callbacks queued behind the functors of any queue.
LEMMA PostsAreCallbacks ==
  ASSUME NEW q \in Seq(Functors), NEW post \in Posts
  PROVE  \A f \in Control, i \in Nat : At(q \o post, i, f) <=> At(q, i, f)
<1>1. /\ Len(q) \in Nat /\ Len(post) \in Nat /\ Len(q \o post) = Len(q) + Len(post)
      /\ \A i \in 1..(Len(q) + Len(post)) :
           (q \o post)[i] = IF i <= Len(q) THEN q[i] ELSE post[i - Len(q)]
  BY OptionalPosts, LenProperties, ConcatProperties
<1>2. \A i \in 1..Len(post) : post[i] \in {<<"complete">>, <<"highWater">>}
  BY ElementOfSeq DEF Posts
<1>3. ASSUME NEW f \in Control, NEW i \in Nat
      PROVE  At(q \o post, i, f) <=> At(q, i, f)
  <2>1. CASE i <= Len(q)
    BY <1>1, <2>1 DEF At
  <2>2. CASE i > Len(q)
    <3>1. i \in 1..Len(q \o post) => i - Len(q) \in 1..Len(post)
      BY <1>1, <2>2
    <3> QED
      BY <1>1, <1>2, <2>2, <3>1 DEF At, Control
  <2> QED
    BY <1>1, <2>1, <2>2
<1> QED
  BY <1>3

LEMMA PostsKeepControl ==
  ASSUME ioQueue \in Seq(Functors), NEW post \in Posts, ioQueue' = ioQueue \o post
  PROVE  SameControl
BY PostsAreCallbacks DEF SameControl

LEMMA AppendAdds ==
  ASSUME ioQueue \in Seq(Functors), NEW new \in Functors, ioQueue' = Append(ioQueue, new)
  PROVE  Added(new)
<1>1. /\ Len(ioQueue) \in Nat /\ Len(ioQueue') = Len(ioQueue) + 1
      /\ \A i \in 1..Len(ioQueue) : ioQueue'[i] = ioQueue[i]
      /\ ioQueue'[Len(ioQueue) + 1] = new
  BY LenProperties, AppendProperties
<1> QED
  BY <1>1 DEF Added, At

LEMMA TailShifts ==
  ASSUME ioQueue \in Seq(Functors), ioQueue # <<>>, ioQueue' = Tail(ioQueue)
  PROVE  Shifted
<1>1. /\ Len(ioQueue) \in Nat /\ Len(ioQueue') = Len(ioQueue) - 1
      /\ \A i \in 1..Len(ioQueue') : ioQueue'[i] = ioQueue[i + 1]
  BY LenProperties, HeadTailProperties
<1> QED
  BY <1>1 DEF Shifted, At

-----------------------------------------------------------------------------
(* Nothing is written once the write side is shut, but what another        *)
(* thread's send() has queued.                                             *)

\* Whoever shuts the write side, or is about to, has closed the connection for
\* send(); and until it is down it asks for EPOLLIN, so that handleWrite, which
\* looks for EPOLLOUT alone, does nothing.
ShutInv ==
  /\ (sock.wrShut \/ Queued(<<"shutdown">>) \/ \E t \in Threads : call[t] = <<"post">>)
       => state_ \notin Open
  /\ downs = 0 /\ state_ # "kConnecting" => "in" \in channel_.events

\* A step keeps ShutInv when it does not open the connection, closes it if it
\* shuts the write side or is the first on the way there, and drops EPOLLIN
\* only with a down callback.
LEMMA ShutKept ==
  ASSUME Types, ShutInv, state_' = state_ \/ state_' \notin Open,
         sock'.wrShut => sock.wrShut \/ state_' \notin Open,
         Queued(<<"shutdown">>)' => Queued(<<"shutdown">>) \/ state_' \notin Open,
         \A t \in Threads : call'[t] = <<"post">> => call[t] = <<"post">> \/ state_' \notin Open,
         \/ downs' = downs + 1
         \/ /\ downs' = downs
            /\ "in" \in channel_.events => "in" \in channel_'.events
            /\ state_ = "kConnecting" => state_' = "kConnecting"
  PROVE  ShutInv'
<1>1. (sock'.wrShut \/ Queued(<<"shutdown">>)' \/ \E t \in Threads : call'[t] = <<"post">>)
        => state_' \notin Open
  BY DEF ShutInv
<1>2. downs' = 0 /\ state_' # "kConnecting" => "in" \in channel_'.events
  <2>1. downs \in Nat
    BY DEF Types, ControlTypes
  <2> QED
    BY <2>1 DEF ShutInv
<1> QED
  BY <1>1, <1>2 DEF ShutInv

\* A step that touches neither the state nor the threads' calls, and whose
\* functors end no stream.
LEMMA ShutQuiet ==
  ASSUME Types, ShutInv, UNCHANGED <<state_, call, downs>>,
         sock'.wrShut => sock.wrShut \/ state_ \notin Open,
         Queued(<<"shutdown">>)' => Queued(<<"shutdown">>),
         "in" \in channel_.events => "in" \in channel_'.events
  PROVE  ShutInv'
BY ShutKept

\* sendInLoop asks for EPOLLOUT more at most, and queues callbacks only.
LEMMA ShutSend ==
  ASSUME Types, ShutInv, NEW m \in Messages, NEW queue \in Seq(Functors),
         SendInLoop(m, queue), UNCHANGED <<state_, call, downs>>,
         \A i \in Nat : At(queue, i, <<"shutdown">>) => Queued(<<"shutdown">>)
  PROVE  ShutInv'
<1>1. DataTypes /\ channel_ \in ChannelType /\ sock \in SockType
  BY DEF Types, DataTypes
<1>2. PICK post \in Posts : ioQueue' = queue \o post
  BY <1>1, SendEffect
<1>3. Queued(<<"shutdown">>)' => Queued(<<"shutdown">>)
  BY <1>2, PostsAreCallbacks, ControlFunctors DEF Queued
<1>4. "in" \in channel_.events => "in" \in channel_'.events
  <2>1. channel_' = channel_ \/ channel_' = UpdateChannel(EnableWriting(channel_))
    BY <1>1, SendEffect
  <2>2. UpdateChannel(EnableWriting(channel_)).events = channel_.events \cup {"out"}
    BY <1>1, ChannelCalls
  <2> QED
    BY <2>1, <2>2
<1>5. sock'.wrShut = sock.wrShut
  BY <1>1, SendEffect DEF SockType
<1> QED
  BY <1>3, <1>4, <1>5, ShutQuiet

LEMMA ShutPeer ==
  ASSUME Types, ShutInv, Peer
  PROVE  ShutInv'
<1>1. UNCHANGED <<state_, channel_, ioQueue, call, downs>>
  BY DEF Peer, PeerSends, PeerReads, PeerCloses, PeerResets, PeerStep, loopVars, serverVars, histVars
<1>2. sock'.wrShut = sock.wrShut
  BY DEF Types, DataTypes, SockType, Peer, PeerSends, PeerReads, PeerCloses, PeerResets, PeerStep
<1>3. Queued(<<"shutdown">>)' <=> Queued(<<"shutdown">>)
  BY <1>1 DEF Queued
<1> QED
  BY <1>1, <1>2, <1>3, ShutQuiet

LEMMA ShutPoll ==
  ASSUME Types, ShutInv,
         UserReturns \/ PollReports \/ PollReportsOthers \/ SwapFunctors \/ PassEnds
  PROVE  ShutInv'
<1>1. UNCHANGED <<state_, channel_, sock, ioQueue, call, downs>>
  BY DEF UserReturns, PollReports, PollReportsOthers, SwapFunctors, PassEnds, connVars, histVars
<1>2. Queued(<<"shutdown">>)' <=> Queued(<<"shutdown">>)
  BY <1>1 DEF Queued
<1> QED
  BY <1>1, <1>2, ShutQuiet

\* handleWrite ends the stream of a connection that is kDisconnecting.
LEMMA ShutTurn ==
  ASSUME Types, ShutInv, TurnHup \/ TurnErr \/ HandleRead \/ TurnOut
  PROVE  ShutInv'
<1>1. channel_ \in ChannelType /\ sock \in SockType /\ ioQueue \in Seq(Functors)
  BY DEF Types, DataTypes
<1>2. call' = call
  BY DEF TurnHup, TurnHupIf, TurnErr, HandleRead, TurnOut, Turn
<1>3. CASE TurnHup \/ TurnErr \/ HandleRead
  <2>1. ioQueue' = ioQueue
    BY <1>3 DEF TurnHup, TurnHupIf, TurnErr, HandleRead
  <2>2. sock' \in {sock, [sock EXCEPT !.err = FALSE], [sock EXCEPT !.rx = 0]}
    BY <1>3 DEF TurnHup, TurnHupIf, TurnErr, HandleRead, HandleError
  <2>3. sock'.wrShut = sock.wrShut
    BY <1>1, <2>2 DEF SockType
  <2>4. Queued(<<"shutdown">>)' <=> Queued(<<"shutdown">>)
    BY <2>1 DEF Queued
  <2>5. HandleClose \/ UNCHANGED <<state_, channel_, downs, baseQueue>>
    BY <1>3 DEF TurnHup, TurnHupIf, TurnErr, HandleRead, HandleError
  <2>6. CASE HandleClose
    <3>1. state_' = "kDisconnected" /\ downs' = downs + 1
      BY <2>6, CloseEffect
    <3> QED
      BY <1>2, <2>3, <2>4, <3>1, ShutKept DEF Open
  <2>7. CASE UNCHANGED <<state_, channel_, downs, baseQueue>>
    BY <1>2, <2>3, <2>4, <2>7, ShutQuiet
  <2> QED
    BY <2>5, <2>6, <2>7
<1>4. CASE TurnOut
  <2>1. HandleWrite /\ UNCHANGED <<state_, downs>>
    BY <1>4 DEF TurnOut
  <2>2. PICK post \in Posts : ioQueue' = ioQueue \o post
    BY <2>1, WriteEffect DEF Types
  <2>3. Queued(<<"shutdown">>)' <=> Queued(<<"shutdown">>)
    BY <1>1, <2>2, PostsAreCallbacks, ControlFunctors DEF Queued
  <2>4. "in" \in channel_.events => "in" \in channel_'.events
    <3>1. channel_' = channel_ \/ channel_' = UpdateChannel(DisableWriting(channel_))
      BY <2>1, WriteEffect DEF Types
    <3>2. UpdateChannel(DisableWriting(channel_)).events = channel_.events \ {"out"}
      BY <1>1, ChannelCalls
    <3> QED
      BY <3>1, <3>2
  <2>5. sock'.wrShut => sock.wrShut \/ state_ = "kDisconnecting"
    BY <1>1, <2>1 DEF HandleWrite, ShutdownInLoop, SockType
  <2> QED
    BY <1>2, <2>1, <2>3, <2>4, <2>5, ShutQuiet DEF Open
<1> QED
  BY <1>3, <1>4

LEMMA ShutUser ==
  ASSUME Types, ShutInv, User
  PROVE  ShutInv'
<1>1. UNCHANGED <<call, downs>> /\ state_ = "kConnected"
  BY DEF User, UserSends, SendWhen, UserShutsDown, InCallback, histVars
<1>2. ASSUME NEW m \in Messages, UserSends(m) PROVE ShutInv'
  <2>1. SendInLoop(m, ioQueue) /\ state_' = state_ /\ ioQueue \in Seq(Functors)
    BY <1>2 DEF UserSends, SendWhen, Types, DataTypes
  <2>2. \A i \in Nat : At(ioQueue, i, <<"shutdown">>) => Queued(<<"shutdown">>)
    BY DEF Queued
  <2> QED
    BY <1>1, <2>1, <2>2, ShutSend
<1>3. CASE UserShutsDown
  <2>1. state_' = "kDisconnecting" /\ channel_' = channel_
    BY <1>3 DEF UserShutsDown
  <2> QED
    BY <1>1, <2>1, ShutKept DEF Open
<1> QED
  BY <1>2, <1>3 DEF User

\* connectEstablished opens the connection and asks for EPOLLIN; nobody has
\* called shutdown() before it.
LEMMA ShutFunctor ==
  ASSUME Types, MessageInv, ShutInv,
         \/ ConnectEstablished \/ ConnectDestroyed \/ QueuedShutdown \/ QueuedSend \/ UserCallback
  PROVE  ShutInv'
<1>1. PICK f : NextFunctor(f)
  BY DEF ConnectEstablished, ConnectDestroyed, DestroyReporting, QueuedShutdown, QueuedSend,
         UserCallback
<1>2. /\ ioQueue # <<>> /\ ioQueue \in Seq(Functors) /\ Head(ioQueue) = ioQueue[1]
      /\ ioQueue[1] \in Functors /\ Tail(ioQueue) \in Seq(Functors) /\ call' = call
      /\ channel_ \in ChannelType /\ sock \in SockType
  BY <1>1, NextRuns DEF Types, DataTypes
<1>3. At(ioQueue, 1, ioQueue[1])
  BY <1>2, EmptySeq, LenProperties DEF At
<1>4. \A i \in Nat : At(Tail(ioQueue), i, <<"shutdown">>) => Queued(<<"shutdown">>)
  <2> SUFFICES ASSUME NEW i \in Nat, At(Tail(ioQueue), i, <<"shutdown">>)
               PROVE  Queued(<<"shutdown">>)
    OBVIOUS
  <2>1. /\ Len(ioQueue) \in Nat /\ Len(Tail(ioQueue)) = Len(ioQueue) - 1
        /\ \A k \in 1..Len(Tail(ioQueue)) : Tail(ioQueue)[k] = ioQueue[k + 1]
    BY <1>2, LenProperties, HeadTailProperties
  <2>2. At(ioQueue, i + 1, <<"shutdown">>) /\ i + 1 \in Nat
    BY <2>1 DEF At
  <2> QED
    BY <2>2 DEF Queued
<1>5. ioQueue' = Tail(ioQueue) => (Queued(<<"shutdown">>)' => Queued(<<"shutdown">>))
  BY <1>4 DEF Queued
<1>6. ASSUME ioQueue[1][1] # "establish" PROVE state_ # "kConnecting"
  BY <1>6 DEF MessageInv, At
<1>7. CASE ConnectEstablished
  <2>1. /\ NextFunctor("establish") /\ ioQueue' = Tail(ioQueue) /\ state_' = "kConnected"
        /\ channel_' = UpdateChannel(EnableReading(channel_)) /\ sock' = sock
    BY <1>7 DEF ConnectEstablished
  <2>2. ioQueue[1] = <<"establish">>
    BY <1>2, <2>1, NextRuns, FunctorNames
  <2>3. state_ = "kConnecting"
    BY <1>3, <2>2 DEF MessageInv
  <2>4. "in" \in channel_'.events
    BY <1>2, <2>1, ChannelCalls
  <2>5. ~sock.wrShut /\ ~Queued(<<"shutdown">>) /\ \A t \in Threads : call[t] # <<"post">>
    BY <2>3 DEF ShutInv, Open
  <2> QED
    BY <1>2, <1>5, <2>1, <2>4, <2>5 DEF ShutInv
<1>8. CASE ConnectDestroyed
  <2>1. /\ NextFunctor("destroy") /\ ioQueue' = Tail(ioQueue) /\ sock' = sock
        /\ state_' = (IF state_ = "kConnected" THEN "kDisconnected" ELSE state_)
        /\ downs' = (IF state_ = "kConnected" THEN downs + 1 ELSE downs)
        /\ state_ # "kConnected" => channel_' = RemoveChannel(channel_)
    BY <1>8 DEF ConnectDestroyed, DestroyReporting
  <2>2. state_ # "kConnected" => channel_'.events = channel_.events
    BY <1>2, <2>1, ChannelCalls
  <2>3. state_ # "kConnecting"
    BY <1>2, <1>6, <2>1, NextRuns
  <2> QED
    BY <1>2, <1>5, <2>1, <2>2, <2>3, ShutKept DEF Open
<1>9. CASE QueuedShutdown
  <2>1. /\ NextFunctor("shutdown") /\ ioQueue' = Tail(ioQueue)
        /\ UNCHANGED <<state_, channel_, downs>>
    BY <1>9 DEF QueuedShutdown, histVars
  <2>2. ioQueue[1] = <<"shutdown">>
    BY <1>2, <2>1, NextRuns, FunctorNames
  <2>3. state_ \notin Open
    BY <1>3, <2>2 DEF ShutInv, Queued
  <2> QED
    BY <1>2, <1>5, <2>1, <2>3, ShutQuiet
<1>10. CASE QueuedSend
  <2>1. /\ NextFunctor("send") /\ SendInLoop(Head(ioQueue)[2], Tail(ioQueue))
        /\ UNCHANGED <<state_, downs>>
    BY <1>10 DEF QueuedSend
  <2>2. Head(ioQueue)[2] \in Messages
    BY <1>2, <2>1, NextRuns, FunctorNames
  <2> QED
    BY <1>2, <1>4, <2>1, <2>2, ShutSend
<1>11. CASE UserCallback
  <2>1. ioQueue' = Tail(ioQueue) /\ UNCHANGED <<state_, channel_, sock, downs>>
    BY <1>11 DEF UserCallback, connVars, histVars
  <2> QED
    BY <1>2, <1>5, <2>1, ShutQuiet
<1> QED
  BY <1>7, <1>8, <1>9, <1>10, <1>11

\* shutdown() closes the connection for send() before its functor is queued.
LEMMA ShutThreads ==
  ASSUME Types, MessageInv, ShutInv,
         \/ \E w \in Workers : Worker(w)
         \/ \E t \in Threads : Finishes(t)
         \/ EntryExpires \/ RemoveConnectionInLoop \/ DestroyServer
  PROVE  ShutInv'
<1>1. /\ call \in [Threads -> CallStates] /\ ioQueue \in Seq(Functors)
      /\ Workers \subseteq Threads /\ "base" \in Threads
  BY DEF Types, DataTypes, Threads
\* A functor more in the queue, and a call that goes on.
<1>2. ASSUME NEW f \in Functors, f # <<"shutdown">>, ioQueue' = Append(ioQueue, f)
      PROVE  Queued(<<"shutdown">>)' => Queued(<<"shutdown">>)
  <2>1. Added(f)
    BY <1>1, <1>2, AppendAdds
  <2> QED
    BY <1>2, <2>1, ControlFunctors DEF Added, Queued
<1>3. ASSUME ioQueue' = ioQueue
      PROVE  Queued(<<"shutdown">>)' => Queued(<<"shutdown">>)
  BY <1>3 DEF Queued
<1>4. ASSUME NEW t \in Threads, NEW to, call' = [call EXCEPT ![t] = to],
             to # <<"post">>
      PROVE  \A u \in Threads : call'[u] = <<"post">> => call[u] = <<"post">>
  BY <1>1, <1>4
<1>5. ASSUME NEW w \in Workers, Worker(w) PROVE ShutInv'
  <2>1. UNCHANGED <<state_, channel_, sock, downs, ioQueue>>
    BY <1>5 DEF Worker, HandOver, DropReference, Send, Shutdown, connVars, loopVars, histVars
  <2>2. \E to : call' = [call EXCEPT ![w] = to] /\ to # <<"post">>
    BY <1>5 DEF Worker, HandOver, DropReference, Send, Shutdown, Steps
  <2> QED
    BY <1>1, <1>3, <1>4, <2>1, <2>2, ShutKept
<1>6. ASSUME NEW t \in Threads, Finishes(t) PROVE ShutInv'
  <2>1. CASE PostSend(t)
    <3>1. /\ call[t] \in Functors /\ call[t] # <<"shutdown">> /\ ioQueue' = Append(ioQueue, call[t])
          /\ call' = [call EXCEPT ![t] = <<"idle">>]
          /\ UNCHANGED <<state_, channel_, sock, downs>>
      <4>1. call[t] \in CallStates /\ call[t][1] = "send"
        BY <1>1, <2>1 DEF PostSend
      <4>2. call[t] \in Functors
        BY <4>1 DEF CallStates, Functors
      <4> QED
        BY <2>1, <4>1, <4>2 DEF PostSend, Steps, connVars, histVars
    <3>2. Queued(<<"shutdown">>)' => Queued(<<"shutdown">>)
      BY <1>2, <3>1
    <3> QED
      BY <1>4, <3>1, <3>2, ShutKept
  <2>2. CASE StoreDisconnecting(t)
    <3>1. /\ call[t] = <<"store">> /\ state_' = "kDisconnecting"
          /\ UNCHANGED <<channel_, sock, downs, ioQueue>>
      BY <2>2 DEF StoreDisconnecting, Steps, loopVars, histVars
    <3>2. state_ # "kConnecting"
      BY <3>1 DEF MessageInv
    <3> QED
      BY <3>1, <3>2, ShutKept DEF Open
  <2>3. CASE PostShutdown(t)
    <3>1. /\ call[t] = <<"post">> /\ call' = [call EXCEPT ![t] = <<"idle">>]
          /\ UNCHANGED <<state_, channel_, sock, downs>>
      BY <2>3 DEF PostShutdown, Steps, connVars, histVars
    <3>2. state_ \notin Open
      BY <3>1 DEF ShutInv
    <3> QED
      BY <1>4, <3>1, <3>2, ShutKept
  <2> QED
    BY <1>6, <2>1, <2>2, <2>3 DEF Finishes
<1>7. CASE EntryExpires
  <2>1. /\ UNCHANGED <<state_, channel_, sock, downs, ioQueue>>
        /\ call' = [call EXCEPT !["base"] = <<"store">>]
    BY <1>7 DEF EntryExpires, Shutdown, Steps, connVars, loopVars, histVars
  <2> QED
    BY <1>1, <1>3, <1>4, <2>1, ShutKept
<1>8. CASE RemoveConnectionInLoop \/ DestroyServer
  <2>1. /\ UNCHANGED <<state_, channel_, sock, downs, call>>
        /\ ioQueue' = ioQueue \/ ioQueue' = ioQueue \o <<<<"destroy">>>>
    BY <1>8 DEF RemoveConnectionInLoop, DestroyServer, RemovesFromMap, RemoveAnd, connVars,
                loopVars, histVars
  <2>2. <<"destroy">> \in Functors
    BY DEF Functors
  <2>3. ioQueue \o <<<<"destroy">>>> = Append(ioQueue, <<"destroy">>)
    BY <1>1, <2>2, AppendIsConcat
  <2>4. Queued(<<"shutdown">>)' => Queued(<<"shutdown">>)
    BY <1>2, <1>3, <2>1, <2>2, <2>3
  <2> QED
    BY <2>1, <2>4, ShutQuiet
<1> QED
  BY <1>5, <1>6, <1>7, <1>8

LEMMA ShutAlways == Spec => [](Types /\ MessageInv /\ ShutInv)
<1>1. Init => ShutInv
  <2> SUFFICES ASSUME Init PROVE ShutInv
    OBVIOUS
  <2>1. /\ state_ = "kConnecting" /\ ~sock.wrShut /\ ioQueue = <<<<"establish">>>>
        /\ \A t \in Threads : call[t] # <<"post">>
    BY DEF Init
  <2>2. ~Queued(<<"shutdown">>)
    BY <2>1 DEF Queued, At
  <2> QED
    BY <2>1, <2>2 DEF ShutInv
<1>2. Types /\ MessageInv /\ ShutInv /\ [Next]_vars => ShutInv'
  <2> SUFFICES ASSUME Types, MessageInv, ShutInv, [Next]_vars PROVE ShutInv'
    OBVIOUS
  <2>1. CASE UNCHANGED vars
    <3>1. UNCHANGED <<state_, channel_, sock, downs, call, ioQueue>>
      BY <2>1 DEF vars, connVars, loopVars, histVars
    <3> QED
      BY <3>1 DEF ShutInv, Queued
  <2>2. CASE IoThread
    BY <2>2, ShutPoll, ShutTurn, ShutFunctor DEF IoThread
  <2> QED
    BY <2>1, <2>2, ShutPeer, ShutUser, ShutThreads DEF Next
<1> QED
  BY <1>1, <1>2, MessageAlways, PTL DEF Spec

\* Between the end of the stream and the down callback no callback's send() is
\* taken on and handleWrite() writes nothing, with any number of threads that
\* send and shut down; what is taken on then was queued by another thread's
\* send() that had found the connection open.
THEOREM LateWritesWereQueued == Spec => OnlyQueuedSendsWriteLate
<1>1. Types /\ MessageInv /\ ShutInv /\ [Next]_vars =>
        [sock.wrShut /\ downs = 0 /\ (accepted' # accepted \/ (TurnOut /\ IsWriting(channel_)))
           => QueuedSend]_vars
  <2> SUFFICES ASSUME Types, MessageInv, ShutInv, Next, sock.wrShut, downs = 0,
                      accepted' # accepted \/ (TurnOut /\ IsWriting(channel_))
               PROVE  QueuedSend
    OBVIOUS
  <2>1. CASE TurnOut /\ IsWriting(channel_)
    <3>1. state_ # "kConnecting"
      BY DEF ShutInv, Open
    <3>2. "in" \in channel_.events
      BY <3>1 DEF ShutInv
    <3> QED
      BY <2>1, <3>2 DEF IsWriting, KWriteEvent
  <2>2. CASE accepted' # accepted
    <3>1. ~(\E m \in Messages : UserSends(m))
      BY DEF UserSends, SendWhen, ShutInv, Open
    <3>2. ~Peer /\ ~UserShutsDown
      BY <2>2 DEF Peer, PeerSends, PeerReads, PeerCloses, PeerResets, PeerStep, UserShutsDown, histVars
    <3>3. ~\E w \in Workers : Worker(w)
      BY <2>2 DEF Worker, HandOver, DropReference, Send, Shutdown, histVars
    <3>4. ~\E t \in Threads : Finishes(t)
      BY <2>2 DEF Finishes, PostSend, StoreDisconnecting, PostShutdown, histVars
    <3>5. ~EntryExpires /\ ~RemoveConnectionInLoop /\ ~DestroyServer
      BY <2>2 DEF EntryExpires, Shutdown, RemoveConnectionInLoop, DestroyServer, RemovesFromMap,
                  RemoveAnd, histVars
    <3>6. ~UserReturns /\ ~PollReports /\ ~PollReportsOthers /\ ~SwapFunctors /\ ~PassEnds
      BY <2>2 DEF UserReturns, PollReports, PollReportsOthers, SwapFunctors, PassEnds, histVars
    <3>7. ~TurnHup /\ ~TurnErr /\ ~HandleRead /\ ~TurnOut
      BY <2>2 DEF TurnHup, TurnHupIf, TurnErr, HandleRead, TurnOut
    <3>8. ~ConnectEstablished /\ ~ConnectDestroyed /\ ~QueuedShutdown /\ ~UserCallback
      BY <2>2 DEF ConnectEstablished, ConnectDestroyed, DestroyReporting, QueuedShutdown,
                  UserCallback, histVars
    <3> QED
      BY <3>1, <3>2, <3>3, <3>4, <3>5, <3>6, <3>7, <3>8 DEF Next, User, IoThread
  <2> QED
    BY <2>1, <2>2
<1> QED
  BY <1>1, ShutAlways, PTL DEF Spec, OnlyQueuedSendsWriteLate

-----------------------------------------------------------------------------
(* A connection that only its two loops use.                               *)

\* Until connectEstablished has run, which is the first functor, nothing else
\* has happened to the connection; no send() comes from another thread.
ConnectingInv ==
  /\ \A i \in Nat : At(ioQueue, i, <<"establish">>) => i = 1 /\ state_ = "kConnecting"
  /\ state_ = "kConnecting" =>
       /\ At(ioQueue, 1, <<"establish">>)
       /\ channel_ = NewChannel /\ revents = {} /\ ~inUser
       /\ downs = 0 /\ call["base"] = <<"idle">>
  /\ \A m \in Messages : ~Queued(<<"send", m>>)

\* What has been reported down stays closed and asks the poller for nothing;
\* the server is told of a connection that is down, and a channel has left the
\* epoll set only by going down.
DownInv ==
  /\ downs > 0 => state_ \notin Open /\ channel_.events = {}
  /\ baseQueue # <<>> => downs > 0
  /\ channel_.index = "kDeleted" => downs > 0

\* A connection that is open or known to the poller is in the map or about to
\* be destroyed; the poller knows one whose events are being handled.
ManagedInv ==
  /\ state_ \in Open \/ channel_.index # "kNew" => inMap \/ Queued(<<"destroy">>)
  /\ revents # {} => channel_.index # "kNew"

\* While the server lives, the base loop takes a connection out of the map
\* only when it is down and no shutdown() of the wheel is under way; the
\* functors of those before are ahead of connectDestroyed.
RemovedInv ==
  ~serverDown /\ ~inMap =>
    /\ state_ \notin Open /\ call["base"] = <<"idle">>
    /\ \A i \in Nat : At(ioQueue, i, <<"shutdown">>) =>
         \E j \in Nat : j > i /\ At(ioQueue, j, <<"destroy">>)

\* Without a reset, a handler that closes is the last of its dispatch to act,
\* and the channel has left the epoll set.
OnceInv ==
  ~sock.rst =>
    /\ ~sock.err /\ "err" \notin revents
    /\ downs <= 1 /\ ~lateMessage
    /\ downs > 0 => revents \subseteq {"out"} /\ channel_.index # "kAdded"

LoopsInv ==
  /\ Types
  /\ ConnectingInv /\ DownInv /\ ManagedInv /\ RemovedInv /\ OnceInv

-----------------------------------------------------------------------------
(* Step by step: first what the loops and the peer do without changing the *)
(* connection's state or the channel.                                      *)

LEMMA QuietStep ==
  ASSUME LoopsInv, Types', SameControl,
         UNCHANGED <<state_, channel_, baseQueue, inMap, call, downs>>,
         serverDown => serverDown', sock'.wrShut = sock.wrShut,
         sock'.rst \/ (~sock.rst /\ sock'.err = sock.err /\ (lateMessage' => lateMessage)),
         state_ = "kConnecting" => revents' = {} /\ ~inUser',
         revents' # {} => channel_.index # "kNew",
         ~sock'.rst => "err" \notin revents' /\ (downs > 0 => revents' \subseteq {"out"})
  PROVE  LoopsInv'
<1>1. ConnectingInv'
  <2>1. \A m \in Messages : ~Queued(<<"send", m>>)'
    BY ControlFunctors DEF LoopsInv, ConnectingInv, SameControl, Queued
  <2>2. \A i \in Nat : At(ioQueue', i, <<"establish">>) <=> At(ioQueue, i, <<"establish">>)
    BY ControlFunctors DEF SameControl
  <2> QED
    BY <2>1, <2>2 DEF LoopsInv, ConnectingInv
<1>2. \A f \in {<<"destroy">>, <<"shutdown">>} : Queued(f)' <=> Queued(f)
  BY ControlFunctors DEF SameControl, Queued
<1>3. DownInv'
  BY DEF LoopsInv, DownInv
<1>4. ManagedInv'
  BY <1>2 DEF LoopsInv, ManagedInv
<1>5. RemovedInv'
  BY ControlFunctors DEF LoopsInv, RemovedInv, SameControl
<1>6. OnceInv'
  BY DEF LoopsInv, OnceInv
<1> QED
  BY <1>1, <1>3, <1>4, <1>5, <1>6 DEF LoopsInv

LEMMA QueueUnchanged == ioQueue' = ioQueue => SameControl
BY DEF SameControl

LEMMA PeerLoops ==
  ASSUME LoopsInv, Types', Peer
  PROVE  LoopsInv'
<1>1. UNCHANGED <<state_, channel_, ioQueue, baseQueue, inMap, serverDown, call, downs,
                  lateMessage, revents, inUser>>
  BY DEF Peer, PeerSends, PeerReads, PeerCloses, PeerResets, PeerStep, loopVars, serverVars, histVars
<1>2. sock \in SockType
  BY DEF LoopsInv, Types, DataTypes
<1>3. /\ sock'.wrShut = sock.wrShut
      /\ sock'.rst \/ (~sock.rst /\ sock'.rst = sock.rst /\ sock'.err = sock.err)
  BY <1>2 DEF SockType, Peer, PeerSends, PeerReads, PeerCloses, PeerResets, PeerStep
<1> QED
  BY <1>1, <1>3, QuietStep, QueueUnchanged DEF LoopsInv, ConnectingInv, ManagedInv, OnceInv

\* What a new round of the loop reports: only of a channel in the epoll set,
\* and an error only after a reset.
LEMMA PollLoops ==
  ASSUME LoopsInv, Types',
         UserReturns \/ PollReports \/ PollReportsOthers \/ SwapFunctors \/ PassEnds
  PROVE  LoopsInv'
<1>1. /\ UNCHANGED <<state_, channel_, sock, ioQueue, baseQueue, inMap, serverDown, call, downs,
                     lateMessage>>
      /\ inUser' => inUser
      /\ revents' \in {{}, revents, Reported}
  BY DEF UserReturns, PollReports, PollReportsOthers, SwapFunctors, PassEnds, connVars,
         serverVars, histVars
<1>2. Reported # {} => channel_.index = "kAdded"
  BY DEF Reported
<1>3. "err" \in Reported => sock.err
  BY DEF Reported
<1>4. state_ = "kConnecting" => Reported = {}
  BY <1>2 DEF LoopsInv, ConnectingInv, NewChannel
<1>5. ~sock.rst => "err" \notin Reported /\ (downs > 0 => Reported = {})
  BY <1>2, <1>3 DEF LoopsInv, OnceInv
<1>6. revents' # {} => channel_.index # "kNew"
  BY <1>1, <1>2 DEF LoopsInv, ManagedInv
<1>7. state_ = "kConnecting" => revents' = {} /\ ~inUser'
  BY <1>1, <1>4 DEF LoopsInv, ConnectingInv
<1>8. ~sock.rst => "err" \notin revents' /\ (downs > 0 => revents' \subseteq {"out"})
  BY <1>1, <1>5 DEF LoopsInv, OnceInv
<1>9. sock'.rst \/ (~sock.rst /\ sock'.err = sock.err /\ (lateMessage' => lateMessage))
  <2>1. sock.rst \in BOOLEAN /\ sock' = sock /\ lateMessage' = lateMessage
    BY <1>1 DEF LoopsInv, Types, DataTypes, SockType
  <2> QED
    BY <2>1
<1> QED
  BY <1>1, <1>6, <1>7, <1>8, <1>9, QuietStep, QueueUnchanged

-----------------------------------------------------------------------------
(* The handlers of events.                                                 *)

\* While an event is handled the connection is past connectEstablished and the
\* channel is known to the poller; the handlers change nothing of the queue
\* and the other threads.
LEMMA TurnFrame ==
  ASSUME LoopsInv, NEW e, Turn(e)
  PROVE  /\ revents # {} /\ state_ # "kConnecting" /\ channel_.index # "kNew"
         /\ revents' = revents \ {e} /\ UNCHANGED <<io, call, inMap, serverDown>>
BY DEF Turn, LoopsInv, ConnectingInv, ManagedInv

\* A handler closes: the last of the dispatch, unless the peer has reset.
LEMMA CloseLoops ==
  ASSUME LoopsInv, Types', NEW e, Turn(e), HandleClose,
         UNCHANGED <<ioQueue, lateMessage>>,
         sock' \in {sock, [sock EXCEPT !.err = FALSE]},
         ~sock.rst => e \in {"hup", "in"} /\ revents' \subseteq {"err", "out"}
  PROVE  LoopsInv'
<1>1. Types
  BY DEF LoopsInv
<1>2. /\ state_' = "kDisconnected" /\ downs' = downs + 1 /\ downs' \in Nat /\ downs \in Nat
      /\ channel_'.events = {} /\ baseQueue' # <<>>
      /\ channel_'.index = IF channel_.index = "kAdded" THEN "kDeleted" ELSE "kAdded"
  <2>1. channel_ \in ChannelType /\ downs \in Nat
    BY <1>1 DEF Types, DataTypes, ControlTypes
  <2> QED
    BY <1>1, <2>1, CloseEffect, ChannelCalls
<1>3. /\ sock'.rst = sock.rst /\ sock'.wrShut = sock.wrShut
      /\ sock'.err => sock.err
  BY <1>1 DEF Types, DataTypes, SockType
<1>4. /\ revents # {} /\ state_ # "kConnecting" /\ channel_.index # "kNew" /\ e \in revents
      /\ revents' = revents \ {e} /\ UNCHANGED <<call, inMap, serverDown>>
  BY TurnFrame DEF Turn
<1>5. /\ \A f : \A i \in Nat : At(ioQueue', i, f) <=> At(ioQueue, i, f)
      /\ \A f : Queued(f)' <=> Queued(f)
  BY DEF At, Queued
<1>6. ConnectingInv'
  BY <1>2, <1>4, <1>5 DEF LoopsInv, ConnectingInv
<1>7. DownInv'
  BY <1>2 DEF DownInv, Open
<1>8. ManagedInv'
  BY <1>2, <1>4, <1>5 DEF LoopsInv, ManagedInv
<1>9. RemovedInv'
  BY <1>2, <1>4, <1>5 DEF LoopsInv, RemovedInv, Open
<1>10. OnceInv'
  <2>1. SUFFICES ASSUME ~sock.rst PROVE OnceInv'
    BY <1>3 DEF OnceInv
  <2>2. ~sock.err /\ "err" \notin revents /\ ~lateMessage
    BY <2>1 DEF LoopsInv, OnceInv
  <2>3. downs = 0
    BY <1>2, <1>4, <2>1 DEF LoopsInv, OnceInv
  <2>4. channel_.index = "kAdded"
    <3>1. channel_.index # "kDeleted"
      BY <2>3 DEF LoopsInv, DownInv
    <3> QED
      BY <1>1, <1>4, <3>1 DEF Types, DataTypes, ChannelType
  <2>5. revents' \subseteq {"out"} /\ "err" \notin revents'
    BY <1>4, <2>1, <2>2
  <2> QED
    BY <1>2, <1>3, <2>2, <2>3, <2>4, <2>5 DEF OnceInv
<1> QED
  BY <1>6, <1>7, <1>8, <1>9, <1>10 DEF LoopsInv

LEMMA TurnLoops ==
  ASSUME LoopsInv, ShutInv, Types', TurnHup \/ TurnErr \/ HandleRead \/ TurnOut
  PROVE  LoopsInv'
<1>1. sock \in SockType /\ revents \subseteq {"hup", "err", "in", "out"}
  BY DEF LoopsInv, Types, DataTypes, ControlTypes
<1>2. ~sock.rst => ~sock.err /\ "err" \notin revents
  BY DEF LoopsInv, OnceInv
\* A handler that does not close only uses up its event.
<1>3. ASSUME NEW e, Turn(e), UNCHANGED <<state_, channel_, ioQueue, baseQueue, downs>>,
             sock' \in {sock, [sock EXCEPT !.rx = 0]},
             sock.rst \/ (lateMessage' => lateMessage)
      PROVE  LoopsInv'
  <2>1. /\ state_ # "kConnecting" /\ channel_.index # "kNew" /\ revents' \subseteq revents
        /\ UNCHANGED <<call, inMap, serverDown>>
    BY <1>3, TurnFrame
  <2>2. sock'.wrShut = sock.wrShut /\ sock'.rst = sock.rst /\ sock'.err = sock.err
        /\ sock.rst \in BOOLEAN
    BY <1>1, <1>3 DEF SockType
  <2>3. ~sock'.rst => "err" \notin revents' /\ (downs > 0 => revents' \subseteq {"out"})
    BY <2>1, <2>2 DEF LoopsInv, OnceInv
  <2> QED
    BY <1>3, <2>1, <2>2, <2>3, QuietStep, QueueUnchanged
<1>4. CASE TurnHup
  <2>1. Turn("hup") /\ revents' = revents \ {"hup"}
        /\ UNCHANGED <<sock, ioQueue, lateMessage>>
    BY <1>4 DEF TurnHup, TurnHupIf, Turn
  <2>2. CASE "in" \notin revents
    <3>1. HandleClose
      BY <1>4, <2>2 DEF TurnHup, TurnHupIf
    <3>2. revents' \subseteq {"err", "out"}
      BY <1>1, <2>1, <2>2
    <3> QED
      BY <2>1, <3>1, <3>2, CloseLoops
  <2>3. CASE "in" \in revents
    <3>1. UNCHANGED <<state_, channel_, downs, baseQueue>>
      BY <1>4, <2>3 DEF TurnHup, TurnHupIf
    <3> QED
      BY <1>3, <2>1, <3>1
  <2> QED
    BY <2>2, <2>3
<1>5. CASE TurnErr
  <2>1. /\ Turn("err") /\ HandleClose /\ "err" \in revents
        /\ sock' = [sock EXCEPT !.err = FALSE] /\ UNCHANGED <<ioQueue, lateMessage>>
    BY <1>5 DEF TurnErr, HandleError, Turn
  <2> QED
    BY <1>2, <2>1, CloseLoops
<1>6. CASE HandleRead
  <2>1. Turn("in") /\ UNCHANGED ioQueue /\ "in" \in revents
        /\ revents' = revents \ {"in"} /\ "hup" \notin revents
    BY <1>6 DEF HandleRead, Turn, Order
  <2>2. CASE sock.rx > 0
    <3>1. sock' = [sock EXCEPT !.rx = 0] /\ UNCHANGED <<state_, channel_, downs, baseQueue>>
          /\ lateMessage' = (lateMessage \/ downs > 0)
      BY <1>6, <2>2 DEF HandleRead
    <3>2. ~sock.rst => ~(downs > 0)
      BY <2>1 DEF LoopsInv, OnceInv
    <3>3. sock.rst \/ (lateMessage' => lateMessage)
      BY <3>1, <3>2 DEF LoopsInv, OnceInv
    <3> QED
      BY <1>3, <2>1, <3>1, <3>3
  <2>3. CASE ~(sock.rx > 0)
    <3>1. HandleClose /\ sock' \in {sock, [sock EXCEPT !.err = FALSE]} /\ UNCHANGED lateMessage
      BY <1>6, <2>3 DEF HandleRead, HandleError
    <3>2. revents' \subseteq {"err", "out"}
      BY <1>1, <2>1
    <3> QED
      BY <2>1, <3>1, <3>2, CloseLoops
  <2> QED
    BY <2>2, <2>3
\* handleWrite finds the channel asking for more than EPOLLOUT.
<1>7. CASE TurnOut
  <2>1. Turn("out") /\ HandleWrite /\ UNCHANGED <<state_, baseQueue, downs, lateMessage>>
    BY <1>7 DEF TurnOut
  <2>2. ~IsWriting(channel_)
    BY <2>1, TurnFrame DEF LoopsInv, DownInv, ShutInv, IsWriting, KWriteEvent, Types, ControlTypes
  <2>3. UNCHANGED <<channel_, sock, ioQueue>>
    BY <2>1, <2>2 DEF HandleWrite
  <2> QED
    BY <1>3, <2>1, <2>3
<1> QED
  BY <1>4, <1>5, <1>6, <1>7

-----------------------------------------------------------------------------
(* The user's calls, and the functors of the loop.                         *)

\* The user's calls find the connection open, and so never reported down.
LEMMA UserLoops ==
  ASSUME LoopsInv, Types', User
  PROVE  LoopsInv'
<1>1. Types
  BY DEF LoopsInv
<1>2. state_ = "kConnected" /\ UNCHANGED <<revents, inUser, call, baseQueue, inMap, serverDown,
                                           downs, lateMessage>>
  BY DEF User, UserSends, SendWhen, UserShutsDown, InCallback, serverVars, histVars
<1>3. downs = 0
  BY <1>1, <1>2 DEF LoopsInv, DownInv, Open, Types, ControlTypes
<1>4. ASSUME NEW m \in Messages, UserSends(m) PROVE LoopsInv'
  <2>1. SendInLoop(m, ioQueue) /\ UNCHANGED <<state_>>
    BY <1>4 DEF UserSends, SendWhen
  <2>2. SameControl
    BY <1>1, <2>1, SendEffect, PostsKeepControl DEF Types, DataTypes
  <2>4. sock'.wrShut = sock.wrShut /\ sock'.rst = sock.rst /\ (sock'.err => sock.err)
    <3>1. sock' \in {sock, [sock EXCEPT !.err = FALSE]} /\ sock \in SockType
      BY <1>1, <2>1, SendEffect DEF Types, DataTypes
    <3> QED
      BY <3>1 DEF SockType
  <2>5. \/ channel_' = channel_
        \/ channel_' = [events |-> channel_.events \cup {"out"}, index |-> "kAdded"]
    BY <1>1, <2>1, SendEffect, ChannelCalls DEF Types, DataTypes
  <2>6. \A f \in {<<"destroy">>, <<"shutdown">>} : Queued(f)' <=> Queued(f)
    BY <2>2, ControlFunctors DEF SameControl, Queued
  <2>7. ConnectingInv'
    BY <1>2, <2>1, <2>2, ControlFunctors DEF LoopsInv, ConnectingInv, SameControl, Queued
  <2>8. DownInv'
    BY <1>2, <1>3, <2>1, <2>5 DEF LoopsInv, DownInv
  <2>9. ManagedInv'
    BY <1>2, <2>1, <2>5, <2>6 DEF LoopsInv, ManagedInv, Open
  <2>10. RemovedInv'
    BY <1>2, <2>1 DEF LoopsInv, RemovedInv, Open
  <2>11. OnceInv'
    BY <1>2, <1>3, <2>4 DEF LoopsInv, OnceInv
  <2> QED
    BY <2>7, <2>8, <2>9, <2>10, <2>11 DEF LoopsInv
<1>5. CASE UserShutsDown
  <2>1. /\ state_' = "kDisconnecting" /\ sock' = ShutdownInLoop(channel_)
        /\ UNCHANGED <<channel_, ioQueue>>
    BY <1>5 DEF UserShutsDown, histVars
  <2>2. sock'.rst = sock.rst /\ sock'.err = sock.err
    BY <1>1, <2>1 DEF ShutdownInLoop, Types, DataTypes, SockType
  <2>3. \A f : Queued(f)' <=> Queued(f)
    BY <2>1 DEF Queued, At
  <2>4. ConnectingInv'
    BY <1>2, <2>1, <2>3 DEF LoopsInv, ConnectingInv, At
  <2>5. DownInv'
    BY <1>2, <1>3, <2>1 DEF LoopsInv, DownInv
  <2>6. ManagedInv' /\ RemovedInv'
    BY <1>2, <2>1, <2>3 DEF LoopsInv, ManagedInv, RemovedInv, Open, At
  <2>7. OnceInv'
    BY <1>2, <2>1, <2>2 DEF LoopsInv, OnceInv
  <2> QED
    BY <2>4, <2>5, <2>6, <2>7 DEF LoopsInv
<1> QED
  BY <1>4, <1>5 DEF User

\* What the functor that runs leaves in the queue.
LEMMA FunctorFrame ==
  ASSUME LoopsInv, NEW f, NextFunctor(f), ioQueue' = Tail(ioQueue)
  PROVE  /\ Shifted /\ ioQueue[1] \in Functors /\ ioQueue[1][1] = f
         /\ At(ioQueue, 1, ioQueue[1])
         /\ revents = {} /\ ~inUser
         /\ UNCHANGED <<revents, call, baseQueue, inMap, serverDown>>
<1>1. Types
  BY DEF LoopsInv
<1>2. ioQueue # <<>> /\ ioQueue \in Seq(Functors)
  BY <1>1, NextRuns DEF Types, DataTypes
<1>3. Shifted
  BY <1>2, TailShifts
<1>4. 1 \in 1..Len(ioQueue)
  <2>1. Len(ioQueue) \in Nat \ {0}
    BY <1>2, EmptySeq
  <2> QED
    BY <2>1
<1>5. revents = {}
  BY <1>1, NextRuns DEF Types, ControlTypes
<1> QED
  BY <1>1, <1>3, <1>4, <1>5, NextRuns DEF At, serverVars

\* A functor other than connectEstablished and connectDestroyed runs: the
\* state and the channel stay.
LEMMA PlainFunctor ==
  ASSUME LoopsInv, Types', NEW f \in {"shutdown", "complete", "highWater"},
         NextFunctor(f), ioQueue' = Tail(ioQueue),
         UNCHANGED <<state_, channel_, downs, lateMessage>>,
         sock'.rst = sock.rst, sock'.err = sock.err,
         sock'.wrShut => sock.wrShut \/ f = "shutdown"
  PROVE  LoopsInv'
<1>1. /\ Shifted /\ At(ioQueue, 1, ioQueue[1]) /\ ioQueue[1] = <<f>>
      /\ revents' = {} /\ UNCHANGED <<call, baseQueue, inMap, serverDown>>
  BY FunctorFrame, FunctorNames
<1>2. state_ # "kConnecting"
  BY <1>1 DEF LoopsInv, ConnectingInv, At
<1>3. \A i \in Nat, g \in Control : At(ioQueue', i, g) => At(ioQueue, i + 1, g)
  BY <1>1 DEF Shifted
<1>4. \A g \in Control : Queued(g)' => Queued(g)
  BY <1>3 DEF Queued
<1>5. Queued(<<"destroy">>) => Queued(<<"destroy">>)'
  <2>1. SUFFICES ASSUME NEW i \in Nat, At(ioQueue, i, <<"destroy">>)
                 PROVE  Queued(<<"destroy">>)'
    BY DEF Queued
  <2>2. i # 1
    BY <1>1, <2>1 DEF At
  <2>3. i \in 1..Len(ioQueue) /\ Len(ioQueue) \in Nat
    BY <2>1, LenProperties DEF At, LoopsInv, Types, DataTypes
  <2>4. i - 1 \in Nat /\ i - 1 > 0 /\ (i - 1) + 1 = i
    BY <2>2, <2>3
  <2>5. At(ioQueue', i - 1, <<"destroy">>)
    BY <1>1, <2>1, <2>4, ControlFunctors DEF Shifted
  <2> QED
    BY <2>4, <2>5 DEF Queued
<1>6. ConnectingInv'
  <2>1. \A i \in Nat : ~At(ioQueue', i, <<"establish">>)
    BY <1>2, <1>3, ControlFunctors DEF LoopsInv, ConnectingInv
  <2> QED
    BY <1>2, <1>4, <2>1, ControlFunctors DEF LoopsInv, ConnectingInv
<1>7. DownInv'
  BY <1>1 DEF LoopsInv, DownInv
<1>8. ManagedInv'
  BY <1>1, <1>5 DEF LoopsInv, ManagedInv
<1>9. RemovedInv'
  <2>1. SUFFICES ASSUME ~serverDown, ~inMap, NEW i \in Nat, At(ioQueue', i, <<"shutdown">>)
                 PROVE  \E j \in Nat : j > i /\ At(ioQueue', j, <<"destroy">>)
    BY <1>1 DEF LoopsInv, RemovedInv
  <2>2. At(ioQueue, i + 1, <<"shutdown">>) /\ i + 1 \in Nat
    BY <1>3, <2>1, ControlFunctors
  <2>3. PICK j \in Nat : j > i + 1 /\ At(ioQueue, j, <<"destroy">>)
    BY <2>1, <2>2 DEF LoopsInv, RemovedInv
  <2>4. j - 1 \in Nat /\ j - 1 > i /\ j - 1 > 0 /\ (j - 1) + 1 = j
    BY <2>3
  <2>5. At(ioQueue', j - 1, <<"destroy">>)
    BY <1>1, <2>3, <2>4, ControlFunctors DEF Shifted
  <2> QED
    BY <2>4, <2>5
<1>10. OnceInv'
  BY <1>1 DEF LoopsInv, OnceInv
<1> QED
  BY <1>6, <1>7, <1>8, <1>9, <1>10 DEF LoopsInv


LEMMA EstablishLoops ==
  ASSUME LoopsInv, Types', ConnectEstablished
  PROVE  LoopsInv'
<1>1. NextFunctor("establish") /\ ioQueue' = Tail(ioQueue) /\ state_' = "kConnected"
      /\ channel_' = UpdateChannel(EnableReading(channel_))
      /\ UNCHANGED <<sock, downs, lateMessage>>
  BY DEF ConnectEstablished, histVars
<1>2. /\ Shifted /\ At(ioQueue, 1, <<"establish">>)
      /\ revents' = {} /\ UNCHANGED <<call, baseQueue, inMap, serverDown>>
  BY <1>1, FunctorFrame, FunctorNames
<1>3. /\ state_ = "kConnecting" /\ channel_ = NewChannel /\ downs = 0
  BY <1>2 DEF LoopsInv, ConnectingInv
<1>4. channel_' = [events |-> {"in"}, index |-> "kAdded"]
  <2>1. NewChannel \in ChannelType
    BY <1>3 DEF LoopsInv, Types, DataTypes
  <2> QED
    BY <1>1, <1>3, <2>1, ChannelCalls DEF NewChannel
<1>5. \A i \in Nat, g \in Control : At(ioQueue', i, g) => At(ioQueue, i + 1, g) /\ i > 0
  BY <1>2 DEF Shifted
<1>6. \A g \in Control : Queued(g)' => Queued(g)
  BY <1>5 DEF Queued
<1>7. Queued(<<"destroy">>) => Queued(<<"destroy">>)'
  <2>1. SUFFICES ASSUME NEW i \in Nat, At(ioQueue, i, <<"destroy">>)
                 PROVE  Queued(<<"destroy">>)'
    BY DEF Queued
  <2>2. i # 1 /\ i \in 1..Len(ioQueue) /\ Len(ioQueue) \in Nat
    BY <1>2, <2>1, LenProperties DEF At, LoopsInv, Types, DataTypes
  <2>3. i - 1 \in Nat /\ i - 1 > 0 /\ (i - 1) + 1 = i
    BY <2>2
  <2>4. At(ioQueue', i - 1, <<"destroy">>)
    BY <1>2, <2>1, <2>3, ControlFunctors DEF Shifted
  <2> QED
    BY <2>3, <2>4 DEF Queued
<1>8. ConnectingInv'
  <2>1. \A i \in Nat : ~At(ioQueue', i, <<"establish">>)
    <3> SUFFICES ASSUME NEW i \in Nat, At(ioQueue', i, <<"establish">>) PROVE FALSE
      OBVIOUS
    <3>1. i + 1 \in Nat /\ i + 1 # 1 /\ At(ioQueue, i + 1, <<"establish">>)
      BY <1>5, ControlFunctors
    <3> QED
      BY <3>1 DEF LoopsInv, ConnectingInv
  <2> QED
    BY <1>1, <1>6, <2>1, ControlFunctors DEF LoopsInv, ConnectingInv
<1>9. DownInv'
  BY <1>1, <1>2, <1>3, <1>4 DEF LoopsInv, DownInv
<1>10. ManagedInv'
  BY <1>2, <1>3, <1>7 DEF LoopsInv, ManagedInv, Open
<1>11. RemovedInv'
  BY <1>2, <1>3 DEF LoopsInv, RemovedInv, Open
<1>12. OnceInv'
  BY <1>1, <1>2, <1>3 DEF LoopsInv, OnceInv
<1> QED
  BY <1>8, <1>9, <1>10, <1>11, <1>12 DEF LoopsInv

\* connectDestroyed takes the channel out of the poller, after a down callback
\* when the connection was open: never a second one without a reset.
LEMMA DestroyLoops ==
  ASSUME LoopsInv, Types', ConnectDestroyed
  PROVE  LoopsInv'
<1> DEFINE closes == state_ = "kConnected"
<1>1. /\ NextFunctor("destroy") /\ ioQueue' = Tail(ioQueue)
      /\ state_' = (IF closes THEN "kDisconnected" ELSE state_)
      /\ downs' = (IF closes THEN downs + 1 ELSE downs)
      /\ channel_' = RemoveChannel(IF closes THEN UpdateChannel(DisableAll(channel_)) ELSE channel_)
      /\ UNCHANGED <<sock, lateMessage>>
  BY DEF ConnectDestroyed, DestroyReporting
<1>2. /\ Shifted /\ At(ioQueue, 1, <<"destroy">>)
      /\ revents' = {} /\ UNCHANGED <<call, baseQueue, inMap, serverDown>>
  BY <1>1, FunctorFrame, FunctorNames
<1>3. state_ # "kConnecting"
  BY <1>2 DEF LoopsInv, ConnectingInv, At
<1>4. channel_'.index = "kNew" /\ channel_'.events = (IF closes THEN {} ELSE channel_.events)
  <2>1. channel_ \in ChannelType
    BY DEF LoopsInv, Types, DataTypes
  <2>2. UpdateChannel(DisableAll(channel_)) \in ChannelType
        /\ UpdateChannel(DisableAll(channel_)).events = {}
    BY <2>1, ChannelCalls, ChannelStays
  <2>3. CASE closes
    BY <1>1, <2>2, <2>3, ChannelCalls
  <2>4. CASE ~closes
    BY <1>1, <2>1, <2>4, ChannelCalls
  <2> QED
    BY <2>3, <2>4
<1>5. state_' \notin Open /\ (closes => downs = 0 /\ downs' = 1)
  <2>1. downs \in Nat /\ ~(closes /\ downs > 0)
    BY DEF LoopsInv, DownInv, Types, ControlTypes, Open
  <2>2. state_ # "kConnected" => state_' = state_
    BY <1>1
  <2>3. closes => state_' = "kDisconnected"
    BY <1>1
  <2> QED
    BY <1>1, <1>3, <2>1, <2>2, <2>3 DEF Open
<1>6. \A i \in Nat, g \in Control : At(ioQueue', i, g) => At(ioQueue, i + 1, g)
  BY <1>2 DEF Shifted
<1>7. \A g \in Control : Queued(g)' => Queued(g)
  BY <1>6 DEF Queued
<1>8. ConnectingInv'
  <2>1. \A i \in Nat : ~At(ioQueue', i, <<"establish">>)
    BY <1>3, <1>6, ControlFunctors DEF LoopsInv, ConnectingInv
  <2>2. state_' # "kConnecting"
    BY <1>5 DEF Open
  <2> QED
    BY <1>7, <2>1, <2>2, ControlFunctors DEF LoopsInv, ConnectingInv
<1>9. DownInv'
  <2>1. CASE closes
    BY <1>2, <1>4, <1>5, <2>1 DEF DownInv
  <2>2. CASE ~closes
    BY <1>1, <1>2, <1>4, <1>5, <2>2 DEF LoopsInv, DownInv
  <2> QED
    BY <2>1, <2>2
<1>10. ManagedInv'
  BY <1>2, <1>4, <1>5 DEF ManagedInv
<1>11. RemovedInv'
  <2>1. SUFFICES ASSUME ~serverDown, ~inMap
                 PROVE  /\ call["base"] = <<"idle">>
                        /\ \A i \in Nat : At(ioQueue', i, <<"shutdown">>) =>
                             \E j \in Nat : j > i /\ At(ioQueue', j, <<"destroy">>)
    BY <1>2, <1>5 DEF RemovedInv
  <2>2. ASSUME NEW i \in Nat, At(ioQueue', i, <<"shutdown">>)
        PROVE  \E j \in Nat : j > i /\ At(ioQueue', j, <<"destroy">>)
    <3>1. At(ioQueue, i + 1, <<"shutdown">>) /\ i + 1 \in Nat
      BY <1>6, <2>2, ControlFunctors
    <3>2. PICK j \in Nat : j > i + 1 /\ At(ioQueue, j, <<"destroy">>)
      BY <2>1, <3>1 DEF LoopsInv, RemovedInv
    <3>3. j - 1 \in Nat /\ j - 1 > i /\ j - 1 > 0 /\ (j - 1) + 1 = j
      BY <3>2
    <3>4. At(ioQueue', j - 1, <<"destroy">>)
      BY <1>2, <3>2, <3>3, ControlFunctors DEF Shifted
    <3> QED
      BY <3>3, <3>4
  <2> QED
    BY <2>1, <2>2 DEF LoopsInv, RemovedInv
<1>12. OnceInv'
  <2>1. SUFFICES ASSUME ~sock.rst PROVE OnceInv'
    BY <1>1 DEF OnceInv
  <2>2. downs' <= 1
    BY <1>1, <1>5, <2>1 DEF LoopsInv, OnceInv
  <2> QED
    BY <1>1, <1>2, <1>4, <2>1, <2>2 DEF LoopsInv, OnceInv
<1> QED
  BY <1>8, <1>9, <1>10, <1>11, <1>12 DEF LoopsInv

LEMMA FunctorLoops ==
  ASSUME LoopsInv, Types',
         \/ ConnectEstablished \/ ConnectDestroyed \/ QueuedShutdown \/ QueuedSend \/ UserCallback
  PROVE  LoopsInv'
<1>1. CASE QueuedShutdown
  <2>1. /\ NextFunctor("shutdown") /\ ioQueue' = Tail(ioQueue) /\ sock' = ShutdownInLoop(channel_)
        /\ UNCHANGED <<state_, channel_, downs, lateMessage>>
    BY <1>1 DEF QueuedShutdown, histVars
  <2>2. sock'.rst = sock.rst /\ sock'.err = sock.err
    BY <2>1 DEF ShutdownInLoop, LoopsInv, Types, DataTypes, SockType
  <2> QED
    BY <2>1, <2>2, PlainFunctor
<1>2. CASE UserCallback
  <2>1. /\ \E f \in {"complete", "highWater"} : NextFunctor(f)
        /\ ioQueue' = Tail(ioQueue)
        /\ UNCHANGED <<sock, state_, channel_, downs, lateMessage>>
    BY <1>2 DEF UserCallback, connVars, histVars
  <2>2. PICK f \in {"complete", "highWater"} : NextFunctor(f)
    BY <2>1
  <2> QED
    BY <2>1, <2>2, PlainFunctor
\* No other thread has queued a send().
<1>3. CASE QueuedSend
  <2>1. NextFunctor("send") /\ Types
    BY <1>3 DEF QueuedSend, LoopsInv
  <2>2. ioQueue[1] \in Functors /\ ioQueue[1][1] = "send" /\ ioQueue # <<>>
    BY <2>1, NextRuns
  <2>3. PICK m \in Messages : ioQueue[1] = <<"send", m>>
    BY <2>2 DEF Functors
  <2>4. 1 \in 1..Len(ioQueue)
    BY <2>1, <2>2, EmptySeq, LenProperties DEF Types, DataTypes
  <2>5. Queued(<<"send", m>>)
    BY <2>3, <2>4 DEF Queued, At
  <2> QED
    BY <2>5 DEF LoopsInv, ConnectingInv
<1> QED
  BY <1>1, <1>2, <1>3, EstablishLoops, DestroyLoops

-----------------------------------------------------------------------------
(* The base loop.                                                          *)

\* A step of the base loop that queues nothing for the io loop.
LEMMA StoreLoops ==
  ASSUME LoopsInv, Types', EntryExpires \/ StoreDisconnecting("base")
  PROVE  LoopsInv'
<1>1. /\ call \in [Threads -> CallStates] /\ "base" \in Threads
      /\ UNCHANGED <<channel_, sock, ioQueue, revents, inUser, baseQueue, inMap, serverDown,
                     downs, lateMessage>>
  BY DEF LoopsInv, Types, DataTypes, Threads, EntryExpires, Shutdown, StoreDisconnecting,
         connVars, loopVars, serverVars, histVars
<1>2. \A f, i : At(ioQueue', i, f) <=> At(ioQueue, i, f)
  BY <1>1 DEF At
<1>3. \A f : Queued(f)' <=> Queued(f)
  BY <1>1 DEF Queued, At
<1>4. CASE EntryExpires
  <2>1. state_ = "kConnected" /\ state_' = state_ /\ call'["base"] = <<"store">>
    BY <1>1, <1>4 DEF EntryExpires, Shutdown, Steps, connVars
  <2>2. ConnectingInv'
    BY <1>1, <1>2, <1>3, <2>1 DEF LoopsInv, ConnectingInv
  <2>3. DownInv' /\ ManagedInv' /\ OnceInv'
    BY <1>1, <1>3, <2>1 DEF LoopsInv, DownInv, ManagedInv, OnceInv
  <2>4. RemovedInv'
    BY <1>1, <2>1 DEF LoopsInv, RemovedInv, Open
  <2> QED
    BY <2>2, <2>3, <2>4 DEF LoopsInv
<1>5. CASE StoreDisconnecting("base")
  <2>1. call["base"] = <<"store">> /\ state_' = "kDisconnecting" /\ call'["base"] = <<"post">>
    BY <1>1, <1>5 DEF StoreDisconnecting, Steps
  <2>2. state_ # "kConnecting" /\ (serverDown \/ inMap)
    BY <2>1 DEF LoopsInv, ConnectingInv, RemovedInv
  <2>3. ConnectingInv'
    BY <1>2, <1>3, <2>1, <2>2 DEF LoopsInv, ConnectingInv
  <2>4. DownInv' /\ OnceInv'
    BY <1>1, <2>1 DEF LoopsInv, DownInv, OnceInv, Open
  <2>5. ManagedInv'
    BY <1>1, <1>3, <2>1 DEF LoopsInv, ManagedInv, Open
  <2>6. RemovedInv'
    BY <1>1, <2>2 DEF RemovedInv
  <2> QED
    BY <2>3, <2>4, <2>5, <2>6 DEF LoopsInv
<1> QED
  BY <1>4, <1>5

\* What a functor more at the end of the queue leaves as it was.
LEMMA AddedFrame ==
  ASSUME LoopsInv, NEW new \in Control, Added(new),
         \A m \in Messages : new # <<"send", m>>, new # <<"establish">>,
         state_' = state_ \/ (state_' # "kConnecting" /\ state_ # "kConnecting"),
         UNCHANGED <<channel_, revents, inUser, downs>>,
         state_ = "kConnecting" => call'["base"] = <<"idle">>
  PROVE  /\ ConnectingInv'
         /\ \A g \in Control : Queued(g) => Queued(g)'
         /\ \A g \in Control : Queued(g)' => Queued(g) \/ g = new
         /\ Len(ioQueue) \in Nat /\ At(ioQueue', Len(ioQueue) + 1, new)
         /\ Queued(new)'
<1>1. ioQueue \in Seq(Functors) /\ Len(ioQueue) \in Nat
  BY LenProperties DEF LoopsInv, Types, DataTypes
<1>2. \A g \in Control, i \in Nat : At(ioQueue, i, g) => At(ioQueue', i, g)
  BY DEF Added
<1>3. \A g \in Control, i \in Nat : At(ioQueue', i, g) => At(ioQueue, i, g) \/ g = new
  BY DEF Added
<1>4. At(ioQueue', Len(ioQueue) + 1, new) /\ Len(ioQueue) + 1 \in Nat
  BY <1>1 DEF Added
<1>5. ConnectingInv'
  <2>1. \A m \in Messages : ~Queued(<<"send", m>>)'
    BY <1>3, ControlFunctors DEF LoopsInv, ConnectingInv, Queued
  <2>2. \A i \in Nat : At(ioQueue', i, <<"establish">>) <=> At(ioQueue, i, <<"establish">>)
    BY <1>2, <1>3, ControlFunctors
  <2> QED
    BY <2>1, <2>2 DEF LoopsInv, ConnectingInv
<1> QED
  BY <1>1, <1>2, <1>3, <1>4, <1>5 DEF Queued

\* shutdown() of the wheel's entry queues its functor: the connection is not
\* open any more, and the map still holds it while the server lives.
LEMMA PostLoops ==
  ASSUME LoopsInv, ShutInv, Types', PostShutdown("base")
  PROVE  LoopsInv'
<1>1. /\ call \in [Threads -> CallStates] /\ "base" \in Threads
      /\ call["base"] = <<"post">> /\ call' = [call EXCEPT !["base"] = <<"idle">>]
      /\ ioQueue' = Append(ioQueue, <<"shutdown">>)
      /\ UNCHANGED <<state_, channel_, sock, revents, inUser, baseQueue, inMap, serverDown,
                     downs, lateMessage>>
  BY DEF LoopsInv, Types, DataTypes, Threads, PostShutdown, Steps,
         connVars, serverVars, histVars
<1>2. call'["base"] = <<"idle">>
  BY <1>1
<1>3. <<"shutdown">> \in Functors /\ Added(<<"shutdown">>)
  BY <1>1, AppendAdds DEF Functors, LoopsInv, Types, DataTypes
<1>4. state_ \notin Open /\ (serverDown \/ inMap)
  BY <1>1 DEF LoopsInv, ShutInv, RemovedInv
<1>5. /\ ConnectingInv' /\ \A g \in Control : Queued(g) => Queued(g)'
  BY <1>1, <1>2, <1>3, AddedFrame, ControlFunctors
<1>6. DownInv' /\ OnceInv'
  BY <1>1 DEF LoopsInv, DownInv, OnceInv
<1>7. ManagedInv' /\ RemovedInv'
  BY <1>1, <1>4, <1>5, ControlFunctors DEF LoopsInv, ManagedInv, RemovedInv
<1> QED
  BY <1>5, <1>6, <1>7 DEF LoopsInv

\* The map lets go of the connection: connectDestroyed is queued last, and
\* while the server lives that happens to closed connections only.
LEMMA RemoveLoops ==
  ASSUME LoopsInv, Types', RemoveConnectionInLoop \/ DestroyServer
  PROVE  LoopsInv'
<1>1. CASE DestroyServer /\ ~inMap
  <2>1. /\ serverDown' /\ ioQueue' = ioQueue
        /\ UNCHANGED <<state_, channel_, sock, revents, inUser, baseQueue, inMap, call,
                       downs, lateMessage>>
    BY <1>1 DEF DestroyServer, connVars, loopVars, histVars
  <2>2. SameControl
    BY <2>1, QueueUnchanged
  <2>3. sock.rst \in BOOLEAN /\ (~sock.rst => "err" \notin revents /\ (downs > 0 => revents \subseteq {"out"}))
    BY DEF LoopsInv, OnceInv, Types, DataTypes, SockType
  <2>4. state_ = "kConnecting" => revents = {} /\ ~inUser
    BY DEF LoopsInv, ConnectingInv
  <2>5. revents # {} => channel_.index # "kNew"
    BY DEF LoopsInv, ManagedInv
  <2> QED
    BY <2>1, <2>2, <2>3, <2>4, <2>5, QuietStep
<1>2. CASE RemoveConnectionInLoop \/ (DestroyServer /\ inMap)
  <2>1. /\ call["base"] = <<"idle">> /\ RemovesFromMap
        /\ baseQueue' \in {Tail(baseQueue), baseQueue}
        /\ serverDown' \/ (baseQueue # <<>> /\ ~serverDown)
        /\ baseQueue' # baseQueue => baseQueue # <<>>
    BY <1>2 DEF RemoveConnectionInLoop, DestroyServer
  <2>2. /\ ~inMap' /\ ioQueue' = ioQueue \o <<<<"destroy">>>>
        /\ UNCHANGED <<state_, channel_, sock, revents, inUser, call, downs, lateMessage>>
    BY <2>1 DEF RemovesFromMap, RemoveAnd, connVars, histVars
  <2>3. Added(<<"destroy">>)
    <3>1. ioQueue \in Seq(Functors) /\ <<"destroy">> \in Functors
      BY DEF LoopsInv, Types, DataTypes, Functors
    <3>2. ioQueue \o <<<<"destroy">>>> = Append(ioQueue, <<"destroy">>)
      BY <3>1, AppendIsConcat
    <3> QED
      BY <2>2, <3>1, <3>2, AppendAdds
  <2>4. /\ ConnectingInv' /\ \A g \in Control : Queued(g)' => Queued(g) \/ g = <<"destroy">>
        /\ Len(ioQueue) \in Nat /\ At(ioQueue', Len(ioQueue) + 1, <<"destroy">>)
        /\ Queued(<<"destroy">>)'
    BY <2>1, <2>2, <2>3, AddedFrame, ControlFunctors
  <2>5. DownInv'
    <3>1. baseQueue' # <<>> => baseQueue # <<>>
      BY <2>1
    <3> QED
      BY <2>2, <3>1 DEF LoopsInv, DownInv
  <2>6. ManagedInv'
    BY <2>2, <2>4 DEF LoopsInv, ManagedInv
  <2>7. RemovedInv'
    <3>1. SUFFICES ASSUME ~serverDown' PROVE RemovedInv'
      BY DEF RemovedInv
    <3>2. state_ \notin Open
      BY <2>1, <3>1 DEF LoopsInv, DownInv
    <3>3. ASSUME NEW i \in Nat, At(ioQueue', i, <<"shutdown">>)
          PROVE  i < Len(ioQueue) + 1
      <4>1. At(ioQueue, i, <<"shutdown">>)
        BY <2>3, <3>3, ControlFunctors DEF Added
      <4> QED
        BY <2>4, <4>1 DEF At
    <3>4. Len(ioQueue) + 1 \in Nat
      BY <2>4
    <3> QED
      BY <2>1, <2>2, <2>4, <3>2, <3>3, <3>4 DEF RemovedInv
  <2>8. OnceInv'
    BY <2>2 DEF LoopsInv, OnceInv
  <2> QED
    BY <2>4, <2>5, <2>6, <2>7, <2>8 DEF LoopsInv
<1> QED
  BY <1>1, <1>2


-----------------------------------------------------------------------------
(* All together.                                                           *)

LEMMA LoopsInit == Init => LoopsInv
<1> SUFFICES ASSUME Init PROVE LoopsInv
  OBVIOUS
<1>1. Types
  BY StreamTypesInit DEF StreamTypesInv
<1>2. /\ state_ = "kConnecting" /\ channel_ = NewChannel /\ revents = {} /\ ~inUser
      /\ downs = 0 /\ call["base"] = <<"idle">> /\ baseQueue = <<>> /\ inMap
      /\ ~sock.err /\ ~sock.wrShut /\ ~lateMessage
      /\ ioQueue = <<<<"establish">>>>
  BY DEF Init, Threads
<1>3. Len(ioQueue) = 1 /\ ioQueue[1] = <<"establish">>
  BY <1>2
<1>4. \A i \in Nat, f \in Control : At(ioQueue, i, f) <=> i = 1 /\ f = <<"establish">>
  BY <1>3 DEF At
<1>5. ConnectingInv
  BY <1>2, <1>4, ControlFunctors DEF ConnectingInv, Queued
<1>6. DownInv /\ ManagedInv /\ RemovedInv /\ OnceInv
  BY <1>2 DEF DownInv, ManagedInv, RemovedInv, OnceInv, NewChannel
<1> QED
  BY <1>1, <1>5, <1>6 DEF LoopsInv

LEMMA LoopsStep ==
  ASSUME Workers = {}
  PROVE  LoopsInv /\ ShutInv /\ Types' /\ [Next]_vars => LoopsInv'
<1> SUFFICES ASSUME LoopsInv, ShutInv, Types', [Next]_vars PROVE LoopsInv'
  OBVIOUS
<1>1. CASE UNCHANGED vars
  <2>1. /\ ioQueue' = ioQueue
        /\ UNCHANGED <<state_, channel_, sock, revents, inUser, baseQueue, inMap, serverDown, call,
                       downs, lateMessage>>
    BY <1>1 DEF vars, connVars, loopVars, serverVars, histVars
  <2> QED
    BY <2>1 DEF LoopsInv, ConnectingInv, DownInv, ManagedInv, RemovedInv, OnceInv,
                Queued, At
<1>2. CASE IoThread
  BY <1>2, PollLoops, TurnLoops, FunctorLoops DEF IoThread
<1>3. ASSUME NEW t \in Threads, Finishes(t) PROVE LoopsInv'
  <2>1. t = "base" /\ t \notin Workers
    BY DEF Threads
  <2> QED
    BY <1>3, <2>1, StoreLoops, PostLoops DEF Finishes
<1> QED
  BY <1>1, <1>2, <1>3, PeerLoops, UserLoops, StoreLoops, RemoveLoops DEF Next

LEMMA LoopsAlways ==
  ASSUME Workers = {}
  PROVE  Spec => []LoopsInv
<1>1. LoopsInv /\ ShutInv /\ Types' /\ [Next]_vars => LoopsInv'
  BY LoopsStep
<1> QED
  BY <1>1, LoopsInit, ShutAlways, PTL DEF Spec

\* While the server lives, the loop that runs the functor of shutdown(), bound
\* to a plain pointer, finds the connection alive: the wheel's entry queued it
\* before the map's removal queued connectDestroyed, which holds a reference.
THEOREM ConnectionIsAlive ==
  ASSUME Workers = {}
  PROVE  Spec => []NoUseAfterFree
<1>1. LoopsInv => NoUseAfterFree
  <2> SUFFICES ASSUME LoopsInv, ~serverDown, pass > 0 PROVE Owned
    BY DEF NoUseAfterFree, ShutdownFindsConnection
  <2>1. ioQueue \in Seq(Functors) /\ Len(ioQueue) \in Nat /\ pass \in 0..Len(ioQueue)
    BY LenProperties DEF LoopsInv, Types, DataTypes, ControlTypes
  <2>2. 1 \in 1..Len(ioQueue) /\ ioQueue[1] \in Functors
    BY <2>1, ElementOfSeq
  <2>3. DOMAIN ioQueue = 1..Len(ioQueue)
    BY <2>1, LenProperties
  <2>4. CASE ioQueue[1] # <<"shutdown">>
    <3>1. Holds(ioQueue[1])
      BY <2>2, <2>4 DEF Holds, Functors
    <3> QED
      BY <2>2, <2>3, <3>1 DEF Owned
  <2>5. CASE ioQueue[1] = <<"shutdown">> /\ ~inMap
    <3>1. At(ioQueue, 1, <<"shutdown">>)
      BY <2>2, <2>5 DEF At
    <3>2. PICK j \in Nat : At(ioQueue, j, <<"destroy">>)
      BY <2>5, <3>1 DEF LoopsInv, RemovedInv
    <3>3. Holds(ioQueue[j]) /\ j \in DOMAIN ioQueue
      BY <2>3, <3>2 DEF Holds, At
    <3> QED
      BY <3>3 DEF Owned
  <2> QED
    BY <2>4, <2>5 DEF Owned
<1> QED
  BY <1>1, LoopsAlways, PTL

\* In the queue, as the properties say it.
LEMMA QueuedInRange ==
  ASSUME LoopsInv, NEW f, Queued(f)
  PROVE  f \in Range(ioQueue) /\ \E i \in DOMAIN ioQueue : ioQueue[i] = f
<1>1. PICK i \in Nat : At(ioQueue, i, f)
  BY DEF Queued
<1>2. DOMAIN ioQueue = 1..Len(ioQueue)
  BY LenProperties DEF LoopsInv, Types, DataTypes
<1> QED
  BY <1>1, <1>2 DEF At, Range

\* The epoll set never keeps a channel that nothing is going to take out of it.
THEOREM RegisteredStaysManaged ==
  ASSUME Workers = {}
  PROVE  Spec => []RegisteredIsManaged
<1>1. LoopsInv => RegisteredIsManaged
  BY QueuedInRange DEF LoopsInv, ManagedInv, RegisteredIsManaged
<1> QED
  BY <1>1, LoopsAlways, PTL

\* handleEvent() is never called for a connection that has been freed.
THEOREM EventsFindOwner ==
  ASSUME Workers = {}
  PROVE  Spec => []EventsFindConnection
<1>1. LoopsInv => EventsFindConnection
  <2> SUFFICES ASSUME LoopsInv, revents # {} PROVE Owned
    BY DEF EventsFindConnection
  <2>1. inMap \/ Queued(<<"destroy">>)
    BY DEF LoopsInv, ManagedInv
  <2>2. CASE Queued(<<"destroy">>)
    <3>1. PICK i \in DOMAIN ioQueue : ioQueue[i] = <<"destroy">>
      BY <2>2, QueuedInRange
    <3>2. Holds(ioQueue[i])
      BY <3>1 DEF Holds
    <3> QED
      BY <3>2 DEF Owned
  <2> QED
    BY <2>1, <2>2 DEF Owned
<1> QED
  BY <1>1, LoopsAlways, PTL

\* connectionCallback_ hears once at most that the connection is down, unless
\* the peer resets it: handleClose, handleError and connectDestroyed never
\* report it twice.
THEOREM DownOnce ==
  ASSUME Workers = {}
  PROVE  Spec => []DownCallbackOnce
<1>1. LoopsInv => DownCallbackOnce
  BY DEF LoopsInv, OnceInv, DownCallbackOnce
<1> QED
  BY <1>1, LoopsAlways, PTL

=============================================================================
