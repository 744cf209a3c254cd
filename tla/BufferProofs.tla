---------------------------- MODULE BufferProofs ----------------------------
(***************************************************************************)
(* Proofs about module Buffer, for vectors, chunks and reserves of every   *)
(* size.  Each method is shown to keep the indices in order and to do to   *)
(* the contents what the queue promises; the steps then follow.            *)
(***************************************************************************)
EXTENDS Buffer, SequenceTheorems, TLAPS

\* The indices are in order and within the vector.
InOrder(b) ==
  /\ b.size \in Nat /\ b.bytes \in Vector(b.size)
  /\ b.reader \in Nat /\ b.writer \in Nat
  /\ kCheapPrepend <= b.reader
  /\ b.reader <= b.writer
  /\ b.writer <= b.size

IsRecord(b) ==
  b = [size |-> b.size, bytes |-> b.bytes, reader |-> b.reader, writer |-> b.writer]

IsBuffer(b) == IsRecord(b) /\ InOrder(b)

LEMMA ChunkIsSeq ==
  ASSUME NEW data \in Chunks
  PROVE  data \in Seq(Byte) /\ Len(data) \in 0..MaxLen
<1>1. PICK n \in 0..MaxLen : data \in [1..n -> Byte]
  BY DEF Chunks
<1>2. n \in Nat
  BY <1>1, SizesAssumption
<1> QED
  BY <1>1, <1>2

LEMMA ContentsType ==
  ASSUME NEW b, InOrder(b)
  PROVE  /\ Contents(b) \in Seq(Byte)
         /\ Len(Contents(b)) = b.writer - b.reader
         /\ \A i \in 1..(b.writer - b.reader) : Contents(b)[i] = b.bytes[b.reader + i - 1]
<1>1. b.writer - b.reader \in Nat
  BY DEF InOrder
<1>2. ASSUME NEW i \in 1..(b.writer - b.reader)
      PROVE  b.bytes[b.reader + i - 1] \in Byte
  <2>1. b.reader + i - 1 \in 0..(b.size - 1)
    BY DEF InOrder
  <2> QED
    BY <2>1 DEF InOrder, Vector
<1>3. Contents(b) \in [1..(b.writer - b.reader) -> Byte]
  BY <1>2 DEF Contents, Readable
<1> QED
  BY <1>1, <1>3 DEF Contents, Readable

LEMMA CopyType ==
  ASSUME NEW n \in Nat, NEW bytes \in Vector(n), NEW where \in Nat, NEW data \in Seq(Byte)
  PROVE  /\ Copy(bytes, where, data) \in Vector(n)
         /\ \A i \in 0..(n - 1) : Copy(bytes, where, data)[i] =
              IF i \in where..(where + Len(data) - 1) THEN data[i - where + 1] ELSE bytes[i]
<1>1. DOMAIN bytes = 0..(n - 1) /\ \A i \in 0..(n - 1) : bytes[i] \in Byte
  BY DEF Vector
<1>2. ASSUME NEW i \in 0..(n - 1), i \in where..(where + Len(data) - 1)
      PROVE  data[i - where + 1] \in Byte
  <2>1. i - where + 1 \in 1..Len(data)
    BY <1>2
  <2> QED
    BY <2>1
<1> QED
  BY <1>1, <1>2 DEF Copy, Vector

\* Writing behind the contents, within the vector, appends to them.
LEMMA WriteBehind ==
  ASSUME NEW b, IsBuffer(b), NEW data \in Seq(Byte), b.writer + Len(data) <= b.size,
         NEW w, w = [b EXCEPT !.bytes = Copy(@, b.writer, data), !.writer = @ + Len(data)]
  PROVE  IsBuffer(w) /\ Contents(w) = Contents(b) \o data
<1>1. InOrder(b)
  BY DEF IsBuffer
<1>2. /\ w.size = b.size /\ w.reader = b.reader /\ w.writer = b.writer + Len(data)
      /\ w.bytes = Copy(b.bytes, b.writer, data)
      /\ IsRecord(w)
  BY DEF IsBuffer, IsRecord
<1>3. /\ w.bytes \in Vector(b.size)
      /\ \A i \in 0..(b.size - 1) : w.bytes[i] =
           IF i \in b.writer..(b.writer + Len(data) - 1) THEN data[i - b.writer + 1] ELSE b.bytes[i]
  BY <1>1, <1>2, CopyType, SMTT(40) DEF InOrder
<1>4. Len(data) \in Nat
  BY LenProperties
<1>5. InOrder(w)
  BY <1>1, <1>2, <1>3, <1>4 DEF InOrder
<1>6. /\ Contents(w) \in Seq(Byte)
      /\ Len(Contents(w)) = b.writer + Len(data) - b.reader
      /\ \A i \in 1..(b.writer + Len(data) - b.reader) : Contents(w)[i] = w.bytes[b.reader + i - 1]
  <2>1. w.writer - w.reader = b.writer + Len(data) - b.reader
    BY <1>1, <1>2, <1>4 DEF InOrder
  <2>2. /\ Contents(w) \in Seq(Byte)
        /\ Len(Contents(w)) = w.writer - w.reader
        /\ \A i \in 1..(w.writer - w.reader) : Contents(w)[i] = w.bytes[w.reader + i - 1]
    BY <1>5, ContentsType
  <2> QED
    BY <1>2, <2>1, <2>2
<1>7. /\ Contents(b) \in Seq(Byte)
      /\ Len(Contents(b)) = b.writer - b.reader
      /\ \A i \in 1..(b.writer - b.reader) : Contents(b)[i] = b.bytes[b.reader + i - 1]
  BY <1>1, ContentsType
<1>8. /\ Contents(b) \o data \in Seq(Byte)
      /\ Len(Contents(b) \o data) = b.writer - b.reader + Len(data)
      /\ \A i \in 1..(b.writer - b.reader + Len(data)) : (Contents(b) \o data)[i] =
           IF i <= b.writer - b.reader THEN Contents(b)[i] ELSE data[i - (b.writer - b.reader)]
  <2>1. PICK s : s = Contents(b)
    OBVIOUS
  <2>2. s \in Seq(Byte) /\ Len(s) = b.writer - b.reader
    BY <1>7, <2>1
  <2>3. /\ s \o data \in Seq(Byte)
        /\ Len(s \o data) = Len(s) + Len(data)
        /\ \A i \in 1..(Len(s) + Len(data)) :
             (s \o data)[i] = IF i <= Len(s) THEN s[i] ELSE data[i - Len(s)]
    BY <2>2, ConcatProperties
  <2> QED
    BY <2>1, <2>2, <2>3
<1>9. ASSUME NEW i \in 1..(b.writer + Len(data) - b.reader)
      PROVE  Contents(w)[i] = (Contents(b) \o data)[i]
  <2>1. /\ b.reader + i - 1 \in 0..(b.size - 1)
        /\ i \in 1..(b.writer - b.reader + Len(data))
        /\ i <= b.writer - b.reader => /\ i \in 1..(b.writer - b.reader)
                                       /\ b.reader + i - 1 < b.writer
        /\ ~(i <= b.writer - b.reader) =>
             /\ b.reader + i - 1 \in b.writer..(b.writer + Len(data) - 1)
             /\ (b.reader + i - 1) - b.writer + 1 = i - (b.writer - b.reader)
    BY <1>1, <1>4, SMTT(30) DEF InOrder
  <2>2. Contents(w)[i] = w.bytes[b.reader + i - 1]
    BY <1>6
  <2>3. CASE i <= b.writer - b.reader
    <3>1. ~(b.reader + i - 1 \in b.writer..(b.writer + Len(data) - 1))
      BY <1>1, <2>1, <2>3 DEF InOrder
    <3> QED
      BY <1>3, <1>7, <1>8, <2>1, <2>2, <2>3, <3>1
  <2>4. CASE ~(i <= b.writer - b.reader)
    BY <1>3, <1>8, <2>1, <2>2, <2>4
  <2> QED
    BY <2>3, <2>4
<1>10. Len(Contents(w)) = Len(Contents(b) \o data)
  BY <1>1, <1>4, <1>6, <1>8 DEF InOrder
<1> QED
  BY <1>2, <1>5, <1>6, <1>8, <1>9, <1>10, SeqEqual DEF IsBuffer

LEMMA GrownType ==
  ASSUME NEW size \in Nat, NEW bytes \in Vector(size), NEW n \in Nat
  PROVE  /\ Grown(bytes, size, n) \in Vector(n)
         /\ \A i \in 0..(n - 1) : i < size => Grown(bytes, size, n)[i] = bytes[i]
<1>1. ASSUME NEW i \in 0..(n - 1), i < size PROVE bytes[i] \in Byte
  <2>1. i \in 0..(size - 1)
    BY <1>1
  <2> QED
    BY <2>1 DEF Vector
<1> QED
  BY <1>1, ZeroAssumption DEF Grown, Vector

\* A grown vector keeps the contents, and there is space.
LEMMA ResizeMakesSpace ==
  ASSUME NEW b, IsBuffer(b), NEW len \in Nat, b.size - b.writer < len,
         NEW w, w = Resize(b, b.writer + len)
  PROVE  IsBuffer(w) /\ Contents(w) = Contents(b) /\ w.writer + len <= w.size
<1>1. InOrder(b)
  BY DEF IsBuffer
<1>2. PICK n : n = b.writer + len
  OBVIOUS
<1>3. /\ w.size = n /\ w.reader = b.reader /\ w.writer = b.writer
      /\ w.bytes = Grown(b.bytes, b.size, n)
      /\ IsRecord(w)
  BY <1>2 DEF Resize, IsBuffer, IsRecord
<1>4. b.size \in Nat /\ b.bytes \in Vector(b.size) /\ n \in Nat
  BY <1>1, <1>2 DEF InOrder
<1>5. /\ w.bytes \in Vector(n)
      /\ \A i \in 0..(n - 1) : i < b.size => w.bytes[i] = b.bytes[i]
  BY <1>3, <1>4, GrownType
<1>6. InOrder(w)
  BY <1>1, <1>2, <1>3, <1>4, <1>5 DEF InOrder
<1>7. ASSUME NEW i \in 1..(b.writer - b.reader)
      PROVE  w.bytes[b.reader + i - 1] = b.bytes[b.reader + i - 1]
  <2>1. b.reader + i - 1 \in 0..(n - 1) /\ b.reader + i - 1 < b.size
    BY <1>1, <1>2 DEF InOrder
  <2> QED
    BY <1>5, <2>1
<1>8. Contents(w) = Contents(b)
  BY <1>3, <1>7 DEF Contents, Readable
<1> QED
  BY <1>1, <1>2, <1>3, <1>6, <1>8 DEF IsBuffer, InOrder

\* So does the vector whose contents are moved to its front.
LEMMA CompactMakesSpace ==
  ASSUME NEW b, IsBuffer(b), NEW len \in Nat,
         ~(b.size - b.writer + b.reader < len + kCheapPrepend),
         NEW w, w = Compact(b)
  PROVE  IsBuffer(w) /\ Contents(w) = Contents(b) /\ w.writer + len <= w.size
<1>1. InOrder(b)
  BY DEF IsBuffer
<1>2. kCheapPrepend \in Nat
  BY SizesAssumption
<1>3. /\ Contents(b) \in Seq(Byte)
      /\ Len(Contents(b)) = b.writer - b.reader
  BY <1>1, ContentsType
<1>4. /\ w.size = b.size /\ w.reader = kCheapPrepend
      /\ w.writer = b.writer - b.reader + kCheapPrepend
      /\ w.bytes = Copy(b.bytes, kCheapPrepend, Contents(b))
      /\ IsRecord(w)
  BY DEF Compact, Readable, IsBuffer, IsRecord
<1>5. /\ w.bytes \in Vector(b.size)
      /\ \A i \in 0..(b.size - 1) : w.bytes[i] =
           IF i \in kCheapPrepend..(kCheapPrepend + Len(Contents(b)) - 1)
           THEN Contents(b)[i - kCheapPrepend + 1] ELSE b.bytes[i]
  <2>1. b.size \in Nat /\ b.bytes \in Vector(b.size)
    BY <1>1 DEF InOrder
  <2>2. PICK s : s = Contents(b)
    OBVIOUS
  <2>3. /\ Copy(b.bytes, kCheapPrepend, s) \in Vector(b.size)
        /\ \A i \in 0..(b.size - 1) : Copy(b.bytes, kCheapPrepend, s)[i] =
             IF i \in kCheapPrepend..(kCheapPrepend + Len(s) - 1)
             THEN s[i - kCheapPrepend + 1] ELSE b.bytes[i]
    <3>1. s \in Seq(Byte)
      BY <1>3, <2>2
    <3> QED
      BY <1>2, <2>1, <3>1, CopyType
  <2> QED
    BY <1>4, <2>2, <2>3
<1>6. InOrder(w)
  BY <1>1, <1>2, <1>4, <1>5 DEF InOrder
<1>7. ASSUME NEW i \in 1..(b.writer - b.reader)
      PROVE  w.bytes[kCheapPrepend + i - 1] = Contents(b)[i]
  <2>1. /\ kCheapPrepend + i - 1 \in 0..(b.size - 1)
        /\ kCheapPrepend + i - 1 \in kCheapPrepend..(kCheapPrepend + Len(Contents(b)) - 1)
        /\ (kCheapPrepend + i - 1) - kCheapPrepend + 1 = i
    BY <1>1, <1>2, <1>3, SMTT(40) DEF InOrder
  <2> QED
    BY <1>5, <2>1
<1>8. w.writer - w.reader = b.writer - b.reader
  BY <1>1, <1>2, <1>4 DEF InOrder
<1>9. /\ Contents(w) \in Seq(Byte)
      /\ Len(Contents(w)) = b.writer - b.reader
      /\ \A i \in 1..(b.writer - b.reader) : Contents(w)[i] = w.bytes[kCheapPrepend + i - 1]
  BY <1>4, <1>6, <1>8, ContentsType
<1>10. Contents(w) = Contents(b)
  BY <1>3, <1>7, <1>9, SeqEqual
<1> QED
  BY <1>1, <1>2, <1>4, <1>6, <1>10 DEF IsBuffer, InOrder

LEMMA SpaceIsMade ==
  ASSUME NEW b, IsBuffer(b), NEW len \in Nat,
         NEW w, w = EnsureWritableBytes(b, len)
  PROVE  IsBuffer(w) /\ Contents(w) = Contents(b) /\ w.writer + len <= w.size
<1>1. CASE ~(b.size - b.writer < len)
  BY <1>1 DEF EnsureWritableBytes, Writable, IsBuffer, InOrder
<1>2. CASE b.size - b.writer < len /\ b.size - b.writer + b.reader < len + kCheapPrepend
  BY <1>2, ResizeMakesSpace DEF EnsureWritableBytes, MakeSpace, Writable
<1>3. CASE b.size - b.writer < len /\ ~(b.size - b.writer + b.reader < len + kCheapPrepend)
  BY <1>3, CompactMakesSpace DEF EnsureWritableBytes, MakeSpace, Writable
<1> QED
  BY <1>1, <1>2, <1>3

\* append().
LEMMA AppendAppends ==
  ASSUME NEW b, IsBuffer(b), NEW data \in Seq(Byte)
  PROVE  IsBuffer(AppendTo(b, data)) /\ Contents(AppendTo(b, data)) = Contents(b) \o data
<1>1. PICK roomy : roomy = EnsureWritableBytes(b, Len(data))
  OBVIOUS
<1>2. IsBuffer(roomy) /\ Contents(roomy) = Contents(b) /\ roomy.writer + Len(data) <= roomy.size
  BY <1>1, SpaceIsMade, LenProperties
<1>3. AppendTo(b, data) =
        [roomy EXCEPT !.bytes = Copy(@, roomy.writer, data), !.writer = @ + Len(data)]
  BY <1>1 DEF AppendTo
<1> QED
  BY <1>2, <1>3, WriteBehind

\* readFd(), whichever of its two areas readv() fills.
LEMMA ReadFdAppends ==
  ASSUME NEW b, IsBuffer(b), NEW data \in Seq(Byte)
  PROVE  IsBuffer(ReadFdInto(b, data)) /\ Contents(ReadFdInto(b, data)) = Contents(b) \o data
<1>1. InOrder(b) /\ Len(data) \in Nat
  BY LenProperties DEF IsBuffer
<1>2. CASE Len(data) <= Writable(b)
  <2>1. b.writer + Len(data) <= b.size
    BY <1>1, <1>2 DEF Writable, InOrder
  <2>2. ReadFdInto(b, data) =
          [b EXCEPT !.bytes = Copy(@, b.writer, data), !.writer = @ + Len(data)]
    BY <1>2 DEF ReadFdInto, ReadFdFrom
  <2> QED
    BY <2>1, <2>2, WriteBehind
<1>3. CASE ~(Len(data) <= Writable(b))
  <2>1. PICK first : first = SubSeq(data, 1, Writable(b))
    OBVIOUS
  <2>2. PICK rest : rest = SubSeq(data, Writable(b) + 1, Len(data))
    OBVIOUS
  <2>3. Writable(b) \in Nat /\ Writable(b) < Len(data) /\ b.writer + Writable(b) = b.size
    BY <1>1, <1>3 DEF Writable, InOrder
  <2>4. first \in Seq(Byte) /\ Len(first) = Writable(b) /\ rest \in Seq(Byte)
    <3>1. \A i \in 1..Len(data) : data[i] \in Byte
      OBVIOUS
    <3>2. /\ \A i \in 1..Writable(b) : data[i] \in Byte
          /\ \A i \in (Writable(b) + 1)..Len(data) : data[i] \in Byte
          /\ 1 \in Int /\ Writable(b) \in Int /\ Writable(b) + 1 \in Int /\ Len(data) \in Int
      BY <1>1, <2>3, <3>1
    <3>3. first \in Seq(Byte) /\ Len(first) = IF 1 <= Writable(b) THEN Writable(b) - 1 + 1 ELSE 0
      BY <2>1, <3>2, SubSeqProperties
    <3>4. rest \in Seq(Byte)
      BY <2>2, <3>2, SubSeqProperties
    <3> QED
      BY <2>3, <3>3, <3>4
  <2>5. first \o rest = data
    <3>1. 1 \in 1..(Len(data) + 1) /\ Writable(b) \in (1 - 1)..Len(data)
          /\ Len(data) \in Writable(b)..Len(data)
      BY <1>1, <2>3
    <3>2. first \o rest = SubSeq(data, 1, Len(data))
      BY <2>1, <2>2, <3>1, ConcatAdjacentSubSeq
    <3> QED
      BY <3>2, SubSeqFull
  <2>6. PICK full : full = [b EXCEPT !.bytes = Copy(@, b.writer, first), !.writer = @ + Len(first)]
    OBVIOUS
  <2>7. IsBuffer(full) /\ Contents(full) = Contents(b) \o first
    <3>1. b.writer + Len(first) <= b.size
      BY <1>1, <2>3, <2>4 DEF InOrder
    <3> QED
      BY <2>4, <2>6, <3>1, WriteBehind
  <2>8. full = [b EXCEPT !.bytes = Copy(@, b.writer, first), !.writer = b.size]
    BY <1>1, <2>3, <2>4, <2>6 DEF InOrder
  <2>9. ReadFdInto(b, data) = AppendTo(full, rest)
    BY <1>3, <2>1, <2>2, <2>8 DEF ReadFdInto, ReadFdFrom
  <2>10. Contents(b) \in Seq(Byte)
    BY <1>1, ContentsType
  <2>11. (Contents(b) \o first) \o rest = Contents(b) \o data
    <3>1. PICK c : c = Contents(b)
      OBVIOUS
    <3>2. (c \o first) \o rest = c \o (first \o rest)
      BY <2>4, <2>10, <3>1, ConcatAssociative, SMTT(40)
    <3> QED
      BY <2>5, <3>1, <3>2
  <2> QED
    BY <2>4, <2>7, <2>9, <2>11, AppendAppends
<1> QED
  BY <1>2, <1>3

\* retrieve(), also of more than there is.
LEMMA RetrieveTakes ==
  ASSUME NEW b, IsBuffer(b), NEW len \in Nat,
         NEW w, w = RetrieveFrom(b, len),
         NEW n, n = IF len < b.writer - b.reader THEN len ELSE b.writer - b.reader
  PROVE  /\ IsBuffer(w)
         /\ Contents(w) = SubSeq(Contents(b), n + 1, Len(Contents(b)))
<1>1. InOrder(b) /\ kCheapPrepend \in Nat
  BY SizesAssumption DEF IsBuffer
<1>2. PICK c : c = Contents(b)
  OBVIOUS
<1>3. /\ c \in Seq(Byte) /\ Len(c) = b.writer - b.reader
      /\ \A i \in 1..(b.writer - b.reader) : c[i] = b.bytes[b.reader + i - 1] /\ c[i] \in Byte
  BY <1>1, <1>2, ContentsType
<1>4. CASE ~(len < b.writer - b.reader)
  <2>1. n = Len(c)
    BY <1>3, <1>4
  <2>2. w = [b EXCEPT !.reader = kCheapPrepend, !.writer = kCheapPrepend]
    BY <1>4 DEF RetrieveFrom, RetrieveAll, Readable
  <2>3. /\ w.size = b.size /\ w.bytes = b.bytes
        /\ w.reader = kCheapPrepend /\ w.writer = kCheapPrepend /\ IsRecord(w)
    BY <2>2 DEF IsBuffer, IsRecord
  <2>4. InOrder(w)
    BY <1>1, <2>3 DEF InOrder
  <2>5. Contents(w) \in Seq(Byte) /\ Len(Contents(w)) = 0
    BY <1>1, <2>3, <2>4, ContentsType
  <2>6. Contents(w) = <<>>
    BY <2>5, EmptySeq
  <2>7. SubSeq(c, n + 1, Len(c)) = <<>>
    BY <1>3, <2>1, SubSeqEmpty, LenProperties
  <2> QED
    BY <1>2, <2>3, <2>4, <2>6, <2>7 DEF IsBuffer
<1>5. CASE len < b.writer - b.reader
  <2>1. n = len
    BY <1>5
  <2>2. w = [b EXCEPT !.reader = @ + len]
    BY <1>5 DEF RetrieveFrom, Readable
  <2>3. /\ w.size = b.size /\ w.bytes = b.bytes
        /\ w.reader = b.reader + len /\ w.writer = b.writer /\ IsRecord(w)
    BY <2>2 DEF IsBuffer, IsRecord
  <2>4. InOrder(w)
    BY <1>1, <1>5, <2>3 DEF InOrder
  <2>5. w.writer - w.reader = b.writer - b.reader - len /\ w.writer - w.reader \in Nat
    BY <1>1, <1>5, <2>3 DEF InOrder
  <2>6. /\ Contents(w) \in Seq(Byte)
        /\ Len(Contents(w)) = b.writer - b.reader - len
        /\ \A i \in 1..(b.writer - b.reader - len) : Contents(w)[i] = b.bytes[(b.reader + len) + i - 1]
    BY <2>3, <2>4, <2>5, ContentsType
  <2>7. PICK t : t = SubSeq(c, len + 1, Len(c))
    OBVIOUS
  <2>8. /\ t \in Seq(Byte)
        /\ Len(t) = b.writer - b.reader - len
        /\ \A i \in 1..(b.writer - b.reader - len) : t[i] = c[(len + 1) + i - 1]
    <3>1. /\ len + 1 \in Int /\ Len(c) \in Int /\ len + 1 <= Len(c)
          /\ \A i \in (len + 1)..Len(c) : c[i] \in Byte
          /\ Len(c) - (len + 1) + 1 = b.writer - b.reader - len
      BY <1>1, <1>3, <1>5 DEF InOrder
    <3>2. /\ t \in Seq(Byte)
          /\ Len(t) = Len(c) - (len + 1) + 1
          /\ \A i \in 1..(Len(c) - (len + 1) + 1) : t[i] = c[(len + 1) + i - 1]
      BY <2>7, <3>1, SubSeqProperties
    <3> QED
      BY <3>1, <3>2
  <2>9. ASSUME NEW i \in 1..(b.writer - b.reader - len)
        PROVE  Contents(w)[i] = t[i]
    <3>1. /\ (len + 1) + i - 1 \in 1..(b.writer - b.reader)
          /\ b.reader + ((len + 1) + i - 1) - 1 = (b.reader + len) + i - 1
      BY <1>1, <1>5 DEF InOrder
    <3> QED
      BY <1>3, <2>6, <2>8, <3>1
  <2>10. Contents(w) = t
    BY <2>6, <2>8, <2>9, SeqEqual
  <2> QED
    BY <1>2, <2>1, <2>3, <2>4, <2>7, <2>10 DEF IsBuffer
<1> QED
  BY <1>4, <1>5

-----------------------------------------------------------------------------
LEMMA TypeIsBuffer == TypeOK => IsBuffer(This)
<1>1. /\ This.size = buffer_.size /\ This.bytes = buffer_.bytes
      /\ This.reader = readerIndex_ /\ This.writer = writerIndex_
      /\ IsRecord(This)
  BY DEF This, IsRecord
<1> QED
  BY <1>1 DEF TypeOK, IsBuffer, InOrder

\* After a method the object is what the method made of it.
LEMMA ThisBecomes ==
  ASSUME NEW b, IsBuffer(b), Becomes(b)
  PROVE  TypeOK' /\ Contents(This)' = Contents(b)
<1>1. This' = b
  BY DEF This, Becomes, IsBuffer, IsRecord
<1>2. /\ buffer_'.size = b.size /\ buffer_'.bytes = b.bytes
      /\ readerIndex_' = b.reader /\ writerIndex_' = b.writer
  BY DEF Becomes
<1> QED
  BY <1>1, <1>2 DEF TypeOK, IsBuffer, InOrder, Contents, Readable

LEMMA InitBuffer == Init => TypeOK /\ Queue!Init
<1> SUFFICES ASSUME Init PROVE TypeOK /\ Queue!Init
  OBVIOUS
<1>1. kCheapPrepend \in Nat /\ kInitialSize \in Nat
  BY SizesAssumption
<1>2. /\ buffer_.size = kCheapPrepend + kInitialSize
      /\ buffer_.bytes = [i \in 0..(kCheapPrepend + kInitialSize - 1) |-> Zero]
      /\ readerIndex_ = kCheapPrepend /\ writerIndex_ = kCheapPrepend
  BY DEF Init
<1>3. TypeOK
  BY <1>1, <1>2, ZeroAssumption DEF TypeOK, Vector
<1>4. InOrder(This) /\ This.writer - This.reader = 0
  BY <1>1, <1>2, <1>3 DEF This, TypeOK, InOrder
<1>5. Contents(This) \in Seq(Byte) /\ Len(Contents(This)) = 0
  BY <1>4, ContentsType
<1>6. Contents(This) = <<>>
  BY <1>5, EmptySeq
<1> QED
  BY <1>3, <1>6 DEF Init, Queue!Init

LEMMA BufferStep == TypeOK /\ [Next]_vars => TypeOK' /\ [Queue!Next]_(<<Contents(This), op>>)
<1> SUFFICES ASSUME TypeOK, [Next]_vars PROVE TypeOK' /\ [Queue!Next]_(<<Contents(This), op>>)
  OBVIOUS
<1>1. IsBuffer(This)
  BY TypeIsBuffer
<1>2. ASSUME NEW data \in Chunks, AppendBytes(data)
      PROVE  TypeOK' /\ Queue!Put(data)
  <2>1. data \in Seq(Byte)
    BY ChunkIsSeq
  <2>2. IsBuffer(AppendTo(This, data)) /\ Contents(AppendTo(This, data)) = Contents(This) \o data
    BY <1>1, <2>1, AppendAppends
  <2> QED
    BY <1>2, <2>2, ThisBecomes DEF AppendBytes, Queue!Put
<1>3. ASSUME NEW data \in Chunks, ReadFd(data)
      PROVE  TypeOK' /\ Queue!Put(data)
  <2>1. data \in Seq(Byte)
    BY ChunkIsSeq
  <2>2. IsBuffer(ReadFdInto(This, data)) /\ Contents(ReadFdInto(This, data)) = Contents(This) \o data
    BY <1>1, <2>1, ReadFdAppends
  <2> QED
    BY <1>3, <2>2, ThisBecomes DEF ReadFd, Queue!Put
<1>4. ASSUME NEW len \in 0..MaxLen, Retrieve(len)
      PROVE  TypeOK' /\ Queue!Take(len)
  <2>1. len \in Nat
    BY SizesAssumption
  <2>2. PICK n : n = IF len < This.writer - This.reader THEN len ELSE This.writer - This.reader
    OBVIOUS
  <2>3. PICK w : w = RetrieveFrom(This, len)
    OBVIOUS
  <2>4. IsBuffer(w) /\ Contents(w) = SubSeq(Contents(This), n + 1, Len(Contents(This)))
    BY <1>1, <2>1, <2>2, <2>3, RetrieveTakes
  <2>5. Len(Contents(This)) = This.writer - This.reader
    BY <1>1, ContentsType DEF IsBuffer
  <2>6. Becomes(w) /\ op' = <<"take", SubSeq(Contents(This), 1, n)>>
    BY <1>4, <2>2, <2>3 DEF Retrieve, Readable
  <2>7. TypeOK' /\ Contents(This)' = SubSeq(Contents(This), n + 1, Len(Contents(This)))
    BY <2>4, <2>6, ThisBecomes
  <2> QED
    BY <2>2, <2>5, <2>6, <2>7 DEF Queue!Take
<1>5. CASE UNCHANGED vars
  BY <1>5 DEF vars, TypeOK, This, Contents, Readable
<1>6. Chunks = Queue!Chunks
  BY DEF Chunks, Queue!Chunks
<1> QED
  BY <1>2, <1>3, <1>4, <1>5, <1>6 DEF Next, Queue!Next

\* The indices never leave their order or the vector.
THEOREM TypeCorrect == Spec => []TypeOK
<1>1. TypeOK /\ [Next]_vars => TypeOK'
  BY BufferStep
<1> QED
  BY <1>1, InitBuffer, PTL DEF Spec

\* The buffer is a queue of bytes, whatever its sizes and those of the chunks.
THEOREM BufferIsByteQueue == Spec => ImplementsByteQueue
<1>1. TypeOK /\ [Next]_vars => [Queue!Next]_(<<Contents(This), op>>)
  BY BufferStep
<1> QED
  BY <1>1, InitBuffer, TypeCorrect, PTL DEF Spec, ImplementsByteQueue, Queue!Spec

=============================================================================
