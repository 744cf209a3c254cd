------------------------------- MODULE Buffer -------------------------------
(***************************************************************************)
(* The buffer of a connection (Buffer.h, Buffer.cc): a vector with two     *)
(* indices.  The bytes between them are the contents, what lies before the *)
(* first and behind the second is space, kCheapPrepend of it reserved.     *)
(*                                                                         *)
(* retrieveAsString is called with no more than readableBytes(): beyond,   *)
(* the code reads what is not contents.  readv() may return any number of  *)
(* bytes that fits the two areas it is given.                              *)
(***************************************************************************)
EXTENDS Integers, Sequences

CONSTANTS
  Byte, Zero,            \* Zero: what a byte of the vector is made with
  kCheapPrepend, kInitialSize,
  ExtraSize,             \* the size of readFd's extrabuf
  MaxLen,                \* the longest chunk of a call
  MaxHeld                \* bytes the users let the buffer hold

ASSUME ZeroAssumption == Zero \in Byte
ASSUME SizesAssumption == {kCheapPrepend, kInitialSize, ExtraSize, MaxLen, MaxHeld} \subseteq Nat

VARIABLES buffer_, readerIndex_, writerIndex_, op

vars == <<buffer_, readerIndex_, writerIndex_, op>>

Chunks == UNION {[1..n -> Byte] : n \in 0..MaxLen}

\* A vector is a function on 0..n-1; its size() is kept with it.
Vector(n) == [0..(n - 1) -> Byte]

-----------------------------------------------------------------------------
(* The Buffer as a value: what a method makes of it.                       *)

Readable(b) == b.writer - b.reader
Writable(b) == b.size - b.writer

\* The bytes that may be read, oldest first.
Contents(b) == [i \in 1..Readable(b) |-> b.bytes[b.reader + i - 1]]

\* data written from index "at" on.
Copy(bytes, at, data) ==
  [i \in DOMAIN bytes |-> IF i \in at..(at + Len(data) - 1) THEN data[i - at + 1] ELSE bytes[i]]

\* buffer_.resize(n) to more than the vector has.
Grown(bytes, size, n) == [i \in 0..(n - 1) |-> IF i < size THEN bytes[i] ELSE Zero]
Resize(b, n) == [b EXCEPT !.size = n, !.bytes = Grown(@, b.size, n)]

\* The contents moved to the front of the vector.
Compact(b) ==
  [b EXCEPT !.bytes = Copy(b.bytes, kCheapPrepend, Contents(b)),
            !.reader = kCheapPrepend,
            !.writer = Readable(b) + kCheapPrepend]

\* Mutant: the space in front counts, the reserved part included.
MakeSpaceOfAll(b, len) ==
  IF Writable(b) + b.reader < len THEN Resize(b, b.writer + len) ELSE Compact(b)

MakeSpace(b, len) ==
  IF Writable(b) + b.reader < len + kCheapPrepend
  THEN Resize(b, b.writer + len)
  ELSE Compact(b)

EnsureWritableBytes(b, len) == IF Writable(b) < len THEN MakeSpace(b, len) ELSE b

AppendTo(b, data) ==
  LET roomy == EnsureWritableBytes(b, Len(data))
  IN [roomy EXCEPT !.bytes = Copy(@, roomy.writer, data), !.writer = @ + Len(data)]

RetrieveAll(b) == [b EXCEPT !.reader = kCheapPrepend, !.writer = kCheapPrepend]

RetrieveFrom(b, len) ==
  IF len < Readable(b) THEN [b EXCEPT !.reader = @ + len] ELSE RetrieveAll(b)

\* What the vector's own space has received, followed by what did not fit.
ReadFdFrom(b, from, data) ==
  IF Len(data) <= Writable(b)
  THEN [b EXCEPT !.bytes = Copy(@, b.writer, data), !.writer = @ + Len(data)]
  ELSE AppendTo([b EXCEPT !.bytes = Copy(@, b.writer, SubSeq(data, 1, Writable(b))),
                          !.writer = from],
                SubSeq(data, Writable(b) + 1, Len(data)))

\* Mutant: the index is not moved behind what the vector has received.
ReadFdKeepsIndex(b, data) == ReadFdFrom(b, b.writer, data)

ReadFdInto(b, data) == ReadFdFrom(b, b.size, data)

-----------------------------------------------------------------------------
Init ==
  /\ buffer_ = [size |-> kCheapPrepend + kInitialSize,
                bytes |-> [i \in 0..(kCheapPrepend + kInitialSize - 1) |-> Zero]]
  /\ readerIndex_ = kCheapPrepend /\ writerIndex_ = kCheapPrepend
  /\ op = <<"new", <<>>>>

\* The object as one value.
This == [size |-> buffer_.size, bytes |-> buffer_.bytes, reader |-> readerIndex_, writer |-> writerIndex_]

Becomes(b) ==
  /\ buffer_' = [size |-> b.size, bytes |-> b.bytes]
  /\ readerIndex_' = b.reader /\ writerIndex_' = b.writer

\* The users stop at MaxHeld bytes.
Fits(data) == Readable(This) + Len(data) <= MaxHeld

AppendBytes(data) == Fits(data) /\ Becomes(AppendTo(This, data)) /\ op' = <<"put", data>>

\* readv() may fill the vector's space and, when that is smaller, extrabuf.
ReadFd(data) ==
  /\ Fits(data)
  /\ Len(data) <= Writable(This) + (IF Writable(This) < ExtraSize THEN ExtraSize ELSE 0)
  /\ Becomes(ReadFdInto(This, data))
  /\ op' = <<"put", data>>

\* The caller of retrieve() has read the bytes through peek().
Retrieve(len) ==
  /\ Becomes(RetrieveFrom(This, len))
  /\ op' = <<"take", SubSeq(Contents(This), 1, IF len < Readable(This) THEN len ELSE Readable(This))>>

Next ==
  \/ \E data \in Chunks : AppendBytes(data) \/ ReadFd(data)
  \/ \E len \in 0..MaxLen : Retrieve(len)

Spec == Init /\ [][Next]_vars

-----------------------------------------------------------------------------
(* Properties.                                                             *)

\* The indices stay in order and within the vector: begin() + writerIndex_
\* never points behind it, whatever readv(), resize and the move did.
TypeOK ==
  /\ buffer_.size \in Nat /\ buffer_.bytes \in Vector(buffer_.size)
  /\ readerIndex_ \in Nat /\ writerIndex_ \in Nat
  /\ kCheapPrepend <= readerIndex_
  /\ readerIndex_ <= writerIndex_
  /\ writerIndex_ <= buffer_.size

\* The buffer is a queue of bytes: none is lost, doubled or reordered when
\* the contents are moved, the vector grows, or a read spills into extrabuf.
Queue == INSTANCE ByteQueue WITH queue <- Contents(This)
ImplementsByteQueue == Queue!Spec

=============================================================================
