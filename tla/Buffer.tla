------------------------------- MODULE Buffer -------------------------------
(***************************************************************************)
(* polly::Buffer (util/buffer.h, util/buffer.cc), the receive and send     *)
(* buffers of a connection: a vector with a writing and a reading index    *)
(* and some room in front, which moves its data to the front or grows when *)
(* the room at the end is too small.                                       *)
(*                                                                         *)
(* The sizes are parameters (kCheapPrepend is 8, kInitialSize 1024 and     *)
(* extrabuf has 65536 bytes in the code).  Bytes that were read stay in    *)
(* the vector until they are overwritten; 0 fills what resize() adds.      *)
(***************************************************************************)
EXTENDS Integers, Sequences

CONSTANTS Byte,
          kCheapPrepend, kInitialSize, kExtrabuf,
          MaxChunk,   \* bound: bytes in one call
          MaxReadable \* bound: bytes in the buffer

ASSUME BufferAssumption ==
  /\ 0 \notin Byte
  /\ kCheapPrepend \in Nat /\ kInitialSize \in Nat /\ kExtrabuf \in Nat
  /\ MaxChunk \in Nat /\ MaxReadable \in Nat

VARIABLES buffer_, readerIndex_, writerIndex_,
          call \* the last call: its kind, the bytes it put in or took out

bufferVars == <<buffer_, readerIndex_, writerIndex_, call>>

Data == UNION {[1..n -> Byte] : n \in 0..MaxChunk}

BufferInit ==
  /\ buffer_ = [i \in 1..kCheapPrepend + kInitialSize |-> 0]
  /\ readerIndex_ = kCheapPrepend /\ writerIndex_ = kCheapPrepend
  /\ call = [op |-> "none", data |-> <<>>]

-----------------------------------------------------------------------------
readableBytes    == writerIndex_ - readerIndex_
writableBytes    == Len(buffer_) - writerIndex_
prependableBytes == readerIndex_

(* The readable bytes, from peek() on. *)
readable == SubSeq(buffer_, readerIndex_ + 1, writerIndex_)

(* std::copy of data to begin() + at. *)
copy(vector, at, data) ==
  [i \in DOMAIN vector |->
     IF i > at /\ i <= at + Len(data) THEN data[i - at] ELSE vector[i]]

resize(vector, n) ==
  [i \in 1..n |-> IF i <= Len(vector) THEN vector[i] ELSE 0]

(* append(data) to vector, whose writing index is w: there is room, or     *)
(* makeSpace() lets the vector grow, or it moves the readable bytes to the *)
(* front.                                                                  *)
Fits(vector, w, data) ==
  /\ Len(vector) - w >= Len(data)
  /\ buffer_' = copy(vector, w, data)
  /\ writerIndex_' = w + Len(data)
  /\ UNCHANGED readerIndex_

Grows_Always(vector, w, data) ==
  /\ Len(vector) - w < Len(data)
  /\ buffer_' = copy(resize(vector, w + Len(data)), w, data)
  /\ writerIndex_' = w + Len(data)
  /\ UNCHANGED readerIndex_

Grows(vector, w, data) ==
  /\ Len(vector) - w < Len(data)
  /\ (Len(vector) - w) + prependableBytes < Len(data) + kCheapPrepend
  /\ buffer_' = copy(resize(vector, w + Len(data)), w, data)
  /\ writerIndex_' = w + Len(data)
  /\ UNCHANGED readerIndex_

Moves(vector, w, data) ==
  /\ Len(vector) - w < Len(data)
  /\ (Len(vector) - w) + prependableBytes >= Len(data) + kCheapPrepend
  /\ LET old == SubSeq(vector, readerIndex_ + 1, w)
         end == kCheapPrepend + Len(old)
     IN  /\ buffer_' = copy(copy(vector, kCheapPrepend, old), end, data)
         /\ writerIndex_' = end + Len(data)
  /\ readerIndex_' = kCheapPrepend

AppendTo(vector, w, data) ==
  Fits(vector, w, data) \/ Grows(vector, w, data) \/ Moves(vector, w, data)

-----------------------------------------------------------------------------
(* The operations *)

Call(op, data) == call' = [op |-> op, data |-> data]
Room(data) == readableBytes + Len(data) <= MaxReadable

append(data) ==
  /\ Room(data) /\ Call("back", data)
  /\ AppendTo(buffer_, writerIndex_, data)

prepend_NoCheck(data) ==
  /\ Room(data) /\ Call("front", data)
  /\ readerIndex_' = readerIndex_ - Len(data)
  /\ buffer_' = copy(buffer_, readerIndex_', data)
  /\ UNCHANGED writerIndex_

prepend(data) ==
  /\ Room(data) /\ Call("front", data)
  /\ Len(data) <= prependableBytes
  /\ readerIndex_' = readerIndex_ - Len(data)
  /\ buffer_' = copy(buffer_, readerIndex_', data)
  /\ UNCHANGED writerIndex_

retrieveAll ==
  /\ Call("take", readable)
  /\ readerIndex_' = kCheapPrepend /\ writerIndex_' = kCheapPrepend
  /\ UNCHANGED buffer_

retrieve(len) ==
  /\ len <= readableBytes
  /\ IF len < readableBytes
     THEN /\ Call("take", SubSeq(readable, 1, len))
          /\ readerIndex_' = readerIndex_ + len
          /\ UNCHANGED <<buffer_, writerIndex_>>
     ELSE retrieveAll

(* readFd(): readv(2) fills the vector and then extrabuf, which is only    *)
(* offered when the room in the vector is smaller than extrabuf; what went *)
(* to extrabuf is appended.  A failed readv(2) changes nothing.            *)
readFd_NoExtraAppend(data) ==
  LET writable == writableBytes
      offered  == IF writable < kExtrabuf THEN writable + kExtrabuf ELSE writable
  IN  /\ Room(data) /\ Len(data) <= offered
      /\ Call("back", data)
      /\ IF Len(data) <= writable
         THEN /\ buffer_' = copy(buffer_, writerIndex_, data)
              /\ writerIndex_' = writerIndex_ + Len(data)
         ELSE /\ buffer_' = copy(buffer_, writerIndex_, data)
              /\ writerIndex_' = Len(buffer_)
      /\ UNCHANGED readerIndex_

readFd(data) ==
  LET writable == writableBytes
      offered  == IF writable < kExtrabuf THEN writable + kExtrabuf ELSE writable
  IN  /\ Room(data) /\ Len(data) <= offered
      /\ Call("back", data)
      /\ IF Len(data) <= writable
         THEN /\ buffer_' = copy(buffer_, writerIndex_, data)
              /\ writerIndex_' = writerIndex_ + Len(data)
              /\ UNCHANGED readerIndex_
         ELSE AppendTo(copy(buffer_, writerIndex_, data), Len(buffer_),
                       SubSeq(data, writable + 1, Len(data)))

(* swap() with a Buffer that was just constructed. *)
swap ==
  /\ Call("take", readable)
  /\ buffer_' = [i \in 1..kCheapPrepend + kInitialSize |-> 0]
  /\ readerIndex_' = kCheapPrepend /\ writerIndex_' = kCheapPrepend

BufferNext ==
  \/ \E data \in Data : append(data) \/ prepend(data) \/ readFd(data)
  \/ \E len \in 0..MaxReadable : retrieve(len)
  \/ retrieveAll \/ swap

BufferSpec == BufferInit /\ [][BufferNext]_bufferVars

-----------------------------------------------------------------------------
(* Properties *)

(* The indices stay in order within the vector, so readableBytes() and     *)
(* writableBytes(), differences of unsigned numbers, do not wrap around.   *)
BufferTypeOK ==
  /\ buffer_ \in Seq(Byte \cup {0})
  /\ readerIndex_ \in Nat /\ writerIndex_ \in Nat
  /\ readerIndex_ <= writerIndex_ /\ writerIndex_ <= Len(buffer_)

(* A Buffer is a queue of bytes: whatever mix of appending, prepending,    *)
(* reading from a descriptor and retrieving, through moves and growth, the *)
(* readable bytes are those put in and not yet taken, in order.            *)
Queue == INSTANCE ByteQueue WITH contents <- readable
ImplementsByteQueue == Queue!Spec

(* The vector grows only when the readable bytes and the new ones, with    *)
(* kCheapPrepend bytes in front, do not fit into it as it is: retrieved    *)
(* space is used before memory is allocated, and then no more of it than   *)
(* the new bytes take.                                                     *)
GrowsOnlyWhenFull ==
  [][Len(buffer_') > Len(buffer_) =>
       /\ kCheapPrepend + Len(readable') > Len(buffer_)
       /\ Len(buffer_') = writerIndex_']_bufferVars
=============================================================================
