-------------------------- MODULE ConnectionProofs -------------------------
(***************************************************************************)
(* Proofs about TcpConnection and the Buffer it sends from.                *)
(*                                                                         *)
(* Buffer, for any sizes and any bytes: the indices stay in order within   *)
(* the vector, a Buffer is a queue of bytes, and it grows only when it has *)
(* to.                                                                     *)
(*                                                                         *)
(* TcpConnection, for any number of calling threads and of messages of any *)
(* length: POLLOUT is watched exactly while data waits, the write end is   *)
(* shut down with nothing waiting, and the bytes that reach the socket are *)
(* those of the messages, in order.                                        *)
(***************************************************************************)
EXTENDS TcpConnection, Buffer, SequenceTheorems, TLAPS

-----------------------------------------------------------------------------
(* Buffer *)

Stored == Byte \cup {0}

(* u after p has the same n bytes as v after q. *)
Same(u, p, v, q, n) == \A i \in 1..n : u[p + i] = v[q + i]

LEMMA SameTransitive ==
  ASSUME NEW u, NEW p, NEW v, NEW q, NEW n, NEW x, NEW s,
         Same(u, p, v, q, n), Same(v, q, x, s, n)
  PROVE  Same(u, p, x, s, n)
BY DEF Same

LEMMA SameSymmetric ==
  ASSUME NEW u, NEW p, NEW v, NEW q, NEW n, Same(u, p, v, q, n)
  PROVE  Same(v, q, u, p, n)
BY DEF Same

(* What copy() leaves in u: data after at, as far as there is room, and    *)
(* what v has before and behind that.                                      *)
LEMMA CopyProperties ==
  ASSUME NEW v \in Seq(Stored), NEW at \in Nat, NEW data \in Seq(Stored), NEW u,
         u = copy(v, at, data)
  PROVE  /\ u \in Seq(Stored) /\ Len(u) = Len(v)
         /\ \A n \in 0..Len(data) : at + n <= Len(v) => Same(u, at, data, 0, n)
         /\ \A p, n \in Nat :
              (p + n <= at \/ at + Len(data) <= p) /\ p + n <= Len(v) => Same(u, p, v, p, n)
<1>1. DOMAIN v = 1..Len(v) /\ Len(v) \in Nat
  OBVIOUS
<1>2. \A i \in 1..Len(v) : i > at /\ i <= at + Len(data) => data[i - at] \in Stored
  <2> SUFFICES ASSUME NEW i \in 1..Len(v), i > at, i <= at + Len(data)
               PROVE  data[i - at] \in Stored
    OBVIOUS
  <2>1. i - at \in 1..Len(data)
    OBVIOUS
  <2> QED
    BY <2>1, ElementOfSeq
<1>3. \A i \in 1..Len(v) : v[i] \in Stored
  BY ElementOfSeq
<1>4. u \in [1..Len(v) -> Stored]
  BY <1>1, <1>2, <1>3 DEF copy
<1>5. u \in Seq(Stored) /\ Len(u) = Len(v)
  BY <1>1, <1>4
<1>6. ASSUME NEW n \in 0..Len(data), at + n <= Len(v) PROVE Same(u, at, data, 0, n)
  BY <1>1, <1>6 DEF copy, Same
<1>7. ASSUME NEW p \in Nat, NEW n \in Nat, p + n <= at \/ at + Len(data) <= p, p + n <= Len(v)
      PROVE  Same(u, p, v, p, n)
  BY <1>1, <1>7 DEF copy, Same
<1> QED
  BY <1>5, <1>6, <1>7

LEMMA ResizeProperties ==
  ASSUME NEW v \in Seq(Stored), NEW k \in Nat, NEW u, u = resize(v, k)
  PROVE  /\ u \in Seq(Stored) /\ Len(u) = k
         /\ \A p, n \in Nat : p + n <= Len(v) /\ p + n <= k => Same(u, p, v, p, n)
<1>1. \A i \in 1..Len(v) : v[i] \in Stored
  BY ElementOfSeq
<1>2. u \in [1..k -> Stored]
  BY <1>1 DEF resize, Stored
<1>3. ASSUME NEW p \in Nat, NEW n \in Nat, p + n <= Len(v), p + n <= k
      PROVE  Same(u, p, v, p, n)
  BY <1>3 DEF resize, Same
<1> QED
  BY <1>2, <1>3

(* The bytes of a vector from one index up to another. *)
Window(v, r, w) == SubSeq(v, r + 1, w)

IsWindow(a, v, r, n) ==
  a \in Seq(Stored) /\ Len(a) = n /\ \A i \in 1..n : a[i] = v[r + i]

LEMMA WindowProperties ==
  ASSUME NEW v \in Seq(Stored), NEW r \in Nat, NEW w \in Nat, r <= w, w <= Len(v)
  PROVE  IsWindow(Window(v, r, w), v, r, w - r)
<1>1. \A i \in (r + 1)..w : v[i] \in Stored
  BY ElementOfSeq
<1>2. /\ SubSeq(v, r + 1, w) \in Seq(Stored)
      /\ Len(SubSeq(v, r + 1, w)) = IF r + 1 <= w THEN w - (r + 1) + 1 ELSE 0
      /\ \A i \in 1..(w - (r + 1) + 1) : SubSeq(v, r + 1, w)[i] = v[r + 1 + i - 1]
  BY <1>1, SubSeqProperties
<1>3. \A i \in 1..(w - r) : SubSeq(v, r + 1, w)[i] = v[r + i]
  <2> SUFFICES ASSUME NEW i \in 1..(w - r) PROVE SubSeq(v, r + 1, w)[i] = v[r + i]
    OBVIOUS
  <2>1. r + 1 + i - 1 = r + i /\ i \in 1..(w - (r + 1) + 1)
    OBVIOUS
  <2> QED
    BY <2>1, <1>2, SMTT(30)
<1> QED
  BY <1>2, <1>3 DEF Window, IsWindow

(* The window of u from r2 to w2 is that of v from r to w and then data,   *)
(* if it is so place by place.                                             *)
Continues(u, r2, w2, v, r, w, n, data) ==
  /\ v \in Seq(Stored) /\ u \in Seq(Stored) /\ data \in Seq(Stored)
  /\ r \in Nat /\ w \in Nat /\ r2 \in Nat /\ w2 \in Nat /\ n \in Nat
  /\ w = r + n /\ w <= Len(v) /\ w2 = r2 + n + Len(data) /\ w2 <= Len(u)
  /\ Same(u, r2, v, r, n) /\ Same(u, r2 + n, data, 0, Len(data))

LEMMA WindowAppended ==
  \A u, r2, w2, v, r, w, n, data :
    Continues(u, r2, w2, v, r, w, n, data) =>
      Window(u, r2, w2) = Window(v, r, w) \o data
<1> SUFFICES ASSUME NEW u, NEW r2, NEW w2, NEW v, NEW r, NEW w, NEW n, NEW data,
                    Continues(u, r2, w2, v, r, w, n, data)
             PROVE  Window(u, r2, w2) = Window(v, r, w) \o data
  BY Zenon
<1> DEFINE m == Len(data)
           a == Window(u, r2, w2)
           b == Window(v, r, w)
<1> USE DEF Continues
<1>0. m \in Nat /\ w2 - r2 = n + m /\ r2 <= w2 /\ w - r = n /\ r <= w
  OBVIOUS
<1>1. IsWindow(a, u, r2, n + m)
  <2>1. IsWindow(a, u, r2, w2 - r2)
    BY <1>0, WindowProperties
  <2> QED
    BY ONLY <1>0, <2>1
<1>2. IsWindow(b, v, r, n)
  <2>1. IsWindow(b, v, r, w - r)
    BY <1>0, WindowProperties
  <2> QED
    BY ONLY <1>0, <2>1
<1> HIDE DEF a, b
<1>3. /\ b \o data \in Seq(Stored) /\ Len(b \o data) = n + m
      /\ \A i \in 1..(n + m) : (b \o data)[i] = IF i <= n THEN b[i] ELSE data[i - n]
  <2>1. b \in Seq(Stored) /\ Len(b) = n
    BY <1>2 DEF IsWindow
  <2>2. /\ b \o data \in Seq(Stored) /\ Len(b \o data) = Len(b) + m
        /\ \A i \in 1..(Len(b) + m) :
             (b \o data)[i] = IF i <= Len(b) THEN b[i] ELSE data[i - Len(b)]
    BY <2>1, ConcatProperties, Zenon
  <2> QED
    BY ONLY <2>1, <2>2
<1>4. \A i \in 1..(n + m) : a[i] = (b \o data)[i]
  <2> SUFFICES ASSUME NEW i \in 1..(n + m) PROVE a[i] = (b \o data)[i]
    BY Zenon
  <2>1. a[i] = u[r2 + i]
    BY <1>1 DEF IsWindow
  <2>2. CASE i <= n
    <3>1. i \in 1..n
      BY <2>2, <1>0
    <3> QED
      BY <2>1, <2>2, <3>1, <1>2, <1>3, Zenon DEF IsWindow, Same
  <2>3. CASE ~(i <= n)
    <3> DEFINE j == i - n
    <3>1. j \in 1..m /\ r2 + n + j = r2 + i /\ 0 + j = j
      BY <2>3, <1>0
    <3>2. u[r2 + n + j] = data[0 + j]
      BY <3>1, Zenon DEF Same
    <3>3. (b \o data)[i] = data[j]
      BY <2>3, <1>3, Zenon
    <3> QED
      BY <2>1, <3>1, <3>2, <3>3
  <2> QED
    BY <2>2, <2>3, Zenon
<1>5. a = b \o data
  <2>1. a \in Seq(Stored) /\ Len(a) = n + m
    BY <1>1 DEF IsWindow
  <2> QED
    BY <2>1, <1>3, <1>4, SeqEqual, Zenon
<1> QED
  BY <1>5 DEF a, b

-----------------------------------------------------------------------------
(* append() keeps the readable bytes and puts data behind them, whether it *)
(* fits, or the vector grows, or the readable bytes are moved.  v is the   *)
(* vector and w the writing index it starts from.                          *)
Appended(v, w, data) ==
  /\ BufferTypeOK' /\ readable' = Window(v, readerIndex_, w) \o data
  /\ Len(v) <= Len(buffer_')
  /\ Len(v) < Len(buffer_') =>
       /\ Len(buffer_') = writerIndex_'
       /\ kCheapPrepend + (writerIndex_' - readerIndex_') > Len(v)

(* It is enough to look at the places. *)
LEMMA AppendedByPlaces ==
  ASSUME NEW v \in Seq(Stored), NEW w \in Nat, NEW data \in Seq(Stored), NEW n \in Nat,
         readerIndex_ \in Nat, w = readerIndex_ + n, w <= Len(v),
         buffer_' \in Seq(Stored), readerIndex_' \in Nat, writerIndex_' \in Nat,
         writerIndex_' = readerIndex_' + n + Len(data), writerIndex_' <= Len(buffer_'),
         Same(buffer_', readerIndex_', v, readerIndex_, n),
         Same(buffer_', readerIndex_' + n, data, 0, Len(data)),
         Len(v) <= Len(buffer_'),
         Len(v) < Len(buffer_') =>
           /\ Len(buffer_') = writerIndex_'
           /\ kCheapPrepend + (writerIndex_' - readerIndex_') > Len(v)
  PROVE  Appended(v, w, data)
<1>1. Window(buffer_', readerIndex_', writerIndex_') = Window(v, readerIndex_, w) \o data
  <2>1. Continues(buffer_', readerIndex_', writerIndex_', v, readerIndex_, w, n, data)
    BY DEF Continues
  <2> QED
    BY ONLY <2>1, WindowAppended, SMT
<1>2. BufferTypeOK'
  BY DEF BufferTypeOK, Stored
<1> QED
  BY <1>1, <1>2, Zenon DEF Appended, readable, Window

LEMMA FitsAppends ==
  ASSUME NEW v \in Seq(Stored), NEW w \in Nat, NEW data \in Seq(Stored), NEW n \in Nat,
         readerIndex_ \in Nat, w = readerIndex_ + n, w <= Len(v), Fits(v, w, data)
  PROVE  Appended(v, w, data)
<1>1. /\ buffer_' = copy(v, w, data) /\ writerIndex_' = w + Len(data)
      /\ readerIndex_' = readerIndex_ /\ w + Len(data) <= Len(v)
  BY DEF Fits
<1>2. buffer_' \in Seq(Stored) /\ Len(buffer_') = Len(v)
  BY <1>1, CopyProperties
<1>3. Same(buffer_', readerIndex_', v, readerIndex_, n)
  BY <1>1, CopyProperties
<1>4. Same(buffer_', readerIndex_' + n, data, 0, Len(data))
  BY <1>1, CopyProperties
<1> QED
  BY <1>1, <1>2, <1>3, <1>4, AppendedByPlaces

LEMMA GrowsAppends ==
  ASSUME NEW v \in Seq(Stored), NEW w \in Nat, NEW data \in Seq(Stored), NEW n \in Nat,
         readerIndex_ \in Nat, w = readerIndex_ + n, w <= Len(v), Grows(v, w, data)
  PROVE  Appended(v, w, data)
<1> DEFINE k == w + Len(data)
           big == resize(v, k)
<1>1. /\ buffer_' = copy(big, w, data) /\ writerIndex_' = k
      /\ readerIndex_' = readerIndex_
  BY DEF Grows
<1>2. k \in Nat /\ w <= k
  OBVIOUS
<1>3. big \in Seq(Stored) /\ Len(big) = k /\ Same(big, readerIndex_, v, readerIndex_, n)
  BY <1>2, ResizeProperties
<1> HIDE DEF big
<1>4. buffer_' \in Seq(Stored) /\ Len(buffer_') = k
  BY <1>1, <1>3, CopyProperties
<1>5. Same(buffer_', readerIndex_, big, readerIndex_, n)
  BY <1>1, <1>2, <1>3, CopyProperties
<1>6. Same(buffer_', readerIndex_' + n, data, 0, Len(data))
  BY <1>1, <1>3, CopyProperties
<1>7. Same(buffer_', readerIndex_', v, readerIndex_, n)
  BY <1>1, <1>3, <1>5, SameTransitive
<1>8. Len(v) < k /\ kCheapPrepend + (writerIndex_' - readerIndex_') > Len(v)
  BY <1>1, BufferAssumption DEF Grows, prependableBytes
<1> QED
  BY <1>1, <1>2, <1>4, <1>6, <1>7, <1>8, AppendedByPlaces

LEMMA MovesAppends ==
  ASSUME NEW v \in Seq(Stored), NEW w \in Nat, NEW data \in Seq(Stored), NEW n \in Nat,
         readerIndex_ \in Nat, w = readerIndex_ + n, w <= Len(v), Moves(v, w, data)
  PROVE  Appended(v, w, data)
<1> USE BufferAssumption
<1> DEFINE old == Window(v, readerIndex_, w)
           moved == copy(v, kCheapPrepend, old)
           end == kCheapPrepend + n
<1>1. IsWindow(old, v, readerIndex_, n)
  <2>1. readerIndex_ <= w /\ w - readerIndex_ = n
    OBVIOUS
  <2>2. IsWindow(old, v, readerIndex_, w - readerIndex_)
    BY <2>1, WindowProperties
  <2> QED
    BY ONLY <2>1, <2>2
<1>2. old \in Seq(Stored) /\ Len(old) = n
  BY <1>1 DEF IsWindow
<1>3. Same(old, 0, v, readerIndex_, n)
  BY <1>1 DEF IsWindow, Same
<1>4. /\ buffer_' = copy(moved, end, data) /\ writerIndex_' = end + Len(data)
      /\ readerIndex_' = kCheapPrepend
  BY <1>2, SMTT(30) DEF Moves, Window
<1>5. end + Len(data) <= Len(v) /\ end \in Nat
  BY DEF Moves, prependableBytes
<1> HIDE DEF old
<1>6. moved \in Seq(Stored) /\ Len(moved) = Len(v) /\ Same(moved, kCheapPrepend, old, 0, n)
  BY <1>2, <1>5, CopyProperties, SMTT(30)
<1> HIDE DEF moved
<1>7. buffer_' \in Seq(Stored) /\ Len(buffer_') = Len(v)
  BY <1>4, <1>5, <1>6, CopyProperties
<1>8. Same(buffer_', end, data, 0, Len(data))
  BY <1>4, <1>5, <1>6, CopyProperties
<1>9. Same(buffer_', kCheapPrepend, moved, kCheapPrepend, n)
  BY <1>4, <1>5, <1>6, CopyProperties
<1>10. Same(buffer_', kCheapPrepend, v, readerIndex_, n)
  BY <1>3, <1>6, <1>9, SameTransitive
<1> QED
  BY <1>4, <1>5, <1>7, <1>8, <1>10, AppendedByPlaces

LEMMA AppendToAppends ==
  ASSUME NEW v \in Seq(Stored), NEW w \in Nat, NEW data \in Seq(Stored),
         readerIndex_ \in Nat, readerIndex_ <= w, w <= Len(v), AppendTo(v, w, data)
  PROVE  Appended(v, w, data)
<1>1. PICK n \in Nat : w = readerIndex_ + n
  <2>1. w - readerIndex_ \in Nat /\ w = readerIndex_ + (w - readerIndex_)
    OBVIOUS
  <2> QED
    BY <2>1
<1> QED
  BY <1>1, FitsAppends, GrowsAppends, MovesAppends DEF AppendTo

-----------------------------------------------------------------------------
(* The invariant: the vector never becomes smaller than it was at first,   *)
(* or the indices retrieveAll() sets would be beyond its end.              *)
BufferInv == BufferTypeOK /\ kCheapPrepend + kInitialSize <= Len(buffer_)

(* What a step may do: keep the invariant, be a step of ByteQueue, and     *)
(* grow only when it has to.                                               *)
Grown ==
  Len(buffer_') > Len(buffer_) =>
    kCheapPrepend + Len(readable') > Len(buffer_) /\ Len(buffer_') = writerIndex_'

GoodStep == BufferInv' /\ Queue!Next /\ Grown

LEMMA ReadableIsWindow ==
  BufferTypeOK =>
    /\ readable = Window(buffer_, readerIndex_, writerIndex_)
    /\ readable \in Seq(Stored) /\ Len(readable) = writerIndex_ - readerIndex_
    /\ IsWindow(readable, buffer_, readerIndex_, writerIndex_ - readerIndex_)
<1> HAVE BufferTypeOK
<1>1. readable = Window(buffer_, readerIndex_, writerIndex_)
  BY DEF readable, Window
<1>2. IsWindow(readable, buffer_, readerIndex_, writerIndex_ - readerIndex_)
  BY <1>1, WindowProperties DEF BufferTypeOK, Stored
<1> QED
  BY <1>1, <1>2 DEF IsWindow

LEMMA DataType == \A data \in Data : data \in Seq(Stored)
BY DEF Data, Stored

(* An append to the buffer, perhaps with data read into its end already. *)
LEMMA AppendedIsGood ==
  ASSUME BufferInv, NEW v \in Seq(Stored), NEW w \in Nat, NEW rest \in Seq(Stored),
         NEW data, Len(v) = Len(buffer_), Appended(v, w, rest), Call("back", data),
         readable' = readable \o data
  PROVE  GoodStep
<1>1. BufferInv'
  BY BufferAssumption DEF BufferInv, BufferTypeOK, Appended
<1>2. Queue!Next
  BY DEF Call, Queue!Next, Queue!PutBack
<1>3. Len(readable') = writerIndex_' - readerIndex_'
  <2>1. BufferTypeOK'
    BY <1>1 DEF BufferInv
  <2>2. IsWindow(Window(buffer_', readerIndex_', writerIndex_'), buffer_', readerIndex_',
                 writerIndex_' - readerIndex_')
    BY <2>1, WindowProperties, Zenon DEF BufferTypeOK, Stored
  <2> QED
    BY <2>2 DEF IsWindow, Window, readable
<1>4. Grown
  BY <1>3 DEF Grown, Appended
<1> QED
  BY <1>1, <1>2, <1>4 DEF GoodStep

LEMMA appendIsGood ==
  ASSUME BufferInv, NEW data \in Data, append(data)
  PROVE  GoodStep
<1>1. data \in Seq(Stored)
  BY DataType
<1>2. Appended(buffer_, writerIndex_, data)
  BY <1>1, AppendToAppends DEF append, BufferInv, BufferTypeOK, Stored
<1>3. readable' = readable \o data
  BY <1>2, ReadableIsWindow DEF Appended, BufferInv
<1> QED
  BY <1>1, <1>2, <1>3, AppendedIsGood, Zenon DEF append, BufferInv, BufferTypeOK, Stored

LEMMA prependIsGood ==
  ASSUME BufferInv, NEW data \in Data, prepend(data)
  PROVE  GoodStep
<1> DEFINE m == Len(data)
           n == writerIndex_ - readerIndex_
<1>1. data \in Seq(Stored)
  BY DataType
<1>2. /\ buffer_ \in Seq(Stored) /\ readerIndex_ \in Nat /\ writerIndex_ \in Nat
      /\ n \in Nat /\ writerIndex_ <= Len(buffer_) /\ m \in Nat
      /\ writerIndex_ = readerIndex_ + n
  BY <1>1 DEF BufferInv, BufferTypeOK, Stored
<1>3. /\ readerIndex_' = readerIndex_ - m /\ readerIndex_' \in Nat
      /\ writerIndex_' = writerIndex_ /\ buffer_' = copy(buffer_, readerIndex_', data)
      /\ readerIndex_' + m = readerIndex_
  BY <1>2 DEF prepend, prependableBytes
<1>4. readable \in Seq(Stored) /\ Len(readable) = n /\ IsWindow(readable, buffer_, readerIndex_, n)
  BY ReadableIsWindow DEF BufferInv
<1> HIDE DEF n
<1>5. buffer_' \in Seq(Stored) /\ Len(buffer_') = Len(buffer_)
  BY <1>1, <1>2, <1>3, CopyProperties
<1>6. Same(buffer_', readerIndex_', data, 0, m)
  BY <1>1, <1>2, <1>3, CopyProperties
<1>7. Same(buffer_', readerIndex_, readable, 0, n)
  <2>1. Same(buffer_', readerIndex_, buffer_, readerIndex_, n)
    BY <1>1, <1>2, <1>3, CopyProperties
  <2>2. Same(buffer_, readerIndex_, readable, 0, n)
    BY <1>4 DEF IsWindow, Same
  <2> QED
    BY <2>1, <2>2, SameTransitive
<1>8. Continues(buffer_', readerIndex_', writerIndex_', data, 0, m, m, readable)
  BY <1>1, <1>2, <1>3, <1>4, <1>5, <1>6, <1>7 DEF Continues
<1>9. Window(buffer_', readerIndex_', writerIndex_') = Window(data, 0, m) \o readable
  BY ONLY <1>8, WindowAppended, SMT
<1>10. Window(data, 0, m) = data
  BY <1>1, SubSeqFull DEF Window
<1>11. BufferInv'
  BY <1>2, <1>3, <1>5 DEF BufferInv, BufferTypeOK, Stored
<1>12. Queue!Next
  BY <1>9, <1>10, Zenon DEF prepend, Call, readable, Window, Queue!Next, Queue!PutFront
<1>13. Grown
  BY <1>5 DEF Grown
<1> QED
  BY <1>11, <1>12, <1>13 DEF GoodStep

(* Everything readable is taken, and the vector is as large as at least at *)
(* first: retrieveAll() and swap().                                        *)
LEMMA TakingAllIsGood ==
  ASSUME BufferInv, Call("take", readable), buffer_' \in Seq(Stored),
         readerIndex_' = kCheapPrepend, writerIndex_' = kCheapPrepend,
         Len(buffer_') <= Len(buffer_), kCheapPrepend + kInitialSize <= Len(buffer_')
  PROVE  GoodStep
<1>1. BufferInv'
  BY BufferAssumption DEF BufferInv, BufferTypeOK, Stored
<1>2. readable' = <<>>
  BY BufferAssumption, SubSeqEmpty DEF readable
<1>3. readable \o <<>> = readable
  BY ReadableIsWindow, ConcatEmptySeq DEF BufferInv
<1>4. Queue!Next
  BY <1>2, <1>3 DEF Call, Queue!Next, Queue!Take
<1>5. Grown
  <2>1. Len(buffer_) \in Nat /\ Len(buffer_') \in Nat
    BY DEF BufferInv, BufferTypeOK
  <2> QED
    BY <2>1 DEF Grown
<1> QED
  BY <1>1, <1>4, <1>5 DEF GoodStep

LEMMA retrieveIsGood ==
  ASSUME BufferInv, NEW len \in Nat, retrieve(len)
  PROVE  GoodStep
<1> DEFINE k == readerIndex_ + len
<1>1. /\ buffer_ \in Seq(Stored) /\ readerIndex_ \in Nat /\ writerIndex_ \in Nat
      /\ readerIndex_ <= writerIndex_ /\ writerIndex_ <= Len(buffer_)
  BY DEF BufferInv, BufferTypeOK, Stored
<1>2. CASE retrieveAll
  BY <1>1, <1>2, TakingAllIsGood DEF retrieveAll, BufferInv
<1>3. CASE ~retrieveAll
  <2>1. /\ len < writerIndex_ - readerIndex_ /\ Call("take", SubSeq(readable, 1, len))
        /\ readerIndex_' = k /\ UNCHANGED <<buffer_, writerIndex_>>
    BY <1>3 DEF retrieve, readableBytes
  <2>2. k \in Nat /\ k <= writerIndex_ /\ readerIndex_ <= k /\ k - readerIndex_ = len
    BY <1>1, <2>1
  <2> HIDE DEF k
  <2>3. SubSeq(readable, 1, len) = Window(buffer_, readerIndex_, k)
    <3>1. /\ readable \in Seq(Stored) /\ Len(readable) = writerIndex_ - readerIndex_
          /\ IsWindow(readable, buffer_, readerIndex_, writerIndex_ - readerIndex_)
      BY ReadableIsWindow DEF BufferInv
    <3>2. IsWindow(Window(readable, 0, len), readable, 0, len)
      <4>1. 0 <= len /\ len <= Len(readable) /\ len - 0 = len
        BY <1>1, <2>1, <3>1
      <4>2. IsWindow(Window(readable, 0, len), readable, 0, len - 0)
        BY <3>1, <4>1, WindowProperties
      <4> QED
        BY ONLY <4>1, <4>2
    <3>3. IsWindow(Window(buffer_, readerIndex_, k), buffer_, readerIndex_, len)
      <4>1. IsWindow(Window(buffer_, readerIndex_, k), buffer_, readerIndex_, k - readerIndex_)
        BY <1>1, <2>2, WindowProperties
      <4> QED
        BY ONLY <2>2, <4>1
    <3> DEFINE a == Window(readable, 0, len)
               b == Window(buffer_, readerIndex_, k)
    <3> HIDE DEF a, b
    <3>4. ASSUME NEW i \in 1..len PROVE a[i] = b[i]
      <4>1. i \in 1..(writerIndex_ - readerIndex_) /\ 0 + i = i
        BY <1>1, <2>1
      <4> QED
        BY <4>1, <3>1, <3>2, <3>3 DEF IsWindow, a, b
    <3>5. a = b
      <4>1. a \in Seq(Stored) /\ b \in Seq(Stored) /\ Len(a) = len /\ Len(b) = len
        BY <3>2, <3>3 DEF IsWindow, a, b
      <4> QED
        BY <4>1, <3>4, SeqEqual
    <3>6. a = SubSeq(readable, 1, len)
      <4>1. 0 + 1 = 1
        OBVIOUS
      <4> QED
        BY ONLY <4>1, Zenon DEF a, Window
    <3> QED
      BY ONLY <3>5, <3>6, Zenon DEF b
  <2>4. SubSeq(buffer_, readerIndex_ + 1, k) \o SubSeq(buffer_, k + 1, writerIndex_)
          = SubSeq(buffer_, readerIndex_ + 1, writerIndex_)
    <3>1. /\ readerIndex_ + 1 \in 1..(Len(buffer_) + 1)
          /\ k \in ((readerIndex_ + 1) - 1)..Len(buffer_)
          /\ writerIndex_ \in k..Len(buffer_)
      BY <1>1, <2>2
    <3> QED
      BY <1>1, <3>1, ConcatAdjacentSubSeq
  <2>5. BufferInv'
    BY <1>1, <2>1, <2>2 DEF BufferInv, BufferTypeOK
  <2>6. Queue!Next
    BY <2>1, <2>3, <2>4, Zenon DEF Call, readable, Window, Queue!Next, Queue!Take
  <2>7. Grown
    BY <2>1 DEF Grown
  <2> QED
    BY <2>5, <2>6, <2>7 DEF GoodStep
<1> QED
  BY <1>2, <1>3

LEMMA readFdIsGood ==
  ASSUME BufferInv, NEW data \in Data, readFd(data)
  PROVE  GoodStep
<1> DEFINE L == Len(buffer_)
           room == L - writerIndex_
           n == writerIndex_ - readerIndex_
           u == copy(buffer_, writerIndex_, data)
           first == SubSeq(data, 1, room)
           rest == SubSeq(data, room + 1, Len(data))
<1>1. data \in Seq(Stored)
  BY DataType
<1>2. /\ buffer_ \in Seq(Stored) /\ readerIndex_ \in Nat /\ writerIndex_ \in Nat
      /\ readerIndex_ <= writerIndex_ /\ writerIndex_ <= L /\ L \in Nat
      /\ room \in Nat /\ n \in Nat /\ writerIndex_ = readerIndex_ + n
      /\ L = writerIndex_ + room
  BY DEF BufferInv, BufferTypeOK, Stored
<1>3. readable = Window(buffer_, readerIndex_, writerIndex_) /\ readable \in Seq(Stored)
  BY ReadableIsWindow DEF BufferInv
<1>4. CASE Len(data) <= room
  <2>1. Fits(buffer_, writerIndex_, data)
    BY <1>1, <1>2, <1>4 DEF readFd, writableBytes, Fits
  <2>2. Appended(buffer_, writerIndex_, data)
    BY <1>1, <1>2, <2>1, FitsAppends
  <2> QED
    BY <1>1, <1>2, <1>3, <2>2, AppendedIsGood, Zenon DEF readFd, Appended
<1>5. CASE Len(data) > room
  <2>1. AppendTo(u, L, rest) /\ Call("back", data)
    BY <1>1, <1>2, <1>5 DEF readFd, writableBytes
  <2>2. u \in Seq(Stored) /\ Len(u) = L
    BY <1>1, <1>2, CopyProperties
  <2>3. /\ first \in Seq(Stored) /\ Len(first) = room /\ rest \in Seq(Stored)
        /\ Same(data, 0, first, 0, room)
    <3>1. IsWindow(Window(data, 0, room), data, 0, room - 0)
      BY <1>1, <1>2, <1>5, WindowProperties
    <3>2. IsWindow(Window(data, room, Len(data)), data, room, Len(data) - room)
      BY <1>1, <1>2, <1>5, WindowProperties
    <3>3. Window(data, 0, room) = first /\ Window(data, room, Len(data)) = rest
      <4>1. 0 + 1 = 1
        OBVIOUS
      <4> QED
        BY ONLY <4>1, Zenon DEF Window
    <3>4. IsWindow(first, data, 0, room) /\ rest \in Seq(Stored)
      <4>1. room - 0 = room
        BY <1>2
      <4>2. IsWindow(first, data, 0, room)
        BY ONLY <3>1, <3>3, <4>1, Zenon
      <4>3. IsWindow(rest, data, room, Len(data) - room)
        BY ONLY <3>2, <3>3, Zenon
      <4> HIDE DEF first, rest, room
      <4> QED
        BY <4>2, <4>3 DEF IsWindow
    <3> HIDE DEF first, rest, room
    <3> QED
      BY <1>2, <3>4 DEF IsWindow, Same
  <2>4. first \o rest = data
    <3>1. 1 \in 1..(Len(data) + 1) /\ room \in (1 - 1)..Len(data) /\ Len(data) \in room..Len(data)
      BY <1>1, <1>2, <1>5
    <3>2. first \o rest = SubSeq(data, 1, Len(data))
      BY <1>1, <3>1, ConcatAdjacentSubSeq, Zenon
    <3> QED
      BY <1>1, <3>2, SubSeqFull, Zenon
  <2>5. Same(u, readerIndex_, buffer_, readerIndex_, n)
    BY <1>1, <1>2, CopyProperties
  <2>6. Same(u, writerIndex_, data, 0, room)
    BY <1>1, <1>2, <1>5, CopyProperties
  <2> HIDE DEF first, rest, u, n, room
  <2>7. Continues(u, readerIndex_, L, buffer_, readerIndex_, writerIndex_, n, first)
    BY <1>2, <2>2, <2>3, <2>5, <2>6, SameTransitive DEF Continues
  <2>8. Window(u, readerIndex_, L) = readable \o first
    <3>1. Window(u, readerIndex_, L) = Window(buffer_, readerIndex_, writerIndex_) \o first
      BY ONLY <2>7, WindowAppended, SMT
    <3> QED
      BY ONLY <1>3, <3>1, Zenon
  <2>9. Appended(u, L, rest)
    BY <1>2, <2>1, <2>2, <2>3, AppendToAppends
  <2>10. readable' = readable \o data
    <3>1. readable' = (readable \o first) \o rest
      BY <2>8, <2>9 DEF Appended
    <3>2. (readable \o first) \o rest = readable \o (first \o rest)
      BY <1>3, <2>3, ConcatAssociative, SMTT(30)
    <3> QED
      BY ONLY <3>1, <3>2, <2>4, Zenon
  <2> QED
    BY <1>2, <2>1, <2>2, <2>3, <2>9, <2>10, AppendedIsGood, Zenon
<1> QED
  BY <1>1, <1>2, <1>4, <1>5

LEMMA NextIsGood == BufferInv /\ BufferNext => GoodStep
<1> SUFFICES ASSUME BufferInv, BufferNext PROVE GoodStep
  OBVIOUS
<1>1. CASE swap
  <2>1. buffer_' \in Seq(Stored) /\ Len(buffer_') = kCheapPrepend + kInitialSize
    BY <1>1, BufferAssumption DEF swap, Stored
  <2> QED
    BY <1>1, <2>1, BufferAssumption, TakingAllIsGood DEF swap, BufferInv
<1>2. CASE retrieveAll
  <2>1. buffer_ \in Seq(Stored) /\ Len(buffer_) \in Nat
    BY DEF BufferInv, BufferTypeOK, Stored
  <2> QED
    BY <1>2, <2>1, TakingAllIsGood DEF retrieveAll, BufferInv
<1>3. ASSUME NEW len \in 0..MaxReadable, retrieve(len) PROVE GoodStep
  BY <1>3, BufferAssumption, retrieveIsGood
<1> QED
  BY <1>1, <1>2, <1>3, appendIsGood, prependIsGood, readFdIsGood DEF BufferNext

LEMMA InitHolds == BufferInit => BufferInv /\ Queue!Init
<1> SUFFICES ASSUME BufferInit PROVE BufferInv /\ Queue!Init
  OBVIOUS
<1>1. buffer_ \in Seq(Stored) /\ Len(buffer_) = kCheapPrepend + kInitialSize
  BY BufferAssumption DEF BufferInit, Stored
<1>2. readable = <<>>
  BY BufferAssumption, SubSeqEmpty DEF BufferInit, readable
<1> QED
  BY <1>1, <1>2, BufferAssumption DEF BufferInit, BufferInv, BufferTypeOK, Stored, Queue!Init

LEMMA InvHolds == BufferSpec => []BufferInv
<1>1. BufferInv /\ UNCHANGED bufferVars => BufferInv'
  BY DEF BufferInv, BufferTypeOK, bufferVars
<1>2. BufferInv /\ [BufferNext]_bufferVars => BufferInv'
  BY <1>1, NextIsGood DEF GoodStep
<1> QED
  BY InitHolds, <1>2, PTL DEF BufferSpec

(* Whatever calls are made, and for all sizes, the indices stay in order   *)
(* within the vector: the differences that the code computes with unsigned *)
(* numbers never wrap around.                                              *)
THEOREM IndicesInOrder == BufferSpec => []BufferTypeOK
BY InvHolds, PTL DEF BufferInv

(* A Buffer of any size implements the queue of bytes: moving the data to  *)
(* the front, growing, and reading in two parts neither lose nor reorder   *)
(* what is to be read.                                                     *)
THEOREM BufferIsQueue == BufferSpec => ImplementsByteQueue
<1>1. BufferInv /\ [BufferNext]_bufferVars => [Queue!Next]_<<readable, call>>
  <2>1. UNCHANGED bufferVars => UNCHANGED <<readable, call>>
    BY DEF bufferVars, readable
  <2> QED
    BY <2>1, NextIsGood DEF GoodStep
<1> QED
  BY InitHolds, InvHolds, <1>1, PTL DEF BufferSpec, ImplementsByteQueue, Queue!Spec

(* The vector grows only if what is to be read does not fit into it with   *)
(* kCheapPrepend bytes in front, and then to exactly the end of the data.  *)
THEOREM GrowsLate == BufferSpec => GrowsOnlyWhenFull
<1>1. BufferInv /\ [BufferNext]_bufferVars =>
        [Len(buffer_') > Len(buffer_) =>
           /\ kCheapPrepend + Len(readable') > Len(buffer_)
           /\ Len(buffer_') = writerIndex_']_bufferVars
  BY NextIsGood DEF GoodStep, Grown
<1> QED
  BY InvHolds, <1>1, PTL DEF BufferSpec, GrowsOnlyWhenFull

-----------------------------------------------------------------------------
(* TcpConnection *)

Calls == {"send", "shutdown"} \X Nat

QueuesOK ==
  functors_ \in Seq(Calls) /\ works \in Seq(Calls) /\ nsent \in Nat

BufferWatched ==
  /\ snd_buffer_ \in Seq(Nat)
  /\ WritingIffBuffered /\ ShutdownAfterBuffer

Inv == QueuesOK /\ BufferWatched

(* The rest of a message goes behind what waits already; it is empty iff   *)
(* both are.                                                               *)
LEMMA RestOfMessage ==
  ASSUME NEW s \in Seq(Nat), NEW msg \in Seq(Nat), NEW n \in 0..Len(msg)
  PROVE  LET t == s \o SubSeq(msg, n + 1, Len(msg))
         IN  t \in Seq(Nat) /\ (t = <<>> <=> s = <<>> /\ n = Len(msg))
<1> DEFINE rest == SubSeq(msg, n + 1, Len(msg))
<1>1. rest \in Seq(Nat) /\ Len(rest) = Len(msg) - n
  OBVIOUS
<1>2. s \o rest \in Seq(Nat) /\ Len(s \o rest) = Len(s) + Len(rest)
  BY <1>1, ConcatProperties, Zenon
<1>3. Len(s \o rest) = 0 <=> Len(s) = 0 /\ n = Len(msg)
  BY <1>1, <1>2
<1> QED
  BY <1>2, <1>3, EmptySeq, Zenon

(* sendInLoop() when it does not drop the message. *)
Taken(msg, size) ==
  /\ writing \/ snd_buffer_ # <<>> \/ ~WriteFails
  /\ nsent' = nsent + size
  /\ \E n \in DirectWrite(msg) :
       /\ wire' = wire \o SubSeq(msg, 1, n)
       /\ snd_buffer_' = snd_buffer_ \o SubSeq(msg, n + 1, Len(msg))
       /\ writing' = (writing \/ n < Len(msg))
       /\ aborted' = (n < Len(msg) /\ closed)

LEMMA sendInLoopCounts ==
  ASSUME NEW msg, NEW size, sendInLoop(msg, size)
  PROVE  nsent' = nsent \/ nsent' = nsent + size
BY Zenon DEF sendInLoop

(* sendInLoop() turns POLLOUT on exactly if it leaves data in the buffer,  *)
(* and leaves none if the write end is shut down.                          *)
LEMMA sendInLoopPreserves ==
  ASSUME BufferWatched, NEW msg \in Seq(Nat), NEW size, sendInLoop(msg, size),
         UNCHANGED <<closed, wrShut>>
  PROVE  BufferWatched'
<1> USE DEF BufferWatched, WritingIffBuffered, ShutdownAfterBuffer
<1>1. CASE UNCHANGED <<snd_buffer_, writing>>
  BY <1>1
<1>2. CASE Taken(msg, size)
  <2>1. PICK n \in DirectWrite(msg) :
          /\ snd_buffer_' = snd_buffer_ \o SubSeq(msg, n + 1, Len(msg))
          /\ writing' = (writing \/ n < Len(msg))
    BY <1>2, Zenon DEF Taken
  <2>2. n \in 0..Len(msg)
    BY <2>1 DEF DirectWrite
  <2>3. /\ snd_buffer_' \in Seq(Nat)
        /\ snd_buffer_' = <<>> <=> snd_buffer_ = <<>> /\ n = Len(msg)
    BY <2>1, <2>2, RestOfMessage
  <2>4. writing' <=> writing \/ n # Len(msg)
    <3>1. n < Len(msg) <=> n # Len(msg)
      BY <2>2
    <3> QED
      BY <2>1, <3>1, Zenon
  <2>5. ~closed => ~wrShut
    BY <1>2 DEF Taken, WriteFails
  <2> QED
    BY <2>3, <2>4, <2>5, Zenon
<1> QED
  BY <1>1, <1>2, Zenon DEF sendInLoop, Taken

(* shutdownInLoop() looks at POLLOUT, which says whether data waits. *)
LEMMA shutdownInLoopPreserves ==
  ASSUME BufferWatched, shutdownInLoop, UNCHANGED <<closed, writing, snd_buffer_>>
  PROVE  BufferWatched'
BY Zenon DEF BufferWatched, WritingIffBuffered, ShutdownAfterBuffer, shutdownInLoop

LEMMA HandleWritePreserves ==
  ASSUME BufferWatched, NEW n \in 1..MaxBytes, HandleWrite(n)
  PROVE  BufferWatched'
<1> USE DEF BufferWatched, WritingIffBuffered, ShutdownAfterBuffer
<1>1. /\ n \in 1..Len(snd_buffer_) /\ UNCHANGED <<closed, wrShut>> /\ ~wrShut
      /\ snd_buffer_' = SubSeq(snd_buffer_, n + 1, Len(snd_buffer_))
      /\ writing' = (n < Len(snd_buffer_))
  BY ConnectionAssumption DEF HandleWrite, WriteFails
<1>2. snd_buffer_' \in Seq(Nat) /\ Len(snd_buffer_') = Len(snd_buffer_) - n
  BY <1>1
<1>3. writing' <=> Len(snd_buffer_') # 0
  <2>1. n < Len(snd_buffer_) <=> Len(snd_buffer_') # 0
    BY <1>1, <1>2
  <2> QED
    BY <1>1, <2>1, Zenon
<1> QED
  BY <1>1, <1>2, <1>3, EmptySeq, Zenon

LEMMA BytesType ==
  ASSUME nsent \in Nat, NEW n \in Nat
  PROVE  Bytes(n) \in Seq(Nat)
BY DEF Bytes

LEMMA RunSendPreserves ==
  ASSUME Inv, RunSend
  PROVE  Inv'
<1> DEFINE n == Head(works)[2]
<1>1. Head(works) \in Calls /\ Tail(works) \in Seq(Calls)
  BY HeadTailProperties DEF RunSend, Inv, QueuesOK
<1>2. n \in Nat
  BY <1>1 DEF Calls
<1>3. QueuesOK'
  <2>1. nsent' = nsent \/ nsent' = nsent + n
    BY sendInLoopCounts, Zenon DEF RunSend
  <2> QED
    BY <1>1, <1>2, <2>1 DEF RunSend, Inv, QueuesOK
<1>4. Bytes(n) \in Seq(Nat)
  BY <1>2, BytesType, Zenon DEF Inv, QueuesOK
<1>5. \A m \in 0..MaxMsg : [i \in 1..m |-> 0] \in Seq(Nat)
  BY ConnectionAssumption
<1>6. UNCHANGED <<closed, wrShut>>
  BY DEF RunSend
<1>7. \E msg \in Seq(Nat) : sendInLoop(msg, n)
  BY <1>4, <1>5, Zenon DEF RunSend
<1> QED
  BY <1>3, <1>6, <1>7, sendInLoopPreserves DEF Inv

(* In every reachable state of any number of threads that send messages of *)
(* any length and shut down, with short writes, errors and resets: a write *)
(* is awaited iff there is something to write, and the write end is shut   *)
(* down with nothing waiting.                                              *)
THEOREM SendingSafe == Spec => [](WritingIffBuffered /\ ShutdownAfterBuffer)
<1> USE DEF Inv
<1>1. Init => Inv
  BY EmptySeq DEF Init, QueuesOK, BufferWatched, WritingIffBuffered, ShutdownAfterBuffer
<1>2. Inv /\ [Next]_vars => Inv'
  <2> SUFFICES ASSUME Inv, [Next]_vars PROVE Inv'
    OBVIOUS
  <2>1. ASSUME NEW n \in 1..MaxBytes, HandleWrite(n) PROVE Inv'
    BY <2>1, HandleWritePreserves, SMTT(30) DEF HandleWrite, QueuesOK
  <2>2. CASE WriteComplete
    <3>1. UNCHANGED <<closed, writing, snd_buffer_, functors_, works, nsent>>
      BY <2>2 DEF WriteComplete
    <3>2. CASE shutdownInLoop
      BY <3>1, <3>2, shutdownInLoopPreserves DEF QueuesOK
    <3>3. CASE UNCHANGED wrShut
      BY <3>1, <3>3 DEF QueuesOK, BufferWatched, WritingIffBuffered, ShutdownAfterBuffer
    <3> QED
      BY <2>2, <3>2, <3>3 DEF WriteComplete
  <2>3. CASE SwapFunctors
    BY <2>3, EmptySeq
       DEF SwapFunctors, QueuesOK, BufferWatched, WritingIffBuffered, ShutdownAfterBuffer
  <2>4. CASE RunSend
    BY <2>4, RunSendPreserves
  <2>5. CASE RunShutdown
    <3>1. Tail(works) \in Seq(Calls)
      BY <2>5, HeadTailProperties DEF RunShutdown, QueuesOK
    <3> QED
      BY <2>5, <3>1, shutdownInLoopPreserves DEF RunShutdown, QueuesOK
  <2>6. CASE HandleClose
    BY <2>6 DEF HandleClose, QueuesOK, BufferWatched, WritingIffBuffered, ShutdownAfterBuffer
  <2>7. CASE Shutdown
    BY <2>7, shutdownInLoopPreserves DEF Shutdown, QueuesOK
  <2>8. ASSUME NEW n \in 1..MaxMsg, Send(n) PROVE Inv'
    <3>1. Bytes(n) \in Seq(Nat)
      BY ConnectionAssumption, BytesType DEF QueuesOK
    <3>2. nsent' = nsent \/ nsent' = nsent + n
      BY <2>8, sendInLoopCounts, Zenon DEF Send
    <3>3. QueuesOK'
      BY <2>8, <3>2, ConnectionAssumption DEF Send, QueuesOK
    <3> QED
      BY <2>8, <3>1, <3>3, sendInLoopPreserves DEF Send
  <2>9. ASSUME NEW t \in Callers, NEW n \in 1..MaxMsg, SendFrom(t, n) PROVE Inv'
    <3>1. <<"send", n>> \in Calls
      BY ConnectionAssumption DEF Calls
    <3>2. functors_' \in Seq(Calls)
      BY <2>9, <3>1, AppendProperties DEF SendFrom, QueuesOK
    <3> QED
      BY <2>9, <3>2
         DEF SendFrom, QueuesOK, BufferWatched, WritingIffBuffered, ShutdownAfterBuffer
  <2>10. ASSUME NEW t \in Callers, ShutdownPush(t) PROVE Inv'
    <3>1. <<"shutdown", 0>> \in Calls
      BY DEF Calls
    <3>2. functors_' \in Seq(Calls)
      BY <2>10, <3>1, AppendProperties DEF ShutdownPush, QueuesOK
    <3> QED
      BY <2>10, <3>2
         DEF ShutdownPush, QueuesOK, BufferWatched, WritingIffBuffered, ShutdownAfterBuffer
  <2>11. ASSUME UNCHANGED <<functors_, works, nsent, snd_buffer_, writing, closed, wrShut>>
         PROVE  Inv'
    BY <2>11 DEF QueuesOK, BufferWatched, WritingIffBuffered, ShutdownAfterBuffer
  <2>12. ASSUME NEW t \in Callers, ShutdownTest(t) \/ ShutdownStore(t) PROVE Inv'
    BY <2>11, <2>12 DEF ShutdownTest, ShutdownStore
  <2>13. CASE PeerReset
    BY <2>11, <2>13 DEF PeerReset
  <2>14. CASE UNCHANGED vars
    BY <2>11, <2>14 DEF vars
  <2> QED
    BY <2>1, <2>2, <2>3, <2>4, <2>5, <2>6, <2>7, <2>8, <2>9, <2>10, <2>12,
       <2>13, <2>14 DEF Next, Sending
<1> QED
  BY <1>1, <1>2, PTL DEF Spec, BufferWatched

-----------------------------------------------------------------------------
(* The byte stream.  s has the bytes sendInLoop() has taken, from the      *)
(* first one on.                                                           *)
Numbered(s) == \A i \in 1..Len(s) : s[i] = i

(* Nothing that sendInLoop() has taken is missing from the stream. *)
Complete == Len(wire \o snd_buffer_) = nsent

StreamInv ==
  /\ wire \in Seq(Nat) /\ snd_buffer_ \in Seq(Nat)
  /\ ~garbled => Numbered(wire \o snd_buffer_) /\ Complete

LEMMA SplitSeq ==
  ASSUME NEW s \in Seq(Nat), NEW n \in 0..Len(s)
  PROVE  /\ SubSeq(s, 1, n) \in Seq(Nat) /\ SubSeq(s, n + 1, Len(s)) \in Seq(Nat)
         /\ SubSeq(s, 1, n) \o SubSeq(s, n + 1, Len(s)) = s
<1>1. /\ SubSeq(s, 1, n) \in Seq(Nat) /\ Len(SubSeq(s, 1, n)) = n
      /\ \A i \in 1..n : SubSeq(s, 1, n)[i] = s[i]
  OBVIOUS
<1>2. /\ SubSeq(s, n + 1, Len(s)) \in Seq(Nat)
      /\ Len(SubSeq(s, n + 1, Len(s))) = Len(s) - n
      /\ \A i \in 1..(Len(s) - n) : SubSeq(s, n + 1, Len(s))[i] = s[n + i]
  OBVIOUS
<1>3. PICK a \in Seq(Nat), b \in Seq(Nat) :
        a = SubSeq(s, 1, n) /\ b = SubSeq(s, n + 1, Len(s))
  BY <1>1, <1>2, Zenon
<1>4. a \o b = s
  <2>0. /\ Len(a) = n /\ Len(b) = Len(s) - n
        /\ \A i \in 1..n : a[i] = s[i]
        /\ \A i \in 1..(Len(s) - n) : b[i] = s[n + i]
    BY <1>1, <1>2, <1>3, Zenon
  <2>1. /\ Len(a \o b) = Len(a) + Len(b) /\ a \o b \in Seq(Nat)
        /\ \A i \in 1..Len(a) + Len(b) :
             (a \o b)[i] = IF i <= Len(a) THEN a[i] ELSE b[i - Len(a)]
    BY ConcatProperties, Zenon
  <2>2. \A i \in 1..Len(s) : (a \o b)[i] = s[i]
    BY ONLY <2>0, <2>1, SMTT(30)
  <2>3. Len(a \o b) = Len(s)
    BY <2>0, <2>1
  <2>4. \A i \in 1..Len(a \o b) : (a \o b)[i] = s[i]
    BY <2>2, <2>3, Zenon
  <2> QED
    BY ONLY <2>1, <2>3, <2>4, s \in Seq(Nat), SeqEqual, Zenon
<1> QED
  BY <1>1, <1>2, <1>3, <1>4, Zenon

LEMMA Associative ==
  ASSUME NEW s \in Seq(Nat), NEW t \in Seq(Nat), NEW u \in Seq(Nat)
  PROVE  (s \o t) \o u = s \o (t \o u)
BY ConcatAssociative, SMTT(30)

(* sendInLoop() drops the message, or adds it to the end of the stream,    *)
(* however much of it the socket takes at once.                            *)
LEMMA sendInLoopAppends ==
  ASSUME wire \in Seq(Nat), snd_buffer_ \in Seq(Nat),
         NEW msg \in Seq(Nat), NEW size, sendInLoop(msg, size)
  PROVE  /\ wire' \in Seq(Nat) /\ snd_buffer_' \in Seq(Nat)
         /\ \/ UNCHANGED <<wire, snd_buffer_, nsent>>
            \/ /\ wire' \o snd_buffer_' = (wire \o snd_buffer_) \o msg
               /\ nsent' = nsent + size
<1>1. CASE UNCHANGED <<wire, snd_buffer_, nsent>>
  BY <1>1
<1>2. CASE Taken(msg, size)
  <2>1. PICK n \in DirectWrite(msg) :
          /\ wire' = wire \o SubSeq(msg, 1, n)
          /\ snd_buffer_' = snd_buffer_ \o SubSeq(msg, n + 1, Len(msg))
    BY <1>2, Zenon DEF Taken
  <2>2. n \in 0..Len(msg) /\ (snd_buffer_ = <<>> \/ n = 0)
    BY <2>1 DEF DirectWrite
  <2> DEFINE first == SubSeq(msg, 1, n)
             rest == SubSeq(msg, n + 1, Len(msg))
  <2>3. first \in Seq(Nat) /\ rest \in Seq(Nat) /\ first \o rest = msg
    BY <2>2, SplitSeq, Zenon
  <2>0. first \in Seq(Nat) /\ rest \in Seq(Nat)
    BY <2>3
  <2>4. snd_buffer_' \in Seq(Nat)
    BY <2>1, <2>3, ConcatProperties, Zenon
  <2>5. wire' \in Seq(Nat)
    BY <2>1, <2>3, ConcatProperties, Zenon
  <2>7. n = 0 => first = <<>>
    BY <2>2
  <2> HIDE DEF first, rest
  <2>8. wire' \o snd_buffer_' = (wire \o snd_buffer_) \o msg
    <3>1. wire' = wire \o first /\ snd_buffer_' = snd_buffer_ \o rest
      BY <2>1 DEF first, rest
    <3>2. CASE snd_buffer_ = <<>>
      <4>1. snd_buffer_' = rest /\ wire \o snd_buffer_ = wire
        BY <3>1, <3>2, <2>3, ConcatEmptySeq, Zenon
      <4>2. (wire \o first) \o rest = wire \o (first \o rest)
        BY ONLY <2>0, wire \in Seq(Nat), snd_buffer_ \in Seq(Nat), Associative, ZenonT(30)
      <4> QED
        BY ONLY <4>1, <4>2, <3>1, <2>3, Zenon
    <3>3. CASE n = 0
      <4>1. wire' = wire /\ rest = msg
        BY <3>1, <3>3, <2>3, <2>7, ConcatEmptySeq, Zenon
      <4>2. (wire \o snd_buffer_) \o rest = wire \o (snd_buffer_ \o rest)
        BY ONLY <2>0, wire \in Seq(Nat), snd_buffer_ \in Seq(Nat), Associative, ZenonT(30)
      <4> QED
        BY ONLY <4>1, <4>2, <3>1, Zenon
    <3> QED
      BY <2>2, <3>2, <3>3, Zenon
  <2> QED
    BY <1>2, <2>4, <2>5, <2>8, Zenon DEF Taken
<1> QED
  BY <1>1, <1>2, Zenon DEF sendInLoop, Taken

(* The next n bytes continue a complete stream. *)
LEMMA NumberedGoesOn ==
  ASSUME NEW s \in Seq(Nat), Numbered(s), nsent = Len(s), NEW n \in Nat
  PROVE  /\ Bytes(n) \in Seq(Nat) /\ Numbered(s \o Bytes(n))
         /\ Len(s \o Bytes(n)) = nsent + n
BY DEF Bytes, Numbered

(* The messages of Send() in the loop thread, and of a functor that found  *)
(* its message.                                                            *)
LEMMA SendKeepsStream ==
  ASSUME StreamInv, nsent \in Nat, NEW n \in Nat, sendInLoop(Bytes(n), n),
         UNCHANGED garbled
  PROVE  StreamInv'
<1> USE DEF StreamInv
<1>1. Bytes(n) \in Seq(Nat)
  BY BytesType
<1>2. /\ wire' \in Seq(Nat) /\ snd_buffer_' \in Seq(Nat)
      /\ \/ UNCHANGED <<wire, snd_buffer_, nsent>>
         \/ /\ wire' \o snd_buffer_' = (wire \o snd_buffer_) \o Bytes(n)
            /\ nsent' = nsent + n
  BY <1>1, sendInLoopAppends, Zenon
<1>3. CASE UNCHANGED <<wire, snd_buffer_, nsent>>
  BY <1>2, <1>3 DEF Complete
<1>4. CASE wire' \o snd_buffer_' = (wire \o snd_buffer_) \o Bytes(n) /\ nsent' = nsent + n
  <2> SUFFICES ASSUME ~garbled
               PROVE  Numbered(wire \o snd_buffer_)' /\ Complete'
    BY <1>2
  <2>1. wire \o snd_buffer_ \in Seq(Nat)
    BY ConcatProperties, Zenon
  <2>2. PICK s \in Seq(Nat) : s = wire \o snd_buffer_
    BY <2>1, Zenon
  <2>3. Numbered(s) /\ nsent = Len(s)
    BY <2>2 DEF Complete
  <2>4. Numbered(s \o Bytes(n)) /\ Len(s \o Bytes(n)) = nsent + n
    BY <2>3, NumberedGoesOn
  <2> QED
    BY <1>4, <2>2, <2>4, SMTT(30) DEF Complete, Numbered
<1> QED
  BY <1>2, <1>3, <1>4, Zenon

LEMMA HandleWriteKeepsStream ==
  ASSUME StreamInv, NEW n \in 1..MaxBytes, HandleWrite(n)
  PROVE  StreamInv'
<1> USE DEF StreamInv
<1> DEFINE first == SubSeq(snd_buffer_, 1, n)
           rest == SubSeq(snd_buffer_, n + 1, Len(snd_buffer_))
<1>1. /\ n \in 0..Len(snd_buffer_)
      /\ wire' = wire \o first /\ snd_buffer_' = rest
      /\ UNCHANGED <<nsent, garbled>>
  BY ConnectionAssumption DEF HandleWrite
<1>2. first \in Seq(Nat) /\ rest \in Seq(Nat) /\ first \o rest = snd_buffer_
  BY <1>1, SplitSeq, Zenon
<1> HIDE DEF first, rest
<1>4. wire' \o snd_buffer_' = wire \o snd_buffer_
  <2>1. (wire \o first) \o rest = wire \o (first \o rest)
    <3>1. first \in Seq(Nat) /\ rest \in Seq(Nat)
      BY <1>2
    <3> QED
      BY ONLY <3>1, wire \in Seq(Nat), Associative, Zenon
  <2> QED
    BY ONLY <1>1, <1>2, <2>1, Zenon
<1>5. wire' \in Seq(Nat) /\ snd_buffer_' \in Seq(Nat)
  BY <1>1, <1>2, ConcatProperties, Zenon
<1>7. ~garbled' => Numbered(wire \o snd_buffer_)' /\ Complete'
  BY <1>1, <1>4 DEF Complete, Numbered
<1> QED
  BY <1>5, <1>7

(* A functor whose message is gone adds some bytes, and the stream is      *)
(* garbled from then on.                                                   *)
LEMMA RunSendKeepsStream ==
  ASSUME StreamInv, QueuesOK, RunSend
  PROVE  StreamInv'
<1> DEFINE n == Head(works)[2]
<1>1. Head(works) \in Calls
  BY HeadTailProperties DEF RunSend, QueuesOK
<1>2. n \in Nat
  BY <1>1 DEF Calls
<1>3. nsent \in Nat
  BY DEF QueuesOK
<1>4. CASE sendInLoop(Bytes(n), n) /\ UNCHANGED garbled
  BY <1>2, <1>3, <1>4, SendKeepsStream
<1>5. ASSUME garbled' = TRUE, NEW m \in 0..MaxMsg, sendInLoop([i \in 1..m |-> 0], n)
      PROVE  StreamInv'
  <2>1. [i \in 1..m |-> 0] \in Seq(Nat)
    BY ConnectionAssumption
  <2>2. PICK msg \in Seq(Nat) : msg = [i \in 1..m |-> 0]
    BY <2>1, Zenon
  <2>3. sendInLoop(msg, n)
    BY <1>5, <2>2
  <2> QED
    BY <1>5, <2>3, sendInLoopAppends DEF StreamInv
<1> QED
  BY <1>4, <1>5, Zenon DEF RunSend

(* Every step keeps the stream. *)
LEMMA NextKeepsStream == QueuesOK /\ StreamInv /\ [Next]_vars => StreamInv'
<1> SUFFICES ASSUME QueuesOK, StreamInv, [Next]_vars PROVE StreamInv'
  OBVIOUS
<1>1. ASSUME UNCHANGED <<wire, snd_buffer_, nsent, garbled>> PROVE StreamInv'
  BY <1>1 DEF StreamInv, Complete, Numbered
<1>2. ASSUME NEW n \in 1..MaxBytes, HandleWrite(n) PROVE StreamInv'
  BY <1>2, HandleWriteKeepsStream
<1>3. CASE WriteComplete \/ RunShutdown \/ Shutdown \/ SwapFunctors \/ HandleClose \/ PeerReset
  BY <1>1, <1>3
     DEF WriteComplete, RunShutdown, Shutdown, SwapFunctors, HandleClose, PeerReset
<1>4. CASE RunSend
  BY <1>4, RunSendKeepsStream
<1>5. ASSUME NEW n \in 1..MaxMsg, Send(n) PROVE StreamInv'
  BY <1>5, ConnectionAssumption, SendKeepsStream DEF Send, QueuesOK
<1>6. ASSUME NEW t \in Callers, NEW n \in 1..MaxMsg, SendFrom(t, n) PROVE StreamInv'
  BY <1>1, <1>6 DEF SendFrom
<1>7. ASSUME NEW t \in Callers, ShutdownTest(t) \/ ShutdownStore(t) \/ ShutdownPush(t)
      PROVE  StreamInv'
  BY <1>1, <1>7 DEF ShutdownTest, ShutdownStore, ShutdownPush
<1>8. CASE UNCHANGED vars
  BY <1>1, <1>8 DEF vars
<1> QED
  BY <1>2, <1>3, <1>4, <1>5, <1>6, <1>7, <1>8 DEF Next, Sending

-----------------------------------------------------------------------------
(* The bytes in queued calls.  left[i] is what the calls of q from the     *)
(* i-th on have to send: the sum a recursive definition would compute,     *)
(* given by what it satisfies.                                             *)
Cost(c) == IF c[1] = "send" THEN c[2] ELSE 0

Owing(q, total) ==
  \E left \in [1..(Len(q) + 1) -> Nat] :
    /\ left[1] = total /\ left[Len(q) + 1] = 0
    /\ \A i \in 1..Len(q) : left[i] = left[i + 1] + Cost(q[i])

LEMMA CostType == ASSUME NEW c \in Calls PROVE Cost(c) \in Nat
BY DEF Cost, Calls

LEMMA OwingEmpty == Owing(<<>>, 0)
<1>1. Len(<<>>) = 0 /\ 1..0 = {} /\ 0 + 1 = 1
  OBVIOUS
<1>2. PICK left : left = [i \in 1..1 |-> 0]
  BY Zenon
<1>3. left \in [1..1 -> Nat] /\ left[1] = 0
  BY <1>2
<1>4. \E f \in [1..(Len(<<>>) + 1) -> Nat] :
        /\ f[1] = 0 /\ f[Len(<<>>) + 1] = 0
        /\ \A i \in 1..Len(<<>>) : f[i] = f[i + 1] + Cost(<<>>[i])
  BY <1>1, <1>3, Zenon
<1> QED
  BY <1>4, Zenon DEF Owing

(* A call at the end adds its bytes. *)
LEMMA OwingAppend ==
  ASSUME NEW q \in Seq(Calls), NEW total, Owing(q, total), NEW c \in Calls
  PROVE  total \in Nat /\ Owing(Append(q, c), total + Cost(c))
<1>1. PICK left \in [1..(Len(q) + 1) -> Nat] :
        /\ left[1] = total /\ left[Len(q) + 1] = 0
        /\ \A i \in 1..Len(q) : left[i] = left[i + 1] + Cost(q[i])
  BY DEF Owing
<1>2. /\ Append(q, c) \in Seq(Calls) /\ Len(Append(q, c)) = Len(q) + 1
      /\ \A i \in 1..Len(q) : Append(q, c)[i] = q[i]
      /\ Append(q, c)[Len(q) + 1] = c
  BY AppendProperties
<1>3. Len(q) \in Nat /\ Cost(c) \in Nat
  BY CostType, LenProperties
<1>4. PICK more : more = [i \in 1..(Len(q) + 2) |->
                            IF i <= Len(q) + 1 THEN left[i] + Cost(c) ELSE 0]
  BY Zenon
<1>5. more \in [1..(Len(q) + 2) -> Nat]
  BY <1>1, <1>3, <1>4
<1>6. more[1] = total + Cost(c) /\ more[Len(q) + 2] = 0 /\ total \in Nat
  BY <1>1, <1>3, <1>4
<1>7. ASSUME NEW i \in 1..(Len(q) + 1)
      PROVE  more[i] = more[i + 1] + Cost(Append(q, c)[i])
  <2>1. CASE i = Len(q) + 1
    BY <1>1, <1>2, <1>3, <1>4, <2>1
  <2>2. CASE i # Len(q) + 1
    <3>1. i \in 1..Len(q) /\ i + 1 \in 1..(Len(q) + 1)
      BY <1>3, <2>2
    <3>2. Cost(q[i]) \in Nat
      BY <3>1, CostType, ElementOfSeq
    <3>3. Append(q, c)[i] = q[i] /\ left[i] = left[i + 1] + Cost(q[i])
      BY <1>1, <1>2, <3>1
    <3>4. more[i] = left[i] + Cost(c) /\ more[i + 1] = left[i + 1] + Cost(c)
      BY <1>3, <1>4, <3>1
    <3>5. left[i] \in Nat /\ left[i + 1] \in Nat
      BY <1>1, <1>3, <3>1
    <3> QED
      BY <1>3, <3>2, <3>3, <3>4, <3>5
  <2> QED
    BY <2>1, <2>2
<1>8. Len(Append(q, c)) + 1 = Len(q) + 2
  BY <1>2, <1>3
<1>9. Owing(Append(q, c), total + Cost(c))
  BY ONLY <1>2, <1>5, <1>6, <1>7, <1>8, Zenon DEF Owing
<1> QED
  BY <1>6, <1>9

(* The first call takes its bytes with it. *)
LEMMA OwingTail ==
  ASSUME NEW q \in Seq(Calls), q # <<>>, NEW total, Owing(q, total)
  PROVE  /\ total \in Nat /\ Cost(Head(q)) \in Nat /\ Cost(Head(q)) <= total
         /\ Owing(Tail(q), total - Cost(Head(q)))
<1>1. PICK left \in [1..(Len(q) + 1) -> Nat] :
        /\ left[1] = total /\ left[Len(q) + 1] = 0
        /\ \A i \in 1..Len(q) : left[i] = left[i + 1] + Cost(q[i])
  BY DEF Owing
<1>2. /\ Head(q) \in Calls /\ Tail(q) \in Seq(Calls) /\ Len(Tail(q)) = Len(q) - 1
      /\ \A i \in 1..Len(Tail(q)) : Tail(q)[i] = q[i + 1]
  BY HeadTailProperties, Zenon
<1>3. Len(q) \in Nat \ {0} /\ Head(q) = q[1]
  BY EmptySeq
<1>4. Cost(Head(q)) \in Nat
  BY <1>2, CostType
<1>5. left[1] = left[2] + Cost(Head(q)) /\ left[1] \in Nat /\ left[2] \in Nat
  BY <1>1, <1>3
<1>6. PICK less : less = [i \in 1..Len(q) |-> left[i + 1]]
  BY Zenon
<1>7. /\ less \in [1..Len(q) -> Nat] /\ less[1] = left[2] /\ less[Len(q)] = 0
  BY <1>1, <1>3, <1>6
<1>8. ASSUME NEW i \in 1..(Len(q) - 1) PROVE less[i] = less[i + 1] + Cost(Tail(q)[i])
  BY <1>1, <1>2, <1>3, <1>6
<1>9. Len(Tail(q)) + 1 = Len(q) /\ left[2] = total - Cost(Head(q))
  BY <1>1, <1>2, <1>3, <1>4, <1>5
<1>10. Owing(Tail(q), total - Cost(Head(q)))
  <2>1. Len(Tail(q)) = Len(q) - 1 /\ less[1] = total - Cost(Head(q))
    BY <1>2, <1>7, <1>9
  <2> QED
    BY ONLY <1>7, <1>8, <1>9, <2>1, ZenonT(30) DEF Owing
<1> QED
  BY <1>1, <1>4, <1>5, <1>10

(* Each byte handed to Send() is counted at most once: as taken or as      *)
(* queued.                                                                 *)
Accounts ==
  /\ QueuesOK /\ queued \in Nat /\ nsent + queued <= MaxBytes
  /\ owed \in 0..MaxBytes
  /\ Owing(works \o functors_, queued)

(* A call goes to the end of the queue behind the batch. *)
LEMMA PushKeepsAccounts ==
  ASSUME Accounts, NEW c \in Calls, functors_' = Append(functors_, c),
         queued' = queued + Cost(c), nsent + queued + Cost(c) <= MaxBytes,
         UNCHANGED <<works, nsent, owed>>
  PROVE  Accounts'
<1> USE DEF Accounts, QueuesOK
<1>1. functors_' \in Seq(Calls)
  BY AppendProperties
<1>2. works \o functors_ \in Seq(Calls)
  BY ConcatProperties, Zenon
<1>3. works' \o functors_' = Append(works \o functors_, c)
  <2>1. works \o Append(functors_, c) = Append(works \o functors_, c)
    <3>1. /\ Append(functors_, c) = functors_ \o <<c>> /\ <<c>> \in Seq(Calls)
      BY AppendIsConcat
    <3>2. Append(works \o functors_, c) = (works \o functors_) \o <<c>>
      BY <1>2, AppendIsConcat
    <3>3. (works \o functors_) \o <<c>> = works \o (functors_ \o <<c>>)
      BY <3>1, ConcatAssociative, SMTT(30)
    <3> QED
      BY <3>1, <3>2, <3>3, Zenon
  <2> QED
    BY <2>1
<1>4. Owing(Append(works \o functors_, c), queued + Cost(c))
  BY <1>2, OwingAppend, Zenon
<1>5. Owing(works' \o functors_', queued')
  BY <1>3, <1>4
<1>6. Cost(c) \in Nat
  BY CostType
<1>7. queued' \in Nat /\ nsent' + queued' <= MaxBytes
  BY <1>6
<1> QED
  BY <1>1, <1>5, <1>7

(* The functor at the head of the batch is the head of the whole queue. *)
LEMMA RunKeepsAccounts ==
  ASSUME Accounts, works # <<>>, works' = Tail(works),
         queued' = queued - Cost(Head(works)),
         nsent' = nsent \/ nsent' = nsent + Cost(Head(works)),
         UNCHANGED <<functors_, owed>>
  PROVE  Accounts'
<1> USE DEF Accounts, QueuesOK
<1>1. works' \in Seq(Calls)
  BY HeadTailProperties
<1>2. PICK q \in Seq(Calls) : q = works \o functors_
  BY ConcatProperties, Zenon
<1>3. q # <<>> /\ Head(q) = Head(works) /\ Tail(q) = Tail(works) \o functors_
  BY <1>2, SMTT(30)
<1>4. /\ Cost(Head(works)) \in Nat /\ Cost(Head(works)) <= queued
      /\ Owing(Tail(works) \o functors_, queued - Cost(Head(works)))
  BY <1>2, <1>3, OwingTail, Zenon
<1>5. queued' \in Nat /\ nsent' \in Nat /\ nsent' + queued' <= MaxBytes
  BY <1>4, ConnectionAssumption, SMTT(30)
<1> QED
  BY <1>1, <1>4, <1>5

LEMMA NextKeepsAccounts == Accounts /\ [Next]_vars => Accounts'
<1> SUFFICES ASSUME Accounts, [Next]_vars PROVE Accounts'
  OBVIOUS
<1>0. nsent \in Nat /\ queued \in Nat /\ works \in Seq(Calls) /\ functors_ \in Seq(Calls)
  BY DEF Accounts, QueuesOK
<1>1. ASSUME UNCHANGED <<functors_, works, nsent, queued>>, owed' \in 0..MaxBytes
      PROVE  Accounts'
  BY <1>1 DEF Accounts, QueuesOK
<1>2. ASSUME UNCHANGED <<functors_, works, nsent, queued, owed>> PROVE Accounts'
  BY <1>1, <1>2 DEF Accounts
<1>3. ASSUME NEW n \in 1..MaxBytes, HandleWrite(n) PROVE Accounts'
  BY <1>2, <1>3 DEF HandleWrite
<1>4. CASE WriteComplete \/ HandleClose \/ PeerReset
  BY <1>2, <1>4 DEF WriteComplete, HandleClose, PeerReset
<1>5. CASE Shutdown
  <2>1. nsent \in 0..MaxBytes
    BY <1>0, ConnectionAssumption DEF Accounts
  <2> QED
    BY <1>1, <1>5, <2>1 DEF Shutdown
<1>6. CASE SwapFunctors
  <2>1. works' \o functors_' = works \o functors_
    BY <1>0, <1>6, ConcatEmptySeq DEF SwapFunctors
  <2> QED
    BY <1>6, <2>1 DEF SwapFunctors, Accounts, QueuesOK
<1>7. CASE RunSend
  <2>1. Cost(Head(works)) = Head(works)[2]
    BY <1>7 DEF RunSend, Cost
  <2>2. nsent' = nsent \/ nsent' = nsent + Head(works)[2]
    BY <1>7, sendInLoopCounts, Zenon DEF RunSend
  <2> QED
    BY <1>7, <2>1, <2>2, RunKeepsAccounts DEF RunSend
<1>8. CASE RunShutdown
  <2>1. Cost(Head(works)) = 0
    BY <1>8 DEF RunShutdown, Cost
  <2>2. queued' = queued - Cost(Head(works)) /\ nsent' = nsent + Cost(Head(works))
    BY <1>0, <1>8, <2>1 DEF RunShutdown
  <2> QED
    BY <1>8, <2>2, RunKeepsAccounts DEF RunShutdown
<1>9. ASSUME NEW n \in 1..MaxMsg, Send(n) PROVE Accounts'
  <2>1. nsent' = nsent \/ nsent' = nsent + n
    BY <1>9, sendInLoopCounts, Zenon DEF Send
  <2> QED
    BY <1>9, <1>0, <2>1, ConnectionAssumption DEF Send, Accounts, QueuesOK
<1>10. ASSUME NEW t \in Callers, NEW n \in 1..MaxMsg, SendFrom(t, n) PROVE Accounts'
  <2>1. <<"send", n>> \in Calls /\ Cost(<<"send", n>>) = n
    BY ConnectionAssumption DEF Calls, Cost
  <2> QED
    BY <1>10, <2>1, PushKeepsAccounts DEF SendFrom
<1>11. ASSUME NEW t \in Callers, ShutdownPush(t) PROVE Accounts'
  <2>1. <<"shutdown", 0>> \in Calls /\ Cost(<<"shutdown", 0>>) = 0
    BY DEF Calls, Cost
  <2>2. queued' = queued + 0 /\ nsent + queued + 0 <= MaxBytes
    BY <1>11, <1>0 DEF ShutdownPush, Accounts
  <2> QED
    BY <1>11, <2>1, <2>2, PushKeepsAccounts DEF ShutdownPush
<1>12. ASSUME NEW t \in Callers, ShutdownTest(t) PROVE Accounts'
  <2>1. nsent + queued \in 0..MaxBytes
    BY <1>0, ConnectionAssumption DEF Accounts
  <2> QED
    BY <1>1, <1>12, <2>1 DEF ShutdownTest
<1>13. ASSUME NEW t \in Callers, ShutdownStore(t) PROVE Accounts'
  BY <1>2, <1>13 DEF ShutdownStore
<1>14. CASE UNCHANGED vars
  BY <1>2, <1>14 DEF vars
<1> QED
  BY <1>3, <1>4, <1>5, <1>6, <1>7, <1>8, <1>9, <1>10, <1>11, <1>12, <1>13, <1>14
     DEF Next, Sending

FlagsOK ==
  /\ state_ \in {"kConnected", "kDisconnecting", "kDisconnected"}
  /\ writing \in BOOLEAN /\ wrShut \in BOOLEAN /\ broken \in BOOLEAN
  /\ garbled \in BOOLEAN /\ closed \in BOOLEAN /\ aborted \in BOOLEAN
  /\ pc \in {"idle", "wc"} /\ tpc \in [Callers -> {"out", "store", "push"}]

LEMMA sendInLoopFlags ==
  ASSUME FlagsOK, NEW msg, NEW size, sendInLoop(msg, size)
  PROVE  writing' \in BOOLEAN /\ aborted' \in BOOLEAN
BY Zenon DEF FlagsOK, sendInLoop

LEMMA NextKeepsFlags == FlagsOK /\ [Next]_vars => FlagsOK'
<1> SUFFICES ASSUME FlagsOK, [Next]_vars PROVE FlagsOK'
  OBVIOUS
<1> USE DEF FlagsOK
<1>1. ASSUME NEW n \in 1..MaxBytes, HandleWrite(n) PROVE FlagsOK'
  BY <1>1 DEF HandleWrite
<1>2. CASE WriteComplete
  BY <1>2, Zenon DEF WriteComplete, shutdownInLoop
<1>3. CASE SwapFunctors \/ HandleClose \/ PeerReset
  BY <1>3, Zenon DEF SwapFunctors, HandleClose, PeerReset
<1>4. CASE RunSend
  <2>1. writing' \in BOOLEAN /\ aborted' \in BOOLEAN
    BY <1>4, sendInLoopFlags, Zenon DEF RunSend
  <2>2. garbled' \in BOOLEAN
    BY <1>4, Zenon DEF RunSend
  <2> QED
    BY <1>4, <2>1, <2>2 DEF RunSend
<1>5. CASE RunShutdown \/ Shutdown
  BY <1>5, Zenon DEF RunShutdown, Shutdown, shutdownInLoop
<1>6. ASSUME NEW n \in 1..MaxMsg, Send(n) PROVE FlagsOK'
  <2>1. writing' \in BOOLEAN /\ aborted' \in BOOLEAN
    BY <1>6, sendInLoopFlags DEF Send
  <2> QED
    BY <1>6, <2>1 DEF Send
<1>7. ASSUME NEW t \in Callers, NEW n \in 1..MaxMsg, SendFrom(t, n) PROVE FlagsOK'
  BY <1>7 DEF SendFrom
<1>8. ASSUME NEW t \in Callers, ShutdownTest(t) \/ ShutdownStore(t) \/ ShutdownPush(t)
      PROVE  FlagsOK'
  BY <1>8 DEF ShutdownTest, ShutdownStore, ShutdownPush
<1>9. CASE UNCHANGED vars
  BY <1>9 DEF vars
<1> QED
  BY <1>1, <1>2, <1>3, <1>4, <1>5, <1>6, <1>7, <1>8, <1>9 DEF Next, Sending

SentInv == FlagsOK /\ Accounts /\ StreamInv

LEMMA InitSent == Init => SentInv
<1> SUFFICES ASSUME Init PROVE SentInv
  OBVIOUS
<1>1. FlagsOK
  BY Zenon DEF Init, FlagsOK
<1>2. Accounts
  <2>1. works \o functors_ = <<>>
    BY EmptySeq, ConcatEmptySeq DEF Init
  <2> QED
    BY <2>1, OwingEmpty, EmptySeq, ConnectionAssumption DEF Init, Accounts, QueuesOK
<1>3. StreamInv
  <2>1. wire \o snd_buffer_ = <<>>
    BY EmptySeq, ConcatEmptySeq DEF Init
  <2>2. Len(<<>>) = 0 /\ 1..0 = {}
    OBVIOUS
  <2> QED
    BY <2>1, <2>2, EmptySeq DEF Init, StreamInv, Numbered, Complete
<1> QED
  BY <1>1, <1>2, <1>3 DEF SentInv

(* For any number of threads that send messages of any length, and for     *)
(* short writes, EWOULDBLOCK, errors, resets, shutdowns and closes at any  *)
(* point: the socket gets the bytes that sendInLoop() takes in order, each *)
(* once and none missing, as long as the queued messages are still there;  *)
(* a queued call runs once.                                                *)
THEOREM StreamSafe == Spec => []StreamInOrder
<1>1. SentInv /\ [Next]_vars => SentInv'
  <2>1. SentInv => QueuesOK
    BY DEF SentInv, Accounts
  <2> QED
    BY <2>1, NextKeepsFlags, NextKeepsAccounts, NextKeepsStream DEF SentInv
<1>2. SentInv => StreamInOrder
  <2> SUFFICES ASSUME SentInv PROVE StreamInOrder
    OBVIOUS
  <2>1. TypeOK
    BY DEF SentInv, FlagsOK, Accounts, QueuesOK, StreamInv, TypeOK, Calls
  <2> QED
    BY <2>1 DEF SentInv, StreamInv, Numbered, Complete, StreamInOrder
<1> QED
  BY <1>1, <1>2, InitSent, PTL DEF Spec

(* The part of SendingSafe a postponed Shutdown() is about: in every       *)
(* reachable state, a write end that is shut down has nothing waiting      *)
(* behind it.                                                              *)
THEOREM ShutdownIsPostponed == Spec => []ShutdownAfterBuffer
BY SendingSafe, PTL
=============================================================================
