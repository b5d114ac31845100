------------------------- MODULE AsyncLoggingProofs -------------------------
(***************************************************************************)
(* Proofs about AsyncLogging and its LogFile, for every size, interval and *)
(* number of entries: a log file is neither rolled nor flushed late by     *)
(* kCheckInterval appends, the buffers the worker counts on are there, no  *)
(* entry is lost, doubled or out of order on its way to the file, and what *)
(* waits in memory fills its buffers.                                      *)
(***************************************************************************)
EXTENDS AsyncLogging, SequenceTheorems, WellFoundedInduction, TLAPS

(* Every step of the logging threads is an append to the file, or leaves   *)
(* the counts of appends alone.                                            *)
FileStep ==
  \/ \E size : AppendSlice(size)
  \/ UNCHANGED <<count, overdue>>

LEMMA NextIsFileStep == [Next]_vars => FileStep
<1> SUFFICES ASSUME [Next]_vars PROVE FileStep
  OBVIOUS
<1> USE DEF FileStep, fvars
<1>1. CASE Worker
  BY <1>1 DEF Worker, Begin, TestDone, Wait, SwapBuffers, WriteBuffer, Recycle
<1>2. CASE Clock \/ ClockSet
  BY <1>2 DEF Clock, ClockSet, Tick, SetClock
<1>3. CASE StartWorker \/ StartReturns \/ StopWorker \/ SetDone \/ StopReturns
  BY <1>3 DEF StartWorker, StartReturns, StopWorker, SetDone, StopReturns, Control
<1>4. ASSUME NEW message \in Messages, Log(message) PROVE FileStep
  BY <1>4 DEF Log, AppendEntry
<1>5. CASE UNCHANGED vars
  BY <1>5 DEF vars
<1> QED
  BY <1>1, <1>2, <1>3, <1>4, <1>5 DEF Next

(* The counter of Append() counts at least the appends that left something *)
(* undone: every one of them came after the last check.                    *)
FileInv ==
  /\ count \in Nat /\ overdue \in Nat
  /\ count < kCheckInterval /\ overdue <= count

LEMMA AppendKeepsFileInv ==
  ASSUME FileInv, NEW size, AppendSlice(size) PROVE FileInv'
<1> USE LogFileAssumption DEF FileInv
<1>1. ASSUME rollToNewFile, UNCHANGED count \/ count' = 0 PROVE FileInv'
  BY <1>1 DEF rollToNewFile, NewFile
<1>2. CASE ~CheckDue /\ count' = count + 1 /\ Stays(size, FALSE)
  BY <1>2 DEF Stays, CheckDue
<1>3. CASE CheckDue /\ count' = 0 /\ ~OtherDay /\ Stays(size, FlushDue)
  <2>1. overdue' = 0
    BY <1>3, Zenon DEF Stays
  <2> QED
    BY <1>3, <2>1
<1> QED
  BY <1>1, <1>2, <1>3, Zenon DEF AppendSlice, Check

(* Whatever the threads log and whenever the worker writes it, with a      *)
(* clock that may be set at any time: fewer than kCheckInterval calls of   *)
(* LogFile::Append() in a row leave a file of another day open, or one     *)
(* unflushed that is due for it.                                           *)
THEOREM FileBounds == Spec => []ChecksInTime
<1>1. Init => FileInv
  BY LogFileAssumption DEF Init, FileInit, FileInv
<1>2. FileInv /\ [Next]_vars => FileInv'
  <2> SUFFICES ASSUME FileInv, [Next]_vars PROVE FileInv'
    OBVIOUS
  <2>1. CASE UNCHANGED <<count, overdue>>
    BY <2>1 DEF FileInv
  <2> QED
    BY <2>1, NextIsFileStep, AppendKeepsFileInv DEF FileStep
<1>3. FileInv => ChecksInTime
  BY LogFileAssumption DEF FileInv, ChecksInTime
<1> QED
  BY <1>1, <1>2, <1>3, PTL DEF Spec

-----------------------------------------------------------------------------
(* Where the buffers are, and that the spare ones are empty. *)
Spare == {<<>>, <<Empty>>}

BufferInv ==
  /\ cur_buffer_ \in Seq(Buffers) /\ Len(cur_buffer_) = 1
  /\ next_buffer_ \in Spare /\ tempBuffer1 \in Spare /\ tempBuffer2 \in Spare
  /\ buffers_ \in Seq(Buffers) /\ tempBuffers \in Seq(Buffers)
  /\ appended \in 0..MaxEntries
  /\ next_buffer_ = <<>> => buffers_ # <<>>
  /\ spc \in {"new", "stopped"} => wpc \in {"none", "exited"}
  /\ wpc # "write" => tempBuffers = <<>>
  /\ wpc = "write" => Len(tempBuffers) >= 2
  /\ wpc \in {"test", "lock", "wait"} =>
       tempBuffer1 = <<Empty>> /\ tempBuffer2 = <<Empty>>

LEMMA EmptyIsBuffer == Empty \in Buffers /\ <<Empty>> \in Seq(Buffers)
<1>1. <<>> \in Seq(1..MaxEntries)
  OBVIOUS
<1>2. Empty \in Buffers
  BY <1>1, LogEntryAssumption DEF Empty, Buffers
<1> QED
  BY <1>2

(* An entry that fits leaves a buffer within its capacity. *)
LEMMA PutFits ==
  ASSUME NEW b \in Buffers, NEW entry \in 1..MaxEntries, NEW size \in Nat,
         b.size + size <= Capacity
  PROVE  Put(b, entry, size) \in Buffers /\ <<Put(b, entry, size)>> \in Seq(Buffers)
<1>1. Append(b.entries, entry) \in Seq(1..MaxEntries)
  BY DEF Buffers
<1>2. b.size + size \in 0..Capacity
  BY LogEntryAssumption DEF Buffers
<1>3. Put(b, entry, size) \in Buffers
  BY <1>1, <1>2 DEF Put, Buffers
<1> QED
  BY <1>3

LEMMA LogKeepsBufferInv ==
  ASSUME BufferInv, NEW message \in Messages, Log(message) PROVE BufferInv'
<1> USE DEF BufferInv
<1>1. CASE EntryFails(message)
  <2>1. UNCHANGED <<shared, seen, temps, wpc, spc>>
    BY <1>1, Zenon DEF Log
  <2> QED
    BY <2>1 DEF shared, seen, temps
<1>2. CASE ~EntryFails(message)
  <2> DEFINE size == EntrySize(message)
             cur == cur_buffer_[1]
             fresh == IF next_buffer_ # <<>> THEN next_buffer_[1] ELSE Empty
  <2>1. size \in Nat /\ size <= Capacity
    BY <1>2, LoggingAssumption, LogEntryAssumption DEF EntryFails, EntrySize
  <2>2. cur \in Buffers
    <3>1. cur_buffer_ \in Seq(Buffers) /\ 1 \in 1..Len(cur_buffer_)
      OBVIOUS
    <3> QED
      BY ONLY <3>1, ElementOfSeq
  <2>3. fresh = Empty
    BY DEF Spare
  <2>4. appended' \in 1..MaxEntries /\ AppendEntry(size)
    BY <1>2, LoggingAssumption DEF Log, AppendEntry
  <2>5. UNCHANGED <<temps, wpc, spc>>
    BY DEF Log
  <2>6. CASE Fits(size)
    <3>1. cur.size + size <= Capacity
      BY <2>6, <2>1, <2>2, LogEntryAssumption DEF Fits, Buffers
    <3>2. <<Put(cur, appended', size)>> \in Seq(Buffers)
      BY <3>1, <2>1, <2>2, <2>4, PutFits
    <3>3. cur_buffer_' = <<Put(cur, appended', size)>> /\ UNCHANGED <<next_buffer_, buffers_>>
      BY <2>4, <2>6 DEF AppendEntry
    <3> QED
      BY <3>2, <3>3, <2>4, <2>5 DEF temps
  <2>7. CASE ~Fits(size)
    <3>1. <<Put(Empty, appended', size)>> \in Seq(Buffers)
      BY <2>1, <2>4, EmptyIsBuffer, PutFits DEF Empty
    <3>2. /\ buffers_' = Append(buffers_, cur) /\ next_buffer_' = <<>>
          /\ cur_buffer_' = <<Put(Empty, appended', size)>>
      BY <2>3, <2>4, <2>7 DEF AppendEntry
    <3>3. buffers_' \in Seq(Buffers) /\ buffers_' # <<>>
      BY <3>2, <2>2
    <3> QED
      BY <3>1, <3>2, <3>3, <2>4, <2>5 DEF temps, Spare
  <2> QED
    BY <2>6, <2>7
<1> QED
  BY <1>1, <1>2

LEMMA WorkerKeepsBufferInv ==
  ASSUME BufferInv, Worker PROVE BufferInv'
<1> USE DEF BufferInv
<1>1. CASE Begin
  BY <1>1 DEF Begin, WorkerAt, shared, seen, Spare
<1>2. CASE TestDone
  BY <1>2 DEF TestDone, WorkerAt, shared, temps, seen
<1>3. CASE Wait
  BY <1>3 DEF Wait, WorkerAt, shared, temps, seen
<1>4. CASE SwapBuffers
  <2>1. tempBuffer1 = <<Empty>> /\ tempBuffer2 = <<Empty>>
    BY <1>4 DEF SwapBuffers, WaitOver, WorkerAt
  <2>2. /\ buffers_ \o cur_buffer_ \in Seq(Buffers)
        /\ Len(buffers_ \o cur_buffer_) = Len(buffers_) + 1
    <3>1. buffers_ \in Seq(Buffers) /\ cur_buffer_ \in Seq(Buffers)
      OBVIOUS
    <3>2. Len(cur_buffer_) = 1
      OBVIOUS
    <3>3. /\ buffers_ \o cur_buffer_ \in Seq(Buffers)
          /\ Len(buffers_ \o cur_buffer_) = Len(buffers_) + Len(cur_buffer_)
      BY ONLY <3>1, ConcatProperties, Zenon
    <3> QED
      BY ONLY <3>2, <3>3
  <2>3. Taken \in Seq(Buffers) /\ Len(Taken) >= 2
    <3>1. CASE next_buffer_ = <<>>
      <4>1. Len(buffers_) >= 1
        BY <3>1
      <4>2. Taken = buffers_ \o cur_buffer_
        BY <3>1, <2>2 DEF Taken
      <4> QED
        BY <4>1, <4>2, <2>2
    <3>2. CASE next_buffer_ # <<>>
      BY <3>2, <2>1, <2>2, EmptyIsBuffer DEF Taken
    <3> QED
      BY <3>1, <3>2
  <2>4. /\ tempBuffers' = Taken /\ cur_buffer_' = <<Empty>> /\ buffers_' = <<>>
        /\ next_buffer_' = <<Empty>>
        /\ tempBuffer1' = <<>> /\ tempBuffer2' = <<>>
        /\ wpc' = "write" /\ UNCHANGED <<appended, spc>>
        /\ wpc \in {"wait", "lock"}
    BY <1>4, <2>1 DEF SwapBuffers, TakeBuffers, WaitOver, WorkerAt, Spare, seen
  <2> QED
    BY <2>3, <2>4, EmptyIsBuffer DEF Spare
<1>5. CASE WriteBuffer
  BY <1>5 DEF WriteBuffer, WorkerAt, shared
<1>6. CASE Recycle
  BY <1>6 DEF Recycle, WorkerAt, shared, seen, Spare
<1> QED
  BY <1>1, <1>2, <1>3, <1>4, <1>5, <1>6 DEF Worker

LEMMA InitBuffers == Init => BufferInv
BY EmptyIsBuffer, LoggingAssumption DEF Init, BufferInv, Spare

LEMMA NextKeepsBuffers == BufferInv /\ [Next]_vars => BufferInv'
<1> SUFFICES ASSUME BufferInv, [Next]_vars PROVE BufferInv'
  OBVIOUS
<1>1. CASE Clock \/ ClockSet
  BY <1>1 DEF Clock, ClockSet, BufferInv, shared, temps, seen
<1>2. CASE StartWorker
  BY <1>2 DEF StartWorker, Control, BufferInv, shared, temps
<1>3. CASE StartReturns \/ StopWorker \/ SetDone \/ StopReturns
  BY <1>3 DEF StartReturns, StopWorker, SetDone, StopReturns, Control,
              BufferInv, shared, temps
<1>4. CASE UNCHANGED vars
  BY <1>4 DEF vars, BufferInv, shared, temps, seen
<1> QED
  BY <1>1, <1>2, <1>3, <1>4, LogKeepsBufferInv, WorkerKeepsBufferInv DEF Next

(* For buffers and entries of any size and any number of threads that log, *)
(* no buffer is filled beyond its capacity, and the worker has both of its *)
(* temporaries at the start of every round and two buffers to recycle at   *)
(* its end.                                                                *)
THEOREM BuffersPresent ==
  Spec => [](TempBuffersPresent /\ Pointer(cur_buffer_))
<1>1. BufferInv => TempBuffersPresent /\ Pointer(cur_buffer_)
  <2>1. <<Empty>> # <<>>
    OBVIOUS
  <2> QED
    <3>1. BufferInv => TempBuffersPresent
      BY <2>1, Zenon DEF BufferInv, TempBuffersPresent
    <3>2. BufferInv => Pointer(cur_buffer_)
      BY DEF BufferInv, Pointer
    <3> QED
      BY <3>1, <3>2
<1> QED
  BY <1>1, InitBuffers, NextKeepsBuffers, PTL DEF Spec

-----------------------------------------------------------------------------
(* The order of the log.  Flattening is defined by recursion; the lemmas   *)
(* say what it yields for buffers that hold consecutive entries.           *)

LEMMA LeastNatural ==
  ASSUME NEW T, T \subseteq Nat, T # {}
  PROVE  \E m \in T : \A k \in T : m <= k
<1> DEFINE R == OpToRel(<, Nat)
<1>1. IsWellFoundedOn(R, Nat)
  BY NatLessThanWellFounded, Zenon
<1>2. \A k, m \in Nat : <<k, m>> \in R <=> k < m
  BY DEF OpToRel
<1> HIDE DEF R
<1>3. PICK m \in T : \A k \in T : ~(<<k, m>> \in R)
  BY <1>1, WFMin, Zenon
<1>4. \A k \in T : m <= k
  <2> SUFFICES ASSUME NEW k \in T PROVE m <= k
    OBVIOUS
  <2>1. k \in Nat /\ m \in Nat
    OBVIOUS
  <2>2. ~(k < m)
    BY <1>2, <1>3, <2>1, Zenon
  <2> QED
    BY <2>1, <2>2
<1> QED
  BY <1>4

(* A function that satisfies the recursion in EntriesOf is the one it      *)
(* defines.                                                                *)
Flattens(f, bs, n) ==
  f = [i \in 0..n |-> IF i = 0 THEN <<>> ELSE f[i - 1] \o bs[i].entries]

LEMMA FlattenIs ==
  ASSUME NEW bs, NEW n \in Nat, Len(bs) = n, NEW g, Flattens(g, bs, n)
  PROVE  EntriesOf(bs) = g[n]
<1>1. EntriesOf(bs) = (CHOOSE f : Flattens(f, bs, n))[n]
  BY DEF EntriesOf, Flattens
<1>2. PICK f : Flattens(f, bs, n) /\ EntriesOf(bs) = f[n]
  <2>1. Flattens(CHOOSE f : Flattens(f, bs, n), bs, n)
    BY Zenon
  <2> QED
    BY <1>1, <2>1, Zenon
<1>4. \A i \in 0..n : f[i] = IF i = 0 THEN <<>> ELSE f[i - 1] \o bs[i].entries
  BY <1>2, Zenon DEF Flattens
<1>5. \A i \in 0..n : g[i] = IF i = 0 THEN <<>> ELSE g[i - 1] \o bs[i].entries
  BY Zenon DEF Flattens
<1> DEFINE Wrong == {i \in 0..n : f[i] # g[i]}
<1>6. Wrong = {}
  <2> SUFFICES ASSUME Wrong # {} PROVE FALSE
    OBVIOUS
  <2>0. Wrong \subseteq Nat
    OBVIOUS
  <2>1. PICK m \in Wrong : \A k \in Wrong : m <= k
    BY ONLY <2>0, Wrong # {}, LeastNatural, Zenon
  <2>2. m # 0
    BY ONLY <1>4, <1>5, m \in Wrong
  <2>3. m - 1 \in 0..n /\ m - 1 < m /\ m \in 0..n
    BY <2>2
  <2>4. f[m - 1] = g[m - 1]
    BY <2>1, <2>3
  <2>5. f[m] = g[m]
    BY ONLY <1>4, <1>5, <2>2, <2>3, <2>4, Zenon
  <2> QED
    BY <2>5
<1>7. n \in 0..n
  OBVIOUS
<1> QED
  BY <1>2, <1>6, <1>7, Zenon

(* The numbers from + 1 to to. *)
Run(from, to) == [j \in 1..(to - from) |-> from + j]

LEMMA RunType ==
  ASSUME NEW a \in Nat, NEW b \in Nat, a <= b
  PROVE  Run(a, b) \in Seq(Nat) /\ Len(Run(a, b)) = b - a
BY DEF Run

LEMMA RunConcat ==
  ASSUME NEW a \in Nat, NEW b \in Nat, NEW c \in Nat, a <= b, b <= c
  PROVE  Run(a, b) \o Run(b, c) = Run(a, c)
<1>1. /\ Run(a, b) \in Seq(Nat) /\ Len(Run(a, b)) = b - a
      /\ Run(b, c) \in Seq(Nat) /\ Len(Run(b, c)) = c - b
      /\ Run(a, c) \in Seq(Nat) /\ Len(Run(a, c)) = c - a
  <2>1. a <= c
    OBVIOUS
  <2> QED
    BY <2>1, RunType, Zenon
<1>2. PICK s \in Seq(Nat), t \in Seq(Nat) : s = Run(a, b) /\ t = Run(b, c)
  BY <1>1
<1>3. /\ \A i \in 1..(b - a) : s[i] = a + i
      /\ \A i \in 1..(c - b) : t[i] = b + i
      /\ \A i \in 1..(c - a) : Run(a, c)[i] = a + i
  BY <1>2 DEF Run
<1>4. /\ s \o t \in Seq(Nat) /\ Len(s \o t) = Len(s) + Len(t)
      /\ \A i \in 1..Len(s) + Len(t) :
           (s \o t)[i] = IF i <= Len(s) THEN s[i] ELSE t[i - Len(s)]
  BY ConcatProperties, Zenon
<1>5. Len(s) = b - a /\ Len(t) = c - b
  BY <1>1, <1>2
<1>6. ASSUME NEW i \in 1..(c - a) PROVE (s \o t)[i] = a + i
  <2>1. (s \o t)[i] = IF i <= b - a THEN s[i] ELSE t[i - (b - a)]
    <3>1. i \in 1..(b - a) + (c - b)
      BY ONLY a \in Nat, b \in Nat, c \in Nat, i \in 1..(c - a)
    <3> QED
      BY ONLY <1>4, <1>5, <3>1, Zenon
  <2>2. CASE i <= b - a
    BY ONLY <1>3, <2>1, <2>2, a \in Nat, b \in Nat, i \in 1..(c - a), c \in Nat
  <2>3. CASE ~(i <= b - a)
    <3>1. i - (b - a) \in 1..(c - b) /\ b + (i - (b - a)) = a + i
      BY ONLY <2>3, a \in Nat, b \in Nat, c \in Nat, i \in 1..(c - a)
    <3>2. t[i - (b - a)] = b + (i - (b - a))
      BY ONLY <1>3, <3>1, Zenon
    <3> QED
      BY ONLY <2>1, <2>3, <3>1, <3>2, Zenon
  <2> QED
    BY <2>2, <2>3, Zenon
<1>7. Len(s \o t) = Len(Run(a, c))
  <2>1. Len(s \o t) = (b - a) + (c - b)
    BY ONLY <1>4, <1>5, Zenon
  <2>2. (b - a) + (c - b) = c - a
    BY ONLY a \in Nat, b \in Nat, c \in Nat
  <2> QED
    BY ONLY <1>1, <2>1, <2>2, Zenon
<1>8. \A i \in 1..Len(s \o t) : (s \o t)[i] = Run(a, c)[i]
  BY <1>1, <1>3, <1>6, <1>7, Zenon
<1>9. s \o t = Run(a, c)
  BY ONLY <1>1, <1>4, <1>7, <1>8, SeqEqual, Zenon
<1> QED
  BY <1>2, <1>9

(* The buffers bs hold the entries from + 1 to to, in order; p says where  *)
(* each of them ends.                                                      *)
Ends(p, bs, from, to) ==
  /\ p \in [0..Len(bs) -> Nat] /\ p[0] = from /\ p[Len(bs)] = to
  /\ \A i, j \in 0..Len(bs) : i <= j => p[i] <= p[j]
  /\ \A i \in 1..Len(bs) : bs[i].entries = Run(p[i - 1], p[i])

Spans(bs, from, to) == \E p : Ends(p, bs, from, to)

LEMMA SpansBounds ==
  ASSUME NEW bs \in Seq(Buffers), NEW a, NEW b, Spans(bs, a, b)
  PROVE  a \in Nat /\ b \in Nat /\ a <= b
<1>1. PICK p : Ends(p, bs, a, b)
  BY DEF Spans
<1>2. Len(bs) \in Nat
  OBVIOUS
<1> QED
  BY <1>1, <1>2 DEF Ends

LEMMA SpansNothing == \A a \in Nat : Spans(<<>>, a, a)
<1> SUFFICES ASSUME NEW a \in Nat PROVE Spans(<<>>, a, a)
  OBVIOUS
<1>1. PICK p : p = [i \in 0..0 |-> a]
  BY Zenon
<1>2. Len(<<>>) = 0 /\ 1..0 = {}
  OBVIOUS
<1>3. /\ p \in [0..0 -> Nat] /\ p[0] = a
      /\ \A i, j \in 0..0 : i <= j => p[i] <= p[j]
  BY <1>1
<1>4. Ends(p, <<>>, a, a)
  BY <1>2, <1>3, Zenon DEF Ends
<1> QED
  BY <1>4 DEF Spans

LEMMA SpansOfNothing ==
  ASSUME NEW a, NEW b, Spans(<<>>, a, b) PROVE a = b
<1>1. Len(<<>>) = 0
  OBVIOUS
<1> QED
  BY <1>1, Zenon DEF Spans, Ends

(* One buffer. *)
LEMMA SpansOne ==
  ASSUME NEW b \in Buffers, NEW from \in Nat, NEW to \in Nat, from <= to,
         b.entries = Run(from, to)
  PROVE  Spans(<<b>>, from, to)
<1>1. PICK p : p = [i \in 0..1 |-> IF i = 0 THEN from ELSE to]
  BY Zenon
<1>2. Len(<<b>>) = 1 /\ <<b>>[1] = b
  OBVIOUS
<1>3. /\ p \in [0..1 -> Nat] /\ p[0] = from /\ p[1] = to
      /\ \A i, j \in 0..1 : i <= j => p[i] <= p[j]
  BY <1>1
<1>4. \A i \in 1..1 : <<b>>[i].entries = Run(p[i - 1], p[i])
  BY <1>2, <1>3
<1>5. Ends(p, <<b>>, from, to)
  BY ONLY <1>2, <1>3, <1>4, Zenon DEF Ends
<1> QED
  BY <1>5 DEF Spans

LEMMA SpansOfOne ==
  ASSUME NEW bs \in Seq(Buffers), Len(bs) = 1, NEW from, NEW to, Spans(bs, from, to)
  PROVE  bs[1].entries = Run(from, to)
<1>1. PICK p : Ends(p, bs, from, to)
  BY DEF Spans
<1> QED
  BY <1>1 DEF Ends

(* Buffers that go on where others end. *)
LEMMA SpansConcat ==
  ASSUME NEW s \in Seq(Buffers), NEW t \in Seq(Buffers), NEW a, NEW b, NEW c,
         Spans(s, a, b), Spans(t, b, c)
  PROVE  Spans(s \o t, a, c)
<1>1. PICK p : Ends(p, s, a, b)
  BY DEF Spans
<1>2. PICK q : Ends(q, t, b, c)
  BY DEF Spans
<1>3. PICK m, n \in Nat : m = Len(s) /\ n = Len(t)
  OBVIOUS
<1>4. /\ Len(s \o t) = m + n
      /\ \A i \in 1..m + n : (s \o t)[i] = IF i <= m THEN s[i] ELSE t[i - m]
  BY <1>3, ConcatProperties, Zenon
<1>5. /\ p \in [0..m -> Nat] /\ p[0] = a /\ p[m] = b
      /\ \A i, j \in 0..m : i <= j => p[i] <= p[j]
      /\ \A i \in 1..m : s[i].entries = Run(p[i - 1], p[i])
  BY <1>1, <1>3, Zenon DEF Ends
<1>6. /\ q \in [0..n -> Nat] /\ q[0] = b /\ q[n] = c
      /\ \A i, j \in 0..n : i <= j => q[i] <= q[j]
      /\ \A i \in 1..n : t[i].entries = Run(q[i - 1], q[i])
  BY <1>2, <1>3, Zenon DEF Ends
<1>7. PICK r : r = [i \in 0..m + n |-> IF i <= m THEN p[i] ELSE q[i - m]]
  BY Zenon
<1>8. \A i \in 0..m : r[i] = p[i]
  BY ONLY <1>7, m \in Nat, n \in Nat
<1>9. \A i \in m..m + n : i - m \in 0..n /\ r[i] = q[i - m]
  BY ONLY <1>5, <1>6, <1>7, m \in Nat, n \in Nat
<1>10. r \in [0..m + n -> Nat] /\ r[0] = a /\ r[m + n] = c
  <2>1. ASSUME NEW i \in 0..m + n PROVE r[i] \in Nat
    <3>1. CASE i \in 0..m
      BY <3>1, <1>5, <1>8
    <3>2. CASE i \in m..m + n
      BY <3>2, <1>6, <1>9
    <3>3. i \in 0..m \/ i \in m..m + n
      BY ONLY i \in 0..m + n, m \in Nat, n \in Nat
    <3> QED
      BY ONLY <3>1, <3>2, <3>3
  <2>2. r \in [0..m + n -> Nat]
    BY ONLY <1>7, <2>1, Zenon
  <2> QED
    BY ONLY <2>2, <1>5, <1>6, <1>8, <1>9, m \in Nat, n \in Nat
<1>11. \A i, j \in 0..m + n : i <= j => r[i] <= r[j]
  <2> SUFFICES ASSUME NEW i \in 0..m + n, NEW j \in 0..m + n, i <= j
               PROVE  r[i] <= r[j]
    OBVIOUS
  <2>1. CASE j <= m
    <3>1. i \in 0..m /\ j \in 0..m
      BY ONLY <2>1, i <= j, i \in 0..m + n, j \in 0..m + n, m \in Nat, n \in Nat
    <3>2. p[i] <= p[j] /\ r[i] = p[i] /\ r[j] = p[j]
      BY ONLY <1>5, <1>8, <3>1, i <= j, Zenon
    <3> QED
      BY ONLY <3>2
  <2>2. CASE i > m
    BY ONLY <2>2, <1>6, <1>9, i <= j, i \in 0..m + n, j \in 0..m + n, m \in Nat, n \in Nat
  <2>3. CASE i <= m /\ j > m
    <3>1. p[i] <= p[m] /\ p[i] \in Nat /\ p[m] = b /\ r[i] = p[i]
      BY ONLY <2>3, <1>5, <1>8, i \in 0..m + n, m \in Nat, n \in Nat
    <3>2. q[0] <= q[j - m] /\ q[j - m] \in Nat /\ q[0] = b /\ r[j] = q[j - m]
      BY ONLY <2>3, <1>6, <1>9, j \in 0..m + n, m \in Nat, n \in Nat
    <3>3. b \in Nat
      BY <1>5
    <3> QED
      BY ONLY <3>1, <3>2, <3>3
  <2>4. j <= m \/ i > m \/ (i <= m /\ j > m)
    BY ONLY i \in 0..m + n, j \in 0..m + n, m \in Nat, n \in Nat
  <2> QED
    BY ONLY <2>1, <2>2, <2>3, <2>4
<1>12. \A i \in 1..m + n : (s \o t)[i].entries = Run(r[i - 1], r[i])
  <2> SUFFICES ASSUME NEW i \in 1..m + n
               PROVE  (s \o t)[i].entries = Run(r[i - 1], r[i])
    BY Zenon
  <2>1. CASE i <= m
    <3>1. i \in 1..m /\ i - 1 \in 0..m /\ i \in 0..m
      BY ONLY <2>1, i \in 1..m + n, m \in Nat, n \in Nat
    <3>2. r[i] = p[i] /\ r[i - 1] = p[i - 1]
      BY ONLY <1>8, <3>1, Zenon
    <3>3. s[i].entries = Run(p[i - 1], p[i])
      BY ONLY <1>5, <3>1, Zenon
    <3>4. (s \o t)[i] = s[i]
      BY ONLY <1>4, <2>1, i \in 1..m + n, Zenon
    <3> QED
      BY ONLY <3>2, <3>3, <3>4, Zenon
  <2>2. CASE i > m
    <3>1. i - m \in 1..n /\ i - 1 \in m..m + n /\ i \in m..m + n
      BY ONLY <2>2, i \in 1..m + n, m \in Nat, n \in Nat
    <3>2. r[i] = q[i - m] /\ r[i - 1] = q[(i - m) - 1]
      BY ONLY <1>9, <3>1, m \in Nat, n \in Nat
    <3>3. t[i - m].entries = Run(q[(i - m) - 1], q[i - m])
      BY ONLY <1>6, <3>1
    <3>4. (s \o t)[i] = t[i - m]
      BY ONLY <1>4, <2>2, i \in 1..m + n, m \in Nat, n \in Nat
    <3> QED
      BY ONLY <3>2, <3>3, <3>4
  <2>3. i <= m \/ i > m
    BY ONLY i \in 1..m + n, m \in Nat, n \in Nat
  <2> QED
    BY ONLY <2>1, <2>2, <2>3, Zenon
<1>13. Ends(r, s \o t, a, c)
  BY ONLY <1>4, <1>10, <1>11, <1>12, Zenon DEF Ends
<1> QED
  BY <1>13 DEF Spans
(* A buffer with one more entry. *)
LEMMA RunAppend ==
  ASSUME NEW a \in Nat, NEW b \in Nat, a <= b
  PROVE  Append(Run(a, b), b + 1) = Run(a, b + 1)
<1>1. Run(a, b) \in Seq(Nat) /\ Len(Run(a, b)) = b - a
  BY RunType
<1>2. Append(Run(a, b), b + 1) = Run(a, b) \o <<b + 1>>
  BY ONLY <1>1, b \in Nat
<1>3. Run(b, b + 1) = <<b + 1>>
  <2>1. Run(b, b + 1) = [j \in 1..1 |-> b + 1]
    BY DEF Run
  <2>2. <<b + 1>> = [j \in 1..1 |-> b + 1]
    OBVIOUS
  <2> QED
    BY ONLY <2>1, <2>2
<1>4. Run(a, b) \o Run(b, b + 1) = Run(a, b + 1)
  <2>1. b + 1 \in Nat /\ b <= b + 1
    OBVIOUS
  <2> QED
    BY ONLY <2>1, a \in Nat, b \in Nat, a <= b, RunConcat, Zenon
<1> QED
  BY <1>2, <1>3, <1>4, Zenon

LEMMA SpansPut ==
  ASSUME NEW b \in Buffers, NEW from \in Nat, NEW to \in Nat, from <= to,
         b.entries = Run(from, to), NEW size, Put(b, to + 1, size) \in Buffers
  PROVE  Spans(<<Put(b, to + 1, size)>>, from, to + 1)
<1>1. Put(b, to + 1, size).entries = Run(from, to + 1)
  BY RunAppend, Zenon DEF Put
<1>2. from <= to + 1 /\ to + 1 \in Nat
  OBVIOUS
<1> QED
  BY ONLY <1>1, <1>2, from \in Nat, Put(b, to + 1, size) \in Buffers, SpansOne

(* The buffers that are left when the first of them has been taken. *)
Left(bs, n) == SubSeq(bs, n + 1, Len(bs))

LEMMA LeftIs ==
  ASSUME NEW bs \in Seq(Buffers), NEW n \in 0..Len(bs)
  PROVE  /\ Left(bs, n) \in Seq(Buffers) /\ Len(Left(bs, n)) = Len(bs) - n
         /\ \A i \in 1..(Len(bs) - n) : Left(bs, n)[i] = bs[n + i]
<1>1. Len(bs) \in Nat
  OBVIOUS
<1>2. /\ SubSeq(bs, n + 1, Len(bs)) \in Seq(Buffers)
      /\ Len(SubSeq(bs, n + 1, Len(bs))) = Len(bs) - n
  BY <1>1
<1>3. ASSUME NEW i \in 1..(Len(bs) - n) PROVE SubSeq(bs, n + 1, Len(bs))[i] = bs[n + i]
  BY <1>1
<1> QED
  BY <1>2, <1>3 DEF Left

LEMMA SpansTakeOne ==
  ASSUME NEW bs \in Seq(Buffers), NEW n \in Nat, n < Len(bs), NEW a, NEW c,
         Spans(Left(bs, n), a, c)
  PROVE  \E b \in Nat : /\ a <= b /\ bs[n + 1].entries = Run(a, b)
                        /\ Spans(Left(bs, n + 1), b, c)
<1>1. PICK k \in Nat : Len(bs) = n + 1 + k
  <2>1. Len(bs) \in Nat
    OBVIOUS
  <2>2. Len(bs) - n - 1 \in Nat /\ Len(bs) = n + 1 + (Len(bs) - n - 1)
    BY <2>1
  <2> QED
    BY <2>2, Zenon
<1>2. /\ Len(Left(bs, n)) = k + 1
      /\ \A i \in 1..k + 1 : Left(bs, n)[i] = bs[n + i]
  <2>1. n \in 0..Len(bs) /\ Len(bs) - n = k + 1
    BY <1>1
  <2> QED
    BY <2>1, LeftIs, Zenon
<1>3. /\ Len(Left(bs, n + 1)) = k
      /\ \A i \in 1..k : Left(bs, n + 1)[i] = bs[n + 1 + i]
  <2>1. n + 1 \in 0..Len(bs) /\ Len(bs) - (n + 1) = k
    BY <1>1
  <2> QED
    BY <2>1, LeftIs, Zenon
<1>4. PICK p : Ends(p, Left(bs, n), a, c)
  BY DEF Spans
<1>5. /\ p \in [0..k + 1 -> Nat] /\ p[0] = a /\ p[k + 1] = c
      /\ \A i, j \in 0..k + 1 : i <= j => p[i] <= p[j]
      /\ \A i \in 1..k + 1 : bs[n + i].entries = Run(p[i - 1], p[i])
  BY <1>2, <1>4, Zenon DEF Ends
<1>6. PICK q : q = [i \in 0..k |-> p[i + 1]]
  BY Zenon
<1>7. /\ q \in [0..k -> Nat] /\ q[0] = p[1] /\ q[k] = c
      /\ \A i, j \in 0..k : i <= j => q[i] <= q[j]
  BY ONLY <1>5, <1>6, k \in Nat
<1>8. ASSUME NEW i \in 1..k PROVE Left(bs, n + 1)[i].entries = Run(q[i - 1], q[i])
  <2>1. i + 1 \in 1..k + 1 /\ (i + 1) - 1 = i /\ n + (i + 1) = n + 1 + i
    BY ONLY i \in 1..k, k \in Nat, n \in Nat
  <2>2. q[i] = p[i + 1] /\ q[i - 1] = p[i]
    BY ONLY <1>6, i \in 1..k, k \in Nat
  <2>3. bs[n + 1 + i].entries = Run(p[i], p[i + 1])
    BY ONLY <1>5, <2>1
  <2> QED
    BY ONLY <1>3, <2>2, <2>3, i \in 1..k, SMTT(30)
<1>9. Ends(q, Left(bs, n + 1), p[1], c)
  BY ONLY <1>3, <1>7, <1>8, Zenon DEF Ends
<1>10. p[1] \in Nat /\ a <= p[1] /\ bs[n + 1].entries = Run(a, p[1])
  BY ONLY <1>5, k \in Nat
<1> QED
  BY <1>9, <1>10, Zenon DEF Spans

(* What such buffers hold, flattened. *)
LEMMA FlattenSpans ==
  ASSUME NEW bs \in Seq(Buffers), NEW a, NEW c, Spans(bs, a, c)
  PROVE  EntriesOf(bs) = Run(a, c)
<1>1. a \in Nat /\ c \in Nat /\ a <= c
  BY SpansBounds
<1>2. PICK n \in Nat : n = Len(bs)
  OBVIOUS
<1>3. PICK p : Ends(p, bs, a, c)
  BY DEF Spans
<1>4. /\ p \in [0..n -> Nat] /\ p[0] = a /\ p[n] = c
      /\ \A i, j \in 0..n : i <= j => p[i] <= p[j]
      /\ \A i \in 1..n : bs[i].entries = Run(p[i - 1], p[i])
  BY <1>2, <1>3 DEF Ends
<1>5. PICK g : g = [i \in 0..n |-> Run(a, p[i])]
  BY Zenon
<1>6. ASSUME NEW i \in 0..n
      PROVE  g[i] = IF i = 0 THEN <<>> ELSE g[i - 1] \o bs[i].entries
  <2>1. g[i] = Run(a, p[i])
    BY ONLY <1>5, i \in 0..n
  <2>2. CASE i = 0
    <3>1. Run(a, a) = <<>>
      BY ONLY <1>1 DEF Run
    <3> QED
      BY ONLY <1>4, <2>1, <2>2, <3>1
  <2>3. CASE i # 0
    <3>1. i - 1 \in 0..n /\ i \in 1..n /\ 0 \in 0..n /\ 0 <= i - 1 /\ i - 1 <= i
      BY ONLY <2>3, i \in 0..n, n \in Nat
    <3>2. /\ p[i - 1] \in Nat /\ p[i] \in Nat /\ a <= p[i - 1]
          /\ p[i - 1] <= p[i]
      BY ONLY <1>4, <3>1, i \in 0..n
    <3>3. Run(a, p[i - 1]) \o Run(p[i - 1], p[i]) = Run(a, p[i])
      BY ONLY <1>1, <3>2, RunConcat, Zenon
    <3>4. g[i - 1] = Run(a, p[i - 1]) /\ bs[i].entries = Run(p[i - 1], p[i])
      BY ONLY <1>4, <1>5, <3>1
    <3> QED
      BY ONLY <2>1, <2>3, <3>3, <3>4
  <2> QED
    BY ONLY <2>2, <2>3
<1>7. Flattens(g, bs, n)
  BY ONLY <1>5, <1>6, Zenon DEF Flattens
<1>8. EntriesOf(bs) = g[n]
  BY ONLY <1>2, <1>7, n \in Nat, FlattenIs, Zenon
<1>9. g[n] = Run(a, c)
  BY ONLY <1>4, <1>5, n \in Nat
<1> QED
  BY ONLY <1>8, <1>9
-----------------------------------------------------------------------------
(* Where the entries are: the file has the first h of them, what the       *)
(* worker has still to write goes on to m, the full buffers to k, and the  *)
(* current buffer has the rest.                                            *)
Handed(h, m, k) ==
  /\ file = Run(0, h)
  /\ Spans(Left(tempBuffers, written), h, m)
  /\ Spans(buffers_, m, k) /\ Spans(cur_buffer_, k, appended)

(* A StopWorker() that found the worker waiting is owed the entries of     *)
(* that moment; the swap that ends the wait takes them.                    *)
Owes(m) ==
  /\ owed \in 0..appended
  /\ spc \in {"notified", "join", "stopped"} /\ wpc # "wait" => owed <= m

LogInv ==
  /\ written \in 0..Len(tempBuffers)
  /\ \E h, m, k \in Nat : Handed(h, m, k) /\ Owes(m)

LEMMA RunNothing == \A a \in Nat : Run(a, a) = <<>>
BY DEF Run

LEMMA EmptySpans == \A a \in Nat : Spans(<<Empty>>, a, a)
<1> SUFFICES ASSUME NEW a \in Nat PROVE Spans(<<Empty>>, a, a)
  OBVIOUS
<1>1. Empty.entries = Run(a, a)
  BY RunNothing DEF Empty
<1>2. a <= a
  OBVIOUS
<1> QED
  BY <1>1, <1>2, EmptyIsBuffer, SpansOne

LEMMA NoneLeft ==
  ASSUME NEW bs \in Seq(Buffers), NEW n, n = Len(bs) PROVE Left(bs, n) = <<>>
<1>1. n \in 0..Len(bs) /\ Len(bs) - n = 0
  OBVIOUS
<1>2. Left(bs, n) \in Seq(Buffers) /\ Len(Left(bs, n)) = 0
  BY <1>1, LeftIs
<1> QED
  BY <1>2

LEMMA OneBuffer ==
  ASSUME NEW bs \in Seq(Buffers), Len(bs) = 1
  PROVE  bs[1] \in Buffers /\ bs = <<bs[1]>>
<1>1. bs[1] \in Buffers
  BY ElementOfSeq
<1>2. <<bs[1]>> \in Seq(Buffers) /\ Len(<<bs[1]>>) = Len(bs)
  BY <1>1
<1>3. \A i \in 1..Len(bs) : bs[i] = <<bs[1]>>[i]
  OBVIOUS
<1>4. bs = <<bs[1]>>
  BY ONLY <1>2, <1>3, bs \in Seq(Buffers), SeqEqual, Zenon
<1> QED
  BY <1>1, <1>4

LEMMA AllLeft ==
  ASSUME NEW bs \in Seq(Buffers) PROVE Left(bs, 0) = bs
BY DEF Left

LEMMA InitLog == Init => LogInv
<1> SUFFICES ASSUME Init PROVE LogInv
  OBVIOUS
<1>1. /\ file = <<>> /\ tempBuffers = <<>> /\ written = 0 /\ buffers_ = <<>>
      /\ cur_buffer_ = <<Empty>> /\ appended = 0 /\ owed = 0
  BY DEF Init
<1>2. written \in 0..Len(tempBuffers) /\ Left(tempBuffers, written) = <<>>
  <2>1. <<>> \in Seq(Buffers) /\ 0 = Len(<<>>)
    OBVIOUS
  <2>2. Left(<<>>, 0) = <<>>
    BY ONLY <2>1, NoneLeft, Zenon
  <2> QED
    BY <1>1, <2>1, <2>2
<1>3. Run(0, 0) = <<>> /\ Spans(<<>>, 0, 0) /\ Spans(<<Empty>>, 0, 0)
  BY RunNothing, SpansNothing, EmptySpans
<1>4. Handed(0, 0, 0) /\ Owes(0)
  BY <1>1, <1>2, <1>3 DEF Handed, Owes
<1> QED
  BY <1>2, <1>4 DEF LogInv

(* A full buffer is moved to the others, or the current one gets longer.   *)
LEMMA LogKeepsLog ==
  ASSUME BufferInv, BufferInv', LogInv, NEW message \in Messages, Log(message)
  PROVE  LogInv'
<1>0. PICK h, m, k \in Nat : Handed(h, m, k) /\ Owes(m)
  BY DEF LogInv
<1>1. UNCHANGED <<tempBuffers, written, file, owed, wpc, spc>>
  <2>1. UNCHANGED <<temps, wpc, spc>>
    BY DEF Log
  <2>2. UNCHANGED <<file, owed>>
    BY DEF Log, AppendEntry, seen
  <2> QED
    BY <2>1, <2>2 DEF temps
<1>2. CASE EntryFails(message)
  <2>1. UNCHANGED <<cur_buffer_, buffers_, appended>>
    BY <1>2 DEF Log, shared, seen
  <2>2. Handed(h, m, k)' /\ Owes(m)'
    BY <1>0, <1>1, <2>1 DEF Handed, Owes
  <2> QED
    BY <2>2, <1>1 DEF LogInv
<1>3. CASE ~EntryFails(message)
  <2> DEFINE size == EntrySize(message)
             cur == cur_buffer_[1]
  <2>1. AppendEntry(size) /\ appended' = appended + 1 /\ appended \in Nat
    BY <1>3, LoggingAssumption DEF Log, AppendEntry, BufferInv
  <2>2. /\ cur_buffer_ \in Seq(Buffers) /\ Len(cur_buffer_) = 1
        /\ buffers_ \in Seq(Buffers) /\ cur_buffer_' \in Seq(Buffers)
    BY DEF BufferInv
  <2>3. cur \in Buffers /\ cur_buffer_ = <<cur>>
    BY <2>2, OneBuffer
  <2>4. k <= appended /\ cur.entries = Run(k, appended)
    BY <1>0, <2>2, SpansBounds, SpansOfOne DEF Handed
  <2>5. Owes(m)'
    <3>1. owed \in 0..appended'
      BY <1>0, <2>1 DEF Owes
    <3> QED
      BY <3>1, <1>0, <1>1 DEF Owes
  <2>6. CASE Fits(size)
    <3>1. cur_buffer_' = <<Put(cur, appended + 1, size)>> /\ UNCHANGED buffers_
      BY <2>1, <2>6 DEF AppendEntry
    <3>2. Put(cur, appended + 1, size) \in Buffers
      BY <3>1, <2>2
    <3>3. Spans(cur_buffer_', k, appended')
      BY <3>1, <3>2, <2>1, <2>3, <2>4, SpansPut
    <3>4. Handed(h, m, k)'
      BY <1>0, <1>1, <3>1, <3>3 DEF Handed
    <3> QED
      BY <3>4, <2>5, <1>1 DEF LogInv
  <2>7. CASE ~Fits(size)
    <3>1. /\ cur_buffer_' = <<Put(Empty, appended + 1, size)>>
          /\ buffers_' = buffers_ \o cur_buffer_
      <4>1. (IF next_buffer_ # <<>> THEN next_buffer_[1] ELSE Empty) = Empty
        BY DEF BufferInv, Spare
      <4>2. cur_buffer_' = <<Put(Empty, appended + 1, size)>>
        BY <4>1, <2>1, <2>7 DEF AppendEntry
      <4>3. buffers_' = Append(buffers_, cur)
        BY <2>1, <2>7 DEF AppendEntry
      <4>4. Append(buffers_, cur) = buffers_ \o <<cur>>
        BY ONLY <2>2, <2>3
      <4> QED
        BY ONLY <4>2, <4>3, <4>4, <2>3, Zenon
    <3>2. Put(Empty, appended + 1, size) \in Buffers
      BY <3>1, <2>2
    <3>3. Empty.entries = Run(appended, appended) /\ appended <= appended
      BY <2>1, RunNothing DEF Empty
    <3>4. Spans(cur_buffer_', appended, appended')
      BY <3>1, <3>2, <3>3, <2>1, EmptyIsBuffer, SpansPut
    <3>5. Spans(buffers_', m, appended)
      BY <3>1, <1>0, <2>2, SpansConcat DEF Handed
    <3>6. PICK n \in Nat : n = appended
      BY <2>1
    <3>7. Handed(h, m, n)'
      BY <1>0, <1>1, <3>4, <3>5, <3>6 DEF Handed
    <3> QED
      BY <3>7, <2>5, <1>1 DEF LogInv
  <2> QED
    BY <2>6, <2>7
<1> QED
  BY <1>2, <1>3
(* What the worker leaves alone while it takes or writes no buffer. *)
LEMMA StaysLogged ==
  ASSUME LogInv, UNCHANGED <<cur_buffer_, buffers_, tempBuffers, written, appended, file>>,
         \A m \in Nat : Owes(m) => Owes(m)'
  PROVE  LogInv'
<1>1. PICK h, m, k \in Nat : Handed(h, m, k) /\ Owes(m)
  BY DEF LogInv
<1>2. Handed(h, m, k)' /\ Owes(m)'
  BY <1>1 DEF Handed
<1> QED
  BY <1>2 DEF LogInv

(* The swap takes all entries; they are written in order. *)
LEMMA SwapKeepsLog ==
  ASSUME BufferInv, BufferInv', LogInv, SwapBuffers PROVE LogInv'
<1>0. PICK h, m, k \in Nat : Handed(h, m, k) /\ Owes(m)
  BY DEF LogInv
<1>1. /\ tempBuffers' = Taken /\ cur_buffer_' = <<Empty>> /\ buffers_' = <<>>
      /\ written' = 0 /\ wpc' = "write" /\ UNCHANGED <<appended, file, owed, spc>>
      /\ tempBuffers = <<>> /\ tempBuffer2 = <<Empty>>
  BY DEF SwapBuffers, TakeBuffers, WaitOver, WorkerAt, BufferInv, seen
<1>2. /\ buffers_ \in Seq(Buffers) /\ cur_buffer_ \in Seq(Buffers)
      /\ <<Empty>> \in Seq(Buffers) /\ tempBuffers' \in Seq(Buffers)
  BY EmptyIsBuffer DEF BufferInv
<1>3. PICK n \in Nat : n = appended /\ owed \in 0..n
  BY <1>0 DEF BufferInv, Owes
<1>4. h = m
  <2>1. written = Len(tempBuffers) /\ tempBuffers \in Seq(Buffers)
    BY <1>1 DEF LogInv, BufferInv
  <2>2. Left(tempBuffers, written) = <<>>
    BY <2>1, NoneLeft
  <2> QED
    BY <1>0, <2>2, SpansOfNothing DEF Handed
<1>5. buffers_ \o cur_buffer_ \in Seq(Buffers) /\ Spans(buffers_ \o cur_buffer_, m, n)
  BY <1>0, <1>2, <1>3, SpansConcat DEF Handed
<1>6. Spans(Taken, m, n)
  <2>1. CASE next_buffer_ = <<>>
    BY <2>1, <1>5 DEF Taken
  <2>2. CASE next_buffer_ # <<>>
    BY <2>2, <1>1, <1>2, <1>5, EmptySpans, SpansConcat, Zenon DEF Taken
  <2> QED
    BY <2>1, <2>2
<1>7. Left(tempBuffers', written') = tempBuffers' /\ written' \in 0..Len(tempBuffers')
  BY <1>1, <1>2, AllLeft
<1>8. Handed(h, n, n)'
  BY <1>0, <1>1, <1>3, <1>4, <1>6, <1>7, SpansNothing, EmptySpans DEF Handed
<1>9. Owes(n)'
  BY <1>1, <1>3 DEF Owes
<1> QED
  BY <1>7, <1>8, <1>9 DEF LogInv

LEMMA WriteKeepsLog ==
  ASSUME BufferInv, LogInv, WriteBuffer PROVE LogInv'
<1>0. PICK h, m, k \in Nat : Handed(h, m, k) /\ Owes(m)
  BY DEF LogInv
<1>1. /\ written < Len(tempBuffers) /\ written' = written + 1
      /\ file' = file \o tempBuffers[written + 1].entries
      /\ UNCHANGED <<cur_buffer_, buffers_, tempBuffers, wpc, spc, appended, owed>>
  BY DEF WriteBuffer, shared
<1>2. tempBuffers \in Seq(Buffers) /\ written \in Nat /\ Len(tempBuffers) \in Nat
  BY DEF BufferInv, LogInv
<1>3. Spans(Left(tempBuffers, written), h, m)
  BY <1>0 DEF Handed
<1>4. PICK b \in Nat : /\ h <= b /\ tempBuffers[written + 1].entries = Run(h, b)
                       /\ Spans(Left(tempBuffers, written + 1), b, m)
  BY <1>1, <1>2, <1>3, SpansTakeOne
<1>5. Run(0, h) \o Run(h, b) = Run(0, b)
  <2>1. 0 \in Nat /\ 0 <= h
    OBVIOUS
  <2> QED
    BY ONLY <2>1, <1>4, h \in Nat, b \in Nat, RunConcat, Zenon
<1>6. file' = Run(0, b)
  BY <1>0, <1>1, <1>4, <1>5, Zenon DEF Handed
<1>7. Handed(b, m, k)'
  BY <1>0, <1>1, <1>4, <1>6, SMTT(30) DEF Handed
<1>8. Owes(m)' /\ written' \in 0..Len(tempBuffers')
  BY <1>0, <1>1, <1>2 DEF Owes
<1> QED
  BY <1>7, <1>8 DEF LogInv

LEMMA RecycleKeepsLog ==
  ASSUME BufferInv, LogInv, Recycle PROVE LogInv'
<1>0. PICK h, m, k \in Nat : Handed(h, m, k) /\ Owes(m)
  BY DEF LogInv
<1>1. /\ written = Len(tempBuffers) /\ tempBuffers' = <<>> /\ written' = 0
      /\ wpc = "write" /\ wpc' = "test"
      /\ UNCHANGED <<cur_buffer_, buffers_, spc, appended, file, owed>>
  BY DEF Recycle, WorkerAt, shared, seen
<1>2. tempBuffers \in Seq(Buffers) /\ <<>> \in Seq(Buffers) /\ Len(<<>>) = 0
  BY DEF BufferInv
<1>3. Left(tempBuffers, written) = <<>> /\ Left(<<>>, 0) = <<>>
  BY <1>1, <1>2, NoneLeft, Zenon
<1>4. Handed(h, m, k)' /\ Owes(m)'
  BY <1>0, <1>1, <1>3 DEF Handed, Owes
<1> QED
  BY <1>1, <1>2, <1>4 DEF LogInv

LEMMA NextKeepsLog ==
  BufferInv /\ BufferInv' /\ LogInv /\ [Next]_vars => LogInv'
<1> SUFFICES ASSUME BufferInv, BufferInv', LogInv, [Next]_vars PROVE LogInv'
  OBVIOUS
<1>1. CASE Begin \/ TestDone \/ Wait \/ Clock \/ ClockSet
  <2>1. /\ UNCHANGED <<cur_buffer_, buffers_, tempBuffers, written, appended, file, owed, spc>>
        /\ wpc' = wpc \/ wpc # "wait"
    BY <1>1 DEF Begin, TestDone, Wait, Clock, ClockSet, WorkerAt, shared, temps, seen
  <2>2. \A m \in Nat : Owes(m) => Owes(m)'
    BY <2>1 DEF Owes
  <2> QED
    BY <2>1, <2>2, StaysLogged
<1>2. CASE StartWorker \/ StartReturns \/ StopWorker \/ SetDone \/ StopReturns
  <2>1. UNCHANGED <<cur_buffer_, buffers_, tempBuffers, written, appended, file>>
    BY <1>2 DEF StartWorker, StartReturns, StopWorker, SetDone, StopReturns,
                Control, shared, temps
  <2>2. \A m \in Nat : Owes(m) => Owes(m)'
    <3>1. CASE StopWorker
      BY <3>1, <2>1 DEF StopWorker, Control, Owes, BufferInv
    <3>2. CASE ~StopWorker
      BY <1>2, <3>2, <2>1 DEF StartWorker, StartReturns, SetDone, StopReturns, Control, Owes
    <3> QED
      BY <3>1, <3>2
  <2> QED
    BY <2>1, <2>2, StaysLogged, SMTT(30)
<1>3. CASE UNCHANGED vars
  <2>1. UNCHANGED <<cur_buffer_, buffers_, tempBuffers, written, appended, file, owed, spc, wpc>>
    BY <1>3 DEF vars, shared, temps, seen
  <2>2. \A m \in Nat : Owes(m) => Owes(m)'
    BY <2>1 DEF Owes
  <2> QED
    BY <2>1, <2>2, StaysLogged
<1> QED
  BY <1>1, <1>2, <1>3, LogKeepsLog, SwapKeepsLog, WriteKeepsLog, RecycleKeepsLog
     DEF Next, Worker
-----------------------------------------------------------------------------
(* The types of the file's state, and of the program counters. *)
FileTypeStep ==
  \/ \E size \in Nat : AppendSlice(size)
  \/ Tick
  \/ \E t \in Times : SetClock(t)
  \/ aborted' = TRUE /\ UNCHANGED <<clock, count, has_written_, dirty, overdue>>
  \/ UNCHANGED fvars

LEMMA NextIsFileTypeStep ==
  BufferInv /\ LogInv /\ [Next]_vars => FileTypeStep
<1> SUFFICES ASSUME BufferInv, LogInv, [Next]_vars PROVE FileTypeStep
  BY ZenonT(30)
<1>1. CASE WriteBuffer
  <2>1. tempBuffers \in Seq(Buffers) /\ written + 1 \in 1..Len(tempBuffers)
    BY <1>1 DEF BufferInv, LogInv, WriteBuffer
  <2>2. tempBuffers[written + 1] \in Buffers
    BY ONLY <2>1, ElementOfSeq
  <2>3. tempBuffers[written + 1].size \in Nat
    BY <2>2, LogEntryAssumption DEF Buffers
  <2> QED
    BY <1>1, <2>3, Zenon DEF FileTypeStep, WriteBuffer
<1>2. CASE Begin \/ TestDone \/ Wait \/ SwapBuffers \/ Recycle
  BY <1>2 DEF FileTypeStep, Begin, TestDone, Wait, SwapBuffers, Recycle
<1>3. CASE Clock \/ ClockSet
  BY <1>3 DEF FileTypeStep, Clock, ClockSet
<1>4. CASE StartWorker \/ StartReturns \/ StopWorker \/ SetDone \/ StopReturns
  BY <1>4 DEF FileTypeStep, StartWorker, StartReturns, StopWorker, SetDone,
              StopReturns, Control
<1>5. ASSUME NEW message \in Messages, Log(message) PROVE FileTypeStep
  BY <1>5 DEF FileTypeStep, Log, AppendEntry
<1>6. CASE UNCHANGED vars
  BY <1>6 DEF FileTypeStep, vars
<1> QED
  BY <1>1, <1>2, <1>3, <1>4, <1>5, <1>6 DEF Next, Worker

LEMMA AppendKeepsFileType ==
  ASSUME FileTypeOK, NEW size \in Nat, AppendSlice(size) PROVE FileTypeOK'
<1> USE LogFileAssumption
<1>0. /\ now \in Int /\ last_roll_ \in Int /\ last_flush_ \in ThisDay
      /\ jumps \in 0..MaxJumps
  BY DEF FileTypeOK, Times, ThisDay
<1>1. ASSUME rollToNewFile, count' \in 0..(kCheckInterval - 1) PROVE FileTypeOK'
  <2>1. aborted' \in BOOLEAN /\ dirty' \in BOOLEAN
    BY <1>1, Zenon DEF rollToNewFile, NewFile
  <2>2. /\ now' = now % kRollPerDay_ /\ last_roll_' = now' /\ last_flush_' = now'
        /\ has_written_' = 0 /\ overdue' = 0 /\ jumps' = jumps
    BY <1>1 DEF rollToNewFile, NewFile
  <2>3. now % kRollPerDay_ \in ThisDay
    BY <1>0 DEF ThisDay
  <2>4. ThisDay \subseteq Times
    BY DEF ThisDay, Times
  <2> QED
    BY <1>0, <1>1, <2>1, <2>2, <2>3, <2>4 DEF FileTypeOK
<1>2. ASSUME NEW flush \in BOOLEAN, Stays(size, flush), ~TooLarge(size),
             flush => ~OtherDay, count' \in 0..(kCheckInterval - 1)
      PROVE  FileTypeOK'
  <2>1. aborted' \in BOOLEAN /\ dirty' \in BOOLEAN
    BY <1>2, Zenon DEF Stays, FileTypeOK
  <2>2. has_written_' \in 0..kRollingSize
    BY <1>2 DEF FileTypeOK, Stays, TooLarge
  <2>3. overdue' \in Nat
    BY <1>2 DEF FileTypeOK, Stays
  <2>4. last_flush_' \in ThisDay
    BY <1>0, <1>2, Zenon DEF Stays, OtherDay
  <2>5. UNCHANGED <<now, last_roll_, jumps>>
    BY <1>2 DEF Stays
  <2> QED
    BY <1>2, <2>1, <2>2, <2>3, <2>4, <2>5 DEF FileTypeOK
<1>3. ~CheckDue => count + 1 \in 0..(kCheckInterval - 1)
  BY DEF FileTypeOK, CheckDue
<1>4. 0 \in 0..(kCheckInterval - 1) /\ count \in 0..(kCheckInterval - 1)
  BY DEF FileTypeOK
<1>5. FlushDue \in BOOLEAN /\ FALSE \in BOOLEAN
  BY <1>0 DEF FlushDue, ThisDay
<1>6. CASE TooLarge(size) /\ rollToNewFile /\ UNCHANGED count
  BY <1>1, <1>4, <1>6
<1>7. CASE ~TooLarge(size) /\ ~CheckDue /\ count' = count + 1 /\ Stays(size, FALSE)
  BY <1>2, <1>3, <1>5, <1>7, Zenon
<1>8. CASE ~TooLarge(size) /\ CheckDue /\ count' = 0 /\ Check(size)
  BY <1>1, <1>2, <1>4, <1>5, <1>8, Zenon DEF Check
<1> QED
  BY <1>6, <1>7, <1>8, Zenon DEF AppendSlice

LEMMA ClockKeepsFileType ==
  ASSUME FileTypeOK, Tick \/ \E t \in Times : SetClock(t) PROVE FileTypeOK'
<1>1. UNCHANGED <<last_roll_, last_flush_, count, has_written_, dirty, aborted, overdue>>
  BY Zenon DEF Tick, SetClock
<1>2. now' \in Times /\ jumps' \in 0..MaxJumps
  <2>1. CASE Tick
    BY <2>1, LogFileAssumption DEF Tick, FileTypeOK, Times
  <2>2. ASSUME NEW t \in Times, SetClock(t) PROVE now' \in Times /\ jumps' \in 0..MaxJumps
    BY <2>2, LogFileAssumption DEF SetClock, FileTypeOK
  <2> QED
    BY <2>1, <2>2
<1> QED
  BY <1>1, <1>2 DEF FileTypeOK

PointTypeOK ==
  /\ FileTypeOK /\ done \in BOOLEAN
  /\ wpc \in {"none", "start", "test", "lock", "wait", "write", "exited"}
  /\ spc \in {"new", "starting", "started", "notified", "join", "stopped"}

LEMMA NextKeepsPoints ==
  BufferInv /\ LogInv /\ PointTypeOK /\ [Next]_vars => PointTypeOK'
<1> SUFFICES ASSUME BufferInv, LogInv, PointTypeOK, [Next]_vars PROVE PointTypeOK'
  OBVIOUS
<1>1. FileTypeOK'
  <2>1. CASE aborted' = TRUE /\ UNCHANGED <<clock, count, has_written_, dirty, overdue>>
    BY <2>1, Zenon DEF PointTypeOK, FileTypeOK, clock
  <2>2. CASE UNCHANGED fvars
    BY <2>2, Zenon DEF PointTypeOK, FileTypeOK, fvars, clock
  <2>3. FileTypeOK
    BY DEF PointTypeOK
  <2> QED
    BY <2>1, <2>2, <2>3, NextIsFileTypeStep, AppendKeepsFileType, ClockKeepsFileType, Zenon
       DEF FileTypeStep
<1>2. done' \in BOOLEAN
  BY Zenon DEF PointTypeOK, Next, vars, Log, Worker, Begin, TestDone, Wait, SwapBuffers,
         WriteBuffer, Recycle, StartWorker, StartReturns, StopWorker, SetDone,
         StopReturns, Clock, ClockSet
<1>3. wpc' \in {"none", "start", "test", "lock", "wait", "write", "exited"}
  BY SMTT(30) DEF PointTypeOK, Next, vars, Log, Worker, Begin, TestDone, Wait, SwapBuffers,
         TakeBuffers, WriteBuffer, Recycle, StartWorker, StartReturns, StopWorker,
         SetDone, StopReturns, Clock, ClockSet
<1>4. spc' \in {"new", "starting", "started", "notified", "join", "stopped"}
  BY DEF PointTypeOK, Next, vars, Log, Worker, Begin, TestDone, Wait, SwapBuffers,
         WriteBuffer, Recycle, StartWorker, StartReturns, StopWorker, SetDone,
         StopReturns, Control, Clock, ClockSet
<1> QED
  BY <1>1, <1>2, <1>3, <1>4 DEF PointTypeOK
-----------------------------------------------------------------------------
AllInv == BufferInv /\ LogInv /\ PointTypeOK

LEMMA InitAll == Init => AllInv
<1> SUFFICES ASSUME Init PROVE PointTypeOK
  BY InitBuffers, InitLog DEF AllInv
<1>1. dirty \in BOOLEAN /\ aborted \in BOOLEAN /\ done \in BOOLEAN
  BY Zenon DEF Init, FileInit
<1>2. now \in ThisDay /\ now \in Times /\ last_roll_ = now /\ last_flush_ = now
  BY LogFileAssumption DEF Init, FileInit, ThisDay, Times
<1> QED
  BY <1>1, <1>2, LogFileAssumption DEF Init, FileInit, PointTypeOK, FileTypeOK

LEMMA NextKeepsAll == AllInv /\ [Next]_vars => AllInv'
BY NextKeepsBuffers, NextKeepsLog, NextKeepsPoints DEF AllInv

LEMMA FileIsPrefix ==
  ASSUME AllInv
  PROVE  /\ file \in Seq(1..MaxEntries)
         /\ \E h, m, k \in Nat : /\ Handed(h, m, k) /\ Owes(m) /\ Len(file) = h
                                 /\ h <= m /\ m <= k /\ k <= appended
<1>1. PICK h, m, k \in Nat : Handed(h, m, k) /\ Owes(m)
  BY DEF AllInv, LogInv
<1>2. /\ Left(tempBuffers, written) \in Seq(Buffers) /\ buffers_ \in Seq(Buffers)
      /\ cur_buffer_ \in Seq(Buffers) /\ appended \in 0..MaxEntries
  BY LeftIs DEF AllInv, BufferInv, LogInv
<1>3. h <= m /\ m <= k /\ k <= appended
  <2>1. h <= m
    BY <1>1, <1>2, SpansBounds DEF Handed
  <2>2. m <= k
    BY <1>1, <1>2, SpansBounds DEF Handed
  <2>3. k <= appended
    BY <1>1, <1>2, SpansBounds DEF Handed
  <2> QED
    BY <2>1, <2>2, <2>3
<1>4. file = Run(0, h) /\ h \in 0..MaxEntries
  BY <1>1, <1>2, <1>3, LoggingAssumption DEF Handed
<1>5. Len(file) = h
  BY <1>4, RunType
<1>6. file \in Seq(1..MaxEntries)
  BY <1>4, LoggingAssumption DEF Run
<1> QED
  BY <1>1, <1>3, <1>5, <1>6

LEMMA SpareType == \A p \in Spare : Pointer(p)
<1>1. <<>> \in Seq(Buffers) /\ Len(<<>>) <= 1
  OBVIOUS
<1>2. <<Empty>> \in Seq(Buffers) /\ Len(<<Empty>>) <= 1
  BY EmptyIsBuffer
<1> QED
  BY ONLY <1>1, <1>2, Zenon DEF Spare, Pointer

(* For any entries, buffer sizes, number of logging threads and speed of   *)
(* the worker: the file, what the worker has still to write, the full      *)
(* buffers and the current one hold together every entry once and in the   *)
(* order of the Append() calls.                                            *)
THEOREM LogSafe == Spec => []LogInOrder
<1>1. AllInv => LogInOrder
  <2> SUFFICES ASSUME AllInv PROVE LogInOrder
    OBVIOUS
  <2>1. PICK h, m, k \in Nat : /\ Handed(h, m, k) /\ Owes(m)
                               /\ h <= m /\ m <= k /\ k <= appended
    BY FileIsPrefix
  <2>2. TypeOK
    <3>1. /\ Pointer(cur_buffer_) /\ cur_buffer_ # <<>>
          /\ buffers_ \in Seq(Buffers) /\ tempBuffers \in Seq(Buffers)
      <4>1. cur_buffer_ \in Seq(Buffers) /\ Len(cur_buffer_) = 1
        BY DEF AllInv, BufferInv
      <4>2. Len(cur_buffer_) <= 1 /\ cur_buffer_ # <<>>
        BY ONLY <4>1
      <4> QED
        BY <4>1, <4>2, Zenon DEF AllInv, BufferInv, Pointer
    <3>2. Pointer(next_buffer_) /\ Pointer(tempBuffer1) /\ Pointer(tempBuffer2)
      BY SpareType DEF AllInv, BufferInv
    <3>3. written \in 0..Len(tempBuffers)
      BY DEF AllInv, LogInv
    <3>4. appended \in 0..MaxEntries /\ owed \in 0..MaxEntries
      BY <2>1, LoggingAssumption DEF AllInv, BufferInv, Owes
    <3>5. /\ FileTypeOK /\ done \in BOOLEAN
          /\ wpc \in {"none", "start", "test", "lock", "wait", "write", "exited"}
          /\ spc \in {"new", "starting", "started", "notified", "join", "stopped"}
      BY DEF AllInv, PointTypeOK
    <3> QED
      BY <3>1, <3>2, <3>3, <3>4, <3>5, FileIsPrefix, Zenon DEF TypeOK
  <2>3. PICK rest \in Seq(Buffers) : rest = Left(tempBuffers, written)
    BY LeftIs DEF AllInv, BufferInv, LogInv
  <2>4. /\ buffers_ \in Seq(Buffers) /\ cur_buffer_ \in Seq(Buffers)
        /\ appended \in Nat
    BY LoggingAssumption DEF AllInv, BufferInv
  <2>5. rest \o buffers_ \in Seq(Buffers) /\ Spans(rest \o buffers_, h, k)
    BY <2>1, <2>3, <2>4, SpansConcat DEF Handed
  <2>6. /\ rest \o buffers_ \o cur_buffer_ \in Seq(Buffers)
        /\ Spans(rest \o buffers_ \o cur_buffer_, h, appended)
    <3>1. PICK front \in Seq(Buffers) : front = rest \o buffers_ /\ Spans(front, h, k)
      BY <2>5, Zenon
    <3>2. Spans(cur_buffer_, k, appended)
      BY <2>1 DEF Handed
    <3>3. front \o cur_buffer_ \in Seq(Buffers) /\ Spans(front \o cur_buffer_, h, appended)
      <4>1. Spans(front, h, k) /\ cur_buffer_ \in Seq(Buffers)
        BY ONLY <3>1, <2>4
      <4>2. Spans(front \o cur_buffer_, h, appended)
        BY ONLY <4>1, <3>2, front \in Seq(Buffers), SpansConcat, Zenon
      <4>3. front \o cur_buffer_ \in Seq(Buffers)
        BY ONLY <4>1, front \in Seq(Buffers), ConcatProperties
      <4> QED
        BY ONLY <4>2, <4>3
    <3> QED
      BY ONLY <3>1, <3>3, Zenon
  <2>7. EntriesOf(rest \o buffers_ \o cur_buffer_) = Run(h, appended)
    BY ONLY <2>6, FlattenSpans, Zenon
  <2>8. Run(0, h) \o Run(h, appended) = Run(0, appended)
    <3>1. 0 \in Nat /\ 0 <= h /\ h <= appended
      BY <2>1, <2>4
    <3> QED
      BY ONLY <3>1, <2>4, h \in Nat, RunConcat, Zenon
  <2>9. Run(0, appended) = [i \in 1..appended |-> i]
    BY <2>4 DEF Run
  <2>10. file = Run(0, h)
    BY <2>1 DEF Handed
  <2>11. file \o EntriesOf(rest \o buffers_ \o cur_buffer_) = [i \in 1..appended |-> i]
    BY ONLY <2>7, <2>8, <2>9, <2>10, Zenon
  <2> QED
    BY ONLY <2>2, <2>3, <2>11, Zenon DEF LogInOrder, Left
<1> QED
  BY <1>1, InitAll, NextKeepsAll, PTL DEF Spec

(* However the worker's last rounds and further Append() calls interleave  *)
(* with it: a StopWorker() that found the worker waiting returns after     *)
(* every entry appended before it is in the file.                          *)
THEOREM StopFlushes == Spec => []StopFlushesIfWaiting
<1>1. AllInv => StopFlushesIfWaiting
  <2> SUFFICES ASSUME AllInv, spc = "stopped" PROVE Len(file) >= owed
    BY DEF StopFlushesIfWaiting
  <2>1. PICK h, m, k \in Nat : Handed(h, m, k) /\ Owes(m) /\ Len(file) = h
    BY FileIsPrefix
  <2>2. wpc \in {"none", "exited"} /\ tempBuffers = <<>>
    BY DEF AllInv, BufferInv
  <2>3. owed <= m /\ owed \in Nat
    BY <2>1, <2>2 DEF Owes, AllInv, BufferInv
  <2>4. h = m
    <3>1. written = Len(tempBuffers) /\ tempBuffers \in Seq(Buffers)
      BY <2>2 DEF AllInv, LogInv, BufferInv
    <3>2. Left(tempBuffers, written) = <<>>
      BY <3>1, NoneLeft
    <3> QED
      BY <2>1, <3>2, SpansOfNothing DEF Handed
  <2> QED
    BY <2>1, <2>3, <2>4
<1> QED
  BY <1>1, InitAll, NextKeepsAll, PTL DEF Spec

-----------------------------------------------------------------------------
(* BuffersHalfFull, without the concatenation. *)
Halves ==
  \A i \in 1..Len(buffers_) :
    buffers_[i].size + (IF i < Len(buffers_) THEN buffers_[i + 1].size
                        ELSE cur_buffer_[1].size) > Capacity

LEMMA LogKeepsHalves ==
  ASSUME BufferInv, Halves, NEW message \in Messages, Log(message) PROVE Halves'
<1>1. CASE EntryFails(message)
  <2>1. UNCHANGED <<buffers_, cur_buffer_>>
    BY <1>1 DEF Log, shared
  <2> QED
    BY <2>1 DEF Halves
<1>2. CASE ~EntryFails(message)
  <2> DEFINE size == EntrySize(message)
             cur == cur_buffer_[1]
  <2>1. size \in Nat /\ AppendEntry(size)
    BY <1>2, LoggingAssumption, LogEntryAssumption DEF EntrySize, Log
  <2>2. cur \in Buffers /\ buffers_ \in Seq(Buffers)
    BY OneBuffer DEF BufferInv
  <2>3. PICK n \in Nat : n = Len(buffers_)
    BY <2>2
  <2>4. cur.size \in Nat /\ \A i \in 1..n : buffers_[i].size \in Nat
    <3>1. \A b \in Buffers : b.size \in Nat
      BY LogEntryAssumption DEF Buffers
    <3>2. \A i \in 1..n : buffers_[i] \in Buffers
      BY <2>2, <2>3, ElementOfSeq
    <3> QED
      BY <3>1, <3>2, <2>2
  <2>5. CASE Fits(size)
    <3>1. cur_buffer_' = <<Put(cur, appended', size)>> /\ UNCHANGED buffers_
      BY <2>1, <2>5 DEF AppendEntry
    <3>2. cur_buffer_'[1].size = cur.size + size
      BY <3>1, Zenon DEF Put
    <3> HIDE DEF size
    <3> QED
      BY <2>1, <2>3, <2>4, <3>1, <3>2, LogEntryAssumption, SMTT(30) DEF Halves
  <2>6. CASE ~Fits(size)
    <3>1. /\ cur_buffer_' = <<Put(Empty, appended', size)>>
          /\ buffers_' = Append(buffers_, cur)
      BY <2>1, <2>6 DEF AppendEntry, BufferInv, Spare
    <3>2. cur_buffer_'[1].size = size
      BY <3>1, <2>1 DEF Put, Empty
    <3>3. cur.size + size > Capacity
      BY <2>1, <2>4, <2>6, LogEntryAssumption, SMTT(30) DEF Fits
    <3>4. /\ Len(buffers_') = n + 1 /\ buffers_'[n + 1] = cur
          /\ \A i \in 1..n : buffers_'[i] = buffers_[i]
      BY <3>1, <2>2, <2>3, SMTT(30)
    <3> HIDE DEF size
    <3>5. ASSUME NEW i \in 1..n + 1
          PROVE  buffers_'[i].size + (IF i < n + 1 THEN buffers_'[i + 1].size
                                      ELSE cur_buffer_'[1].size) > Capacity
      <4>1. CASE i = n + 1
        BY <4>1, <3>2, <3>3, <3>4
      <4>2. CASE i = n
        BY <4>2, <2>3, <3>4 DEF Halves
      <4>3. CASE i < n
        <5>1. i \in 1..n /\ i + 1 \in 1..n /\ i < n + 1
          BY <4>3
        <5> QED
          BY <4>3, <5>1, <2>3, <3>4 DEF Halves
      <4>4. i = n + 1 \/ i = n \/ i < n
        OBVIOUS
      <4> QED
        BY <4>1, <4>2, <4>3, <4>4, SMTT(30)
    <3> QED
      BY <3>4, <3>5 DEF Halves
  <2> QED
    BY <2>5, <2>6
<1> QED
  BY <1>1, <1>2

(* For any sizes of entries and buffers, two neighbours of the buffers     *)
(* that wait for the worker never fit into one.                            *)
THEOREM HalfFull == Spec => []BuffersHalfFull
<1>1. Init => Halves
  BY DEF Init, Halves
<1>2. BufferInv /\ Halves /\ [Next]_vars => Halves'
  <2> SUFFICES ASSUME BufferInv, Halves, [Next]_vars PROVE Halves'
    OBVIOUS
  <2>1. CASE UNCHANGED <<buffers_, cur_buffer_>>
    BY <2>1 DEF Halves
  <2>2. CASE SwapBuffers
    BY <2>2, SMTT(30) DEF SwapBuffers, TakeBuffers, Halves
  <2>3. CASE Begin \/ TestDone \/ Wait \/ WriteBuffer \/ Recycle \/ Clock \/ ClockSet
    BY <2>1, <2>3, SMTT(30) DEF Begin, TestDone, Wait, WriteBuffer, Recycle, Clock, ClockSet, shared
  <2>4. CASE StartWorker \/ StartReturns \/ StopWorker \/ SetDone \/ StopReturns
    BY <2>1, <2>4 DEF StartWorker, StartReturns, StopWorker, SetDone, StopReturns,
                      Control, shared
  <2>5. CASE UNCHANGED vars
    BY <2>1, <2>5 DEF vars, shared
  <2> QED
    BY <2>2, <2>3, <2>4, <2>5, LogKeepsHalves DEF Next, Worker
<1>3. BufferInv /\ Halves => BuffersHalfFull
  <2> SUFFICES ASSUME BufferInv, Halves PROVE BuffersHalfFull
    OBVIOUS
  <2>1. PICK n \in Nat : n = Len(buffers_)
    BY DEF BufferInv
  <2>2. PICK waiting : waiting = buffers_ \o cur_buffer_
    BY Zenon
  <2>3. buffers_ \in Seq(Buffers) /\ cur_buffer_ \in Seq(Buffers) /\ Len(cur_buffer_) = 1
    BY DEF BufferInv
  <2>4. /\ Len(waiting) = n + 1 /\ waiting[n + 1] = cur_buffer_[1]
        /\ \A i \in 1..n : waiting[i] = buffers_[i]
    <3>1. /\ Len(waiting) = n + 1
          /\ \A i \in 1..n + 1 :
               waiting[i] = IF i <= n THEN buffers_[i] ELSE cur_buffer_[i - n]
      <4>1. /\ Len(buffers_ \o cur_buffer_) = Len(buffers_) + Len(cur_buffer_)
            /\ \A i \in 1..Len(buffers_) + Len(cur_buffer_) :
                 (buffers_ \o cur_buffer_)[i] =
                   IF i <= Len(buffers_) THEN buffers_[i]
                   ELSE cur_buffer_[i - Len(buffers_)]
        BY <2>3, ConcatProperties, Zenon
      <4> QED
        BY ONLY <4>1, <2>1, <2>2, <2>3, Zenon
    <3> QED
      BY ONLY <3>1, n \in Nat
  <2>5. \A i \in 1..n : waiting[i].size + waiting[i + 1].size > Capacity
    <3> SUFFICES ASSUME NEW i \in 1..n
                 PROVE  waiting[i].size + waiting[i + 1].size > Capacity
      BY Zenon
    <3>1. i < n => i + 1 \in 1..n
      OBVIOUS
    <3>2. CASE i < n
      BY <3>1, <3>2, <2>1, <2>4 DEF Halves
    <3>3. CASE i = n
      BY <3>3, <2>1, <2>4 DEF Halves
    <3> QED
      BY <3>2, <3>3
  <2> QED
    BY <2>2, <2>4, <2>5 DEF BuffersHalfFull
<1> QED
  BY <1>1, <1>2, <1>3, InitBuffers, NextKeepsBuffers, PTL DEF Spec
=============================================================================
