---------------------------- MODULE AsyncLogging ----------------------------
(***************************************************************************)
(* polly::AsyncLogging (log/async_logging.h, .cc): threads append log      *)
(* entries to a buffer in memory, and a worker thread swaps the buffers    *)
(* out and writes them to its LogFile.  The threads are those that execute *)
(* LOG_ statements, with the Logger destination set to Append().           *)
(*                                                                         *)
(* Everything the threads share is under mutex_, so Append() and the       *)
(* worker's critical section are one step each.  An entry is named by its  *)
(* number in the order of the Append() calls.  A pointer that may be null  *)
(* is a sequence: <<>> is null, <<b>> points to b.                         *)
(*                                                                         *)
(* wpc, the worker: "none", "start", "test" (while (!done)), "lock",       *)
(* "wait" (in wait_for(), mutex_ released), "write", "exited".             *)
(* spc, the thread that starts and stops it: "new", "starting", "started", *)
(* "notified" (StopWorker() has notified, done is not set), "join",        *)
(* "stopped".  It may start the worker again.                              *)
(***************************************************************************)
EXTENDS LogFile, LogEntry, Sequences

CONSTANTS Messages,   \* of LOG_ statements: [bytes : Nat, number : Nat]
          MaxEntries  \* bound: Append() calls

ASSUME LoggingAssumption ==
  /\ \A m \in Messages : m \in [bytes : Nat, number : Nat]
  /\ Overhead > 0 /\ MaxEntries \in Nat

VARIABLES cur_buffer_, next_buffer_, buffers_, done,
          tempBuffer1, tempBuffer2, tempBuffers, \* locals of ThreadFunction()
          written,  \* tempBuffers handed to log_file_ so far
          wpc, spc,
          appended, \* Append() calls so far
          file,     \* entries handed to log_file_
          owed      \* entries appended when StopWorker() found the worker waiting

shared == <<cur_buffer_, next_buffer_, buffers_>>
temps == <<tempBuffer1, tempBuffer2, tempBuffers, written>>
seen == <<appended, file, owed>>
vars == <<shared, done, temps, wpc, spc, seen, fvars>>

Empty == [entries |-> <<>>, size |-> 0]

Init ==
  /\ cur_buffer_ = <<Empty>> /\ next_buffer_ = <<Empty>> /\ buffers_ = <<>>
  /\ done = FALSE
  /\ tempBuffer1 = <<>> /\ tempBuffer2 = <<>> /\ tempBuffers = <<>>
  /\ written = 0
  /\ wpc = "none" /\ spc = "new" /\ appended = 0 /\ file = <<>> /\ owed = 0
  /\ FileInit

-----------------------------------------------------------------------------
(* Any thread *)

Put(b, entry, size) ==
  [entries |-> Append(b.entries, entry), size |-> b.size + size]

Fits_OnlyEmpty(size) == cur_buffer_[1].size = 0
Fits(size) == Capacity - cur_buffer_[1].size >= size

(* AsyncLogging::Append.  Its notify_one() only cuts the worker's wait     *)
(* short, which may end at any time in the model.                          *)
AppendEntry(size) ==
  LET cur   == cur_buffer_[1]
      fresh == IF next_buffer_ # <<>> THEN next_buffer_[1] ELSE Empty
  IN  /\ appended' = appended + 1
      /\ IF Fits(size)
         THEN /\ cur_buffer_' = <<Put(cur, appended', size)>>
              /\ UNCHANGED <<next_buffer_, buffers_>>
         ELSE /\ buffers_' = Append(buffers_, cur)
              /\ cur_buffer_' = <<Put(fresh, appended', size)>>
              /\ next_buffer_' = <<>>
      /\ UNCHANGED <<file, owed, fvars>>

(* A LOG_ statement that gLogLevel lets through.  The Logger's destructor  *)
(* calls Append() with the entry, unless making it failed an assertion.    *)
Log(message) ==
  /\ ~aborted /\ appended < MaxEntries
  /\ IF EntryFails(message)
     THEN aborted' = TRUE /\ UNCHANGED <<shared, seen, clock, count, has_written_,
                                         dirty, overdue>>
     ELSE AppendEntry(EntrySize(message))
  /\ UNCHANGED <<done, temps, wpc, spc>>

-----------------------------------------------------------------------------
(* The worker: ThreadFunction *)

WorkerAt(pc) == ~aborted /\ wpc = pc

Begin ==
  /\ WorkerAt("start")
  /\ wpc' = "test"
  /\ tempBuffer1' = <<Empty>> /\ tempBuffer2' = <<Empty>>
  /\ UNCHANGED <<shared, done, tempBuffers, written, spc, seen, fvars>>

TestDone ==
  /\ WorkerAt("test")
  /\ wpc' = IF done THEN "exited" ELSE "lock"
  /\ UNCHANGED <<shared, done, temps, spc, seen, fvars>>

(* With no full buffer the worker waits first. *)
Wait ==
  /\ WorkerAt("lock") /\ buffers_ = <<>>
  /\ wpc' = "wait"
  /\ UNCHANGED <<shared, done, temps, spc, seen, fvars>>

(* There is a full buffer, or the wait ends: by a notification, the        *)
(* timeout of 3 seconds, or for no reason.                                 *)
WaitOver_FullOnly ==
  /\ WorkerAt("wait") \/ WorkerAt("lock")
  /\ buffers_ # <<>>
WaitOver == WorkerAt("wait") \/ (WorkerAt("lock") /\ buffers_ # <<>>)

(* What the worker takes: the full buffers, cur_buffer_, and tempBuffer2   *)
(* if next_buffer_ does not need it.                                       *)
Taken_CurFirst ==
  cur_buffer_ \o buffers_ \o (IF next_buffer_ = <<>> THEN <<>> ELSE tempBuffer2)
Taken_NoSpare == buffers_ \o cur_buffer_
Taken ==
  buffers_ \o cur_buffer_ \o (IF next_buffer_ = <<>> THEN <<>> ELSE tempBuffer2)

(* The rest of the critical section, and the two pushes to tempBuffers     *)
(* after it.                                                               *)
TakeBuffers ==
  /\ tempBuffers' = Taken
  /\ cur_buffer_' = tempBuffer1
  /\ next_buffer_' = IF next_buffer_ = <<>> THEN tempBuffer2 ELSE next_buffer_
  /\ tempBuffer1' = <<>> /\ tempBuffer2' = <<>> /\ buffers_' = <<>>
  /\ wpc' = "write" /\ written' = 0

SwapBuffers_DoneBreaks ==
  /\ WaitOver
  /\ IF done THEN wpc' = "exited" /\ UNCHANGED <<shared, temps>> ELSE TakeBuffers
  /\ UNCHANGED <<done, spc, seen, fvars>>
SwapBuffers == WaitOver /\ TakeBuffers /\ UNCHANGED <<done, spc, seen, fvars>>

(* log_file_.Append() of the next buffer, also of an empty one. *)
WriteBuffer ==
  /\ WorkerAt("write") /\ written < Len(tempBuffers)
  /\ AppendSlice(tempBuffers[written + 1].size)
  /\ file' = file \o tempBuffers[written + 1].entries
  /\ written' = written + 1
  /\ UNCHANGED <<shared, done, tempBuffer1, tempBuffer2, tempBuffers, wpc, spc,
                 appended, owed>>

(* Two of the written buffers become the new temporaries; the others are   *)
(* freed.  resize(2) makes null pointers of missing buffers.               *)
Recycle ==
  LET Recycled(i) == IF i <= Len(tempBuffers) THEN <<Empty>> ELSE <<>>
  IN  /\ WorkerAt("write") /\ written = Len(tempBuffers)
      /\ tempBuffer1' = Recycled(2) /\ tempBuffer2' = Recycled(1)
      /\ tempBuffers' = <<>> /\ written' = 0
      /\ wpc' = "test"
      /\ UNCHANGED <<shared, done, spc, seen, fvars>>

Worker ==
  Begin \/ TestDone \/ Wait \/ SwapBuffers \/ WriteBuffer \/ Recycle

-----------------------------------------------------------------------------
(* The thread that starts and stops the worker *)

Control(from, to) ==
  /\ ~aborted /\ spc = from /\ spc' = to
  /\ UNCHANGED <<shared, temps, appended, file, fvars>>

(* done is set once and for all: a second worker finds it set. *)
StartWorker ==
  /\ \/ Control("new", "starting")
     \/ Control("stopped", "starting")
  /\ wpc' = "start"
  /\ UNCHANGED <<done, owed>>

(* The promise is set. *)
StartReturns ==
  /\ Control("starting", "started")
  /\ wpc # "start"
  /\ UNCHANGED <<done, wpc, owed>>

(* StopWorker(): notify_one(), the store to done, join(). *)
StopWorker ==
  /\ Control("started", "notified")
  /\ owed' = IF wpc = "wait" THEN appended ELSE 0
  /\ UNCHANGED <<done, wpc>>

SetDone_NoStore == Control("notified", "join") /\ UNCHANGED <<done, wpc, owed>>
SetDone == Control("notified", "join") /\ done' = TRUE /\ UNCHANGED <<wpc, owed>>

StopReturns ==
  /\ Control("join", "stopped")
  /\ wpc = "exited"
  /\ UNCHANGED <<done, wpc, owed>>

Clock == Tick /\ UNCHANGED <<shared, done, temps, wpc, spc, seen>>
ClockSet ==
  (\E t \in Times : SetClock(t)) /\ UNCHANGED <<shared, done, temps, wpc, spc, seen>>

Next ==
  \/ Worker \/ Clock \/ ClockSet
  \/ StartWorker \/ StartReturns \/ StopWorker \/ SetDone \/ StopReturns
  \/ \E message \in Messages : Log(message)

Spec == Init /\ [][Next]_vars

(* Time passes and the worker runs: its wait ends by the timeout if not    *)
(* before.  A thread inside StartWorker() or StopWorker() goes on; nothing *)
(* obliges it to call them.                                                *)
FairSpec ==
  /\ Spec /\ WF_vars(Clock) /\ WF_vars(Worker)
  /\ WF_vars(StartReturns \/ SetDone \/ StopReturns)

-----------------------------------------------------------------------------
(* Properties *)

Buffers == [entries : Seq(1..MaxEntries), size : 0..Capacity]
Pointer(p) == Len(p) <= 1 /\ p \in Seq(Buffers)

(* cur_buffer_ is never null, and no buffer holds more than its capacity   *)
(* (the assertion in FixedBuffer::append).                                 *)
TypeOK ==
  /\ Pointer(cur_buffer_) /\ cur_buffer_ # <<>>
  /\ Pointer(next_buffer_) /\ Pointer(tempBuffer1) /\ Pointer(tempBuffer2)
  /\ buffers_ \in Seq(Buffers) /\ tempBuffers \in Seq(Buffers)
  /\ FileTypeOK /\ written \in 0..Len(tempBuffers) /\ done \in BOOLEAN
  /\ wpc \in {"none", "start", "test", "lock", "wait", "write", "exited"}
  /\ spc \in {"new", "starting", "started", "notified", "join", "stopped"}
  /\ appended \in 0..MaxEntries /\ owed \in 0..MaxEntries
  /\ file \in Seq(1..MaxEntries)

EntriesOf(bs) ==
  LET first[i \in 0..Len(bs)] ==
        IF i = 0 THEN <<>> ELSE first[i - 1] \o bs[i].entries
  IN  first[Len(bs)]

(* The log has every entry once and in order: what the file has got, what  *)
(* the worker has still to write, the full buffers and the current one     *)
(* are together the entries appended so far.  Recycled buffers bring back  *)
(* nothing, and the swap leaves nothing behind.                            *)
LogInOrder ==
  TypeOK /\ file \o EntriesOf(SubSeq(tempBuffers, written + 1, Len(tempBuffers))
                      \o buffers_ \o cur_buffer_)
    = [i \in 1..appended |-> i]

(* The worker always finds two buffers to recycle ("tempBuffers at least   *)
(* have two buffers") and both temporaries are there for the next round:   *)
(* next_buffer_ is null only if a full buffer was pushed.                  *)
TempBuffersPresent ==
  wpc \in {"test", "lock", "wait"} =>
    /\ tempBuffer1 # <<>> /\ tempBuffer2 # <<>> /\ tempBuffers = <<>>
    /\ next_buffer_ = <<>> => buffers_ # <<>>

(* A StopWorker() that finds the worker waiting, as the tests arrange by   *)
(* sleeping before it, leaves no entry appended before it behind.          *)
StopFlushesIfWaiting == spc = "stopped" => Len(file) >= owed

(* Buffers waiting for the worker are not wasted: two neighbours hold more *)
(* together than fits into one, so what a slow worker leaves in memory is  *)
(* at most about twice the bytes logged.                                   *)
BuffersHalfFull ==
  LET waiting == buffers_ \o cur_buffer_
  IN  \A i \in 1..(Len(waiting) - 1) :
        waiting[i].size + waiting[i + 1].size > Capacity

Serving == spc = "started" /\ ~done /\ ~aborted

(* While the first worker is not stopped, every entry gets to the file,    *)
(* also one in a buffer that never fills up.  (The file gets them in       *)
(* order, so it is enough that the last one does once logging pauses,      *)
(* which MaxEntries makes it do.)                                          *)
EntriesWritten ==
  (Len(file) < appended /\ Serving) ~> (Len(file) = appended \/ ~Serving)

(* And it does not stay in stdio's buffer: LogFile only looks at the clock *)
(* when it is called, but the worker hands it at least two buffers a round *)
(* even if nothing is logged, so that it comes to flush what it has.       *)
EntriesFlushed == (dirty /\ Serving) ~> (~dirty \/ ~Serving)

(* StopWorker() returns. *)
StopWorkerReturns == spc = "notified" ~> (spc = "stopped" \/ aborted)

(* As EntriesWritten, for every worker that StartWorker() started:         *)
(* "start distinct thread, write logs to disk file" (async_logging.h:34).  *)
EveryWorkerWrites ==
  \A i \in 1..MaxEntries :
    (i <= appended /\ spc = "started")
      ~> (i <= Len(file) \/ spc # "started" \/ aborted)
=============================================================================
