------------------------------ MODULE LogFile ------------------------------
(***************************************************************************)
(* polly::LogFile and AppendFile (log/log_file.cc, log/file.h, file.cc):   *)
(* the file the log goes to, when it is flushed and when a new one begins. *)
(*                                                                         *)
(* Times are in seconds from start_period_, the midnight before the open   *)
(* file was begun, so that a roll moves the origin: start_period_ is 0.    *)
(* now is the wall clock that time(nullptr) reads, which passes and may be *)
(* set.  Days beyond the next, and those before the last, are told apart   *)
(* by no comparison and are left out.  The real values of the constants    *)
(* are in log_file.h:41-44.                                                *)
(***************************************************************************)
EXTENDS Integers

CONSTANTS kRollingSize, kFlushInterval, kCheckInterval, kRollPerDay_,
          MaxJumps  \* bound: times the wall clock is set

ASSUME LogFileAssumption ==
  /\ kRollingSize \in Nat /\ kFlushInterval \in Nat /\ MaxJumps \in Nat
  /\ kCheckInterval \in Nat \ {0} /\ kRollPerDay_ \in Nat \ {0}

VARIABLES now, last_roll_, last_flush_, jumps,
          count,        \* the static counter in Append()
          has_written_, \* of the open file
          dirty,        \* something written since the last fflush or fclose
          aborted,      \* an assertion failed
          overdue       \* appends in a row that left a roll or a flush undone

clock == <<now, last_roll_, last_flush_, jumps>>
fvars == <<clock, count, has_written_, dirty, aborted, overdue>>

ThisDay == 0..(kRollPerDay_ - 1)
Times == (0 - kRollPerDay_)..(2 * kRollPerDay_ - 1)

(* The constructor's rollToNewFile() compares the time with a last_roll_   *)
(* that was never set: its assertion holds or fails.                       *)
FileInit ==
  /\ now \in ThisDay /\ last_roll_ = now /\ last_flush_ = now /\ jumps = 0
  /\ count = 0 /\ has_written_ = 0 /\ dirty = FALSE
  /\ aborted \in BOOLEAN /\ overdue = 0

-----------------------------------------------------------------------------
(* The new AppendFile starts at 0; closing the old one writes it out. *)
NewFile == has_written_' = 0 /\ dirty' = FALSE /\ overdue' = 0

rollToNewFile ==
  /\ aborted' = ~(now > last_roll_)
  /\ now' = now % kRollPerDay_ /\ last_roll_' = now' /\ last_flush_' = now'
  /\ NewFile /\ UNCHANGED jumps

(* thisPeriod_ != start_period_, and the other test of the check. *)
OtherDay == now \notin ThisDay
FlushDue == now - last_flush_ > kFlushInterval

(* The file stays open after an append of size; flush says whether it is   *)
(* flushed.  AppendFile counts the slice in full even if stdio could not   *)
(* take all of it.                                                         *)
Stays(size, flush) ==
  /\ has_written_' = has_written_ + size
  /\ dirty' = (~flush /\ (dirty \/ size > 0))
  /\ last_flush_' = IF flush THEN now ELSE last_flush_
  /\ overdue' = IF OtherDay \/ (FlushDue /\ ~flush) THEN overdue + 1 ELSE 0
  /\ UNCHANGED <<now, last_roll_, jumps, aborted>>

(* LogFile::Append: too large; or not time for the check yet; or the check. *)
TooLarge(size) == has_written_ + size > kRollingSize

CheckDue == count + 1 >= kCheckInterval

Check_FlushFirst(size) ==
  IF FlushDue \/ ~OtherDay THEN Stays(size, FlushDue) ELSE rollToNewFile
Check(size) == IF OtherDay THEN rollToNewFile ELSE Stays(size, FlushDue)

AppendSlice_SkipEmpty(size) ==
  /\ ~aborted
  /\ \/ size = 0 /\ UNCHANGED fvars
     \/ size > 0 /\ TooLarge(size) /\ rollToNewFile /\ UNCHANGED count
     \/ /\ size > 0 /\ ~TooLarge(size)
        /\ IF CheckDue THEN count' = 0 /\ Check(size)
                       ELSE count' = count + 1 /\ Stays(size, FALSE)

AppendSlice(size) ==
  /\ ~aborted
  /\ \/ TooLarge(size) /\ rollToNewFile /\ UNCHANGED count
     \/ ~TooLarge(size) /\ ~CheckDue /\ count' = count + 1 /\ Stays(size, FALSE)
     \/ ~TooLarge(size) /\ CheckDue /\ count' = 0 /\ Check(size)

(* A second passes; the day after the next is like the next. *)
Tick ==
  /\ ~aborted
  /\ now' = IF now = 2 * kRollPerDay_ - 1 THEN kRollPerDay_ ELSE now + 1
  /\ UNCHANGED <<last_roll_, last_flush_, jumps, count, has_written_, dirty, aborted,
                 overdue>>

(* The wall clock is set back; setting it forward is seconds that pass.    *)
SetClock(t) ==
  /\ ~aborted /\ jumps < MaxJumps /\ t < now
  /\ jumps' = jumps + 1 /\ now' = t
  /\ UNCHANGED <<last_roll_, last_flush_, count, has_written_, dirty, aborted,
                 overdue>>

(* An append to another LogFile: the counter is shared by all of them. *)
AppendElsewhere ==
  /\ ~aborted
  /\ count' = IF CheckDue THEN 0 ELSE count + 1
  /\ UNCHANGED <<clock, has_written_, dirty, aborted, overdue>>

(* One of several LogFiles. *)
SharedSpec ==
  FileInit /\ [][\/ Tick \/ AppendElsewhere
                 \/ \E t \in Times : SetClock(t)
                 \/ \E size \in 0..kRollingSize : AppendSlice(size)]_fvars

-----------------------------------------------------------------------------
(* Properties *)

(* A file begins a new one before it is larger than kRollingSize; the      *)
(* append that passes the limit is its last.                               *)
FileTypeOK ==
  /\ now \in Times /\ last_roll_ \in ThisDay /\ last_flush_ \in ThisDay
  /\ jumps \in 0..MaxJumps
  /\ count \in 0..(kCheckInterval - 1) /\ has_written_ \in 0..kRollingSize
  /\ dirty \in BOOLEAN /\ aborted \in BOOLEAN
  /\ overdue \in Nat

(* Fewer than kCheckInterval calls of Append() in a row leave the file     *)
(* open on another day than it was begun, or unflushed when only a flush   *)
(* is due, whenever the clock moves or is set: it is only looked at every  *)
(* kCheckInterval calls, but size rolls do not reset the counter, and a    *)
(* roll takes the place of a flush.  (Calls, not entries: AsyncLogging     *)
(* passes whole buffers, also empty ones, although log_file.cc:30 says     *)
(* "check per 1024 logs".)                                                 *)
ChecksInTime == overdue < kCheckInterval

(* A roll by Append() comes in a later second than the roll before it (its *)
(* file name would be the same): the assertion at log_file.cc:50.          *)
RollAssertion == [][~aborted']_fvars
=============================================================================
