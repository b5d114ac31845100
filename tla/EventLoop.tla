----------------------------- MODULE EventLoop -----------------------------
(***************************************************************************)
(* polly::EventLoop (net/eventloop.h, net/eventloop.cc): the thread that   *)
(* runs loop(), and the other threads that hand it work with RunInLoop()   *)
(* and stop it with quit().                                                *)
(*                                                                         *)
(* The loop thread is sequential; its position is lpc:                     *)
(*   "idle"   not inside loop() (before it, or after it returned)          *)
(*   "check"  at the test of while (!quit_)                                *)
(*   "poll"   inside Poller::Poll(-1), blocked until a descriptor is ready *)
(*   "handle" calling HandleEvent() of the active channels                 *)
(*   "swap"   in doPendingFunctors(), about to swap the queue out          *)
(*   "run"    in doPendingFunctors(), running the swapped-out functors     *)
(* Another thread is "out" of the library, or at "wake": it has pushed a   *)
(* functor or set quit_, and has not called wakeup() yet.                  *)
(*                                                                         *)
(* functors_ is only touched under mutex_, so each critical section is one *)
(* step.  A functor is named by the number of the RunInLoop() call that    *)
(* pushed it, counted in the order the pushes took the mutex.              *)
(***************************************************************************)
EXTENDS Naturals, Sequences

CONSTANTS Threads,    \* the threads other than the loop thread
          IoChannels, \* registered channels other than wakeup_channel_
          Wakeup,     \* wakeup_channel_
          MaxEventfd, \* largest value of the eventfd counter
          MaxPosts    \* bound: calls of RunInLoop() from other threads

ASSUME EventLoopAssumption ==
  /\ Wakeup \notin IoChannels
  /\ MaxEventfd \in Nat \ {0}
  /\ MaxPosts \in Nat

VARIABLES lpc, looping_, quit_,
          active_channels_, \* active channels not handled yet
          ready,            \* I/O channels the kernel reports as ready
          wakeup_fd_,       \* counter of the eventfd
          functors_, works, \* the shared queue, and the batch swapped out
          tpc,              \* position of each other thread
          posted,           \* functors pushed so far
          ran               \* functors run so far, in order

vars == <<lpc, looping_, quit_, active_channels_, ready, wakeup_fd_,
          functors_, works, tpc, posted, ran>>

Init ==
  /\ lpc = "idle" /\ looping_ = FALSE /\ quit_ = FALSE
  /\ active_channels_ = {} /\ ready = {} /\ wakeup_fd_ = 0
  /\ functors_ = <<>> /\ works = <<>>
  /\ tpc = [t \in Threads |-> "out"]
  /\ posted = 0 /\ ran = <<>>

-----------------------------------------------------------------------------
(* The wakeup eventfd: a full counter makes the non-blocking write fail,   *)
(* which wakeup() only logs.                                               *)
wakeup ==
  wakeup_fd_' = IF wakeup_fd_ < MaxEventfd THEN wakeup_fd_ + 1 ELSE wakeup_fd_

(* User code run by the loop thread (a channel callback or a functor) may  *)
(* call quit(); its RunInLoop() calls run their argument on the spot.      *)
UserCode ==
  \/ UNCHANGED <<quit_, wakeup_fd_>>
  \/ quit_' = TRUE /\ wakeup

-----------------------------------------------------------------------------
(* The loop thread *)

Loop ==
  /\ lpc = "idle"
  /\ looping_' = TRUE /\ quit_' = FALSE
  /\ lpc' = "check"
  /\ UNCHANGED <<active_channels_, ready, wakeup_fd_, functors_, works, tpc,
                 posted, ran>>

CheckQuit ==
  /\ lpc = "check"
  /\ IF quit_ THEN lpc' = "idle" /\ looping_' = FALSE
              ELSE lpc' = "poll" /\ looping_' = looping_
  /\ UNCHANGED <<quit_, active_channels_, ready, wakeup_fd_, functors_, works,
                 tpc, posted, ran>>

(* The channels poll(2) finds ready: wakeup_channel_ has reading enabled   *)
(* since the constructor.                                                  *)
Readable_NoWakeup == ready

Readable == ready \cup (IF wakeup_fd_ > 0 THEN {Wakeup} ELSE {})

Poll ==
  /\ lpc = "poll"
  /\ Readable # {}
  /\ active_channels_' = Readable
  /\ lpc' = "handle"
  /\ UNCHANGED <<looping_, quit_, ready, wakeup_fd_, functors_, works, tpc,
                 posted, ran>>

(* poll(2) interrupted by a signal: Poll() logs it and returns no channel. *)
PollFailed ==
  /\ lpc = "poll"
  /\ active_channels_' = {}
  /\ lpc' = "handle"
  /\ UNCHANGED <<looping_, quit_, ready, wakeup_fd_, functors_, works, tpc,
                 posted, ran>>

(* wakeup_channel_'s read callback: reading the eventfd clears it. *)
handleRead ==
  /\ lpc = "handle"
  /\ Wakeup \in active_channels_
  /\ active_channels_' = active_channels_ \ {Wakeup}
  /\ wakeup_fd_' = 0
  /\ UNCHANGED <<lpc, looping_, quit_, ready, functors_, works, tpc, posted,
                 ran>>

(* Any other channel's callback: it consumes the readiness or leaves some  *)
(* (poll is level-triggered).                                              *)
HandleEvent(c) ==
  /\ lpc = "handle"
  /\ c \in active_channels_ \cap IoChannels
  /\ active_channels_' = active_channels_ \ {c}
  /\ ready' \in {ready, ready \ {c}}
  /\ UserCode
  /\ UNCHANGED <<lpc, looping_, functors_, works, tpc, posted, ran>>

AllHandled ==
  /\ lpc = "handle"
  /\ active_channels_ = {}
  /\ lpc' = "swap"
  /\ UNCHANGED <<looping_, quit_, active_channels_, ready, wakeup_fd_,
                 functors_, works, tpc, posted, ran>>

SwapFunctors_Copy ==
  /\ lpc = "swap"
  /\ works' = functors_
  /\ lpc' = "run"
  /\ UNCHANGED <<looping_, quit_, active_channels_, ready, wakeup_fd_,
                 functors_, tpc, posted, ran>>

SwapFunctors ==
  /\ lpc = "swap"
  /\ works' = functors_ /\ functors_' = <<>>
  /\ lpc' = "run"
  /\ UNCHANGED <<looping_, quit_, active_channels_, ready, wakeup_fd_, tpc,
                 posted, ran>>

RunFunctor ==
  /\ lpc = "run"
  /\ works # <<>>
  /\ works' = Tail(works) /\ ran' = Append(ran, Head(works))
  /\ UserCode
  /\ UNCHANGED <<lpc, looping_, active_channels_, ready, functors_, tpc,
                 posted>>

BatchDone ==
  /\ lpc = "run"
  /\ works = <<>>
  /\ lpc' = "check"
  /\ UNCHANGED <<looping_, quit_, active_channels_, ready, wakeup_fd_,
                 functors_, works, tpc, posted, ran>>

doPendingFunctors == SwapFunctors \/ RunFunctor \/ BatchDone

LoopThread ==
  \/ CheckQuit \/ Poll \/ handleRead \/ AllHandled \/ doPendingFunctors
  \/ \E c \in IoChannels : HandleEvent(c)

-----------------------------------------------------------------------------
(* The other threads, and the kernel *)

RunInLoop_NoWakeupWhileRunning(t) ==
  /\ tpc[t] = "out"
  /\ posted < MaxPosts
  /\ posted' = posted + 1
  /\ functors_' = Append(functors_, posted')
  /\ tpc' = IF lpc = "run" THEN tpc ELSE [tpc EXCEPT ![t] = "wake"]
  /\ UNCHANGED <<lpc, looping_, quit_, active_channels_, ready, wakeup_fd_,
                 works, ran>>

RunInLoop(t) ==
  /\ tpc[t] = "out"
  /\ posted < MaxPosts
  /\ posted' = posted + 1
  /\ functors_' = Append(functors_, posted')
  /\ tpc' = [tpc EXCEPT ![t] = "wake"]
  /\ UNCHANGED <<lpc, looping_, quit_, active_channels_, ready, wakeup_fd_,
                 works, ran>>

quit_NoWakeup(t) ==
  /\ tpc[t] = "out"
  /\ quit_' = TRUE
  /\ UNCHANGED <<lpc, looping_, active_channels_, ready, wakeup_fd_, functors_,
                 works, tpc, posted, ran>>

quit(t) ==
  /\ tpc[t] = "out"
  /\ quit_' = TRUE
  /\ tpc' = [tpc EXCEPT ![t] = "wake"]
  /\ UNCHANGED <<lpc, looping_, active_channels_, ready, wakeup_fd_, functors_,
                 works, posted, ran>>

WakeupFrom(t) ==
  /\ tpc[t] = "wake"
  /\ wakeup
  /\ tpc' = [tpc EXCEPT ![t] = "out"]
  /\ UNCHANGED <<lpc, looping_, quit_, active_channels_, ready, functors_,
                 works, posted, ran>>

IoReady(c) ==
  /\ c \notin ready
  /\ ready' = ready \cup {c}
  /\ UNCHANGED <<lpc, looping_, quit_, active_channels_, wakeup_fd_, functors_,
                 works, tpc, posted, ran>>

Next ==
  \/ Loop \/ LoopThread \/ PollFailed
  \/ \E t \in Threads : RunInLoop(t) \/ quit(t) \/ WakeupFrom(t)
  \/ \E c \in IoChannels : IoReady(c)

Spec == Init /\ [][Next]_vars

(* The loop thread inside loop() keeps running, and a thread that is       *)
(* between its push (or its store to quit_) and wakeup() goes on.          *)
(* Nothing obliges user code to call anything, the kernel to make I/O      *)
(* ready, or a signal to interrupt poll.                                   *)
FairSpec ==
  /\ Spec
  /\ WF_vars(LoopThread)
  /\ \A t \in Threads : WF_vars(WakeupFrom(t))

-----------------------------------------------------------------------------
(* Properties *)

(* Every variable has the type of the member it models; the eventfd        *)
(* counter stays within its 64-bit range (wakeup() at the limit).          *)
TypeOK ==
  /\ lpc \in {"idle", "check", "poll", "handle", "swap", "run"}
  /\ looping_ \in BOOLEAN /\ quit_ \in BOOLEAN
  /\ active_channels_ \subseteq IoChannels \cup {Wakeup}
  /\ ready \subseteq IoChannels
  /\ wakeup_fd_ \in 0..MaxEventfd
  /\ functors_ \in Seq(Nat) /\ works \in Seq(Nat) /\ ran \in Seq(Nat)
  /\ tpc \in [Threads -> {"out", "wake"}]
  /\ posted \in 0..MaxPosts

(* The loop thread will find the eventfd readable: it is, or a thread that *)
(* has still to call wakeup() makes it so.                                 *)
WakeupComing == wakeup_fd_ > 0 \/ \E t \in Threads : tpc[t] = "wake"

(* No lost wakeup.  Whenever a functor sits in functors_, either the loop  *)
(* thread is on its way to swap the queue out in this iteration, or the    *)
(* next poll cannot block (RunInLoop() pushes before it wakes up, and the  *)
(* eventfd is drained before the queue).  Likewise, a quit() that arrives  *)
(* while poll may block always has its wakeup in the eventfd or coming.    *)
NoLostWakeup ==
  /\ TypeOK
  /\ functors_ # <<>> => lpc \in {"handle", "swap"} \/ WakeupComing
  /\ quit_ /\ lpc = "poll" => WakeupComing

(* RunInLoop() from other threads is a first-in first-out queue: every     *)
(* functor runs at most once and in the order of the pushes, although      *)
(* doPendingFunctors() takes the queue out in batches while new functors   *)
(* arrive.                                                                 *)
Queue == INSTANCE WorkQueue WITH pending <- works \o functors_, done <- ran
ImplementsWorkQueue == Queue!Spec

(* A quit() that arrives while loop() is running makes loop() return, from *)
(* whichever thread it comes and wherever the loop thread is.              *)
QuitStopsLoop == (looping_ /\ quit_) ~> ~looping_

(* A functor pushed by another thread runs, unless loop() returns first:   *)
(* functors_ is not drained on the way out of loop().                      *)
FunctorsRun ==
  \A i \in 1..MaxPosts :
    (looping_ /\ i <= posted) ~> (i <= Len(ran) \/ ~looping_)
=============================================================================
