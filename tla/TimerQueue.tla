----------------------------- MODULE TimerQueue -----------------------------
(***************************************************************************)
(* polly::TimerQueue (net/timer_queue.h, net/timer_queue.cc, util/timer.h, *)
(* util/timestamp.h): timers ordered by expiration and the one timerfd     *)
(* that is armed for the earliest of them.                                 *)
(*                                                                         *)
(* now is the wall clock that Timestamp::now() reads; the timerfd counts   *)
(* on the monotonic clock, so alarm is the time left until it expires:     *)
(* Off when disarmed, 0 when it has expired and is readable.  Both move    *)
(* with Tick; the wall clock may also be set.  MinDelay is the lower bound *)
(* howMuchTimeFromNow() puts on a delay (100 microseconds).                *)
(*                                                                         *)
(* Timers with one key stand next to each other in the multimap; here they *)
(* fire in any order.  Each AddTimer() call gets a number, id.             *)
(***************************************************************************)
EXTENDS Integers, FiniteSets, Sequences, Functions

CONSTANTS Callers,   \* threads other than the loop thread
          Delays,    \* delays asked for, from now
          Intervals, \* repeat intervals asked for, 0 for a one-shot timer
          MinDelay,
          MaxTime,   \* bound: the wall clock stops being told apart here
          MaxTimers, \* bound: AddTimer() calls
          MaxJumps   \* bound: times the wall clock is set

ASSUME TimerAssumption ==
  /\ Delays \subseteq Nat /\ Intervals \subseteq Nat
  /\ MinDelay \in Nat \ {0}
  /\ MaxTime \in Nat \ {0} /\ MaxTimers \in Nat /\ MaxJumps \in Nat

VARIABLES now, alarm, jumps,
          timers_,   \* set of [id, when, interval]
          pc,        \* loop thread: "poll", or "fire" inside HandleRead()
          hnow,      \* the now of HandleRead()
          expired,   \* expired timers that have not fired yet
          fired,     \* expired timers that have
          asked,     \* the interval each AddTimer() call so far asked for
          functors_, \* queued addTimer() calls of other threads
          garbled,   \* timers whose arguments were read after the call returned
          inCall,    \* call each other thread is inside of, 0 if none
          count      \* how often each timer has fired (up to 2)

handling == <<pc, hnow, expired, fired, count>>
calls == <<asked, functors_, garbled, inCall>>
vars == <<now, alarm, jumps, timers_, handling, calls>>

Off == -1
Ids == 1..MaxTimers
Timer(id, when, interval) == [id |-> id, when |-> when, interval |-> interval]

Init ==
  /\ now = 1 /\ alarm = Off /\ jumps = 0
  /\ timers_ = {} /\ pc = "poll" /\ hnow = 0 /\ expired = {} /\ fired = {}
  /\ asked = <<>> /\ functors_ = <<>>
  /\ garbled = {} /\ inCall = [t \in Callers |-> 0]
  /\ count = [id \in Ids |-> 0]

-----------------------------------------------------------------------------
(* Timestamp::valid(): != 0 || != -1. *)
valid(when) == when # 0 \/ when # -1

howMuchTimeFromNow(when) ==
  IF when - now < MinDelay THEN MinDelay ELSE when - now

(* timerfd_settime() also forgets an expiration that was not read. *)
resetTimerfd(when) ==
  alarm' = IF valid(when) THEN howMuchTimeFromNow(when) ELSE alarm

(* The earliest expiration, 0 (a default Timestamp) without timers. *)
nextExpire(timers) ==
  IF timers = {} THEN 0
  ELSE CHOOSE w \in {e.when : e \in timers} : \A e \in timers : w <= e.when

addTimer_IfEmpty(e) ==
  /\ timers_' = timers_ \cup {e}
  /\ IF timers_ = {} THEN resetTimerfd(e.when) ELSE UNCHANGED alarm

addTimer(e) ==
  /\ timers_' = timers_ \cup {e}
  /\ IF \A x \in timers_ : e.when < x.when
     THEN resetTimerfd(e.when)
     ELSE UNCHANGED alarm

-----------------------------------------------------------------------------
(* The loop thread *)

(* RunAt, RunAfter and RunEvery in the loop thread, timer callbacks        *)
(* included: AddTimer() calls addTimer() on the spot.                      *)
AddTimer(delay, interval) ==
  /\ Len(asked) < MaxTimers
  /\ asked' = Append(asked, interval)
  /\ addTimer(Timer(Len(asked'), now + delay, interval))
  /\ UNCHANGED <<now, jumps, handling, functors_, garbled, inCall>>

GetExpired == {e \in timers_ : e.when < now}

(* HandleRead() on a readable timerfd, up to GetExpired(). *)
HandleRead ==
  /\ pc = "poll" /\ alarm = 0
  /\ hnow' = now /\ alarm' = Off
  /\ expired' = GetExpired /\ timers_' = timers_ \ GetExpired
  /\ fired' = {} /\ pc' = "fire"
  /\ UNCHANGED <<now, jumps, count, calls>>

(* The next expired timer's callback. *)
Fire(e) ==
  /\ pc = "fire" /\ e \in expired
  /\ \A x \in expired : e.when <= x.when
  /\ expired' = expired \ {e} /\ fired' = fired \cup {e}
  /\ count' = [count EXCEPT ![e.id] = IF @ < 2 THEN @ + 1 ELSE @]
  /\ UNCHANGED <<now, alarm, jumps, timers_, pc, hnow, calls>>

(* Timer::ReArm() of a repeating timer counts from the now of HandleRead(). *)
ReArm(e) == Timer(e.id, hnow + e.interval, e.interval)

(* reset(): the repeating ones go back, the timerfd is armed again (also   *)
(* when no timer is left, as valid() is always true).                      *)
Reset(kept) ==
  /\ pc = "fire" /\ expired = {}
  /\ timers_' = timers_ \cup kept
  /\ pc' = "poll" /\ fired' = {} /\ hnow' = 0
  /\ UNCHANGED <<now, jumps, expired, count, calls>>

Repeating == {ReArm(e) : e \in {x \in fired : x.interval > 0}}

reset_Forget == Reset({}) /\ resetTimerfd(nextExpire(timers_'))
reset_NoArm == Reset(Repeating) /\ UNCHANGED alarm
reset == Reset(Repeating) /\ resetTimerfd(nextExpire(timers_'))

(* A queued addTimer().  Its functor refers to the arguments of AddTimer() *)
(* in the caller's frame: once the call has returned, what it reads there  *)
(* is arbitrary.                                                           *)
RunAddTimer ==
  /\ pc = "poll" /\ functors_ # <<>>
  /\ LET f == Head(functors_) IN
       \/ /\ inCall[f.thread] = f.timer.id
          /\ addTimer(f.timer) /\ UNCHANGED garbled
       \/ /\ inCall[f.thread] # f.timer.id
          /\ \E when \in 0..MaxTime, interval \in Intervals :
               addTimer(Timer(f.timer.id, when, interval))
          /\ garbled' = garbled \cup {f.timer.id}
  /\ functors_' = Tail(functors_)
  /\ UNCHANGED <<now, jumps, handling, asked, inCall>>

LoopThread == HandleRead \/ (\E e \in expired : Fire(e)) \/ reset \/ RunAddTimer

-----------------------------------------------------------------------------
(* Other threads, and time *)

AddTimerFrom(t, delay, interval) ==
  /\ inCall[t] = 0 /\ Len(asked) < MaxTimers
  /\ asked' = Append(asked, interval)
  /\ functors_' = Append(functors_,
       [thread |-> t, timer |-> Timer(Len(asked'), now + delay, interval)])
  /\ inCall' = [inCall EXCEPT ![t] = Len(asked')]
  /\ UNCHANGED <<now, alarm, jumps, timers_, handling, garbled>>

AddTimerReturns(t) ==
  /\ inCall[t] # 0
  /\ inCall' = [inCall EXCEPT ![t] = 0]
  /\ UNCHANGED <<now, alarm, jumps, timers_, handling, asked, functors_, garbled>>

Tick ==
  /\ now' = IF now < MaxTime THEN now + 1 ELSE now
  /\ alarm' = IF alarm > 0 THEN alarm - 1 ELSE alarm
  /\ UNCHANGED <<jumps, timers_, handling, calls>>

SetClock(w) ==
  /\ jumps < MaxJumps
  /\ jumps' = jumps + 1
  /\ now' = w
  /\ UNCHANGED <<alarm, timers_, handling, calls>>

Next ==
  \/ LoopThread \/ Tick
  \/ \E d \in Delays, i \in Intervals :
       AddTimer(d, i) \/ \E t \in Callers : AddTimerFrom(t, d, i)
  \/ \E t \in Callers : AddTimerReturns(t)
  \/ \E w \in 1..MaxTime : SetClock(w)

Spec == Init /\ [][Next]_vars

(* Time passes and the loop thread runs. *)
FairSpec == Spec /\ WF_vars(LoopThread) /\ WF_vars(Tick)

-----------------------------------------------------------------------------
(* Properties *)

Timers == [id : Ids, when : Nat, interval : Intervals]

(* Every variable has its type; the timerfd is never armed with a negative *)
(* time (which timerfd_settime() refuses).                                 *)
TypeOK ==
  /\ now \in 1..MaxTime /\ alarm \in Nat \cup {Off} /\ jumps \in 0..MaxJumps
  /\ timers_ \subseteq Timers /\ expired \subseteq Timers /\ fired \subseteq Timers
  /\ pc \in {"poll", "fire"} /\ hnow \in 0..MaxTime
  /\ asked \in Seq(Intervals) /\ Len(asked) <= MaxTimers
  /\ functors_ \in Seq([thread : Callers, timer : Timers])
  /\ garbled \subseteq Ids /\ inCall \in [Callers -> 0..MaxTimers]
  /\ count \in [Ids -> 0..2]

(* Whenever the loop thread is back in poll, the timerfd expires no later  *)
(* than the earliest timer is due (or after the least delay, if that is    *)
(* later): neither a timer added in front of the others, nor the re-arming *)
(* of repeating ones, nor a callback that adds timers leaves the timerfd   *)
(* late or off.  (As long as the wall clock has not been set: the timerfd  *)
(* does not follow it.)                                                    *)
AlarmInTime ==
  /\ TypeOK
  /\ jumps = 0 /\ pc = "poll" =>
       \A e \in timers_ :
         /\ alarm # Off
         /\ alarm <= IF e.when - now < MinDelay THEN MinDelay ELSE e.when - now

(* No timer is lost or doubled: each one that AddTimer() was called for is *)
(* queued, waiting, due, or firing in exactly one place, or is a one-shot  *)
(* timer that has fired once.  Timers whose arguments were gone when the   *)
(* functor of AddTimer() read them are not among them.                     *)
NoTimerLost ==
  \A id \in DOMAIN asked \ garbled :
    LET here == {e \in timers_ \cup expired : e.id = id}
                  \cup {e \in fired : e.id = id /\ e.interval > 0}
                  \cup {e \in {f.timer : f \in Range(functors_)} : e.id = id}
    IN  IF asked[id] = 0 /\ count[id] > 0
        THEN count[id] = 1 /\ here = {}
        ELSE Cardinality(here) = 1

(* Every timer in the queue fires, and a repeating one fires again,        *)
(* whatever is added or re-armed meanwhile and however the wall clock is   *)
(* set (up to MaxTime, where the model's clock stops).                     *)
TimersFire ==
  \A id \in Ids, n \in 0..1 :
    (count[id] = n /\ \E e \in timers_ : e.id = id /\ e.when < MaxTime)
      ~> count[id] > n

(* No two timers have one Timestamp: "if @Timestamp already have a timer,  *)
(* add will fail".                                                         *)
TimestampsUnique == \A d, e \in timers_ : d.when = e.when => d = e

(* A timer waits for what it was asked for, from whichever thread:         *)
(* AddTimer() "Must be thread safe".                                       *)
TimersAsAsked == garbled = {}
=============================================================================
