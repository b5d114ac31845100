-------------------------- MODULE TimerQueueProofs --------------------------
(***************************************************************************)
(* Proofs about TimerQueue, for any number of threads and timers, and any  *)
(* delays and intervals: the timerfd is never late for the earliest timer, *)
(* and no timer is lost or doubled.                                        *)
(***************************************************************************)
EXTENDS TimerQueue, SequenceTheorems, FiniteSetTheorems, WellFoundedInduction, TLAPS

LEMMA LeastNatural ==
  ASSUME NEW T, T \subseteq Nat, T # {}
  PROVE  \E m \in T : \A k \in T : m <= k
<1> DEFINE R == OpToRel(<, Nat)
<1>1. IsWellFoundedOn(R, Nat)
  BY NatLessThanWellFounded, Zenon
<1>2. \A k, m \in Nat : <<k, m>> \in R <=> k < m
  BY DEF OpToRel
<1> HIDE DEF R
<1>3. PICK m \in T : \A k \in T : ~(<<k, m>> \in R)
  BY <1>1, WFMin, Zenon
<1>4. \A k \in T : m <= k
  <2> SUFFICES ASSUME NEW k \in T PROVE m <= k
    OBVIOUS
  <2>1. k \in Nat /\ m \in Nat
    OBVIOUS
  <2>2. ~(k < m)
    BY <1>2, <1>3, <2>1, Zenon
  <2> QED
    BY <2>1, <2>2
<1> QED
  BY <1>4

(* The earliest expiration of a set of timers. *)
LEMMA NextExpireIsLeast ==
  ASSUME NEW S, S \subseteq Timers, S # {}
  PROVE  nextExpire(S) \in Nat /\ \A e \in S : nextExpire(S) <= e.when
<1> DEFINE T == {e.when : e \in S}
<1>1. T \subseteq Nat /\ T # {}
  BY DEF Timers
<1>2. \E w \in T : \A e \in S : w <= e.when
  <2> HIDE DEF T
  <2>1. PICK w \in T : \A k \in T : w <= k
    BY <1>1, LeastNatural, Zenon
  <2> QED
    BY <2>1 DEF T
<1>3. nextExpire(S) = CHOOSE w \in T : \A e \in S : w <= e.when
  BY DEF nextExpire
<1> HIDE DEF T
<1>4. nextExpire(S) \in T /\ \A e \in S : nextExpire(S) <= e.when
  BY ONLY <1>2, <1>3, Zenon
<1> QED
  BY <1>1, <1>4, Zenon

(* The timerfd is armed, and no later than it should be for w at time n. *)
InTime(a, n, w) == a # Off /\ a <= IF w - n < MinDelay THEN MinDelay ELSE w - n

AlarmFor(timers) == \A e \in timers : InTime(alarm, now, e.when)

Armed == jumps = 0 /\ pc = "poll" => AlarmFor(timers_)

LEMMA AlarmIs == AlarmInTime <=> TypeOK /\ Armed
BY Zenon DEF AlarmInTime, Armed, AlarmFor, InTime

(* Arming for w is in time for w and everything later. *)
LEMMA ResetInTime ==
  ASSUME NEW w \in Nat, now \in Nat, NEW a, a = howMuchTimeFromNow(w)
  PROVE  /\ a \in Nat
         /\ \A v \in Nat : w <= v => InTime(a, now, v)
BY TimerAssumption DEF howMuchTimeFromNow, InTime, Off

LEMMA LaterInTime ==
  ASSUME NEW a \in Nat \cup {Off}, NEW n \in Nat, NEW w \in Nat, NEW v \in Nat,
         InTime(a, n, w), w <= v
  PROVE  InTime(a, n, v)
BY TimerAssumption DEF InTime, Off

LEMMA AlwaysValid == \A w : valid(w)
BY DEF valid

(* addTimer() of any timer, at any time. *)
LEMMA AddTimerInTime ==
  ASSUME TypeOK, NEW e \in Timers, addTimer(e), UNCHANGED <<now, jumps, pc>>
  PROVE  /\ timers_' \subseteq Timers /\ alarm' \in Nat \cup {Off}
         /\ Armed => Armed'
<1>1. now \in Nat /\ timers_ \subseteq Timers /\ alarm \in Nat \cup {Off} /\ e.when \in Nat
  BY TimerAssumption DEF TypeOK, Timers
<1>2. \A x \in timers_ : x.when \in Nat
  BY <1>1 DEF Timers
<1>3. timers_' = timers_ \cup {e}
  BY DEF addTimer
<1>4. CASE \A x \in timers_ : e.when < x.when
  <2>1. alarm' = howMuchTimeFromNow(e.when)
    BY <1>4, AlwaysValid DEF addTimer, resetTimerfd
  <2>2. alarm' \in Nat /\ \A v \in Nat : e.when <= v => InTime(alarm', now, v)
    BY <1>1, <2>1, ResetInTime
  <2>3. \A x \in timers_' : x.when \in Nat /\ e.when <= x.when
    BY <1>1, <1>2, <1>3, <1>4
  <2>4. \A x \in timers_' : InTime(alarm', now', x.when)
    BY <2>2, <2>3
  <2> QED
    BY <1>1, <1>3, <2>2, <2>4 DEF Armed, AlarmFor
<1>5. CASE ~(\A x \in timers_ : e.when < x.when)
  <2>1. alarm' = alarm
    BY <1>5 DEF addTimer
  <2>2. PICK x \in timers_ : ~(e.when < x.when)
    BY <1>5
  <2>3. x.when <= e.when
    BY <1>1, <1>2, <2>2
  <2>4. AlarmFor(timers_) => InTime(alarm, now, e.when)
    BY <1>1, <1>2, <2>3, LaterInTime DEF AlarmFor
  <2>5. AlarmFor(timers_) => AlarmFor(timers_)'
    BY <1>3, <2>1, <2>4 DEF AlarmFor
  <2> QED
    BY <1>1, <1>3, <2>1, <2>5 DEF Armed
<1> QED
  BY <1>4, <1>5

-----------------------------------------------------------------------------
(* The type invariant in two parts: what the clock and the queue have, and *)
(* what the handling and the calls have.                                   *)
QueueType ==
  /\ now \in 1..MaxTime /\ alarm \in Nat \cup {Off} /\ jumps \in 0..MaxJumps
  /\ timers_ \subseteq Timers

HandlingType ==
  /\ expired \subseteq Timers /\ fired \subseteq Timers
  /\ pc \in {"poll", "fire"} /\ hnow \in 0..MaxTime /\ count \in [Ids -> 0..2]

CallsType ==
  /\ asked \in Seq(Intervals) /\ Len(asked) <= MaxTimers
  /\ functors_ \in Seq([thread : Callers, timer : Timers])
  /\ garbled \subseteq Ids /\ inCall \in [Callers -> 0..MaxTimers]

LEMMA TypeParts == TypeOK <=> QueueType /\ HandlingType /\ CallsType
BY Zenon DEF TypeOK, QueueType, HandlingType, CallsType

LEMMA HandlingUnchanged == HandlingType /\ UNCHANGED handling => HandlingType'
BY DEF HandlingType, handling

LEMMA CallsUnchanged == CallsType /\ UNCHANGED calls => CallsType'
BY DEF CallsType, calls

LEMMA TimerType ==
  ASSUME NEW id \in Ids, NEW when \in Nat, NEW interval \in Intervals
  PROVE  Timer(id, when, interval) \in Timers
BY DEF Timer, Timers

(* A new call gets the next number. *)
LEMMA AskedType ==
  ASSUME CallsType, NEW i \in Intervals, Len(asked) < MaxTimers, asked' = Append(asked, i)
  PROVE  /\ asked' \in Seq(Intervals) /\ Len(asked') = Len(asked) + 1
         /\ Len(asked') <= MaxTimers /\ Len(asked') \in Ids
<1>1. asked \in Seq(Intervals) /\ Len(asked) \in Nat
  BY DEF CallsType
<1>2. asked' \in Seq(Intervals) /\ Len(asked') = Len(asked) + 1
  BY ONLY <1>1, AppendProperties, asked' = Append(asked, i), i \in Intervals
<1> QED
  BY <1>1, <1>2, TimerAssumption DEF Ids

LEMMA AddTimerKeeps ==
  ASSUME TypeOK, Armed, NEW d \in Delays, NEW i \in Intervals, AddTimer(d, i)
  PROVE  TypeOK' /\ Armed'
<1>1. QueueType /\ HandlingType /\ CallsType
  BY TypeParts
<1>2. asked' = Append(asked, i) /\ Len(asked) < MaxTimers
  BY DEF AddTimer
<1>3. /\ asked' \in Seq(Intervals) /\ Len(asked') <= MaxTimers /\ Len(asked') \in Ids
  BY <1>1, <1>2, AskedType
<1>4. now + d \in Nat
  BY <1>1, TimerAssumption DEF QueueType
<1>5. PICK e \in Timers : e = Timer(Len(asked'), now + d, i)
  BY <1>3, <1>4, TimerType
<1>6. addTimer(e) /\ UNCHANGED <<now, jumps, handling, functors_, garbled, inCall>>
  BY <1>5 DEF AddTimer
<1>7. UNCHANGED pc
  BY <1>6 DEF handling
<1>8. timers_' \subseteq Timers /\ alarm' \in Nat \cup {Off} /\ Armed'
  BY <1>6, <1>7, AddTimerInTime
<1>9. QueueType'
  BY <1>1, <1>6, <1>8 DEF QueueType
<1>10. HandlingType'
  BY <1>1, <1>6, HandlingUnchanged
<1>11. CallsType'
  BY <1>1, <1>3, <1>6 DEF CallsType
<1> QED
  BY <1>8, <1>9, <1>10, <1>11, TypeParts, PTL

LEMMA HandleReadKeeps ==
  ASSUME TypeOK, HandleRead
  PROVE  TypeOK' /\ Armed'
<1>1. QueueType /\ HandlingType /\ CallsType
  BY TypeParts
<1>2. QueueType'
  BY <1>1 DEF HandleRead, QueueType
<1>3. HandlingType'
  BY <1>1 DEF HandleRead, QueueType, HandlingType, GetExpired
<1>4. CallsType'
  BY <1>1, CallsUnchanged DEF HandleRead
<1>5. Armed'
  BY DEF HandleRead, Armed
<1> QED
  BY <1>2, <1>3, <1>4, <1>5, TypeParts, PTL

LEMMA FireKeeps ==
  ASSUME TypeOK, NEW e \in expired, Fire(e)
  PROVE  TypeOK' /\ Armed'
<1>1. QueueType /\ HandlingType /\ CallsType
  BY TypeParts
<1>2. QueueType'
  BY <1>1 DEF Fire, QueueType
<1>3. HandlingType'
  <2>1. e \in Timers /\ e.id \in Ids
    BY <1>1 DEF HandlingType, Timers
  <2>2. count' \in [Ids -> 0..2]
    BY <1>1, <2>1 DEF Fire, HandlingType
  <2> QED
    BY <1>1, <2>1, <2>2 DEF Fire, HandlingType
<1>4. CallsType'
  BY <1>1, CallsUnchanged DEF Fire
<1>5. Armed'
  BY DEF Fire, Armed
<1> QED
  BY <1>2, <1>3, <1>4, <1>5, TypeParts, PTL

LEMMA ResetKeeps ==
  ASSUME TypeOK, reset
  PROVE  TypeOK' /\ Armed'
<1>1. QueueType /\ HandlingType /\ CallsType
  BY TypeParts
<1>2. Repeating \subseteq Timers
  <2> SUFFICES ASSUME NEW e \in fired PROVE ReArm(e) \in Timers
    BY DEF Repeating
  <2>1. e.id \in Ids /\ e.interval \in Intervals /\ e.interval \in Nat /\ hnow \in Nat
    <3>1. e \in Timers /\ hnow \in 0..MaxTime
      BY <1>1, Zenon DEF HandlingType
    <3>2. e.id \in Ids /\ e.interval \in Intervals
      BY ONLY <3>1 DEF Timers
    <3>3. e.interval \in Nat
      BY ONLY <3>2, TimerAssumption, Zenon DEF TimerAssumption
    <3> QED
      BY <3>1, <3>2, <3>3, TimerAssumption
  <2> QED
    BY <2>1, TimerType DEF ReArm
<1>3. timers_' \subseteq Timers
  BY <1>1, <1>2 DEF reset, Reset, QueueType
<1>4. now' = now /\ jumps' = jumps /\ now \in Nat
  BY <1>1 DEF reset, Reset, QueueType
<1>5. alarm' = howMuchTimeFromNow(nextExpire(timers_'))
  BY AlwaysValid DEF reset, resetTimerfd
<1>6. QueueType' /\ Armed'
  <2>1. CASE timers_' = {}
    <3>1. nextExpire(timers_') = 0
      BY <2>1 DEF nextExpire
    <3>2. alarm' \in Nat
      BY <1>4, <1>5, <3>1, ResetInTime
    <3>3. QueueType'
      BY <1>1, <1>3, <1>4, <3>2 DEF QueueType
    <3>4. Armed'
      BY <2>1 DEF Armed, AlarmFor
    <3> QED
      BY <3>3, <3>4
  <2>2. CASE timers_' # {}
    <3>1. nextExpire(timers_') \in Nat /\ \A e \in timers_' : nextExpire(timers_') <= e.when
      BY <1>3, <2>2, NextExpireIsLeast
    <3>2. /\ alarm' \in Nat
          /\ \A v \in Nat : nextExpire(timers_') <= v => InTime(alarm', now, v)
      BY <1>4, <1>5, <3>1, ResetInTime
    <3>3. QueueType'
      BY <1>1, <1>3, <1>4, <3>2 DEF QueueType
    <3>4. \A e \in timers_' : e.when \in Nat
      BY <1>3 DEF Timers
    <3>5. \A e \in timers_' : InTime(alarm', now', e.when)
      BY <1>4, <3>1, <3>2, <3>4
    <3>6. Armed'
      BY <3>5 DEF Armed, AlarmFor
    <3> QED
      BY <3>3, <3>6
  <2> QED
    BY <2>1, <2>2
<1>7. HandlingType'
  BY <1>1, TimerAssumption DEF reset, Reset, HandlingType
<1>8. CallsType'
  BY <1>1, CallsUnchanged DEF reset, Reset
<1> QED
  BY <1>6, <1>7, <1>8, TypeParts, PTL

LEMMA RunAddTimerKeeps ==
  ASSUME TypeOK, Armed, RunAddTimer
  PROVE  TypeOK' /\ Armed'
<1> DEFINE Functor == [thread : Callers, timer : Timers]
           f == Head(functors_)
<1>1. QueueType /\ HandlingType /\ CallsType
  BY TypeParts
<1>2. functors_ \in Seq(Functor) /\ functors_ # <<>>
  BY <1>1 DEF CallsType, RunAddTimer
<1>3. f \in Functor /\ Tail(functors_) \in Seq(Functor)
  <2> HIDE DEF Functor
  <2> QED
    BY <1>2, HeadTailProperties
<1>4. f.timer \in Timers /\ f.timer.id \in Ids
  <2>1. f.timer \in Timers
    BY <1>3
  <2> HIDE DEF f
  <2> QED
    BY <2>1 DEF Timers
<1>5. /\ UNCHANGED <<now, jumps, handling, asked, inCall>> /\ functors_' = Tail(functors_)
      /\ \/ addTimer(f.timer) /\ UNCHANGED garbled
         \/ /\ \E when \in 0..MaxTime, interval \in Intervals :
                 addTimer(Timer(f.timer.id, when, interval))
            /\ garbled' = garbled \cup {f.timer.id}
  BY DEF RunAddTimer
<1> HIDE DEF Functor, f
<1>6. \E e \in Timers : addTimer(e)
  <2>1. ASSUME NEW when \in 0..MaxTime, NEW interval \in Intervals
        PROVE  Timer(f.timer.id, when, interval) \in Timers
    BY <1>4, TimerAssumption, TimerType
  <2> QED
    BY <1>4, <1>5, <2>1
<1>7. UNCHANGED pc
  BY <1>5 DEF handling
<1>8. timers_' \subseteq Timers /\ alarm' \in Nat \cup {Off} /\ Armed'
  BY <1>5, <1>6, <1>7, AddTimerInTime
<1>9. QueueType'
  BY <1>1, <1>5, <1>8 DEF QueueType
<1>10. HandlingType'
  BY <1>1, <1>5, HandlingUnchanged
<1>11. CallsType'
  <2>1. garbled' \subseteq Ids
    BY <1>1, <1>4, <1>5 DEF CallsType
  <2> QED
    BY <1>1, <1>3, <1>5, <2>1 DEF CallsType, Functor
<1> QED
  BY <1>8, <1>9, <1>10, <1>11, TypeParts, PTL

LEMMA AddTimerFromKeeps ==
  ASSUME TypeOK, Armed, NEW t \in Callers, NEW d \in Delays, NEW i \in Intervals,
         AddTimerFrom(t, d, i)
  PROVE  TypeOK' /\ Armed'
<1> DEFINE Functor == [thread : Callers, timer : Timers]
           e == Timer(Len(asked'), now + d, i)
           f == [thread |-> t, timer |-> e]
<1>1. QueueType /\ HandlingType /\ CallsType
  BY TypeParts
<1>2. /\ UNCHANGED <<now, alarm, jumps, timers_, handling, garbled>>
      /\ asked' = Append(asked, i) /\ Len(asked) < MaxTimers
      /\ functors_' = Append(functors_, f) /\ inCall' = [inCall EXCEPT ![t] = Len(asked')]
  BY DEF AddTimerFrom
<1>3. asked' \in Seq(Intervals) /\ Len(asked') <= MaxTimers /\ Len(asked') \in Ids
  BY <1>1, <1>2, AskedType
<1>4. now + d \in Nat
  BY <1>1, TimerAssumption DEF QueueType
<1>5. f \in Functor
  <2>1. e \in Timers
    BY <1>3, <1>4, TimerType
  <2> HIDE DEF e
  <2> QED
    BY <2>1
<1>6. functors_' \in Seq(Functor)
  <2> HIDE DEF f
  <2>1. functors_ \in Seq(Functor)
    BY <1>1 DEF CallsType
  <2> HIDE DEF Functor
  <2> QED
    BY <1>2, <1>5, <2>1, AppendProperties
<1>7. QueueType' /\ Armed'
  BY <1>1, <1>2 DEF QueueType, Armed, AlarmFor, handling
<1>8. HandlingType'
  BY <1>1, <1>2, HandlingUnchanged
<1>9. CallsType'
  <2>1. inCall' \in [Callers -> 0..MaxTimers]
    BY <1>1, <1>2, <1>3, TimerAssumption DEF CallsType, Ids
  <2> QED
    BY <1>1, <1>2, <1>3, <1>6, <2>1 DEF CallsType
<1> QED
  BY <1>7, <1>8, <1>9, TypeParts, PTL

LEMMA AddTimerReturnsKeeps ==
  ASSUME TypeOK, Armed, NEW t \in Callers, AddTimerReturns(t)
  PROVE  TypeOK' /\ Armed'
<1>1. QueueType /\ HandlingType /\ CallsType
  BY TypeParts
<1>2. QueueType' /\ Armed'
  BY <1>1 DEF AddTimerReturns, QueueType, Armed, AlarmFor, handling
<1>3. HandlingType'
  BY <1>1, HandlingUnchanged DEF AddTimerReturns
<1>4. CallsType'
  BY <1>1, TimerAssumption DEF AddTimerReturns, CallsType
<1> QED
  BY <1>2, <1>3, <1>4, TypeParts, PTL

(* The timerfd comes closer as fast as the wall clock does. *)
LEMMA TickKeeps ==
  ASSUME TypeOK, Armed, Tick
  PROVE  TypeOK' /\ Armed'
<1>1. QueueType /\ HandlingType /\ CallsType
  BY TypeParts
<1>2. QueueType'
  BY <1>1, TimerAssumption DEF Tick, QueueType, Off
<1>3. HandlingType' /\ CallsType'
  BY <1>1, HandlingUnchanged, CallsUnchanged DEF Tick
<1>4. ASSUME NEW w \in Nat, InTime(alarm, now, w) PROVE InTime(alarm', now', w)
  BY <1>1, <1>4, TimerAssumption DEF Tick, QueueType, InTime, Off
<1>5. \A e \in timers_ : e.when \in Nat
  BY <1>1 DEF QueueType, Timers
<1>6. Armed'
  BY <1>4, <1>5 DEF Tick, Armed, AlarmFor, handling
<1> QED
  BY <1>2, <1>3, <1>6, TypeParts, PTL

LEMMA SetClockKeeps ==
  ASSUME TypeOK, NEW w \in 1..MaxTime, SetClock(w)
  PROVE  TypeOK' /\ Armed'
<1>1. QueueType /\ HandlingType /\ CallsType
  BY TypeParts
<1>2. QueueType'
  BY <1>1, TimerAssumption DEF SetClock, QueueType
<1>3. HandlingType' /\ CallsType'
  BY <1>1, HandlingUnchanged, CallsUnchanged DEF SetClock
<1>4. Armed'
  BY <1>1 DEF SetClock, QueueType, Armed
<1> QED
  BY <1>2, <1>3, <1>4, TypeParts, PTL

-----------------------------------------------------------------------------
LEMMA InitHolds == Init => TypeOK /\ Armed
<1> SUFFICES ASSUME Init PROVE TypeOK /\ Armed
  OBVIOUS
<1>1. QueueType /\ Armed
  BY TimerAssumption DEF Init, QueueType, Armed, AlarmFor
<1>2. HandlingType
  BY TimerAssumption DEF Init, HandlingType
<1>3. CallsType
  BY TimerAssumption, EmptySeq DEF Init, CallsType
<1> QED
  BY <1>1, <1>2, <1>3, TypeParts

LEMMA NextKeeps == TypeOK /\ Armed /\ [Next]_vars => TypeOK' /\ Armed'
<1> SUFFICES ASSUME TypeOK, Armed, [Next]_vars PROVE TypeOK' /\ Armed'
  OBVIOUS
<1>1. CASE LoopThread
  BY <1>1, HandleReadKeeps, FireKeeps, ResetKeeps, RunAddTimerKeeps DEF LoopThread
<1>2. CASE Tick
  BY <1>2, TickKeeps
<1>3. ASSUME NEW d \in Delays, NEW i \in Intervals, AddTimer(d, i) PROVE TypeOK' /\ Armed'
  BY <1>3, AddTimerKeeps
<1>4. ASSUME NEW d \in Delays, NEW i \in Intervals, NEW t \in Callers, AddTimerFrom(t, d, i)
      PROVE  TypeOK' /\ Armed'
  BY <1>4, AddTimerFromKeeps
<1>5. ASSUME NEW t \in Callers, AddTimerReturns(t) PROVE TypeOK' /\ Armed'
  BY <1>5, AddTimerReturnsKeeps
<1>6. ASSUME NEW w \in 1..MaxTime, SetClock(w) PROVE TypeOK' /\ Armed'
  BY <1>6, SetClockKeeps
<1>7. CASE UNCHANGED vars
  <2>1. QueueType /\ HandlingType /\ CallsType
    BY TypeParts
  <2>2. UNCHANGED <<now, alarm, jumps, timers_, handling, calls>>
    BY <1>7 DEF vars
  <2>3. QueueType' /\ Armed'
    BY <2>1, <2>2 DEF QueueType, Armed, AlarmFor, handling
  <2>4. HandlingType' /\ CallsType'
    BY <2>1, <2>2, HandlingUnchanged, CallsUnchanged
  <2> QED
    BY <2>3, <2>4, TypeParts, PTL
<1> QED
  BY <1>1, <1>2, <1>3, <1>4, <1>5, <1>6, <1>7 DEF Next

(* For any timers, threads and clock readings: whenever the loop thread is *)
(* back in poll and the wall clock was not set, the timerfd is armed and   *)
(* expires no later than the earliest timer is due or the least delay is   *)
(* over, whatever addTimer() and reset() have done.                        *)
THEOREM TimerfdInTime == Spec => []AlarmInTime
<1>1. Spec => [](TypeOK /\ Armed)
  BY InitHolds, NextKeeps, PTL DEF Spec
<1> QED
  BY <1>1, AlarmIs, PTL
-----------------------------------------------------------------------------
(* No timer is lost.  Where timers are: waiting, due, fired or queued.     *)
Queued == {functors_[i].timer : i \in DOMAIN functors_}

Known == timers_ \cup expired \cup fired \cup Queued

(* No two of them are the same call's. *)
Apart ==
  /\ timers_ \cap expired = {} /\ timers_ \cap fired = {} /\ expired \cap fired = {}
  /\ Queued \cap (timers_ \cup expired \cup fired) = {}
  /\ \A d, e \in Known : d.id = e.id => d = e

Distinct ==
  \A i, j \in DOMAIN functors_ : functors_[i].timer = functors_[j].timer => i = j

(* Those that the next reset() does not drop. *)
Kept == timers_ \cup expired \cup {e \in fired : e.interval > 0} \cup Queued

(* The timer of call id: it is kept, unless it was a one-shot timer that   *)
(* has fired.                                                              *)
Located(id) ==
  IF asked[id] = 0 /\ count[id] > 0
  THEN count[id] = 1 /\ \A e \in Kept : e.id # id
  ELSE \E e \in Kept : e.id = id

Accounted ==
  /\ \A e \in Known : e.id <= Len(asked) /\ (e.id \notin garbled => e.interval = asked[e.id])
  /\ \A id \in Ids : id > Len(asked) => count[id] = 0
  /\ \A id \in DOMAIN asked \ garbled : Located(id)

Places == /\ Apart /\ Distinct /\ Accounted
          /\ pc = "poll" => expired = {} /\ fired = {}

LEMMA KnownType == TypeOK => Known \subseteq Timers
<1> SUFFICES ASSUME TypeOK PROVE Queued \subseteq Timers
  BY DEF TypeOK, Known
<1> DEFINE Functor == [thread : Callers, timer : Timers]
<1>1. functors_ \in Seq(Functor) /\ \A f \in Functor : f.timer \in Timers
  BY DEF TypeOK
<1> HIDE DEF Functor
<1>2. \A i \in DOMAIN functors_ : functors_[i] \in Functor
  BY <1>1
<1> QED
  BY <1>1, <1>2 DEF Queued

LEMMA QueuedAppend ==
  ASSUME TypeOK, NEW f, f \in [thread : Callers, timer : Timers],
         functors_' = Append(functors_, f)
  PROVE  /\ Queued' = Queued \cup {f.timer}
         /\ Distinct /\ f.timer \notin Queued => Distinct'
<1> DEFINE Functor == [thread : Callers, timer : Timers]
<1>1. functors_ \in Seq(Functor) /\ f \in Functor
  BY DEF TypeOK
<1> HIDE DEF Functor
<1>2. PICK n \in Nat : n = Len(functors_) /\ DOMAIN functors_ = 1..n
  BY <1>1
<1>3. /\ DOMAIN functors_' = 1..n + 1 /\ functors_'[n + 1] = f
      /\ \A i \in 1..n : functors_'[i] = functors_[i]
  BY <1>1, <1>2, AppendProperties
<1>4. 1..n + 1 = (1..n) \cup {n + 1}
  OBVIOUS
<1>5. Queued' = Queued \cup {f.timer}
  BY <1>2, <1>3, <1>4 DEF Queued
<1>6. Distinct /\ f.timer \notin Queued => Distinct'
  BY <1>2, <1>3, <1>4 DEF Queued, Distinct
<1> QED
  BY <1>5, <1>6

LEMMA QueuedTail ==
  ASSUME TypeOK, Distinct, functors_ # <<>>, functors_' = Tail(functors_)
  PROVE  /\ Queued' = Queued \ {Head(functors_).timer} /\ Distinct'
         /\ Head(functors_).timer \in Queued
<1> DEFINE Functor == [thread : Callers, timer : Timers]
<1>1. functors_ \in Seq(Functor)
  BY Zenon DEF TypeOK
<1> HIDE DEF Functor
<1>2. PICK n \in Nat : Len(functors_) = n + 1 /\ DOMAIN functors_ = 1..n + 1
  <2>1. Len(functors_) \in Nat /\ Len(functors_) # 0 /\ DOMAIN functors_ = 1..Len(functors_)
    BY <1>1
  <2>2. Len(functors_) - 1 \in Nat /\ Len(functors_) = (Len(functors_) - 1) + 1
    BY <2>1
  <2> QED
    BY <2>1, <2>2, Zenon
<1>3. /\ DOMAIN functors_' = 1..n /\ Head(functors_) = functors_[1]
      /\ \A i \in 1..n : functors_'[i] = functors_[i + 1]
  BY <1>1, <1>2, HeadTailProperties
<1>4. Queued = {functors_[i].timer : i \in 1..n + 1}
  BY <1>2 DEF Queued
<1>5. Queued' = {functors_[i + 1].timer : i \in 1..n}
  <2>1. Queued' = {functors_'[i].timer : i \in 1..n}
    BY <1>3, Zenon DEF Queued
  <2>2. \A i \in 1..n : functors_'[i].timer = functors_[i + 1].timer
    BY <1>3
  <2> QED
    BY ONLY <2>1, <2>2
<1>6. \A i \in 1..n : i + 1 \in 1..n + 1 /\ i + 1 # 1
  OBVIOUS
<1>7. \A i \in 1..n + 1 : i = 1 \/ (i - 1 \in 1..n /\ (i - 1) + 1 = i)
  OBVIOUS
<1>8. 1 \in 1..n + 1
  OBVIOUS
<1>9. \A i, j \in 1..n + 1 : functors_[i].timer = functors_[j].timer => i = j
  BY <1>2 DEF Distinct
<1>10. Queued' = Queued \ {functors_[1].timer}
  BY ONLY <1>4, <1>5, <1>6, <1>7, <1>8, <1>9
<1>11. Distinct'
  <2> SUFFICES ASSUME NEW i \in 1..n, NEW j \in 1..n, functors_'[i].timer = functors_'[j].timer
               PROVE  i = j
    BY <1>3 DEF Distinct
  <2>1. functors_[i + 1].timer = functors_[j + 1].timer
    BY <1>3
  <2>2. i + 1 = j + 1
    BY <2>1, <1>6, <1>9
  <2> QED
    BY <2>2
<1> QED
  BY <1>3, <1>4, <1>8, <1>10, <1>11

(* Nothing but the clock or a call that returns. *)
LEMMA PlacesUnchanged ==
  ASSUME Places, UNCHANGED <<timers_, handling, asked, functors_, garbled>>
  PROVE  Places'
<1>1. UNCHANGED <<timers_, pc, expired, fired, count, asked, functors_, garbled>>
  BY DEF handling
<1>2. UNCHANGED <<Queued, Known, Kept>>
  BY <1>1 DEF Queued, Known, Kept
<1>3. Apart' /\ Distinct'
  BY <1>1, <1>2 DEF Places, Apart, Distinct
<1>4. Accounted'
  BY <1>1, <1>2 DEF Places, Accounted, Located
<1> QED
  BY <1>1, <1>3, <1>4 DEF Places
(* The timer of a new call, in the queue of timers or of functors. *)
LEMMA NewTimerPlaces ==
  ASSUME TypeOK, Places, NEW i \in Intervals, NEW e \in Timers,
         e.id = Len(asked) + 1, e.interval = i, asked' = Append(asked, i),
         Len(asked) < MaxTimers, UNCHANGED <<expired, fired, count, garbled>>,
         \/ timers_' = timers_ \cup {e} /\ UNCHANGED Queued
         \/ Queued' = Queued \cup {e} /\ UNCHANGED timers_
  PROVE  Apart' /\ Accounted' /\ e \notin Queued
<1>1. PICK n \in Nat : n = Len(asked) /\ DOMAIN asked = 1..n
  BY DEF TypeOK
<1>2. /\ DOMAIN asked' = 1..n + 1 /\ Len(asked') = n + 1 /\ asked'[n + 1] = i
      /\ \A id \in 1..n : asked'[id] = asked[id]
  BY <1>1, AppendProperties DEF TypeOK
<1>3. \A x \in Known : x.id \in 1..n /\ x.id # n + 1
  BY <1>1, KnownType DEF Places, Accounted, Timers, Ids
<1>4. e \notin Known /\ e.id = n + 1
  BY <1>1, <1>3
<1>5. Known' = Known \cup {e}
  BY DEF Known
<1>6. Kept' = Kept \cup {e} /\ Kept \subseteq Known
  BY DEF Kept, Known
<1>7. Apart'
  <2>1. \A c, x \in Known' : c.id = x.id => c = x
    BY <1>3, <1>4, <1>5 DEF Places, Apart
  <2> QED
    BY <2>1, <1>4 DEF Places, Apart, Known
<1>8. Accounted'
  <2>1. \A x \in Known' : x.id <= Len(asked') /\ (x.id \notin garbled' => x.interval = asked'[x.id])
    BY <1>1, <1>2, <1>3, <1>4, <1>5 DEF Places, Accounted
  <2>2. \A id \in Ids : id > Len(asked') => count'[id] = 0
    BY <1>1, <1>2 DEF Places, Accounted, Ids
  <2>3. ASSUME NEW id \in 1..n, id \notin garbled PROVE Located(id)'
    BY <2>3, <1>1, <1>2, <1>4, <1>6 DEF Places, Accounted, Located
  <2>4. Located(n + 1)'
    <3>1. n + 1 \in Ids /\ n + 1 > n
      BY <1>1, TimerAssumption DEF Ids
    <3>2. count'[n + 1] = 0
      BY <1>1, <3>1 DEF Places, Accounted
    <3> QED
      BY <3>2, <1>4, <1>6 DEF Located
  <2>5. 1..n + 1 = (1..n) \cup {n + 1}
    OBVIOUS
  <2> QED
    BY <1>2, <2>1, <2>2, <2>3, <2>4, <2>5, Zenon DEF Accounted
<1> QED
  BY <1>4, <1>7, <1>8 DEF Known

LEMMA AddTimerPlaces ==
  ASSUME TypeOK, Places, NEW d \in Delays, NEW i \in Intervals, AddTimer(d, i)
  PROVE  Places'
<1>1. /\ Len(asked) < MaxTimers /\ asked' = Append(asked, i)
      /\ UNCHANGED <<pc, expired, fired, count, functors_, garbled>>
  BY DEF AddTimer, handling
<1>2. Len(asked') = Len(asked) + 1 /\ Len(asked') \in Ids
  BY <1>1, AskedType, TypeParts
<1>3. now + d \in Nat
  BY TimerAssumption DEF TypeOK
<1>4. PICK e \in Timers : e = Timer(Len(asked'), now + d, i)
  BY <1>2, <1>3, TimerType
<1>5. e.id = Len(asked) + 1 /\ e.interval = i /\ timers_' = timers_ \cup {e}
  BY <1>2, <1>4 DEF Timer, AddTimer, addTimer
<1>6. UNCHANGED Queued /\ Distinct'
  BY <1>1 DEF Queued, Places, Distinct
<1>7. Apart' /\ Accounted'
  BY <1>1, <1>5, <1>6, NewTimerPlaces
<1> QED
  BY <1>1, <1>6, <1>7 DEF Places

LEMMA AddTimerFromPlaces ==
  ASSUME TypeOK, Places, NEW t \in Callers, NEW d \in Delays, NEW i \in Intervals,
         AddTimerFrom(t, d, i)
  PROVE  Places'
<1>1. /\ Len(asked) < MaxTimers /\ asked' = Append(asked, i)
      /\ UNCHANGED <<timers_, pc, expired, fired, count, garbled>>
  BY DEF AddTimerFrom, handling
<1>2. Len(asked') = Len(asked) + 1 /\ Len(asked') \in Ids
  BY <1>1, AskedType, TypeParts
<1>3. now + d \in Nat
  BY TimerAssumption DEF TypeOK
<1>4. PICK e \in Timers : e = Timer(Len(asked'), now + d, i)
  BY <1>2, <1>3, TimerType
<1>5. e.id = Len(asked) + 1 /\ e.interval = i
  BY <1>2, <1>4 DEF Timer
<1>6. PICK f \in [thread : Callers, timer : Timers] :
        f.timer = e /\ functors_' = Append(functors_, f)
  BY <1>4 DEF AddTimerFrom
<1>7. Queued' = Queued \cup {e} /\ (e \notin Queued => Distinct')
  BY <1>6, QueuedAppend DEF Places
<1>8. Apart' /\ Accounted' /\ e \notin Queued
  BY <1>1, <1>5, <1>7, NewTimerPlaces
<1> QED
  BY <1>1, <1>7, <1>8 DEF Places

LEMMA HandleReadPlaces ==
  ASSUME TypeOK, Places, HandleRead PROVE Places'
<1>1. /\ pc' = "fire" /\ expired = {} /\ fired = {} /\ fired' = {}
      /\ expired' \subseteq timers_ /\ timers_' = timers_ \ expired'
      /\ UNCHANGED <<count, asked, functors_, garbled>>
  BY DEF HandleRead, Places, GetExpired, calls
<1>2. UNCHANGED Queued /\ Distinct'
  BY <1>1 DEF Queued, Places, Distinct
<1>3. UNCHANGED <<Known, Kept>>
  BY <1>1, <1>2 DEF Known, Kept
<1>4. Apart'
  BY <1>1, <1>2, <1>3 DEF Places, Apart
<1>5. Accounted'
  BY <1>1, <1>3 DEF Places, Accounted, Located
<1> QED
  BY <1>1, <1>2, <1>4, <1>5 DEF Places

(* A one-shot timer that fires is found nowhere any more, a repeating one  *)
(* among those that go back.                                               *)
LEMMA FirePlaces ==
  ASSUME TypeOK, Places, NEW e \in expired, Fire(e) PROVE Places'
<1>1. /\ pc' = "fire" /\ expired' = expired \ {e} /\ fired' = fired \cup {e}
      /\ count' = [count EXCEPT ![e.id] = IF @ < 2 THEN @ + 1 ELSE @]
      /\ UNCHANGED <<timers_, asked, functors_, garbled>>
  BY DEF Fire, calls
<1>2. UNCHANGED Queued /\ Distinct'
  BY <1>1 DEF Queued, Places, Distinct
<1>3. Known' = Known /\ e \in Known
  BY <1>1, <1>2 DEF Known
<1>4. Kept' = IF e.interval > 0 THEN Kept ELSE Kept \ {e}
  BY <1>1, <1>2 DEF Kept, Places, Apart
<1>5. Apart'
  BY <1>1, <1>2, <1>3 DEF Places, Apart
<1>6. e.id \in Ids /\ e.interval \in Nat /\ count \in [Ids -> 0..2]
  BY KnownType, <1>3, TimerAssumption, Zenon DEF Timers, TypeOK
<1>7. \A x \in Kept : x.id = e.id => x = e
  BY <1>3 DEF Places, Apart, Kept, Known
<1>8. ASSUME NEW id \in DOMAIN asked, id \notin garbled PROVE Located(id)'
  <2>0. id \in Ids /\ Located(id)
    BY <1>8, TimerAssumption DEF Places, Accounted, TypeOK, Ids
  <2>1. CASE id # e.id
    <3>1. count'[id] = count[id]
      BY <2>0, <2>1, <1>1, <1>6
    <3>2. (\E x \in Kept : x.id = id) => (\E x \in Kept' : x.id = id)
      BY <2>1, <1>4
    <3>3. Kept' \subseteq Kept
      BY <1>4
    <3> QED
      BY <2>0, <3>1, <3>2, <3>3, <1>1 DEF Located
  <2>2. CASE id = e.id
    <3>1. e \in Kept /\ e.interval = asked[id]
      BY <2>2, <1>3, <1>8 DEF Kept, Places, Accounted
    <3>2. CASE asked[id] = 0
      <4>1. ~(count[id] > 0)
        BY <2>0, <2>2, <3>1, <3>2 DEF Located
      <4>2. count'[id] = 1
        BY <2>2, <4>1, <1>1, <1>6
      <4>3. \A x \in Kept' : x.id # id
        BY <2>2, <3>1, <3>2, <1>4, <1>7
      <4> QED
        BY <3>2, <4>2, <4>3, <1>1 DEF Located
    <3>3. CASE asked[id] # 0
      <4>1. e \in Kept'
        BY <3>1, <3>3, <1>4, <1>6
      <4> QED
        BY <2>2, <3>3, <4>1, <1>1 DEF Located
    <3> QED
      BY <3>2, <3>3
  <2> QED
    BY <2>1, <2>2
<1>9. \A id \in Ids : id > Len(asked') => count'[id] = 0
  <2>1. e.id <= Len(asked) /\ Len(asked) \in Nat
    BY <1>3 DEF Places, Accounted, TypeOK
  <2> QED
    BY <2>1, <1>1, <1>6 DEF Places, Accounted, Ids
<1>10. Accounted'
  BY <1>1, <1>3, <1>8, <1>9 DEF Places, Accounted
<1> QED
  BY <1>1, <1>2, <1>5, <1>10 DEF Places
(* reset() puts a repeating timer back under its number. *)
LEMMA ResetPlaces ==
  ASSUME TypeOK, Places, reset PROVE Places'
<1>1. /\ expired = {} /\ expired' = {} /\ fired' = {}
      /\ timers_' = timers_ \cup Repeating
      /\ UNCHANGED <<count, asked, functors_, garbled>>
  BY DEF reset, Reset, calls
<1>2. UNCHANGED Queued /\ Distinct'
  BY <1>1 DEF Queued, Places, Distinct
<1>3. \A y \in Repeating :
        \E x \in fired : x.interval > 0 /\ y.id = x.id /\ y.interval = x.interval /\ y = ReArm(x)
  BY DEF Repeating, ReArm, Timer
<1>4. \A x \in fired : x.interval > 0 => ReArm(x) \in Repeating /\ ReArm(x).id = x.id
  BY DEF Repeating, ReArm, Timer
<1>5. /\ Known' = timers_ \cup Repeating \cup Queued
      /\ Kept' = Known'
      /\ Known = timers_ \cup fired \cup Queued
      /\ Kept = timers_ \cup {e \in fired : e.interval > 0} \cup Queued
  BY <1>1, <1>2 DEF Known, Kept
<1>6. \A y \in Repeating, x \in timers_ \cup Queued : y.id # x.id
  BY <1>3, <1>5 DEF Places, Apart
<1>7. Apart'
  <2>1. \A y, z \in Repeating : y.id = z.id => y = z
    BY <1>3, <1>5 DEF Places, Apart
  <2>2. \A y, z \in Known' : y.id = z.id => y = z
    BY <2>1, <1>5, <1>6 DEF Places, Apart
  <2> QED
    BY <2>2, <1>1, <1>2, <1>6 DEF Places, Apart
<1>8. \A y \in Known' : \E x \in Kept : y.id = x.id /\ y.interval = x.interval
  BY <1>3, <1>5
<1>9. \A x \in Kept : \E y \in Kept' : y.id = x.id
  BY <1>4, <1>5
<1>10. Kept \subseteq Known
  BY <1>5
<1>11. Accounted'
  <2>1. \A y \in Known' : y.id <= Len(asked') /\ (y.id \notin garbled' => y.interval = asked'[y.id])
    BY <1>1, <1>8, <1>10 DEF Places, Accounted
  <2>2. ASSUME NEW id, Located(id) PROVE Located(id)'
    BY <2>2, <1>1, <1>5, <1>8, <1>9 DEF Located
  <2> QED
    BY <1>1, <2>1, <2>2 DEF Places, Accounted
<1> QED
  BY <1>1, <1>2, <1>7, <1>11 DEF Places

(* A queued call's timer becomes one of timers_, as it was asked for or    *)
(* garbled.                                                                *)
LEMMA RunAddTimerPlaces ==
  ASSUME TypeOK, Places, RunAddTimer PROVE Places'
<1>1. PICK f : f = Head(functors_).timer
  OBVIOUS
<1>2. /\ UNCHANGED <<pc, expired, fired, count, asked>>
      /\ functors_ # <<>> /\ functors_' = Tail(functors_)
  BY DEF RunAddTimer, handling
<1>3. Queued' = Queued \ {f} /\ f \in Queued /\ Distinct'
  BY <1>1, <1>2, QueuedTail DEF Places
<1>4. PICK e : /\ e.id = f.id /\ timers_' = timers_ \cup {e}
               /\ \/ e = f /\ garbled' = garbled
                  \/ garbled' = garbled \cup {f.id}
  BY <1>1, Zenon DEF RunAddTimer, addTimer, Timer
<1>5. f \in Known /\ f \in Kept /\ Kept \subseteq Known
  BY <1>3 DEF Known, Kept
<1>6. /\ Known' = (Known \ {f}) \cup {e} /\ Kept' = (Kept \ {f}) \cup {e}
  BY <1>2, <1>3, <1>4 DEF Known, Kept, Places, Apart
<1>7. \A x \in Known : x.id = f.id => x = f
  BY <1>5 DEF Places, Apart
<1>8. Apart'
  <2>1. \A c, x \in Known' : c.id = x.id => c = x
    BY <1>4, <1>6, <1>7 DEF Places, Apart
  <2>2. e \notin Known \ {f}
    BY <1>4, <1>7
  <2> QED
    BY <2>1, <2>2, <1>2, <1>3, <1>4 DEF Places, Apart, Known
<1>9. Accounted'
  <2>1. \A x \in Known' : x.id <= Len(asked') /\ (x.id \notin garbled' => x.interval = asked'[x.id])
    BY <1>2, <1>4, <1>5, <1>6 DEF Places, Accounted
  <2>2. ASSUME NEW id \in DOMAIN asked, id \notin garbled' PROVE Located(id)'
    <3>1. Located(id) /\ (id = f.id => e = f)
      BY <2>2, <1>4 DEF Places, Accounted
    <3>2. (\E x \in Kept : x.id = id) <=> (\E x \in Kept' : x.id = id)
      BY <3>1, <1>4, <1>5, <1>6
    <3> QED
      BY <3>1, <3>2, <1>2 DEF Located
  <2> QED
    BY <1>2, <2>1, <2>2 DEF Places, Accounted
<1> QED
  BY <1>2, <1>3, <1>8, <1>9 DEF Places

LEMMA NextPlaces == TypeOK /\ Places /\ [Next]_vars => Places'
<1> SUFFICES ASSUME TypeOK, Places, [Next]_vars PROVE Places'
  OBVIOUS
<1>1. CASE LoopThread
  BY <1>1, HandleReadPlaces, FirePlaces, ResetPlaces, RunAddTimerPlaces DEF LoopThread
<1>2. ASSUME NEW d \in Delays, NEW i \in Intervals, AddTimer(d, i) PROVE Places'
  BY <1>2, AddTimerPlaces
<1>3. ASSUME NEW d \in Delays, NEW i \in Intervals, NEW t \in Callers, AddTimerFrom(t, d, i)
      PROVE  Places'
  BY <1>3, AddTimerFromPlaces
<1>4. ASSUME NEW t \in Callers, AddTimerReturns(t) PROVE Places'
  BY <1>4, PlacesUnchanged DEF AddTimerReturns
<1>5. ASSUME NEW w \in 1..MaxTime, SetClock(w) PROVE Places'
  BY <1>5, PlacesUnchanged DEF SetClock, calls
<1>6. CASE Tick \/ UNCHANGED vars
  BY <1>6, PlacesUnchanged DEF Tick, vars, calls
<1> QED
  BY <1>1, <1>2, <1>3, <1>4, <1>5, <1>6 DEF Next

LEMMA InitPlaces == Init => Places
<1> SUFFICES ASSUME Init PROVE Places
  OBVIOUS
<1>1. /\ timers_ = {} /\ expired = {} /\ fired = {} /\ asked = <<>> /\ functors_ = <<>>
      /\ count = [id \in Ids |-> 0]
  BY DEF Init
<1>2. Queued = {} /\ Known = {} /\ Distinct
  BY <1>1 DEF Queued, Known, Distinct
<1>3. Accounted
  BY <1>1, <1>2 DEF Accounted
<1> QED
  BY <1>1, <1>2, <1>3 DEF Places, Apart

(* For any timers and threads: every timer that was asked for and not      *)
(* garbled is in exactly one place, queued, waiting, due or about to be    *)
(* re-armed, or is a one-shot timer that has fired once, whatever          *)
(* callbacks add timers between GetExpired() and reset().                  *)
THEOREM TimersKept == Spec => []NoTimerLost
<1>1. TypeOK /\ Places => NoTimerLost
  <2> SUFFICES ASSUME TypeOK, Places, NEW id \in DOMAIN asked \ garbled
               PROVE  LET here == {e \in timers_ \cup expired : e.id = id}
                                    \cup {e \in fired : e.id = id /\ e.interval > 0}
                                    \cup {e \in {f.timer : f \in Range(functors_)} : e.id = id}
                      IN  IF asked[id] = 0 /\ count[id] > 0
                          THEN count[id] = 1 /\ here = {}
                          ELSE Cardinality(here) = 1
    BY Zenon DEF NoTimerLost
  <2> DEFINE here == {e \in timers_ \cup expired : e.id = id}
                       \cup {e \in fired : e.id = id /\ e.interval > 0}
                       \cup {e \in {f.timer : f \in Range(functors_)} : e.id = id}
  <2>1. {f.timer : f \in Range(functors_)} = Queued
    BY DEF Queued, Range
  <2>2. here = {e \in Kept : e.id = id}
    BY <2>1 DEF Kept
  <2>3. Located(id)
    BY DEF Places, Accounted
  <2>4. \A d, e \in Kept : d.id = e.id => d = e
    BY DEF Places, Apart, Kept, Known
  <2> HIDE DEF here
  <2>5. asked[id] = 0 /\ count[id] > 0 => count[id] = 1 /\ here = {}
    BY <2>2, <2>3 DEF Located
  <2>6. ~(asked[id] = 0 /\ count[id] > 0) => Cardinality(here) = 1
    <3> SUFFICES ASSUME ~(asked[id] = 0 /\ count[id] > 0) PROVE Cardinality(here) = 1
      OBVIOUS
    <3>1. PICK e \in Kept : e.id = id
      BY <2>3 DEF Located
    <3>2. here = {e}
      BY <2>2, <2>4, <3>1
    <3> QED
      BY <3>2, FS_Singleton
  <2> QED
    BY ONLY <2>5, <2>6, Zenon DEF here
<1>2. Spec => [](TypeOK /\ Armed)
  BY InitHolds, NextKeeps, PTL DEF Spec
<1> QED
  BY <1>1, <1>2, InitPlaces, NextPlaces, PTL DEF Spec
=============================================================================
