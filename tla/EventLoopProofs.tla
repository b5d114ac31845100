-------------------------- MODULE EventLoopProofs --------------------------
(***************************************************************************)
(* Proofs about EventLoop, for any number of threads, channels and calls:  *)
(* type correctness, no lost wakeup, and the refinement of WorkQueue; and  *)
(* about EventLoopThread: who may find its EventLoop destroyed.            *)
(***************************************************************************)
EXTENDS EventLoopThread, SequenceTheorems, TLAPS

LEMMA InitType == Init => TypeOK
<1> SUFFICES ASSUME Init PROVE TypeOK
  OBVIOUS
<1>1. looping_ \in BOOLEAN /\ quit_ \in BOOLEAN
  BY Zenon DEF Init
<1>2. <<>> \in Seq(Nat)
  OBVIOUS
<1> QED
  BY <1>1, <1>2, EventLoopAssumption DEF Init, TypeOK

(* Each step of the loop thread, of its callers and of the kernel keeps    *)
(* the types.                                                              *)
LEMMA NextKeepsType == TypeOK /\ [Next]_vars => TypeOK'
<1> SUFFICES ASSUME TypeOK, [Next]_vars PROVE TypeOK'
  OBVIOUS
<1> USE EventLoopAssumption DEF TypeOK
<1>1. CASE Loop
  BY <1>1, Zenon DEF Loop
<1>2. CASE CheckQuit
  BY <1>2, Zenon DEF CheckQuit
<1>3. CASE Poll
  BY <1>3 DEF Poll, Readable
<1>4. CASE PollFailed
  BY <1>4 DEF PollFailed
<1>5. CASE handleRead
  BY <1>5 DEF handleRead
<1>6. ASSUME NEW c \in IoChannels, HandleEvent(c) PROVE TypeOK'
  <2>1. quit_' \in BOOLEAN
    BY <1>6, Zenon DEF HandleEvent, UserCode
  <2>2. ready' \subseteq IoChannels
    BY <1>6 DEF HandleEvent
  <2>3. wakeup_fd_' \in 0..MaxEventfd
    BY <1>6 DEF HandleEvent, UserCode, wakeup
  <2> QED
    BY <1>6, <2>1, <2>2, <2>3 DEF HandleEvent
<1>7. CASE AllHandled
  BY <1>7 DEF AllHandled
<1>8. CASE SwapFunctors
  BY <1>8 DEF SwapFunctors
<1>9. CASE RunFunctor
  <2>1. works' \in Seq(Nat) /\ ran' \in Seq(Nat)
    BY <1>9 DEF RunFunctor
  <2>2. quit_' \in BOOLEAN
    BY <1>9, Zenon DEF RunFunctor, UserCode
  <2>3. wakeup_fd_' \in 0..MaxEventfd
    BY <1>9 DEF RunFunctor, UserCode, wakeup
  <2> QED
    BY <1>9, <2>1, <2>2, <2>3 DEF RunFunctor
<1>10. CASE BatchDone
  BY <1>10 DEF BatchDone
<1>11. ASSUME NEW t \in Threads, RunInLoop(t) PROVE TypeOK'
  BY <1>11 DEF RunInLoop
<1>12. ASSUME NEW t \in Threads, quit(t) PROVE TypeOK'
  BY <1>12 DEF quit
<1>13. ASSUME NEW t \in Threads, WakeupFrom(t) PROVE TypeOK'
  BY <1>13 DEF WakeupFrom, wakeup
<1>14. ASSUME NEW c \in IoChannels, IoReady(c) PROVE TypeOK'
  BY <1>14 DEF IoReady
<1>15. CASE UNCHANGED vars
  BY <1>15 DEF vars
<1> QED
  BY <1>1, <1>2, <1>3, <1>4, <1>5, <1>6, <1>7, <1>8, <1>9, <1>10, <1>11,
     <1>12, <1>13, <1>14, <1>15 DEF Next, LoopThread, doPendingFunctors

(* The type invariant holds in every reachable state of the loop thread    *)
(* and of the threads that call RunInLoop() and quit().                    *)
THEOREM TypeCorrect == Spec => []TypeOK
BY InitType, NextKeepsType, PTL DEF Spec

-----------------------------------------------------------------------------
(* wakeup() leaves the eventfd readable, whether or not it was full.       *)
LEMMA WakeupReadable ==
  ASSUME TypeOK, wakeup PROVE wakeup_fd_' > 0
BY EventLoopAssumption DEF TypeOK, wakeup

(* User code on the loop thread never takes a wakeup away.                 *)
LEMMA UserCodeKeepsWakeup ==
  ASSUME TypeOK, UserCode, wakeup_fd_ > 0 PROVE wakeup_fd_' > 0
BY WakeupReadable DEF UserCode

(* No wakeup is lost, for any number of threads calling RunInLoop() and    *)
(* quit(): a loop thread that may block in poll has nothing to do, or its  *)
(* eventfd is readable or about to be.                                     *)
THEOREM WakeupNeverLost == Spec => []NoLostWakeup
<1> DEFINE Awake ==
             /\ functors_ # <<>> => lpc \in {"handle", "swap"} \/ WakeupComing
             /\ quit_ /\ lpc = "poll" => WakeupComing
<1>1. Init => Awake
  BY DEF Init
<1>2. TypeOK /\ Awake /\ [Next]_vars => Awake'
  <2> SUFFICES ASSUME TypeOK, Awake, [Next]_vars
               PROVE  Awake'
    OBVIOUS
  <2> USE DEF WakeupComing
  <2>1. CASE Loop
    BY <2>1 DEF Loop
  <2>2. CASE CheckQuit
    BY <2>2 DEF CheckQuit
  <2>3. CASE Poll \/ PollFailed
    BY <2>3 DEF Poll, PollFailed
  <2>4. CASE handleRead
    BY <2>4 DEF handleRead
  <2>5. ASSUME NEW c \in IoChannels, HandleEvent(c) PROVE Awake'
    BY <2>5 DEF HandleEvent
  <2>6. CASE AllHandled
    BY <2>6 DEF AllHandled
  <2>7. CASE SwapFunctors
    BY <2>7 DEF SwapFunctors
  <2>8. CASE RunFunctor
    BY <2>8, UserCodeKeepsWakeup DEF RunFunctor
  <2>9. CASE BatchDone
    BY <2>9 DEF BatchDone
  <2>10. ASSUME NEW t \in Threads, RunInLoop(t) \/ quit(t)
         PROVE  Awake'
    <3>1. tpc'[t] = "wake"
      BY <2>10 DEF RunInLoop, quit, TypeOK
    <3> QED
      BY <3>1
  <2>11. ASSUME NEW t \in Threads, WakeupFrom(t) PROVE Awake'
    BY <2>11, WakeupReadable DEF WakeupFrom
  <2>12. ASSUME NEW c \in IoChannels, IoReady(c) PROVE Awake'
    BY <2>12 DEF IoReady
  <2>13. CASE UNCHANGED vars
    BY <2>13 DEF vars
  <2> QED
    BY <2>1, <2>2, <2>3, <2>4, <2>5, <2>6, <2>7, <2>8, <2>9, <2>10, <2>11,
       <2>12, <2>13 DEF Next, LoopThread, doPendingFunctors
<1>3. TypeOK /\ Awake => NoLostWakeup
  BY DEF NoLostWakeup
<1> HIDE DEF Awake
<1> QED
  BY <1>1, <1>2, <1>3, TypeCorrect, PTL DEF Spec

-----------------------------------------------------------------------------
(* What the refinement rests on: a batch exists only while                 *)
(* doPendingFunctors() runs it (so the swap overwrites nothing), and every *)
(* functor pushed is in exactly one of functors_, works and ran.           *)
Accounted ==
  /\ lpc # "run" => works = <<>>
  /\ posted = Len(ran) + Len(works) + Len(functors_)

(* Accounted holds whenever and however threads push functors.             *)
LEMMA AccountedInvariant == Spec => []Accounted
<1>1. Init => Accounted
  BY DEF Init, Accounted
<1>2. TypeOK /\ Accounted /\ [Next]_vars => Accounted'
  <2> SUFFICES ASSUME TypeOK, Accounted, [Next]_vars PROVE Accounted'
    OBVIOUS
  <2> USE DEF TypeOK, Accounted
  <2>1. CASE SwapFunctors
    BY <2>1 DEF SwapFunctors
  <2>2. CASE RunFunctor
    BY <2>2 DEF RunFunctor
  <2>3. CASE BatchDone
    BY <2>3 DEF BatchDone
  <2>4. ASSUME NEW t \in Threads, RunInLoop(t) PROVE Accounted'
    BY <2>4 DEF RunInLoop
  <2>5. CASE Loop \/ CheckQuit \/ Poll \/ PollFailed \/ handleRead \/ AllHandled
    BY <2>5, Zenon DEF Loop, CheckQuit, Poll, PollFailed, handleRead, AllHandled
  <2>6. ASSUME NEW c \in IoChannels, HandleEvent(c) \/ IoReady(c)
        PROVE  Accounted'
    BY <2>6, Zenon DEF HandleEvent, IoReady
  <2>7. ASSUME NEW t \in Threads, quit(t) \/ WakeupFrom(t) PROVE Accounted'
    BY <2>7 DEF quit, WakeupFrom
  <2>8. CASE UNCHANGED vars
    BY <2>8 DEF vars
  <2> QED
    BY <2>1, <2>2, <2>3, <2>4, <2>5, <2>6, <2>7, <2>8
    DEF Next, LoopThread, doPendingFunctors
<1> QED
  BY <1>1, <1>2, TypeCorrect, PTL DEF Spec

(* A push at the end of functors_ is a push at the end of the whole queue. *)
LEMMA ConcatAppend ==
  ASSUME NEW s \in Seq(Nat), NEW t \in Seq(Nat), NEW x \in Nat
  PROVE  s \o Append(t, x) = Append(s \o t, x)
OBVIOUS

(* The head of a non-empty batch is the head of the whole queue.           *)
LEMMA ConcatHeadTail ==
  ASSUME NEW s \in Seq(Nat), NEW t \in Seq(Nat), s # <<>>
  PROVE  /\ s \o t # <<>>
         /\ Head(s \o t) = Head(s)
         /\ Tail(s \o t) = Tail(s) \o t
OBVIOUS

(* RunInLoop() and doPendingFunctors() implement a first-in first-out      *)
(* queue in which each functor runs at most once: every step of the loop   *)
(* and its callers is a push, a run of the oldest functor, or invisible.   *)
THEOREM QueueRefinement == Spec => ImplementsWorkQueue
<1>1. Init => Queue!Init
  BY DEF Init, Queue!Init
<1>2. TypeOK /\ Accounted /\ [Next]_vars => [Queue!Next]_(Queue!qvars)
  <2> SUFFICES ASSUME TypeOK, Accounted, [Next]_vars
               PROVE  [Queue!Next]_(Queue!qvars)
    OBVIOUS
  <2> USE DEF TypeOK, Accounted
  <2>1. ASSUME NEW t \in Threads, RunInLoop(t) PROVE Queue!Post
    <3>1. posted + 1 \in Nat /\ works' = works
          /\ functors_' = Append(functors_, posted + 1)
      BY <2>1 DEF RunInLoop
    <3>2. works' \o functors_' = Append(works \o functors_, posted + 1)
      BY <3>1, ConcatAppend, Zenon
    <3>3. posted + 1 = Len(ran) + Len(works \o functors_) + 1
      OBVIOUS
    <3> QED
      BY <2>1, <3>2, <3>3, Zenon DEF RunInLoop, Queue!Post
  <2>2. CASE RunFunctor
    BY <2>2, ConcatHeadTail, Zenon DEF RunFunctor, Queue!Run, Queue!Next
  <2>3. CASE SwapFunctors
    BY <2>3 DEF SwapFunctors, Queue!qvars
  <2>4. CASE \/ Loop \/ CheckQuit \/ Poll \/ PollFailed \/ handleRead
             \/ AllHandled \/ BatchDone
    BY <2>4, Zenon DEF Loop, CheckQuit, Poll, PollFailed, handleRead, AllHandled,
                BatchDone, Queue!qvars
  <2>5. ASSUME NEW c \in IoChannels, HandleEvent(c) \/ IoReady(c)
        PROVE  UNCHANGED Queue!qvars
    BY <2>5, Zenon DEF HandleEvent, IoReady, Queue!qvars
  <2>6. ASSUME NEW t \in Threads, quit(t) \/ WakeupFrom(t)
        PROVE  UNCHANGED Queue!qvars
    BY <2>6, Zenon DEF quit, WakeupFrom, Queue!qvars
  <2>7. CASE UNCHANGED vars
    BY <2>7 DEF vars, Queue!qvars
  <2> QED
    BY <2>1, <2>2, <2>3, <2>4, <2>5, <2>6, <2>7
    DEF Next, LoopThread, doPendingFunctors, Queue!Next
<1> QED
  BY <1>1, <1>2, TypeCorrect, AccountedInvariant, PTL
  DEF Spec, ImplementsWorkQueue, Queue!Spec

(* The n-th functor to run is the n-th that was pushed, so none runs       *)
(* twice, none is skipped and none overtakes another.                      *)
RunOnce ==
  Len(ran) <= posted /\ \A i \in 1..Len(ran) : ran[i] = i

(* The batch continues where ran ends, and functors_ where the batch ends. *)
Consecutive ==
  /\ \A i \in 1..Len(ran) : ran[i] = i
  /\ \A i \in 1..Len(works) : works[i] = Len(ran) + i
  /\ \A i \in 1..Len(functors_) : functors_[i] = Len(ran) + Len(works) + i

(* However threads push while batches run, and however often loop() is     *)
(* left and entered again, functors run in the order of their RunInLoop(), *)
(* none twice and none skipped.                                            *)
THEOREM FunctorsInOrder == Spec => []RunOnce
<1>1. Init => Consecutive
  BY DEF Init, Consecutive
<1>2. TypeOK /\ Accounted /\ Consecutive /\ [Next]_vars => Consecutive'
  <2> SUFFICES ASSUME TypeOK, Accounted, Consecutive, [Next]_vars
               PROVE  Consecutive'
    OBVIOUS
  <2>0. /\ ran \in Seq(Nat) /\ works \in Seq(Nat) /\ functors_ \in Seq(Nat)
        /\ posted \in Nat
    BY DEF TypeOK
  <2>1. CASE SwapFunctors
    <3>1. /\ works = <<>> /\ works' = functors_ /\ functors_' = <<>>
          /\ ran' = ran
      BY <2>1 DEF SwapFunctors, Accounted
    <3>2. /\ Len(functors_) \in Nat /\ Len(ran) \in Nat
          /\ Len(works) = 0 /\ Len(functors_') = 0
      BY ONLY <2>0, <3>1
    <3>3. \A i \in 1..Len(functors_) : functors_[i] = Len(ran) + i
      BY ONLY <3>2, Consecutive DEF Consecutive
    <3>4. \A i \in 1..Len(functors_') : FALSE
      BY ONLY <3>2
    <3> QED
      BY ONLY <3>1, <3>3, <3>4, Consecutive, Zenon DEF Consecutive
  <2>2. CASE RunFunctor
    <3>1. /\ works # <<>> /\ works' = Tail(works)
          /\ ran' = Append(ran, Head(works)) /\ functors_' = functors_
      BY <2>2, Zenon DEF RunFunctor
    <3>2. Len(works') = Len(works) - 1 /\ Len(ran') = Len(ran) + 1
      BY ONLY <2>0, <3>1
    <3>3. \A i \in 1..Len(ran') : ran'[i] = i
      BY ONLY <2>0, <3>1, <3>2, Consecutive DEF Consecutive
    <3>4. \A i \in 1..Len(works') : works'[i] = Len(ran') + i
      BY ONLY <2>0, <3>1, <3>2, Consecutive DEF Consecutive
    <3>5. \A i \in 1..Len(functors_') : functors_'[i] = Len(ran') + Len(works') + i
      <4>1. Len(ran') + Len(works') = Len(ran) + Len(works)
        BY ONLY <2>0, <3>2
      <4> QED
        BY ONLY <3>1, <4>1, Consecutive, Zenon DEF Consecutive
    <3> QED
      BY <3>3, <3>4, <3>5, Zenon DEF Consecutive
  <2>3. ASSUME NEW t \in Threads, RunInLoop(t) PROVE Consecutive'
    <3>1. /\ functors_' = Append(functors_, posted + 1)
          /\ works' = works /\ ran' = ran
      BY <2>3, Zenon DEF RunInLoop
    <3>2. posted = Len(ran) + Len(works) + Len(functors_)
      BY Zenon DEF Accounted
    <3>3. \A i \in 1..Len(functors_) : functors_[i] = Len(ran) + Len(works) + i
      BY Zenon DEF Consecutive
    <3>4. \A i \in 1..Len(functors_') : functors_'[i] = Len(ran) + Len(works) + i
      <4> SUFFICES ASSUME NEW i \in 1..Len(functors_')
                   PROVE  functors_'[i] = Len(ran) + Len(works) + i
        OBVIOUS
      <4>1. /\ Len(functors_') = Len(functors_) + 1 /\ Len(functors_) \in Nat
            /\ functors_'[Len(functors_) + 1] = posted + 1
            /\ \A j \in 1..Len(functors_) : functors_'[j] = functors_[j]
        BY ONLY <2>0, <3>1
      <4>2. CASE i \in 1..Len(functors_)
        BY ONLY <3>3, <4>1, <4>2, Zenon
      <4>3. CASE i = Len(functors_) + 1
        <5>1. posted + 1 = Len(ran) + Len(works) + i
          BY ONLY <2>0, <3>2, <4>3
        <5> QED
          BY ONLY <4>1, <4>3, <5>1, Zenon
      <4>4. i \in 1..Len(functors_) \/ i = Len(functors_) + 1
        BY ONLY <4>1, i \in 1..Len(functors_')
      <4> QED
        BY ONLY <4>2, <4>3, <4>4, Zenon
    <3> QED
      BY ONLY <3>1, <3>4, Consecutive, Zenon DEF Consecutive
  <2>4. ASSUME UNCHANGED <<ran, works, functors_>> PROVE Consecutive'
    BY <2>4, Zenon DEF Consecutive
  <2>5. CASE \/ Loop \/ CheckQuit \/ Poll \/ PollFailed \/ handleRead
             \/ AllHandled \/ BatchDone \/ UNCHANGED vars
    BY <2>4, <2>5, Zenon DEF Loop, CheckQuit, Poll, PollFailed, handleRead,
                             AllHandled, BatchDone, vars
  <2>6. ASSUME NEW c \in IoChannels, HandleEvent(c) \/ IoReady(c)
        PROVE  Consecutive'
    BY <2>4, <2>6, Zenon DEF HandleEvent, IoReady
  <2>7. ASSUME NEW t \in Threads, quit(t) \/ WakeupFrom(t)
        PROVE  Consecutive'
    BY <2>4, <2>7, Zenon DEF quit, WakeupFrom
  <2> QED
    BY <2>1, <2>2, <2>3, <2>5, <2>6, <2>7
    DEF Next, LoopThread, doPendingFunctors
<1>3. TypeOK /\ Accounted /\ Consecutive => RunOnce
  BY DEF TypeOK, Accounted, Consecutive, RunOnce
<1> QED
  BY <1>1, <1>2, <1>3, TypeCorrect, AccountedInvariant, PTL DEF Spec

-----------------------------------------------------------------------------
(* EventLoopThread.  Its steps are steps of the EventLoop, but for the     *)
(* quit() of callback_ before loop() and the late wakeup() that finds the  *)
(* EventLoop gone.                                                         *)

(* What makes CallsReachLiveLoop inductive: an EventLoop is left, and so   *)
(* destroyed, only with quit_ set, and until the destructor only user code *)
(* sets it.                                                                *)
LeftByQuit ==
  /\ xpc = "loop" /\ lpc = "idle" => quit_
  /\ xpc = "exited" => quit_
  /\ ~userQuit /\ quit_ => opc \in {"join", "gone"}

ThreadInv == CallsReachLiveLoop /\ LeftByQuit

LEMMA CallbackKeepsType == TypeOK /\ Callback => TypeOK'
<1> SUFFICES ASSUME TypeOK, Callback PROVE TypeOK'
  OBVIOUS
<1>1. CASE UNCHANGED vars
  BY <1>1, NextKeepsType
<1>2. CASE /\ quit_' = TRUE /\ wakeup
           /\ UNCHANGED <<lpc, looping_, active_channels_, ready, functors_,
                          works, tpc, posted, ran>>
  <2>1. wakeup_fd_' \in 0..MaxEventfd
    BY <1>2, EventLoopAssumption DEF wakeup, TypeOK
  <2> QED
    BY <1>2, <2>1 DEF TypeOK
<1> QED
  BY <1>1, <1>2, Zenon DEF Callback

LEMMA WakeupOnKeepsType ==
  ASSUME TypeOK, NEW t \in Threads, WakeupOn(t) PROVE TypeOK'
<1>1. CASE xpc = "exited"
  BY <1>1, Zenon DEF WakeupOn, TypeOK
<1>2. CASE xpc # "exited"
  BY <1>2, NextKeepsType DEF WakeupOn, Next
<1> QED
  BY <1>1, <1>2

LEMMA ThreadKeepsType == TypeOK /\ [ThreadNext]_<<vars, tvars>> => TypeOK'
<1> SUFFICES ASSUME TypeOK, [ThreadNext]_<<vars, tvars>> PROVE TypeOK'
  OBVIOUS
<1>1. CASE [Next]_vars
  BY <1>1, NextKeepsType
<1>2. CASE Start \/ StartReturns \/ DestroyUnstarted \/ Join \/ Publish \/ Exit
  BY <1>1, <1>2 DEF Start, StartReturns, DestroyUnstarted, Join, Publish, Exit
<1>3. CASE Destroy
  BY <1>1, <1>3, OwnerAssumption DEF Destroy, Next
<1>4. CASE EnterLoop \/ InLoop \/ InLoopPollFailed
  BY <1>1, <1>4 DEF EnterLoop, InLoop, InLoopPollFailed, Next
<1>5. ASSUME NEW t \in Threads, RunInLoopOn(t) \/ QuitOn(t) PROVE TypeOK'
  BY <1>1, <1>5 DEF RunInLoopOn, QuitOn, Next
<1>6. ASSUME NEW c \in IoChannels, Io(c) PROVE TypeOK'
  BY <1>1, <1>6 DEF Io, Next
<1>7. CASE UNCHANGED <<vars, tvars>>
  BY <1>1, <1>7
<1> QED
  BY <1>2, <1>3, <1>4, <1>5, <1>6, <1>7, CallbackKeepsType, WakeupOnKeepsType
     DEF ThreadNext, Thread

LEMMA ThreadInitHolds == ThreadInit => ThreadInv
<1> SUFFICES ASSUME ThreadInit PROVE ThreadInv
  OBVIOUS
<1>1. TypeOK
  BY InitType DEF ThreadInit
<1>2. ThreadTypeOK
  BY <1>1, Zenon DEF ThreadInit, ThreadTypeOK
<1>3. LeftByQuit /\ stale = {}
  BY DEF ThreadInit, Init, LeftByQuit
<1> QED
  BY <1>2, <1>3 DEF ThreadInv, CallsReachLiveLoop

(* A step inside loop() that sets quit_ is one of user code, and loop()    *)
(* returns only on quit_.                                                  *)
LEMMA InLoopKeeps == ASSUME ThreadInv, InLoop, TypeOK' PROVE ThreadInv'
<1> USE DEF ThreadInv, LeftByQuit, CallsReachLiveLoop, ThreadTypeOK
<1>1. quit_ => quit_'
  BY Zenon DEF InLoop, LoopThread, doPendingFunctors, CheckQuit, Poll, handleRead,
         AllHandled, HandleEvent, SwapFunctors, RunFunctor, BatchDone, UserCode
<1>2. lpc' = "idle" => quit_'
  BY DEF InLoop, LoopThread, doPendingFunctors, CheckQuit, Poll, handleRead,
         AllHandled, HandleEvent, SwapFunctors, RunFunctor, BatchDone
<1>3. userQuit' \in BOOLEAN /\ (userQuit => userQuit') /\ (quit_' => quit_ \/ userQuit')
  BY Zenon DEF InLoop
<1> QED
  BY <1>1, <1>2, <1>3 DEF InLoop

LEMMA ThreadNextKeeps == ThreadInv /\ [ThreadNext]_<<vars, tvars>> => ThreadInv'
<1> SUFFICES ASSUME ThreadInv, [ThreadNext]_<<vars, tvars>> PROVE ThreadInv'
  OBVIOUS
<1>1. TypeOK'
  BY ThreadKeepsType DEF ThreadInv, CallsReachLiveLoop, ThreadTypeOK
<1> USE DEF ThreadInv, LeftByQuit, CallsReachLiveLoop, ThreadTypeOK
<1>0. quit_ \in BOOLEAN /\ quit_' \in BOOLEAN
  BY <1>1 DEF TypeOK
<1> USE <1>0, <1>1
<1>2. CASE Start \/ StartReturns \/ DestroyUnstarted \/ Join
  BY <1>2, Zenon DEF Start, StartReturns, DestroyUnstarted, Join, vars
<1>3. CASE Publish \/ Exit
  BY <1>3, Zenon DEF Publish, Exit, vars
<1>4. CASE Callback
  BY <1>4, Zenon DEF Callback, vars
<1>5. CASE EnterLoop
  BY <1>5 DEF EnterLoop, Loop
<1>6. CASE InLoopPollFailed
  BY <1>6 DEF InLoopPollFailed, PollFailed, tvars
<1>7. CASE Destroy
  BY <1>7, Zenon DEF Destroy, quit, vars
<1>8. ASSUME NEW t \in Threads, RunInLoopOn(t) PROVE ThreadInv'
  BY <1>8, Zenon DEF RunInLoopOn, RunInLoop, vars
<1>9. ASSUME NEW t \in Threads, QuitOn(t) PROVE ThreadInv'
  BY <1>9, Zenon DEF QuitOn, quit, vars
<1>10. ASSUME NEW t \in Threads, WakeupOn(t) PROVE ThreadInv'
  BY <1>10, Zenon DEF WakeupOn, WakeupFrom
<1>11. ASSUME NEW c \in IoChannels, Io(c) PROVE ThreadInv'
  BY <1>11 DEF Io, IoReady, tvars
<1>12. CASE UNCHANGED <<vars, tvars>>
  BY <1>12 DEF vars, tvars
<1>13. CASE InLoop
  BY <1>13, InLoopKeeps
<1> QED
  BY <1>2, <1>3, <1>4, <1>5, <1>6, <1>7, <1>8, <1>9, <1>10, <1>11, <1>12, <1>13
     DEF ThreadNext, Thread

(* For any number of threads that use the loop, and wherever it is when    *)
(* the EventLoopThread is destroyed: while nobody but the destructor calls *)
(* quit(), every RunInLoop() and quit() begins on a live EventLoop.        *)
THEOREM LoopOutlivesCalls == ThreadSpec => []CallsReachLiveLoop
<1>1. ThreadInv => CallsReachLiveLoop
  BY DEF ThreadInv
<1> QED
  BY <1>1, ThreadInitHolds, ThreadNextKeeps, PTL DEF ThreadSpec
=============================================================================
