-------------------------- MODULE EventLoopThread --------------------------
(***************************************************************************)
(* polly::EventLoopThread (net/eventloop_thread.h, .cc): an object whose   *)
(* Start() creates a thread that owns an EventLoop on its stack, publishes *)
(* its address in loop_ and runs loop(), and whose destructor calls        *)
(* loop_->quit() and joins the thread.  The loop is the one of EventLoop,  *)
(* the owner of the object is one of its Threads.                          *)
(*                                                                         *)
(* opc is the owner's position: "new", "wait" (in Start(), waiting for the *)
(* promise), "started", "join" (destructor: quit() called, or being called *)
(* while the owner's tpc is "wake"; then join()), "gone".                  *)
(* xpc is the thread's: "none", "ctor", "callback" (promise set), "enter"  *)
(* (about to call loop()), "loop", "exited" (the EventLoop is destroyed    *)
(* and loop_ dangles).                                                     *)
(***************************************************************************)
EXTENDS EventLoop

CONSTANT Owner \* the thread that owns the EventLoopThread object

ASSUME OwnerAssumption == Owner \in Threads

VARIABLES opc, xpc,
          loop_,    \* whether loop_ is non-null
          userQuit, \* whether code other than the destructor called quit()
          stale     \* calls the owner made on the destroyed EventLoop

tvars == <<opc, xpc, loop_, userQuit, stale>>

ThreadInit ==
  /\ Init
  /\ opc = "new" /\ xpc = "none" /\ loop_ = FALSE
  /\ userQuit = FALSE /\ stale = {}

-----------------------------------------------------------------------------
(* The owner *)

Start ==
  /\ opc = "new"
  /\ opc' = "wait" /\ xpc' = "ctor"
  /\ UNCHANGED <<vars, loop_, userQuit, stale>>

(* promise.get_future().wait() returns: Start() is over. *)
StartReturns ==
  /\ opc = "wait"
  /\ xpc \notin {"none", "ctor"}
  /\ opc' = "started"
  /\ UNCHANGED <<vars, xpc, loop_, userQuit, stale>>

(* Calls on the address eventLoop() returns.  The owner and other threads  *)
(* keep it; nothing tells them that the EventLoop was destroyed.           *)
RunInLoopOn(t) ==
  /\ opc = "started"
  /\ IF xpc = "exited"
     THEN stale' = stale \cup {"RunInLoop"} /\ UNCHANGED vars
     ELSE RunInLoop(t) /\ UNCHANGED stale
  /\ UNCHANGED <<opc, xpc, loop_, userQuit>>

QuitOn(t) ==
  /\ opc = "started"
  /\ IF xpc = "exited"
     THEN stale' = stale \cup {"quit"} /\ UNCHANGED vars
     ELSE quit(t) /\ UNCHANGED stale
  /\ userQuit' = TRUE
  /\ UNCHANGED <<opc, xpc, loop_>>

(* The wakeup() inside a RunInLoop() or quit() that has begun; the         *)
(* EventLoop may be gone by now.                                           *)
WakeupOn(t) ==
  /\ tpc[t] = "wake"
  /\ IF xpc = "exited"
     THEN /\ tpc' = [tpc EXCEPT ![t] = "out"]
          /\ stale' = stale \cup {"wakeup"}
          /\ UNCHANGED <<lpc, looping_, quit_, active_channels_, ready,
                         wakeup_fd_, functors_, works, posted, ran>>
     ELSE WakeupFrom(t) /\ UNCHANGED stale
  /\ UNCHANGED <<opc, xpc, loop_, userQuit>>

(* ~EventLoopThread() before Start(): the thread is not joinable. *)
DestroyUnstarted ==
  /\ opc = "new"
  /\ opc' = "gone"
  /\ UNCHANGED <<vars, xpc, loop_, userQuit, stale>>

(* ~EventLoopThread(): quit() on a non-null loop_, under mutex_. *)
Destroy ==
  /\ opc = "started"
  /\ tpc[Owner] = "out"
  /\ opc' = "join"
  /\ \/ ~loop_ /\ UNCHANGED <<vars, stale>>
     \/ loop_ /\ xpc = "exited" /\ stale' = stale \cup {"quit"} /\ UNCHANGED vars
     \/ loop_ /\ xpc # "exited" /\ quit(Owner) /\ UNCHANGED stale
  /\ UNCHANGED <<xpc, loop_, userQuit>>

(* thread_.join() returns. *)
Join ==
  /\ opc = "join"
  /\ tpc[Owner] = "out"
  /\ xpc = "exited"
  /\ opc' = "gone"
  /\ UNCHANGED <<vars, xpc, loop_, userQuit, stale>>

-----------------------------------------------------------------------------
(* The thread *)

(* The EventLoop is constructed, its address published under mutex_, and   *)
(* the promise set.                                                        *)
Publish ==
  /\ xpc = "ctor"
  /\ loop_' = TRUE /\ xpc' = "callback"
  /\ UNCHANGED <<vars, opc, userQuit, stale>>

(* callback_(&loop): user code, which may call quit(). *)
Callback ==
  /\ xpc = "callback"
  /\ xpc' = "enter"
  /\ \/ UNCHANGED <<vars, userQuit>>
     \/ /\ quit_' = TRUE /\ wakeup /\ userQuit' = TRUE
        /\ UNCHANGED <<lpc, looping_, active_channels_, ready, functors_,
                       works, tpc, posted, ran>>
  /\ UNCHANGED <<opc, loop_, stale>>

EnterLoop_NoLoopCall ==
  /\ xpc = "enter"
  /\ xpc' = "loop"
  /\ UNCHANGED <<vars, opc, loop_, userQuit, stale>>

EnterLoop ==
  /\ xpc = "enter"
  /\ Loop
  /\ xpc' = "loop"
  /\ UNCHANGED <<opc, loop_, userQuit, stale>>

(* Inside loop(); only callbacks and functors of the user's call quit()    *)
(* from there.                                                             *)
InLoop ==
  /\ xpc = "loop"
  /\ LoopThread
  /\ userQuit' = (userQuit \/ (~quit_ /\ quit_'))
  /\ UNCHANGED <<opc, xpc, loop_, stale>>

InLoopPollFailed ==
  /\ xpc = "loop"
  /\ PollFailed
  /\ UNCHANGED tvars

(* loop() returned; the thread function ends and destroys the EventLoop.   *)
(* loop_ is not reset.                                                     *)
Exit ==
  /\ xpc = "loop"
  /\ lpc = "idle"
  /\ xpc' = "exited"
  /\ UNCHANGED <<vars, opc, loop_, userQuit, stale>>

Thread == Publish \/ Callback \/ EnterLoop \/ InLoop \/ Exit

Io(c) ==
  /\ xpc = "loop"
  /\ IoReady(c)
  /\ UNCHANGED tvars

ThreadNext ==
  \/ Start \/ StartReturns
  \/ DestroyUnstarted \/ Destroy \/ Join
  \/ Thread \/ InLoopPollFailed
  \/ \E t \in Threads : RunInLoopOn(t) \/ QuitOn(t) \/ WakeupOn(t)
  \/ \E c \in IoChannels : Io(c)

(* The thread runs; the owner, once inside Start() or the destructor, goes *)
(* on; so does a thread between quit_ and wakeup().                        *)
ThreadSpec ==
  /\ ThreadInit /\ [][ThreadNext]_<<vars, tvars>>
  /\ WF_<<vars, tvars>>(Thread)
  /\ WF_<<vars, tvars>>(StartReturns)
  /\ \A t \in Threads : WF_<<vars, tvars>>(WakeupOn(t))
  /\ WF_<<vars, tvars>>(Join)

-----------------------------------------------------------------------------
(* Properties *)

(* The positions of the owner and the thread, and the type invariant of the *)
(* EventLoop the thread owns.                                              *)
ThreadTypeOK ==
  /\ TypeOK
  /\ opc \in {"new", "wait", "started", "join", "gone"}
  /\ xpc \in {"none", "ctor", "callback", "enter", "loop", "exited"}
  /\ loop_ \in BOOLEAN /\ userQuit \in BOOLEAN
  /\ stale \subseteq {"RunInLoop", "quit", "wakeup"}

(* RunInLoop() and the destructor's quit() find the EventLoop alive unless *)
(* user code stopped the loop: while the destructor is the only caller of  *)
(* quit(), the pointer Start() published is valid at the start of every    *)
(* call.  A call that has begun may still outlive the loop: its wakeup()   *)
(* comes after the store to quit_ that lets the thread exit.               *)
CallsReachLiveLoop ==
  ThreadTypeOK /\ (~userQuit => stale \subseteq {"wakeup"})

(* Once the destructor's quit() has been stored while loop() is running,   *)
(* the thread exits and join() returns, whatever the loop thread was doing *)
(* and however the wakeup() interleaves with it.                           *)
QuitInLoopJoins == (opc = "join" /\ quit_ /\ looping_) ~> opc = "gone"

(* The destructor of a started EventLoopThread returns, as every test that *)
(* lets one go out of scope relies on.                                     *)
DestructorReturns == opc = "join" ~> opc = "gone"
=============================================================================
