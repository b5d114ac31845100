----------------------------- MODULE TcpServer -----------------------------
(***************************************************************************)
(* polly::TcpServer, Acceptor and the life of its TcpConnections           *)
(* (net/tcp_server.cc, net/acceptor.cc, net/tcp_connection.cc,             *)
(* net/channel.cc) on top of Poller: who owns a connection, which events   *)
(* reach it, how it is closed and destroyed.  What travels over it is the  *)
(* subject of TcpConnection; here "write" \in events_[c] stands for data   *)
(* left in snd_buffer_.                                                    *)
(*                                                                         *)
(* The loop thread (pc, cur, ret):                                         *)
(*   "poll"     in Poller::Poll                                            *)
(*   "event"    at HandleEvent() of the first active channel, cur          *)
(*   "write"    at the POLLOUT test of that HandleEvent()                  *)
(*   "user"     in a callback of the application                           *)
(*   "destroy"  about to run ConnectDestroyed() of cur                     *)
(*   "userDown" in the connection callback made by ConnectDestroyed()      *)
(*   "next"     HandleEvent() is over                                      *)
(*   "functors" in doPendingFunctors()                                     *)
(*   "server"   in ~TcpServer()                                            *)
(* ret is where the loop thread goes when the callback or the closing of   *)
(* the connection is done.                                                 *)
(*                                                                         *)
(* The application keeps TcpConnectionPtr copies (held) that its other     *)
(* threads, Callers, use for Send() and Shutdown().  state_ is a plain     *)
(* enum that both sides read and write.                                    *)
(*                                                                         *)
(* When a step fails an assertion on its way (aborted' # "none") the       *)
(* process is gone and the rest of the step is of no consequence: every    *)
(* action requires Running.                                                *)
(***************************************************************************)
EXTENDS Poller, FiniteSets, Functions

CONSTANTS Conns,   \* TcpConnection objects, each with its Channel
          Listen,  \* the Acceptor's listen_channel_
          Callers, \* threads other than the loop thread
          MaxQueue \* bound: functors queued by Callers at one time

ASSUME ServerAssumption ==
  /\ Channels = Conns \cup {Listen} /\ Listen \notin Conns
  /\ MaxQueue \in Nat

VARIABLES state_,       \* of each connection
          connections_, \* connections in the server's map
          server,       \* "new", "up" once it listens, or "gone"
          held,         \* connections of which the application has a copy
          active_channels_, revents_,
          pc, cur, ret, \* the loop thread
          functors_,    \* functors of the callers: <<operation, connection>>
          works,        \* the batch of them the loop thread swapped out
          tpc,          \* callers: <<step, connection>>
          peer,         \* other end of each connection: "open" or "closed"
          ups, downs    \* connection callbacks made for each connection

loopvars == <<pc, cur, ret>>
conns == <<state_, connections_, server>>
polled == <<active_channels_, revents_>>
work == <<functors_, works>>
told == <<ups, downs>>
others == <<held, tpc, peer>>
svars == <<loopvars, conns, polled, work, told, others>>
allvars == <<pvars, svars>>

(* The server is constructed: the Acceptor has registered its channel.     *)
ServerInit ==
  /\ life = [c \in Channels |-> IF c = Listen THEN "live" ELSE "none"]
  /\ events_ = [c \in Channels |-> IF c = Listen THEN {"read"} ELSE {}]
  /\ index_ = [c \in Channels |-> IF c = Listen THEN 0 ELSE -1]
  /\ pollfds_ = <<[fd |-> FdOf[Listen], events |-> {"read"}]>>
  /\ channels_ = [fd \in {FdOf[Listen]} |-> Listen]
  /\ aborted = "none" /\ shifted = FALSE
  /\ state_ = [c \in Conns |-> "kConnecting"]
  /\ connections_ = {} /\ server = "new" /\ held = {}
  /\ active_channels_ = <<>> /\ revents_ = [c \in Channels |-> {}]
  /\ pc = "poll" /\ cur = Listen /\ ret = "poll"
  /\ functors_ = <<>> /\ works = <<>>
  /\ tpc = [t \in Callers |-> <<"out", Listen>>]
  /\ peer = [c \in Conns |-> "open"]
  /\ ups = [c \in Conns |-> 0] /\ downs = [c \in Conns |-> 0]

Running == aborted = "none"
At(p, c) == Running /\ pc = p /\ cur = c
Goto(p) == pc' = p /\ UNCHANGED <<cur, ret>>
Call(c, r) == pc' = "user" /\ cur' = c /\ ret' = r

(* A failed assertion outside Poller. *)
Fail(name) ==
  /\ aborted' = name
  /\ UNCHANGED <<life, events_, index_, pollfds_, channels_, shifted>>

(* Using a destroyed object: the freed memory may still look the way it    *)
(* did and nothing happens, or the process crashes.                        *)
UseFreed(next) ==
  \/ Goto(next) /\ UNCHANGED pvars
  \/ Fail("crash") /\ UNCHANGED loopvars

(* TcpServer::Start: the callback is set and the socket listens. *)
Start ==
  /\ Running /\ pc = "poll" /\ server = "new"
  /\ server' = "up"
  /\ UNCHANGED <<pvars, loopvars, state_, connections_, polled, work, told, others>>

-----------------------------------------------------------------------------
(* Poller::Poll and the loop over the active channels *)

(* What poll(2) may report for a registered channel.  A socket that does   *)
(* not listen yet is hung up.  The descriptor of one that was closed is    *)
(* invalid, or by now that of another open file of the process.            *)
ReventsOf(c) ==
  IF c = Listen
  THEN CASE server = "new"  -> {{"hup"}}
         [] server = "up"   -> {{}} \cup {{"in"} : d \in {d \in Conns : life[d] = "none"}}
         [] server = "gone" -> {{}, {"nval"}, {"in"}, {"hup"}, {"in", "hup"}}
  ELSE LET out == IF "write" \in events_[c] THEN {{}, {"out"}} ELSE {{}}
           in  == IF peer[c] = "open" THEN {{}, {"in"}}
                                      ELSE {{"in"}, {"in", "hup"}}
       IN  {i \cup o : i \in in, o \in out}

SlotChannels == [i \in DOMAIN pollfds_ |-> channels_[pollfds_[i].fd]]

(* The active channels, in the order of their slots. *)
fillActiveChannels(r) ==
  LET first[i \in 0..Len(pollfds_)] ==
        IF i = 0 THEN <<>>
        ELSE IF r[SlotChannels[i]] = {} THEN first[i - 1]
        ELSE Append(first[i - 1], SlotChannels[i])
  IN  first[Len(pollfds_)]

(* The revents are stored in every active channel, which may crash if the  *)
(* channel is gone.                                                        *)
Poll ==
  /\ Running /\ pc = "poll"
  /\ \E r \in [Range(SlotChannels) -> UNION {ReventsOf(c) : c \in Channels}] :
       /\ \A c \in DOMAIN r : r[c] \in ReventsOf(c)
       /\ (\E c \in DOMAIN r : r[c] # {}) \/ functors_ # <<>>
       /\ revents_' = [c \in Channels |->
                         IF c \in DOMAIN r THEN r[c] ELSE {}]
       /\ active_channels_' = fillActiveChannels(r)
  /\ IF \E c \in Range(active_channels_') : life[c] = "freed"
     THEN UseFreed("next")
     ELSE Goto("next") /\ UNCHANGED pvars
  /\ UNCHANGED <<conns, work, told, others>>

(* The next active channel; when there is none, doPendingFunctors() swaps  *)
(* the queue out.  The revents_ of a channel that has been handled are not *)
(* read again before the next poll(2) sets them.                           *)
NextChannel ==
  /\ Running /\ pc = "next"
  /\ IF active_channels_ = <<>>
     THEN /\ pc' = "functors" /\ cur' = Listen
          /\ works' = functors_ /\ functors_' = <<>>
          /\ UNCHANGED active_channels_
     ELSE /\ pc' = "event" /\ cur' = Head(active_channels_)
          /\ active_channels_' = Tail(active_channels_)
          /\ UNCHANGED work
  /\ revents_' = [revents_ EXCEPT ![cur] = IF cur' = cur THEN @ ELSE {}]
  /\ ret' = "poll"
  /\ UNCHANGED <<pvars, conns, told, others>>

-----------------------------------------------------------------------------
(* Channel::HandleEvent for the listening channel *)

ConnectEstablished(c) ==
  /\ state_' = [state_ EXCEPT ![c] = "kConnected"]
  /\ ups' = [ups EXCEPT ![c] = @ + 1]
  /\ Call(c, "next")

(* Acceptor::handleRead and the server's new-connection callback: the      *)
(* connection is constructed, put into the map and established.            *)
handleRead_NotReading(c) ==
  /\ At("event", Listen) /\ "in" \in revents_[Listen] /\ life[Listen] = "live"
  /\ life[c] = "none"
  /\ \A d \in Channels : life[d] = "live" => FdOf[d] # FdOf[c]
  /\ life' = [life EXCEPT ![c] = "live"]
  /\ UNCHANGED <<events_, index_, pollfds_, channels_, shifted, aborted>>
  /\ connections_' = connections_ \cup {c}
  /\ ConnectEstablished(c)
  /\ UNCHANGED <<server, polled, work, downs, others>>

handleRead(c) ==
  /\ At("event", Listen) /\ "in" \in revents_[Listen] /\ life[Listen] = "live"
  /\ life[c] = "none"
  /\ \A d \in Channels : life[d] = "live" => FdOf[d] # FdOf[c]
  /\ life' = [life EXCEPT ![c] = "live"]
  /\ UpdateChannel(c, {"read"})
  /\ connections_' = connections_ \cup {c}
  /\ ConnectEstablished(c)
  /\ UNCHANGED <<server, polled, work, downs, others>>

AcceptFailed ==
  /\ At("event", Listen) /\ "in" \in revents_[Listen]
  /\ Fail("accept")
  /\ UNCHANGED svars

(* It has no close callback, so a hang-up only costs a round; and after    *)
(* the server it is gone itself, with whatever the callback would use.     *)
ListenIdle ==
  /\ At("event", Listen)
  /\ "in" \notin revents_[Listen] \/ life[Listen] = "freed"
  /\ IF life[Listen] = "freed" THEN UseFreed("next")
                               ELSE Goto("next") /\ UNCHANGED pvars
  /\ UNCHANGED <<conns, polled, work, told, others>>

-----------------------------------------------------------------------------
(* Channel::HandleEvent for a connection *)

(* TcpConnection::HandleClose and the server's close callback, up to the   *)
(* call of ConnectDestroyed(); r is where HandleEvent() continues.  The    *)
(* assertions they make are the property CloseAssertions.                  *)
Close(c, r, events, state, map) ==
  /\ UpdateChannel(c, events)
  /\ state_' = [state_ EXCEPT ![c] = state]
  /\ connections_' = map
  /\ pc' = "destroy" /\ ret' = r
  /\ UNCHANGED <<life, cur, server>>

HandleClose_KeepInMap(c, r) == Close(c, r, {}, "kDisconnected", connections_)

HandleClose_StillReading(c, r) ==
  Close(c, r, {"read"}, "kDisconnected", connections_ \ {c})

HandleClose_NoState(c, r) == Close(c, r, {}, state_[c], connections_ \ {c})

HandleClose(c, r) == Close(c, r, {}, "kDisconnected", connections_ \ {c})

AtEvent(c) == At("event", c) /\ c \in Conns

(* POLLHUP: the close callback, then HandleEvent() returns. *)
HandleHup(c) ==
  /\ AtEvent(c)
  /\ "hup" \in revents_[c]
  /\ HandleClose(c, "next")
  /\ UNCHANGED <<polled, work, told, others>>

(* POLLIN: HandleRead() gets end of file, ... *)
ReadEof(c) ==
  /\ AtEvent(c)
  /\ "hup" \notin revents_[c] /\ "in" \in revents_[c]
  /\ peer[c] = "closed"
  /\ HandleClose(c, "write")
  /\ UNCHANGED <<polled, work, told, others>>

(* ... or data and calls the message callback, ... *)
ReadData(c) ==
  /\ AtEvent(c)
  /\ "hup" \notin revents_[c] /\ "in" \in revents_[c]
  /\ Call(c, "write")
  /\ UNCHANGED <<pvars, conns, polled, work, told, others>>

(* ... or an error that HandleError() logs; or there is nothing to read.   *)
ReadNothing(c) ==
  /\ AtEvent(c)
  /\ "hup" \notin revents_[c]
  /\ Goto("write")
  /\ UNCHANGED <<pvars, conns, polled, work, told, others>>

(* POLLOUT: HandleWrite() sends a part of snd_buffer_, or all of it: then  *)
(* it disables writing and makes the write-complete callback.  It reads    *)
(* revents_ after the read callback, which may have destroyed the channel. *)
HandleWrite(c) ==
  /\ At("write", c) /\ life[c] = "live"
  /\ "out" \in revents_[c] /\ "write" \in events_[c]
  /\ \/ UpdateChannel(c, events_[c] \ {"write"}) /\ UNCHANGED life /\ Call(c, "next")
     \/ Goto("next") /\ UNCHANGED pvars
  /\ UNCHANGED <<conns, polled, work, told, others>>

NoWrite(c) ==
  /\ At("write", c) /\ life[c] = "live"
  /\ "out" \notin revents_[c] \/ "write" \notin events_[c]
  /\ Goto("next")
  /\ UNCHANGED <<pvars, conns, polled, work, told, others>>

FreedWrite(c) ==
  /\ At("write", c) /\ life[c] = "freed"
  /\ UseFreed("next")
  /\ UNCHANGED <<conns, polled, work, told, others>>

-----------------------------------------------------------------------------
(* TcpConnection::ConnectDestroyed, and the end of a connection *)

ConnectDestroyed(c) ==
  /\ At("destroy", c)
  /\ IF state_[c] \in {"kConnected", "kDisconnecting"}
     THEN UpdateChannel(c, {}) /\ UNCHANGED life
     ELSE UNCHANGED pvars
  /\ state_' = [state_ EXCEPT ![c] = "kDisconnected"]
  /\ downs' = [downs EXCEPT ![c] = @ + 1]
  /\ Goto("userDown")
  /\ UNCHANGED <<connections_, server, polled, work, ups, others>>

(* ~TcpConnection, with the state asserted there. *)
Free(c) ==
  /\ life' = [life EXCEPT ![c] = "freed"]
  /\ aborted' = IF state_[c] = "kDisconnected" THEN "none" ELSE "~TcpConnection"
  /\ UNCHANGED <<events_, index_, pollfds_, channels_, shifted>>

(* The callback made by ConnectDestroyed() returns and the loop thread's   *)
(* own TcpConnectionPtr goes: the object is destroyed here unless the      *)
(* application holds a copy.                                               *)
UserDownReturns ==
  /\ Running /\ pc = "userDown"
  /\ IF cur \in held THEN UNCHANGED pvars ELSE Free(cur)
  /\ Goto(ret)
  /\ UNCHANGED <<conns, polled, work, told, others>>

-----------------------------------------------------------------------------
(* The application's callbacks, in the loop thread: any number of calls on *)
(* the connection at hand or on one it holds, then return.                 *)

InUser(c) == Running /\ pc \in {"user", "userDown"} /\ c \in held \cup {cur}

UserHold(c) ==
  /\ InUser(c) /\ c \notin held
  /\ held' = held \cup {c}
  /\ UNCHANGED <<pvars, loopvars, conns, polled, work, told, tpc, peer>>

(* Shutdown() in the loop thread: shutdownInLoop() runs on the spot. *)
UserShutdown(c) ==
  /\ InUser(c) /\ state_[c] = "kConnected"
  /\ state_' = [state_ EXCEPT ![c] = "kDisconnecting"]
  /\ UNCHANGED <<pvars, loopvars, connections_, server, polled, work, told, others>>

(* sendInLoop() with data that does not fit into the socket's buffer.      *)
(* (Also after the write end is shut down, where the write fails instead:  *)
(* the socket's state belongs to TcpConnection.)                           *)
SendBuffered(c) ==
  IF "write" \in events_[c]
  THEN UNCHANGED pvars
  ELSE UpdateChannel(c, events_[c] \cup {"write"}) /\ UNCHANGED life

UserSend(c) ==
  /\ InUser(c)
  /\ SendBuffered(c)
  /\ UNCHANGED svars

(* The callback returns.  When sendInLoop() ran as a functor, the copy     *)
(* bound for the write-complete callback may be the last.                  *)
UserReturns ==
  /\ Running /\ pc = "user"
  /\ IF cur \in connections_ \cup held THEN UNCHANGED pvars ELSE Free(cur)
  /\ Goto(ret)
  /\ UNCHANGED <<conns, polled, work, told, others>>

-----------------------------------------------------------------------------
(* doPendingFunctors(): the functors of Send() and Shutdown() capture the  *)
(* connection as a raw this.                                               *)

RunFunctor(op) ==
  /\ Running /\ pc = "functors" /\ works # <<>>
  /\ Head(works)[1] \in op
  /\ works' = Tail(works)
  /\ UNCHANGED <<functors_, conns, polled, told, others>>

(* sendInLoop() leaves data in the buffer, or writes it all and makes the  *)
(* write-complete callback on the spot, or cannot write at all.            *)
RunSend(c) ==
  /\ RunFunctor({"send"})
  /\ c = Head(works)[2] /\ life[c] = "live"
  /\ \/ SendBuffered(c) /\ UNCHANGED loopvars
     \/ "write" \notin events_[c] /\ Call(c, "functors") /\ UNCHANGED pvars
     \/ "write" \notin events_[c] /\ UNCHANGED <<pvars, loopvars>>

RunShutdown ==
  /\ RunFunctor({"shutdown"})
  /\ life[Head(works)[2]] = "live"
  /\ UNCHANGED <<pvars, loopvars>>

RunFreed ==
  /\ RunFunctor({"send", "shutdown"})
  /\ life[Head(works)[2]] = "freed"
  /\ UseFreed("functors")

FunctorsDone ==
  /\ Running /\ pc = "functors" /\ works = <<>>
  /\ Goto("poll")
  /\ UNCHANGED <<pvars, conns, polled, work, told, others>>

-----------------------------------------------------------------------------
(* Other threads, using the connections the application holds *)

Caller == Running /\ UNCHANGED <<pvars, loopvars, connections_, server, polled,
                                 works, told, held, peer>>

Push(functor) ==
  Len(functors_) < MaxQueue /\ functors_' = Append(functors_, functor)

(* Send(): the functor is queued. *)
Send(t, c) ==
  /\ Caller /\ tpc[t][1] = "out" /\ c \in held
  /\ Push(<<"send", c>>)
  /\ UNCHANGED <<state_, tpc>>

(* Shutdown(): the test of state_, the store to it, RunInLoop(). *)
ShutdownTest(t, c) ==
  /\ Caller /\ tpc[t][1] = "out" /\ c \in held
  /\ state_[c] = "kConnected"
  /\ tpc' = [tpc EXCEPT ![t] = <<"store", c>>]
  /\ UNCHANGED <<state_, functors_>>

ShutdownStore(t) ==
  /\ Caller /\ tpc[t][1] = "store"
  /\ state_' = [state_ EXCEPT ![tpc[t][2]] = "kDisconnecting"]
  /\ tpc' = [tpc EXCEPT ![t] = <<"push", tpc[t][2]>>]
  /\ UNCHANGED functors_

ShutdownPush(t) ==
  /\ Caller /\ tpc[t][1] = "push"
  /\ Push(<<"shutdown", tpc[t][2]>>)
  /\ tpc' = [tpc EXCEPT ![t] = <<"out", Listen>>]
  /\ UNCHANGED state_

(* The loop thread has a TcpConnectionPtr of its own to c: the argument of *)
(* a callback, or the shared_from_this() of HandleClose().                 *)
LoopHolds(c) == cur = c /\ pc \in {"user", "userDown", "destroy"}

(* The application lets go of its copy, between calls on it. *)
Release(c) ==
  /\ Running /\ c \in held
  /\ \A t \in Callers : tpc[t][2] # c
  /\ held' = held \ {c}
  /\ IF c \in connections_ \/ LoopHolds(c) THEN UNCHANGED pvars ELSE Free(c)
  /\ UNCHANGED <<loopvars, conns, polled, work, told, tpc, peer>>

PeerCloses(c) ==
  /\ Running /\ life[c] = "live" /\ peer[c] = "open"
  /\ peer' = [peer EXCEPT ![c] = "closed"]
  /\ UNCHANGED <<pvars, loopvars, conns, polled, work, told, held, tpc>>

-----------------------------------------------------------------------------
(* ~TcpServer(), after loop() has returned: ConnectDestroyed() for every   *)
(* connection in the map, then the Acceptor goes, with its channel still   *)
(* registered.  loop() may be called again.                                *)

DestroyServer ==
  /\ Running /\ pc = "poll" /\ server # "gone"
  /\ Goto("server")
  /\ UNCHANGED <<pvars, conns, polled, work, told, others>>

DestroyConnection(c) ==
  /\ Running /\ pc = "server" /\ c \in connections_
  /\ connections_' = connections_ \ {c}
  /\ pc' = "destroy" /\ cur' = c /\ ret' = "server"
  /\ UNCHANGED <<pvars, state_, server, polled, work, told, others>>

ServerGone ==
  /\ Running /\ pc = "server" /\ connections_ = {}
  /\ server' = "gone"
  /\ life' = [life EXCEPT ![Listen] = "freed"]
  /\ Goto("poll")
  /\ UNCHANGED <<events_, index_, pollfds_, channels_, aborted, shifted,
                 state_, connections_, polled, work, told, others>>

-----------------------------------------------------------------------------
CloseEvent(c) == HandleHup(c) \/ ReadEof(c)

LoopThread ==
  \/ Poll \/ NextChannel \/ ListenIdle \/ UserReturns \/ UserDownReturns
  \/ RunShutdown \/ RunFreed \/ FunctorsDone
  \/ \E c \in Conns :
       \/ handleRead(c) \/ CloseEvent(c) \/ ReadData(c) \/ ReadNothing(c)
       \/ HandleWrite(c) \/ NoWrite(c) \/ FreedWrite(c)
       \/ ConnectDestroyed(c) \/ DestroyConnection(c) \/ RunSend(c)
  \/ ServerGone

UserCode ==
  \/ Start \/ DestroyServer
  \/ \E c \in Conns : UserHold(c) \/ UserShutdown(c) \/ UserSend(c) \/ Release(c)
  \/ \E t \in Callers, c \in Conns : Send(t, c) \/ ShutdownTest(t, c)
  \/ \E t \in Callers : ShutdownStore(t) \/ ShutdownPush(t)

Environment == AcceptFailed \/ \E c \in Conns : PeerCloses(c)

ServerNext == LoopThread \/ UserCode \/ Environment

ServerSpec == ServerInit /\ [][ServerNext]_allvars

(* The loop thread runs and the application's callbacks return; reading    *)
(* from a closed peer does not return data or an error forever.            *)
FairServerSpec ==
  /\ ServerSpec
  /\ WF_allvars(LoopThread)
  /\ \A c \in Conns : SF_allvars(CloseEvent(c))

-----------------------------------------------------------------------------
(* Properties *)

(* Every variable has the type of what it models: the server's map has     *)
(* connections only, and queue and batch of functors stay within the bound. *)
ServerTypeOK ==
  /\ life \in [Channels -> {"none", "live", "freed"}]
  /\ state_ \in [Conns -> {"kConnecting", "kConnected", "kDisconnecting",
                           "kDisconnected"}]
  /\ connections_ \subseteq Conns /\ held \subseteq Conns
  /\ server \in {"new", "up", "gone"}
  /\ active_channels_ \in Seq(Channels)
  /\ revents_ \in [Channels -> SUBSET {"in", "out", "hup", "nval"}]
  /\ pc \in {"poll", "event", "write", "user", "destroy", "userDown", "next",
             "functors", "server"}
  /\ ret \in {"poll", "next", "write", "server", "functors"} /\ cur \in Channels
  /\ functors_ \in Seq({"send", "shutdown"} \X Conns)
  /\ works \in Seq({"send", "shutdown"} \X Conns)
  /\ Len(functors_) <= MaxQueue /\ Len(works) <= MaxQueue

(* Whenever the loop thread goes back to poll, the server's map, the poll  *)
(* set and the connection states agree: a connection is in the map iff its *)
(* channel is registered, every connected one is in it and every one in it *)
(* is connected or half-closed, and one that is not in it is only alive    *)
(* because the application holds it.  (A Shutdown() in another thread may  *)
(* leave a closed connection in kDisconnecting: see DestructorAssertion.)  *)
ServerAgrees ==
  /\ ServerTypeOK
  /\ Running /\ pc = "poll" =>
       \A c \in Conns :
         /\ c \in connections_ <=> c \in Range(SlotChannels)
         /\ c \in connections_ => state_[c] \in {"kConnected", "kDisconnecting"}
         /\ state_[c] = "kConnected" => c \in connections_
         /\ life[c] = "live" => c \in connections_ \cup held
         /\ c \in connections_ => life[c] = "live"

(* The Channel pointers in the hands of the loop, those of the poll set,   *)
(* of active_channels_ and of the HandleEvent() that runs, lead to live    *)
(* channels, whatever the callbacks before it in the same iteration have   *)
(* closed and released, with two exceptions: the Acceptor's, which         *)
(* ~TcpServer() leaves registered, and the one whose HandleEvent() has     *)
(* just read the end of file and told the application of it, which may be  *)
(* destroyed before HandleEvent() tests for POLLOUT.                       *)
DanglingOnlyAfterClose ==
  Running =>
    /\ \A c \in Range(SlotChannels) \cup Range(active_channels_)
                \cup (IF pc = "event" THEN {cur} ELSE {}) :
         life[c] = "live" \/ (c = Listen /\ server = "gone")
    /\ pc = "write" =>
         \/ life[cur] = "live"
         \/ cur \notin connections_ /\ peer[cur] = "closed" /\ downs[cur] = 1

(* The application hears of every connection exactly once when it comes    *)
(* and exactly once when it goes (the last call before the object dies),   *)
(* however the end comes: end of file, hang-up, or the server destroyed,   *)
(* with Shutdown() racing any of them from another thread.                 *)
NotifiedOnce ==
  Running => \A c \in Conns :
    /\ downs[c] <= ups[c] /\ ups[c] <= 1
    /\ life[c] = "freed" => downs[c] = 1

(* HandleClose() finds the connection connected or half-closed, and the    *)
(* server's close callback finds it in the map: the assertions at          *)
(* tcp_connection.cc:55 and tcp_server.cc:57, whatever other threads do.   *)
CloseAssertions ==
  [][\A c \in Conns : CloseEvent(c) =>
       state_[c] \in {"kConnected", "kDisconnecting"} /\ c \in connections_]_allvars

(* The library by itself never updates a channel it has unregistered (the  *)
(* assertion at poller.cc:69).  That takes a Send() on a connection that   *)
(* has left the server, or a Shutdown() in another thread whose store to   *)
(* state_ came between HandleClose() and ConnectDestroyed(), which then    *)
(* disables the channel a second time.                                     *)
UnregisteredOnlyByLateCalls ==
  [][aborted' = "not registered" =>
       \/ \E c \in Conns \ connections_ : UserSend(c) \/ RunSend(c)
       \/ pc = "destroy" /\ ret # "server" /\ state_[cur] = "kDisconnecting"]_allvars

(* A connection whose peer has closed leaves the server.                   *)
PeerCloseRemoves ==
  \A c \in Conns :
    (c \in connections_ /\ peer[c] = "closed")
      ~> (c \notin connections_ \/ ~Running)

(* HandleEvent() does not touch a connection that was destroyed under it.  *)
(* tcp_server.cc:59 says the connection object is kept.                    *)
HandleEventOnLiveChannel == Running /\ pc = "write" => life[cur] = "live"

(* The slot a channel remembers is its slot: the assertions at             *)
(* poller.cc:73 and poller.cc:76.                                          *)
SlotAssertions == aborted \notin {"slot range", "slot owner"}

(* A connection is disconnected when it dies: the assertion at             *)
(* tcp_connection.cc:30, with Shutdown() from another thread.              *)
DestructorAssertion == aborted # "~TcpConnection"

(* A functor queued by Send() or Shutdown() from another thread runs on a  *)
(* live connection.                                                        *)
FunctorOnLiveConnection ==
  Running /\ works # <<>> => life[Head(works)[2]] = "live"
=============================================================================
