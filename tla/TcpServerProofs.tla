-------------------------- MODULE TcpServerProofs --------------------------
(***************************************************************************)
(* Proofs about TcpServer, for any number of connections, callers and      *)
(* descriptors: map, poll set and connection states agree, the loop can    *)
(* reach a destroyed channel in two places only, the application is told   *)
(* of every connection once, and the assertions of closing a connection    *)
(* hold.                                                                   *)
(***************************************************************************)
EXTENDS TcpServer, PollerProofs

-----------------------------------------------------------------------------
(* The invariant *)

(* The loop thread is between HandleClose() or ~TcpServer() and            *)
(* ConnectDestroyed() of c, or anywhere up to the end of that, or in a     *)
(* callback that a functor made: its own copy of c may be the last.        *)
Closing(c) == pc = "destroy" /\ cur = c
Ending(c) == cur = c /\ (pc \in {"destroy", "userDown"} \/ (pc = "user" /\ ret = "functors"))

(* The life of a connection: not constructed; in the map, connected or     *)
(* half-closed, with its channel reading; being closed; and closed, when   *)
(* only the application or the loop thread keeps it alive.                 *)
ConnInv(c) ==
  /\ life[c] = "none" => /\ c \notin connections_ /\ c \notin held
                         /\ state_[c] # "kConnected" /\ index_[c] < 0
                         /\ ups[c] = 0 /\ downs[c] = 0
  /\ life[c] # "none" => index_[c] >= 0 /\ ups[c] = 1
  /\ c \in connections_ =>
       /\ life[c] = "live" /\ "read" \in events_[c] /\ downs[c] = 0
       /\ state_[c] \in {"kConnected", "kDisconnecting"}
  /\ Closing(c) =>
       /\ downs[c] = 0
       /\ ret = "server" => /\ "read" \in events_[c]
                            /\ state_[c] \in {"kConnected", "kDisconnecting"}
       /\ ret # "server" => events_[c] = {} /\ state_[c] # "kConnected"
  /\ life[c] # "none" /\ c \notin connections_ /\ ~Closing(c) =>
       downs[c] = 1 /\ events_[c] = {} /\ state_[c] # "kConnected"
  /\ life[c] = "live" /\ c \notin connections_ => c \in held \/ Ending(c)
  /\ c \in held => life[c] = "live"

(* The channels still to be handled are the listening one and connections  *)
(* of the map, none of them twice: closing the one at hand does not touch  *)
(* the rest.                                                               *)
ActiveInv ==
  /\ \A i \in 1..Len(active_channels_) : active_channels_[i] \in connections_ \cup {Listen}
  /\ \A i, j \in 1..Len(active_channels_) :
       active_channels_[i] = active_channels_[j] => i = j
  /\ pc \in {"event", "write", "user", "destroy", "userDown"} =>
       \A i \in 1..Len(active_channels_) : active_channels_[i] # cur
  /\ pc \in {"poll", "functors", "server"} => active_channels_ = <<>>
  /\ pc \in {"destroy", "userDown"} /\ ret = "server" => active_channels_ = <<>>
  /\ pc = "user" /\ ret = "functors" => active_channels_ = <<>>

(* Which connection the loop thread is at. *)
LoopInv ==
  /\ pc \in {"destroy", "userDown"} =>
       /\ cur \in Conns /\ cur \notin connections_ /\ life[cur] = "live"
       /\ ret \in {"next", "write", "server"}
  /\ pc = "user" =>
       /\ cur \in Conns /\ life[cur] = "live" /\ ret \in {"next", "write", "functors"}
       /\ ret # "functors" => cur \in connections_
  /\ pc = "event" => cur \in connections_ \cup {Listen}

(* A caller inside Shutdown() uses a connection the application holds. *)
CallersInv ==
  /\ tpc \in [Callers -> {"out", "store", "push"} \X Channels]
  /\ \A t \in Callers : tpc[t][1] # "out" => tpc[t][2] \in held

(* The poll set is in order until ~TcpServer() destroys the Acceptor and   *)
(* leaves its slot, the only one, behind.                                  *)
PollSet ==
  /\ server # "gone" => IInv /\ life[Listen] = "live"
  /\ server = "gone" =>
       /\ PollerTypeOK /\ SlotsDistinct /\ life[Listen] = "freed"
       /\ \A fd \in DOMAIN channels_ : channels_[fd] = Listen
       /\ \A i \in 1..Len(pollfds_) :
            pollfds_[i].fd = FdOf[Listen] /\ FdOf[Listen] \in DOMAIN channels_

(* From then on only functors use connections, those the application still *)
(* holds.                                                                  *)
GoneInv ==
  server = "gone" =>
    connections_ = {} /\ pc \in {"poll", "next", "event", "functors", "user"}

Counted == ups \in [Conns -> Nat] /\ downs \in [Conns -> Nat]

RunInv ==
  /\ \A c \in Conns : ConnInv(c)
  /\ ActiveInv /\ LoopInv /\ CallersInv /\ PollSet /\ GoneInv /\ Counted

(* Where HandleEvent() may have lost its connection: only the end of file  *)
(* leads from its read callback to a close.                                *)
WriteInv ==
  /\ pc \in {"destroy", "userDown"} /\ ret = "write" => peer[cur] = "closed"
  /\ pc = "write" =>
       /\ cur \in Conns /\ life[cur] # "none"
       /\ cur \in connections_ \/ peer[cur] = "closed"

Peers == peer \in [Conns -> {"open", "closed"}]

ServerInv == ServerTypeOK /\ Peers /\ (Running => RunInv /\ WriteInv)

-----------------------------------------------------------------------------
(* What the invariant says of the poll set *)

LEMMA ConnsAreChannels == Conns \subseteq Channels /\ Listen \in Channels /\ Listen \notin Conns
BY ServerAssumption

(* No connection is destroyed while its channel is registered. *)
LEMMA FreedUnregistered ==
  ASSUME RunInv, server # "gone", NEW c \in Channels, life[c] = "freed"
  PROVE  events_[c] = {}
<1>1. c # Listen
  BY DEF RunInv, PollSet
<1>2. c \in Conns
  BY <1>1, ServerAssumption, Zenon
<1>3. ConnInv(c)
  BY <1>2, Zenon DEF RunInv
<1>4. ~Closing(c)
  BY Zenon DEF RunInv, LoopInv, Closing
<1> QED
  BY <1>3, <1>4 DEF ConnInv

(* Every slot leads to a channel of its own: the listening one, or a       *)
(* connection that asks for events.                                        *)
LEMMA SlotFacts ==
  ASSUME RunInv, Running, NEW n, n = Len(pollfds_)
  PROVE  /\ n \in Nat /\ DOMAIN SlotChannels = 1..n
         /\ \A i \in 1..n : SlotChannels[i] \in Channels
         /\ \A i \in 1..n : SlotChannels[i] # Listen =>
              life[SlotChannels[i]] = "live" /\ events_[SlotChannels[i]] # {}
         /\ \A i, j \in 1..n : SlotChannels[i] = SlotChannels[j] => i = j
<1>0. PollSet
  BY Zenon DEF RunInv
<1>1. PollerTypeOK /\ SlotsDistinct
  BY <1>0 DEF PollSet, IInv, Running, Agree
<1>2. pollfds_ \in Seq(Slot) /\ n \in Nat /\ DOMAIN pollfds_ = 1..n
  <2>1. pollfds_ \in Seq(Slot)
    BY <1>1, Types
  <2> QED
    BY ONLY <2>1, n = Len(pollfds_)
<1>3. /\ DOMAIN SlotChannels = 1..n
      /\ \A i \in 1..n : SlotChannels[i] = channels_[pollfds_[i].fd]
  BY <1>2, Zenon DEF SlotChannels
<1>4. ASSUME NEW i \in 1..n
      PROVE  /\ pollfds_[i].fd \in DOMAIN channels_
             /\ FdOf[SlotChannels[i]] = pollfds_[i].fd
             /\ SlotChannels[i] # Listen =>
                  life[SlotChannels[i]] = "live" /\ events_[SlotChannels[i]] # {}
  <2>1. CASE server = "gone"
    BY <1>0, <1>3, <2>1 DEF PollSet
  <2>2. CASE server # "gone"
    <3>1. SlotsHaveChannels
      BY <1>0, <2>2 DEF PollSet, IInv, Running, Agree
    <3>2. pollfds_[i].fd \in DOMAIN channels_ /\ Belongs(i, SlotChannels[i])
      BY <1>3, <3>1, Zenon DEF SlotsHaveChannels
    <3>3. SlotChannels[i] \in Channels /\ life \in [Channels -> {"none", "live", "freed"}]
      BY <1>1, <1>3, <3>2, Zenon DEF PollerTypeOK
    <3>4. life[SlotChannels[i]] # "freed"
      BY <2>2, <3>2, <3>3, FreedUnregistered, Zenon DEF Belongs
    <3>5. life[SlotChannels[i]] \in {"none", "live", "freed"}
      BY <3>3, Zenon
    <3> QED
      BY <3>2, <3>4, <3>5, Zenon DEF Belongs
  <2> QED
    BY <2>1, <2>2
<1>5. channels_ \in [DOMAIN channels_ -> Channels]
  BY <1>1, Zenon DEF PollerTypeOK
<1>6. \A i \in 1..n : SlotChannels[i] \in Channels
  BY <1>3, <1>4, <1>5, Zenon
<1>7. \A i, j \in 1..n : SlotChannels[i] = SlotChannels[j] => i = j
  <2>1. \A i, j \in 1..n : i # j => pollfds_[i].fd # pollfds_[j].fd
    BY ONLY <1>1, n = Len(pollfds_), Zenon DEF SlotsDistinct
  <2>2. \A i \in 1..n : FdOf[SlotChannels[i]] = pollfds_[i].fd
    BY ONLY <1>4
  <2> SUFFICES ASSUME NEW i \in 1..n, NEW j \in 1..n, SlotChannels[i] = SlotChannels[j]
               PROVE  i = j
    BY Zenon
  <2>3. FdOf[SlotChannels[i]] = FdOf[SlotChannels[j]]
    BY Zenon
  <2>4. pollfds_[i].fd = pollfds_[j].fd
    BY ONLY <2>2, <2>3, i \in 1..n, j \in 1..n, Zenon
  <2> QED
    BY ONLY <2>1, <2>4, i \in 1..n, j \in 1..n, Zenon
<1> QED
  BY ONLY <1>2, <1>3, <1>4, <1>6, <1>7, Zenon

(* A live connection that asks for events has a slot. *)
LEMMA SlotOf ==
  ASSUME PollSet, Running, server # "gone", NEW c \in Channels, life[c] = "live", events_[c] # {}
  PROVE  \E i \in 1..Len(pollfds_) : SlotChannels[i] = c
<1>1. PollerTypeOK /\ Agree
  BY DEF PollSet, IInv, Running
<1>2. FdOf[c] \in DOMAIN channels_
  BY <1>1, Zenon DEF Agree, EventsRegistered
<1>3. PICK i \in 1..Len(pollfds_) : pollfds_[i].fd = FdOf[c]
  BY <1>1, <1>2, EntryHasSlot, Zenon
<1>4. channels_[FdOf[c]] = c
  BY <1>1, Zenon DEF Agree, EventsRegistered
<1>5. i \in DOMAIN pollfds_
  <2>1. pollfds_ \in Seq(Slot)
    BY <1>1, Types
  <2> QED
    BY ONLY <1>3, <2>1
<1>6. SlotChannels[i] = c
  BY <1>3, <1>4, <1>5, Zenon DEF SlotChannels
<1> QED
  BY <1>6

-----------------------------------------------------------------------------
(* What steps leave alone *)

Same(d) ==
  /\ life'[d] = life[d] /\ state_'[d] = state_[d]
  /\ events_'[d] = events_[d] /\ index_'[d] = index_[d]
  /\ ups'[d] = ups[d] /\ downs'[d] = downs[d]
  /\ (d \in connections_' <=> d \in connections_) /\ (d \in held' <=> d \in held)

LEMMA SameConn ==
  ASSUME NEW d, ConnInv(d), Same(d), (~Ending(d) /\ ~Ending(d)') \/ UNCHANGED loopvars
  PROVE  ConnInv(d)'
<1>1. CASE ~Ending(d) /\ ~Ending(d)'
  BY <1>1 DEF ConnInv, Same, Closing, Ending
<1>2. CASE UNCHANGED loopvars
  BY <1>2 DEF ConnInv, Same, Closing, Ending, loopvars
<1> QED
  BY <1>1, <1>2

LEMMA UnchangedSame ==
  ASSUME NEW d, UNCHANGED <<pvars, state_, connections_, told, held>> PROVE Same(d)
BY DEF pvars, told, Same

LEMMA ActiveStays ==
  ASSUME ActiveInv, UNCHANGED <<active_channels_, connections_, pc, cur, ret>>
  PROVE  ActiveInv'
BY DEF ActiveInv

LEMMA PollSetStays ==
  ASSUME PollSet, UNCHANGED pvars, server' = "gone" <=> server = "gone" PROVE PollSet'
<1>1. CASE server = "gone"
  <2>1. UNCHANGED <<life, events_, index_, pollfds_, channels_, aborted, shifted, server>>
    BY <1>1 DEF pvars
  <2>2. PollerTypeOK'
    BY <1>1, <2>1, Zenon DEF PollSet, PollerTypeOK
  <2> QED
    BY <1>1, <2>1, <2>2 DEF PollSet, SlotsDistinct
<1>2. CASE server # "gone"
  <2>1. IInv' /\ life' = life /\ server' # "gone"
    BY <1>2, StutterKeepsInv DEF PollSet, pvars
  <2> QED
    BY <1>2, <2>1, Zenon DEF PollSet
<1> QED
  BY <1>1, <1>2

(* Most steps of the loop thread only move it: what is left to show is     *)
(* where it gets to.                                                       *)
Quiet ==
  /\ UNCHANGED <<pvars, state_, connections_, told, held>>
  /\ (server' = "gone" <=> server = "gone")
  /\ \A d \in Conns : (~Ending(d) /\ ~Ending(d)') \/ UNCHANGED loopvars

LEMMA QuietStep ==
  ASSUME RunInv, Quiet
  PROVE  (\A d \in Conns : ConnInv(d)') /\ PollSet' /\ Counted'
<1>1. \A d \in Conns : ConnInv(d)'
  <2> SUFFICES ASSUME NEW d \in Conns PROVE ConnInv(d)'
    BY Zenon
  <2>1. Same(d) /\ ConnInv(d) /\ ((~Ending(d) /\ ~Ending(d)') \/ UNCHANGED loopvars)
    BY UnchangedSame, Zenon DEF Quiet, RunInv
  <2> QED
    BY ONLY <2>1, SameConn, Zenon
<1>2. PollSet'
  BY PollSetStays, Zenon DEF Quiet, RunInv
<1>3. Counted'
  BY Zenon DEF Quiet, RunInv, Counted, told
<1> QED
  BY <1>1, <1>2, <1>3

-----------------------------------------------------------------------------
(* Updates of a connection's channel *)

(* One that has been registered: it fails the assertion of being           *)
(* registered exactly when it asks for no events any more.                 *)
LEMMA ConnUpdate ==
  ASSUME PollSet, Running, server # "gone", NEW c \in Conns, life[c] = "live", index_[c] >= 0,
         NEW events \in SUBSET {"read", "write"}, UpdateChannel(c, events), UNCHANGED life
  PROVE  /\ events_[c] = {} => aborted' = "not registered"
         /\ events_[c] # {} => aborted' # "not registered"
         /\ Running' => /\ IInv' /\ index_' = index_
                        /\ events_'[c] = events
                        /\ \A d \in Channels : d # c => events_'[d] = events_[d]
<1>1. /\ IInv /\ PollerTypeOK /\ Agree /\ aborted = "none" /\ c \in Channels
      /\ index_[c] \in Int /\ ~(index_[c] < 0)
  <2>1. IInv /\ PollerTypeOK /\ Agree /\ aborted = "none" /\ c \in Channels
    BY ConnsAreChannels DEF PollSet, IInv, Running
  <2>2. index_[c] \in Int
    BY <2>1, Types
  <2> QED
    BY <2>1, <2>2
<1>2. aborted' = FailedAssertion(c)
  BY Zenon DEF UpdateChannel
<1>3. events_[c] = {} => aborted' = "not registered"
  <2>1. FdOf[c] \in DOMAIN channels_ => events_[c] # {}
    BY <1>1, EntryIsOwn DEF Belongs
  <2> QED
    BY ONLY <1>1, <1>2, <2>1, Zenon DEF FailedAssertion, Registered
<1>4. events_[c] # {} => aborted' # "not registered"
  <2>1. events_[c] # {} => FdOf[c] \in DOMAIN channels_
    BY <1>1, Zenon DEF Agree, EventsRegistered
  <2> QED
    BY <1>1, <1>2, <2>1, Zenon DEF FailedAssertion, Registered
<1>5. ASSUME Running'
      PROVE  /\ IInv' /\ index_' = index_
             /\ events_'[c] = events
             /\ \A d \in Channels : d # c => events_'[d] = events_[d]
  <2>1. IInv'
    BY <1>1, UpdateKeepsInv
  <2>2. index_' = index_
    BY <1>1, <1>5, Zenon DEF Running, UpdateChannel, SetSlot, EraseSlot
  <2>3. events_ \in [Channels -> SUBSET {"read", "write"}]
    BY <1>1, Zenon DEF PollerTypeOK
  <2>4. events_' = [events_ EXCEPT ![c] = events]
    BY Zenon DEF UpdateChannel
  <2> QED
    BY <1>1, <2>1, <2>2, <2>3, <2>4
<1> QED
  BY <1>3, <1>4, <1>5, Zenon

(* After the server is gone none is registered. *)
LEMMA GoneUpdate ==
  ASSUME PollSet, server = "gone", NEW c \in Conns, index_[c] >= 0,
         NEW events, UpdateChannel(c, events)
  PROVE  ~Running'
<1>1. index_[c] \in Int /\ c # Listen
  <2>1. PollerTypeOK /\ c \in Channels /\ c # Listen
    BY ConnsAreChannels DEF PollSet
  <2> QED
    BY <2>1, Types
<1>2. ~(index_[c] < 0)
  BY <1>1
<1>3. FdOf[c] \in DOMAIN channels_ => channels_[FdOf[c]] # c
  BY <1>1 DEF PollSet
<1>4. FailedAssertion(c) # "none" /\ aborted' = FailedAssertion(c)
  BY <1>2, <1>3, Zenon DEF FailedAssertion, Registered, UpdateChannel
<1> QED
  BY <1>4, Zenon DEF Running

-----------------------------------------------------------------------------
(* The loop thread moves on *)

LEMMA NextChannelKeeps ==
  ASSUME ServerTypeOK, RunInv, Running, NextChannel
  PROVE  RunInv'
<1>1. /\ pc = "next" /\ pc' \in {"functors", "event"} /\ UNCHANGED <<pvars, conns, told, others>>
      /\ revents_' = [revents_ EXCEPT ![cur] = IF cur' = cur THEN @ ELSE {}]
  BY DEF NextChannel
<1>2. Quiet
  BY <1>1 DEF Quiet, conns, others, Ending
<1>3. CallersInv'
  BY <1>1 DEF RunInv, CallersInv, others
<1>4. GoneInv'
  BY <1>1 DEF RunInv, GoneInv, conns
<1>5. ActiveInv' /\ LoopInv'
  <2>1. CASE active_channels_ = <<>>
    <3>1. active_channels_' = <<>> /\ pc' = "functors"
      BY <2>1 DEF NextChannel
    <3> QED
      BY <3>1 DEF ActiveInv, LoopInv
  <2>2. CASE active_channels_ # <<>>
    <3>1. /\ pc' = "event" /\ cur' = Head(active_channels_)
          /\ active_channels_' = Tail(active_channels_)
      BY <2>2 DEF NextChannel
    <3>2. PICK q \in Seq(Channels) : q = active_channels_
      BY DEF ServerTypeOK
    <3>3. /\ Len(q) \in Nat /\ Len(Tail(q)) = Len(q) - 1 /\ Head(q) = q[1] /\ Len(q) >= 1
          /\ \A i \in 1..Len(Tail(q)) : Tail(q)[i] = q[i + 1]
      BY ONLY <2>2, <3>2
    <3>4. /\ \A i \in 1..Len(q) : q[i] \in connections_ \cup {Listen}
          /\ \A i, j \in 1..Len(q) : q[i] = q[j] => i = j
      BY <3>2 DEF RunInv, ActiveInv
    <3>5. PICK t : t = Tail(q)
      BY Zenon
    <3>6. /\ \A i \in 1..Len(t) : t[i] \in connections_ \cup {Listen}
          /\ \A i, j \in 1..Len(t) : t[i] = t[j] => i = j
          /\ \A i \in 1..Len(t) : t[i] # q[1]
          /\ q[1] \in connections_ \cup {Listen}
      BY ONLY <3>3, <3>4, <3>5
    <3>7. active_channels_' = t /\ cur' = q[1]
      BY ONLY <3>1, <3>2, <3>3, <3>5
    <3> QED
      BY <1>1, <3>1, <3>6, <3>7 DEF ActiveInv, LoopInv, conns
  <2> QED
    BY <2>1, <2>2
<1> QED
  BY <1>2, <1>3, <1>4, <1>5, QuietStep DEF RunInv

(* The other moves, with the channels still to be handled as they are. *)
Move ==
  /\ UNCHANGED <<pvars, state_, connections_, told, held, tpc, polled>>
  /\ (server' = "gone" <=> server = "gone")
  /\ \/ UNCHANGED loopvars
     \/ /\ UNCHANGED <<cur, ret>>
        /\ \/ pc = "event" /\ pc' = "next"
           \/ pc = "event" /\ cur \in Conns /\ pc' = "write"
           \/ pc = "write" /\ pc' = "next"
           \/ pc = "user" /\ ret # "functors" /\ pc' = ret
           \/ pc = "functors" /\ pc' = "poll"
           \/ pc = "poll" /\ pc' = "server" /\ server # "gone"
     \/ pc = "event" /\ cur \in Conns /\ pc' = "user" /\ cur' = cur /\ ret' = "write"

LEMMA MoveKeeps ==
  ASSUME RunInv, Move
  PROVE  RunInv'
<1>1. /\ ActiveInv /\ LoopInv /\ CallersInv /\ GoneInv
      /\ UNCHANGED <<life, connections_, held, tpc, active_channels_, revents_>>
      /\ (server' = "gone" <=> server = "gone")
  BY DEF RunInv, Move, pvars, polled
<1>2. CallersInv'
  BY <1>1, Zenon DEF CallersInv
<1>3. Quiet /\ ActiveInv' /\ LoopInv' /\ GoneInv'
  <2>1. CASE UNCHANGED loopvars
    <3>1. UNCHANGED <<pc, cur, ret>>
      BY <2>1 DEF loopvars
    <3>2. Quiet
      BY <2>1 DEF Move, Quiet
    <3>3. ActiveInv'
      BY ONLY <1>1, <3>1 DEF ActiveInv
    <3>4. LoopInv' /\ GoneInv'
      BY ONLY <1>1, <3>1 DEF LoopInv, GoneInv
    <3> QED
      BY ONLY <3>2, <3>3, <3>4
  <2>2. CASE /\ UNCHANGED <<cur, ret>>
             /\ \/ pc = "event" /\ pc' = "next"
                \/ pc = "event" /\ cur \in Conns /\ pc' = "write"
                \/ pc = "write" /\ pc' = "next"
                \/ pc = "user" /\ ret # "functors" /\ pc' = ret
                \/ pc = "functors" /\ pc' = "poll"
                \/ pc = "poll" /\ pc' = "server" /\ server # "gone"
    <3>1. pc = "user" => ret \in {"next", "write", "functors"}
      BY <1>1 DEF LoopInv
    <3>2. Quiet
      BY <2>2, <3>1 DEF Move, Quiet, Ending
    <3>3. ActiveInv'
      BY ONLY <1>1, <2>2, <3>1 DEF ActiveInv
    <3>4. LoopInv'
      BY ONLY <1>1, <2>2, <3>1 DEF LoopInv
    <3>5. GoneInv'
      BY <1>1, <2>2, <3>1, ConnsAreChannels DEF GoneInv, LoopInv
    <3> QED
      BY ONLY <3>2, <3>3, <3>4, <3>5
  <2>3. CASE pc = "event" /\ cur \in Conns /\ pc' = "user" /\ cur' = cur /\ ret' = "write"
    <3>1. Quiet
      BY <2>3 DEF Move, Quiet, Ending
    <3>2. cur \in connections_ /\ life[cur] = "live"
      BY <1>1, <2>3, ConnsAreChannels DEF RunInv, LoopInv, ConnInv
    <3>3. ActiveInv'
      BY ONLY <1>1, <2>3 DEF ActiveInv
    <3>4. LoopInv' /\ GoneInv'
      BY ONLY <1>1, <2>3, <3>2 DEF LoopInv, GoneInv
    <3> QED
      BY ONLY <3>1, <3>3, <3>4
  <2> QED
    BY <2>1, <2>2, <2>3, Zenon DEF Move
<1> QED
  BY <1>2, <1>3, QuietStep DEF RunInv

Moves ==
  \/ Start \/ DestroyServer \/ ListenIdle
  \/ RunShutdown \/ RunFreed \/ FunctorsDone
  \/ \E c \in Conns :
       ReadData(c) \/ ReadNothing(c) \/ NoWrite(c) \/ FreedWrite(c) \/ PeerCloses(c)
  \/ \E t \in Callers, c \in Conns : Send(t, c)

LEMMA MovesMove ==
  ASSUME Running, Running', Moves PROVE Move
<1> USE DEF conns, others, loopvars
<1>1. CASE Start \/ DestroyServer
  BY <1>1 DEF Start, DestroyServer, Goto, Move
<1>2. CASE ListenIdle
  BY <1>2, Zenon DEF ListenIdle, At, UseFreed, Fail, Goto, Running, Move
<1>3. CASE FunctorsDone
  BY <1>3, Zenon DEF FunctorsDone, Goto, Move
<1>4. CASE RunShutdown
  BY <1>4, Zenon DEF RunShutdown, RunFunctor, Move
<1>5. CASE RunFreed
  BY <1>5 DEF RunFreed, RunFunctor, UseFreed, Fail, Goto, Running, Move
<1>6. ASSUME NEW c \in Conns,
             ReadData(c) \/ ReadNothing(c) \/ NoWrite(c) \/ FreedWrite(c) \/ PeerCloses(c)
      PROVE  Move
  <2>1. CASE ReadData(c) \/ ReadNothing(c)
    BY <2>1 DEF ReadData, ReadNothing, AtEvent, At, Call, Goto, Move
  <2>2. CASE NoWrite(c) \/ FreedWrite(c)
    BY <2>2, Zenon DEF NoWrite, FreedWrite, At, UseFreed, Fail, Goto, Running, Move
  <2>3. CASE PeerCloses(c)
    BY <2>3, Zenon DEF PeerCloses, Move
  <2> QED
    BY <1>6, <2>1, <2>2, <2>3
<1>7. ASSUME NEW t \in Callers, NEW c \in Conns, Send(t, c) PROVE Move
  BY <1>7, Zenon DEF Send, Caller, Move
<1> QED
  BY <1>1, <1>2, <1>3, <1>4, <1>5, <1>6, <1>7 DEF Moves

-----------------------------------------------------------------------------
(* A connection comes *)

LEMMA HandleReadKeeps ==
  ASSUME ServerTypeOK, RunInv, Running, NEW c \in Conns, handleRead(c)
  PROVE  RunInv' /\ Running'
<1>1. /\ pc = "event" /\ cur = Listen /\ life[Listen] = "live" /\ life[c] = "none"
      /\ \A d \in Channels : life[d] = "live" => FdOf[d] # FdOf[c]
      /\ life' = [life EXCEPT ![c] = "live"] /\ UpdateChannel(c, {"read"})
      /\ connections_' = connections_ \cup {c}
      /\ state_' = [state_ EXCEPT ![c] = "kConnected"] /\ ups' = [ups EXCEPT ![c] = @ + 1]
      /\ pc' = "user" /\ cur' = c /\ ret' = "next"
      /\ UNCHANGED <<server, active_channels_, downs, held, tpc>>
  BY DEF handleRead, At, ConnectEstablished, Call, polled, others
<1>2. server # "gone"
  BY <1>1 DEF RunInv, PollSet
<1>3. /\ IInv /\ life[Listen] = "live" /\ aborted = "none" /\ c \in Channels /\ c # Listen
      /\ PollerTypeOK /\ Counted
  BY <1>2, ConnsAreChannels, SMTT(30) DEF RunInv, PollSet, Running, IInv
<1>4. /\ ConnInv(c) /\ index_[c] < 0 /\ c \notin connections_ /\ c \notin held
      /\ ups[c] = 0 /\ downs[c] = 0
  BY <1>1 DEF RunInv, ConnInv
<1>5. IInv' /\ aborted' = "none" /\ AddSlot(c, {"read"})
  <2>1. \A d \in Channels : life[d] = "freed" => events_[d] = {}
    BY <1>2, FreedUnregistered, Zenon
  <2> QED
    BY <1>1, <1>3, <1>4, <2>1, OpenKeepsInv, Zenon
<1>6. /\ life \in [Channels -> {"none", "live", "freed"}]
      /\ events_ \in [Channels -> SUBSET {"read", "write"}]
      /\ index_ \in [Channels -> Int] /\ Len(pollfds_) \in Nat
      /\ state_ \in [Conns -> {"kConnecting", "kConnected", "kDisconnecting", "kDisconnected"}]
      /\ ups \in [Conns -> Nat] /\ downs \in [Conns -> Nat]
  BY <1>3, Types, Zenon DEF PollerTypeOK, ServerTypeOK, Counted
<1>7. /\ events_' = [events_ EXCEPT ![c] = {"read"}]
      /\ index_' = [index_ EXCEPT ![c] = Len(pollfds_)]
  BY <1>1, <1>5 DEF UpdateChannel, AddSlot
<1>8. /\ life'[c] = "live" /\ events_'[c] = {"read"} /\ index_'[c] >= 0
      /\ state_'[c] = "kConnected" /\ ups'[c] = 1 /\ downs'[c] = 0
      /\ c \in connections_'
  BY <1>1, <1>3, <1>4, <1>6, <1>7
<1>9. ASSUME NEW d \in Conns PROVE ConnInv(d)'
  <2>1. CASE d = c
    BY <1>1, <1>4, <1>8, <2>1 DEF ConnInv, Closing, Ending
  <2>2. CASE d # c
    <3>1. d \in Channels
      BY ConnsAreChannels
    <3>2. Same(d)
      BY <1>1, <1>3, <1>6, <1>7, <2>2, <3>1 DEF Same
    <3>3. ConnInv(d) /\ ~Ending(d) /\ ~Ending(d)'
      BY <1>1 DEF RunInv, Ending
    <3> QED
      BY <3>2, <3>3, SameConn, Zenon
  <2> QED
    BY <2>1, <2>2
<1>10. ActiveInv'
  <2>1. \A i \in 1..Len(active_channels_) :
          active_channels_[i] \in connections_ \cup {Listen} /\ active_channels_[i] # c
    BY <1>3, <1>4 DEF RunInv, ActiveInv
  <2> QED
    BY <1>1, <2>1 DEF RunInv, ActiveInv
<1>11. LoopInv' /\ CallersInv' /\ GoneInv'
  BY <1>1, <1>2, <1>8, Zenon DEF RunInv, LoopInv, CallersInv, GoneInv
<1>12. PollSet'
  <2>1. server' # "gone" /\ life'[Listen] = "live"
    BY ONLY <1>1, <1>2, <1>3, <1>6, ConnsAreChannels
  <2> QED
    BY <1>5, <2>1, Zenon DEF PollSet
<1>13. Counted'
  BY <1>1, <1>6 DEF Counted
<1> QED
  BY <1>5, <1>9, <1>10, <1>11, <1>12, <1>13 DEF RunInv, Running

-----------------------------------------------------------------------------
(* A connection goes *)

(* At an event, or a close, of c the server has it in its map. *)
LEMMA EventInMap ==
  ASSUME RunInv, NEW c \in Conns, At("event", c)
  PROVE  /\ c \in connections_ /\ life[c] = "live" /\ index_[c] >= 0
         /\ "read" \in events_[c] /\ server # "gone" /\ downs[c] = 0
         /\ state_[c] \in {"kConnected", "kDisconnecting"}
<1>1. c \in connections_
  BY ConnsAreChannels DEF RunInv, LoopInv, At
<1> QED
  BY <1>1 DEF RunInv, ConnInv, GoneInv

LEMMA CloseKeeps ==
  ASSUME ServerTypeOK, RunInv, Running, Running', NEW c \in Conns, CloseEvent(c)
  PROVE  RunInv'
<1>1. PICK r \in {"next", "write"} :
        /\ pc = "event" /\ cur = c /\ UpdateChannel(c, {})
        /\ state_' = [state_ EXCEPT ![c] = "kDisconnected"]
        /\ connections_' = connections_ \ {c} /\ pc' = "destroy" /\ ret' = r
        /\ UNCHANGED <<life, cur, server, active_channels_, ups, downs, held, tpc>>
  BY DEF CloseEvent, HandleHup, ReadEof, AtEvent, At, HandleClose, Close, polled, told, others
<1>2. /\ c \in connections_ /\ life[c] = "live" /\ index_[c] >= 0
      /\ "read" \in events_[c] /\ server # "gone" /\ downs[c] = 0
  BY <1>1, EventInMap DEF At
<1>3. /\ IInv' /\ index_' = index_ /\ events_'[c] = {} /\ life[Listen] = "live"
      /\ \A d \in Channels : d # c => events_'[d] = events_[d]
  BY <1>1, <1>2, ConnUpdate, Zenon DEF RunInv, PollSet
<1>4. state_ \in [Conns -> {"kConnecting", "kConnected", "kDisconnecting", "kDisconnected"}]
  BY Zenon DEF ServerTypeOK
<1>5. ASSUME NEW d \in Conns PROVE ConnInv(d)'
  <2>1. CASE d = c
    <3>1. ConnInv(c) /\ state_'[c] = "kDisconnected" /\ r # "server"
      BY <1>1, <1>4 DEF RunInv
    <3> QED
      BY <1>1, <1>2, <1>3, <2>1, <3>1 DEF ConnInv, Closing, Ending
  <2>2. CASE d # c
    <3>1. Same(d)
      BY <1>1, <1>3, <1>4, <2>2, ConnsAreChannels, Zenon DEF Same
    <3>2. ConnInv(d) /\ ~Ending(d) /\ ~Ending(d)'
      BY <1>1, <2>2 DEF RunInv, Ending
    <3> QED
      BY <3>1, <3>2, SameConn, Zenon
  <2> QED
    BY <2>1, <2>2, Zenon
<1>6. ActiveInv'
  <2>1. \A i \in 1..Len(active_channels_) :
          active_channels_[i] \in connections_ \cup {Listen} /\ active_channels_[i] # c
    BY <1>1 DEF RunInv, ActiveInv
  <2> QED
    BY <1>1, <2>1 DEF RunInv, ActiveInv
<1>7. LoopInv' /\ CallersInv' /\ GoneInv'
  BY <1>1, <1>2, Zenon DEF RunInv, LoopInv, CallersInv, GoneInv
<1>8. PollSet' /\ Counted'
  BY <1>1, <1>2, <1>3, SMTT(30) DEF PollSet, RunInv, Counted
<1> QED
  BY <1>5, <1>6, <1>7, <1>8 DEF RunInv

-----------------------------------------------------------------------------
(* Writing is enabled and disabled *)

LEMMA EventsKeep ==
  ASSUME RunInv, Running, Running', NEW c \in Conns, life[c] = "live", pc # "destroy",
         NEW events \in SUBSET {"read", "write"}, "read" \in events_[c] => "read" \in events,
         UpdateChannel(c, events),
         UNCHANGED <<life, state_, connections_, server, ups, downs, held, tpc>>,
         \A d \in Conns : (~Ending(d) /\ ~Ending(d)') \/ UNCHANGED loopvars
  PROVE  /\ c \in connections_ /\ server # "gone"
         /\ (\A d \in Conns : ConnInv(d)') /\ CallersInv' /\ PollSet' /\ Counted'
<1>1. ConnInv(c) /\ index_[c] >= 0 /\ PollSet
  BY Zenon DEF RunInv, ConnInv
<1>2. server # "gone"
  BY <1>1, GoneUpdate, Zenon
<1>3. /\ events_[c] # {} /\ IInv' /\ index_' = index_ /\ events_'[c] = events
      /\ \A d \in Channels : d # c => events_'[d] = events_[d]
  BY <1>1, <1>2, ConnUpdate, Zenon DEF Running
<1>4. c \in connections_
  BY <1>1, <1>3, Zenon DEF ConnInv, Closing
<1>5. "read" \in events_'[c]
  BY <1>1, <1>3, <1>4, Zenon DEF ConnInv
<1>6. ASSUME NEW d \in Conns PROVE ConnInv(d)'
  <2>1. CASE d = c
    <3>1. (~Ending(c) /\ ~Ending(c)') \/ UNCHANGED loopvars
      OBVIOUS
    <3>2. ~Closing(c) /\ ~Closing(c)'
      BY <3>1 DEF Closing, Ending, loopvars
    <3>3. c \in connections_' /\ UNCHANGED <<life, state_, connections_, ups, downs, held>>
      BY <1>4
    <3> QED
      BY ONLY <1>1, <1>3, <1>5, <2>1, <3>2, <3>3, Zenon DEF ConnInv
  <2>2. CASE d # c
    <3>1. Same(d)
      BY <1>3, <2>2, ConnsAreChannels DEF Same
    <3>2. ConnInv(d) /\ ((~Ending(d) /\ ~Ending(d)') \/ UNCHANGED loopvars)
      BY DEF RunInv
    <3> QED
      BY ONLY <3>1, <3>2, SameConn, Zenon
  <2> QED
    BY <2>1, <2>2
<1>7. CallersInv' /\ PollSet' /\ Counted'
  BY <1>2, <1>3, Zenon DEF RunInv, CallersInv, PollSet, Counted
<1> QED
  BY <1>2, <1>4, <1>6, <1>7

LEMMA WriteKeeps ==
  ASSUME RunInv, Running, Running', NEW c \in Conns, HandleWrite(c)
  PROVE  RunInv'
<1>1. /\ pc = "write" /\ cur = c /\ life[c] = "live"
      /\ UNCHANGED <<state_, connections_, server, ups, downs, held, tpc, polled>>
  BY DEF HandleWrite, At, conns, told, others
<1>2. CASE Goto("next") /\ UNCHANGED pvars
  <2>1. Move
    BY <1>1, <1>2 DEF Move, Goto, told
  <2> QED
    BY <2>1, MoveKeeps
<1>3. CASE UpdateChannel(c, events_[c] \ {"write"}) /\ UNCHANGED life /\ Call(c, "next")
  <2>1. pc' = "user" /\ cur' = c /\ ret' = "next"
    BY <1>3 DEF Call
  <2>2. events_[c] \ {"write"} \in SUBSET {"read", "write"}
    <3>1. PollerTypeOK /\ c \in Channels
      BY ConnsAreChannels DEF RunInv, PollSet, IInv
    <3> QED
      BY <3>1, Zenon DEF PollerTypeOK
  <2>3. \A d \in Conns : ~Ending(d) /\ ~Ending(d)'
    BY <1>1, <2>1, Zenon DEF Ending
  <2>4. /\ c \in connections_ /\ server # "gone"
        /\ (\A d \in Conns : ConnInv(d)') /\ CallersInv' /\ PollSet' /\ Counted'
    BY <1>1, <1>3, <2>2, <2>3, EventsKeep
  <2>5. ActiveInv'
    BY <1>1, <2>1 DEF RunInv, ActiveInv, polled
  <2>6. LoopInv' /\ GoneInv'
    BY <1>1, <1>3, <2>1, <2>4 DEF LoopInv, GoneInv
  <2> QED
    BY <2>4, <2>5, <2>6 DEF RunInv
<1> QED
  BY <1>2, <1>3, Zenon DEF HandleWrite

(* The application's Send() in a callback, and the functor of one in       *)
(* another thread.                                                         *)
LEMMA SendKeeps ==
  ASSUME RunInv, Running, Running', NEW c \in Conns, life[c] = "live", pc # "destroy",
         SendBuffered(c) \/ UNCHANGED pvars,
         UNCHANGED <<state_, connections_, server, ups, downs, held, tpc, polled, loopvars>>
  PROVE  RunInv'
<1>1. CASE UNCHANGED pvars
  <2>1. Move
    BY <1>1 DEF Move, told
  <2> QED
    BY <2>1, MoveKeeps
<1>2. CASE UpdateChannel(c, events_[c] \cup {"write"}) /\ UNCHANGED life
  <2>1. events_[c] \cup {"write"} \in SUBSET {"read", "write"}
    <3>1. PollerTypeOK /\ c \in Channels
      BY ConnsAreChannels DEF RunInv, PollSet, IInv
    <3> QED
      BY <3>1, Zenon DEF PollerTypeOK
  <2>2. /\ (\A d \in Conns : ConnInv(d)') /\ CallersInv' /\ PollSet' /\ Counted'
    BY <1>2, <2>1, EventsKeep
  <2>3. UNCHANGED <<active_channels_, revents_, pc, cur, ret>>
    BY Zenon DEF loopvars, polled
  <2>4. ActiveInv'
    BY <2>3, ActiveStays, Zenon DEF RunInv
  <2>5. LoopInv' /\ GoneInv'
    BY <1>2, <2>3, SMTT(30) DEF RunInv, LoopInv, GoneInv
  <2> QED
    BY <2>2, <2>4, <2>5, Zenon DEF RunInv
<1> QED
  BY <1>1, <1>2 DEF SendBuffered

(* In a callback the application has live connections only. *)
LEMMA UserLive ==
  ASSUME RunInv, NEW c \in Conns, InUser(c)
  PROVE  life[c] = "live" /\ pc # "destroy"
BY DEF RunInv, InUser, LoopInv, ConnInv

(* sendInLoop() as a functor, with the write-complete callback. *)
LEMMA RunSendCalls ==
  ASSUME RunInv, NEW c \in Conns, life[c] = "live", pc = "functors", Call(c, "functors"),
         UNCHANGED <<pvars, state_, connections_, server, ups, downs, held, tpc, polled>>
  PROVE  RunInv'
<1>1. pc' = "user" /\ cur' = c /\ ret' = "functors"
  BY DEF Call
<1>2. UNCHANGED <<life, events_, index_, active_channels_>>
  BY SMTT(30) DEF pvars, polled
<1>3. ASSUME NEW d \in Conns PROVE ConnInv(d)'
  <2>1. ConnInv(d) /\ ~Ending(d) /\ ~Closing(d) /\ ~Closing(d)'
    BY <1>1 DEF RunInv, Ending, Closing
  <2> QED
    BY ONLY <1>2, <2>1, UNCHANGED <<state_, connections_, ups, downs, held>>, SMTT(30) DEF ConnInv
<1>4. ActiveInv'
  <2>1. active_channels_' = <<>>
    BY <1>2 DEF RunInv, ActiveInv
  <2> QED
    BY ONLY <2>1 DEF ActiveInv
<1>5. LoopInv' /\ GoneInv'
  BY <1>1, <1>2 DEF RunInv, LoopInv, GoneInv
<1>6. CallersInv' /\ Counted'
  BY Zenon DEF RunInv, CallersInv, Counted
<1>7. PollSet'
  BY PollSetStays, Zenon DEF RunInv
<1> QED
  BY <1>3, <1>4, <1>5, <1>6, <1>7 DEF RunInv

LEMMA SendsKeep ==
  ASSUME RunInv, Running, Running', NEW c \in Conns, UserSend(c) \/ RunSend(c)
  PROVE  RunInv'
<1>1. CASE UserSend(c)
  <2>1. UNCHANGED <<state_, connections_, server, ups, downs, held, tpc, polled, loopvars>>
    BY <1>1 DEF UserSend, svars, conns, told, others
  <2> QED
    BY <1>1, <2>1, UserLive, SendKeeps DEF UserSend
<1>2. CASE RunSend(c)
  <2>1. /\ UNCHANGED <<state_, connections_, server, ups, downs, held, tpc, polled>>
        /\ pc = "functors" /\ life[c] = "live"
        /\ \/ (SendBuffered(c) \/ UNCHANGED pvars) /\ UNCHANGED loopvars
           \/ Call(c, "functors") /\ UNCHANGED pvars
    BY <1>2, Zenon DEF RunSend, RunFunctor, conns, told, others
  <2>2. CASE (SendBuffered(c) \/ UNCHANGED pvars) /\ UNCHANGED loopvars
    BY <2>1, <2>2, SendKeeps
  <2>3. CASE Call(c, "functors") /\ UNCHANGED pvars
    BY <2>1, <2>3, RunSendCalls
  <2> QED
    BY <2>1, <2>2, <2>3
<1> QED
  BY <1>1, <1>2

-----------------------------------------------------------------------------
(* A connection is destroyed *)

LEMMA DestroyedKeeps ==
  ASSUME ServerTypeOK, RunInv, Running, Running', NEW c \in Conns, ConnectDestroyed(c)
  PROVE  RunInv'
<1>1. /\ pc = "destroy" /\ cur = c /\ pc' = "userDown"
      /\ state_' = [state_ EXCEPT ![c] = "kDisconnected"]
      /\ downs' = [downs EXCEPT ![c] = @ + 1]
      /\ UNCHANGED <<cur, ret, connections_, server, active_channels_, ups, held, tpc>>
  BY DEF ConnectDestroyed, At, Goto, polled, others
<1>2. /\ server # "gone" /\ c \notin connections_ /\ life[c] = "live" /\ PollSet
      /\ ret \in {"next", "write", "server"}
  BY <1>1, ZenonT(30) DEF RunInv, GoneInv, LoopInv
<1>3. /\ ConnInv(c) /\ index_[c] >= 0 /\ downs[c] = 0 /\ ups[c] = 1
      /\ ret # "server" => events_[c] = {}
      /\ ret = "server" => state_[c] \in {"kConnected", "kDisconnecting"}
  BY <1>1, <1>2 DEF RunInv, ConnInv, Closing
<1>4. /\ IInv' /\ UNCHANGED <<index_, life>> /\ events_'[c] = {}
      /\ \A d \in Channels : d # c => events_'[d] = events_[d]
  <2>1. CASE UpdateChannel(c, {}) /\ UNCHANGED life
    BY <1>2, <1>3, <2>1, ConnUpdate, Zenon
  <2>2. CASE UNCHANGED pvars /\ state_[c] \notin {"kConnected", "kDisconnecting"}
    <3>1. IInv'
      BY <1>2, <2>2, StutterKeepsInv DEF PollSet
    <3> QED
      BY <1>3, <2>2, <3>1 DEF pvars
  <2> QED
    BY <2>1, <2>2, Zenon DEF ConnectDestroyed
<1>5. /\ state_ \in [Conns -> {"kConnecting", "kConnected", "kDisconnecting", "kDisconnected"}]
      /\ downs \in [Conns -> Nat] /\ ups \in [Conns -> Nat]
  BY Zenon DEF ServerTypeOK, RunInv, Counted
<1>6. state_'[c] = "kDisconnected" /\ downs'[c] = 1
  BY ONLY <1>1, <1>3, <1>5, c \in Conns
<1>7. ASSUME NEW d \in Conns PROVE ConnInv(d)'
  <2>1. CASE d = c
    BY ONLY <1>1, <1>2, <1>3, <1>4, <1>6, <2>1 DEF ConnInv, Closing, Ending
  <2>2. CASE d # c
    <3>1. Same(d)
      BY <1>1, <1>4, <1>5, <2>2, ConnsAreChannels DEF Same
    <3>2. ConnInv(d) /\ ~Ending(d) /\ ~Ending(d)'
      BY <1>1, <2>2 DEF RunInv, Ending
    <3> QED
      BY ONLY <3>1, <3>2, SameConn, Zenon
  <2> QED
    BY <2>1, <2>2, SMTT(30)
<1>8. ActiveInv'
  BY <1>1, SMTT(30) DEF RunInv, ActiveInv
<1>9. LoopInv' /\ CallersInv' /\ GoneInv'
  BY <1>1, <1>2, <1>4 DEF RunInv, LoopInv, CallersInv, GoneInv
<1>10. PollSet'
  <2>1. server' # "gone" /\ life'[Listen] = life[Listen]
    BY ONLY <1>1, <1>2, <1>4
  <2>2. life[Listen] = "live"
    BY ONLY <1>2, Zenon DEF PollSet
  <2> QED
    BY ONLY <1>4, <2>1, <2>2, Zenon DEF PollSet
<1>11. Counted'
  BY ONLY <1>1, <1>5 DEF Counted
<1> QED
  BY <1>7, <1>8, <1>9, <1>10, <1>11 DEF RunInv

LEMMA FreeKeeps ==
  ASSUME RunInv, Running, Running', NEW c \in Conns, life[c] = "live", c \notin connections_,
         ~Closing(c), Free(c), UNCHANGED server
  PROVE  /\ PollSet' /\ life'[c] = "freed"
         /\ \A d \in Channels : d # c => life'[d] = life[d]
<1>1. events_[c] = {} /\ PollSet /\ c \in Channels /\ c # Listen
  BY ConnsAreChannels DEF RunInv, ConnInv
<1>2. /\ life' = [life EXCEPT ![c] = "freed"]
      /\ UNCHANGED <<events_, index_, pollfds_, channels_, aborted, shifted>>
  BY DEF Free, Running
<1>3. life \in [Channels -> {"none", "live", "freed"}]
  <2>1. PollerTypeOK
    BY <1>1 DEF PollSet, IInv
  <2> QED
    BY <2>1, Zenon DEF PollerTypeOK
<1>4. /\ life' \in [Channels -> {"none", "live", "freed"}] /\ life'[c] = "freed"
      /\ \A d \in Channels : d # c => life'[d] = life[d]
  BY <1>1, <1>2, <1>3
<1>5. CASE server = "gone"
  <2>1. PollerTypeOK'
    BY ONLY <1>1, <1>2, <1>4, <1>5, Zenon DEF PollSet, PollerTypeOK
  <2>2. PollSet'
    <3>1. SlotsDistinct'
      BY ONLY <1>1, <1>2, <1>5, ZenonT(30) DEF PollSet, SlotsDistinct
    <3>2. life'[Listen] = "freed"
      BY <1>1, <1>4, <1>5, ConnsAreChannels DEF PollSet
    <3> QED
      BY <1>1, <1>2, <1>5, <2>1, <3>1, <3>2, Zenon DEF PollSet
  <2> QED
    BY <1>4, <2>2
<1>6. CASE server # "gone"
  <2>1. IInv /\ Destroy(c)
    BY <1>1, <1>2, <1>6 DEF PollSet, Destroy, Usable, Running
  <2>2. IInv'
    BY <1>1, <2>1, LifeKeepsInv
  <2> QED
    BY <1>1, <1>4, <1>6, <2>2, ConnsAreChannels, Zenon DEF PollSet
<1> QED
  BY <1>5, <1>6, Zenon

LEMMA UserDownKeeps ==
  ASSUME ServerTypeOK, RunInv, Running, Running', UserDownReturns
  PROVE  RunInv'
<1>1. /\ pc = "userDown" /\ pc' = ret
      /\ UNCHANGED <<cur, ret, state_, connections_, server, active_channels_, revents_,
                     ups, downs, held, tpc>>
  BY DEF UserDownReturns, Goto, conns, polled, told, others
<1>2. /\ cur \in Conns /\ cur \notin connections_ /\ life[cur] = "live"
      /\ ret \in {"next", "write", "server"} /\ server # "gone"
  BY <1>1 DEF RunInv, LoopInv, GoneInv
<1>3. PICK c \in Conns : c = cur
  BY <1>2
<1>4. /\ PollSet' /\ UNCHANGED <<events_, index_>>
      /\ \A d \in Channels : d # c => life'[d] = life[d]
      /\ (life'[c] = "live" /\ c \in held) \/ (life'[c] = "freed" /\ c \notin held)
  <2>1. CASE c \in held
    <3>1. UNCHANGED pvars
      BY <1>3, <2>1 DEF UserDownReturns
    <3>2. PollSet'
      BY <1>1, <3>1, PollSetStays DEF RunInv
    <3> QED
      BY <1>2, <1>3, <2>1, <3>1, <3>2 DEF pvars
  <2>2. CASE c \notin held
    <3>1. Free(c)
      BY <1>3, <2>2 DEF UserDownReturns
    <3>2. ~Closing(c)
      BY <1>1 DEF Closing
    <3>3. UNCHANGED <<events_, index_>>
      BY <3>1 DEF Free
    <3> QED
      BY <1>1, <1>2, <1>3, <2>2, <3>1, <3>2, <3>3, FreeKeeps
  <2> QED
    BY <2>1, <2>2
<1>5. ASSUME NEW d \in Conns PROVE ConnInv(d)'
  <2>1. CASE d = c
    <3>1. ConnInv(c) /\ ~Closing(c) /\ ~Closing(c)' /\ ~Ending(c)'
      BY <1>1, <1>2, Zenon DEF RunInv, Closing, Ending
    <3> QED
      BY ONLY <1>1, <1>2, <1>3, <1>4, <2>1, <3>1 DEF ConnInv
  <2>2. CASE d # c
    <3>1. Same(d)
      BY <1>1, <1>4, <2>2, ConnsAreChannels DEF Same
    <3>2. ConnInv(d) /\ ~Ending(d) /\ ~Ending(d)'
      BY <1>1, <1>2, <1>3, <2>2 DEF RunInv, Ending
    <3> QED
      BY ONLY <3>1, <3>2, SameConn, Zenon
  <2> QED
    BY <2>1, <2>2, ZenonT(30)
<1>6. ActiveInv'
  BY <1>1, <1>2 DEF RunInv, ActiveInv
<1>7. LoopInv' /\ CallersInv' /\ GoneInv' /\ Counted'
  <2>1. LoopInv' /\ GoneInv'
    BY <1>1, <1>2 DEF RunInv, LoopInv, GoneInv
  <2>2. CallersInv' /\ Counted'
    BY <1>1, Zenon DEF RunInv, CallersInv, Counted
  <2> QED
    BY <2>1, <2>2, SMTT(30)
<1> QED
  BY <1>4, <1>5, <1>6, <1>7 DEF RunInv

LEMMA UserReturnsKeeps ==
  ASSUME ServerTypeOK, RunInv, Running, Running', UserReturns
  PROVE  RunInv'
<1>1. /\ pc = "user" /\ pc' = ret
      /\ UNCHANGED <<cur, ret, state_, connections_, server, active_channels_, revents_,
                     ups, downs, held, tpc>>
  BY DEF UserReturns, Goto, conns, polled, told, others
<1>2. /\ cur \in Conns /\ life[cur] = "live" /\ ret \in {"next", "write", "functors"}
      /\ ret # "functors" => cur \in connections_
  BY <1>1 DEF RunInv, LoopInv
<1>3. CASE ret # "functors"
  <2>1. UNCHANGED pvars
    BY <1>2, <1>3, Zenon DEF UserReturns
  <2>2. Move
    BY <1>1, <1>3, <2>1, SMTT(30) DEF Move, told, polled
  <2> QED
    BY <2>2, MoveKeeps
<1>4. CASE ret = "functors"
  <2>1. PICK c \in Conns : c = cur
    BY <1>2
  <2>2. /\ PollSet' /\ UNCHANGED <<events_, index_>>
        /\ \A d \in Channels : d # c => life'[d] = life[d]
        /\ \/ life'[c] = "live" /\ (c \in connections_ \/ c \in held)
           \/ life'[c] = "freed" /\ c \notin connections_ /\ c \notin held
    <3>1. CASE c \in connections_ \cup held
      <4>1. UNCHANGED pvars
        BY <2>1, <3>1 DEF UserReturns
      <4>2. PollSet'
        BY <1>1, <4>1, PollSetStays DEF RunInv
      <4> QED
        BY <1>2, <2>1, <3>1, <4>1, <4>2 DEF pvars
    <3>2. CASE c \notin connections_ \cup held
      <4>1. Free(c)
        BY <2>1, <3>2 DEF UserReturns
      <4>2. ~Closing(c)
        BY <1>1, SMTT(30) DEF Closing
      <4>3. UNCHANGED <<events_, index_>>
        BY <4>1 DEF Free
      <4>4. PollSet' /\ life'[c] = "freed" /\ \A d \in Channels : d # c => life'[d] = life[d]
        BY <1>1, <1>2, <2>1, <3>2, <4>1, <4>2, FreeKeeps, SMTT(30)
      <4> QED
        BY <3>2, <4>3, <4>4
    <3> QED
      BY <3>1, <3>2
  <2>3. ASSUME NEW d \in Conns PROVE ConnInv(d)'
    <3>1. CASE d = c
      <4>1. ConnInv(c) /\ ~Closing(c) /\ ~Closing(c)'
        BY <1>1, <1>4, ZenonT(30) DEF RunInv, Closing
      <4> QED
        BY ONLY <1>1, <1>2, <2>1, <2>2, <3>1, <4>1 DEF ConnInv
    <3>2. CASE d # c
      <4>1. Same(d)
        BY <1>1, <2>2, <3>2, ConnsAreChannels DEF Same
      <4>2. ConnInv(d) /\ ~Ending(d) /\ ~Ending(d)'
        BY <1>1, <2>1, <3>2 DEF RunInv, Ending
      <4> QED
        BY ONLY <4>1, <4>2, SameConn, Zenon
    <3> QED
      BY <3>1, <3>2, ZenonT(30)
  <2>4. ActiveInv'
    <3>1. active_channels_' = <<>>
      BY <1>1, <1>4, SMTT(30) DEF RunInv, ActiveInv
    <3> QED
      BY ONLY <3>1 DEF ActiveInv
  <2>5. LoopInv' /\ GoneInv'
    BY <1>1, <1>4 DEF RunInv, LoopInv, GoneInv
  <2>6. CallersInv' /\ Counted'
    BY <1>1, Zenon DEF RunInv, CallersInv, Counted
  <2> QED
    BY <2>2, <2>3, <2>4, <2>5, <2>6 DEF RunInv
<1> QED
  BY <1>3, <1>4

LEMMA ReleaseKeeps ==
  ASSUME ServerTypeOK, RunInv, Running, Running', NEW c \in Conns, Release(c)
  PROVE  RunInv'
<1>1. /\ c \in held /\ held' = held \ {c} /\ \A t \in Callers : tpc[t][2] # c
      /\ UNCHANGED <<pc, cur, ret, loopvars, state_, connections_, server, active_channels_,
                     revents_, ups, downs, tpc>>
  BY DEF Release, loopvars, conns, polled, told
<1>2. ConnInv(c) /\ life[c] = "live"
  BY <1>1, Zenon DEF RunInv, ConnInv
<1>3. /\ PollSet' /\ UNCHANGED <<events_, index_>>
      /\ \A d \in Channels : d # c => life'[d] = life[d]
      /\ \/ life'[c] = "live" /\ (c \in connections_ \/ LoopHolds(c))
         \/ life'[c] = "freed" /\ c \notin connections_ /\ ~LoopHolds(c)
  <2>1. CASE c \in connections_ \/ LoopHolds(c)
    <3>1. UNCHANGED pvars
      BY <2>1, Zenon DEF Release
    <3>2. PollSet'
      BY <1>1, <3>1, PollSetStays, SMTT(30) DEF RunInv
    <3> QED
      BY <1>2, <2>1, <3>1, <3>2, Zenon DEF pvars
  <2>2. CASE ~(c \in connections_ \/ LoopHolds(c))
    <3>1. Free(c) /\ ~Closing(c)
      BY <2>2 DEF Release, LoopHolds, Closing
    <3>2. UNCHANGED <<events_, index_>>
      BY <3>1, Zenon DEF Free
    <3>3. PollSet' /\ life'[c] = "freed" /\ \A d \in Channels : d # c => life'[d] = life[d]
      BY <1>1, <1>2, <2>2, <3>1, FreeKeeps
    <3> QED
      BY <2>2, <3>2, <3>3, SMTT(30)
  <2> QED
    BY <2>1, <2>2
<1>4. pc = "user" /\ cur = c => c \in connections_ \/ Ending(c)
  BY DEF RunInv, LoopInv, Ending
<1>5. ASSUME NEW d \in Conns PROVE ConnInv(d)'
  <2>1. CASE d = c
    <3>1. (Closing(c) <=> Closing(c)') /\ (Ending(c) <=> Ending(c)')
      BY <1>1 DEF Closing, Ending
    <3>2. Closing(c) => LoopHolds(c)
      BY DEF Closing, LoopHolds
    <3>3. LoopHolds(c) => Ending(c) \/ c \in connections_
      BY <1>4 DEF LoopHolds, Ending
    <3> QED
      BY ONLY <1>1, <1>2, <1>3, <2>1, <3>1, <3>2, <3>3, Zenon DEF ConnInv
  <2>2. CASE d # c
    <3>1. Same(d)
      BY <1>1, <1>3, <2>2, ConnsAreChannels, Zenon DEF Same
    <3>2. ConnInv(d) /\ UNCHANGED loopvars
      BY <1>1, Zenon DEF RunInv
    <3> QED
      BY ONLY <3>1, <3>2, SameConn, Zenon
  <2> QED
    BY <2>1, <2>2
<1>6. ActiveInv'
  BY <1>1, ActiveStays, Zenon DEF RunInv
<1>7. LoopInv'
  <2>1. pc \in {"destroy", "userDown", "user"} => life'[cur] = "live"
    <3>1. CASE cur = c /\ pc \in {"destroy", "userDown", "user"}
      BY <1>3, <3>1 DEF LoopHolds
    <3>2. CASE cur # c /\ pc \in {"destroy", "userDown", "user"}
      <4>1. cur \in Channels /\ life[cur] = "live"
        BY <3>2, ConnsAreChannels, Zenon DEF RunInv, LoopInv
      <4> QED
        BY <1>3, <3>2, <4>1
    <3> QED
      BY <3>1, <3>2
  <2> QED
    BY <1>1, <2>1, Zenon DEF RunInv, LoopInv
<1>8. CallersInv' /\ GoneInv' /\ Counted'
  BY <1>1 DEF RunInv, CallersInv, GoneInv, Counted
<1> QED
  BY <1>3, <1>5, <1>6, <1>7, <1>8, ZenonT(30) DEF RunInv

-----------------------------------------------------------------------------
(* The server is destroyed *)

LEMMA DestroyConnectionKeeps ==
  ASSUME RunInv, Running, NEW c \in Conns, DestroyConnection(c)
  PROVE  RunInv'
<1>1. /\ pc = "server" /\ c \in connections_ /\ connections_' = connections_ \ {c}
      /\ pc' = "destroy" /\ cur' = c /\ ret' = "server"
      /\ UNCHANGED <<pvars, state_, server, active_channels_, revents_, ups, downs, held, tpc>>
  BY ZenonT(30) DEF DestroyConnection, polled, told, others
<1>2. ConnInv(c) /\ life[c] = "live" /\ server # "gone"
  BY <1>1 DEF RunInv, ConnInv, GoneInv
<1>3. UNCHANGED <<life, events_, index_>>
  BY <1>1 DEF pvars
<1>4. ASSUME NEW d \in Conns PROVE ConnInv(d)'
  <2>1. CASE d = c
    BY ONLY <1>1, <1>2, <1>3, <2>1, Zenon DEF ConnInv, Closing, Ending
  <2>2. CASE d # c
    <3>1. Same(d)
      BY <1>1, <1>3, <2>2, Zenon DEF Same
    <3>2. ConnInv(d) /\ ~Ending(d) /\ ~Ending(d)'
      BY <1>1, <2>2 DEF RunInv, Ending
    <3> QED
      BY ONLY <3>1, <3>2, SameConn, Zenon
  <2> QED
    BY <2>1, <2>2, Zenon
<1>5. active_channels_ = <<>>
  BY <1>1 DEF RunInv, ActiveInv
<1>6. ActiveInv'
  <2>1. active_channels_' = <<>>
    BY <1>1, <1>5, Zenon
  <2> QED
    BY ONLY <2>1 DEF ActiveInv
<1>7. LoopInv' /\ CallersInv' /\ GoneInv' /\ Counted'
  BY <1>1, <1>2, <1>3 DEF RunInv, LoopInv, CallersInv, GoneInv, Counted
<1>8. PollSet'
  BY <1>1, PollSetStays DEF RunInv
<1> QED
  BY <1>4, <1>6, <1>7, <1>8 DEF RunInv

LEMMA ServerGoneKeeps ==
  ASSUME RunInv, Running, ServerGone
  PROVE  RunInv'
<1>1. /\ pc = "server" /\ connections_ = {} /\ server' = "gone" /\ pc' = "poll"
      /\ life' = [life EXCEPT ![Listen] = "freed"]
      /\ UNCHANGED <<events_, index_, pollfds_, channels_, aborted, shifted,
                     state_, connections_, active_channels_, revents_, ups, downs, held, tpc>>
  BY DEF ServerGone, Goto, polled, told, others
<1>2. IInv /\ PollerTypeOK /\ Agree
  BY <1>1 DEF RunInv, GoneInv, PollSet, IInv, Running
<1>3. life \in [Channels -> {"none", "live", "freed"}]
  BY <1>2, Zenon DEF PollerTypeOK
<1>4. /\ life' \in [Channels -> {"none", "live", "freed"}]
      /\ \A d \in Conns : life'[d] = life[d]
  BY <1>1, <1>3, ConnsAreChannels, Zenon
<1>5. ASSUME NEW i \in 1..Len(pollfds_)
      PROVE  /\ pollfds_[i].fd \in DOMAIN channels_ /\ channels_[pollfds_[i].fd] = Listen
             /\ pollfds_[i].fd = FdOf[Listen]
  <2>1. PICK d : d = channels_[pollfds_[i].fd]
    BY Zenon
  <2>2. pollfds_[i].fd \in DOMAIN channels_ /\ Belongs(i, d) /\ d \in Channels
    BY <1>2, <2>1, Zenon DEF Agree, SlotsHaveChannels, PollerTypeOK
  <2>3. d \notin Conns
    BY <1>1, <2>2, Zenon DEF RunInv, ConnInv, Closing, Belongs
  <2>4. d = Listen
    BY <2>2, <2>3, ServerAssumption, Zenon
  <2> QED
    BY <2>1, <2>2, <2>4 DEF Belongs
<1>6. PollSet'
  <2>1. PollerTypeOK'
    BY <1>1, <1>2, <1>4, Zenon DEF PollerTypeOK
  <2>2. SlotsDistinct'
    BY <1>1, <1>2 DEF Agree, SlotsDistinct
  <2>3. \A fd \in DOMAIN channels_ : channels_[fd] = Listen
    BY <1>2, <1>5 DEF Agree, EntriesHaveSlots
  <2>4. life'[Listen] = "freed"
    BY <1>1, <1>3, ConnsAreChannels
  <2> QED
    BY <1>1, <1>5, <2>1, <2>2, <2>3, <2>4 DEF PollSet
<1>7. ASSUME NEW d \in Conns PROVE ConnInv(d)'
  <2>1. Same(d)
    BY <1>1, <1>4 DEF Same
  <2>2. ConnInv(d) /\ ~Ending(d) /\ ~Ending(d)'
    BY <1>1, Zenon DEF RunInv, Ending
  <2> QED
    BY ONLY <2>1, <2>2, SameConn, Zenon
<1>8. ActiveInv' /\ LoopInv' /\ CallersInv' /\ GoneInv' /\ Counted'
  BY <1>1 DEF RunInv, ActiveInv, LoopInv, CallersInv, GoneInv, Counted
<1> QED
  BY <1>6, <1>7, <1>8 DEF RunInv

-----------------------------------------------------------------------------
(* Shutdown(), in a callback or in another thread, and copies kept by the  *)
(* application                                                             *)

LEMMA StoreKeeps ==
  ASSUME ServerTypeOK, RunInv, NEW c \in Conns, life[c] = "live",
         state_' = [state_ EXCEPT ![c] = "kDisconnecting"], CallersInv',
         UNCHANGED <<pvars, loopvars, connections_, server, polled, told, held>>
  PROVE  RunInv'
<1>1. /\ state_'[c] = "kDisconnecting" /\ \A d \in Conns : d # c => state_'[d] = state_[d]
  BY Zenon DEF ServerTypeOK
<1>2. /\ UNCHANGED <<life, events_, index_, pc, cur, ret, connections_, server,
                     active_channels_, revents_, ups, downs, held>>
  BY DEF pvars, loopvars, polled, told
<1>3. ASSUME NEW d \in Conns PROVE ConnInv(d)'
  <2>1. ConnInv(d)
    BY Zenon DEF RunInv
  <2>2. CASE d = c
    BY ONLY <1>1, <1>2, <2>1, <2>2, life[c] = "live" DEF ConnInv, Closing, Ending
  <2>3. CASE d # c
    <3>1. Same(d)
      BY <1>1, <1>2, <2>3, Zenon DEF Same
    <3> QED
      BY <2>1, <3>1, SameConn
  <2> QED
    BY <2>2, <2>3
<1>4. ActiveInv' /\ LoopInv' /\ GoneInv' /\ Counted'
  <2>1. ActiveInv'
    BY <1>2, ActiveStays, Zenon DEF RunInv
  <2>2. LoopInv' /\ GoneInv'
    BY <1>2 DEF RunInv, LoopInv, GoneInv
  <2>3. Counted'
    BY <1>2, Zenon DEF RunInv, Counted
  <2> QED
    BY <2>1, <2>2, <2>3
<1>5. PollSet'
  BY <1>2, PollSetStays DEF RunInv
<1> QED
  BY <1>3, <1>4, <1>5 DEF RunInv

LEMMA UserShutdownKeeps ==
  ASSUME ServerTypeOK, RunInv, NEW c \in Conns, UserShutdown(c)
  PROVE  RunInv'
<1>1. CallersInv'
  BY DEF UserShutdown, others, RunInv, CallersInv
<1>2. life[c] = "live"
  BY UserLive DEF UserShutdown
<1>3. /\ state_' = [state_ EXCEPT ![c] = "kDisconnecting"]
      /\ UNCHANGED <<pvars, loopvars, connections_, server, polled, told, held>>
  BY DEF UserShutdown, others
<1> QED
  BY <1>1, <1>2, <1>3, StoreKeeps, Zenon

LEMMA UserHoldKeeps ==
  ASSUME RunInv, NEW c \in Conns, UserHold(c)
  PROVE  RunInv'
<1>1. /\ held' = held \cup {c} /\ life[c] = "live"
      /\ UNCHANGED <<pvars, loopvars, state_, connections_, server, polled, told, tpc>>
  BY UserLive DEF UserHold, conns
<1>2. /\ UNCHANGED <<life, events_, index_, pc, cur, ret, state_, connections_, server,
                     active_channels_, revents_, ups, downs, tpc>>
  BY <1>1 DEF pvars, loopvars, polled, told
<1>3. ASSUME NEW d \in Conns PROVE ConnInv(d)'
  <2>1. ConnInv(d)
    BY ZenonT(30) DEF RunInv
  <2>2. CASE d = c
    BY ONLY <1>1, <1>2, <2>1, <2>2 DEF ConnInv, Closing, Ending
  <2>3. CASE d # c
    <3>1. Same(d)
      BY <1>1, <1>2, <2>3, ZenonT(30) DEF Same
    <3> QED
      BY <1>1, <2>1, <3>1, SameConn
  <2> QED
    BY <2>2, <2>3
<1>4. ActiveInv' /\ LoopInv' /\ GoneInv' /\ Counted' /\ CallersInv'
  <2>1. ActiveInv'
    BY <1>2, ActiveStays, Zenon DEF RunInv
  <2>2. LoopInv' /\ GoneInv'
    BY <1>2, Zenon DEF RunInv, LoopInv, GoneInv
  <2>3. Counted'
    BY <1>2, Zenon DEF RunInv, Counted
  <2>4. CallersInv'
    BY <1>1, <1>2, Zenon DEF RunInv, CallersInv
  <2> QED
    BY <2>1, <2>2, <2>3, <2>4, Zenon
<1>5. PollSet'
  BY <1>1, <1>2, PollSetStays DEF RunInv
<1> QED
  BY <1>3, <1>4, <1>5 DEF RunInv

(* A step of a caller that moves it only. *)
LEMMA CallerKeeps ==
  ASSUME RunInv, CallersInv', UNCHANGED state_, Caller
  PROVE  RunInv'
<1>1. /\ UNCHANGED <<pvars, loopvars, state_, connections_, server, polled, told, held>>
  BY DEF Caller
<1>2. Quiet
  BY <1>1, Zenon DEF Quiet
<1>3. ActiveInv' /\ LoopInv' /\ GoneInv'
  BY <1>1 DEF RunInv, ActiveInv, LoopInv, GoneInv, pvars, loopvars, polled
<1> QED
  BY <1>2, <1>3, QuietStep DEF RunInv

LEMMA ShutdownKeeps ==
  ASSUME ServerTypeOK, RunInv, NEW t \in Callers,
         (\E c \in Conns : ShutdownTest(t, c)) \/ ShutdownStore(t) \/ ShutdownPush(t)
  PROVE  RunInv'
<1>1. /\ tpc \in [Callers -> {"out", "store", "push"} \X Channels]
      /\ \A u \in Callers : tpc[u][1] # "out" => tpc[u][2] \in held
      /\ Conns \subseteq Channels /\ Listen \in Channels /\ held \subseteq Conns
  BY ConnsAreChannels, Zenon DEF RunInv, CallersInv, ServerTypeOK
<1>2. ASSUME NEW p \in {"out", "store", "push"}, NEW d \in Channels, p = "out" \/ d \in held,
             tpc' = [tpc EXCEPT ![t] = <<p, d>>], UNCHANGED held
      PROVE  CallersInv'
  <2>1. /\ tpc' \in [Callers -> {"out", "store", "push"} \X Channels]
        /\ tpc'[t] = <<p, d>> /\ \A u \in Callers : u # t => tpc'[u] = tpc[u]
    BY <1>1, <1>2
  <2>2. <<p, d>>[1] = p /\ <<p, d>>[2] = d
    OBVIOUS
  <2>3. ASSUME NEW u \in Callers, tpc'[u][1] # "out" PROVE tpc'[u][2] \in held'
    BY <1>1, <1>2, <2>1, <2>2, <2>3
  <2> QED
    BY <2>1, <2>3 DEF CallersInv
<1>3. ASSUME NEW c \in Conns, ShutdownTest(t, c) PROVE RunInv'
  <2>1. /\ c \in held /\ tpc' = [tpc EXCEPT ![t] = <<"store", c>>]
        /\ UNCHANGED <<held, state_>> /\ Caller
    BY <1>3 DEF ShutdownTest, Caller
  <2>2. CallersInv'
    BY <1>1, <1>2, <2>1, Zenon
  <2> QED
    BY <2>1, <2>2, CallerKeeps
<1>4. CASE ShutdownStore(t)
  <2>1. PICK c \in Conns : c = tpc[t][2] /\ c \in held
    BY <1>1, <1>4 DEF ShutdownStore
  <2>2. /\ tpc' = [tpc EXCEPT ![t] = <<"push", c>>]
        /\ state_' = [state_ EXCEPT ![c] = "kDisconnecting"]
        /\ UNCHANGED <<pvars, loopvars, connections_, server, polled, told, held>>
    BY <1>4, <2>1 DEF ShutdownStore, Caller
  <2>3. CallersInv'
    BY <1>1, <1>2, <2>1, <2>2, Zenon
  <2>4. life[c] = "live"
    BY <2>1, Zenon DEF RunInv, ConnInv
  <2> QED
    BY <2>2, <2>3, <2>4, StoreKeeps, Zenon
<1>5. CASE ShutdownPush(t)
  <2>1. /\ tpc' = [tpc EXCEPT ![t] = <<"out", Listen>>]
        /\ UNCHANGED <<held, state_>> /\ Caller
    BY <1>5 DEF ShutdownPush, Caller
  <2>2. CallersInv'
    BY <1>1, <1>2, <2>1, Zenon
  <2> QED
    BY <2>1, <2>2, CallerKeeps
<1> QED
  BY <1>3, <1>4, <1>5

-----------------------------------------------------------------------------
(* Types, also of the state in which the process is gone *)

ConnSteps(c) ==
  \/ handleRead(c) \/ CloseEvent(c) \/ HandleWrite(c) \/ ConnectDestroyed(c)
  \/ DestroyConnection(c) \/ RunSend(c)
  \/ UserHold(c) \/ UserShutdown(c) \/ UserSend(c) \/ Release(c)

CallerSteps(t) ==
  (\E c \in Conns : ShutdownTest(t, c)) \/ ShutdownStore(t) \/ ShutdownPush(t)

LEMMA NextCases ==
  ASSUME ServerNext
  PROVE  \/ Moves \/ Poll \/ NextChannel \/ UserReturns \/ UserDownReturns \/ ServerGone
         \/ AcceptFailed
         \/ \E c \in Conns : ConnSteps(c)
         \/ \E t \in Callers : CallerSteps(t)
BY DEF ServerNext, LoopThread, UserCode, Environment, Moves, ConnSteps, CallerSteps

ObjectTypes ==
  /\ life \in [Channels -> {"none", "live", "freed"}]
  /\ state_ \in [Conns -> {"kConnecting", "kConnected", "kDisconnecting", "kDisconnected"}]
  /\ connections_ \subseteq Conns /\ held \subseteq Conns
  /\ server \in {"new", "up", "gone"}

LoopTypes ==
  /\ pc \in {"poll", "event", "write", "user", "destroy", "userDown", "next",
             "functors", "server"}
  /\ ret \in {"poll", "next", "write", "server", "functors"} /\ cur \in Channels

PolledTypes ==
  /\ active_channels_ \in Seq(Channels)
  /\ revents_ \in [Channels -> SUBSET {"in", "out", "hup", "nval"}]

Functors == {"send", "shutdown"} \X Conns

WorkTypes ==
  /\ functors_ \in Seq(Functors) /\ works \in Seq(Functors)
  /\ Len(functors_) <= MaxQueue /\ Len(works) <= MaxQueue

LEMMA TypeParts ==
  ServerTypeOK <=> ObjectTypes /\ LoopTypes /\ PolledTypes /\ WorkTypes
BY Zenon DEF ServerTypeOK, ObjectTypes, LoopTypes, PolledTypes, WorkTypes, Functors

(* What a step may do to the objects. *)
ObjectStep ==
  /\ \/ UNCHANGED life
     \/ \E c \in Channels : \E v \in {"live", "freed"} : life' = [life EXCEPT ![c] = v]
  /\ \/ UNCHANGED state_
     \/ \E c : \E v \in {"kConnected", "kDisconnecting", "kDisconnected"} :
          state_' = [state_ EXCEPT ![c] = v]
  /\ \/ UNCHANGED connections_
     \/ \E c \in Conns : connections_' \in {connections_ \cup {c}, connections_ \ {c}}
  /\ UNCHANGED held \/ \E c \in Conns : held' \in {held \cup {c}, held \ {c}}
  /\ server' \in {server, "up", "gone"}

LEMMA ObjectStepTypes ==
  ASSUME ObjectTypes, ObjectStep PROVE ObjectTypes'
<1>1. life' \in [Channels -> {"none", "live", "freed"}]
  BY DEF ObjectTypes, ObjectStep
<1>2. state_' \in [Conns -> {"kConnecting", "kConnected", "kDisconnecting", "kDisconnected"}]
  BY DEF ObjectTypes, ObjectStep
<1>3. connections_' \subseteq Conns /\ held' \subseteq Conns
  BY DEF ObjectTypes, ObjectStep
<1>4. server' \in {"new", "up", "gone"}
  BY DEF ObjectTypes, ObjectStep
<1> QED
  BY <1>1, <1>2, <1>3, <1>4 DEF ObjectTypes

LEMMA UpdateLeavesLife ==
  ASSUME NEW c, SendBuffered(c) \/ UNCHANGED pvars PROVE UNCHANGED life
BY DEF SendBuffered, pvars

LEMMA NextIsObjectStep ==
  ASSUME ServerTypeOK, ServerNext PROVE ObjectStep
<1> USE DEF conns, others
<1>1. CASE Moves
  <2>1. UNCHANGED <<life, state_, connections_, held>> /\ server' \in {server, "up"}
    <3>1. CASE Start \/ DestroyServer \/ RunShutdown \/ FunctorsDone
      BY <3>1 DEF Start, DestroyServer, RunShutdown, RunFunctor, FunctorsDone, pvars
    <3>2. CASE ListenIdle \/ RunFreed
      BY <3>2, Zenon DEF ListenIdle, RunFreed, RunFunctor, UseFreed, Fail, pvars
    <3>3. ASSUME NEW c \in Conns,
                 ReadData(c) \/ ReadNothing(c) \/ NoWrite(c) \/ FreedWrite(c) \/ PeerCloses(c)
          PROVE  UNCHANGED <<life, state_, connections_, held>> /\ server' \in {server, "up"}
      BY <3>3, Zenon
      DEF ReadData, ReadNothing, NoWrite, FreedWrite, PeerCloses, UseFreed, Fail, pvars
    <3>4. ASSUME NEW t \in Callers, NEW c \in Conns, Send(t, c)
          PROVE  UNCHANGED <<life, state_, connections_, held>> /\ server' \in {server, "up"}
      BY <3>4 DEF Send, Caller, pvars
    <3> QED
      BY <1>1, <3>1, <3>2, <3>3, <3>4, Zenon DEF Moves
  <2> QED
    BY <2>1 DEF ObjectStep
<1>2. CASE Poll \/ NextChannel \/ AcceptFailed
  <2>1. UNCHANGED <<life, state_, connections_, held, server>>
    BY <1>2 DEF Poll, NextChannel, AcceptFailed, UseFreed, Fail, svars, pvars
  <2> QED
    BY <2>1, Zenon DEF ObjectStep
<1>3. CASE UserReturns \/ UserDownReturns
  <2>1. UNCHANGED <<state_, connections_, held, server>> /\ cur \in Channels
    BY <1>3 DEF UserReturns, UserDownReturns, ServerTypeOK
  <2>2. UNCHANGED life \/ life' = [life EXCEPT ![cur] = "freed"]
    BY <1>3 DEF UserReturns, UserDownReturns, Free, pvars
  <2> QED
    BY <2>1, <2>2 DEF ObjectStep
<1>4. CASE ServerGone
  BY <1>4, ConnsAreChannels, Zenon DEF ServerGone, ObjectStep
<1>5. ASSUME NEW c \in Conns, ConnSteps(c) PROVE ObjectStep
  <2>0. c \in Channels
    BY ConnsAreChannels
  <2>1. CASE handleRead(c)
    BY <2>0, <2>1, Zenon DEF handleRead, ConnectEstablished, ObjectStep
  <2>2. CASE CloseEvent(c)
    BY <2>2, Zenon DEF CloseEvent, HandleHup, ReadEof, HandleClose, Close, ObjectStep
  <2>3. CASE HandleWrite(c) \/ UserSend(c) \/ RunSend(c)
    <3>1. UNCHANGED <<life, state_, connections_, held, server>>
      BY <2>3, UpdateLeavesLife, Zenon
         DEF HandleWrite, UserSend, RunSend, RunFunctor, svars, pvars
    <3> QED
      BY <3>1, ZenonT(30) DEF ObjectStep
  <2>4. CASE ConnectDestroyed(c)
    <3>1. UNCHANGED life
      BY <2>4 DEF ConnectDestroyed, pvars
    <3> QED
      BY <2>4, <3>1, Zenon DEF ConnectDestroyed, ObjectStep
  <2>5. CASE DestroyConnection(c)
    BY <2>5 DEF DestroyConnection, ObjectStep, pvars
  <2>6. CASE UserHold(c) \/ UserShutdown(c)
    BY <2>6 DEF UserHold, UserShutdown, ObjectStep, pvars
  <2>7. CASE Release(c)
    <3>1. UNCHANGED life \/ life' = [life EXCEPT ![c] = "freed"]
      BY <2>7, Zenon DEF Release, Free, pvars
    <3>2. held' = held \ {c} /\ UNCHANGED <<state_, connections_, server>>
      BY <2>7, Zenon DEF Release
    <3>3. held' \in {held \cup {c}, held \ {c}} /\ server' \in {server, "up", "gone"}
      BY <3>2, Zenon
    <3> QED
      BY <2>0, <3>1, <3>2, <3>3, Zenon DEF ObjectStep
  <2> QED
    BY <1>5, <2>1, <2>2, <2>3, <2>4, <2>5, <2>6, <2>7 DEF ConnSteps
<1>6. ASSUME NEW t \in Callers, CallerSteps(t) PROVE ObjectStep
  BY <1>6, Zenon DEF CallerSteps, ShutdownTest, ShutdownStore, ShutdownPush, Caller,
                     ObjectStep, pvars
<1> QED
  BY <1>1, <1>2, <1>3, <1>4, <1>5, <1>6, NextCases

LEMMA NextKeepsLoopTypes ==
  ASSUME ServerTypeOK, ServerNext PROVE LoopTypes'
<1>0. /\ pc \in {"poll", "event", "write", "user", "destroy", "userDown", "next",
                 "functors", "server"}
      /\ ret \in {"poll", "next", "write", "server", "functors"} /\ cur \in Channels
  BY Zenon DEF ServerTypeOK
<1> USE DEF LoopTypes, loopvars, Goto, Call
<1>1. CASE Moves
  <2>1. CASE Start \/ DestroyServer \/ RunShutdown \/ FunctorsDone
    BY <1>0, <2>1 DEF Start, DestroyServer, RunShutdown, FunctorsDone
  <2>2. CASE ListenIdle \/ RunFreed
    BY <1>0, <2>2, Zenon DEF ListenIdle, RunFreed, UseFreed
  <2>3. ASSUME NEW c \in Conns,
               ReadData(c) \/ ReadNothing(c) \/ NoWrite(c) \/ FreedWrite(c) \/ PeerCloses(c)
        PROVE  LoopTypes'
    BY <1>0, <2>3, ConnsAreChannels, Zenon
       DEF ReadData, ReadNothing, NoWrite, FreedWrite, PeerCloses, UseFreed
  <2>4. ASSUME NEW t \in Callers, NEW c \in Conns, Send(t, c) PROVE LoopTypes'
    BY <1>0, <2>4, Zenon DEF Send, Caller
  <2> QED
    BY <1>1, <2>1, <2>2, <2>3, <2>4, Zenon DEF Moves
<1>2. CASE Poll \/ AcceptFailed
  BY <1>0, <1>2, Zenon DEF Poll, AcceptFailed, UseFreed, svars
<1>3. CASE NextChannel
  <2>1. cur' \in Channels
    <3>1. CASE active_channels_ = <<>>
      BY <1>3, <3>1, ConnsAreChannels DEF NextChannel
    <3>2. CASE active_channels_ # <<>>
      <4>1. active_channels_ \in Seq(Channels) /\ cur' = Head(active_channels_)
        BY <1>3, <3>2, SMTT(30) DEF NextChannel, ServerTypeOK
      <4> QED
        BY ONLY <3>2, <4>1
    <3> QED
      BY <3>1, <3>2
  <2> QED
    BY <1>3, <2>1 DEF NextChannel
<1>4. CASE UserReturns \/ UserDownReturns \/ ServerGone
  BY <1>0, <1>4 DEF UserReturns, UserDownReturns, ServerGone
<1>5. ASSUME NEW c \in Conns, ConnSteps(c) PROVE LoopTypes'
  <2>0. c \in Channels
    BY ConnsAreChannels, Zenon
  <2>1. CASE handleRead(c) \/ CloseEvent(c)
    BY <1>0, <2>0, <2>1, Zenon
       DEF handleRead, ConnectEstablished, CloseEvent, HandleHup, ReadEof, HandleClose, Close
  <2>2. CASE HandleWrite(c) \/ UserSend(c) \/ RunSend(c)
    BY <1>0, <2>0, <2>2, Zenon DEF HandleWrite, UserSend, RunSend, svars
  <2>3. CASE ConnectDestroyed(c) \/ DestroyConnection(c)
    BY <1>0, <2>0, <2>3, Zenon DEF ConnectDestroyed, DestroyConnection
  <2>4. CASE UserHold(c) \/ UserShutdown(c) \/ Release(c)
    BY <1>0, <2>4, Zenon DEF UserHold, UserShutdown, Release
  <2> QED
    BY <1>5, <2>1, <2>2, <2>3, <2>4, Zenon DEF ConnSteps
<1>6. ASSUME NEW t \in Callers, CallerSteps(t) PROVE LoopTypes'
  BY <1>0, <1>6 DEF CallerSteps, ShutdownTest, ShutdownStore, ShutdownPush, Caller
<1> QED
  BY <1>1, <1>2, <1>3, <1>4, <1>5, <1>6, NextCases

LEMMA PolledUnless ==
  ASSUME ServerNext PROVE UNCHANGED polled \/ Poll \/ NextChannel
<1>1. CASE Moves
  BY <1>1, Zenon DEF Moves, Start, DestroyServer, RunShutdown, FunctorsDone,
              ListenIdle, RunFreed, RunFunctor, ReadData, ReadNothing, NoWrite, FreedWrite,
              PeerCloses,
              Send, Caller
<1>2. CASE AcceptFailed \/ UserReturns \/ UserDownReturns \/ ServerGone
  BY <1>2, Zenon DEF AcceptFailed, svars, UserReturns, UserDownReturns, ServerGone
<1>3. ASSUME NEW c \in Conns, ConnSteps(c) PROVE UNCHANGED polled
  BY <1>3, Zenon DEF ConnSteps, handleRead, CloseEvent, HandleHup, ReadEof, HandleWrite,
              ConnectDestroyed, DestroyConnection, RunSend, RunFunctor, UserHold, UserShutdown,
              UserSend, svars, Release
<1>4. ASSUME NEW t \in Callers, CallerSteps(t) PROVE UNCHANGED polled
  BY <1>4, Zenon DEF CallerSteps, ShutdownTest, ShutdownStore, ShutdownPush, Caller
<1> QED
  BY <1>1, <1>2, <1>3, <1>4, NextCases

(* The queue of functors, and the batch that is being run. *)
WorkStep ==
  \/ UNCHANGED work
  \/ works' = functors_ /\ functors_' = <<>>
  \/ works # <<>> /\ works' = Tail(works) /\ UNCHANGED functors_
  \/ \E f \in Functors :
       Len(functors_) < MaxQueue /\ functors_' = Append(functors_, f) /\ UNCHANGED works

LEMMA NextIsWorkStep ==
  ASSUME ServerTypeOK, RunInv, Running, ServerNext PROVE WorkStep
<1> USE DEF WorkStep
<1>1. CASE Moves
  <2>1. CASE Start \/ DestroyServer \/ FunctorsDone \/ ListenIdle
    BY <2>1, Zenon DEF Start, DestroyServer, FunctorsDone, ListenIdle
  <2>2. CASE RunShutdown \/ RunFreed
    BY <2>2, ZenonT(30) DEF RunShutdown, RunFreed, RunFunctor
  <2>3. ASSUME NEW c \in Conns,
               ReadData(c) \/ ReadNothing(c) \/ NoWrite(c) \/ FreedWrite(c) \/ PeerCloses(c)
        PROVE  WorkStep
    BY <2>3, Zenon DEF ReadData, ReadNothing, NoWrite, FreedWrite, PeerCloses
  <2>4. ASSUME NEW t \in Callers, NEW c \in Conns, Send(t, c) PROVE WorkStep
    <3>1. <<"send", c>> \in Functors
      BY DEF Functors
    <3> QED
      BY <2>4, <3>1 DEF Send, Caller, Push
  <2> QED
    BY <1>1, <2>1, <2>2, <2>3, <2>4, Zenon DEF Moves
<1>2. CASE Poll \/ AcceptFailed \/ UserReturns \/ UserDownReturns \/ ServerGone
  BY <1>2, Zenon DEF Poll, AcceptFailed, svars, UserReturns, UserDownReturns, ServerGone
<1>3. CASE NextChannel
  BY <1>3 DEF NextChannel
<1>4. ASSUME NEW c \in Conns, ConnSteps(c) PROVE WorkStep
  <2>1. CASE RunSend(c)
    BY <2>1 DEF RunSend, RunFunctor
  <2>2. CASE ~RunSend(c)
    BY <1>4, <2>2, Zenon DEF ConnSteps, handleRead, CloseEvent, HandleHup, ReadEof, HandleWrite,
                ConnectDestroyed, DestroyConnection, UserHold, UserShutdown,
                UserSend, svars, Release
  <2> QED
    BY <2>1, <2>2
<1>5. ASSUME NEW t \in Callers, CallerSteps(t) PROVE WorkStep
  <2>1. CASE (\E c \in Conns : ShutdownTest(t, c)) \/ ShutdownStore(t)
    BY <2>1 DEF ShutdownTest, ShutdownStore, Caller, work
  <2>2. CASE ShutdownPush(t)
    <3>1. tpc[t][2] \in Conns
      BY <2>2 DEF ShutdownPush, RunInv, CallersInv, ServerTypeOK
    <3>2. <<"shutdown", tpc[t][2]>> \in Functors
      BY <3>1 DEF Functors
    <3> QED
      BY <2>2, <3>2, Zenon DEF ShutdownPush, Caller, Push
  <2> QED
    BY <1>5, <2>1, <2>2, Zenon DEF CallerSteps
<1> QED
  BY <1>1, <1>2, <1>3, <1>4, <1>5, NextCases, Zenon

LEMMA WorkStepTypes ==
  ASSUME WorkTypes, WorkStep PROVE WorkTypes'
<1> HIDE DEF Functors
<1>1. /\ functors_ \in Seq(Functors) /\ works \in Seq(Functors)
      /\ Len(functors_) <= MaxQueue /\ Len(works) <= MaxQueue /\ MaxQueue \in Nat
      /\ Len(functors_) \in Nat /\ Len(works) \in Nat
  BY ServerAssumption DEF WorkTypes
<1>2. CASE UNCHANGED work
  BY <1>1, <1>2 DEF work, WorkTypes
<1>3. CASE works' = functors_ /\ functors_' = <<>>
  BY <1>1, <1>3 DEF WorkTypes
<1>4. CASE works # <<>> /\ works' = Tail(works) /\ UNCHANGED functors_
  <2>1. Tail(works) \in Seq(Functors) /\ Len(Tail(works)) = Len(works) - 1
    BY ONLY <1>1, <1>4
  <2> QED
    BY <1>1, <1>4, <2>1 DEF WorkTypes
<1>5. ASSUME NEW f \in Functors, Len(functors_) < MaxQueue, functors_' = Append(functors_, f),
             UNCHANGED works
      PROVE  WorkTypes'
  <2>1. Append(functors_, f) \in Seq(Functors) /\ Len(Append(functors_, f)) = Len(functors_) + 1
    BY ONLY <1>1, f \in Functors
  <2> QED
    BY <1>1, <1>5, <2>1 DEF WorkTypes
<1> QED
  BY <1>2, <1>3, <1>4, <1>5 DEF WorkStep

-----------------------------------------------------------------------------
(* Steps are taken by a process that runs; the first state; stuttering *)

LEMMA NextRuns == ServerNext => Running
<1> SUFFICES ASSUME ServerNext PROVE Running
  OBVIOUS
<1>1. CASE Moves
  <2>1. CASE Start \/ DestroyServer \/ FunctorsDone \/ ListenIdle
    BY <2>1, Zenon DEF Start, DestroyServer, FunctorsDone, ListenIdle, At
  <2>2. CASE RunShutdown \/ RunFreed
    BY <2>2, Zenon DEF RunShutdown, RunFreed, RunFunctor
  <2>3. ASSUME NEW c \in Conns,
               ReadData(c) \/ ReadNothing(c) \/ NoWrite(c) \/ FreedWrite(c) \/ PeerCloses(c)
        PROVE  Running
    BY <2>3, Zenon DEF ReadData, ReadNothing, NoWrite, FreedWrite, PeerCloses, AtEvent, At
  <2>4. ASSUME NEW t \in Callers, NEW c \in Conns, Send(t, c) PROVE Running
    BY <2>4, Zenon DEF Send, Caller
  <2> QED
    BY <1>1, <2>1, <2>2, <2>3, <2>4 DEF Moves
<1>2. CASE \/ Poll \/ NextChannel \/ UserReturns \/ UserDownReturns \/ ServerGone
           \/ AcceptFailed
  BY <1>2, Zenon DEF Poll, NextChannel, UserReturns, UserDownReturns, ServerGone,
                     AcceptFailed, At
<1>3. ASSUME NEW c \in Conns, ConnSteps(c) PROVE Running
  BY <1>3, Zenon DEF ConnSteps, handleRead, CloseEvent, HandleHup, ReadEof, HandleWrite,
              ConnectDestroyed, DestroyConnection, RunSend, RunFunctor, UserHold, UserShutdown,
              UserSend, Release, InUser, AtEvent, At
<1>4. ASSUME NEW t \in Callers, CallerSteps(t) PROVE Running
  BY <1>4, Zenon DEF CallerSteps, ShutdownTest, ShutdownStore, ShutdownPush, Caller
<1> QED
  BY <1>1, <1>2, <1>3, <1>4, NextCases

LEMMA StutterKeepsServerInv ==
  ASSUME ServerInv, UNCHANGED allvars PROVE ServerInv'
<1>1. Move /\ UNCHANGED <<aborted, loopvars>>
  BY DEF allvars, svars, conns, polled, others, pvars, Move
<1>2. Running' => RunInv'
  BY <1>1, MoveKeeps DEF ServerInv, Running
<1>3. ServerTypeOK'
  BY Zenon DEF ServerInv, ServerTypeOK, allvars, svars, pvars, loopvars, conns, polled, work, others
<1>4. Peers' /\ (Running' => WriteInv')
  BY DEF ServerInv, Peers, WriteInv, Running, allvars, svars, pvars, loopvars, conns, others
<1> QED
  BY <1>2, <1>3, <1>4, Zenon DEF ServerInv

LEMMA InitPollSet == ServerInit => IInv /\ life[Listen] = "live"
<1> SUFFICES ASSUME ServerInit PROVE IInv /\ life[Listen] = "live"
  OBVIOUS
<1> DEFINE fd == FdOf[Listen]
<1>0. Listen \in Channels /\ fd \in Nat
  BY ConnsAreChannels, FdAssumption
<1> HIDE DEF fd
<1>1. PICK s : s = [fd |-> fd, events |-> {"read"}]
  BY Zenon
<1>2. s \in Slot /\ s.fd = fd /\ s.events = {"read"}
  BY <1>0, <1>1, Zenon DEF Slot
<1>3. pollfds_ = <<s>>
  BY <1>1, Zenon DEF ServerInit, fd
<1>4. pollfds_ \in Seq(Slot) /\ Len(pollfds_) = 1 /\ pollfds_[1] = s
  BY ONLY <1>2, <1>3, SMTT(30)
<1>5. /\ DOMAIN channels_ = {fd} /\ channels_[fd] = Listen
      /\ channels_ \in [DOMAIN channels_ -> Channels]
  BY <1>0, SMTT(30) DEF ServerInit, fd
<1>6. /\ life \in [Channels -> {"none", "live", "freed"}]
      /\ events_ \in [Channels -> SUBSET {"read", "write"}]
      /\ index_ \in [Channels -> Int] /\ shifted \in BOOLEAN /\ aborted = "none"
      /\ life[Listen] = "live" /\ events_[Listen] = {"read"} /\ index_[Listen] = 0
      /\ \A c \in Channels : c # Listen => life[c] = "none" /\ events_[c] = {}
  <2>1. 0 \in Int /\ -1 \in Int
    OBVIOUS
  <2>2. index_ \in [Channels -> Int] /\ shifted \in BOOLEAN
    BY <2>1, Zenon DEF ServerInit
  <2> QED
    BY <1>0, <2>2 DEF ServerInit
<1>7. PollerTypeOK
  BY ONLY <1>4, <1>5, <1>6, Zenon DEF PollerTypeOK, Slot
<1>8. Belongs(1, Listen)
  <2>1. /\ {"read"} # {} /\ 0 >= 0 /\ 0 = 1 - 1
        /\ "live" # "none"
    OBVIOUS
  <2> QED
    BY ONLY <1>2, <1>4, <1>6, <2>1, Zenon DEF Belongs, fd
<1>9. SlotsDistinct /\ EntriesHaveSlots
  BY <1>2, <1>4, <1>5 DEF SlotsDistinct, EntriesHaveSlots
<1>10. SlotsHaveChannels
  <2>1. \A i \in 1..Len(pollfds_) : i = 1
    BY <1>4
  <2> QED
    BY <1>2, <1>4, <1>5, <1>8, <2>1, Zenon DEF SlotsHaveChannels
<1>11. EventsRegistered /\ Owners
  BY <1>5, <1>6 DEF EventsRegistered, Owners, fd
<1>12. OwnEntries
  <2>1. ~(-1 >= 0)
    OBVIOUS
  <2>2. \A c \in Channels : c # Listen => ~(index_[c] >= 0)
    BY <2>1, Zenon DEF ServerInit
  <2> QED
    BY <1>5, <1>6, <2>2, Zenon DEF OwnEntries, fd
<1>13. Agree
  BY <1>9, <1>10, <1>11, <1>12, Zenon DEF Agree
<1> QED
  BY <1>6, <1>7, <1>13 DEF IInv, ClashOnlyWithDestroyed, SlotsFailOnlyAfterShift

LEMMA InitHolds == ServerInit => ServerInv
<1> SUFFICES ASSUME ServerInit PROVE ServerInv
  BY Zenon
<1>1. ObjectTypes /\ LoopTypes
  BY ConnsAreChannels DEF ServerInit, ObjectTypes, LoopTypes
<1>2. PolledTypes
  <2>1. active_channels_ = <<>> /\ revents_ = [c \in Channels |-> {}]
    BY Zenon DEF ServerInit
  <2> QED
    BY ONLY <2>1 DEF PolledTypes
<1>3. WorkTypes
  <2>1. functors_ = <<>> /\ works = <<>> /\ MaxQueue \in Nat
    BY ServerAssumption, ZenonT(30) DEF ServerInit
  <2> QED
    BY ONLY <2>1 DEF WorkTypes
<1>4. \A c \in Conns : ConnInv(c)
  <2> TAKE c \in Conns
  <2>0. -1 < 0
    BY ONLY TRUE
  <2>1. c \in Channels /\ c # Listen /\ -1 < 0
    BY <2>0, ConnsAreChannels, Zenon
  <2>2. /\ life[c] = "none" /\ state_[c] = "kConnecting" /\ index_[c] < 0
        /\ ups[c] = 0 /\ downs[c] = 0 /\ connections_ = {} /\ held = {} /\ pc = "poll"
    BY <2>1, Zenon DEF ServerInit
  <2> QED
    BY <2>2, Zenon DEF ConnInv, Closing
<1>5. ActiveInv /\ LoopInv
  BY DEF ServerInit, ActiveInv, LoopInv
<1>6. CallersInv
  BY ConnsAreChannels, Zenon DEF ServerInit, CallersInv
<1>7. PollSet /\ GoneInv /\ Counted
  BY InitPollSet, SMTT(30) DEF ServerInit, PollSet, GoneInv, Counted
<1>8. Peers /\ WriteInv
  BY DEF ServerInit, Peers, WriteInv
<1> QED
  BY <1>1, <1>2, <1>3, <1>4, <1>5, <1>6, <1>7, <1>8, TypeParts, SMTT(30) DEF ServerInv, RunInv

-----------------------------------------------------------------------------
(* What follows from it *)

LEMMA InMapIffPolled ==
  ASSUME RunInv, Running, NEW c \in Conns, ~Closing(c)
  PROVE  c \in connections_ <=> c \in Range(SlotChannels)
<1>0. PollSet /\ ConnInv(c) /\ c \in Channels /\ c # Listen
  BY ConnsAreChannels DEF RunInv
<1>1. PICK n : n = Len(pollfds_)
  BY Zenon
<1>2. /\ DOMAIN SlotChannels = 1..n
      /\ \A i \in 1..n : SlotChannels[i] # Listen =>
           life[SlotChannels[i]] = "live" /\ events_[SlotChannels[i]] # {}
  BY <1>0, <1>1, SlotFacts, Zenon
<1>3. c \in Range(SlotChannels) <=> \E i \in 1..n : SlotChannels[i] = c
  BY <1>2, Zenon DEF Range
<1>4. ASSUME c \in connections_ PROVE c \in Range(SlotChannels)
  <2>1. life[c] = "live" /\ events_[c] # {} /\ server # "gone"
    BY <1>0, <1>4, Zenon DEF ConnInv, RunInv, GoneInv
  <2> QED
    BY <1>0, <1>1, <1>3, <2>1, SlotOf, Zenon
<1>5. ASSUME c \in Range(SlotChannels) PROVE c \in connections_
  <2>1. life[c] = "live" /\ events_[c] # {}
    BY <1>0, <1>2, <1>3, <1>5, ZenonT(30)
  <2> QED
    BY <1>0, <2>1, Zenon DEF ConnInv
<1> QED
  BY <1>4, <1>5

LEMMA AgreesFollows == ServerInv => ServerAgrees
<1> SUFFICES ASSUME ServerTypeOK, RunInv, Running, pc = "poll", NEW c \in Conns
             PROVE  /\ c \in connections_ <=> c \in Range(SlotChannels)
                    /\ c \in connections_ => state_[c] \in {"kConnected", "kDisconnecting"}
                    /\ state_[c] = "kConnected" => c \in connections_
                    /\ life[c] = "live" => c \in connections_ \cup held
                    /\ c \in connections_ => life[c] = "live"
  BY Zenon DEF ServerInv, ServerAgrees
<1>1. ConnInv(c) /\ ~Closing(c) /\ ~Ending(c)
  BY DEF RunInv, Closing, Ending
<1>2. c \in connections_ <=> c \in Range(SlotChannels)
  BY <1>1, InMapIffPolled, Zenon
<1>3. /\ c \in connections_ => state_[c] \in {"kConnected", "kDisconnecting"}
      /\ state_[c] = "kConnected" => c \in connections_
      /\ life[c] = "live" => c \in connections_ \cup held
      /\ c \in connections_ => life[c] = "live"
  BY <1>1 DEF ConnInv
<1> QED
  BY <1>2, <1>3, Zenon

LEMMA DanglingFollows == ServerInv => DanglingOnlyAfterClose
<1> SUFFICES ASSUME ServerTypeOK, RunInv, WriteInv, Running PROVE DanglingOnlyAfterClose
  BY Zenon DEF ServerInv, DanglingOnlyAfterClose
<1> DEFINE Sound(c) == life[c] = "live" \/ (c = Listen /\ server = "gone")
<1>1. Sound(Listen)
  BY DEF RunInv, PollSet
<1>2. \A c \in connections_ \cup {Listen} : Sound(c)
  BY <1>1, Zenon DEF RunInv, ConnInv, ServerTypeOK
<1>3. \A c \in Range(SlotChannels) : Sound(c)
  <2>1. PICK n : n = Len(pollfds_)
    BY Zenon
  <2>2. /\ DOMAIN SlotChannels = 1..n
        /\ \A i \in 1..n : SlotChannels[i] # Listen =>
             life[SlotChannels[i]] = "live" /\ events_[SlotChannels[i]] # {}
    BY <2>1, SlotFacts, Zenon
  <2> QED
    BY <1>1, <2>2, Zenon DEF Range
<1>4. \A c \in Range(active_channels_) : Sound(c)
  <2>1. active_channels_ \in Seq(Channels)
    BY Zenon DEF ServerTypeOK
  <2>2. DOMAIN active_channels_ = 1..Len(active_channels_)
    BY ONLY <2>1
  <2>3. \A i \in 1..Len(active_channels_) : active_channels_[i] \in connections_ \cup {Listen}
    BY Zenon DEF RunInv, ActiveInv
  <2>4. Range(active_channels_) \subseteq connections_ \cup {Listen}
    BY ONLY <2>2, <2>3, Zenon DEF Range
  <2> HIDE DEF Sound
  <2> QED
    BY ONLY <1>2, <2>4
<1>5. pc = "event" => Sound(cur)
  BY <1>2, ZenonT(30) DEF RunInv, LoopInv
<1>6. ASSUME pc = "write", life[cur] # "live"
      PROVE  cur \notin connections_ /\ peer[cur] = "closed" /\ downs[cur] = 1
  <2>1. /\ cur \in Conns /\ life[cur] # "none"
        /\ cur \in connections_ \/ peer[cur] = "closed"
    BY <1>6 DEF WriteInv
  <2>2. ConnInv(cur) /\ ~Closing(cur)
    BY <1>6, <2>1, Zenon DEF RunInv, Closing
  <2> QED
    BY ONLY <1>6, <2>1, <2>2, SMTT(30) DEF ConnInv
<1> QED
  BY ONLY <1>3, <1>4, <1>5, <1>6, Zenon DEF DanglingOnlyAfterClose

LEMMA NotifiedFollows == ServerInv => NotifiedOnce
<1> SUFFICES ASSUME RunInv, NEW c \in Conns
             PROVE  /\ downs[c] <= ups[c] /\ ups[c] <= 1
                    /\ life[c] = "freed" => downs[c] = 1
  BY DEF ServerInv, NotifiedOnce
<1>1. ConnInv(c) /\ LoopInv
  BY DEF RunInv
<1>2. Closing(c) => life[c] = "live"
  BY <1>1, Zenon DEF LoopInv, Closing
<1>3. \/ ups[c] = 0 /\ downs[c] = 0 /\ life[c] = "none"
      \/ ups[c] = 1 /\ downs[c] = 0 /\ life[c] = "live"
      \/ ups[c] = 1 /\ downs[c] = 1
  BY <1>1, <1>2 DEF ConnInv
<1> QED
  BY ONLY <1>3

-----------------------------------------------------------------------------
(* Who updates a channel that is not registered any more *)

(* A connection of the map has a registered channel. *)
LEMMA InMapIsRegistered ==
  ASSUME RunInv, Running, NEW c \in Conns, events_[c] # {}, life[c] = "live",
         server # "gone", NEW events \in SUBSET {"read", "write"},
         UpdateChannel(c, events), UNCHANGED life
  PROVE  aborted' # "not registered"
<1>1. PollSet /\ index_[c] >= 0
  BY DEF RunInv, ConnInv
<1> QED
  BY <1>1, ConnUpdate, ZenonT(30)

LEMMA MovesAreRegistered ==
  ASSUME \/ Moves \/ Poll \/ NextChannel \/ UserReturns \/ UserDownReturns \/ ServerGone
         \/ AcceptFailed,
         Running
  PROVE  aborted' # "not registered"
<1> USE DEF Running
<1>1. ASSUME NEW p, UseFreed(p) \/ UNCHANGED pvars PROVE aborted' # "not registered"
  BY <1>1, Zenon DEF UseFreed, Fail, pvars
<1>2. CASE Moves
  <2>1. CASE Start \/ DestroyServer \/ FunctorsDone \/ RunShutdown
    BY <1>1, <2>1, Zenon DEF Start, DestroyServer, FunctorsDone, RunShutdown
  <2>2. CASE ListenIdle \/ RunFreed
    BY <1>1, <2>2, Zenon DEF ListenIdle, RunFreed
  <2>3. ASSUME NEW c \in Conns,
               ReadData(c) \/ ReadNothing(c) \/ NoWrite(c) \/ FreedWrite(c) \/ PeerCloses(c)
        PROVE  aborted' # "not registered"
    BY <1>1, <2>3, Zenon DEF ReadData, ReadNothing, NoWrite, FreedWrite, PeerCloses
  <2>4. ASSUME NEW t \in Callers, NEW c \in Conns, Send(t, c) PROVE aborted' # "not registered"
    BY <1>1, <2>4, Zenon DEF Send, Caller
  <2> QED
    BY <1>2, <2>1, <2>2, <2>3, <2>4, Zenon DEF Moves
<1>3. CASE Poll \/ NextChannel
  BY <1>1, <1>3, Zenon DEF Poll, NextChannel
<1>4. CASE UserReturns \/ UserDownReturns \/ ServerGone \/ AcceptFailed
  BY <1>1, <1>4, Zenon DEF UserReturns, UserDownReturns, Free, ServerGone, AcceptFailed, Fail,
                           pvars
<1> QED
  BY <1>2, <1>3, <1>4, Zenon

LEMMA SendIsRegistered ==
  ASSUME ServerTypeOK, RunInv, Running, NEW c \in Conns, c \in connections_, SendBuffered(c)
  PROVE  aborted' # "not registered"
<1>1. life[c] = "live" /\ events_[c] # {} /\ server # "gone"
  BY Zenon DEF RunInv, ConnInv, GoneInv
<1>2. CASE UNCHANGED pvars
  BY <1>2 DEF pvars, Running
<1>3. CASE UpdateChannel(c, events_[c] \cup {"write"}) /\ UNCHANGED life
  <2>1. events_[c] \cup {"write"} \in SUBSET {"read", "write"}
    <3>1. events_ \in [Channels -> SUBSET {"read", "write"}] /\ c \in Channels
      BY <1>1, ConnsAreChannels, Zenon DEF RunInv, PollSet, IInv, PollerTypeOK
    <3> QED
      BY ONLY <3>1
  <2> QED
    BY <1>1, <1>3, <2>1, InMapIsRegistered, Zenon
<1> QED
  BY <1>2, <1>3, Zenon DEF SendBuffered

LEMMA UnregisteredStep ==
  ASSUME ServerTypeOK, RunInv, ServerNext, aborted' = "not registered"
  PROVE  \/ \E c \in Conns \ connections_ : UserSend(c) \/ RunSend(c)
         \/ pc = "destroy" /\ ret # "server" /\ state_[cur] = "kDisconnecting"
<1> DEFINE Late == \/ \E c \in Conns \ connections_ : UserSend(c) \/ RunSend(c)
                   \/ pc = "destroy" /\ ret # "server" /\ state_[cur] = "kDisconnecting"
<1>0. Running
  BY NextRuns, Zenon
<1>1. CASE \/ Moves \/ Poll \/ NextChannel \/ UserReturns \/ UserDownReturns \/ ServerGone
           \/ AcceptFailed
  BY <1>0, <1>1, MovesAreRegistered, Zenon
<1>2. ASSUME NEW c \in Conns, ConnSteps(c) PROVE Late
  <2>0. events_ \in [Channels -> SUBSET {"read", "write"}] /\ c \in Channels
    BY ConnsAreChannels, Zenon DEF RunInv, PollSet, IInv, PollerTypeOK
  <2>1. CASE handleRead(c)
    BY <1>0, <2>1, HandleReadKeeps, Zenon DEF Running
  <2>2. CASE CloseEvent(c)
    <3>1. UpdateChannel(c, {}) /\ UNCHANGED life /\ At("event", c)
      BY <2>2, Zenon DEF CloseEvent, HandleHup, ReadEof, AtEvent, HandleClose, Close
    <3>2. life[c] = "live" /\ events_[c] # {} /\ server # "gone"
      BY <3>1, EventInMap, Zenon
    <3> QED
      BY <1>0, <3>1, <3>2, InMapIsRegistered, Zenon
  <2>3. CASE HandleWrite(c)
    <3>1. /\ life[c] = "live" /\ events_[c] # {} /\ pc = "write"
          /\ (UpdateChannel(c, events_[c] \ {"write"}) /\ UNCHANGED life) \/ UNCHANGED pvars
      BY <2>3, Zenon DEF HandleWrite, At
    <3>2. server # "gone"
      BY <3>1, Zenon DEF RunInv, GoneInv
    <3>3. events_[c] \ {"write"} \in SUBSET {"read", "write"}
      BY ONLY <2>0
    <3> QED
      BY <1>0, <3>1, <3>2, <3>3, InMapIsRegistered, Zenon DEF pvars, Running
  <2>4. CASE ConnectDestroyed(c)
    <3>1. /\ pc = "destroy" /\ cur = c /\ Closing(c)
          /\ \/ UNCHANGED pvars
             \/ /\ state_[c] \in {"kConnected", "kDisconnecting"}
                /\ UpdateChannel(c, {}) /\ UNCHANGED life
      BY <2>4, Zenon DEF ConnectDestroyed, At, Closing
    <3>2. server # "gone" /\ life[c] = "live" /\ ConnInv(c)
      BY <3>1, Zenon DEF RunInv, GoneInv, LoopInv
    <3>3. CASE UNCHANGED pvars
      BY <1>0, <3>3, Zenon DEF pvars, Running
    <3>4. CASE /\ state_[c] \in {"kConnected", "kDisconnecting"}
               /\ UpdateChannel(c, {}) /\ UNCHANGED life
      <4>1. CASE ret = "server"
        BY <1>0, <3>1, <3>2, <3>4, <4>1, InMapIsRegistered, Zenon DEF ConnInv
      <4>2. CASE ret # "server"
        BY <3>1, <3>2, <3>4, <4>2, Zenon DEF ConnInv
      <4> QED
        BY <4>1, <4>2, Zenon
    <3> QED
      BY <3>1, <3>3, <3>4, Zenon
  <2>5. CASE UserSend(c) \/ RunSend(c)
    <3>1. CASE c \in connections_
      <4>1. SendBuffered(c) \/ UNCHANGED pvars
        BY <2>5, Zenon DEF UserSend, RunSend
      <4> QED
        BY <1>0, <3>1, <4>1, SendIsRegistered, Zenon DEF pvars, Running
    <3> QED
      BY <2>5, <3>1, Zenon
  <2>6. CASE DestroyConnection(c) \/ UserHold(c) \/ UserShutdown(c) \/ Release(c)
    BY <1>0, <2>6, Zenon DEF DestroyConnection, UserHold, UserShutdown, Release, Free,
                         pvars, Running
  <2> QED
    BY <1>2, <2>1, <2>2, <2>3, <2>4, <2>5, <2>6, Zenon DEF ConnSteps
<1>3. ASSUME NEW t \in Callers, CallerSteps(t) PROVE FALSE
  BY <1>0, <1>3, Zenon DEF CallerSteps, ShutdownTest, ShutdownStore, ShutdownPush, Caller,
                           pvars, Running
<1> QED
  BY <1>1, <1>2, <1>3, NextCases, Zenon

-----------------------------------------------------------------------------
(* fillActiveChannels() *)

(* F is the recursion of fillActiveChannels() over slots s up to slot n. *)
Fills(F, s, r, n) ==
  F = [i \in 0..n |->
         IF i = 0 THEN <<>>
         ELSE IF r[s[i]] = {} THEN F[i - 1] ELSE Append(F[i - 1], s[i])]

INSTANCE WellFoundedInduction

LEMMA LeastNumber ==
  ASSUME NEW T, T \subseteq Nat, T # {}
  PROVE  \E m \in T : \A k \in T : m <= k
<1> DEFINE R == OpToRel(<, Nat)
<1>1. IsWellFoundedOn(R, Nat)
  BY NatLessThanWellFounded, Zenon
<1>2. \A k, m \in Nat : <<k, m>> \in R <=> k < m
  BY DEF OpToRel
<1> HIDE DEF R
<1>3. PICK m \in T : \A k \in T : ~(<<k, m>> \in R)
  BY <1>1, WFMin, Zenon
<1>4. ASSUME NEW k \in T PROVE m <= k
  <2>1. k \in Nat /\ m \in Nat
    OBVIOUS
  <2>2. ~(k < m)
    BY <1>2, <1>3, <2>1, Zenon
  <2> QED
    BY <2>1, <2>2
<1> QED
  BY <1>4

(* The recursion has a solution: a least n for which it has none would     *)
(* have one that extends that of n - 1.                                    *)
LEMMA FillExists ==
  ASSUME NEW s, NEW r, NEW n \in Nat
  PROVE  \E F : Fills(F, s, r, n)
<1> DEFINE Wrong == {k \in Nat : ~ \E F : Fills(F, s, r, k)}
<1> SUFFICES ASSUME Wrong # {} PROVE FALSE
  OBVIOUS
<1>1. Wrong \subseteq Nat
  OBVIOUS
<1>2. PICK m \in Wrong : \A k \in Wrong : m <= k
  BY ONLY <1>1, Wrong # {}, LeastNumber, Zenon
<1>3. m \in Nat /\ ~ \E F : Fills(F, s, r, m)
  OBVIOUS
<1>4. CASE m = 0
  <2>1. PICK F : F = [i \in 0..0 |-> <<>>]
    BY Zenon
  <2>2. [i \in 0..0 |-> IF i = 0 THEN <<>> ELSE IF r[s[i]] = {} THEN F[i - 1]
                         ELSE Append(F[i - 1], s[i])] = [i \in 0..0 |-> <<>>]
    OBVIOUS
  <2>3. Fills(F, s, r, 0)
    BY ONLY <2>1, <2>2, Zenon DEF Fills
  <2> QED
    BY ONLY <1>3, <1>4, <2>3, Zenon
<1>5. CASE m # 0
  <2>1. m - 1 \in Nat /\ ~(m <= m - 1)
    BY <1>3, <1>5
  <2>2. PICK F : Fills(F, s, r, m - 1)
    BY <1>2, <2>1, Zenon
  <2> DEFINE step(i) == IF i = 0 THEN <<>> ELSE IF r[s[i]] = {} THEN F[i - 1]
                        ELSE Append(F[i - 1], s[i])
  <2>3. PICK G : G = [i \in 0..m |-> step(i)]
    BY Zenon
  <2>4. ASSUME NEW i \in 0..m, i # 0 PROVE G[i - 1] = F[i - 1]
    <3>1. i - 1 \in 0..(m - 1) /\ i - 1 \in 0..m
      BY ONLY <1>3, i \in 0..m, i # 0
    <3>2. PICK k : k = i - 1
      BY Zenon
    <3>3. k \in 0..(m - 1) /\ k \in 0..m
      BY ONLY <3>1, <3>2
    <3>4. \A j \in 0..(m - 1) : F[j] = step(j)
      BY ONLY <2>2, Zenon DEF Fills
    <3> HIDE DEF step
    <3>5. F[k] = step(k)
      BY ONLY <3>3, <3>4, Zenon
    <3>6. G[k] = step(k)
      BY ONLY <2>3, <3>3, Zenon
    <3>7. F[k] = G[k]
      BY ONLY <3>5, <3>6, Zenon
    <3> QED
      BY ONLY <3>2, <3>7, SMTT(30)
  <2>5. \A i \in 0..m :
          G[i] = IF i = 0 THEN <<>> ELSE IF r[s[i]] = {} THEN G[i - 1]
                 ELSE Append(G[i - 1], s[i])
    <3> SUFFICES ASSUME NEW i \in 0..m
                 PROVE  G[i] = IF i = 0 THEN <<>> ELSE IF r[s[i]] = {} THEN G[i - 1]
                               ELSE Append(G[i - 1], s[i])
      BY Zenon
    <3>1. G[i] = step(i)
      BY ONLY <2>3, i \in 0..m, Zenon
    <3> QED
      BY ONLY <2>4, <3>1, i \in 0..m, Zenon
  <2>6. DOMAIN G = 0..m /\ G = [i \in DOMAIN G |-> G[i]]
    BY ONLY <2>3
  <2>7. G = [i \in 0..m |-> IF i = 0 THEN <<>> ELSE IF r[s[i]] = {} THEN G[i - 1]
                             ELSE Append(G[i - 1], s[i])]
    BY ONLY <2>5, <2>6, Zenon
  <2>8. Fills(G, s, r, m)
    BY ONLY <2>7, Zenon DEF Fills
  <2> QED
    BY ONLY <1>3, <2>8, Zenon
<1> QED
  BY <1>4, <1>5

(* What has been filled in after slot i: channels of slots up to i, none   *)
(* twice.                                                                  *)
Filled(q, s, i, S) ==
  /\ q \in Seq(S)
  /\ \A k \in 1..Len(q) : \E j \in 1..i : q[k] = s[j]
  /\ \A k, j \in 1..Len(q) : q[k] = q[j] => k = j

LEMMA FilledAppend ==
  ASSUME NEW s, NEW S, NEW n \in Nat, NEW i \in 1..n, NEW q, Filled(q, s, i - 1, S),
         s[i] \in S, \A k, j \in 1..n : s[k] = s[j] => k = j
  PROVE  Filled(q, s, i, S) /\ Filled(Append(q, s[i]), s, i, S)
<1>1. /\ q \in Seq(S) /\ Len(q) \in Nat
      /\ \A k \in 1..Len(q) : \E j \in 1..(i - 1) : q[k] = s[j]
      /\ \A k, j \in 1..Len(q) : q[k] = q[j] => k = j
  BY DEF Filled
<1>2. 1..(i - 1) \subseteq 1..i /\ i \in 1..i /\ i \notin 1..(i - 1) /\ 1..(i - 1) \subseteq 1..n
  OBVIOUS
<1>3. Filled(q, s, i, S)
  BY <1>1, <1>2, Zenon DEF Filled
<1>4. \A k \in 1..Len(q) : q[k] # s[i]
  BY <1>1, <1>2, Zenon
<1>5. PICK t : t = Append(q, s[i])
  BY Zenon
<1>6. /\ t \in Seq(S) /\ Len(t) = Len(q) + 1 /\ t[Len(q) + 1] = s[i]
      /\ \A k \in 1..Len(q) : t[k] = q[k]
  BY ONLY <1>1, <1>5, s[i] \in S, SMTT(30)
<1>7. 1..Len(t) = 1..Len(q) \cup {Len(q) + 1}
  BY ONLY <1>1, <1>6
<1>8. Filled(t, s, i, S)
  <2>1. \A k \in 1..Len(t) : \E j \in 1..i : t[k] = s[j]
    BY ONLY <1>1, <1>2, <1>6, <1>7, ZenonT(30)
  <2>2. \A k, j \in 1..Len(t) : t[k] = t[j] => k = j
    BY ONLY <1>1, <1>4, <1>6, <1>7
  <2> QED
    BY ONLY <1>6, <2>1, <2>2, Zenon DEF Filled
<1> QED
  BY ONLY <1>3, <1>5, <1>8, Zenon

LEMMA FillResult ==
  ASSUME NEW s, NEW r, NEW n \in Nat, NEW S, NEW F, Fills(F, s, r, n),
         \A i \in 1..n : s[i] \in S,
         \A k, j \in 1..n : s[k] = s[j] => k = j
  PROVE  Filled(F[n], s, n, S)
<1> DEFINE Wrong == {k \in 0..n : ~ Filled(F[k], s, k, S)}
<1> SUFFICES ASSUME Wrong # {} PROVE FALSE
  OBVIOUS
<1>1. Wrong \subseteq Nat
  OBVIOUS
<1>2. PICK m \in Wrong : \A k \in Wrong : m <= k
  BY ONLY <1>1, Wrong # {}, LeastNumber, Zenon
<1>3. m \in 0..n /\ ~ Filled(F[m], s, m, S)
  OBVIOUS
<1>4. F[m] = IF m = 0 THEN <<>>
             ELSE IF r[s[m]] = {} THEN F[m - 1] ELSE Append(F[m - 1], s[m])
  <2>1. \A i \in 0..n :
          F[i] = IF i = 0 THEN <<>>
                 ELSE IF r[s[i]] = {} THEN F[i - 1] ELSE Append(F[i - 1], s[i])
    BY ONLY Fills(F, s, r, n), Zenon DEF Fills
  <2> QED
    BY ONLY <1>3, <2>1, Zenon
<1>5. CASE m = 0
  <2>1. <<>> \in Seq(S) /\ 1..Len(<<>>) = {}
    OBVIOUS
  <2>2. Filled(<<>>, s, 0, S)
    BY ONLY <2>1, Zenon DEF Filled
  <2> QED
    BY ONLY <1>3, <1>4, <1>5, <2>2, ZenonT(30)
<1>6. CASE m # 0
  <2>1. m - 1 \in 0..n /\ m \in 1..n /\ ~(m <= m - 1)
    BY <1>3, <1>6
  <2>2. Filled(F[m - 1], s, m - 1, S)
    BY <1>2, <2>1, Zenon
  <2>3. Filled(F[m - 1], s, m, S) /\ Filled(Append(F[m - 1], s[m]), s, m, S)
    BY <2>1, <2>2, FilledAppend, Zenon
  <2> QED
    BY ONLY <1>3, <1>4, <1>6, <2>3, Zenon
<1> QED
  BY <1>5, <1>6

(* fillActiveChannels() yields channels of slots, none of them twice. *)
LEMMA ActiveFilled ==
  ASSUME RunInv, Running, NEW r
  PROVE  Filled(fillActiveChannels(r), SlotChannels, Len(pollfds_), Channels)
<1>1. PICK n, s : n = Len(pollfds_) /\ s = SlotChannels
  BY Zenon
<1>2. /\ n \in Nat
      /\ \A i \in 1..n : s[i] \in Channels
      /\ \A i, j \in 1..n : s[i] = s[j] => i = j
  BY <1>1, SlotFacts, Zenon
<1>3. fillActiveChannels(r) = (CHOOSE F : Fills(F, s, r, n))[n]
  BY ONLY <1>1, Zenon DEF fillActiveChannels, Fills
<1>4. PICK F : F = CHOOSE f : Fills(f, s, r, n)
  BY Zenon
<1>5. Fills(F, s, r, n)
  BY ONLY <1>2, <1>4, FillExists, Zenon
<1>6. Filled(F[n], s, n, Channels)
  BY ONLY <1>2, <1>5, FillResult, Zenon
<1> QED
  BY ONLY <1>1, <1>3, <1>4, <1>6, Zenon

LEMMA PollKeeps ==
  ASSUME ServerTypeOK, RunInv, Running, Running', Poll
  PROVE  RunInv'
<1>1. /\ pc = "poll" /\ pc' = "next" /\ UNCHANGED <<pvars, cur, ret, conns, work, told, others>>
  BY Zenon DEF Poll, UseFreed, Goto, Fail, Running
<1>2. Quiet
  BY <1>1, Zenon DEF Quiet, conns, others, Ending
<1>3. PICK r : /\ \A c \in DOMAIN r : r[c] \in ReventsOf(c)
               /\ revents_' = [c \in Channels |-> IF c \in DOMAIN r THEN r[c] ELSE {}]
               /\ active_channels_' = fillActiveChannels(r)
  BY DEF Poll
<1>4. PICK n, s : n = Len(pollfds_) /\ s = SlotChannels
  BY Zenon
<1>5. /\ \A i \in 1..n : s[i] \in Channels
      /\ \A i \in 1..n : s[i] # Listen => life[s[i]] = "live" /\ events_[s[i]] # {}
  BY <1>4, SlotFacts, Zenon
<1>6. Filled(active_channels_', s, n, Channels)
  BY <1>3, <1>4, ActiveFilled, ZenonT(30)
<1>7. ASSUME NEW c \in Channels, c # Listen, life[c] = "live", events_[c] # {}
      PROVE  c \in connections_
  <2>1. c \in Conns /\ ConnInv(c) /\ ~Closing(c)
    BY <1>1, <1>7, ServerAssumption DEF RunInv, Closing
  <2> QED
    BY <1>7, <2>1, ZenonT(30) DEF ConnInv
<1>8. \A i \in 1..n : s[i] \in connections_ \cup {Listen}
  BY ONLY <1>5, <1>7, Zenon
<1>9. ActiveInv'
  BY <1>1, <1>6, <1>8, Zenon DEF ActiveInv, Filled, conns
<1>10. LoopInv' /\ CallersInv'
  BY <1>1, Zenon DEF LoopInv, RunInv, CallersInv, others
<1>11. GoneInv'
  BY <1>1, Zenon DEF RunInv, GoneInv, conns
<1> QED
  BY <1>2, <1>9, <1>10, <1>11, QuietStep, Zenon DEF RunInv

LEMMA ReventsTypes ==
  ASSUME server \in {"new", "up", "gone"}, NEW c
  PROVE  ReventsOf(c) \subseteq SUBSET {"in", "out", "hup", "nval"}
<1>1. CASE c = Listen
  BY <1>1 DEF ReventsOf
<1>2. CASE c # Listen
  BY <1>2 DEF ReventsOf
<1> QED
  BY <1>1, <1>2

LEMMA NextKeepsPolledTypes ==
  ASSUME ServerTypeOK, RunInv, Running, ServerNext PROVE PolledTypes'
<1>0. /\ active_channels_ \in Seq(Channels) /\ cur \in Channels
      /\ revents_ \in [Channels -> SUBSET {"in", "out", "hup", "nval"}]
  BY Zenon DEF ServerTypeOK
<1>1. CASE UNCHANGED polled
  BY <1>0, <1>1, Zenon DEF polled, PolledTypes
<1>2. CASE Poll
  <2>1. PICK r :
          /\ \A c \in DOMAIN r : r[c] \in ReventsOf(c)
          /\ revents_' = [c \in Channels |-> IF c \in DOMAIN r THEN r[c] ELSE {}]
          /\ active_channels_' = fillActiveChannels(r)
    BY <1>2, Zenon DEF Poll
  <2>2. active_channels_' \in Seq(Channels)
    BY <2>1, ActiveFilled, Zenon DEF Filled
  <2>3. revents_' \in [Channels -> SUBSET {"in", "out", "hup", "nval"}]
    <3>1. server \in {"new", "up", "gone"}
      BY Zenon DEF ServerTypeOK
    <3>2. \A c \in DOMAIN r : r[c] \in SUBSET {"in", "out", "hup", "nval"}
      BY ONLY <2>1, <3>1, ReventsTypes, Zenon
    <3> QED
      BY ONLY <2>1, <3>2
  <2> QED
    BY ONLY <2>2, <2>3, Zenon DEF PolledTypes
<1>3. CASE NextChannel
  <2>1. active_channels_' \in Seq(Channels)
    <3>1. CASE active_channels_ = <<>>
      BY <1>0, <1>3, <3>1, SMTT(30) DEF NextChannel
    <3>2. CASE active_channels_ # <<>>
      <4>1. active_channels_' = Tail(active_channels_)
        BY <1>3, <3>2, SMTT(30) DEF NextChannel
      <4> QED
        BY ONLY <1>0, <3>2, <4>1, SMTT(30)
    <3> QED
      BY <3>1, <3>2, Zenon
  <2>2. revents_' \in [Channels -> SUBSET {"in", "out", "hup", "nval"}]
    <3>1. revents_' = [revents_ EXCEPT ![cur] = IF cur' = cur THEN @ ELSE {}]
      BY <1>3 DEF NextChannel
    <3> QED
      BY ONLY <1>0, <3>1, SMTT(30)
  <2> QED
    BY ONLY <2>1, <2>2, Zenon DEF PolledTypes
<1> QED
  BY <1>1, <1>2, <1>3, PolledUnless, SMTT(30)

-----------------------------------------------------------------------------
(* The invariant holds *)

LEMMA NextKeepsRunInv ==
  ASSUME ServerTypeOK, RunInv, Running, Running', ServerNext
  PROVE  RunInv'
<1>1. CASE Moves
  BY <1>1, MovesMove, MoveKeeps
<1>2. CASE Poll \/ NextChannel \/ UserReturns \/ UserDownReturns \/ ServerGone
  BY <1>2, PollKeeps, NextChannelKeeps, UserReturnsKeeps, UserDownKeeps, ServerGoneKeeps, Zenon
<1>3. CASE AcceptFailed
  BY <1>3 DEF AcceptFailed, Fail, Running
<1>4. ASSUME NEW c \in Conns, ConnSteps(c) PROVE RunInv'
  <2>1. CASE handleRead(c) \/ CloseEvent(c) \/ HandleWrite(c)
    BY <2>1, HandleReadKeeps, CloseKeeps, WriteKeeps, Zenon
  <2>2. CASE ConnectDestroyed(c) \/ DestroyConnection(c)
    BY <2>2, DestroyedKeeps, DestroyConnectionKeeps, Zenon
  <2>3. CASE RunSend(c) \/ UserSend(c)
    BY <2>3, SendsKeep, Zenon
  <2>4. CASE UserHold(c) \/ UserShutdown(c) \/ Release(c)
    BY <2>4, UserHoldKeeps, UserShutdownKeeps, ReleaseKeeps, Zenon
  <2> QED
    BY <1>4, <2>1, <2>2, <2>3, <2>4, Zenon DEF ConnSteps
<1>5. ASSUME NEW t \in Callers, CallerSteps(t) PROVE RunInv'
  BY <1>5, ShutdownKeeps DEF CallerSteps
<1> QED
  BY <1>1, <1>2, <1>3, <1>4, <1>5, NextCases, Zenon

LEMMA NextKeepsTypes ==
  ASSUME ServerTypeOK, RunInv, ServerNext PROVE ServerTypeOK'
<1>1. Running
  BY NextRuns
<1>2. ObjectTypes' /\ WorkTypes'
  BY <1>1, TypeParts, NextIsObjectStep, ObjectStepTypes, NextIsWorkStep, WorkStepTypes, Zenon
<1>3. LoopTypes' /\ PolledTypes'
  BY <1>1, NextKeepsLoopTypes, NextKeepsPolledTypes
<1>4. ServerTypeOK' <=> (ObjectTypes /\ LoopTypes /\ PolledTypes /\ WorkTypes)'
  BY TypeParts, PTL
<1> QED
  BY <1>2, <1>3, <1>4

(* What a step may do to where the loop thread is, for WriteInv. *)
WriteStep ==
  \/ UNCHANGED <<pc, cur, ret, connections_>>
  \/ pc' \notin {"destroy", "userDown", "write"}
  \/ pc' # "write" /\ ret' # "write"
  \/ /\ pc' \in {"destroy", "userDown"} /\ UNCHANGED cur
     /\ cur \in Conns /\ peer[cur] = "closed"
  \/ /\ pc' = "write" /\ UNCHANGED <<cur, connections_>>
     /\ cur \in Conns /\ life[cur] # "none"
     /\ cur \in connections_ \/ peer[cur] = "closed"

LEMMA NextIsWriteStep ==
  ASSUME RunInv, WriteInv, Running, Running', ServerNext PROVE WriteStep
<1>1. CASE Moves
  <2>1. Move
    BY <1>1, MovesMove, SMTT(30)
  <2>2. pc = "event" /\ cur \in Conns => cur \in connections_ /\ life[cur] = "live"
    BY ConnsAreChannels DEF RunInv, LoopInv, ConnInv
  <2>3. pc = "user" /\ ret # "functors" => 
          cur \in Conns /\ cur \in connections_ /\ life[cur] = "live" /\ ret \in {"next", "write"}
    BY DEF RunInv, LoopInv
  <2> QED
    BY ONLY <2>1, <2>2, <2>3 DEF Move, WriteStep, loopvars
<1>2. CASE Poll \/ NextChannel \/ ServerGone
  BY <1>2, Zenon DEF Poll, NextChannel, ServerGone, UseFreed, Goto, Fail, Running, WriteStep
<1>3. CASE AcceptFailed
  BY <1>3, SMTT(30) DEF AcceptFailed, Fail, Running
<1>4. CASE UserReturns
  <2>1. pc = "user" /\ pc' = ret /\ UNCHANGED <<cur, connections_>>
    BY <1>4, SMTT(30) DEF UserReturns, Goto, conns
  <2>2. /\ cur \in Conns /\ life[cur] = "live" /\ ret \in {"next", "write", "functors"}
        /\ ret # "functors" => cur \in connections_
    BY <2>1, SMTT(30) DEF RunInv, LoopInv
  <2> QED
    BY ONLY <2>1, <2>2 DEF WriteStep
<1>5. CASE UserDownReturns
  <2>1. pc = "userDown" /\ pc' = ret /\ UNCHANGED <<cur, connections_>>
    BY <1>5, SMTT(30) DEF UserDownReturns, Goto, conns
  <2>2. /\ cur \in Conns /\ life[cur] = "live" /\ ret \in {"next", "write", "server"}
        /\ ret = "write" => peer[cur] = "closed"
    BY <2>1 DEF RunInv, LoopInv, WriteInv
  <2> QED
    BY ONLY <2>1, <2>2 DEF WriteStep
<1>6. ASSUME NEW c \in Conns, ConnSteps(c) PROVE WriteStep
  <2>1. CASE handleRead(c) \/ HandleWrite(c)
    BY <2>1, Zenon DEF handleRead, ConnectEstablished, HandleWrite, Call, Goto, WriteStep
  <2>2. CASE HandleHup(c) \/ ReadEof(c)
    BY <2>2, ZenonT(30) DEF HandleHup, ReadEof, AtEvent, At, HandleClose, Close, WriteStep
  <2>3. CASE ConnectDestroyed(c)
    BY <2>3, SMTT(30) DEF ConnectDestroyed, At, Goto, WriteInv, WriteStep
  <2>4. CASE DestroyConnection(c)
    BY <2>4 DEF DestroyConnection, WriteStep
  <2>5. CASE RunSend(c)
    BY <2>5, Zenon DEF RunSend, RunFunctor, Call, loopvars, conns, WriteStep
  <2>6. CASE UserHold(c) \/ UserShutdown(c) \/ UserSend(c) \/ Release(c)
    BY <2>6, Zenon DEF UserHold, UserShutdown, UserSend, Release, svars, loopvars, conns, WriteStep
  <2> QED
    BY <1>6, <2>1, <2>2, <2>3, <2>4, <2>5, <2>6, Zenon DEF ConnSteps, CloseEvent
<1>7. ASSUME NEW t \in Callers, CallerSteps(t) PROVE WriteStep
  BY <1>7, Zenon DEF CallerSteps, ShutdownTest, ShutdownStore, ShutdownPush, Caller, loopvars,
                     WriteStep
<1> QED
  BY <1>1, <1>2, <1>3, <1>4, <1>5, <1>6, <1>7, NextCases, Zenon

LEMMA PeerSteps ==
  ASSUME ServerNext
  PROVE  UNCHANGED peer \/ \E c \in Conns : peer' = [peer EXCEPT ![c] = "closed"]
<1> USE DEF others
<1>1. CASE Moves
  <2>1. CASE Start \/ DestroyServer \/ FunctorsDone \/ ListenIdle
    BY <2>1, Zenon DEF Start, DestroyServer, FunctorsDone, ListenIdle
  <2>2. CASE RunShutdown \/ RunFreed
    BY <2>2, Zenon DEF RunShutdown, RunFreed, RunFunctor
  <2>3. ASSUME NEW c \in Conns,
               ReadData(c) \/ ReadNothing(c) \/ NoWrite(c) \/ FreedWrite(c) \/ PeerCloses(c)
        PROVE  UNCHANGED peer \/ \E d \in Conns : peer' = [peer EXCEPT ![d] = "closed"]
    BY <2>3, Zenon DEF ReadData, ReadNothing, NoWrite, FreedWrite, PeerCloses
  <2>4. ASSUME NEW t \in Callers, NEW c \in Conns, Send(t, c) PROVE UNCHANGED peer
    BY <2>4, Zenon DEF Send, Caller
  <2> QED
    BY <1>1, <2>1, <2>2, <2>3, <2>4, Zenon DEF Moves
<1>2. CASE \/ Poll \/ NextChannel \/ UserReturns \/ UserDownReturns \/ ServerGone
           \/ AcceptFailed
  BY <1>2, Zenon DEF Poll, NextChannel, UserReturns, UserDownReturns, ServerGone,
                     AcceptFailed, svars
<1>3. ASSUME NEW c \in Conns, ConnSteps(c) PROVE UNCHANGED peer
  BY <1>3, Zenon DEF ConnSteps, handleRead, CloseEvent, HandleHup, ReadEof, HandleWrite,
              ConnectDestroyed, DestroyConnection, RunSend, RunFunctor, UserHold, UserShutdown,
              UserSend, Release, svars
<1>4. ASSUME NEW t \in Callers, CallerSteps(t) PROVE UNCHANGED peer
  BY <1>4, Zenon DEF CallerSteps, ShutdownTest, ShutdownStore, ShutdownPush, Caller
<1> QED
  BY <1>1, <1>2, <1>3, <1>4, NextCases, Zenon

LEMMA NextKeepsWriteInv ==
  ASSUME ServerTypeOK, Peers, RunInv, WriteInv, Running, ServerNext
  PROVE  Peers' /\ (Running' => WriteInv')
<1>1. UNCHANGED peer \/ \E c \in Conns : peer' = [peer EXCEPT ![c] = "closed"]
  BY PeerSteps
<1>2. Peers' /\ \A d \in Conns : peer[d] = "closed" => peer'[d] = "closed"
  BY ONLY <1>1, Peers DEF Peers
<1>3. \A d \in Conns : life[d] # "none" => life'[d] # "none"
  <2>1. life \in [Channels -> {"none", "live", "freed"}]
    BY Zenon DEF ServerTypeOK
  <2>2. UNCHANGED life \/ \E c \in Channels : \E v \in {"live", "freed"} :
                            life' = [life EXCEPT ![c] = v]
    BY NextIsObjectStep DEF ObjectStep
  <2> QED
    BY ONLY <2>1, <2>2, ConnsAreChannels
<1>4. pc \in {"destroy", "userDown"} => cur \in Conns
  BY SMTT(30) DEF RunInv, LoopInv
<1>5. ASSUME Running' PROVE WriteInv'
  <2>1. WriteStep
    BY <1>5, NextIsWriteStep
  <2> QED
    BY ONLY <1>2, <1>3, <1>4, <2>1, WriteInv, SMTT(30) DEF WriteStep, WriteInv
<1> QED
  BY <1>2, <1>5

LEMMA ServerInvHolds == ServerSpec => []ServerInv
<1>1. ServerInv /\ ServerNext => ServerInv'
  <2> SUFFICES ASSUME ServerInv, ServerNext PROVE ServerInv'
    OBVIOUS
  <2>1. Running /\ ServerTypeOK /\ RunInv /\ Peers /\ WriteInv
    BY NextRuns, Zenon DEF ServerInv
  <2>2. ServerTypeOK' /\ Peers' /\ (Running' => WriteInv')
    BY <2>1, NextKeepsTypes, NextKeepsWriteInv, Zenon
  <2>3. Running' => RunInv'
    BY <2>1, NextKeepsRunInv, Zenon
  <2> QED
    BY <2>2, <2>3, Zenon DEF ServerInv
<1>2. ServerInv /\ UNCHANGED allvars => ServerInv'
  BY StutterKeepsServerInv
<1> QED
  BY <1>1, <1>2, InitHolds, PTL DEF ServerSpec

-----------------------------------------------------------------------------
(* Theorems *)

(* For any number of connections, callers and descriptors: whenever the    *)
(* loop thread is at poll, the server's map, the poll set and the states   *)
(* of the connections agree, and a connection outside the map is alive     *)
(* only while the application holds it.                                    *)
THEOREM MapIsRight == ServerSpec => []ServerAgrees
BY ServerInvHolds, AgreesFollows, PTL

(* The Channel pointers of the poll set, of active_channels_ and of the    *)
(* HandleEvent() that runs lead to live channels, with two exceptions that *)
(* the code does have: the Acceptor's after ~TcpServer(), and that of a    *)
(* HandleEvent() which goes on to test for POLLOUT after its read callback *)
(* got the end of file, had the connection taken out of the map and told   *)
(* the application.                                                        *)
THEOREM OnlyClosedChannelsDangle == ServerSpec => []DanglingOnlyAfterClose
BY ServerInvHolds, DanglingFollows, PTL

(* Every connection is announced once and its end is announced once,       *)
(* before the object is destroyed, whichever way it ends.                  *)
THEOREM AnnouncedOnce == ServerSpec => []NotifiedOnce
BY ServerInvHolds, NotifiedFollows, PTL

(* The assertions of HandleClose() and of the server's close callback do   *)
(* not fail, whatever other threads do with the connection.                *)
THEOREM CloseIsSound == ServerSpec => CloseAssertions
<1> DEFINE A == \A c \in Conns : CloseEvent(c) =>
                  state_[c] \in {"kConnected", "kDisconnecting"} /\ c \in connections_
<1>1. ServerInv => A
  <2> SUFFICES ASSUME ServerInv, NEW c \in Conns, CloseEvent(c)
               PROVE  state_[c] \in {"kConnected", "kDisconnecting"} /\ c \in connections_
    OBVIOUS
  <2>1. At("event", c)
    BY Zenon DEF CloseEvent, HandleHup, ReadEof, AtEvent
  <2> QED
    BY <2>1, EventInMap DEF ServerInv, At
<1>2. ServerInv /\ [ServerNext]_allvars => [A]_allvars
  BY <1>1
<1>3. ServerSpec => [][A]_allvars
  BY <1>2, ServerInvHolds, PTL DEF ServerSpec
<1> QED
  BY <1>3, Zenon DEF CloseAssertions

(* The library never updates a channel it has unregistered, except for a   *)
(* Send() on a connection that left the server and for ConnectDestroyed()  *)
(* of one that a Shutdown() in another thread marked after it was closed.  *)
THEOREM UnregisteredIsLate == ServerSpec => UnregisteredOnlyByLateCalls
<1> DEFINE A == aborted' = "not registered" =>
                  \/ \E c \in Conns \ connections_ : UserSend(c) \/ RunSend(c)
                  \/ pc = "destroy" /\ ret # "server" /\ state_[cur] = "kDisconnecting"
<1>1. ServerInv /\ [ServerNext]_allvars => [A]_allvars
  BY NextRuns, UnregisteredStep, Zenon DEF ServerInv
<1>2. ServerSpec => [][A]_allvars
  BY <1>1, ServerInvHolds, PTL DEF ServerSpec
<1> QED
  BY <1>2 DEF UnregisteredOnlyByLateCalls
=============================================================================
