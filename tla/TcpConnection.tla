--------------------------- MODULE TcpConnection ---------------------------
(***************************************************************************)
(* polly::TcpConnection, the sending side (net/tcp_connection.cc): Send(), *)
(* Shutdown(), HandleWrite() and what they do to the byte stream of one    *)
(* connection.  Its life and death are the subject of TcpServer.           *)
(*                                                                         *)
(* Bytes are numbered in the order in which sendInLoop() takes them, so    *)
(* that a lost, repeated or reordered byte shows; 0 is a byte read from a  *)
(* message that no longer exists.  A write to the socket takes a prefix of *)
(* what it is given, or fails: always once the write end is shut down or   *)
(* the peer has reset the connection (with SIGPIPE ignored, as             *)
(* tests/tcp_connection_test.cc does), and now and then for a reason that  *)
(* passes.                                                                 *)
(*                                                                         *)
(* The loop thread alternates between handling events and running the      *)
(* batch of functors it swapped out (works); its application code may call *)
(* Send() and Shutdown() at any time.  pc is "wc" inside the               *)
(* write-complete callback of HandleWrite().                               *)
(***************************************************************************)
EXTENDS Naturals, Sequences

CONSTANTS Callers, \* threads other than the loop thread
          MaxMsg,  \* bound: bytes in a message
          MaxBytes \* bound: bytes sent in all

ASSUME ConnectionAssumption ==
  /\ MaxMsg \in Nat \ {0} /\ MaxBytes \in Nat

VARIABLES state_,
          writing,     \* channel_->isWritingEnabled()
          snd_buffer_,
          wire,        \* bytes the socket has taken
          wrShut,      \* the write end of the socket is shut down
          broken,      \* the peer has reset the connection
          nsent,       \* bytes sendInLoop() has taken
          pc,
          functors_, works, \* queued calls: <<operation, bytes>>
          tpc,         \* position of each caller
          queued,      \* bytes in the queued calls of Send()
          owed,        \* bytes passed to Send() before Shutdown() was called
          garbled,     \* a queued Send() has read a message that was gone
          closed,      \* HandleClose() has unregistered the channel
          aborted      \* Poller's assertion failed

vars == <<state_, writing, snd_buffer_, wire, wrShut, broken, nsent, pc,
          functors_, works, tpc, queued, owed, garbled, closed, aborted>>

Init ==
  /\ state_ = "kConnected" /\ writing = FALSE /\ snd_buffer_ = <<>>
  /\ wire = <<>> /\ wrShut = FALSE /\ broken = FALSE /\ nsent = 0
  /\ pc = "idle" /\ functors_ = <<>> /\ works = <<>>
  /\ tpc = [t \in Callers |-> "out"] /\ queued = 0 /\ owed = 0
  /\ garbled = FALSE /\ closed = FALSE /\ aborted = FALSE

-----------------------------------------------------------------------------
(* sendInLoop and shutdownInLoop *)

WriteFails == wrShut \/ broken

(* Number of bytes the direct write takes: all of it, a part, or none      *)
(* (EWOULDBLOCK).  Nothing is tried behind data already waiting.           *)
DirectWrite_Always(msg) == 0..Len(msg)

DirectWrite(msg) ==
  IF ~writing /\ snd_buffer_ = <<>> THEN 0..Len(msg) ELSE {0}

(* The message of a Send() of size bytes is dropped when the direct write  *)
(* fails with anything but EWOULDBLOCK; otherwise the socket and           *)
(* snd_buffer_ take it.  EnableWriting() on a channel that HandleClose()   *)
(* has unregistered fails an assertion in Poller::UpdateChannel.           *)
sendInLoop(msg, size) ==
  \/ /\ ~writing /\ snd_buffer_ = <<>>
     /\ UNCHANGED <<wire, snd_buffer_, writing, aborted, nsent>>
  \/ /\ writing \/ snd_buffer_ # <<>> \/ ~WriteFails
     /\ nsent' = nsent + size
     /\ \E n \in DirectWrite(msg) :
          /\ wire' = wire \o SubSeq(msg, 1, n)
          /\ snd_buffer_' = snd_buffer_ \o SubSeq(msg, n + 1, Len(msg))
          /\ writing' = (writing \/ n < Len(msg))
          /\ aborted' = (n < Len(msg) /\ closed)

shutdownInLoop_Always == wrShut' = TRUE

shutdownInLoop == wrShut' = (wrShut \/ ~writing)

Bytes(n) == [i \in 1..n |-> nsent + i]

-----------------------------------------------------------------------------
(* The loop thread *)

(* Send() by the application. *)
Send(n) ==
  /\ ~aborted
  /\ nsent + queued + n <= MaxBytes
  /\ sendInLoop(Bytes(n), n)
  /\ UNCHANGED <<state_, wrShut, broken, pc, functors_, works, tpc, queued,
                 owed, garbled, closed>>

(* Shutdown() by the application. *)
Shutdown ==
  /\ ~aborted
  /\ state_ = "kConnected"
  /\ state_' = "kDisconnecting"
  /\ shutdownInLoop
  /\ owed' = nsent
  /\ UNCHANGED <<writing, snd_buffer_, wire, broken, nsent, pc, functors_,
                 works, tpc, queued, garbled, closed, aborted>>

(* HandleWrite(), up to the write-complete callback. *)
HandleWrite_KeepWriting(n) ==
  /\ ~aborted /\ pc = "idle" /\ works = <<>>
  /\ writing /\ ~WriteFails
  /\ n <= Len(snd_buffer_)
  /\ wire' = wire \o SubSeq(snd_buffer_, 1, n)
  /\ snd_buffer_' = SubSeq(snd_buffer_, n + 1, Len(snd_buffer_))
  /\ pc' = IF n = Len(snd_buffer_) THEN "wc" ELSE pc
  /\ UNCHANGED <<state_, writing, wrShut, broken, nsent, functors_, works, tpc,
                 queued, owed, garbled, closed, aborted>>

HandleWrite(n) ==
  /\ ~aborted /\ pc = "idle" /\ works = <<>>
  /\ writing /\ ~WriteFails
  /\ n <= Len(snd_buffer_)
  /\ wire' = wire \o SubSeq(snd_buffer_, 1, n)
  /\ snd_buffer_' = SubSeq(snd_buffer_, n + 1, Len(snd_buffer_))
  /\ writing' = (n < Len(snd_buffer_))
  /\ pc' = IF n = Len(snd_buffer_) THEN "wc" ELSE pc
  /\ UNCHANGED <<state_, wrShut, broken, nsent, functors_, works, tpc, queued,
                 owed, garbled, closed, aborted>>

(* The write-complete callback returns: HandleWrite() continues a postponed *)
(* Shutdown().                                                             *)
WriteComplete_NoShutdown ==
  /\ ~aborted /\ pc = "wc"
  /\ pc' = "idle"
  /\ UNCHANGED <<state_, writing, snd_buffer_, wire, wrShut, broken, nsent,
                 functors_, works, tpc, queued, owed, garbled, closed, aborted>>

WriteComplete ==
  /\ ~aborted /\ pc = "wc"
  /\ pc' = "idle"
  /\ IF state_ = "kDisconnecting" THEN shutdownInLoop ELSE UNCHANGED wrShut
  /\ UNCHANGED <<state_, writing, snd_buffer_, wire, broken, nsent, functors_,
                 works, tpc, queued, owed, garbled, closed, aborted>>

(* End of file or hang-up. *)
HandleClose ==
  /\ ~aborted /\ pc = "idle" /\ works = <<>>
  /\ ~closed
  /\ state_' = "kDisconnected" /\ writing' = FALSE /\ closed' = TRUE
  /\ UNCHANGED <<snd_buffer_, wire, wrShut, broken, nsent, pc, functors_,
                 works, tpc, queued, owed, garbled, aborted>>

SwapFunctors ==
  /\ ~aborted /\ pc = "idle" /\ works = <<>> /\ functors_ # <<>>
  /\ works' = functors_ /\ functors_' = <<>>
  /\ UNCHANGED <<state_, writing, snd_buffer_, wire, wrShut, broken, nsent, pc,
                 tpc, queued, owed, garbled, closed, aborted>>

(* The functor of Send() refers to the caller's msg: it sends that, or     *)
(* whatever is there once the caller has dropped or changed it.            *)
RunSend ==
  /\ ~aborted /\ pc = "idle" /\ works # <<>> /\ Head(works)[1] = "send"
  /\ LET n == Head(works)[2] IN
       /\ queued' = queued - n
       /\ \/ sendInLoop(Bytes(n), n) /\ UNCHANGED garbled
          \/ garbled' = TRUE /\ \E m \in 0..MaxMsg : sendInLoop([i \in 1..m |-> 0], n)
  /\ works' = Tail(works)
  /\ UNCHANGED <<state_, wrShut, broken, pc, functors_, tpc, owed, closed>>

RunShutdown ==
  /\ ~aborted /\ pc = "idle" /\ works # <<>> /\ Head(works)[1] = "shutdown"
  /\ shutdownInLoop
  /\ works' = Tail(works)
  /\ UNCHANGED <<state_, writing, snd_buffer_, wire, broken, nsent, pc,
                 functors_, tpc, queued, owed, garbled, closed, aborted>>

-----------------------------------------------------------------------------
(* Other threads *)

SendFrom(t, n) ==
  /\ ~aborted /\ tpc[t] = "out"
  /\ nsent + queued + n <= MaxBytes
  /\ queued' = queued + n
  /\ functors_' = Append(functors_, <<"send", n>>)
  /\ UNCHANGED <<state_, writing, snd_buffer_, wire, wrShut, broken, nsent, pc,
                 works, tpc, owed, garbled, closed, aborted>>

ShutdownTest(t) ==
  /\ ~aborted /\ tpc[t] = "out"
  /\ state_ = "kConnected"
  /\ tpc' = [tpc EXCEPT ![t] = "store"]
  /\ owed' = nsent + queued
  /\ UNCHANGED <<state_, writing, snd_buffer_, wire, wrShut, broken, nsent, pc,
                 functors_, works, queued, garbled, closed, aborted>>

ShutdownStore(t) ==
  /\ ~aborted /\ tpc[t] = "store"
  /\ state_' = "kDisconnecting"
  /\ tpc' = [tpc EXCEPT ![t] = "push"]
  /\ UNCHANGED <<writing, snd_buffer_, wire, wrShut, broken, nsent, pc,
                 functors_, works, queued, owed, garbled, closed, aborted>>

ShutdownPush(t) ==
  /\ ~aborted /\ tpc[t] = "push"
  /\ functors_' = Append(functors_, <<"shutdown", 0>>)
  /\ tpc' = [tpc EXCEPT ![t] = "out"]
  /\ UNCHANGED <<state_, writing, snd_buffer_, wire, wrShut, broken, nsent, pc,
                 works, queued, owed, garbled, closed, aborted>>

PeerReset ==
  /\ ~aborted /\ ~broken
  /\ broken' = TRUE
  /\ UNCHANGED <<state_, writing, snd_buffer_, wire, wrShut, nsent, pc,
                 functors_, works, tpc, queued, owed, garbled, closed, aborted>>

-----------------------------------------------------------------------------
Sending ==
  \/ \E n \in 1..MaxBytes : HandleWrite(n)
  \/ WriteComplete \/ SwapFunctors \/ RunSend \/ RunShutdown

Next ==
  \/ Sending \/ HandleClose \/ Shutdown \/ PeerReset
  \/ \E n \in 1..MaxMsg : Send(n) \/ \E t \in Callers : SendFrom(t, n)
  \/ \E t \in Callers : ShutdownTest(t) \/ ShutdownStore(t) \/ ShutdownPush(t)

Spec == Init /\ [][Next]_vars

(* The loop thread runs, the write-complete callback returns, and the peer *)
(* goes on reading: a socket that polls writable takes at least one byte.  *)
(* A thread inside Shutdown() goes on.                                     *)
FairSpec ==
  /\ Spec
  /\ WF_vars(Sending)
  /\ \A t \in Callers : WF_vars(ShutdownStore(t) \/ ShutdownPush(t))

-----------------------------------------------------------------------------
(* Properties *)

(* Every variable has its type; the bytes in queued calls of Send() are    *)
(* accounted for, so a call runs once.                                     *)
TypeOK ==
  /\ state_ \in {"kConnected", "kDisconnecting", "kDisconnected"}
  /\ writing \in BOOLEAN /\ wrShut \in BOOLEAN /\ broken \in BOOLEAN
  /\ garbled \in BOOLEAN /\ closed \in BOOLEAN /\ aborted \in BOOLEAN
  /\ snd_buffer_ \in Seq(Nat) /\ wire \in Seq(Nat)
  /\ pc \in {"idle", "wc"}
  /\ functors_ \in Seq({"send", "shutdown"} \X Nat)
  /\ works \in Seq({"send", "shutdown"} \X Nat)
  /\ tpc \in [Callers -> {"out", "store", "push"}]
  /\ nsent \in Nat /\ queued \in Nat /\ nsent + queued <= MaxBytes
  /\ owed \in 0..MaxBytes

(* The socket gets the bytes of the messages in order, each once, none     *)
(* missing: what it has taken followed by snd_buffer_ is all that          *)
(* sendInLoop() has taken, through direct writes, short writes,            *)
(* EWOULDBLOCK and buffered data.  A message is missing only as a whole,   *)
(* when sendInLoop() has logged that its direct write failed.  (As long as *)
(* the callers have kept their messages: see MessagesIntact.)              *)
StreamInOrder ==
  /\ TypeOK
  /\ ~garbled =>
       /\ Len(wire \o snd_buffer_) = nsent
       /\ \A i \in 1..nsent : (wire \o snd_buffer_)[i] = i

(* POLLOUT is watched exactly while snd_buffer_ has data: no write is      *)
(* forgotten, and an idle connection does not spin on a writable socket.   *)
WritingIffBuffered ==
  ~closed => (writing <=> snd_buffer_ # <<>>)

(* The write end is shut down only when snd_buffer_ is empty, and nothing  *)
(* is put into it afterwards: "may be sending data, so postpone".          *)
ShutdownAfterBuffer == wrShut /\ ~closed => snd_buffer_ = <<>>

(* Everything passed to Send() before Shutdown() was called reaches the    *)
(* socket before its write end is shut down.                               *)
ShutdownKeepsEarlierSends ==
  wrShut /\ ~broken /\ ~garbled => Len(wire) >= owed

(* A Shutdown(), postponed by data waiting to be sent or not, shuts down   *)
(* the write end once the data is out.                                     *)
ShutdownCompletes ==
  state_ = "kDisconnecting" ~> wrShut \/ closed \/ broken \/ aborted

(* What arrives at the socket is what was passed to Send(), from whichever *)
(* thread.                                                                 *)
MessagesIntact == \A i \in 1..Len(wire) : wire[i] # 0
=============================================================================
