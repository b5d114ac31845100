------------------------------- MODULE Poller -------------------------------
(***************************************************************************)
(* polly::Poller and the registration side of polly::Channel               *)
(* (net/poller.h, net/poller.cc, net/channel.h): the vector of pollfd      *)
(* structures handed to poll(2), the map from descriptors to channels, and *)
(* the index each channel keeps of its slot in the vector.                 *)
(*                                                                         *)
(* All operations run in the loop thread, one at a time.  The slots are    *)
(* numbered from 0 in the code and from 1 here.  The revents field of a    *)
(* slot is left out: poll(2) rewrites it before it is read.                *)
(*                                                                         *)
(* The build type is Debug unless one is given (CMakeLists.txt:19-21), so  *)
(* a failed assert() aborts the process: aborted names the assertion.      *)
(***************************************************************************)
EXTENDS Integers, Sequences

CONSTANTS Channels, \* Channel objects
          FdOf      \* the descriptor each of them is constructed with

ASSUME FdAssumption == FdOf \in [Channels -> Nat]

VARIABLES life,      \* of each Channel object: "none", "live" or "freed"
          events_,   \* of each channel: subset of {"read", "write"}
          index_,    \* of each channel: slot number, -1 before registration
          pollfds_,  \* sequence of [fd, events]
          channels_, \* map from descriptors to channels
          aborted,   \* the assertion that failed, "none" if none did
          shifted    \* whether an erase has moved the slots of other channels

pvars == <<life, events_, index_, pollfds_, channels_, aborted, shifted>>

PollerInit ==
  /\ life = [c \in Channels |-> "none"]
  /\ events_ = [c \in Channels |-> {}]
  /\ index_ = [c \in Channels |-> -1]
  /\ pollfds_ = <<>> /\ channels_ = <<>>
  /\ aborted = "none" /\ shifted = FALSE

-----------------------------------------------------------------------------
(* Poller::UpdateChannel *)

Registered(fd) == fd \in DOMAIN channels_

(* The assertion UpdateChannel(c) fails, "none" if it passes them all. *)
FailedAssertion_NoOwnerCheck(c) ==
  IF index_[c] < 0
  THEN IF Registered(FdOf[c]) THEN "already registered" ELSE "none"
  ELSE IF ~Registered(FdOf[c]) THEN "not registered"
  ELSE IF channels_[FdOf[c]] # c THEN "other channel"
  ELSE IF index_[c] >= Len(pollfds_) THEN "slot range"
  ELSE "none"

FailedAssertion(c) ==
  IF index_[c] < 0
  THEN IF Registered(FdOf[c]) THEN "already registered" ELSE "none"
  ELSE IF ~Registered(FdOf[c]) THEN "not registered"
  ELSE IF channels_[FdOf[c]] # c THEN "other channel"
  ELSE IF index_[c] >= Len(pollfds_) THEN "slot range"
  ELSE IF pollfds_[index_[c] + 1].fd # FdOf[c] THEN "slot owner"
  ELSE "none"

AddSlot_OffByOne(c, events) ==
  /\ pollfds_' = Append(pollfds_, [fd |-> FdOf[c], events |-> events])
  /\ index_' = [index_ EXCEPT ![c] = Len(pollfds_')]
  /\ channels_' = [fd \in DOMAIN channels_ \cup {FdOf[c]} |->
                     IF fd = FdOf[c] THEN c ELSE channels_[fd]]
  /\ UNCHANGED shifted

AddSlot(c, events) ==
  /\ pollfds_' = Append(pollfds_, [fd |-> FdOf[c], events |-> events])
  /\ index_' = [index_ EXCEPT ![c] = Len(pollfds_)]
  /\ channels_' = [fd \in DOMAIN channels_ \cup {FdOf[c]} |->
                     IF fd = FdOf[c] THEN c ELSE channels_[fd]]
  /\ UNCHANGED shifted

SetSlot(c, events) ==
  /\ pollfds_' = [pollfds_ EXCEPT ![index_[c] + 1].events = events]
  /\ UNCHANGED <<index_, channels_, shifted>>

(* std::vector::erase. *)
RemoveAt(s, i) == SubSeq(s, 1, i - 1) \o SubSeq(s, i + 1, Len(s))

(* The slot and the map entry go; no channel's index_ is adjusted, not     *)
(* even c's own.                                                           *)
EraseSlot_KeepMap(c) ==
  /\ pollfds_' = RemoveAt(pollfds_, index_[c] + 1)
  /\ shifted' = (shifted \/ index_[c] + 1 < Len(pollfds_))
  /\ UNCHANGED <<index_, channels_>>

EraseSlot(c) ==
  /\ pollfds_' = RemoveAt(pollfds_, index_[c] + 1)
  /\ channels_' = [fd \in DOMAIN channels_ \ {FdOf[c]} |-> channels_[fd]]
  /\ shifted' = (shifted \/ index_[c] + 1 < Len(pollfds_))
  /\ UNCHANGED index_

(* A Channel changes its events_ and calls update(). *)
UpdateChannel(c, events) ==
  /\ events_' = [events_ EXCEPT ![c] = events]
  /\ aborted' = FailedAssertion(c)
  /\ \/ aborted' # "none" /\ UNCHANGED <<index_, pollfds_, channels_, shifted>>
     \/ aborted' = "none" /\ index_[c] < 0 /\ AddSlot(c, events)
     \/ aborted' = "none" /\ index_[c] >= 0 /\ events # {} /\ SetSlot(c, events)
     \/ aborted' = "none" /\ index_[c] >= 0 /\ events = {} /\ EraseSlot(c)

-----------------------------------------------------------------------------
(* Channel, used by one owner, as the library's are: it enables events     *)
(* before it disables any.                                                 *)

Usable(c) == aborted = "none" /\ life[c] = "live"
InUse(c) == Usable(c) /\ index_[c] >= 0

Construct(c) ==
  /\ aborted = "none" /\ life[c] = "none"
  /\ \A d \in Channels : life[d] = "live" => FdOf[d] # FdOf[c]
  /\ life' = [life EXCEPT ![c] = "live"]
  /\ UNCHANGED <<events_, index_, pollfds_, channels_, aborted, shifted>>

EnableReading(c) ==
  Usable(c) /\ UpdateChannel(c, events_[c] \cup {"read"}) /\ UNCHANGED life

EnableWriting(c) ==
  Usable(c) /\ UpdateChannel(c, events_[c] \cup {"write"}) /\ UNCHANGED life

DisableWriting(c) ==
  InUse(c) /\ UpdateChannel(c, events_[c] \ {"write"}) /\ UNCHANGED life

DisbaleAll(c) ==
  InUse(c) /\ UpdateChannel(c, {}) /\ UNCHANGED life

(* ~Channel() does nothing: a channel that still asks for events, as the   *)
(* Acceptor's does, leaves its slot and its map entry behind.  Its owner   *)
(* closes the descriptor, which may be used again from then on.            *)
Destroy(c) ==
  /\ Usable(c)
  /\ life' = [life EXCEPT ![c] = "freed"]
  /\ UNCHANGED <<events_, index_, pollfds_, channels_, aborted, shifted>>

PollerNext ==
  \E c \in Channels :
    \/ Construct(c) \/ Destroy(c)
    \/ EnableReading(c) \/ EnableWriting(c) \/ DisableWriting(c)
    \/ DisbaleAll(c)

PollerSpec == PollerInit /\ [][PollerNext]_pvars

-----------------------------------------------------------------------------
(* Properties *)

(* Every slot has a descriptor that poll(2) does not skip, channels_ leads *)
(* to channels, and a failed assertion is one of those of UpdateChannel(). *)
PollerTypeOK ==
  /\ life \in [Channels -> {"none", "live", "freed"}]
  /\ events_ \in [Channels -> SUBSET {"read", "write"}]
  /\ index_ \in [Channels -> Int]
  /\ pollfds_ \in Seq([fd : Nat, events : SUBSET {"read", "write"}])
  /\ channels_ \in [DOMAIN channels_ -> Channels]
  /\ aborted \in {"none", "already registered", "not registered",
                  "other channel", "slot range", "slot owner"}
  /\ shifted \in BOOLEAN

(* The poll set is exactly what the channels ask for.  As long as no       *)
(* assertion has failed, the slots and the map hold the same descriptors,  *)
(* no descriptor twice; each leads to a channel that was constructed for   *)
(* that descriptor (what fillActiveChannels() asserts before it hands the  *)
(* event over) and has its events_; and no channel with events, destroyed  *)
(* or not, is missing.  So the entries that dangle are those of the        *)
(* channels that were destroyed before they disabled their events, and of  *)
(* no others.  It holds in spite of the stale index_ that EraseSlot leaves *)
(* behind because UpdateChannel() checks the slot's owner.                 *)
PollSetMatchesChannels ==
  /\ PollerTypeOK
  /\ aborted = "none" =>
       /\ \A i, j \in 1..Len(pollfds_) :
            i # j => pollfds_[i].fd # pollfds_[j].fd
       /\ DOMAIN channels_ = {pollfds_[i].fd : i \in 1..Len(pollfds_)}
       /\ \A i \in 1..Len(pollfds_) :
            LET c == channels_[pollfds_[i].fd] IN
              /\ life[c] # "none" /\ FdOf[c] = pollfds_[i].fd
              /\ events_[c] = pollfds_[i].events /\ events_[c] # {}
       /\ \A c \in Channels :
            events_[c] # {} => Registered(FdOf[c]) /\ channels_[FdOf[c]] = c

(* Descriptors are closed and used again.  A channel that was registered   *)
(* once never meets another channel in the map entry of its descriptor     *)
(* (poller.cc:70), and a first registration finds its descriptor taken     *)
(* (poller.cc:59) only if the channel that had it before was destroyed     *)
(* while it still asked for events.                                        *)
ClashOnlyWithDestroyed ==
  /\ aborted # "other channel"
  /\ aborted = "already registered" =>
       \E c, d \in Channels :
         /\ life[c] = "freed" /\ events_[c] # {}
         /\ life[d] = "live" /\ index_[d] < 0 /\ FdOf[d] = FdOf[c]

(* A first registration finds its descriptor free: the assertion at        *)
(* poller.cc:59, with a channel destroyed the way ~Acceptor() does.        *)
RegistrationAssertion == aborted # "already registered"

(* The slot assertions of UpdateChannel() can fail only after the erase of *)
(* a slot that was not the last one: channels that come and go in stack    *)
(* order keep valid indices.                                               *)
SlotsFailOnlyAfterShift ==
  aborted \in {"slot range", "slot owner"} => shifted
=============================================================================
