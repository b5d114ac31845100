---------------------------- MODULE PollerProofs ----------------------------
(***************************************************************************)
(* Proofs about Poller, for any channels on any descriptors: slots, map    *)
(* and channels agree, registrations clash only with what a channel left   *)
(* behind that was destroyed registered, and the assertions on slots fail  *)
(* only after an erase that moved other slots.                             *)
(***************************************************************************)
EXTENDS Poller, TLAPS

Slot == [fd : Nat, events : SUBSET {"read", "write"}]

(* Slot i belongs to c: a channel that asks for events and has been given  *)
(* an index, the right one as long as no slot has been moved.              *)
Belongs(i, c) ==
  /\ life[c] # "none" /\ FdOf[c] = pollfds_[i].fd
  /\ events_[c] = pollfds_[i].events /\ events_[c] # {}
  /\ index_[c] >= 0
  /\ ~shifted => index_[c] = i - 1

SlotsDistinct ==
  \A i, j \in 1..Len(pollfds_) : i # j => pollfds_[i].fd # pollfds_[j].fd

EntriesHaveSlots ==
  \A fd \in DOMAIN channels_ : \E i \in 1..Len(pollfds_) : pollfds_[i].fd = fd

SlotsHaveChannels ==
  \A i \in 1..Len(pollfds_) :
    pollfds_[i].fd \in DOMAIN channels_ /\ Belongs(i, channels_[pollfds_[i].fd])

EventsRegistered ==
  \A c \in Channels : events_[c] # {} => FdOf[c] \in DOMAIN channels_ /\ channels_[FdOf[c]] = c

(* What makes the rest inductive: two live channels have two descriptors,  *)
(* one that is not constructed asks for nothing, and a live channel that   *)
(* was registered once finds no other in the entry of its descriptor.      *)
Owners ==
  /\ \A c, d \in Channels : life[c] = "live" /\ life[d] = "live" /\ FdOf[c] = FdOf[d] => c = d
  /\ \A c \in Channels : life[c] = "none" => events_[c] = {}

OwnEntries ==
  \A c \in Channels : index_[c] >= 0 =>
    /\ life[c] # "none"
    /\ life[c] = "live" /\ FdOf[c] \in DOMAIN channels_ => channels_[FdOf[c]] = c

Agree ==
  /\ SlotsDistinct /\ EntriesHaveSlots /\ SlotsHaveChannels /\ EventsRegistered
  /\ Owners /\ OwnEntries

IInv ==
  /\ PollerTypeOK
  /\ aborted = "none" => Agree
  /\ ClashOnlyWithDestroyed /\ SlotsFailOnlyAfterShift

LEMMA Types ==
  PollerTypeOK =>
    /\ pollfds_ \in Seq(Slot) /\ Len(pollfds_) \in Nat
    /\ \A c \in Channels : index_[c] \in Int
<1> HAVE PollerTypeOK
<1>1. pollfds_ \in Seq(Slot)
  BY Zenon DEF PollerTypeOK, Slot
<1>2. index_ \in [Channels -> Int]
  BY Zenon DEF PollerTypeOK
<1>3. Len(pollfds_) \in Nat
  BY ONLY <1>1, SMTT(30)
<1> QED
  BY ONLY <1>1, <1>2, <1>3

LEMMA InvImplies ==
  IInv => PollSetMatchesChannels /\ ClashOnlyWithDestroyed /\ SlotsFailOnlyAfterShift
<1> SUFFICES ASSUME IInv, aborted = "none" PROVE PollSetMatchesChannels
  BY DEF IInv, PollSetMatchesChannels
<1>1. Agree /\ PollerTypeOK
  BY DEF IInv
<1>2. DOMAIN channels_ = {pollfds_[i].fd : i \in 1..Len(pollfds_)}
  BY <1>1, Zenon DEF Agree, EntriesHaveSlots, SlotsHaveChannels
<1> QED
  BY <1>1, <1>2, SMTT(30) DEF PollSetMatchesChannels, Agree, SlotsDistinct, SlotsHaveChannels,
                    EventsRegistered, Belongs, Registered

(* The entry of a registered descriptor leads to the channel of a slot. *)
LEMMA EntryHasSlot ==
  ASSUME PollerTypeOK, Agree, NEW fd \in DOMAIN channels_
  PROVE  /\ channels_[fd] \in Channels
         /\ \E i \in 1..Len(pollfds_) : pollfds_[i].fd = fd /\ Belongs(i, channels_[fd])
<1>1. PICK i \in 1..Len(pollfds_) : pollfds_[i].fd = fd
  BY DEF Agree, EntriesHaveSlots
<1>2. Belongs(i, channels_[fd]) /\ channels_[fd] \in Channels
  BY <1>1, Zenon DEF Agree, SlotsHaveChannels, PollerTypeOK
<1> QED
  BY <1>1, <1>2

(* That of a live channel that was registered once leads to it. *)
LEMMA EntryIsOwn ==
  ASSUME PollerTypeOK, Agree, NEW c \in Channels, life[c] = "live", index_[c] >= 0,
         FdOf[c] \in DOMAIN channels_
  PROVE  /\ channels_[FdOf[c]] = c
         /\ \E i \in 1..Len(pollfds_) : pollfds_[i].fd = FdOf[c] /\ Belongs(i, c)
<1>1. channels_[FdOf[c]] = c
  BY DEF Agree, OwnEntries
<1> QED
  BY <1>1, EntryHasSlot, Zenon

(* That of a channel's first registration belongs to a destroyed one. *)
LEMMA EntryLeftBehind ==
  ASSUME PollerTypeOK, Agree, NEW c \in Channels, index_[c] < 0, FdOf[c] \in DOMAIN channels_,
         \A d \in Channels : life[d] = "live" /\ FdOf[d] = FdOf[c] => d = c
  PROVE  \E d \in Channels : d # c /\ life[d] = "freed" /\ events_[d] # {} /\ FdOf[d] = FdOf[c]
<1>1. PICK i \in 1..Len(pollfds_) :
        pollfds_[i].fd = FdOf[c] /\ Belongs(i, channels_[FdOf[c]])
  BY EntryHasSlot
<1>2. PICK d \in Channels : d = channels_[FdOf[c]]
  BY EntryHasSlot
<1>3. life[d] # "none" /\ events_[d] # {} /\ FdOf[d] = FdOf[c] /\ index_[d] >= 0
  BY <1>1, <1>2, Zenon DEF Belongs
<1>4. index_[c] \in Int
  BY Types
<1>5. d # c
  BY <1>3, <1>4
<1>6. life[d] \in {"none", "live", "freed"}
  BY Zenon DEF PollerTypeOK
<1> QED
  BY <1>3, <1>5, <1>6, Zenon

(* The assertions that fail, if any, are those on slots, the one against   *)
(* updating a channel that is not registered, and the one of a first       *)
(* registration against a channel that was destroyed registered.           *)
LEMMA AssertionsThatFail ==
  ASSUME PollerTypeOK, Agree, NEW c \in Channels, life[c] = "live"
  PROVE  /\ FailedAssertion(c) \in {"none", "already registered", "not registered",
                                    "slot range", "slot owner"}
         /\ FailedAssertion(c) \in {"slot range", "slot owner"} => shifted
         /\ FailedAssertion(c) = "already registered" =>
              /\ index_[c] < 0
              /\ \E d \in Channels :
                   d # c /\ life[d] = "freed" /\ events_[d] # {} /\ FdOf[d] = FdOf[c]
<1>1. index_[c] \in Int /\ pollfds_ \in Seq(Slot) /\ Len(pollfds_) \in Nat
  BY Types
<1>2. CASE FdOf[c] \notin DOMAIN channels_
  <2>1. FailedAssertion(c) \in {"none", "not registered"}
    BY ONLY <1>1, <1>2 DEF FailedAssertion, Registered
  <2> QED
    BY <2>1, Zenon
<1>3. CASE FdOf[c] \in DOMAIN channels_ /\ index_[c] < 0
  <2>1. FailedAssertion(c) = "already registered"
    BY ONLY <1>3 DEF FailedAssertion, Registered
  <2>2. \A d \in Channels : life[d] = "live" /\ FdOf[d] = FdOf[c] => d = c
    BY Zenon DEF Agree, Owners
  <2>3. \E d \in Channels :
          d # c /\ life[d] = "freed" /\ events_[d] # {} /\ FdOf[d] = FdOf[c]
    BY <1>3, <2>2, EntryLeftBehind
  <2> QED
    BY <1>3, <2>1, <2>3, Zenon
<1>4. CASE FdOf[c] \in DOMAIN channels_ /\ index_[c] >= 0
  <2>1. PICK i \in 1..Len(pollfds_) : pollfds_[i].fd = FdOf[c] /\ Belongs(i, c)
    BY <1>4, EntryIsOwn
  <2>2. channels_[FdOf[c]] = c
    BY <1>4, EntryIsOwn
  <2>3. index_[c] >= 0 /\ (~shifted => index_[c] = i - 1)
    BY <2>1 DEF Belongs
  <2>4. FailedAssertion(c) \in {"none", "slot range", "slot owner"}
    BY ONLY <1>1, <1>4, <2>2, <2>3 DEF FailedAssertion, Registered
  <2>5. ASSUME ~shifted PROVE FailedAssertion(c) = "none"
    <3>1. index_[c] + 1 = i /\ index_[c] < Len(pollfds_)
      BY ONLY <1>1, <2>3, <2>5, i \in 1..Len(pollfds_)
    <3>2. pollfds_[index_[c] + 1].fd = FdOf[c]
      BY ONLY <2>1, <3>1
    <3>3. ~(index_[c] < 0) /\ ~(index_[c] >= Len(pollfds_))
      BY ONLY <1>1, <2>3, <3>1
    <3> QED
      BY ONLY <1>4, <2>2, <3>2, <3>3, Zenon DEF FailedAssertion, Registered
  <2>6. FailedAssertion(c) # "already registered"
    BY <2>4, Zenon
  <2> QED
    BY <2>4, <2>5, <2>6, Zenon
<1>5. index_[c] < 0 \/ index_[c] >= 0
  BY <1>1
<1> QED
  BY <1>2, <1>3, <1>4, <1>5, Zenon

-----------------------------------------------------------------------------
(* The three ways of UpdateChannel(c) that pass the assertions.  Every     *)
(* other channel keeps its events_, index_ and life.                       *)

Updating(c, events) ==
  /\ PollerTypeOK /\ Agree /\ c \in Channels /\ life[c] = "live"
  /\ events \in SUBSET {"read", "write"}
  /\ events_' = [events_ EXCEPT ![c] = events] /\ UNCHANGED life

LEMMA UpdatingKeeps ==
  ASSUME NEW c, NEW events, Updating(c, events)
  PROVE  /\ events_' \in [Channels -> SUBSET {"read", "write"}]
         /\ events_'[c] = events
         /\ \A d \in Channels : d # c => events_'[d] = events_[d]
         /\ Owners'
<1>1. events_ \in [Channels -> SUBSET {"read", "write"}]
  BY Zenon DEF Updating, PollerTypeOK
<1>2. /\ events_' \in [Channels -> SUBSET {"read", "write"}]
      /\ events_'[c] = events
      /\ \A d \in Channels : d # c => events_'[d] = events_[d]
  BY <1>1 DEF Updating
<1>3. Owners'
  BY <1>2 DEF Updating, Agree, Owners
<1> QED
  BY <1>2, <1>3

(* AddSlot() is also the second half of what an owner may do in one step:  *)
(* construct a channel for a descriptor no live channel has, and register  *)
(* it.                                                                     *)
Opening(c, events) ==
  /\ PollerTypeOK /\ Agree /\ c \in Channels /\ events \in SUBSET {"read", "write"}
  /\ events_' = [events_ EXCEPT ![c] = events]
  /\ life' = [life EXCEPT ![c] = "live"]
  /\ \A d \in Channels : life[d] = "live" /\ FdOf[d] = FdOf[c] => d = c

LEMMA UpdatingOpens ==
  ASSUME NEW c, NEW events, Updating(c, events) PROVE Opening(c, events)
<1>1. life \in [Channels -> {"none", "live", "freed"}] /\ life[c] = "live" /\ life' = life
  BY Zenon DEF Updating, PollerTypeOK
<1>2. life' = [life EXCEPT ![c] = "live"]
  BY ONLY <1>1
<1> QED
  BY <1>2, Zenon DEF Updating, Opening, Agree, Owners

LEMMA OpeningKeeps ==
  ASSUME NEW c, NEW events, Opening(c, events)
  PROVE  /\ life' \in [Channels -> {"none", "live", "freed"}] /\ life'[c] = "live"
         /\ \A d \in Channels : d # c => life'[d] = life[d]
         /\ events_' \in [Channels -> SUBSET {"read", "write"}]
         /\ events_'[c] = events
         /\ \A d \in Channels : d # c => events_'[d] = events_[d]
         /\ Owners'
<1>1. /\ events_ \in [Channels -> SUBSET {"read", "write"}] /\ c \in Channels
      /\ life \in [Channels -> {"none", "live", "freed"}]
      /\ events \in SUBSET {"read", "write"} /\ Owners
  BY Zenon DEF Opening, PollerTypeOK, Agree
<1>2. /\ events_' \in [Channels -> SUBSET {"read", "write"}]
      /\ events_'[c] = events
      /\ \A d \in Channels : d # c => events_'[d] = events_[d]
  BY <1>1 DEF Opening
<1>3. /\ life' \in [Channels -> {"none", "live", "freed"}] /\ life'[c] = "live"
      /\ \A d \in Channels : d # c => life'[d] = life[d]
  BY <1>1 DEF Opening
<1>4. Owners'
  BY <1>1, <1>2, <1>3 DEF Opening, Owners
<1> QED
  BY <1>2, <1>3, <1>4

LEMMA AddSlotAgrees ==
  ASSUME NEW c, NEW events, Opening(c, events), events # {},
         FdOf[c] \notin DOMAIN channels_, AddSlot(c, events)
  PROVE  /\ pollfds_' \in Seq(Slot) /\ index_' \in [Channels -> Int]
         /\ channels_' \in [DOMAIN channels_' -> Channels] /\ shifted' \in BOOLEAN
         /\ Agree'
<1> DEFINE n == Len(pollfds_)
           slot == [fd |-> FdOf[c], events |-> events]
<1>1. /\ pollfds_ \in Seq(Slot) /\ n \in Nat /\ index_ \in [Channels -> Int]
      /\ channels_ \in [DOMAIN channels_ -> Channels] /\ shifted \in BOOLEAN
      /\ c \in Channels
  BY Types, Zenon DEF Opening, PollerTypeOK
<1>2. slot \in Slot /\ slot.fd = FdOf[c] /\ slot.events = events
  BY <1>1, FdAssumption DEF Slot, Opening
<1>3. /\ pollfds_' \in Seq(Slot) /\ Len(pollfds_') = n + 1
      /\ \A i \in 1..n : pollfds_'[i] = pollfds_[i]
      /\ pollfds_'[n + 1] = slot
  <2> HIDE DEF slot
  <2>1. pollfds_' = Append(pollfds_, slot)
    BY DEF AddSlot, slot
  <2> QED
    BY ONLY <1>1, <1>2, <2>1
<1>4. /\ index_' \in [Channels -> Int] /\ index_'[c] = n
      /\ \A d \in Channels : d # c => index_'[d] = index_[d]
  BY <1>1 DEF AddSlot
<1>5. /\ DOMAIN channels_' = DOMAIN channels_ \cup {FdOf[c]}
      /\ channels_'[FdOf[c]] = c
      /\ \A fd \in DOMAIN channels_ : channels_'[fd] = channels_[fd]
      /\ channels_' \in [DOMAIN channels_' -> Channels]
  BY <1>1 DEF AddSlot
<1>6. shifted' = shifted
  BY DEF AddSlot
<1>7. /\ events_'[c] = events /\ Owners'
      /\ \A d \in Channels : d # c => events_'[d] = events_[d]
      /\ life'[c] = "live" /\ \A d \in Channels : d # c => life'[d] = life[d]
  BY OpeningKeeps
<1>8. /\ SlotsDistinct /\ EntriesHaveSlots /\ SlotsHaveChannels /\ EventsRegistered
  BY DEF Opening, Agree
<1> HIDE DEF slot, n
<1>9. Len(pollfds_) = n /\ 1..(n + 1) = 1..n \cup {n + 1} /\ n + 1 \notin 1..n
  BY <1>1 DEF n
<1>10. ASSUME NEW i \in 1..n
       PROVE  /\ pollfds_'[i].fd \in DOMAIN channels_ /\ pollfds_'[i].fd # FdOf[c]
              /\ Belongs(i, channels_[pollfds_[i].fd])'
  <2> DEFINE d == channels_[pollfds_[i].fd]
  <2>1. pollfds_[i].fd \in DOMAIN channels_ /\ Belongs(i, d) /\ d \in Channels
    BY <1>1, <1>8, <1>9 DEF SlotsHaveChannels
  <2> HIDE DEF d
  <2>2. d # c
    BY <2>1 DEF Belongs
  <2>3. channels_[pollfds_[i].fd] = d
    BY DEF d
  <2>4. /\ life'[d] = life[d] /\ events_'[d] = events_[d] /\ index_'[d] = index_[d]
        /\ pollfds_'[i] = pollfds_[i]
    BY <1>1, <1>3, <1>4, <1>7, <2>1, <2>2
  <2>5. channels_'[pollfds_'[i].fd] = d
    BY <1>5, <2>1, <2>3, <2>4
  <2>6. pollfds_'[i].fd \in DOMAIN channels_ /\ pollfds_'[i].fd # FdOf[c]
    BY <2>1, <2>4
  <2>7. (channels_[pollfds_[i].fd])' = d
    BY <2>5
  <2>8. Belongs(i, channels_[pollfds_[i].fd])'
    BY <1>6, <2>1, <2>4, <2>7 DEF Belongs
  <2> QED
    BY <2>6, <2>8
<1>11. SlotsHaveChannels'
  <2> SUFFICES ASSUME NEW i \in 1..(n + 1)
               PROVE  /\ pollfds_'[i].fd \in DOMAIN channels_'
                      /\ Belongs(i, channels_[pollfds_[i].fd])'
    BY <1>3 DEF SlotsHaveChannels
  <2>1. CASE i = n + 1
    <3>1. pollfds_'[i] = slot /\ i - 1 = n /\ n >= 0
      BY <1>1, <1>3, <2>1 DEF n
    <3>2. (channels_[pollfds_[i].fd])' = c
      BY <1>2, <1>5, <3>1
    <3> QED
      BY <1>1, <1>2, <1>4, <1>5, <1>7, <3>1, <3>2, Zenon DEF Belongs
  <2>2. CASE i \in 1..n
    BY <1>5, <1>10, <2>2
  <2> QED
    BY <1>9, <2>1, <2>2
<1>12. SlotsDistinct'
  <2>1. \A i \in 1..n : pollfds_'[i].fd # FdOf[c]
    BY <1>10
  <2> QED
    BY <1>2, <1>3, <1>8, <1>9, <2>1 DEF SlotsDistinct
<1>13. EntriesHaveSlots'
  <2> SUFFICES ASSUME NEW fd \in DOMAIN channels_'
               PROVE  \E i \in 1..(n + 1) : pollfds_'[i].fd = fd
    BY <1>3 DEF EntriesHaveSlots
  <2>1. CASE fd = FdOf[c]
    BY <1>2, <1>3, <1>9, <2>1
  <2>2. CASE fd \in DOMAIN channels_
    BY <1>3, <1>8, <1>9, <2>2 DEF EntriesHaveSlots
  <2> QED
    BY <1>5, <2>1, <2>2
<1>14. EventsRegistered'
  BY <1>1, <1>5, <1>7, <1>8, SMTT(30) DEF EventsRegistered
<1>15. OwnEntries'
  <2> SUFFICES ASSUME NEW d \in Channels, index_'[d] >= 0
               PROVE  /\ life'[d] # "none"
                      /\ life'[d] = "live" /\ FdOf[d] \in DOMAIN channels_'
                           => channels_'[FdOf[d]] = d
    BY DEF OwnEntries
  <2>1. CASE d = c
    BY <1>5, <1>7, <2>1
  <2>2. CASE d # c
    <3>1. /\ life'[d] = life[d] /\ life[d] # "none"
          /\ life[d] = "live" /\ FdOf[d] \in DOMAIN channels_ => channels_[FdOf[d]] = d
      BY <1>4, <1>7, <2>2 DEF Opening, Agree, OwnEntries
    <3>2. life'[d] = "live" => FdOf[d] # FdOf[c]
      BY <1>1, <1>7, <2>2, Zenon DEF Owners
    <3> QED
      BY <1>5, <3>1, <3>2
  <2> QED
    BY <2>1, <2>2
<1> QED
  BY ONLY <1>1, <1>3, <1>4, <1>5, <1>6, <1>7, <1>11, <1>12, <1>13, <1>14, <1>15, Zenon DEF Agree

(* The assertions of UpdateChannel() on a registered channel have passed:  *)
(* k is the slot of c, and every other slot belongs to another channel.    *)
OwnSlot(c, k) ==
  /\ index_[c] >= 0 /\ k = index_[c] + 1 /\ k <= Len(pollfds_)
  /\ FdOf[c] \in DOMAIN channels_ /\ channels_[FdOf[c]] = c /\ pollfds_[k].fd = FdOf[c]

LEMMA OtherSlots ==
  ASSUME NEW c, NEW events, Updating(c, events), NEW k, OwnSlot(c, k)
  PROVE  /\ k \in 1..Len(pollfds_)
         /\ \A j \in 1..Len(pollfds_) :
              /\ pollfds_[j].fd \in DOMAIN channels_
              /\ channels_[pollfds_[j].fd] \in Channels
              /\ Belongs(j, channels_[pollfds_[j].fd])
              /\ j # k => pollfds_[j].fd # FdOf[c] /\ channels_[pollfds_[j].fd] # c
<1>1. /\ pollfds_ \in Seq(Slot) /\ Len(pollfds_) \in Nat /\ index_[c] \in Int
      /\ channels_ \in [DOMAIN channels_ -> Channels]
      /\ SlotsDistinct /\ SlotsHaveChannels
  BY Types, Zenon DEF Updating, PollerTypeOK, Agree
<1>2. k \in 1..Len(pollfds_)
  BY <1>1 DEF OwnSlot
<1>3. ASSUME NEW j \in 1..Len(pollfds_)
      PROVE  /\ pollfds_[j].fd \in DOMAIN channels_
             /\ channels_[pollfds_[j].fd] \in Channels
             /\ Belongs(j, channels_[pollfds_[j].fd])
  BY <1>1 DEF SlotsHaveChannels
<1>4. ASSUME NEW j \in 1..Len(pollfds_), j # k
      PROVE  pollfds_[j].fd # FdOf[c] /\ channels_[pollfds_[j].fd] # c
  <2>1. pollfds_[j].fd # FdOf[c]
    BY <1>1, <1>2, <1>4 DEF SlotsDistinct, OwnSlot
  <2> QED
    BY <1>3, <2>1 DEF Belongs
<1> QED
  BY <1>2, <1>3, <1>4

LEMMA SetSlotAgrees ==
  ASSUME NEW c, NEW events, Updating(c, events), events # {},
         NEW k, OwnSlot(c, k), SetSlot(c, events)
  PROVE  pollfds_' \in Seq(Slot) /\ Agree'
<1> DEFINE n == Len(pollfds_)
<1>1. /\ pollfds_ \in Seq(Slot) /\ n \in Nat /\ c \in Channels /\ life[c] = "live"
      /\ UNCHANGED <<life, index_, channels_, shifted>> /\ k \in 1..n
      /\ SlotsDistinct /\ EntriesHaveSlots /\ EventsRegistered
  BY Types, OtherSlots, Zenon DEF Updating, Agree, SetSlot
<1>2. /\ pollfds_' \in Seq(Slot) /\ Len(pollfds_') = n
      /\ \A i \in 1..n : pollfds_'[i].fd = pollfds_[i].fd
      /\ \A i \in 1..n : pollfds_'[i].events = IF i = k THEN events ELSE pollfds_[i].events
  <2>1. pollfds_' = [pollfds_ EXCEPT ![k].events = events]
    BY DEF SetSlot, OwnSlot
  <2>2. \A i \in 1..n : pollfds_[i] \in Slot
    BY <1>1
  <2>3. [pollfds_[k] EXCEPT !.events = events] \in Slot
    BY <1>1, <2>2, Zenon DEF Slot, Updating
  <2>4. pollfds_' = [pollfds_ EXCEPT ![k] = [pollfds_[k] EXCEPT !.events = events]]
    BY <2>1
  <2>5. pollfds_' \in Seq(Slot) /\ Len(pollfds_') = n
    BY ONLY <1>1, <2>3, <2>4
  <2>6. \A i \in 1..n : pollfds_'[i] = IF i = k THEN [pollfds_[k] EXCEPT !.events = events]
                                                ELSE pollfds_[i]
    BY ONLY <1>1, <2>4
  <2>7. /\ [pollfds_[k] EXCEPT !.events = events].fd = pollfds_[k].fd
        /\ [pollfds_[k] EXCEPT !.events = events].events = events
    BY <1>1, <2>2 DEF Slot
  <2> QED
    BY <2>5, <2>6, <2>7, Zenon
<1>3. /\ events_'[c] = events /\ Owners'
      /\ \A d \in Channels : d # c => events_'[d] = events_[d]
  BY UpdatingKeeps
<1>4. SlotsHaveChannels'
  <2> SUFFICES ASSUME NEW i \in 1..n
               PROVE  /\ pollfds_'[i].fd \in DOMAIN channels_'
                      /\ Belongs(i, channels_[pollfds_[i].fd])'
    BY <1>2 DEF SlotsHaveChannels
  <2>1. PICK d : d = channels_[pollfds_[i].fd]
    OBVIOUS
  <2>2. /\ pollfds_[i].fd \in DOMAIN channels_ /\ Belongs(i, d) /\ d \in Channels
        /\ i # k => d # c
    BY <2>1, OtherSlots
  <2>3. (channels_[pollfds_[i].fd])' = d
    BY <1>1, <1>2, <2>1
  <2>4. i = k => d = c
    BY <2>1 DEF OwnSlot
  <2>5. events_'[d] = pollfds_'[i].events /\ events_'[d] # {}
    BY <1>2, <1>3, <2>2, <2>4 DEF Belongs
  <2> QED
    BY <1>1, <1>2, <2>2, <2>3, <2>5 DEF Belongs
<1>5. SlotsDistinct' /\ EntriesHaveSlots'
  BY <1>1, <1>2, SMTT(30) DEF SlotsDistinct, EntriesHaveSlots
<1>6. EventsRegistered'
  BY <1>1, <1>3 DEF EventsRegistered, OwnSlot
<1>7. OwnEntries'
  BY <1>1, Zenon DEF Updating, Agree, OwnEntries
<1> QED
  BY <1>2, <1>3, <1>4, <1>5, <1>6, <1>7 DEF Agree

LEMMA RemoveAtProperties ==
  ASSUME NEW S, NEW s \in Seq(S), NEW k \in 1..Len(s)
  PROVE  /\ RemoveAt(s, k) \in Seq(S) /\ Len(RemoveAt(s, k)) = Len(s) - 1
         /\ \A i \in 1..(Len(s) - 1) :
              RemoveAt(s, k)[i] = s[IF i < k THEN i ELSE i + 1]
<1> DEFINE a == SubSeq(s, 1, k - 1)
           b == SubSeq(s, k + 1, Len(s))
<1>1. \A i \in 1..Len(s) : s[i] \in S
  OBVIOUS
<1>2. a \in Seq(S) /\ Len(a) = k - 1 /\ \A i \in 1..(k - 1) : a[i] = s[i]
  BY <1>1
<1>3. b \in Seq(S) /\ Len(b) = Len(s) - k /\ \A i \in 1..(Len(s) - k) : b[i] = s[i + k]
  BY <1>1
<1>4. RemoveAt(s, k) = a \o b
  BY DEF RemoveAt
<1> HIDE DEF a, b
<1>5. /\ a \o b \in Seq(S) /\ Len(a \o b) = Len(s) - 1
      /\ \A i \in 1..(Len(s) - 1) : (a \o b)[i] = IF i <= k - 1 THEN a[i] ELSE b[i - (k - 1)]
  <2>1. /\ a \o b \in Seq(S) /\ Len(a \o b) = Len(a) + Len(b)
        /\ \A i \in 1..Len(a) + Len(b) :
             (a \o b)[i] = IF i <= Len(a) THEN a[i] ELSE b[i - Len(a)]
    <3>1. a \in Seq(S) /\ b \in Seq(S)
      BY <1>2, <1>3
    <3> QED
      BY ONLY <3>1
  <2>2. Len(a) + Len(b) = Len(s) - 1
    BY <1>2, <1>3
  <2> QED
    BY ONLY <1>2, <2>1, <2>2
<1>6. ASSUME NEW i \in 1..(Len(s) - 1)
      PROVE  (a \o b)[i] = s[IF i < k THEN i ELSE i + 1]
  <2>1. CASE i < k
    BY <1>2, <1>5, <2>1
  <2>2. CASE i >= k
    <3>1. i - (k - 1) \in 1..(Len(s) - k) /\ (i - (k - 1)) + k = i + 1 /\ ~(i <= k - 1)
      BY <2>2
    <3>2. (a \o b)[i] = b[i - (k - 1)]
      BY <1>5, <3>1
    <3> QED
      BY <1>3, <2>2, <3>1, <3>2
  <2>3. i < k \/ i >= k
    OBVIOUS
  <2> QED
    BY ONLY <2>1, <2>2, <2>3, Zenon
<1> QED
  BY <1>4, <1>5, <1>6, Zenon

LEMMA EraseSlotAgrees ==
  ASSUME NEW c, Updating(c, {}), NEW k, OwnSlot(c, k), EraseSlot(c)
  PROVE  /\ pollfds_' \in Seq(Slot) /\ shifted' \in BOOLEAN
         /\ channels_' \in [DOMAIN channels_' -> Channels] /\ Agree'
<1> DEFINE n == Len(pollfds_)
           Old(i) == IF i < k THEN i ELSE i + 1
<1>1. /\ pollfds_ \in Seq(Slot) /\ n \in Nat /\ c \in Channels /\ life[c] = "live"
      /\ channels_ \in [DOMAIN channels_ -> Channels] /\ shifted \in BOOLEAN
      /\ UNCHANGED <<life, index_>> /\ k \in 1..n
      /\ SlotsDistinct /\ EntriesHaveSlots /\ EventsRegistered /\ Owners
  BY Types, OtherSlots, Zenon DEF Updating, Agree, EraseSlot, PollerTypeOK
<1>2. /\ pollfds_' \in Seq(Slot) /\ Len(pollfds_') = n - 1
      /\ \A i \in 1..(n - 1) : pollfds_'[i] = pollfds_[Old(i)]
  <2>1. pollfds_' = RemoveAt(pollfds_, k)
    BY DEF EraseSlot, OwnSlot
  <2> QED
    BY ONLY <1>1, <2>1, RemoveAtProperties
<1>3. /\ DOMAIN channels_' = DOMAIN channels_ \ {FdOf[c]}
      /\ \A fd \in DOMAIN channels_' : channels_'[fd] = channels_[fd]
      /\ channels_' \in [DOMAIN channels_' -> Channels]
  BY <1>1 DEF EraseSlot
<1>4. shifted' \in BOOLEAN /\ (~shifted' => ~shifted /\ k = n)
  <2>1. shifted' = (shifted \/ k < n)
    BY Zenon DEF EraseSlot, OwnSlot
  <2>2. shifted' \in BOOLEAN /\ (~shifted' => ~shifted /\ ~(k < n))
    BY ONLY <2>1, Zenon
  <2>3. ~(k < n) => k = n
    BY ONLY <1>1
  <2> QED
    BY ONLY <2>2, <2>3, Zenon
<1>5. /\ events_'[c] = {} /\ Owners'
      /\ \A d \in Channels : d # c => events_'[d] = events_[d]
  BY UpdatingKeeps
<1>6. ASSUME NEW i \in 1..(n - 1)
      PROVE  Old(i) \in 1..n /\ Old(i) # k /\ (k = n => Old(i) = i)
  BY <1>1
<1>7. \A i, j \in 1..(n - 1) : i # j => Old(i) # Old(j)
  BY <1>1
<1>8. \A j \in 1..n : j # k => \E i \in 1..(n - 1) : Old(i) = j
  <2> SUFFICES ASSUME NEW j \in 1..n, j # k PROVE \E i \in 1..(n - 1) : Old(i) = j
    OBVIOUS
  <2>1. CASE j < k
    <3>1. j \in 1..(n - 1) /\ Old(j) = j
      BY <1>1, <2>1
    <3> QED
      BY <3>1
  <2>2. CASE j > k
    <3>1. j - 1 \in 1..(n - 1) /\ Old(j - 1) = j
      BY <1>1, <2>2
    <3> QED
      BY <3>1
  <2>3. j < k \/ j > k
    BY <1>1
  <2> QED
    BY ONLY <2>1, <2>2, <2>3
<1> HIDE DEF Old, n
<1>9. Len(pollfds_) = n
  BY DEF n
<1>10. SlotsHaveChannels'
  <2> SUFFICES ASSUME NEW i \in 1..(n - 1)
               PROVE  /\ pollfds_'[i].fd \in DOMAIN channels_'
                      /\ Belongs(i, channels_[pollfds_[i].fd])'
    BY <1>2 DEF SlotsHaveChannels
  <2>1. PICK j \in 1..n : j = Old(i)
    BY <1>6
  <2>2. j # k /\ (k = n => j = i) /\ pollfds_'[i] = pollfds_[j]
    BY <1>2, <1>6, <2>1
  <2>3. PICK d : d = channels_[pollfds_[j].fd]
    OBVIOUS
  <2>4. /\ pollfds_[j].fd \in DOMAIN channels_ /\ Belongs(j, d) /\ d \in Channels
        /\ d # c /\ pollfds_[j].fd # FdOf[c]
    BY <1>9, <2>2, <2>3, OtherSlots
  <2>5. pollfds_'[i].fd \in DOMAIN channels_' /\ (channels_[pollfds_[i].fd])' = d
    BY <1>3, <2>2, <2>3, <2>4
  <2>6. life'[d] = life[d] /\ index_'[d] = index_[d] /\ events_'[d] = events_[d]
    BY <1>1, <1>5, <2>4
  <2>7. ~shifted' => ~shifted /\ j = i
    BY <1>4, <2>2
  <2> QED
    BY <2>2, <2>4, <2>5, <2>6, <2>7 DEF Belongs
<1>11. SlotsDistinct'
  BY <1>1, <1>2, <1>6, <1>7, <1>9 DEF SlotsDistinct
<1>12. EntriesHaveSlots'
  <2> SUFFICES ASSUME NEW fd \in DOMAIN channels_'
               PROVE  \E i \in 1..(n - 1) : pollfds_'[i].fd = fd
    BY <1>2 DEF EntriesHaveSlots
  <2>1. PICK j \in 1..n : pollfds_[j].fd = fd
    BY <1>1, <1>3, <1>9 DEF EntriesHaveSlots
  <2>2. j # k
    BY <1>3, <2>1 DEF OwnSlot
  <2> QED
    BY <1>2, <1>8, <2>1, <2>2
<1>13. EventsRegistered'
  BY <1>1, <1>3, <1>5 DEF EventsRegistered, OwnSlot
<1>14. OwnEntries'
  BY <1>1, <1>3 DEF Updating, Agree, OwnEntries
<1> QED
  BY <1>2, <1>3, <1>4, <1>5, <1>10, <1>11, <1>12, <1>13, <1>14 DEF Agree

-----------------------------------------------------------------------------
(* An update by the owner of a live channel, which asks for some event if  *)
(* the channel is not registered yet.                                      *)
LEMMA UpdateKeepsInv ==
  ASSUME IInv, aborted = "none", NEW c \in Channels, life[c] = "live",
         NEW events \in SUBSET {"read", "write"}, index_[c] < 0 => events # {},
         UpdateChannel(c, events), UNCHANGED life
  PROVE  IInv'
<1>1. Updating(c, events)
  BY DEF IInv, Updating, UpdateChannel
<1>2. /\ PollerTypeOK /\ Agree /\ index_[c] \in Int /\ index_ \in [Channels -> Int]
      /\ shifted \in BOOLEAN /\ aborted' = FailedAssertion(c)
  BY <1>1, Types DEF IInv, UpdateChannel, PollerTypeOK
<1>3. /\ FailedAssertion(c) \in {"none", "already registered", "not registered",
                                 "slot range", "slot owner"}
      /\ FailedAssertion(c) \in {"slot range", "slot owner"} => shifted
      /\ FailedAssertion(c) = "already registered" =>
           /\ index_[c] < 0
           /\ \E d \in Channels :
                d # c /\ life[d] = "freed" /\ events_[d] # {} /\ FdOf[d] = FdOf[c]
  BY <1>2, AssertionsThatFail, Zenon
<1>4. life' \in [Channels -> {"none", "live", "freed"}]
      /\ events_' \in [Channels -> SUBSET {"read", "write"}]
  BY <1>1, <1>2, UpdatingKeeps DEF PollerTypeOK
<1>5. CASE aborted' # "none"
  <2>1. UNCHANGED <<index_, pollfds_, channels_, shifted>>
    BY <1>5 DEF UpdateChannel
  <2>2. PollerTypeOK'
    BY <1>2, <1>3, <1>4, <2>1, Zenon DEF PollerTypeOK
  <2>3. SlotsFailOnlyAfterShift'
    BY <1>2, <1>3, <2>1, Zenon DEF SlotsFailOnlyAfterShift
  <2>4. ClashOnlyWithDestroyed'
    <3>1. aborted' # "other channel"
      BY <1>2, <1>3, Zenon
    <3>2. ASSUME aborted' = "already registered"
          PROVE  \E d, e \in Channels :
                   /\ life'[d] = "freed" /\ events_'[d] # {}
                   /\ life'[e] = "live" /\ index_'[e] < 0 /\ FdOf[e] = FdOf[d]
      <4>1. PICK d \in Channels :
              d # c /\ life[d] = "freed" /\ events_[d] # {} /\ FdOf[d] = FdOf[c]
        BY <1>2, <1>3, <3>2, Zenon
      <4>2. events_'[d] = events_[d]
        BY <1>1, <4>1, UpdatingKeeps
      <4>3. index_[c] < 0 /\ index_' = index_ /\ life' = life
        BY <1>2, <1>3, <2>1, <3>2, Zenon
      <4> QED
        BY <4>1, <4>2, <4>3, Zenon
    <3> QED
      BY <3>1, <3>2, Zenon DEF ClashOnlyWithDestroyed
  <2> QED
    BY <1>5, <2>2, <2>3, <2>4 DEF IInv
<1>6. CASE aborted' = "none"
  <2>1. /\ pollfds_' \in Seq(Slot) /\ index_' \in [Channels -> Int]
        /\ channels_' \in [DOMAIN channels_' -> Channels] /\ shifted' \in BOOLEAN
        /\ Agree'
    <3>1. CASE index_[c] < 0
      <4>1. events # {}
        BY ONLY <3>1, index_[c] < 0 => events # {}
      <4>2. AddSlot(c, events)
        BY <1>2, <1>6, <3>1 DEF UpdateChannel
      <4>3. FdOf[c] \notin DOMAIN channels_
        BY <1>2, <1>6, <3>1 DEF FailedAssertion, Registered
      <4> QED
        BY <1>1, <4>1, <4>2, <4>3, AddSlotAgrees, UpdatingOpens
    <3>2. CASE index_[c] >= 0
      <4>1. PICK k : OwnSlot(c, k)
        <5>1. ~(index_[c] < 0) /\ Len(pollfds_) \in Nat
          BY <1>2, <3>2, Types
        <5>2. /\ FdOf[c] \in DOMAIN channels_ /\ channels_[FdOf[c]] = c
              /\ ~(index_[c] >= Len(pollfds_)) /\ pollfds_[index_[c] + 1].fd = FdOf[c]
          BY <1>2, <1>6, <5>1 DEF FailedAssertion, Registered
        <5>3. index_[c] + 1 <= Len(pollfds_)
          BY <1>2, <5>1, <5>2
        <5> QED
          BY <3>2, <5>2, <5>3 DEF OwnSlot
      <4>2. (events = {} => EraseSlot(c)) /\ (events # {} => SetSlot(c, events))
        <5>1. ~(index_[c] < 0)
          BY <1>2, <3>2
        <5> QED
          BY ONLY <1>6, <5>1, UpdateChannel(c, events), Zenon DEF UpdateChannel
      <4>3. CASE events = {}
        <5>1. EraseSlot(c) /\ Updating(c, {})
          BY <1>1, <4>2, <4>3
        <5>2. index_' = index_
          BY <5>1 DEF EraseSlot
        <5> QED
          BY <1>2, <4>1, <5>1, <5>2, EraseSlotAgrees
      <4>4. CASE events # {}
        <5>1. SetSlot(c, events)
          BY <4>2, <4>4
        <5>2. UNCHANGED <<index_, channels_, shifted>>
          BY <5>1 DEF SetSlot
        <5>3. channels_ \in [DOMAIN channels_ -> Channels]
          BY <1>2 DEF PollerTypeOK
        <5> QED
          BY <1>1, <1>2, <4>1, <4>4, <5>1, <5>2, <5>3, SetSlotAgrees, SMTT(30)
      <4> QED
        BY <4>3, <4>4
    <3>3. index_[c] < 0 \/ index_[c] >= 0
      BY <1>2
    <3> QED
      BY ONLY <3>1, <3>2, <3>3
  <2>2. PollerTypeOK'
    BY <1>4, <1>6, <2>1 DEF PollerTypeOK, Slot
  <2>3. ClashOnlyWithDestroyed' /\ SlotsFailOnlyAfterShift'
    BY <1>6 DEF ClashOnlyWithDestroyed, SlotsFailOnlyAfterShift
  <2> QED
    BY <2>1, <2>2, <2>3 DEF IInv
<1> QED
  BY <1>5, <1>6

(* A channel comes or goes: only its life changes. *)
LEMMA LifeKeepsInv ==
  ASSUME IInv, NEW c \in Channels, Construct(c) \/ Destroy(c)
  PROVE  IInv'
<1>1. /\ PollerTypeOK /\ Agree /\ aborted = "none"
      /\ UNCHANGED <<events_, index_, pollfds_, channels_, aborted, shifted>>
      /\ life \in [Channels -> {"none", "live", "freed"}]
  BY Zenon DEF IInv, Construct, Destroy, Usable, PollerTypeOK
<1>2. /\ life' \in [Channels -> {"none", "live", "freed"}] /\ life'[c] \in {"live", "freed"}
      /\ \A d \in Channels : d # c => life'[d] = life[d]
  BY <1>1 DEF Construct, Destroy
<1>3. PollerTypeOK' /\ ClashOnlyWithDestroyed' /\ SlotsFailOnlyAfterShift'
  BY <1>1, <1>2 DEF IInv, PollerTypeOK, ClashOnlyWithDestroyed, SlotsFailOnlyAfterShift
<1>4. Owners'
  BY <1>1, <1>2 DEF Agree, Owners, Construct, Destroy
<1>5. SlotsHaveChannels'
  <2> SUFFICES ASSUME NEW i \in 1..Len(pollfds_)
               PROVE  /\ pollfds_[i].fd \in DOMAIN channels_
                      /\ Belongs(i, channels_[pollfds_[i].fd])'
    BY <1>1 DEF SlotsHaveChannels
  <2>1. PICK d : d = channels_[pollfds_[i].fd]
    OBVIOUS
  <2>2. pollfds_[i].fd \in DOMAIN channels_ /\ Belongs(i, d) /\ d \in Channels
    BY <1>1, <2>1 DEF Agree, SlotsHaveChannels, PollerTypeOK
  <2>3. life'[d] # "none"
    BY <1>2, <2>2 DEF Belongs
  <2>4. (channels_[pollfds_[i].fd])' = d
    BY <1>1, <2>1
  <2> QED
    BY <1>1, <2>2, <2>3, <2>4 DEF Belongs
<1>6. SlotsDistinct' /\ EntriesHaveSlots' /\ EventsRegistered'
  BY <1>1 DEF Agree, SlotsDistinct, EntriesHaveSlots, EventsRegistered
<1>7. OwnEntries'
  <2> SUFFICES ASSUME NEW d \in Channels, index_[d] >= 0
               PROVE  /\ life'[d] # "none"
                      /\ life'[d] = "live" /\ FdOf[d] \in DOMAIN channels_
                           => channels_[FdOf[d]] = d
    BY <1>1 DEF OwnEntries
  <2>1. /\ life[d] # "none"
        /\ life[d] = "live" /\ FdOf[d] \in DOMAIN channels_ => channels_[FdOf[d]] = d
    BY <1>1 DEF Agree, OwnEntries
  <2>2. life'[d] = life[d] \/ life'[d] = "freed"
    BY <1>1, <1>2, <2>1 DEF Construct, Destroy
  <2> QED
    BY <2>1, <2>2
<1> QED
  BY <1>3, <1>4, <1>5, <1>6, <1>7 DEF IInv, Agree

(* A channel is constructed and registered in one step, and no other was   *)
(* destroyed registered.                                                   *)
LEMMA OpenKeepsInv ==
  ASSUME IInv, aborted = "none", NEW c \in Channels, index_[c] < 0,
         NEW events \in SUBSET {"read", "write"}, events # {},
         \A d \in Channels : life[d] = "live" => FdOf[d] # FdOf[c],
         \A d \in Channels : life[d] = "freed" => events_[d] = {},
         life' = [life EXCEPT ![c] = "live"], UpdateChannel(c, events)
  PROVE  IInv' /\ aborted' = "none" /\ AddSlot(c, events)
<1>1. /\ PollerTypeOK /\ Agree /\ index_[c] \in Int
      /\ events_' = [events_ EXCEPT ![c] = events] /\ aborted' = FailedAssertion(c)
  BY Types DEF IInv, UpdateChannel
<1>2. Opening(c, events)
  BY <1>1 DEF Opening
<1>3. FdOf[c] \notin DOMAIN channels_
  <2>1. \A d \in Channels : life[d] = "live" /\ FdOf[d] = FdOf[c] => d = c
    OBVIOUS
  <2> QED
    BY <1>1, <2>1, EntryLeftBehind
<1>4. aborted' = "none"
  BY <1>1, <1>3, Zenon DEF FailedAssertion, Registered
<1>5. AddSlot(c, events)
  BY <1>1, <1>4 DEF UpdateChannel
<1>6. /\ pollfds_' \in Seq(Slot) /\ index_' \in [Channels -> Int]
      /\ channels_' \in [DOMAIN channels_' -> Channels] /\ shifted' \in BOOLEAN
      /\ Agree'
  BY <1>2, <1>3, <1>5, AddSlotAgrees
<1>7. PollerTypeOK'
  BY <1>2, <1>4, <1>6, OpeningKeeps DEF PollerTypeOK, Slot
<1>8. ClashOnlyWithDestroyed' /\ SlotsFailOnlyAfterShift'
  BY <1>4 DEF ClashOnlyWithDestroyed, SlotsFailOnlyAfterShift
<1> QED
  BY <1>4, <1>5, <1>6, <1>7, <1>8 DEF IInv

(* A step that is none of the poller's. *)
LEMMA StutterKeepsInv ==
  ASSUME IInv, UNCHANGED pvars PROVE IInv'
<1>1. UNCHANGED <<life, events_, index_, pollfds_, channels_, aborted, shifted>>
  BY DEF pvars
<1>2. PollerTypeOK'
  BY <1>1, Zenon DEF IInv, PollerTypeOK
<1>3. Agree => Agree'
  <2>1. /\ SlotsDistinct => SlotsDistinct'
        /\ EntriesHaveSlots => EntriesHaveSlots'
        /\ SlotsHaveChannels => SlotsHaveChannels'
    BY ONLY <1>1 DEF SlotsDistinct, EntriesHaveSlots, SlotsHaveChannels, Belongs
  <2>2. /\ EventsRegistered => EventsRegistered'
        /\ Owners => Owners'
        /\ OwnEntries => OwnEntries'
    BY ONLY <1>1 DEF EventsRegistered, Owners, OwnEntries
  <2> QED
    BY ONLY <2>1, <2>2, Zenon DEF Agree
<1>4. ClashOnlyWithDestroyed' /\ SlotsFailOnlyAfterShift'
  BY <1>1, Zenon DEF IInv, ClashOnlyWithDestroyed, SlotsFailOnlyAfterShift
<1> QED
  BY <1>1, <1>2, <1>3, <1>4 DEF IInv

LEMMA InvHolds == PollerSpec => []IInv
<1>1. PollerInit => IInv
  <2> SUFFICES ASSUME PollerInit PROVE IInv
    OBVIOUS
  <2>1. Len(pollfds_) = 0 /\ DOMAIN channels_ = {} /\ 1..Len(pollfds_) = {}
    BY DEF PollerInit
  <2>2. pollfds_ \in Seq(Slot)
    BY DEF PollerInit
  <2>3. channels_ \in [DOMAIN channels_ -> Channels]
    BY <2>1 DEF PollerInit
  <2>4. PollerTypeOK
    <3>1. /\ life \in [Channels -> {"none", "live", "freed"}]
          /\ events_ \in [Channels -> SUBSET {"read", "write"}]
          /\ shifted \in BOOLEAN
      BY Zenon DEF PollerInit
    <3>2. index_ \in [Channels -> Int]
      <4>1. -1 \in Int
        OBVIOUS
      <4> QED
        BY ONLY <4>1, PollerInit, Zenon DEF PollerInit
    <3>3. aborted \in {"none", "already registered", "not registered",
                       "other channel", "slot range", "slot owner"}
      BY DEF PollerInit
    <3> QED
      BY ONLY <2>2, <2>3, <3>1, <3>2, <3>3, Zenon DEF PollerTypeOK, Slot
  <2>5. Agree
    <3>1. SlotsDistinct /\ EntriesHaveSlots /\ SlotsHaveChannels
      BY ONLY <2>1 DEF SlotsDistinct, EntriesHaveSlots, SlotsHaveChannels
    <3>2. \A c \in Channels : life[c] = "none" /\ events_[c] = {} /\ ~(index_[c] >= 0)
      <4>1. \A c \in Channels : life[c] = "none" /\ events_[c] = {} /\ index_[c] = -1
        BY Zenon DEF PollerInit
      <4>2. ~(-1 >= 0)
        OBVIOUS
      <4> QED
        BY ONLY <4>1, <4>2, Zenon
    <3>3. EventsRegistered /\ Owners /\ OwnEntries
      BY ONLY <3>2 DEF EventsRegistered, Owners, OwnEntries
    <3> QED
      BY ONLY <3>1, <3>3, Zenon DEF Agree
  <2> QED
    BY <2>4, <2>5 DEF PollerInit, IInv, ClashOnlyWithDestroyed, SlotsFailOnlyAfterShift
<1>2. IInv /\ PollerNext => IInv'
  <2> SUFFICES ASSUME IInv, NEW c \in Channels,
                      \/ Construct(c) \/ Destroy(c)
                      \/ EnableReading(c) \/ EnableWriting(c) \/ DisableWriting(c)
                      \/ DisbaleAll(c)
               PROVE  IInv'
    BY DEF PollerNext
  <2>1. events_[c] \in SUBSET {"read", "write"} /\ index_[c] \in Int
    BY Types, Zenon DEF IInv, PollerTypeOK
  <2>2. CASE Construct(c) \/ Destroy(c)
    BY <2>2, LifeKeepsInv
  <2>3. CASE EnableReading(c)
    BY <2>1, <2>3, UpdateKeepsInv DEF EnableReading, Usable
  <2>4. CASE EnableWriting(c)
    BY <2>1, <2>4, UpdateKeepsInv DEF EnableWriting, Usable
  <2>5. CASE DisableWriting(c)
    BY <2>1, <2>5, UpdateKeepsInv DEF DisableWriting, InUse, Usable
  <2>6. CASE DisbaleAll(c)
    BY <2>1, <2>6, UpdateKeepsInv DEF DisbaleAll, InUse, Usable
  <2> QED
    BY <2>2, <2>3, <2>4, <2>5, <2>6
<1>3. IInv /\ UNCHANGED pvars => IInv'
  BY StutterKeepsInv
<1> QED
  BY <1>1, <1>2, <1>3, PTL DEF PollerSpec

(* For any channels on any descriptors, destroyed registered or not, the   *)
(* slots, the map and the events_ agree until an assertion of              *)
(* UpdateChannel() fails: a slot leads to a destroyed channel only if that *)
(* channel did not disable its events.                                     *)
THEOREM PollSetRight == PollerSpec => []PollSetMatchesChannels
BY InvHolds, InvImplies, PTL

(* As descriptors are closed and used again, a registration meets the      *)
(* entry of another channel only if that channel was destroyed while it    *)
(* still asked for events, and only a first registration does.             *)
THEOREM RegistrationsSafe == PollerSpec => []ClashOnlyWithDestroyed
BY InvHolds, InvImplies, PTL

(* A slot assertion of UpdateChannel() fails only after an erase that has  *)
(* moved the slots of other channels: nothing else makes an index_ wrong.  *)
THEOREM IndicesRightUntilShift == PollerSpec => []SlotsFailOnlyAfterShift
BY InvHolds, InvImplies, PTL
=============================================================================
