------------------------- MODULE StockFactoryProofs -------------------------
(***************************************************************************)
(* Proofs about StockFactory, for any number of threads and keys: deleters *)
(* only use a factory that is there, no entry outlives its Stock, and a    *)
(* held Stock is found unless a late deleter erased its entry.             *)
(***************************************************************************)
EXTENDS StockFactory, TLAPS

Pointers == Stocks \cup {NoStock}

StockTypeOK ==
  /\ stocks_ \in [Keys -> Pointers] /\ key_ \in [Stocks -> Keys]
  /\ held \in [Threads -> Pointers] /\ doomed \in [Threads -> Pointers]
  /\ pc \in [Threads -> {"idle", "lock", "erase", "delete", "unlock"}]
  /\ owners \subseteq Threads /\ facts \subseteq Threads

(* What the three properties need to be inductive: a thread's place in the *)
(* deleter says what it deletes and whether it holds the factory, and the  *)
(* Stock of an entry has the entry's key.                                  *)
PlacesAgree ==
  \A t \in Threads :
    /\ doomed[t] # NoStock <=> pc[t] \in {"lock", "erase", "delete"}
    /\ pc[t] = "erase" => t \in facts

EntryHasKey == \A k \in Keys : stocks_[k] # NoStock => key_[stocks_[k]] = k

IInv ==
  /\ StockTypeOK /\ PlacesAgree /\ EntryHasKey
  /\ DeleterHasFactory /\ EntriesDisappear /\ HeldStocksFound

LEMMA NoStockIsNone == NoStock \notin Stocks
BY DEF NoStock, Stocks

LEMMA InitHolds == Init => IInv
BY StockAssumption, NoStockIsNone
   DEF Init, IInv, StockTypeOK, PlacesAgree, EntryHasKey, DeleterHasFactory,
       EntriesDisappear, HeldStocksFound, Alive, SomeKey, Pointers

(* get() of a Stock that is cached changes who holds it only. *)
LEMMA GetCached ==
  ASSUME IInv, NEW t \in Threads, NEW k \in Keys, NEW s \in Stocks,
         get(t, k, s), s = stocks_[k], Holders(s) # {}, UNCHANGED <<stocks_, key_>>
  PROVE  IInv'
<1> USE NoStockIsNone DEF IInv, Pointers
<1>1. StockTypeOK' /\ PlacesAgree' /\ EntryHasKey' /\ DeleterHasFactory'
  BY DEF get, StockTypeOK, PlacesAgree, EntryHasKey, DeleterHasFactory, Alive
<1>2. EntriesDisappear'
  BY DEF get, StockTypeOK, EntriesDisappear, Holders
<1>3. HeldStocksFound'
  BY DEF get, StockTypeOK, HeldStocksFound, EntryHasKey, Alive
<1> QED
  BY <1>1, <1>2, <1>3

(* get() of a new Stock replaces an entry no thread holds the Stock of. *)
LEMMA GetNew ==
  ASSUME IInv, NEW t \in Threads, NEW k \in Keys, NEW s \in Stocks,
         get(t, k, s), stocks_[k] = NoStock \/ Holders(stocks_[k]) = {},
         Unused(s), stocks_' = Entry(k, s), key_' = [key_ EXCEPT ![s] = k]
  PROVE  IInv'
<1> USE NoStockIsNone DEF IInv, Pointers, Entry
<1>1. StockTypeOK' /\ PlacesAgree' /\ DeleterHasFactory'
  BY DEF get, StockTypeOK, PlacesAgree, DeleterHasFactory, Alive
<1>2. EntryHasKey'
  BY DEF StockTypeOK, EntryHasKey, Unused
<1>3. EntriesDisappear'
  BY DEF get, StockTypeOK, EntriesDisappear, Holders, Unused
<1>4. HeldStocksFound'
  BY DEF get, StockTypeOK, HeldStocksFound, Holders, Unused, Alive
<1> QED
  BY <1>1, <1>2, <1>3, <1>4

LEMMA GetPreserves ==
  ASSUME IInv, NEW t \in Threads, NEW k \in Keys, NEW s \in Stocks, get(t, k, s)
  PROVE  IInv'
BY GetCached, GetNew, Zenon DEF get, NewStock

(* The last owner's Stock stays in its entry until the deleter erases it. *)
LEMMA ReleasePreserves ==
  ASSUME IInv, NEW t \in Threads, Release(t)
  PROVE  IInv'
<1> USE NoStockIsNone DEF IInv, Pointers
<1>1. StockTypeOK'
  BY DEF Release, StockTypeOK
<1>2. PlacesAgree' /\ EntryHasKey' /\ DeleterHasFactory'
  BY DEF Release, StockTypeOK, PlacesAgree, EntryHasKey, DeleterHasFactory, Alive
<1>3. EntriesDisappear'
  BY DEF Release, StockTypeOK, PlacesAgree, EntriesDisappear, Holders
<1>4. HeldStocksFound'
  BY DEF Release, StockTypeOK, HeldStocksFound, Holders, Alive
<1> QED
  BY <1>1, <1>2, <1>3, <1>4

(* With no factory there is no entry the skipped deleteSock() would miss. *)
LEMMA LockPreserves ==
  ASSUME IInv, NEW t \in Threads, LockFactory(t)
  PROVE  IInv'
<1> USE NoStockIsNone DEF IInv, Pointers
<1>1. StockTypeOK' /\ PlacesAgree' /\ EntryHasKey' /\ DeleterHasFactory'
  BY DEF LockFactory, StockTypeOK, PlacesAgree, EntryHasKey, DeleterHasFactory, Alive
<1>2. EntriesDisappear'
  BY DEF LockFactory, StockTypeOK, DeleterHasFactory, EntriesDisappear, Holders, Alive
<1>3. HeldStocksFound'
  BY DEF LockFactory, StockTypeOK, HeldStocksFound, Alive
<1> QED
  BY <1>1, <1>2, <1>3

(* deleteSock() can only erase the entry of the Stock it deletes, or of a  *)
(* Stock that is then an orphan.                                           *)
LEMMA deleteSockPreserves ==
  ASSUME IInv, NEW t \in Threads, deleteSock(t)
  PROVE  IInv'
<1> USE NoStockIsNone DEF IInv, Pointers
<1>0. doomed[t] \in Stocks /\ key_[doomed[t]] \in Keys
  BY DEF deleteSock, StockTypeOK, PlacesAgree
<1>1. StockTypeOK' /\ PlacesAgree' /\ EntryHasKey' /\ DeleterHasFactory'
  BY <1>0 DEF deleteSock, StockTypeOK, PlacesAgree, EntryHasKey, DeleterHasFactory, Alive
<1>2. EntriesDisappear'
  BY <1>0 DEF deleteSock, StockTypeOK, EntryHasKey, EntriesDisappear, Holders
<1>3. HeldStocksFound'
  BY <1>0 DEF deleteSock, StockTypeOK, HeldStocksFound, Holders, Alive
<1> QED
  BY <1>1, <1>2, <1>3

LEMMA DeletePreserves ==
  ASSUME IInv, NEW t \in Threads, DeleteStock(t)
  PROVE  IInv'
<1> USE NoStockIsNone DEF IInv, Pointers
<1>1. StockTypeOK' /\ PlacesAgree' /\ EntryHasKey' /\ DeleterHasFactory'
  BY DEF DeleteStock, StockTypeOK, PlacesAgree, EntryHasKey, DeleterHasFactory, Alive
<1>2. EntriesDisappear' /\ HeldStocksFound'
  BY DEF DeleteStock, StockTypeOK, EntriesDisappear, HeldStocksFound, Holders, Alive
<1> QED
  BY <1>1, <1>2

(* A thread lets go of the factory only where its deleter does not use it. *)
LEMMA WithoutPreserves ==
  ASSUME IInv, NEW t \in Threads, UnlockFactory(t) \/ DropFactory(t)
  PROVE  IInv'
<1> USE NoStockIsNone DEF IInv, Pointers
<1>1. StockTypeOK' /\ PlacesAgree' /\ EntryHasKey'
  BY DEF UnlockFactory, DropFactory, Without, StockTypeOK, PlacesAgree, EntryHasKey
<1>2. DeleterHasFactory'
  <2>1. \A u \in Threads : pc'[u] = "erase" => u \in facts'
    BY <1>1 DEF PlacesAgree
  <2> QED
    BY <2>1 DEF UnlockFactory, DropFactory, Without, DeleterHasFactory, Alive
<1>3. EntriesDisappear' /\ HeldStocksFound'
  BY DEF UnlockFactory, DropFactory, Without, StockTypeOK, EntriesDisappear,
         HeldStocksFound, Holders, Alive
<1> QED
  BY <1>1, <1>2, <1>3

(* In every reachable state of any number of threads that get and release  *)
(* Stocks of any number of keys, deleters have a factory to erase from, no *)
(* entry outlives its Stock, and a held Stock is the one get() returns     *)
(* unless a late deleter made it an orphan.                                *)
THEOREM StocksSafe ==
  Spec => [](DeleterHasFactory /\ EntriesDisappear /\ HeldStocksFound)
<1>1. IInv /\ [Next]_vars => IInv'
  <2> SUFFICES ASSUME IInv, [Next]_vars PROVE IInv'
    OBVIOUS
  <2>1. CASE UNCHANGED vars
    BY <2>1 DEF vars, IInv, StockTypeOK, PlacesAgree, EntryHasKey,
       DeleterHasFactory, EntriesDisappear, HeldStocksFound, Holders, Alive
  <2>2. ASSUME NEW t \in Threads, Deleter(t) PROVE IInv'
    BY <2>2, LockPreserves, deleteSockPreserves, DeletePreserves,
       WithoutPreserves DEF Deleter
  <2> QED
    BY <2>1, <2>2, GetPreserves, ReleasePreserves, WithoutPreserves DEF Next
<1> QED
  BY InitHolds, <1>1, PTL DEF Spec, IInv
(* A deleter that got hold of the factory can count on it to the end of    *)
(* deleteSock(), whichever threads drop their pointers to it meanwhile.    *)
THEOREM DeletersHaveFactory == Spec => []DeleterHasFactory
BY StocksSafe, PTL

(* When every Stock of a key is gone so is the key's entry, in whatever    *)
(* order their deleters get to the map.                                    *)
THEOREM NoEntryOutlivesStock == Spec => []EntriesDisappear
BY StocksSafe, PTL
=============================================================================
