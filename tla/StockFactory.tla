---------------------------- MODULE StockFactory ----------------------------
(***************************************************************************)
(* StockFactory (examples/callback/weak.cc): a cache of shared objects     *)
(* that does not keep them alive.  stocks_ maps keys to weak pointers; a   *)
(* Stock is deleted with its last shared pointer, by a deleter that erases *)
(* its key from the factory, if the factory is still there.                *)
(*                                                                         *)
(* Threads share the factory: get() and deleteSock() are one step each,    *)
(* under mutex_, but the count of a Stock reaches 0 outside of it.  A      *)
(* thread holds at most one Stock.  A Stock is a number, used again when   *)
(* no pointer to it is left.                                               *)
(*                                                                         *)
(* pc, of a thread: "idle"; in a deleter: "lock" (factory.lock()), "erase" *)
(* (deleteSock()), "delete", "unlock" (the end of the deleter's fact).     *)
(***************************************************************************)
EXTENDS Naturals, FiniteSets

CONSTANTS Threads, Keys

ASSUME StockAssumption ==
  IsFiniteSet(Threads) /\ IsFiniteSet(Keys) /\ Keys # {}

VARIABLES stocks_,  \* the Stock of each key's entry, or NoStock if it has none
          key_,     \* of each Stock
          held,     \* the Stock a thread holds, or NoStock
          doomed,   \* the Stock a thread's deleter was called for, or NoStock
          pc,
          owners,   \* threads that hold the factory
          facts,    \* threads whose deleter holds it
          orphans   \* Stocks erased from stocks_ while they were held

vars == <<stocks_, key_, held, doomed, pc, owners, facts, orphans>>

NoStock == 0
SomeKey == {CHOOSE k \in Keys : TRUE}
Stocks == 1..(2 * Cardinality(Threads) + Cardinality(Keys))

Holders(s) == {t \in Threads : held[t] = s}
Alive == owners \cup facts # {}

Init ==
  /\ stocks_ = [k \in Keys |-> NoStock] /\ key_ \in [Stocks -> SomeKey]
  /\ held = [t \in Threads |-> NoStock] /\ doomed = held
  /\ pc = [t \in Threads |-> "idle"]
  /\ owners = Threads /\ facts = {} /\ orphans = {}

-----------------------------------------------------------------------------
(* A Stock no pointer, strong or weak, is left to; the first one is used.  *)
Unused(s) ==
  /\ \A k \in Keys : stocks_[k] # s
  /\ \A t \in Threads : held[t] # s /\ doomed[t] # s

NewStock(s) == Unused(s) /\ \A r \in Stocks : r < s => ~Unused(r)

(* ptr = ret *)
Entry_IfAbsent(k, s) ==
  IF stocks_[k] = NoStock THEN [stocks_ EXCEPT ![k] = s] ELSE stocks_
Entry(k, s) == [stocks_ EXCEPT ![k] = s]

(* StockFactory::get: the Stock of the entry if lock() gets hold of it. *)
get(t, k, s) ==
  /\ pc[t] = "idle" /\ t \in owners /\ held[t] = NoStock
  /\ \/ s = stocks_[k] /\ Holders(s) # {} /\ UNCHANGED <<stocks_, key_>>
     \/ /\ stocks_[k] = NoStock \/ Holders(stocks_[k]) = {}
        /\ NewStock(s)
        /\ stocks_' = Entry(k, s) /\ key_' = [key_ EXCEPT ![s] = k]
  /\ held' = [held EXCEPT ![t] = s]
  /\ UNCHANGED <<doomed, pc, owners, facts, orphans>>

(* A shared_ptr<Stock> ends.  The last one calls the deleter. *)
Release(t) ==
  LET s == held[t]
  IN  /\ pc[t] = "idle" /\ s # NoStock
      /\ held' = [held EXCEPT ![t] = NoStock]
      /\ IF Holders(s) = {t}
         THEN /\ pc' = [pc EXCEPT ![t] = "lock"]
              /\ doomed' = [doomed EXCEPT ![t] = s]
              /\ orphans' = orphans \ {s}
         ELSE UNCHANGED <<pc, doomed, orphans>>
      /\ UNCHANGED <<stocks_, key_, owners, facts>>

(* The last pointer to the factory takes its stocks_ with it. *)
Without(o, f) ==
  /\ owners' = o /\ facts' = f
  /\ stocks_' = IF o \cup f = {} THEN [k \in Keys |-> NoStock] ELSE stocks_

LockFactory_Raw(t) ==
  /\ pc[t] = "lock" /\ pc' = [pc EXCEPT ![t] = "erase"]
  /\ UNCHANGED <<stocks_, key_, held, doomed, owners, facts, orphans>>

(* The deleter: fact = factory.lock(). *)
LockFactory(t) ==
  /\ pc[t] = "lock"
  /\ pc' = [pc EXCEPT ![t] = IF Alive THEN "erase" ELSE "delete"]
  /\ facts' = IF Alive THEN facts \cup {t} ELSE facts
  /\ UNCHANGED <<stocks_, key_, held, doomed, owners, orphans>>

(* deleteSock() erases the key, whatever Stock its entry is of by now. *)
deleteSock_Keep(t) ==
  /\ pc[t] = "erase" /\ pc' = [pc EXCEPT ![t] = "delete"]
  /\ UNCHANGED <<stocks_, key_, held, doomed, owners, facts, orphans>>

deleteSock(t) ==
  LET k == key_[doomed[t]]
  IN  /\ pc[t] = "erase" /\ pc' = [pc EXCEPT ![t] = "delete"]
      /\ stocks_' = [stocks_ EXCEPT ![k] = NoStock]
      /\ orphans' = IF stocks_[k] # NoStock /\ Holders(stocks_[k]) # {}
                    THEN orphans \cup {stocks_[k]} ELSE orphans
      /\ UNCHANGED <<key_, held, doomed, owners, facts>>

DeleteStock(t) ==
  /\ pc[t] = "delete"
  /\ doomed' = [doomed EXCEPT ![t] = NoStock]
  /\ pc' = [pc EXCEPT ![t] = IF t \in facts THEN "unlock" ELSE "idle"]
  /\ UNCHANGED <<stocks_, key_, held, owners, facts, orphans>>

(* The deleter's fact ends. *)
UnlockFactory(t) ==
  /\ pc[t] = "unlock" /\ pc' = [pc EXCEPT ![t] = "idle"]
  /\ Without(owners, facts \ {t})
  /\ UNCHANGED <<key_, held, doomed, orphans>>

(* A thread's shared_ptr<StockFactory> ends. *)
DropFactory(t) ==
  /\ pc[t] = "idle" /\ t \in owners
  /\ Without(owners \ {t}, facts)
  /\ UNCHANGED <<key_, held, doomed, pc, orphans>>

Deleter(t) == LockFactory(t) \/ deleteSock(t) \/ DeleteStock(t) \/ UnlockFactory(t)

Next ==
  \E t \in Threads :
    Deleter(t) \/ Release(t) \/ DropFactory(t) \/ \E k \in Keys, s \in Stocks : get(t, k, s)

Spec == Init /\ [][Next]_vars

-----------------------------------------------------------------------------
(* Properties *)

(* A deleter that erases has a factory to erase from, also when all others *)
(* let go of it meanwhile; the map never outlives it.                      *)
DeleterHasFactory ==
  /\ \A t \in Threads : pc[t] = "erase" => Alive
  /\ ~Alive => \A k \in Keys : stocks_[k] = NoStock

(* No entry outlives its Stock: the entry's Stock is held, or its deleter  *)
(* has not got to the map yet.  When all are deleted, size() is 0 (the     *)
(* second test of weak.cc), whatever deleters raced.                       *)
EntriesDisappear ==
  \A k \in Keys :
    \/ stocks_[k] = NoStock \/ Holders(stocks_[k]) # {}
    \/ \E t \in Threads : doomed[t] = stocks_[k] /\ pc[t] \in {"lock", "erase"}

(* A Stock that is held is the one get() returns for its key, while there  *)
(* is a factory, unless a deleter of an earlier Stock of the key came      *)
(* after the get() that made it and erased the new entry.                  *)
HeldStocksFound ==
  \A t \in Threads :
    held[t] # NoStock /\ Alive /\ held[t] \notin orphans =>
      stocks_[key_[held[t]]] = held[t]

(* Two users of a key share one Stock: "EXPECT_EQ(ibm, ibm2)"              *)
(* (weak.cc:120).                                                          *)
OneStockPerKey ==
  \A t, u \in Threads :
    NoStock \notin {held[t], held[u]} /\ key_[held[t]] = key_[held[u]]
      => held[t] = held[u]
=============================================================================
