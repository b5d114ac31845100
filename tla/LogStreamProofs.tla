--------------------------- MODULE LogStreamProofs --------------------------
(***************************************************************************)
(* Proofs about LogStream: Slice::compare is a total order on slices of    *)
(* any size, an entry says what was inserted into it, for integer types of *)
(* any width and statements of any length, and two numbers of a type it    *)
(* shows in full have different texts.                                     *)
(***************************************************************************)
EXTENDS LogStream, SequenceTheorems, WellFoundedInduction, TLAPS

(* Induction goes by the least counterexample. *)
LEMMA LeastNatural ==
  ASSUME NEW T, T \subseteq Nat, T # {}
  PROVE  \E m \in T : \A k \in T : m <= k
<1> DEFINE R == OpToRel(<, Nat)
<1>1. IsWellFoundedOn(R, Nat)
  BY NatLessThanWellFounded, Zenon
<1>2. \A k, m \in Nat : <<k, m>> \in R <=> k < m
  BY DEF OpToRel
<1> HIDE DEF R
<1>3. PICK m \in T : \A k \in T : ~(<<k, m>> \in R)
  BY <1>1, WFMin, Zenon
<1>4. \A k \in T : m <= k
  <2> SUFFICES ASSUME NEW k \in T PROVE m <= k
    OBVIOUS
  <2>1. k \in Nat /\ m \in Nat
    OBVIOUS
  <2>2. ~(k < m)
    BY <1>2, <1>3, <2>1, Zenon
  <2> QED
    BY <2>1, <2>2
<1> QED
  BY <1>4

-----------------------------------------------------------------------------
(* Slice::compare is an order. *)

(* a and b have the same first n bytes. *)
Agree(a, b, n) == \A i \in 1..n : a[i] = b[i]

(* a is less than b at place k, the first where they differ. *)
LessAt(a, b, k) ==
  k <= Len(a) /\ k <= Len(b) /\ Agree(a, b, k - 1) /\ a[k] < b[k]

(* The order of words in a dictionary. *)
Less(a, b) ==
  \/ Len(a) < Len(b) /\ Agree(a, b, Len(a))
  \/ \E k \in Nat \ {0} : LessAt(a, b, k)

(* memcmp() looks for the first difference. *)
LEMMA memcmpIs ==
  ASSUME NEW a \in Seq(Nat), NEW b \in Seq(Nat), NEW n \in Nat,
         n <= Len(a), n <= Len(b)
  PROVE  \/ Agree(a, b, n) /\ memcmp(a, b, n) = 0
         \/ \E k \in 1..n : /\ Agree(a, b, k - 1) /\ a[k] # b[k]
                            /\ memcmp(a, b, n) = a[k] - b[k]
<1> DEFINE Differ == {i \in 1..n : a[i] # b[i]}
           first  == CHOOSE i \in Differ : \A j \in Differ : i <= j
<1>1. memcmp(a, b, n) = IF Differ = {} THEN 0 ELSE a[first] - b[first]
  BY DEF memcmp
<1>2. CASE Differ = {}
  BY <1>1, <1>2, Zenon DEF Agree
<1>3. CASE Differ # {}
  <2>1. Differ \subseteq Nat
    OBVIOUS
  <2>2. \E i \in Differ : \A j \in Differ : i <= j
    BY ONLY <1>3, <2>1, LeastNatural, Zenon
  <2>3. first \in Differ /\ \A j \in Differ : first <= j
    BY ONLY <2>2, Zenon
  <2> HIDE DEF first
  <2>4. Agree(a, b, first - 1)
    BY <2>3 DEF Agree
  <2>5. /\ first \in 1..n /\ a[first] # b[first]
        /\ memcmp(a, b, n) = a[first] - b[first]
    BY <1>1, <1>3, <2>3, Zenon
  <2> QED
    BY ONLY <2>4, <2>5, Zenon
<1> QED
  BY <1>2, <1>3, Zenon

LEMMA LessIrreflexive ==
  ASSUME NEW a \in Seq(Nat), NEW b \in Seq(Nat), Less(a, b)
  PROVE  a # b /\ ~Less(b, a)
<1>1. Len(a) \in Nat /\ Len(b) \in Nat
  OBVIOUS
<1>2. \A i \in 1..Len(a) : a[i] \in Nat
  OBVIOUS
<1>3. \A i \in 1..Len(b) : b[i] \in Nat
  OBVIOUS
<1>4. a # b
  BY <1>1, <1>2, <1>3 DEF Less, LessAt
<1>5. ASSUME Len(b) < Len(a), Agree(b, a, Len(b)) PROVE FALSE
  BY <1>1, <1>2, <1>3, <1>5 DEF Less, LessAt, Agree
<1>6. ASSUME NEW k \in Nat \ {0}, LessAt(b, a, k) PROVE FALSE
  <2>1. k \in 1..Len(a) /\ k \in 1..Len(b) /\ b[k] < a[k]
    BY <1>1, <1>6 DEF LessAt
  <2>2. CASE Len(a) < Len(b) /\ Agree(a, b, Len(a))
    BY <1>2, <1>3, <2>1, <2>2 DEF Agree
  <2>3. ASSUME NEW j \in Nat \ {0}, LessAt(a, b, j) PROVE FALSE
    <3>1. j \in 1..Len(a) /\ j \in 1..Len(b) /\ a[j] < b[j]
      BY <1>1, <2>3 DEF LessAt
    <3>2. j < k => a[j] = b[j]
      BY <1>6 DEF LessAt, Agree
    <3>3. k < j => a[k] = b[k]
      BY <2>3 DEF LessAt, Agree
    <3>4. a[j] \in Nat /\ b[j] \in Nat /\ a[k] \in Nat /\ b[k] \in Nat
      BY <1>2, <1>3, <2>1, <3>1, Zenon
    <3> QED
      BY ONLY j \in Nat \ {0}, k \in Nat \ {0}, <2>1, <3>1, <3>2, <3>3, <3>4, SMTT(30)
  <2> QED
    BY <2>2, <2>3 DEF Less
<1> QED
  BY <1>4, <1>5, <1>6 DEF Less

LEMMA LessTransitive ==
  ASSUME NEW a \in Seq(Nat), NEW b \in Seq(Nat), NEW c \in Seq(Nat),
         Less(a, b), Less(b, c)
  PROVE  Less(a, c)
<1>1. Len(a) \in Nat /\ Len(b) \in Nat /\ Len(c) \in Nat
  OBVIOUS
<1>2. /\ \A i \in 1..Len(a) : a[i] \in Nat
      /\ \A i \in 1..Len(b) : b[i] \in Nat
      /\ \A i \in 1..Len(c) : c[i] \in Nat
  OBVIOUS
<1>3. CASE Len(a) < Len(b) /\ Agree(a, b, Len(a))
  <2>1. CASE Len(b) < Len(c) /\ Agree(b, c, Len(b))
    BY <1>1, <1>3, <2>1 DEF Less, Agree
  <2>2. ASSUME NEW k \in Nat \ {0}, LessAt(b, c, k) PROVE Less(a, c)
    <3>1. CASE k <= Len(a)
      <4>1. LessAt(a, c, k)
        <5>1. /\ k <= Len(c) /\ b[k] < c[k]
              /\ \A i \in 1..(k - 1) : b[i] = c[i]
          BY <2>2, Zenon DEF LessAt, Agree
        <5>2. \A i \in 1..k : i \in 1..Len(a) /\ a[i] = b[i]
          <6>1. \A i \in 1..k : i \in 1..Len(a)
            BY ONLY <1>1, <3>1, k \in Nat \ {0}
          <6> QED
            BY ONLY <1>3, <6>1, Zenon DEF Agree
        <5>3. k \in 1..k /\ \A i \in 1..(k - 1) : i \in 1..k
          BY ONLY k \in Nat \ {0}
        <5>4. a[k] < c[k] /\ \A i \in 1..(k - 1) : a[i] = c[i]
          BY ONLY <5>1, <5>2, <5>3, Zenon
        <5> QED
          BY ONLY <3>1, <5>1, <5>4, Zenon DEF LessAt, Agree
      <4> QED
        BY <4>1, Zenon DEF Less
    <3>2. CASE Len(a) < k
      BY ONLY <1>1, <1>2, <1>3, <2>2, <3>2, k \in Nat \ {0} DEF Less, LessAt, Agree
    <3> QED
      BY <1>1, <3>1, <3>2
  <2> QED
    BY <2>1, <2>2 DEF Less
<1>4. ASSUME NEW j \in Nat \ {0}, LessAt(a, b, j) PROVE Less(a, c)
  <2>1. CASE Len(b) < Len(c) /\ Agree(b, c, Len(b))
    <3>1. LessAt(a, c, j)
      <4>1. /\ j <= Len(a) /\ j <= Len(b) /\ a[j] < b[j]
            /\ \A i \in 1..(j - 1) : a[i] = b[i]
        BY <1>4, Zenon DEF LessAt, Agree
      <4>2. j <= Len(c) /\ \A i \in 1..j : b[i] = c[i]
        BY ONLY <1>1, <2>1, <4>1, j \in Nat \ {0}, SMTT(30) DEF Agree
      <4>3. j \in 1..j /\ \A i \in 1..(j - 1) : i \in 1..j
        BY ONLY j \in Nat \ {0}
      <4>4. a[j] < c[j] /\ \A i \in 1..(j - 1) : a[i] = c[i]
        BY ONLY <4>1, <4>2, <4>3, Zenon
      <4> QED
        BY ONLY <4>1, <4>2, <4>4, Zenon DEF LessAt, Agree
    <3> QED
      BY <3>1, Zenon DEF Less
  <2>2. ASSUME NEW k \in Nat \ {0}, LessAt(b, c, k) PROVE Less(a, c)
    <3>1. /\ j \in 1..Len(a) /\ j \in 1..Len(b) /\ a[j] < b[j]
          /\ k \in 1..Len(b) /\ k \in 1..Len(c) /\ b[k] < c[k]
      BY <1>1, <1>4, <2>2 DEF LessAt
    <3>2. CASE j < k
      <4>1. b[j] = c[j]
        BY <2>2, <3>2 DEF LessAt, Agree
      <4>2. Agree(a, c, j - 1)
        BY <1>4, <2>2, <3>2 DEF LessAt, Agree
      <4>3. LessAt(a, c, j)
        BY <1>1, <3>1, <3>2, <4>1, <4>2 DEF LessAt
      <4> QED
        BY <4>3 DEF Less
    <3>3. CASE k < j
      <4>1. a[k] = b[k]
        BY <1>4, <3>3 DEF LessAt, Agree
      <4>2. Agree(a, c, k - 1)
        BY <1>4, <2>2, <3>3 DEF LessAt, Agree
      <4>3. LessAt(a, c, k)
        BY <1>1, <3>1, <3>3, <4>1, <4>2 DEF LessAt
      <4> QED
        BY <4>3 DEF Less
    <3>4. CASE j = k
      <4>1. Agree(a, c, j - 1)
        BY <1>4, <2>2, <3>4, Zenon DEF LessAt, Agree
      <4>2. a[j] < c[j]
        <5>1. a[j] \in Nat /\ b[j] \in Nat /\ c[j] \in Nat /\ b[j] < c[j]
          BY <1>2, <3>1, <3>4, Zenon
        <5> QED
          BY ONLY <3>1, <5>1, SMTT(30)
      <4>3. LessAt(a, c, j)
        BY <1>1, <3>1, <3>4, <4>1, <4>2 DEF LessAt
      <4> QED
        BY <4>3 DEF Less
    <3> QED
      BY <3>2, <3>3, <3>4
  <2> QED
    BY <2>1, <2>2 DEF Less
<1> QED
  BY <1>3, <1>4 DEF Less

(* compare() has the sign of that order. *)
LEMMA CompareSign ==
  ASSUME NEW a \in Seq(Nat), NEW b \in Seq(Nat)
  PROVE  /\ compare(a, b) \in Int
         /\ \/ compare(a, b) < 0 /\ Less(a, b)
            \/ compare(a, b) = 0 /\ a = b
            \/ compare(a, b) > 0 /\ Less(b, a)
<1> DEFINE n == IF Len(a) < Len(b) THEN Len(a) ELSE Len(b)
           r == memcmp(a, b, n)
<1>1. n \in Nat /\ n <= Len(a) /\ n <= Len(b)
  OBVIOUS
<1>2. compare(a, b) = CASE r # 0                    -> r
                        [] r = 0 /\ Len(a) < Len(b) -> -1
                        [] r = 0 /\ Len(a) > Len(b) -> 1
                        [] OTHER                    -> 0
  BY DEF compare
<1>3. \/ Agree(a, b, n) /\ r = 0
      \/ \E k \in 1..n : Agree(a, b, k - 1) /\ a[k] # b[k] /\ r = a[k] - b[k]
  <2> HIDE DEF n
  <2> QED
    BY <1>1, memcmpIs
<1> HIDE DEF r
<1>4. CASE Agree(a, b, n) /\ r = 0
  <2>1. CASE Len(a) < Len(b)
    BY <1>2, <1>4, <2>1 DEF Less
  <2>2. CASE Len(a) > Len(b)
    BY <1>2, <1>4, <2>2 DEF Less, Agree
  <2>3. CASE Len(a) = Len(b)
    <3>1. a = b
      BY <1>4, <2>3, SeqEqual DEF Agree
    <3> QED
      BY <1>2, <1>4, <2>3, <3>1
  <2> QED
    BY <2>1, <2>2, <2>3
<1>5. ASSUME NEW k \in 1..n, Agree(a, b, k - 1), a[k] # b[k], r = a[k] - b[k]
      PROVE  /\ compare(a, b) \in Int
             /\ \/ compare(a, b) < 0 /\ Less(a, b)
                \/ compare(a, b) > 0 /\ Less(b, a)
  <2>1. a[k] \in Nat /\ b[k] \in Nat /\ k \in Nat \ {0} /\ k <= Len(a) /\ k <= Len(b)
    BY <1>1, SMTT(30)
  <2>2. compare(a, b) = a[k] - b[k]
    <3>1. r # 0
      BY ONLY <1>5, <2>1
    <3> QED
      BY ONLY <1>2, <1>5, <3>1, Zenon
  <2>3. CASE a[k] < b[k]
    <3>1. LessAt(a, b, k)
      BY <1>5, <2>1, <2>3 DEF LessAt
    <3> QED
      BY <2>1, <2>2, <2>3, <3>1 DEF Less
  <2>4. CASE a[k] > b[k]
    <3>1. LessAt(b, a, k)
      BY <1>5, <2>1, <2>4 DEF LessAt, Agree
    <3> QED
      BY <2>1, <2>2, <2>4, <3>1 DEF Less
  <2> QED
    BY <1>5, <2>1, <2>3, <2>4
<1> QED
  BY <1>3, <1>4, <1>5

LEMMA CompareIs ==
  ASSUME NEW a \in Seq(Nat), NEW b \in Seq(Nat)
  PROVE  /\ compare(a, b) < 0 <=> Less(a, b)
         /\ compare(a, b) = 0 <=> a = b
         /\ compare(a, b) > 0 <=> Less(b, a)
<1>1. Less(a, b) => a # b /\ ~Less(b, a)
  BY LessIrreflexive
<1>2. Less(b, a) => a # b /\ ~Less(a, b)
  BY LessIrreflexive
<1> QED
  BY <1>1, <1>2, CompareSign

LEMMA EqualIs ==
  ASSUME NEW a \in Seq(Nat), NEW b \in Seq(Nat)
  PROVE  Equal(a, b) <=> a = b
<1>1. ASSUME Len(a) = Len(b)
      PROVE  memcmp(a, b, Len(a)) = 0 <=> \A i \in 1..Len(a) : a[i] = b[i]
  <2>1. /\ Len(a) \in Nat /\ Len(a) <= Len(a) /\ Len(a) <= Len(b)
        /\ \A i \in 1..Len(a) : a[i] \in Nat /\ b[i] \in Nat
    BY <1>1
  <2>2. \/ Agree(a, b, Len(a)) /\ memcmp(a, b, Len(a)) = 0
        \/ \E k \in 1..Len(a) : a[k] # b[k] /\ memcmp(a, b, Len(a)) = a[k] - b[k]
    BY <2>1, memcmpIs
  <2>3. \A k \in 1..Len(a) : a[k] # b[k] => a[k] - b[k] # 0
    BY ONLY <2>1, SMTT(30)
  <2> QED
    BY ONLY <2>2, <2>3, Zenon DEF Agree
<1> QED
  BY <1>1, SeqEqual DEF Equal

LEMMA StartsWithIs ==
  ASSUME NEW a \in Seq(Nat), NEW x \in Seq(Nat)
  PROVE  starts_with(a, x) <=> Len(x) <= Len(a) /\ Agree(x, a, Len(x))
<1>1. Len(a) \in Nat /\ Len(x) \in Nat /\ Len(x) <= Len(x)
  OBVIOUS
<1>2. /\ \A i \in 1..Len(a) : a[i] \in Nat
      /\ \A i \in 1..Len(x) : x[i] \in Nat
  OBVIOUS
<1>3. ASSUME Len(x) <= Len(a)
      PROVE  memcmp(a, x, Len(x)) = 0 <=> Agree(x, a, Len(x))
  <2>1. \A i \in 1..Len(x) : i \in 1..Len(a)
    BY <1>1, <1>3
  <2>2. \/ Agree(a, x, Len(x)) /\ memcmp(a, x, Len(x)) = 0
        \/ \E k \in 1..Len(x) : a[k] # x[k] /\ memcmp(a, x, Len(x)) = a[k] - x[k]
    BY <1>1, <1>3, memcmpIs
  <2>3. \A k \in 1..Len(x) : a[k] # x[k] => a[k] - x[k] # 0
    BY ONLY <1>2, <2>1
  <2> QED
    BY ONLY <2>2, <2>3, Zenon DEF Agree
<1> QED
  BY <1>1, <1>3 DEF starts_with

(* For slices of any length and any bytes, compare() is a total order      *)
(* whose equality is ==, and a slice does not precede what it starts with. *)
THEOREM CompareIsTotalOrder ==
  \A a, b, c \in Seq(Nat) :
    /\ compare(a, b) = 0 <=> Equal(a, b)
    /\ compare(a, b) < 0 <=> compare(b, a) > 0
    /\ Equal(a, b) <=> a = b
    /\ starts_with(a, b) => compare(b, a) <= 0
    /\ compare(a, b) < 0 /\ compare(b, c) < 0 => compare(a, c) < 0
<1> SUFFICES ASSUME NEW a \in Seq(Nat), NEW b \in Seq(Nat), NEW c \in Seq(Nat)
             PROVE  /\ compare(a, b) = 0 <=> Equal(a, b)
                    /\ compare(a, b) < 0 <=> compare(b, a) > 0
                    /\ Equal(a, b) <=> a = b
                    /\ starts_with(a, b) => compare(b, a) <= 0
                    /\ compare(a, b) < 0 /\ compare(b, c) < 0 => compare(a, c) < 0
  OBVIOUS
<1>1. Equal(a, b) <=> a = b
  BY EqualIs, Zenon
<1>2. /\ compare(a, b) = 0 <=> a = b
      /\ compare(a, b) < 0 <=> Less(a, b)
      /\ compare(b, a) > 0 <=> Less(a, b)
  BY CompareIs, Zenon
<1>3. starts_with(a, b) => compare(b, a) <= 0
  <2> SUFFICES ASSUME starts_with(a, b) PROVE compare(b, a) <= 0
    OBVIOUS
  <2>1. Len(b) <= Len(a) /\ Agree(b, a, Len(b))
    BY StartsWithIs, Zenon
  <2>2. CASE Len(b) < Len(a)
    <3>1. Less(b, a)
      BY <2>1, <2>2, Zenon DEF Less
    <3> QED
      BY <3>1, CompareSign, CompareIs
  <2>3. CASE Len(b) = Len(a)
    <3>1. a = b
      BY <2>1, <2>3, SeqEqual DEF Agree
    <3>2. compare(b, a) = 0
      BY <3>1, CompareIs, Zenon
    <3> QED
      BY <3>2
  <2> QED
    BY <2>1, <2>2, <2>3
<1>4. compare(a, b) < 0 /\ compare(b, c) < 0 => compare(a, c) < 0
  BY CompareIs, LessTransitive, Zenon
<1> QED
  BY <1>1, <1>2, <1>3, <1>4, Zenon

LEMMA SliceConstants == MaxSliceSize \in Nat /\ \A x \in Bytes : x \in Nat
BY LogStreamAssumption, Zenon

LEMMA EmptySlice == <<>> \in Slices
<1>1. <<>> \in [1..0 -> Bytes] /\ 0 \in 0..MaxSliceSize
  BY SliceConstants
<1> QED
  BY <1>1, Zenon DEF Slices

LEMMA SlicesAre ==
  \A s : s \in Slices <=> s \in Seq(Bytes) /\ Len(s) <= MaxSliceSize
<1> SUFFICES ASSUME NEW s
             PROVE  s \in Slices <=> s \in Seq(Bytes) /\ Len(s) <= MaxSliceSize
  OBVIOUS
<1>1. ASSUME s \in Slices PROVE s \in Seq(Bytes) /\ Len(s) <= MaxSliceSize
  <2>1. PICK n \in 0..MaxSliceSize : s \in [1..n -> Bytes]
    BY <1>1, Zenon DEF Slices
  <2> QED
    BY <2>1, SliceConstants
<1>2. ASSUME s \in Seq(Bytes), Len(s) <= MaxSliceSize PROVE s \in Slices
  <2>1. s \in [1..Len(s) -> Bytes] /\ Len(s) \in 0..MaxSliceSize
    BY <1>2, SliceConstants
  <2> QED
    BY <2>1, Zenon DEF Slices
<1> QED
  BY <1>1, <1>2

LEMMA SlicesAreBytes == \A s \in Slices : s \in Seq(Nat)
<1>1. \A s \in Seq(Bytes) : s \in Seq(Nat)
  BY SliceConstants
<1> QED
  BY <1>1, SlicesAre

(* What remains of a slice after some of its bytes. *)
LEMMA RestIsSlice ==
  ASSUME NEW s \in Slices, NEW n \in Nat, n <= Len(s)
  PROVE  /\ SubSeq(s, n + 1, Len(s)) \in Slices
         /\ Len(SubSeq(s, n + 1, Len(s))) = Len(s) - n
         /\ \A i \in 1..(Len(s) - n) : SubSeq(s, n + 1, Len(s))[i] = s[n + i]
<1>1. s \in Seq(Bytes) /\ Len(s) <= MaxSliceSize /\ Len(s) \in Nat
  BY SlicesAre
<1>2. /\ SubSeq(s, n + 1, Len(s)) \in Seq(Bytes)
      /\ Len(SubSeq(s, n + 1, Len(s))) = Len(s) - n
      /\ \A i \in 1..(Len(s) - n) : SubSeq(s, n + 1, Len(s))[i] = s[n + i]
  BY <1>1
<1>3. Len(s) - n <= MaxSliceSize
  BY <1>1, SliceConstants
<1> QED
  BY <1>2, <1>3, SlicesAre, Zenon

LEMMA StartsWithRest ==
  ASSUME NEW s \in Slices, NEW x \in Slices
  PROVE  starts_with(s, x) <=> \E rest \in Slices : s = x \o rest
<1>1. s \in Seq(Nat) /\ x \in Seq(Nat) /\ Len(s) \in Nat /\ Len(x) \in Nat
  BY SlicesAreBytes
<1>2. starts_with(s, x) <=> Len(x) <= Len(s) /\ Agree(x, s, Len(x))
  BY <1>1, StartsWithIs, Zenon
<1>3. ASSUME NEW rest \in Slices, s = x \o rest
      PROVE  Len(x) <= Len(s) /\ Agree(x, s, Len(x))
  <2>1. rest \in Seq(Nat)
    BY SlicesAreBytes
  <2> QED
    BY <1>1, <1>3, <2>1 DEF Agree
<1>4. ASSUME Len(x) <= Len(s), Agree(x, s, Len(x))
      PROVE  \E rest \in Slices : s = x \o rest
  <2> DEFINE rest == SubSeq(s, Len(x) + 1, Len(s))
  <2>1. /\ rest \in Slices /\ Len(rest) = Len(s) - Len(x)
        /\ \A i \in 1..(Len(s) - Len(x)) : rest[i] = s[Len(x) + i]
    BY <1>1, <1>4, RestIsSlice, Zenon
  <2> HIDE DEF rest
  <2>2. rest \in Seq(Nat)
    BY <2>1, SlicesAreBytes
  <2>3. x \o rest \in Seq(Nat) /\ Len(x \o rest) = Len(s)
    BY <1>1, <2>1, <2>2
  <2>4. ASSUME NEW i \in 1..Len(s) PROVE (x \o rest)[i] = s[i]
    <3>1. CASE i <= Len(x)
      <4>1. (x \o rest)[i] = x[i]
        BY <1>1, <2>2, <3>1
      <4> QED
        BY <1>1, <1>4, <3>1, <4>1 DEF Agree
    <3>2. CASE i > Len(x)
      <4>1. (x \o rest)[i] = rest[i - Len(x)]
        BY <1>1, <2>1, <2>2, <3>2
      <4>2. i - Len(x) \in 1..(Len(s) - Len(x)) /\ Len(x) + (i - Len(x)) = i
        BY <1>1, <3>2
      <4> QED
        BY <2>1, <4>1, <4>2, Zenon
    <3>3. i <= Len(x) \/ i > Len(x)
      BY <1>1
    <3> QED
      BY <3>1, <3>2, <3>3, Zenon
  <2>5. s = x \o rest
    BY <1>1, <2>3, <2>4, SeqEqual, Zenon
  <2> QED
    BY <2>1, <2>5, Zenon
<1> QED
  BY <1>2, <1>3, <1>4

SliceInv == slice \in Slices

LEMMA SliceStays == SliceInv /\ [Next]_vars => SliceInv'
<1> SUFFICES ASSUME slice \in Slices, [Next]_vars PROVE slice' \in Slices
  BY DEF SliceInv
<1>1. ASSUME NEW s \in Slices, Assign(s) PROVE slice' \in Slices
  BY <1>1, Zenon DEF Assign, SetSlice
<1>2. CASE clear
  BY <1>2, EmptySlice, Zenon DEF clear, SetSlice
<1>3. ASSUME NEW n \in 0..MaxSliceSize, remove_prefix(n) PROVE slice' \in Slices
  <2>1. n \in Nat
    BY SliceConstants
  <2> QED
    BY <1>3, <2>1, RestIsSlice, Zenon DEF remove_prefix, SetSlice
<1>4. CASE UNCHANGED slice
  BY <1>4
<1>5. ASSUME NEW type, NEW n, InsertNumber(type, n) PROVE UNCHANGED slice
  BY <1>5, Zenon DEF InsertNumber, Insert
<1>6. ASSUME NEW v, InsertBool(v) PROVE UNCHANGED slice
  BY <1>6, Zenon DEF InsertBool, Insert
<1>7. InsertSlice \/ Send \/ NextStatement => UNCHANGED slice
  BY Zenon DEF InsertSlice, Insert, Send, NextStatement
<1> QED
  BY <1>1, <1>2, <1>3, <1>4, <1>5, <1>6, <1>7, Zenon DEF Next, vars

(* Whatever is done to a slice, for bytes and slices of any size: compare  *)
(* orders it among all slices as its comment says, == is equality, and it  *)
(* starts with exactly those it continues.                                 *)
THEOREM SlicesOrdered == Spec => []SliceOrder
<1>1. Init => SliceInv
  BY EmptySlice, Zenon DEF Init, SliceInv
<1>2. SliceInv => SliceOrder
  BY SlicesAreBytes, CompareIsTotalOrder, StartsWithRest, Zenon DEF SliceOrder, SliceInv
<1> QED
  BY <1>1, <1>2, SliceStays, PTL DEF Spec

-----------------------------------------------------------------------------
(* The text of an entry. *)

Pieces == [type : Types \cup {"slice", "bool"}, arg : Seq(Int)]

(* The greatest of the sizes, or 0, exists. *)
HasLongest(sizes) ==
  sizes \subseteq Nat /\ \E n \in sizes \cup {0} : \A m \in sizes : m <= n

(* While a statement is executed, the stream has the text of its pieces    *)
(* so far, and everything has fit.                                         *)
Unfinished ==
  /\ stream_ = Spaces(PrefixSize) \o MessageOf(given)
  /\ PrefixSize + Len(MessageOf(given)) <= Capacity
  /\ \A m \in FmtSizes(given) : m < FmtSize

Finished ==
  /\ ~EntryFails(MessageSize(given))
  /\ Len(stream_) = EntrySize(MessageSize(given))
  /\ stream_ = Spaces(PrefixSize) \o MessageOf(given) \o Spaces(Overhead - PrefixSize)
  /\ Len(stream_) < Capacity /\ NoNul(stream_) => output = stream_

StreamInv ==
  /\ slice \in Slices /\ sent \in BOOLEAN /\ aborted \in BOOLEAN
  /\ given \in Seq(Pieces)
  /\ \A i \in 1..Len(given) : Text(given[i]) \in Seq(Nat)
  /\ HasLongest(FmtSizes(given))
  /\ aborted => ~sent /\ EntryFails(MessageSize(given))
  /\ ~aborted /\ ~sent => Unfinished
  /\ sent => Finished

(* The recursion in Digits(). *)
LastDigit(m) == Char.zero + (m % 10)

Writes(f, n) ==
  f = [m \in 0..n |-> IF m < 10 THEN <<LastDigit(m)>>
                                ELSE Append(f[m \div 10], LastDigit(m))]

LEMMA TenthIsLess ==
  \A m \in Nat : m >= 10 => m \div 10 \in Nat /\ m \div 10 < m
OBVIOUS

LEMMA LastDigitType == \A m \in Nat : LastDigit(m) \in Nat
<1>1. Char.zero = 48
  BY DEF Char
<1> QED
  BY <1>1 DEF LastDigit

LEMMA WritesExtends ==
  ASSUME NEW n \in Nat, n # 0, NEW f, Writes(f, n - 1)
  PROVE  \E g : Writes(g, n)
<1> DEFINE last == IF n < 10 THEN <<LastDigit(n)>>
                             ELSE Append(f[n \div 10], LastDigit(n))
           next(h, m) == IF m < 10 THEN <<LastDigit(m)>>
                                   ELSE Append(h[m \div 10], LastDigit(m))
<1>0. PICK g : g = [m \in 0..n |-> IF m = n THEN last ELSE f[m]]
  BY Zenon
<1>1. \A m \in 0..(n - 1) : f[m] = next(f, m)
  BY Zenon DEF Writes
<1>2. \A m \in 0..(n - 1) : g[m] = f[m]
  BY <1>0
<1>3. g[n] = last
  BY <1>0
<1>4. ASSUME NEW m \in 0..n PROVE g[m] = next(g, m)
  <2>1. m >= 10 => m \div 10 \in 0..(n - 1)
    BY TenthIsLess
  <2>2. m >= 10 => g[m \div 10] = f[m \div 10]
    BY ONLY <1>2, <2>1, Zenon
  <2>3. m < 10 \/ m >= 10
    OBVIOUS
  <2>4. next(g, m) = next(f, m)
    BY ONLY <2>2, <2>3, Zenon
  <2>5. CASE m = n
    BY ONLY <1>3, <2>4, <2>5, Zenon
  <2>6. CASE m # n
    <3>1. m \in 0..(n - 1)
      BY <2>6
    <3> QED
      BY ONLY <1>1, <1>2, <2>4, <3>1, Zenon
  <2> QED
    BY ONLY <2>5, <2>6, Zenon
<1>5. g = [m \in 0..n |-> g[m]]
  BY ONLY <1>0, Zenon
<1>6. [m \in 0..n |-> g[m]] = [m \in 0..n |-> next(g, m)]
  BY ONLY <1>4, Zenon
<1>7. Writes(g, n)
  BY ONLY <1>5, <1>6, Zenon DEF Writes
<1> QED
  BY ONLY <1>7, Zenon

LEMMA WritesExists == \A n \in Nat : \E f : Writes(f, n)
<1> DEFINE Bad == {n \in Nat : ~\E f : Writes(f, n)}
<1> SUFFICES ASSUME Bad # {} PROVE FALSE
  OBVIOUS
<1>1. PICK n \in Bad : \A k \in Bad : n <= k
  BY LeastNatural, Zenon
<1>2. CASE n = 0
  <2> DEFINE f == [m \in 0..0 |-> <<LastDigit(m)>>]
  <2>1. \A m \in 0..0 : m < 10
    OBVIOUS
  <2>2. Writes(f, 0)
    BY <2>1, Zenon DEF Writes
  <2> QED
    BY <1>1, <1>2, <2>2
<1>3. CASE n # 0
  <2>1. n - 1 \in Nat /\ ~(n <= n - 1)
    BY <1>3
  <2>2. PICK f : Writes(f, n - 1)
    BY <1>1, <2>1, Zenon
  <2> QED
    BY <1>1, <1>3, <2>2, WritesExtends, Zenon
<1> QED
  BY <1>2, <1>3, Zenon

LEMMA WritesAgree ==
  \A f, g : \A k, n \in Nat :
    k <= n /\ Writes(f, k) /\ Writes(g, n) => f[k] = g[k]
<1> SUFFICES ASSUME NEW f, NEW g, NEW k \in Nat, NEW n \in Nat, k <= n,
                    Writes(f, k), Writes(g, n)
             PROVE  f[k] = g[k]
  OBVIOUS
<1> DEFINE next(h, m) == IF m < 10 THEN <<LastDigit(m)>>
                                   ELSE Append(h[m \div 10], LastDigit(m))
<1>1. \A m \in 0..k : f[m] = next(f, m)
  BY Zenon DEF Writes
<1>2. \A m \in 0..n : g[m] = next(g, m)
  BY Zenon DEF Writes
<1> DEFINE Wrong == {m \in 0..k : f[m] # g[m]}
<1>3. ASSUME Wrong # {} PROVE FALSE
  <2>1. Wrong \subseteq Nat
    OBVIOUS
  <2>2. PICK m \in Wrong : \A i \in Wrong : m <= i
    BY ONLY <1>3, <2>1, LeastNatural, Zenon
  <2>3. m \in 0..k /\ m \in 0..n /\ m \in Nat
    OBVIOUS
  <2>4. ~(m < 10) => m \div 10 \in 0..k /\ ~(m <= m \div 10)
    BY <2>3, TenthIsLess
  <2>5. ~(m < 10) => f[m \div 10] = g[m \div 10]
    BY ONLY <2>2, <2>4, Zenon
  <2>6. next(f, m) = next(g, m)
    BY ONLY <2>5, Zenon
  <2>7. f[m] = g[m]
    <3>1. f[m] = next(f, m)
      BY ONLY <1>1, <2>3, Zenon
    <3>2. g[m] = next(g, m)
      BY ONLY <1>2, <2>3, Zenon
    <3> HIDE DEF next
    <3> QED
      BY ONLY <2>6, <3>1, <3>2, Zenon
  <2> QED
    BY ONLY <2>2, <2>7, Zenon
<1>4. k \in 0..k
  OBVIOUS
<1> QED
  BY ONLY <1>3, <1>4, Zenon

LEMMA DigitsAre ==
  \A n \in Nat : /\ n < 10 => Digits(n) = <<LastDigit(n)>>
                 /\ n >= 10 => Digits(n) = Append(Digits(n \div 10), LastDigit(n))
<1>1. ASSUME NEW n \in Nat PROVE \E f : Writes(f, n) /\ Digits(n) = f[n]
  <2>1. Digits(n) = (CHOOSE f : Writes(f, n))[n]
    BY DEF Digits, Writes, LastDigit
  <2> QED
    BY <2>1, WritesExists, Zenon
<1> SUFFICES ASSUME NEW n \in Nat
             PROVE  /\ n < 10 => Digits(n) = <<LastDigit(n)>>
                    /\ n >= 10 => Digits(n) = Append(Digits(n \div 10), LastDigit(n))
  OBVIOUS
<1>2. PICK f : Writes(f, n) /\ Digits(n) = f[n]
  BY <1>1, Zenon
<1>3. n \in 0..n
  OBVIOUS
<1>4. f[n] = IF n < 10 THEN <<LastDigit(n)>> ELSE Append(f[n \div 10], LastDigit(n))
  BY ONLY <1>2, <1>3, Zenon DEF Writes
<1>5. ASSUME n >= 10 PROVE f[n \div 10] = Digits(n \div 10) /\ ~(n < 10)
  <2>1. n \div 10 \in Nat /\ n \div 10 <= n /\ ~(n < 10)
    BY <1>5, TenthIsLess
  <2>2. PICK g : Writes(g, n \div 10) /\ Digits(n \div 10) = g[n \div 10]
    BY <1>1, <2>1, Zenon
  <2>3. g[n \div 10] = f[n \div 10]
    BY <1>2, <2>1, <2>2, WritesAgree
  <2> QED
    BY <2>1, <2>2, <2>3, Zenon
<1> QED
  BY ONLY <1>2, <1>4, <1>5, Zenon

(* A numeral has at least one character, and all are digits. *)
LEMMA DigitsType ==
  \A n \in Nat : Digits(n) \in Seq(48..57) /\ Digits(n) \in Seq(Nat) /\ Len(Digits(n)) > 0
<1>0. \A n \in Nat : LastDigit(n) \in 48..57
  BY DEF LastDigit, Char
<1> DEFINE Bad == {n \in Nat : Digits(n) \notin Seq(48..57)}
<1>1. ASSUME Bad # {} PROVE FALSE
  <2>1. PICK n \in Bad : \A k \in Bad : n <= k
    BY <1>1, LeastNatural, Zenon
  <2>2. LastDigit(n) \in 48..57
    BY <1>0
  <2>3. CASE n < 10
    <3>1. Digits(n) = <<LastDigit(n)>>
      BY <2>3, DigitsAre, Zenon
    <3>2. <<LastDigit(n)>> \in Seq(48..57)
      BY <2>2
    <3> QED
      BY <2>1, <3>1, <3>2, Zenon
  <2>4. CASE n >= 10
    <3>1. n \div 10 \in Nat /\ ~(n <= n \div 10)
      BY <2>4, TenthIsLess
    <3>2. Digits(n \div 10) \in Seq(48..57)
      BY <2>1, <3>1, Zenon
    <3>3. Append(Digits(n \div 10), LastDigit(n)) \in Seq(48..57)
      BY <2>2, <3>2
    <3> QED
      BY <2>1, <2>4, <3>3, DigitsAre, Zenon
  <2> QED
    BY <2>3, <2>4
<1>2. ASSUME NEW n \in Nat
      PROVE  Digits(n) \in Seq(48..57) /\ Digits(n) \in Seq(Nat) /\ Len(Digits(n)) > 0
  <2>1. Digits(n) \in Seq(48..57)
    BY <1>1, Zenon
  <2>2. Digits(n) \in Seq(Nat)
    BY <2>1
  <2>3. CASE n < 10
    <3>1. Len(<<LastDigit(n)>>) > 0
      OBVIOUS
    <3> QED
      BY <2>1, <2>2, <2>3, <3>1, DigitsAre, Zenon
  <2>4. CASE n >= 10
    <3>1. n \div 10 \in Nat
      BY <2>4, TenthIsLess
    <3>2. Digits(n \div 10) \in Seq(48..57)
      BY <1>1, <3>1, Zenon
    <3>3. Len(Append(Digits(n \div 10), LastDigit(n))) > 0
      BY <3>2
    <3> QED
      BY <2>1, <2>2, <2>4, <3>3, DigitsAre, Zenon
  <2> QED
    BY <2>1, <2>2, <2>3, <2>4
<1> QED
  BY <1>2, Zenon

LEMMA NumeralType == \A n \in Int : Numeral(n) \in Seq(Nat)
<1> SUFFICES ASSUME NEW n \in Int PROVE Numeral(n) \in Seq(Nat)
  OBVIOUS
<1>1. <<Char.minus>> \in Seq(Nat)
  BY DEF Char
<1>2. CASE n < 0
  <2>1. -n \in Nat
    BY <1>2
  <2>2. Digits(-n) \in Seq(Nat)
    BY <2>1, DigitsType, Zenon
  <2>3. <<Char.minus>> \o Digits(-n) \in Seq(Nat)
    BY <1>1, <2>2
  <2> QED
    BY <1>2, <2>3, Zenon DEF Numeral
<1>3. CASE ~(n < 0)
  <2>1. n \in Nat
    BY <1>3
  <2> QED
    BY <1>3, <2>1, DigitsType, Zenon DEF Numeral
<1> QED
  BY <1>2, <1>3, Zenon

(* What the integer types and their conversions make of a number. *)
LEMMA ValuesConstants ==
  /\ \A values \in {CharValues, ShortValues, IntValues, LongValues} :
       values \in Nat /\ values > 0 /\ values % 2 = 0
  /\ CharValues <= ShortValues /\ 2 * ShortValues <= IntValues
  /\ IntValues <= LongValues
BY LogStreamAssumption, Zenon

LEMMA ValuesTypes ==
  /\ CharValues \in Nat /\ CharValues > 0 /\ CharValues = 2 * (CharValues \div 2)
  /\ ShortValues \in Nat /\ ShortValues > 0 /\ ShortValues = 2 * (ShortValues \div 2)
  /\ IntValues \in Nat /\ IntValues > 0 /\ IntValues = 2 * (IntValues \div 2)
  /\ LongValues \in Nat /\ LongValues > 0 /\ LongValues = 2 * (LongValues \div 2)
<1>1. \A v \in Nat : v % 2 = 0 => v = 2 * (v \div 2)
  OBVIOUS
<1> QED
  BY <1>1, ValuesConstants

LEMMA SignedIs ==
  ASSUME NEW v \in Nat, v > 0, v = 2 * (v \div 2), NEW n \in Int
  PROVE  /\ n \in -(v \div 2) .. (v \div 2 - 1) => Signed(n, v) = n
         /\ n \in (v \div 2) .. (v - 1) => Signed(n, v) = n - v
<1> DEFINE half == v \div 2
<1>1. half \in Nat /\ v = half + half
  OBVIOUS
<1> HIDE DEF half
<1>2. Signed(n, v) = IF n % v < half THEN n % v ELSE (n % v) - v
  BY DEF Signed, half
<1>3. n \in 0..(v - 1) => n % v = n
  OBVIOUS
<1>4. n \in (-v)..(-1) => n % v = n + v
  OBVIOUS
<1>5. n \in -half .. (half - 1) => Signed(n, v) = n
  BY ONLY <1>1, <1>2, <1>3, <1>4, n \in Int
<1>6. n \in half .. (v - 1) => Signed(n, v) = n - v
  BY ONLY <1>1, <1>2, <1>3, n \in Int
<1> QED
  BY <1>5, <1>6 DEF half

LEMMA LowBits ==
  ASSUME NEW v \in Nat, v > 0, NEW n \in Int
  PROVE  /\ n % v \in 0..(v - 1)
         /\ n \in 0..(v - 1) => n % v = n
         /\ n \in (-v)..(-1) => n % v = n + v
OBVIOUS

LEMMA NumbersAreIntegers ==
  ASSUME NEW type \in Types, NEW n \in Numbers(type) PROVE n \in Int
<1>1. \A size \in DoubleSizes : size \in Int
  BY LogStreamAssumption
<1>2. ASSUME type # "double" PROVE ValuesOf(type) \in Nat
  BY <1>2, ValuesTypes, Zenon DEF ValuesOf, Types, SignedTypes, UnsignedTypes
<1>3. CASE type = "double"
  BY <1>1, <1>3 DEF Numbers, SignedTypes, UnsignedTypes
<1>4. CASE type \in SignedTypes
  BY <1>2, <1>4 DEF Numbers, SignedTypes, UnsignedTypes
<1>5. CASE type \in UnsignedTypes
  BY <1>2, <1>5 DEF Numbers, SignedTypes, UnsignedTypes
<1> QED
  BY <1>3, <1>4, <1>5 DEF Types

(* What the formats come to for the numbers of each type. *)
Printed(type, n) ==
  CASE type = "char"   -> <<IF n < 0 THEN n + CharValues ELSE n>>
    [] type = "uint" /\ n >= IntValues \div 2 -> Numeral(n - IntValues)
    [] type = "uchar"  -> Numeral(n) \o <<Char.c>>
    [] type = "ulong"  -> Numeral(n % IntValues) \o <<Char.l, Char.d>>
    [] type = "ullong" -> Numeral(n % IntValues) \o <<Char.l, Char.l, Char.d>>
    [] type = "double" -> [i \in 1..n |-> Char.zero]
    [] OTHER           -> Numeral(n)

LEMMA ShownAsPrinted ==
  ASSUME NEW type \in Types, NEW n \in Numbers(type)
  PROVE  Shown(type, n) = Printed(type, n) /\ Shown(type, n) \in Seq(Nat)
<1>0. n \in Int
  BY NumbersAreIntegers
<1> USE DEF Shown
<1>1. CASE type = "char"
  <2>1. n \in -(CharValues \div 2) .. (CharValues \div 2 - 1)
    BY <1>1 DEF Numbers, ValuesOf, SignedTypes, UnsignedTypes
  <2>2. n % CharValues = IF n < 0 THEN n + CharValues ELSE n
    BY <1>0, <2>1, ValuesTypes, LowBits
  <2>3. Shown(type, n) = <<n % CharValues>>
    BY <1>1 DEF FormatOf, snprintf
  <2>4. n % CharValues \in Nat
    BY <1>0, LowBits, ValuesTypes
  <2>5. Printed(type, n) = <<IF n < 0 THEN n + CharValues ELSE n>>
    BY <1>1 DEF Printed
  <2> QED
    BY <2>2, <2>3, <2>4, <2>5
<1>2. CASE type = "short"
  <2>1. n \in -(ShortValues \div 2) .. (ShortValues \div 2 - 1)
    BY <1>2 DEF Numbers, ValuesOf, SignedTypes, UnsignedTypes
  <2>2. n \in -(IntValues \div 2) .. (IntValues \div 2 - 1)
    BY <1>0, <2>1, ValuesTypes, ValuesConstants
  <2>3. Signed(n, IntValues) = n
    BY <1>0, <2>2, ValuesTypes, SignedIs
  <2>4. Shown(type, n) = Numeral(n)
    BY <1>2, <2>3 DEF FormatOf, snprintf
  <2> QED
    BY <1>0, <1>2, <2>4, NumeralType DEF Printed
<1>3. CASE type = "ushort"
  <2>1. n \in 0 .. (ShortValues - 1)
    BY <1>3 DEF Numbers, ValuesOf, SignedTypes, UnsignedTypes
  <2>2. n \in -(IntValues \div 2) .. (IntValues \div 2 - 1)
    BY <1>0, <2>1, ValuesTypes, ValuesConstants
  <2>3. Signed(n, IntValues) = n
    BY <1>0, <2>2, ValuesTypes, SignedIs
  <2>4. Shown(type, n) = Numeral(n)
    BY <1>3, <2>3 DEF FormatOf, snprintf
  <2> QED
    BY <1>0, <1>3, <2>4, NumeralType DEF Printed
<1>4. CASE type = "int"
  <2>1. n \in -(IntValues \div 2) .. (IntValues \div 2 - 1)
    BY <1>4 DEF Numbers, ValuesOf, SignedTypes, UnsignedTypes
  <2>2. Signed(n, IntValues) = n
    BY <1>0, <2>1, ValuesTypes, SignedIs
  <2>3. Shown(type, n) = Numeral(n)
    BY <1>4, <2>2 DEF FormatOf, snprintf
  <2> QED
    BY <1>0, <1>4, <2>3, NumeralType DEF Printed
<1>5. CASE type = "uint"
  <2>1. n \in 0 .. (IntValues - 1)
    BY <1>5 DEF Numbers, ValuesOf, SignedTypes, UnsignedTypes
  <2>2. Shown(type, n) = Numeral(Signed(n, IntValues))
    BY <1>5 DEF FormatOf, snprintf
  <2>3. CASE n < IntValues \div 2
    <3>1. n \in -(IntValues \div 2) .. (IntValues \div 2 - 1)
      BY <1>0, <2>1, <2>3, ValuesTypes
    <3>2. Signed(n, IntValues) = n
      BY <1>0, <3>1, ValuesTypes, SignedIs
    <3>3. ~(n >= IntValues \div 2)
      BY <1>0, <2>3, ValuesTypes
    <3> QED
      BY <1>0, <1>5, <2>2, <3>2, <3>3, NumeralType DEF Printed
  <2>4. CASE n >= IntValues \div 2
    <3>1. n \in (IntValues \div 2) .. (IntValues - 1) /\ n - IntValues \in Int
      BY <1>0, <2>1, <2>4, ValuesTypes
    <3>2. Signed(n, IntValues) = n - IntValues
      BY <1>0, <3>1, ValuesTypes, SignedIs
    <3> QED
      BY <1>5, <2>2, <2>4, <3>1, <3>2, NumeralType DEF Printed
  <2> QED
    BY <1>0, <2>3, <2>4, ValuesTypes
<1>6. CASE type \in {"long", "llong"}
  <2>1. n \in -(LongValues \div 2) .. (LongValues \div 2 - 1)
    BY <1>6 DEF Numbers, ValuesOf, SignedTypes, UnsignedTypes
  <2>2. Signed(n, LongValues) = n
    BY <1>0, <2>1, ValuesTypes, SignedIs, SMTT(30)
  <2>3. Shown(type, n) = Numeral(n)
    BY <1>6, <2>2 DEF FormatOf, snprintf
  <2> QED
    BY <1>0, <1>6, <2>3, NumeralType DEF Printed
<1>7. CASE type = "uchar"
  <2>1. n \in 0 .. (IntValues - 1)
    BY <1>0, <1>7, ValuesTypes, ValuesConstants
       DEF Numbers, ValuesOf, SignedTypes, UnsignedTypes
  <2>2. n % IntValues = n
    BY <1>0, <2>1, ValuesTypes, LowBits
  <2>3. Shown(type, n) = Numeral(n) \o <<Char.c>>
    BY <1>7, <2>2 DEF FormatOf, snprintf
  <2>4. <<Char.c>> \in Seq(Nat) /\ Numeral(n) \in Seq(Nat)
    BY <1>0, NumeralType DEF Char
  <2>5. Numeral(n) \o <<Char.c>> \in Seq(Nat)
    BY <2>4, ConcatProperties
  <2> QED
    BY <1>7, <2>3, <2>5, Zenon DEF Printed
<1>8. CASE type = "ulong"
  <2>1. n % IntValues \in Int
    BY <1>0, ValuesTypes, LowBits
  <2>2. Shown(type, n) = Numeral(n % IntValues) \o <<Char.l, Char.d>>
    BY <1>8 DEF FormatOf, snprintf
  <2>3. <<Char.l, Char.d>> \in Seq(Nat) /\ Numeral(n % IntValues) \in Seq(Nat)
    BY <2>1, NumeralType DEF Char
  <2>4. Numeral(n % IntValues) \o <<Char.l, Char.d>> \in Seq(Nat)
    BY <2>3, ConcatProperties
  <2> QED
    BY <1>8, <2>2, <2>4, Zenon DEF Printed
<1>9. CASE type = "ullong"
  <2>1. n % IntValues \in Int
    BY <1>0, ValuesTypes, LowBits
  <2>2. Shown(type, n) = Numeral(n % IntValues) \o <<Char.l, Char.l, Char.d>>
    BY <1>9 DEF FormatOf, snprintf
  <2>3. <<Char.l, Char.l, Char.d>> \in Seq(Nat) /\ Numeral(n % IntValues) \in Seq(Nat)
    BY <2>1, NumeralType DEF Char
  <2>4. Numeral(n % IntValues) \o <<Char.l, Char.l, Char.d>> \in Seq(Nat)
    BY <2>3, ConcatProperties
  <2> QED
    BY <1>9, <2>2, <2>4, Zenon DEF Printed
<1>10. CASE type = "double"
  <2>1. n \in Nat
    BY <1>10, LogStreamAssumption DEF Numbers, SignedTypes, UnsignedTypes
  <2>2. Shown(type, n) = [i \in 1..n |-> Char.zero]
    BY <1>10 DEF FormatOf, snprintf
  <2>3. Char.zero \in Nat
    BY DEF Char
  <2>4. [i \in 1..n |-> Char.zero] \in Seq(Nat)
    BY <2>1, <2>3
  <2> QED
    BY <1>10, <2>2, <2>4, Zenon DEF Printed
<1> QED
  BY <1>1, <1>2, <1>3, <1>4, <1>5, <1>6, <1>7, <1>8, <1>9, <1>10
     DEF Types, SignedTypes, UnsignedTypes

(* Every operator<< of a number inserts the right text, but for those of   *)
(* Misprinted().                                                           *)
LEMMA ShownAsExpected ==
  ASSUME NEW type \in Types, NEW n \in Numbers(type)
  PROVE  Shown(type, n) = Expected(type, <<n>>) /\ Shown(type, n) \in Seq(Nat)
<1>1. Shown(type, n) = Printed(type, n) /\ Shown(type, n) \in Seq(Nat)
  BY ShownAsPrinted
<1>2. <<n>>[1] = n
  OBVIOUS
<1>3. CASE Misprinted(type, n)
  BY <1>1, <1>2, <1>3, Zenon DEF Expected
<1>4. CASE ~Misprinted(type, n)
  <2>1. type # "slice"
    BY Zenon DEF Types, SignedTypes, UnsignedTypes
  <2>2. Value(type, <<n>>) = Printed(type, n)
    BY <1>2, <1>4, <2>1 DEF Value, Printed, Misprinted
  <2> QED
    BY <1>1, <1>2, <1>4, <2>2, Zenon DEF Expected
<1> QED
  BY <1>3, <1>4

(* The recursion in MessageOf(). *)
Joins(f, pieces, n) ==
  f = [i \in 0..n |-> IF i = 0 THEN <<>> ELSE f[i - 1] \o Text(pieces[i])]

LEMMA JoinsExtends ==
  ASSUME NEW pieces, NEW n \in Nat, n # 0, NEW f, Joins(f, pieces, n - 1)
  PROVE  \E g : Joins(g, pieces, n)
<1> DEFINE next(h, i) == IF i = 0 THEN <<>> ELSE h[i - 1] \o Text(pieces[i])
<1>1. PICK g : g = [i \in 0..n |-> IF i = n THEN next(f, n) ELSE f[i]]
  BY Zenon
<1>2. \A i \in 0..(n - 1) : f[i] = next(f, i)
  BY Zenon DEF Joins
<1>3. \A i \in 0..(n - 1) : i \in 0..n /\ i # n
  OBVIOUS
<1>4. \A i \in 0..(n - 1) : g[i] = f[i]
  BY ONLY <1>1, <1>3, Zenon
<1>5. n \in 0..n
  OBVIOUS
<1>6. g[n] = next(f, n)
  BY ONLY <1>1, <1>5, Zenon
<1>7. ASSUME NEW i \in 0..n PROVE g[i] = next(g, i)
  <2>1. i # 0 => i - 1 \in 0..(n - 1)
    OBVIOUS
  <2>2. next(g, i) = next(f, i)
    BY ONLY <1>4, <2>1, Zenon
  <2>3. CASE i = n
    BY ONLY <1>6, <2>2, <2>3, Zenon
  <2>4. CASE i # n
    <3>1. i \in 0..(n - 1)
      BY <2>4
    <3> QED
      BY ONLY <1>2, <1>4, <2>2, <3>1, Zenon
  <2> QED
    BY ONLY <2>3, <2>4, Zenon
<1>8. g = [i \in 0..n |-> g[i]]
  BY ONLY <1>1, Zenon
<1>9. [i \in 0..n |-> g[i]] = [i \in 0..n |-> next(g, i)]
  BY ONLY <1>7, Zenon
<1>10. Joins(g, pieces, n)
  BY ONLY <1>8, <1>9, Zenon DEF Joins
<1> QED
  BY ONLY <1>10, Zenon

LEMMA JoinsExists ==
  ASSUME NEW pieces PROVE \A n \in Nat : \E f : Joins(f, pieces, n)
<1> DEFINE Bad == {n \in Nat : ~\E f : Joins(f, pieces, n)}
<1> SUFFICES ASSUME Bad # {} PROVE FALSE
  OBVIOUS
<1>1. PICK n \in Bad : \A k \in Bad : n <= k
  BY LeastNatural, Zenon
<1>2. CASE n = 0
  <2> DEFINE f == [i \in 0..0 |-> <<>>]
  <2>1. \A i \in 0..0 : i = 0
    OBVIOUS
  <2>2. Joins(f, pieces, 0)
    BY <2>1, Zenon DEF Joins
  <2> QED
    BY <1>1, <1>2, <2>2
<1>3. CASE n # 0
  <2>1. n - 1 \in Nat /\ ~(n <= n - 1)
    BY <1>3
  <2>2. PICK f : Joins(f, pieces, n - 1)
    BY <1>1, <2>1, Zenon
  <2> QED
    BY <1>1, <1>3, <2>2, JoinsExtends, Zenon
<1> QED
  BY <1>2, <1>3, Zenon

(* The recursion sees only the pieces up to where it is. *)
LEMMA JoinsAgree ==
  \A p, q, f, g : \A k \in Nat :
    Agree(p, q, k) /\ Joins(f, p, k) /\ Joins(g, q, k + 1) => f[k] = g[k]
<1> SUFFICES ASSUME NEW p, NEW q, NEW f, NEW g, NEW k \in Nat, Agree(p, q, k),
                    Joins(f, p, k), Joins(g, q, k + 1)
             PROVE  f[k] = g[k]
  OBVIOUS
<1>1. \A i \in 0..k : f[i] = IF i = 0 THEN <<>> ELSE f[i - 1] \o Text(p[i])
  BY Zenon DEF Joins
<1>2. \A i \in 0..(k + 1) : g[i] = IF i = 0 THEN <<>> ELSE g[i - 1] \o Text(q[i])
  BY Zenon DEF Joins
<1> DEFINE Wrong == {i \in 0..k : f[i] # g[i]}
<1>3. ASSUME Wrong # {} PROVE FALSE
  <2>1. Wrong \subseteq Nat
    OBVIOUS
  <2>2. PICK m \in Wrong : \A i \in Wrong : m <= i
    BY ONLY <1>3, <2>1, LeastNatural, Zenon
  <2>3. m \in 0..k /\ m \in 0..(k + 1)
    OBVIOUS
  <2>4. m # 0
    BY ONLY <1>1, <1>2, <2>2, <2>3, Zenon
  <2>5. m - 1 \in 0..k /\ ~(m <= m - 1) /\ m \in 1..k
    BY <2>3, <2>4
  <2>6. f[m - 1] = g[m - 1] /\ p[m] = q[m]
    BY <2>2, <2>5, Zenon DEF Agree
  <2>7. f[m] = g[m]
    BY ONLY <1>1, <1>2, <2>3, <2>4, <2>6, Zenon
  <2> QED
    BY <2>2, <2>7, Zenon
<1>4. k \in 0..k
  OBVIOUS
<1> QED
  BY <1>3, <1>4, Zenon

LEMMA MessageIs ==
  ASSUME NEW pieces, Len(pieces) \in Nat
  PROVE  \E f : Joins(f, pieces, Len(pieces)) /\ MessageOf(pieces) = f[Len(pieces)]
<1>1. MessageOf(pieces) = (CHOOSE f : Joins(f, pieces, Len(pieces)))[Len(pieces)]
  BY DEF MessageOf, Joins
<1> QED
  BY <1>1, JoinsExists, Zenon

LEMMA MessageOfNothing == MessageOf(<<>>) = <<>>
<1>1. Len(<<>>) = 0 /\ 0 \in 0..0 /\ 0 \in Nat
  OBVIOUS
<1>2. PICK f : Joins(f, <<>>, 0) /\ MessageOf(<<>>) = f[0]
  BY <1>1, MessageIs, Zenon
<1> QED
  BY <1>1, <1>2, Zenon DEF Joins

LEMMA MessageOfAppend ==
  ASSUME NEW pieces \in Seq(Pieces), NEW p \in Pieces
  PROVE  MessageOf(Append(pieces, p)) = MessageOf(pieces) \o Text(p)
<1> DEFINE n    == Len(pieces)
           more == Append(pieces, p)
<1>1. /\ n \in Nat /\ n + 1 \in Nat /\ Len(more) = n + 1 /\ n <= n + 1
      /\ n + 1 \in 0..(n + 1) /\ n + 1 # 0 /\ (n + 1) - 1 = n
      /\ more[n + 1] = p /\ \A i \in 1..n : pieces[i] = more[i]
  OBVIOUS
<1> HIDE DEF n, more
<1>2. PICK f : Joins(f, pieces, n) /\ MessageOf(pieces) = f[n]
  BY <1>1, MessageIs, Zenon DEF n
<1>3. PICK g : Joins(g, more, n + 1) /\ MessageOf(more) = g[n + 1]
  BY <1>1, MessageIs, Zenon
<1>4. f[n] = g[n]
  <2>1. Agree(pieces, more, n)
    BY ONLY <1>1, Zenon DEF Agree
  <2>2. n \in Nat
    BY ONLY <1>1
  <2>3. Joins(f, pieces, n)
    BY ONLY <1>2, Zenon
  <2>4. Joins(g, more, n + 1)
    BY ONLY <1>3, Zenon
  <2> QED
    BY ONLY <2>1, <2>2, <2>3, <2>4, JoinsAgree
<1>5. g[n + 1] = g[(n + 1) - 1] \o Text(more[n + 1])
  BY ONLY <1>1, <1>3, Zenon DEF Joins
<1>6. MessageOf(more) = MessageOf(pieces) \o Text(p)
  BY ONLY <1>1, <1>2, <1>3, <1>4, <1>5, Zenon
<1> QED
  BY <1>6 DEF more

LEMMA MessageType ==
  ASSUME NEW pieces, Len(pieces) \in Nat,
         \A i \in 1..Len(pieces) : Text(pieces[i]) \in Seq(Nat)
  PROVE  MessageOf(pieces) \in Seq(Nat)
<1> DEFINE n == Len(pieces)
<1>1. PICK f : Joins(f, pieces, n) /\ MessageOf(pieces) = f[n]
  BY MessageIs, Zenon
<1>2. \A i \in 0..n : f[i] = IF i = 0 THEN <<>> ELSE f[i - 1] \o Text(pieces[i])
  BY <1>1, Zenon DEF Joins
<1> DEFINE Bad == {i \in 0..n : f[i] \notin Seq(Nat)}
<1>3. ASSUME Bad # {} PROVE FALSE
  <2>1. Bad \subseteq Nat
    OBVIOUS
  <2>2. PICK m \in Bad : \A i \in Bad : m <= i
    BY ONLY <1>3, <2>1, LeastNatural, Zenon
  <2>3. <<>> \in Seq(Nat)
    OBVIOUS
  <2>4. m # 0
    BY ONLY <1>2, <2>2, <2>3, Zenon
  <2>5. m - 1 \in 0..n /\ ~(m <= m - 1) /\ m \in 1..n
    BY <2>4
  <2>6. f[m - 1] \in Seq(Nat) /\ Text(pieces[m]) \in Seq(Nat)
    BY <2>2, <2>5, Zenon
  <2>7. f[m - 1] \o Text(pieces[m]) \in Seq(Nat)
    BY <2>6, ConcatProperties, Zenon
  <2> QED
    BY ONLY <1>2, <2>2, <2>4, <2>7, Zenon
<1>4. n \in 0..n
  OBVIOUS
<1> QED
  BY <1>1, <1>3, <1>4, Zenon

(* The longest text that went through a Fmt. *)
LEMMA LongestIs ==
  ASSUME NEW sizes, HasLongest(sizes)
  PROVE  /\ Longest(sizes) \in Nat
         /\ \A m \in sizes : m <= Longest(sizes)
         /\ Longest(sizes) \in sizes \cup {0}
<1>1. Longest(sizes) \in sizes \cup {0} /\ \A m \in sizes : m <= Longest(sizes)
  BY Zenon DEF Longest, HasLongest
<1>2. sizes \cup {0} \subseteq Nat
  BY DEF HasLongest
<1> QED
  BY <1>1, <1>2, Zenon

LEMMA OneMoreSize ==
  ASSUME NEW sizes, HasLongest(sizes), NEW k \in Nat
  PROVE  HasLongest(sizes \cup {k})
<1>1. PICK n \in sizes \cup {0} : \A m \in sizes : m <= n
  BY DEF HasLongest
<1>2. n \in Nat /\ \A m \in sizes : m \in Nat
  BY DEF HasLongest
<1>3. CASE k <= n
  BY <1>1, <1>2, <1>3 DEF HasLongest
<1>4. CASE n < k
  <2>1. \A m \in sizes : m <= k
    BY <1>1, <1>2, <1>4
  <2> QED
    BY <1>2, <2>1 DEF HasLongest
<1> QED
  BY <1>2, <1>3, <1>4

LEMMA FmtSizesOfAppend ==
  ASSUME NEW pieces \in Seq(Pieces), NEW p \in Pieces
  PROVE  FmtSizes(Append(pieces, p)) =
           IF p.type \in {"slice", "bool"} THEN FmtSizes(pieces)
           ELSE FmtSizes(pieces) \cup {Len(Text(p))}
<1> DEFINE n    == Len(pieces)
           more == Append(pieces, p)
           Fmts(q) == {j \in 1..Len(q) : q[j].type \notin {"slice", "bool"}}
<1>1. /\ n \in Nat /\ Len(more) = n + 1 /\ more[n + 1] = p
      /\ \A i \in 1..n : more[i] = pieces[i]
      /\ 1..(n + 1) = (1..n) \cup {n + 1} /\ n + 1 \notin 1..n
  OBVIOUS
<1>2. \A q : FmtSizes(q) = {Len(Text(q[i])) : i \in Fmts(q)}
  BY DEF FmtSizes
<1> HIDE DEF more
<1>3. Fmts(more) = IF p.type \in {"slice", "bool"} THEN Fmts(pieces)
                   ELSE Fmts(pieces) \cup {n + 1}
  BY <1>1, Zenon
<1>4. \A i \in Fmts(pieces) : more[i] = pieces[i]
  BY <1>1, Zenon
<1> HIDE DEF Fmts
<1>5. FmtSizes(more) = IF p.type \in {"slice", "bool"} THEN FmtSizes(pieces)
                       ELSE FmtSizes(pieces) \cup {Len(Text(p))}
  <2>1. {Len(Text(more[i])) : i \in Fmts(pieces)} = FmtSizes(pieces)
    BY ONLY <1>2, <1>4, Zenon
  <2>2. CASE p.type \in {"slice", "bool"}
    BY ONLY <1>2, <1>3, <2>1, <2>2, Zenon
  <2>3. CASE p.type \notin {"slice", "bool"}
    <3>1. Fmts(more) = Fmts(pieces) \cup {n + 1}
      BY ONLY <1>3, <2>3, Zenon
    <3>2. FmtSizes(more) =
            {Len(Text(more[i])) : i \in Fmts(pieces)} \cup {Len(Text(more[n + 1]))}
      BY ONLY <1>2, <3>1, Zenon
    <3> QED
      BY ONLY <1>1, <2>1, <2>3, <3>2, Zenon
  <2> QED
    BY ONLY <2>2, <2>3, Zenon
<1> QED
  BY <1>5 DEF more

LEMMA StreamConstants ==
  /\ PrefixSize \in Nat /\ Overhead \in Nat /\ PrefixSize <= Overhead
  /\ Capacity \in Nat /\ PrefixSize <= Capacity
  /\ FmtSize \in Nat /\ FmtSize > 0 /\ Overhead - PrefixSize \in Nat
<1>1. PrefixSize \in 0..Overhead /\ PrefixSize <= Capacity
  BY LogStreamAssumption, Zenon
<1> QED
  BY <1>1, LogEntryAssumption

LEMMA SpacesType ==
  \A n \in Nat : Spaces(n) \in Seq(Nat) /\ Len(Spaces(n)) = n
<1>1. Char.space \in Nat
  BY DEF Char
<1> QED
  BY <1>1 DEF Spaces

(* When the message of some pieces fails, and when it does not. *)
LEMMA FmtTooLong ==
  ASSUME NEW pieces, HasLongest(FmtSizes(pieces)),
         NEW m \in FmtSizes(pieces), m >= FmtSize
  PROVE  EntryFails(MessageSize(pieces))
<1>1. Longest(FmtSizes(pieces)) \in Nat /\ m <= Longest(FmtSizes(pieces))
  BY LongestIs, Zenon
<1>2. m \in Nat
  BY DEF HasLongest
<1>3. Longest(FmtSizes(pieces)) >= FmtSize
  BY <1>1, <1>2, StreamConstants
<1> QED
  BY <1>3, Zenon DEF EntryFails, MessageSize

LEMMA MessageTooLong ==
  ASSUME NEW pieces, Overhead + Len(MessageOf(pieces)) > Capacity
  PROVE  EntryFails(MessageSize(pieces))
BY Zenon DEF EntryFails, MessageSize

LEMMA MessageFits ==
  ASSUME NEW pieces, HasLongest(FmtSizes(pieces)), Len(MessageOf(pieces)) \in Nat,
         \A m \in FmtSizes(pieces) : m < FmtSize,
         Overhead + Len(MessageOf(pieces)) <= Capacity
  PROVE  /\ ~EntryFails(MessageSize(pieces))
         /\ EntrySize(MessageSize(pieces)) = Overhead + Len(MessageOf(pieces))
<1> DEFINE longest == Longest(FmtSizes(pieces))
           bytes   == Len(MessageOf(pieces))
<1>1. longest \in Nat /\ longest \in FmtSizes(pieces) \cup {0}
  BY LongestIs, Zenon
<1>2. longest < FmtSize
  <2>1. CASE longest \in FmtSizes(pieces)
    BY <2>1, Zenon
  <2>2. CASE longest = 0
    BY <2>2, StreamConstants
  <2> QED
    BY <1>1, <2>1, <2>2, Zenon
<1>3. MessageSize(pieces) = [bytes |-> bytes, number |-> longest]
  BY DEF MessageSize
<1> HIDE DEF longest, bytes
<1>4. ~(longest >= FmtSize) /\ ~(Overhead + bytes > Capacity)
  BY <1>1, <1>2, StreamConstants DEF bytes
<1>5. MessageSize(pieces).bytes = bytes /\ MessageSize(pieces).number = longest
  BY <1>3
<1> QED
  BY <1>4, <1>5, Zenon DEF EntryFails, EntrySize, bytes

(* One more piece, with the text a reader expects of it. *)
LEMMA PieceInserted ==
  ASSUME StreamInv, NEW type \in Types \cup {"slice", "bool"}, NEW arg \in Seq(Int),
         Expected(type, arg) \in Seq(Nat), Insert(type, arg)
  PROVE  /\ given' \in Seq(Pieces)
         /\ \A i \in 1..Len(given') : Text(given'[i]) \in Seq(Nat)
         /\ HasLongest(FmtSizes(given'))
         /\ MessageOf(given') = MessageOf(given) \o Expected(type, arg)
         /\ MessageOf(given) \in Seq(Nat)
         /\ Len(MessageOf(given')) = Len(MessageOf(given)) + Len(Expected(type, arg))
         /\ FmtSizes(given') = IF type \in {"slice", "bool"} THEN FmtSizes(given)
                               ELSE FmtSizes(given) \cup {Len(Expected(type, arg))}
<1> DEFINE p == [type |-> type, arg |-> arg]
<1>1. p \in Pieces /\ p.type = type /\ Text(p) = Expected(type, arg)
  BY DEF Pieces, Text
<1>2. given \in Seq(Pieces) /\ Len(given) \in Nat /\ HasLongest(FmtSizes(given))
  BY DEF StreamInv
<1>3. given' = Append(given, p)
  BY Zenon DEF Insert
<1> HIDE DEF p
<1>4. /\ given' \in Seq(Pieces) /\ Len(given') = Len(given) + 1
      /\ given'[Len(given) + 1] = p /\ \A i \in 1..Len(given) : given'[i] = given[i]
  BY <1>1, <1>2, <1>3
<1>5. ASSUME NEW i \in 1..Len(given') PROVE Text(given'[i]) \in Seq(Nat)
  <2>1. i \in 1..Len(given) \/ i = Len(given) + 1
    BY <1>2, <1>4
  <2>2. CASE i \in 1..Len(given)
    BY <1>4, <2>2, Zenon DEF StreamInv
  <2>3. CASE i = Len(given) + 1
    BY <1>1, <1>4, <2>3, Zenon
  <2> QED
    BY <2>1, <2>2, <2>3, Zenon
<1>6. MessageOf(given') = MessageOf(given) \o Expected(type, arg)
  BY <1>1, <1>2, <1>3, MessageOfAppend, Zenon
<1>7. MessageOf(given) \in Seq(Nat)
  BY <1>2, MessageType, Zenon DEF StreamInv
<1>8. Len(MessageOf(given')) = Len(MessageOf(given)) + Len(Expected(type, arg))
  BY <1>6, <1>7, ConcatProperties, Zenon
<1>9. FmtSizes(given') = IF type \in {"slice", "bool"} THEN FmtSizes(given)
                         ELSE FmtSizes(given) \cup {Len(Expected(type, arg))}
  BY <1>1, <1>2, <1>3, FmtSizesOfAppend, Zenon
<1>10. Len(Expected(type, arg)) \in Nat
  OBVIOUS
<1>11. HasLongest(FmtSizes(given'))
  BY <1>2, <1>9, <1>10, OneMoreSize, Zenon
<1> QED
  BY <1>4, <1>5, <1>6, <1>7, <1>8, <1>9, <1>11, Zenon

LEMMA Regrouped ==
  \A s, t, u \in Seq(Nat) : (s \o t) \o u = s \o (t \o u)
BY ConcatAssociative, SMTT(30)

LEMMA InsertKeepsInv ==
  ASSUME StreamInv, NEW type \in Types \cup {"slice", "bool"}, NEW arg \in Seq(Int),
         Expected(type, arg) \in Seq(Nat), Insert(type, arg),
         IF type \notin {"slice", "bool"} /\ Len(Expected(type, arg)) >= FmtSize
         THEN aborted' = TRUE /\ UNCHANGED stream_
         ELSE append(Expected(type, arg))
  PROVE  StreamInv'
<1> DEFINE text == Expected(type, arg)
           old  == MessageOf(given)
<1>1. ~aborted /\ ~sent /\ UNCHANGED <<slice, sent, output>>
  BY Zenon DEF Insert
<1>2. Unfinished /\ slice' \in Slices /\ sent' \in BOOLEAN /\ ~sent'
  BY <1>1, Zenon DEF StreamInv
<1>3. /\ given' \in Seq(Pieces)
      /\ \A i \in 1..Len(given') : Text(given'[i]) \in Seq(Nat)
      /\ HasLongest(FmtSizes(given'))
  BY PieceInserted, Zenon
<1>4. /\ MessageOf(given') = old \o text /\ old \in Seq(Nat) /\ text \in Seq(Nat)
      /\ Len(MessageOf(given')) = Len(old) + Len(text)
      /\ FmtSizes(given') = IF type \in {"slice", "bool"} THEN FmtSizes(given)
                            ELSE FmtSizes(given) \cup {Len(text)}
  BY PieceInserted, Zenon
<1> HIDE DEF text, old
<1>5. Len(old) \in Nat /\ Len(text) \in Nat
  BY <1>4
<1>6. stream_ = Spaces(PrefixSize) \o old /\ PrefixSize + Len(old) <= Capacity
  BY <1>2, Zenon DEF Unfinished, old
<1>7. Len(stream_) = PrefixSize + Len(old)
  <2>1. Spaces(PrefixSize) \in Seq(Nat) /\ Len(Spaces(PrefixSize)) = PrefixSize
    BY StreamConstants, SpacesType, Zenon
  <2>2. Len(Spaces(PrefixSize) \o old) = Len(Spaces(PrefixSize)) + Len(old)
    BY ONLY <1>4, <2>1, ConcatProperties, Zenon
  <2> QED
    BY ONLY <1>6, <2>1, <2>2, Zenon
<1>8. CASE type \notin {"slice", "bool"} /\ Len(text) >= FmtSize
  <2>1. EntryFails(MessageSize(given'))
    BY <1>3, <1>4, <1>8, FmtTooLong, Zenon
  <2>2. aborted' = TRUE
    BY <1>8, Zenon DEF text
  <2> QED
    BY <1>2, <1>3, <2>1, <2>2, Zenon DEF StreamInv
<1>9. CASE ~(type \notin {"slice", "bool"} /\ Len(text) >= FmtSize)
  <2>1. append(text)
    BY <1>9, Zenon DEF text
  <2>2. CASE Len(text) > Capacity - Len(stream_)
    <3>1. Overhead + Len(MessageOf(given')) > Capacity
      BY <1>4, <1>5, <1>7, <2>2, StreamConstants
    <3>2. EntryFails(MessageSize(given'))
      BY <3>1, MessageTooLong, Zenon
    <3>3. aborted' = TRUE
      BY <2>1, <2>2, Zenon DEF append
    <3> QED
      BY <1>2, <1>3, <3>2, <3>3, Zenon DEF StreamInv
  <2>3. CASE ~(Len(text) > Capacity - Len(stream_))
    <3>1. stream_' = stream_ \o text /\ aborted' = aborted
      BY <2>1, <2>3, Zenon DEF append
    <3>2. stream_' = Spaces(PrefixSize) \o MessageOf(given')
      <4>1. Spaces(PrefixSize) \in Seq(Nat)
        BY StreamConstants, SpacesType, Zenon
      <4>2. (Spaces(PrefixSize) \o old) \o text = Spaces(PrefixSize) \o (old \o text)
        <5>1. old \in Seq(Nat) /\ text \in Seq(Nat)
          BY ONLY <1>4, Zenon
        <5> QED
          BY ONLY <4>1, <5>1, Regrouped, Zenon
      <4> QED
        BY ONLY <1>4, <1>6, <3>1, <4>2, Zenon
    <3>3. PrefixSize + Len(MessageOf(given')) <= Capacity
      BY <1>4, <1>5, <1>7, <2>3, StreamConstants
    <3>4. \A m \in FmtSizes(given') : m < FmtSize
      <4>1. \A m \in FmtSizes(given) : m < FmtSize
        BY <1>2, Zenon DEF Unfinished
      <4>2. type \notin {"slice", "bool"} => Len(text) < FmtSize
        BY <1>5, <1>9, StreamConstants
      <4> QED
        BY <1>4, <4>1, <4>2, Zenon
    <3>5. Unfinished'
      BY <3>2, <3>3, <3>4, Zenon DEF Unfinished
    <3> QED
      BY <1>1, <1>2, <1>3, <3>1, <3>5, Zenon DEF StreamInv
  <2> QED
    BY <2>2, <2>3, Zenon
<1> QED
  BY <1>8, <1>9, Zenon

LEMMA SetSliceKeepsInv ==
  ASSUME StreamInv, NEW s \in Slices, SetSlice(s) PROVE StreamInv'
BY Zenon DEF SetSlice, StreamInv, Unfinished, Finished

(* ~Logger() completes the entry and hands it to stdout. *)
LEMMA SendKeepsInv ==
  ASSUME StreamInv, Send PROVE StreamInv'
<1> DEFINE old  == MessageOf(given)
           tail == Spaces(Overhead - PrefixSize)
<1>1. ~aborted /\ ~sent /\ append(tail) /\ sent' = ~aborted' /\ UNCHANGED <<slice, given>>
  BY Zenon DEF Send
<1>2. /\ Unfinished /\ slice' \in Slices /\ given' \in Seq(Pieces)
      /\ \A i \in 1..Len(given') : Text(given'[i]) \in Seq(Nat)
      /\ HasLongest(FmtSizes(given'))
  BY <1>1, Zenon DEF StreamInv
<1>3. Len(given) \in Nat
  BY DEF StreamInv
<1>4. old \in Seq(Nat)
  BY <1>3, MessageType, Zenon DEF StreamInv
<1>5. /\ Spaces(PrefixSize) \in Seq(Nat) /\ Len(Spaces(PrefixSize)) = PrefixSize
      /\ tail \in Seq(Nat) /\ Len(tail) = Overhead - PrefixSize
  BY StreamConstants, SpacesType, Zenon
<1>6. stream_ = Spaces(PrefixSize) \o old
  BY <1>2, Zenon DEF Unfinished
<1> HIDE DEF old, tail
<1>7. stream_ \in Seq(Nat) /\ Len(stream_) = PrefixSize + Len(old) /\ Len(old) \in Nat
  <2>1. /\ Spaces(PrefixSize) \o old \in Seq(Nat)
        /\ Len(Spaces(PrefixSize) \o old) = Len(Spaces(PrefixSize)) + Len(old)
    BY ONLY <1>4, <1>5, ConcatProperties, Zenon
  <2>2. Len(old) \in Nat
    BY <1>4
  <2> QED
    BY ONLY <1>5, <1>6, <2>1, <2>2, Zenon
<1>8. CASE Len(tail) > Capacity - Len(stream_)
  <2>1. aborted' = TRUE
    BY <1>1, <1>8, Zenon DEF append
  <2>2. sent' = FALSE
    BY <1>1, <2>1, Zenon
  <2>3. Overhead + Len(MessageOf(given)) > Capacity
    BY <1>5, <1>7, <1>8, StreamConstants DEF old
  <2>4. EntryFails(MessageSize(given'))
    BY <1>1, <2>3, MessageTooLong, Zenon
  <2> QED
    BY <1>2, <2>1, <2>2, <2>4, Zenon DEF StreamInv
<1>9. CASE ~(Len(tail) > Capacity - Len(stream_))
  <2>1. stream_' = stream_ \o tail /\ aborted' = aborted
    BY <1>1, <1>9, Zenon DEF append
  <2>2. aborted' = FALSE /\ sent' = TRUE
    <3>1. aborted = FALSE
      BY <1>1, Zenon DEF StreamInv
    <3> QED
      BY <1>1, <2>1, <3>1, Zenon
  <2>3. /\ stream_' \in Seq(Nat) /\ Len(stream_') = Overhead + Len(old)
        /\ Overhead + Len(old) <= Capacity
    <3>1. stream_ \o tail \in Seq(Nat) /\ Len(stream_ \o tail) = Len(stream_) + Len(tail)
      BY ONLY <1>5, <1>7, ConcatProperties, Zenon
    <3> QED
      BY <1>5, <1>7, <1>9, <2>1, <3>1, StreamConstants
  <2>4. /\ ~EntryFails(MessageSize(given))
        /\ EntrySize(MessageSize(given)) = Overhead + Len(old)
    <3>1. HasLongest(FmtSizes(given)) /\ \A m \in FmtSizes(given) : m < FmtSize
      BY <1>2, Zenon DEF Unfinished, StreamInv
    <3> QED
      BY <1>7, <2>3, <3>1, MessageFits, Zenon DEF old
  <2>5. stream_' = Spaces(PrefixSize) \o MessageOf(given') \o tail
    BY <1>1, <1>6, <2>1, Zenon DEF old
  <2>6. ASSUME Len(stream_') < Capacity, NoNul(stream_') PROVE output' = stream_'
    <3>1. output' \in DefaultDestination(stream_')
      BY <2>2, Zenon DEF Send
    <3>2. {i \in DOMAIN stream_' : stream_'[i] = 0} = {}
      BY <2>6, Zenon DEF NoNul
    <3>3. Len(stream_') # Capacity
      BY <2>3, <2>6, StreamConstants
    <3>4. DefaultDestination(stream_') = {stream_'}
      BY <2>6, <3>2, <3>3, Zenon DEF DefaultDestination
    <3> QED
      BY <3>1, <3>4, Zenon
  <2>7. Finished'
    BY <1>1, <2>3, <2>4, <2>5, <2>6, Zenon DEF Finished, tail
  <2> QED
    BY <1>2, <2>2, <2>7, Zenon DEF StreamInv
<1> QED
  BY <1>8, <1>9, Zenon

(* A statement begins with nothing but the prefix. *)
LEMMA FreshStatement ==
  /\ <<>> \in Seq(Pieces) /\ \A i \in 1..Len(<<>>) : Text(<<>>[i]) \in Seq(Nat)
  /\ FmtSizes(<<>>) = {} /\ HasLongest(FmtSizes(<<>>))
  /\ Spaces(PrefixSize) = Spaces(PrefixSize) \o MessageOf(<<>>)
  /\ PrefixSize + Len(MessageOf(<<>>)) <= Capacity
<1>1. <<>> \in Seq(Pieces) /\ Len(<<>>) = 0 /\ 1..Len(<<>>) = {}
  OBVIOUS
<1>2. FmtSizes(<<>>) = {}
  BY <1>1, Zenon DEF FmtSizes
<1>3. HasLongest({})
  BY DEF HasLongest
<1>4. Spaces(PrefixSize) \in Seq(Nat)
  BY StreamConstants, SpacesType, Zenon
<1>5. Spaces(PrefixSize) \o <<>> = Spaces(PrefixSize)
  BY <1>4, ConcatEmptySeq, Zenon
<1>6. PrefixSize + 0 <= Capacity
  BY StreamConstants
<1> QED
  BY <1>1, <1>2, <1>3, <1>5, <1>6, MessageOfNothing, Zenon

LEMMA FreshKeepsInv ==
  /\ Init => StreamInv
  /\ StreamInv /\ NextStatement => StreamInv'
<1>1. Init => StreamInv
  BY EmptySlice, FreshStatement, Zenon DEF Init, StreamInv, Unfinished
<1>2. ASSUME StreamInv, NextStatement PROVE StreamInv'
  <2>1. /\ ~aborted /\ sent' = FALSE /\ stream_' = Spaces(PrefixSize) /\ given' = <<>>
        /\ slice' = slice /\ aborted' = aborted
    BY <1>2, Zenon DEF NextStatement
  <2>2. slice' \in Slices /\ aborted' = FALSE
    BY <1>2, <2>1, Zenon DEF StreamInv
  <2>3. Unfinished'
    BY <2>1, FreshStatement, Zenon DEF Unfinished
  <2> QED
    BY <2>1, <2>2, <2>3, FreshStatement, Zenon DEF StreamInv
<1> QED
  BY <1>1, <1>2

LEMMA StreamStays == StreamInv /\ [Next]_vars => StreamInv'
<1> SUFFICES ASSUME StreamInv, [Next]_vars PROVE StreamInv'
  OBVIOUS
<1>0. slice \in Slices
  BY Zenon DEF StreamInv
<1>1. ASSUME NEW s \in Slices, Assign(s) PROVE StreamInv'
  BY <1>1, SetSliceKeepsInv, Zenon DEF Assign
<1>2. CASE clear
  BY <1>2, EmptySlice, SetSliceKeepsInv, Zenon DEF clear
<1>3. ASSUME NEW n \in 0..MaxSliceSize, remove_prefix(n) PROVE StreamInv'
  <2>1. n \in Nat /\ n <= Len(slice) /\ SetSlice(SubSeq(slice, n + 1, Len(slice)))
    BY <1>3, SliceConstants DEF remove_prefix
  <2>2. SubSeq(slice, n + 1, Len(slice)) \in Slices
    BY <1>0, <2>1, RestIsSlice, Zenon
  <2> QED
    BY <2>1, <2>2, SetSliceKeepsInv, Zenon
<1>4. ASSUME NEW type \in Types, NEW n \in Numbers(type), InsertNumber(type, n)
      PROVE  StreamInv'
  <2>1. type \notin {"slice", "bool"}
    BY Zenon DEF Types, SignedTypes, UnsignedTypes
  <2>2. <<n>> \in Seq(Int)
    BY NumbersAreIntegers
  <2>3. Shown(type, n) = Expected(type, <<n>>) /\ Shown(type, n) \in Seq(Nat)
    BY ShownAsExpected, Zenon
  <2>4. Insert(type, <<n>>)
    BY <1>4, Zenon DEF InsertNumber
  <2>5. IF type \notin {"slice", "bool"} /\ Len(Expected(type, <<n>>)) >= FmtSize
        THEN aborted' = TRUE /\ UNCHANGED stream_
        ELSE append(Expected(type, <<n>>))
    BY <1>4, <2>1, <2>3, Zenon DEF InsertNumber
  <2> QED
    BY <2>2, <2>3, <2>4, <2>5, InsertKeepsInv, Zenon
<1>5. ASSUME NEW v \in 0..1, InsertBool(v) PROVE StreamInv'
  <2>1. <<v>> \in Seq(Int) /\ v \in Nat /\ ~(v < 0) /\ <<v>>[1] = v
    OBVIOUS
  <2>2. Expected("bool", <<v>>) = Digits(v)
    BY <2>1 DEF Expected, Misprinted, Value, Numeral
  <2>3. Digits(v) \in Seq(Nat)
    BY <2>1, DigitsType, Zenon
  <2>4. Insert("bool", <<v>>) /\ append(Digits(v))
    BY <1>5, Zenon DEF InsertBool
  <2> QED
    BY <2>1, <2>2, <2>3, <2>4, InsertKeepsInv, Zenon
<1>6. CASE InsertSlice
  <2>1. slice \in Seq(Nat)
    BY <1>0, SlicesAreBytes, Zenon
  <2>2. slice \in Seq(Int)
    BY <2>1
  <2>3. Expected("slice", slice) = slice
    BY DEF Expected, Misprinted, Value
  <2>4. Insert("slice", slice) /\ append(slice)
    BY <1>6, Zenon DEF InsertSlice
  <2> QED
    BY <2>1, <2>2, <2>3, <2>4, InsertKeepsInv, Zenon
<1>7. CASE UNCHANGED vars
  BY <1>7, Zenon DEF vars, StreamInv, Unfinished, Finished
<1> QED
  BY <1>1, <1>2, <1>3, <1>4, <1>5, <1>6, <1>7, SendKeepsInv, FreshKeepsInv, Zenon
     DEF Next

(* For integer types of any width, buffers, numbers and slices of any size *)
(* and statements of any length: an entry that is sent is the right text   *)
(* of what was inserted, in order, but for the numbers of Misprinted();    *)
(* stdout gets all of it if it has no 0 and is shorter than the            *)
(* FixedBuffer; and the assertions fail exactly for the messages for which *)
(* EntryFails() tells the users of the log so.                             *)
THEOREM EntriesAsExpected == Spec => []EntryText
<1>1. StreamInv => EntryText
  BY Zenon DEF StreamInv, Finished, EntryText
<1> QED
  BY <1>1, FreshKeepsInv, StreamStays, PTL DEF Spec

-----------------------------------------------------------------------------
(* What a reader can tell from a number in the log. *)

LEMMA SameAppended ==
  \A s, t \in Seq(Nat) : \A e, f \in Nat :
    Append(s, e) = Append(t, f) => s = t /\ e = f
BY AppendInjective

LEMMA DigitsInjective ==
  \A m, n \in Nat : Digits(m) = Digits(n) => m = n
<1> DEFINE Bad == {m \in Nat : \E n \in Nat : Digits(m) = Digits(n) /\ m # n}
<1> SUFFICES ASSUME Bad # {} PROVE FALSE
  OBVIOUS
<1>1. PICK m \in Bad : \A k \in Bad : m <= k
  BY LeastNatural, Zenon
<1>2. PICK n \in Nat : Digits(m) = Digits(n) /\ m # n
  BY <1>1, Zenon
<1>3. m \in Nat /\ n \in Bad /\ m <= n
  BY <1>1, <1>2, Zenon
<1>4. \A k \in Nat : k >= 10 => k \div 10 \in Nat /\ k \div 10 < k
  BY TenthIsLess
<1>5. \A k \in Nat : LastDigit(k) = 48 + (k % 10)
  BY DEF LastDigit, Char
<1>6. CASE m < 10 /\ n < 10
  <2>1. <<LastDigit(m)>> = <<LastDigit(n)>>
    BY <1>2, <1>3, <1>6, DigitsAre, Zenon
  <2>2. LastDigit(m) = LastDigit(n)
    BY <2>1
  <2> QED
    BY <1>2, <1>3, <1>5, <1>6, <2>2
<1>7. CASE m < 10 /\ n >= 10
  <2>1. Digits(n \div 10) \in Seq(Nat) /\ Len(Digits(n \div 10)) > 0
    BY <1>4, <1>7, DigitsType, Zenon
  <2>2. <<LastDigit(m)>> = Append(Digits(n \div 10), LastDigit(n))
    BY <1>2, <1>3, <1>7, DigitsAre, Zenon
  <2>3. Len(Append(Digits(n \div 10), LastDigit(n))) = Len(Digits(n \div 10)) + 1
    BY <2>1
  <2>4. Len(<<LastDigit(m)>>) = 1 /\ Len(Digits(n \div 10)) \in Nat
    BY <2>1
  <2> QED
    BY ONLY <2>1, <2>2, <2>3, <2>4
<1>8. CASE m >= 10
  <2>1. n >= 10
    BY <1>3, <1>8
  <2>2. /\ Digits(m \div 10) \in Seq(Nat) /\ Digits(n \div 10) \in Seq(Nat)
        /\ m \div 10 \in Nat /\ n \div 10 \in Nat /\ ~(m <= m \div 10)
    <3>1. /\ m \div 10 \in Nat /\ n \div 10 \in Nat /\ ~(m <= m \div 10)
      BY ONLY <1>3, <1>4, <1>8, <2>1, n \in Nat
    <3> QED
      BY ONLY <3>1, DigitsType, Zenon
  <2>3. Append(Digits(m \div 10), LastDigit(m)) = Append(Digits(n \div 10), LastDigit(n))
    BY <1>2, <1>3, <1>8, <2>1, DigitsAre, Zenon
  <2>4. LastDigit(m) \in Nat /\ LastDigit(n) \in Nat
    BY <1>3, LastDigitType, Zenon
  <2>5. Digits(m \div 10) = Digits(n \div 10) /\ LastDigit(m) = LastDigit(n)
    BY ONLY <2>2, <2>3, <2>4, SameAppended, SMTT(30)
  <2>6. m \div 10 = n \div 10
    BY ONLY <1>1, <2>2, <2>5, Zenon
  <2>7. m % 10 = n % 10
    BY <1>3, <1>5, <2>5
  <2> QED
    BY ONLY <1>2, <1>3, <2>6, <2>7
<1> QED
  BY <1>3, <1>6, <1>7, <1>8

LEMMA SameAfter ==
  ASSUME NEW s \in Seq(Nat), NEW t \in Seq(Nat), NEW c \in Nat, <<c>> \o s = <<c>> \o t
  PROVE  s = t
<1>1. /\ Len(<<c>> \o s) = Len(s) + 1 /\ Len(<<c>> \o t) = Len(t) + 1
      /\ Len(s) \in Nat /\ Len(t) \in Nat
  OBVIOUS
<1>2. Len(s) = Len(t)
  BY ONLY <1>1, <<c>> \o s = <<c>> \o t
<1>3. \A i \in 1..Len(s) : (<<c>> \o s)[i + 1] = s[i]
  OBVIOUS
<1>4. \A i \in 1..Len(t) : (<<c>> \o t)[i + 1] = t[i]
  OBVIOUS
<1>5. \A i \in 1..Len(s) : s[i] = t[i]
  BY ONLY <1>2, <1>3, <1>4, <<c>> \o s = <<c>> \o t, Zenon
<1> QED
  BY <1>2, <1>5, SeqEqual, Zenon

LEMMA SameBefore ==
  ASSUME NEW s \in Seq(Nat), NEW t \in Seq(Nat), NEW c \in Nat, s \o <<c>> = t \o <<c>>
  PROVE  s = t
<1>1. s \o <<c>> = Append(s, c) /\ t \o <<c>> = Append(t, c)
  OBVIOUS
<1>2. Append(s, c) = Append(t, c)
  BY ONLY <1>1, s \o <<c>> = t \o <<c>>, Zenon
<1> QED
  BY ONLY <1>2, SameAppended, s \in Seq(Nat), t \in Seq(Nat), c \in Nat, Zenon

LEMMA NumeralInjective ==
  \A m, n \in Int : Numeral(m) = Numeral(n) => m = n
<1>1. ASSUME NEW k \in Int, k < 0
      PROVE  /\ Numeral(k) = <<45>> \o Digits(-k) /\ -k \in Nat
             /\ Digits(-k) \in Seq(Nat) /\ Numeral(k)[1] = 45
  <2>1. -k \in Nat
    BY <1>1
  <2>2. Digits(-k) \in Seq(Nat)
    BY <2>1, DigitsType, Zenon
  <2>3. Char.minus = 45
    BY DEF Char
  <2>4. Numeral(k) = <<45>> \o Digits(-k)
    BY <1>1, <2>3, Zenon DEF Numeral
  <2>5. (<<45>> \o Digits(-k))[1] = 45
    BY <2>2
  <2> QED
    BY <2>1, <2>2, <2>4, <2>5, Zenon
<1>2. ASSUME NEW k \in Int, ~(k < 0)
      PROVE  Numeral(k) = Digits(k) /\ k \in Nat /\ Numeral(k)[1] # 45
  <2>1. k \in Nat
    BY <1>2
  <2>2. Digits(k) \in Seq(48..57) /\ Len(Digits(k)) > 0
    BY <2>1, DigitsType, Zenon
  <2>3. Digits(k)[1] # 45
    BY <2>2
  <2> QED
    BY <1>2, <2>1, <2>3, Zenon DEF Numeral
<1> SUFFICES ASSUME NEW m \in Int, NEW n \in Int, Numeral(m) = Numeral(n)
             PROVE  m = n
  OBVIOUS
<1>3. CASE m < 0 /\ n < 0
  <2>1. <<45>> \o Digits(-m) = <<45>> \o Digits(-n)
    BY <1>1, <1>3, Zenon
  <2>2. Digits(-m) \in Seq(Nat) /\ Digits(-n) \in Seq(Nat)
    BY <1>1, <1>3, Zenon
  <2>3. 45 \in Nat
    OBVIOUS
  <2>4. Digits(-m) = Digits(-n)
    BY ONLY <2>1, <2>2, <2>3, SameAfter, Zenon
  <2>5. -m \in Nat /\ -n \in Nat
    BY <1>3
  <2>6. -m = -n
    BY <2>4, <2>5, DigitsInjective, Zenon
  <2> QED
    BY <2>6
<1>4. CASE ~(m < 0) /\ ~(n < 0)
  BY <1>2, <1>4, DigitsInjective, Zenon
<1>5. m < 0 <=> n < 0
  BY <1>1, <1>2, ZenonT(30)
<1> QED
  BY <1>3, <1>4, <1>5, Zenon

(* Two numbers of one signed type, or two unsigned chars, shorts or ints,  *)
(* never have the same text in the log, although an unsigned int may be    *)
(* shown negative.  The unsigned long types are left out: "%uld" drops     *)
(* their upper bits.                                                       *)
THEOREM NumbersTellApart ==
  \A type \in SignedTypes \cup {"uchar", "ushort", "uint"} :
    \A m, n \in Numbers(type) : Shown(type, m) = Shown(type, n) => m = n
<1> SUFFICES ASSUME NEW type \in SignedTypes \cup {"uchar", "ushort", "uint"},
                    NEW m \in Numbers(type), NEW n \in Numbers(type),
                    Shown(type, m) = Shown(type, n)
             PROVE  m = n
  OBVIOUS
<1>1. type \in Types
  BY DEF Types, UnsignedTypes
<1>2. m \in Int /\ n \in Int
  BY <1>1, NumbersAreIntegers, Zenon
<1>3. Printed(type, m) = Printed(type, n)
  BY <1>1, ShownAsPrinted, Zenon
<1>4. CASE type = "char"
  <2>1. /\ m \in -(CharValues \div 2) .. (CharValues \div 2 - 1)
        /\ n \in -(CharValues \div 2) .. (CharValues \div 2 - 1)
    BY <1>4 DEF Numbers, ValuesOf, SignedTypes, UnsignedTypes
  <2>2. \A k \in Int : Printed(type, k) = <<IF k < 0 THEN k + CharValues ELSE k>>
    BY <1>4 DEF Printed
  <2>3. (IF m < 0 THEN m + CharValues ELSE m) = (IF n < 0 THEN n + CharValues ELSE n)
    BY <1>2, <1>3, <2>2
  <2> QED
    BY <1>2, <2>1, <2>3, ValuesTypes
<1>5. CASE type \in {"short", "int", "long", "llong", "ushort"}
  <2>1. \A k \in Int : Printed(type, k) = Numeral(k)
    BY <1>5 DEF Printed
  <2> QED
    BY <1>2, <1>3, <2>1, NumeralInjective, Zenon
<1>6. CASE type = "uint"
  <2>1. m \in 0..(IntValues - 1) /\ n \in 0..(IntValues - 1)
    BY <1>6 DEF Numbers, ValuesOf, SignedTypes, UnsignedTypes
  <2> DEFINE low(k) == IF k >= IntValues \div 2 THEN k - IntValues ELSE k
  <2>2. \A k \in Int : Printed(type, k) = Numeral(low(k))
    BY <1>6 DEF Printed
  <2>3. low(m) \in Int /\ low(n) \in Int
    BY <1>2, ValuesTypes
  <2>4. Numeral(low(m)) = Numeral(low(n))
    BY <1>2, <1>3, <2>2, Zenon
  <2>5. low(m) = low(n)
    <3> HIDE DEF low
    <3> QED
      BY <2>3, <2>4, NumeralInjective, Zenon
  <2> QED
    BY <1>2, <2>1, <2>5, ValuesTypes
<1>7. CASE type = "uchar"
  <2>1. \A k \in Int : Printed(type, k) = Numeral(k) \o <<Char.c>>
    BY <1>7 DEF Printed
  <2>2. Numeral(m) \o <<Char.c>> = Numeral(n) \o <<Char.c>>
    BY <1>2, <1>3, <2>1, Zenon
  <2>3. Char.c \in Nat
    BY DEF Char
  <2>4. Numeral(m) \in Seq(Nat) /\ Numeral(n) \in Seq(Nat)
    BY <1>2, NumeralType, Zenon
  <2>5. Numeral(m) = Numeral(n)
    BY ONLY <2>2, <2>3, <2>4, SameBefore, Zenon
  <2> QED
    BY <1>2, <2>5, NumeralInjective, Zenon
<1> QED
  BY <1>4, <1>5, <1>6, <1>7 DEF SignedTypes
=============================================================================
