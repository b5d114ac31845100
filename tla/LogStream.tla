----------------------------- MODULE LogStream -----------------------------
(***************************************************************************)
(* How a log entry is made: Slice (include/polly/slice.h), LogStream and   *)
(* Fmt (log/log_stream.h, .cc) and Logger (log/logger.h, .cc), as a thread *)
(* that works on a Slice and executes LOG_ statements one after the other. *)
(*                                                                         *)
(* A slice is the sequence of its bytes, a byte is a number.  A number of  *)
(* a C++ type is an integer of its range; a char has CharValues values,    *)
(* 2^8 in the code, and so on for short, int and long (2^16, 2^32, 2^64).  *)
(* A double is only told by the length of its text.                        *)
(***************************************************************************)
EXTENDS LogEntry, Integers, Sequences

CONSTANTS CharValues, ShortValues, IntValues, LongValues,
          Bytes,        \* what slices are made of
          DoubleSizes,  \* lengths of doubles in "%f"
          PrefixSize,   \* how much of Overhead comes before the message
          MaxSliceSize, \* bound: bytes of a Slice
          MaxPieces     \* bound: insertions in one statement

ASSUME LogStreamAssumption ==
  /\ \A values \in {CharValues, ShortValues, IntValues, LongValues} :
       values \in Nat /\ values > 0 /\ values % 2 = 0
  /\ CharValues <= ShortValues /\ 2 * ShortValues <= IntValues
  /\ IntValues <= LongValues
  /\ Bytes \subseteq Nat /\ DoubleSizes \subseteq Nat
  /\ PrefixSize \in 0..Overhead /\ PrefixSize <= Capacity
  /\ MaxSliceSize \in Nat /\ MaxPieces \in Nat

VARIABLES slice,   \* a Slice of the program
          stream_, \* what the Logger's FixedBuffer holds
          given,   \* what was inserted: [type, arg], arg a slice or <<number>>
          sent,    \* the Logger is destroyed
          output,  \* what DefaultDestination() wrote of the entry
          aborted  \* an assertion failed

vars == <<slice, stream_, given, sent, output, aborted>>

-----------------------------------------------------------------------------
(* Slice *)

Slices == UNION {[1..n -> Bytes] : n \in 0..MaxSliceSize}

(* memcmp() of the first n bytes. *)
memcmp(a, b, n) ==
  LET Differ == {i \in 1..n : a[i] # b[i]}
      first  == CHOOSE i \in Differ : \A j \in Differ : i <= j
  IN  IF Differ = {} THEN 0 ELSE a[first] - b[first]

compare_NoLength(a, b) ==
  memcmp(a, b, IF Len(a) < Len(b) THEN Len(a) ELSE Len(b))

compare(a, b) ==
  LET r == memcmp(a, b, IF Len(a) < Len(b) THEN Len(a) ELSE Len(b))
  IN  CASE r # 0                    -> r
        [] r = 0 /\ Len(a) < Len(b) -> -1
        [] r = 0 /\ Len(a) > Len(b) -> 1
        [] OTHER                    -> 0

starts_with(a, x) == Len(a) >= Len(x) /\ memcmp(a, x, Len(x)) = 0

Equal(x, y) == Len(x) = Len(y) /\ memcmp(x, y, Len(x)) = 0

SetSlice(s) == slice' = s /\ UNCHANGED <<stream_, given, sent, output, aborted>>

(* Slice(d, n) *)
Assign(s) == ~aborted /\ SetSlice(s)

clear == ~aborted /\ SetSlice(<<>>)

remove_prefix(n) ==
  /\ ~aborted /\ n <= Len(slice)
  /\ SetSlice(SubSeq(slice, n + 1, Len(slice)))

-----------------------------------------------------------------------------
(* Numbers: what snprintf() makes of an argument. *)

Char == [zero |-> 48, minus |-> 45, c |-> 99, l |-> 108, d |-> 100, space |-> 32]

Digits(n) ==
  LET digit(m) == Char.zero + (m % 10)
      text[m \in 0..n] == IF m < 10 THEN <<digit(m)>>
                                    ELSE Append(text[m \div 10], digit(m))
  IN  text[n]

Numeral(n) == IF n < 0 THEN <<Char.minus>> \o Digits(-n) ELSE Digits(n)

(* The argument as a signed number of a type with that many values. *)
Signed(n, values) ==
  LET low == n % values IN IF low < values \div 2 THEN low ELSE low - values

ValuesOf(type) ==
  CASE type \in {"char", "uchar"}                    -> CharValues
    [] type \in {"short", "ushort"}                  -> ShortValues
    [] type \in {"int", "uint"}                      -> IntValues
    [] type \in {"long", "ulong", "llong", "ullong"} -> LongValues

SignedTypes == {"char", "short", "int", "long", "llong"}
UnsignedTypes == {"uchar", "ushort", "uint", "ulong", "ullong"}
Types == SignedTypes \cup UnsignedTypes \cup {"double"}

Numbers(type) ==
  LET half == ValuesOf(type) \div 2
  IN  CASE type \in SignedTypes   -> -half .. (half - 1)
        [] type \in UnsignedTypes -> 0 .. (ValuesOf(type) - 1)
        [] type = "double"        -> DoubleSizes

(* A conversion takes its bits of the argument; what follows it in the     *)
(* format is printed as it stands: "ld" after "%u".                        *)
snprintf(format, n) ==
  LET u == Numeral(n % IntValues)
  IN  CASE format = "%c"              -> <<n % CharValues>>
        [] format = "%d"              -> Numeral(Signed(n, IntValues))
        [] format \in {"%ld", "%lld"} -> Numeral(Signed(n, LongValues))
        [] format = "%uc"             -> u \o <<Char.c>>
        [] format = "%uld"            -> u \o <<Char.l, Char.d>>
        [] format = "%ulld"           -> u \o <<Char.l, Char.l, Char.d>>
        [] format = "%f"              -> [i \in 1..n |-> Char.zero]

(* The format each operator<< passes to Fmt. *)
FormatOf_LongAsInt(type) ==
  CASE type \in {"short", "ushort", "int", "uint", "long"} -> "%d"
    [] type = "llong" -> "%lld"   [] type = "char"   -> "%c"
    [] type = "uchar" -> "%uc"    [] type = "double" -> "%f"
    [] type = "ulong" -> "%uld"   [] type = "ullong" -> "%ulld"

FormatOf(type) ==
  CASE type \in {"short", "ushort", "int", "uint"} -> "%d"
    [] type = "char"  -> "%c"     [] type = "uchar"  -> "%uc"
    [] type = "long"  -> "%ld"    [] type = "llong"  -> "%lld"
    [] type = "ulong" -> "%uld"   [] type = "ullong" -> "%ulld"
    [] type = "double" -> "%f"

Shown(type, n) == snprintf(FormatOf(type), n)

-----------------------------------------------------------------------------
(* LogStream and Logger *)

Spaces(n) == [i \in 1..n |-> Char.space]

Init ==
  /\ slice = <<>> /\ stream_ = Spaces(PrefixSize) /\ given = <<>>
  /\ sent = FALSE /\ output = <<>> /\ aborted = FALSE

(* FixedBuffer::append *)
append(text) ==
  IF Len(text) > Capacity - Len(stream_)
  THEN aborted' = TRUE /\ UNCHANGED stream_
  ELSE stream_' = stream_ \o text /\ UNCHANGED aborted

Insert(type, arg) ==
  /\ ~aborted /\ ~sent /\ Len(given) < MaxPieces
  /\ given' = Append(given, [type |-> type, arg |-> arg])
  /\ UNCHANGED <<slice, sent, output>>

(* operator<< of a number: Fmt, and append() of its text. *)
InsertNumber(type, n) ==
  /\ Insert(type, <<n>>)
  /\ IF Len(Shown(type, n)) >= FmtSize
     THEN aborted' = TRUE /\ UNCHANGED stream_
     ELSE append(Shown(type, n))

InsertBool(v) == Insert("bool", <<v>>) /\ append(Digits(v))

(* operator<< of a Slice, a string or a char *. *)
InsertSlice == Insert("slice", slice) /\ append(slice)

(* DefaultDestination: fputs() writes up to the first 0, which may be one  *)
(* of the entry's bytes, one that bzero() left behind it, or, if the entry *)
(* fills the FixedBuffer, one somewhere beyond that.                       *)
DefaultDestination(entry) ==
  LET nuls  == {i \in DOMAIN entry : entry[i] = 0}
      first == CHOOSE i \in nuls : \A j \in nuls : i <= j
  IN  CASE nuls # {}                          -> {SubSeq(entry, 1, first - 1)}
        [] nuls = {} /\ Len(entry) < Capacity -> {entry}
        [] nuls = {} /\ Len(entry) = Capacity -> {entry, entry \o Spaces(1)}

(* ~Logger() *)
Send ==
  /\ ~aborted /\ ~sent /\ append(Spaces(Overhead - PrefixSize))
  /\ sent' = ~aborted'
  /\ IF sent' THEN output' \in DefaultDestination(stream_') ELSE UNCHANGED output
  /\ UNCHANGED <<slice, given>>

(* The next LOG_ statement that gLogLevel lets through. *)
NextStatement ==
  /\ ~aborted /\ sent /\ sent' = FALSE
  /\ stream_' = Spaces(PrefixSize) /\ given' = <<>> /\ output' = <<>>
  /\ UNCHANGED <<slice, aborted>>

Next ==
  \/ \E s \in Slices : Assign(s)
  \/ \E n \in 0..MaxSliceSize : remove_prefix(n)
  \/ \E type \in Types : \E n \in Numbers(type) : InsertNumber(type, n)
  \/ \E v \in 0..1 : InsertBool(v)
  \/ clear \/ InsertSlice \/ Send \/ NextStatement

Spec == Init /\ [][Next]_vars

-----------------------------------------------------------------------------
(* Properties *)

(* compare() is the total order its comment describes, "< 0 iff *this < b, *)
(* == 0 iff *this == b", also between a slice and a longer one it is a     *)
(* prefix of; and the slice starts with exactly those it is a continuation *)
(* of.                                                                     *)
SliceOrder ==
  \A b \in Slices :
    /\ compare(slice, b) = 0 <=> Equal(slice, b)
    /\ compare(slice, b) < 0 <=> compare(b, slice) > 0
    /\ Equal(slice, b) <=> slice = b
    /\ starts_with(slice, b) <=> \E rest \in Slices : slice = b \o rest
    /\ starts_with(slice, b) => compare(b, slice) <= 0
    /\ \A c \in Slices :
         compare(b, slice) < 0 /\ compare(slice, c) < 0 => compare(b, c) < 0

(* The right text of what is inserted: the bytes, the character, the       *)
(* number.                                                                 *)
Value(type, arg) ==
  CASE type = "slice"  -> arg
    [] type = "char"   -> <<IF arg[1] < 0 THEN arg[1] + CharValues ELSE arg[1]>>
    [] type = "double" -> [i \in 1..arg[1] |-> Char.zero]
    [] OTHER           -> Numeral(arg[1])

(* The numbers whose operator<< has the wrong format: the upper half of    *)
(* unsigned int ("%d"), and all of unsigned char, long and long long       *)
(* ("%uc", "%uld", "%ulld").                                               *)
Misprinted(type, n) ==
  \/ type \in {"uchar", "ulong", "ullong"}
  \/ type = "uint" /\ n >= IntValues \div 2

(* What the entry should have: the right text, except that nothing is      *)
(* asked of the numbers named by Misprinted().                             *)
Expected(type, arg) ==
  IF Misprinted(type, arg[1]) THEN Shown(type, arg[1]) ELSE Value(type, arg)

(* The text of one piece, and of several in a row. *)
Text(piece) == Expected(piece.type, piece.arg)

MessageOf(pieces) ==
  LET upto[i \in 0..Len(pieces)] ==
        IF i = 0 THEN <<>> ELSE upto[i - 1] \o Text(pieces[i])
  IN  upto[Len(pieces)]

(* The lengths of the texts that went through a Fmt. *)
FmtSizes(pieces) ==
  {Len(Text(pieces[i])) :
     i \in {j \in 1..Len(pieces) : pieces[j].type \notin {"slice", "bool"}}}

Longest(sizes) == CHOOSE n \in sizes \cup {0} : \A m \in sizes : m <= n

(* The message as the users of the log see it, in LogEntry. *)
MessageSize(pieces) ==
  [bytes |-> Len(MessageOf(pieces)), number |-> Longest(FmtSizes(pieces))]

NoNul(entry) == \A i \in DOMAIN entry : entry[i] # 0

(* An entry is the right text of what was inserted, in order, but for the  *)
(* numbers of Misprinted(), and all of it gets to stdout unless it has a 0 *)
(* in it or fills the FixedBuffer, for which nothing is said.  An          *)
(* assertion fails exactly for the messages EntryFails() says, on which    *)
(* the users of the log rely.                                              *)
EntryText ==
  /\ aborted => EntryFails(MessageSize(given))
  /\ sent => /\ ~EntryFails(MessageSize(given))
             /\ Len(stream_) = EntrySize(MessageSize(given))
             /\ stream_ = Spaces(PrefixSize) \o MessageOf(given) \o
                            Spaces(Overhead - PrefixSize)
             /\ Len(stream_) < Capacity /\ NoNul(stream_) => output = stream_
=============================================================================
