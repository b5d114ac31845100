------------------------------ MODULE LogEntry ------------------------------
(***************************************************************************)
(* What the users of the log see of one LOG_ statement: the size of its    *)
(* entry, and whether making it fails an assertion.  LogStream has the     *)
(* statement in detail.                                                    *)
(***************************************************************************)
EXTENDS Naturals

CONSTANTS Capacity, \* kSmallBufferSize, of every FixedBuffer
          FmtSize,  \* sizeof buf_ in Fmt
          Overhead  \* bytes Logger adds before and after a message

ASSUME LogEntryAssumption ==
  Capacity \in Nat /\ FmtSize \in Nat \ {0} /\ Overhead \in Nat

(* The Logger of one LOG_ statement puts together an entry, in a           *)
(* FixedBuffer: so many bytes of message, the longest number in it (a      *)
(* double in "%f" has up to 317 characters).  Assertions of Fmt and        *)
(* FixedBuffer::append fail when either is too long.                       *)
EntryFails(message) ==
  \/ message.number >= FmtSize
  \/ Overhead + message.bytes > Capacity

EntrySize(message) == Overhead + message.bytes
=============================================================================
