--------------------------- MODULE MCAsyncLogging ---------------------------
(* Small instances of AsyncLogging with its LogFile and the entries of     *)
(* LogEntry for TLC; the constants are in the .cfg files.                  *)
EXTENDS AsyncLogging

(* With one byte of overhead and buffers of two: an entry that shares a    *)
(* buffer, one that fills it, one that is too long, and one with a number  *)
(* that is too long.                                                       *)
MCMessages == {[bytes |-> 0, number |-> 0], [bytes |-> 1, number |-> 1],
               [bytes |-> 2, number |-> 0], [bytes |-> 1, number |-> 2]}

MCShortMessages == {m \in MCMessages : ~EntryFails(m)}
=============================================================================
