----------------------------- MODULE MCLogFile -----------------------------
(* Small instances of LogFile for TLC; the constants are in the .cfg       *)
(* files.                                                                  *)
EXTENDS LogFile
=============================================================================
