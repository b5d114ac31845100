---------------------------- MODULE MCLogStream ----------------------------
(* A small instance of LogStream for TLC; the constants are in the .cfg.   *)
EXTENDS LogStream
=============================================================================
