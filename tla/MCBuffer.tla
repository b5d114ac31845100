------------------------------ MODULE MCBuffer ------------------------------
(* Small instances of Buffer for TLC; the constants are in the .cfg file.  *)
EXTENDS Buffer
=============================================================================
