---------------------------- MODULE MCEventLoop ----------------------------
(* Small instances of EventLoop for TLC; the constants are in the .cfg     *)
(* files.                                                                  *)
EXTENDS EventLoop
=============================================================================
