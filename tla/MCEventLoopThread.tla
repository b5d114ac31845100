------------------------- MODULE MCEventLoopThread -------------------------
(* Small instances of EventLoopThread for TLC; the constants are in the    *)
(* .cfg files.                                                             *)
EXTENDS EventLoopThread
=============================================================================
