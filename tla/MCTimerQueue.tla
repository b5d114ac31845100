---------------------------- MODULE MCTimerQueue ----------------------------
(* Small instances of TimerQueue for TLC; the constants are in the .cfg    *)
(* files.                                                                  *)
EXTENDS TimerQueue
=============================================================================
