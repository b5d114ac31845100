------------------------------ MODULE MCPoller ------------------------------
(* A small instance of Poller for TLC: four channels on three descriptors, *)
(* so that one descriptor is reused.                                       *)
EXTENDS Poller, TLC

CONSTANTS c1, c2, c3, c4

MCChannels == {c1, c2, c3, c4}
MCFdOf == c1 :> 3 @@ c2 :> 4 @@ c3 :> 5 @@ c4 :> 3
=============================================================================
