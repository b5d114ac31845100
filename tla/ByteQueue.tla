----------------------------- MODULE ByteQueue -----------------------------
(***************************************************************************)
(* What a Buffer promises: a queue of bytes that takes bytes at either end *)
(* and gives bytes from the front.  call is the last call made, with the   *)
(* bytes it put in or took out.                                            *)
(***************************************************************************)
EXTENDS Sequences

VARIABLES contents, call

Init == contents = <<>> /\ call = [op |-> "none", data |-> <<>>]

PutBack  == call'.op = "back" /\ contents' = contents \o call'.data
PutFront == call'.op = "front" /\ contents' = call'.data \o contents
Take     == call'.op = "take" /\ contents = call'.data \o contents'

Next == PutBack \/ PutFront \/ Take

Spec == Init /\ [][Next]_<<contents, call>>
=============================================================================
