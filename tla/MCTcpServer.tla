---------------------------- MODULE MCTcpServer ----------------------------
(* Small instances of TcpServer for TLC: the listening socket and two      *)
(* connections, each with a descriptor of its own.                         *)
EXTENDS TcpServer, TLC

CONSTANTS c1, c2, l

Conns2 == {c1, c2}
Channels2 == Conns2 \cup {l}
FdOf2 == l :> 3 @@ c1 :> 4 @@ c2 :> 5
=============================================================================
