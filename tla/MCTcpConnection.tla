-------------------------- MODULE MCTcpConnection --------------------------
(* Small instances of TcpConnection for TLC; the constants are in the .cfg *)
(* files.                                                                  *)
EXTENDS TcpConnection
=============================================================================
