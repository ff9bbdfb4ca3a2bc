---------------------------- MODULE MCTcpClient -----------------------------
(* TcpClient on small sets, for TLC. *)
EXTENDS TcpClient

\* A buffer that a write may split, an empty one, and more.
MCSize == <<2, 0, 1, 1>>
=============================================================================
