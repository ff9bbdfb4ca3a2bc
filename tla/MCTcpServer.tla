----------------------------- MODULE MCTcpServer -----------------------------
(* TcpServer on small sets, for TLC. *)
EXTENDS TcpServer, TLC

\* Connections and endpoints are interchangeable: sound for the runs without liveness.
Symmetry == Permutations(Conns) \cup Permutations(Addrs)
=============================================================================
