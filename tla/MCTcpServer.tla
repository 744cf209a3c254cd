---------------------------- MODULE MCTcpServer -----------------------------
(* TcpServer with a few peers, with and without io threads.                 *)
EXTENDS TcpServer
=============================================================================
