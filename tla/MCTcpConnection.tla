-------------------------- MODULE MCTcpConnection ---------------------------
(* TcpConnection on small sizes: messages of two units through a send       *)
(* buffer of one or two, so that writes are partial and the buffer is used. *)
EXTENDS TcpConnection
=============================================================================
