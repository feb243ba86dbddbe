-------------------------- MODULE MCTcpConnection ---------------------------
(* Small instance of TcpConnection, its bounds given by the .cfg files. *)
EXTENDS TcpConnection
=============================================================================
