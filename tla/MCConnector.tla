----------------------------- MODULE MCConnector ----------------------------
(* Small instance of Connector, its bounds given by the .cfg files. *)
EXTENDS Connector
=============================================================================
