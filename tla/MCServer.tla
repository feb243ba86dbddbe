------------------------------ MODULE MCServer ------------------------------
(* Small instance of Server: the clients are interchangeable, but liveness is *)
(* checked, so no symmetry is used.                                           *)
EXTENDS Server
=============================================================================
