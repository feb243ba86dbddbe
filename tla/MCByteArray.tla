----------------------------- MODULE MCByteArray ----------------------------
(* Small instance of ByteArray: a few nodes of a few bytes. *)
EXTENDS ByteArray
=============================================================================
