----------------------------- MODULE MCTimeWheel ----------------------------
(* Small instance of TimeWheel: every bucket count up to the bound. *)
EXTENDS TimeWheel
=============================================================================
