------------------------------ MODULE MCTimer -------------------------------
(* Small instance of Timer: a second of 3 milliseconds of 2 units. *)
EXTENDS Timer
=============================================================================
