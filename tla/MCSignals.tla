----------------------------- MODULE MCSignals ------------------------------
(* Small instance of Signals: the loops are model values. *)
EXTENDS Signals
=============================================================================
