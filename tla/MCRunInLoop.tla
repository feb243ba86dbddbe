----------------------------- MODULE MCRunInLoop ----------------------------
(* Small instance of RunInLoop: every thread is a model value of the .cfg. *)
EXTENDS RunInLoop
=============================================================================
