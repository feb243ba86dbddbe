---------------------------- MODULE MCThreadPool ----------------------------
(* Small instance of ThreadPool: every thread is a model value. *)
EXTENDS ThreadPool
=============================================================================
