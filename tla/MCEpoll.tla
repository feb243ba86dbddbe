------------------------------ MODULE MCEpoll -------------------------------
(* Small instance of Epoll: the handlers are model values, interchangeable. *)
EXTENDS Epoll, TLC

HandlerSymmetry == Permutations(Handlers)
=============================================================================
