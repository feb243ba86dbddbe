---------------------------- MODULE FunctorQueue ----------------------------
(***************************************************************************)
(* What EventLoop::runInLoop promises, with no threads, no eventfd and no  *)
(* locks: functors enter one first-in first-out queue, the loop calls them *)
(* one at a time from its head, and the only other way out of the queue is *)
(* that an exception leaving the loop takes a prefix of it away.           *)
(***************************************************************************)
EXTENDS Naturals, Sequences

CONSTANT Functors       \* every functor that may ever be handed over

VARIABLES queue,        \* handed over and not called yet, oldest first
          ran           \* called, in calling order

avars == <<queue, ran>>

InSeq(f, s) == \E i \in 1..Len(s) : s[i] = f

AInit == queue = <<>> /\ ran = <<>>

\* A functor is handed over once.
Post(f) == /\ ~InSeq(f, queue)
           /\ ~InSeq(f, ran)
           /\ queue' = Append(queue, f)
           /\ UNCHANGED ran

\* The loop calls the oldest functor.
Call == /\ queue # <<>>
        /\ ran' = Append(ran, Head(queue))
        /\ queue' = Tail(queue)

\* An exception leaves the loop and the functors it had already fetched,
\* the k oldest, are destroyed without being called.
Lose(k) == /\ queue' = SubSeq(queue, k + 1, Len(queue))
           /\ UNCHANGED ran

ANext == \/ \E f \in Functors : Post(f)
         \/ Call
         \/ \E k \in 1..Len(queue) : Lose(k)

ASpec == AInit /\ [][ANext]_avars
=============================================================================
