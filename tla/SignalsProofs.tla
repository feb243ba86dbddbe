--------------------------- MODULE SignalsProofs ----------------------------
(***************************************************************************)
(* The invariants of Signals hold for any number of loops and any bounds.  *)
(* HandoverKeepsWatch speaks of the moment when every functor of with()    *)
(* has run; to get there, the inductive invariant says of every queue at   *)
(* every moment what its last functor with an effect will leave behind.  A *)
(* functor whose eventfd is written counts as the last one of its queue.   *)
(***************************************************************************)
EXTENDS Signals, TLAPS

(***************************************************************************)
(* What a queue of stop and add functors does to the handler r that the    *)
(* signalfd is registered with, when the functors of the handlers in D     *)
(* have no effect.                                                         *)
(***************************************************************************)
Queues == Seq({"add", "stop"} \X Handlers)

Effect(f) == IF f[1] = "add" THEN f[2] ELSE 0

Decides(q, D, i) ==
    q[i][2] \notin D /\ \A j \in 1..Len(q) : j > i => q[j][2] \in D

EndsWith(q, D, r, w) ==
    /\ (\A i \in 1..Len(q) : q[i][2] \in D) => r = w
    /\ \A i \in 1..Len(q) : Decides(q, D, i) => Effect(q[i]) = w

\* When nothing is left to run, the end has come.
LEMMA EmptyEnds ==
    ASSUME NEW D, NEW r, NEW w, EndsWith(<<>>, D, r, w)
    PROVE  r = w
BY DEF EndsWith

\* A functor with an effect that is posted last decides.
LEMMA AppendDecides ==
    ASSUME NEW q \in Queues, NEW f \in {"add", "stop"} \X Handlers, NEW D,
           f[2] \notin D, NEW r
    PROVE  EndsWith(Append(q, f), D, r, Effect(f))
<1> DEFINE p == Append(q, f)
<1>1. Len(p) = Len(q) + 1 /\ p[Len(p)] = f /\ Len(q) \in Nat
  BY DEF Queues
<1>2. ~\A i \in 1..Len(p) : p[i][2] \in D
  BY <1>1
<1>3. ASSUME NEW i \in 1..Len(p), Decides(p, D, i)
      PROVE  p[i] = f
  BY <1>1, <1>3 DEF Decides
<1> QED  BY <1>2, <1>3 DEF EndsWith

\* One without an effect changes nothing.
LEMMA AppendIgnored ==
    ASSUME NEW q \in Queues, NEW f \in {"add", "stop"} \X Handlers, NEW D,
           f[2] \in D, NEW r, NEW w, EndsWith(q, D, r, w)
    PROVE  EndsWith(Append(q, f), D, r, w)
<1> DEFINE p == Append(q, f)
<1>1. Len(p) = Len(q) + 1 /\ p[Len(p)] = f /\ Len(q) \in Nat
  BY DEF Queues
<1>2. \A i \in 1..Len(q) : p[i] = q[i] /\ i \in 1..Len(p)
  BY <1>1 DEF Queues
<1>3. (\A i \in 1..Len(p) : p[i][2] \in D) => r = w
  BY <1>2 DEF EndsWith
<1>4. ASSUME NEW i \in 1..Len(p), Decides(p, D, i)
      PROVE  Effect(p[i]) = w
  <2>1. i \in 1..Len(q)  BY <1>1, <1>4 DEF Decides
  <2>2. Decides(q, D, i)  BY <1>2, <1>4, <2>1 DEF Decides
  <2> QED  BY <1>2, <2>1, <2>2 DEF EndsWith
<1> QED  BY <1>3, <1>4 DEF EndsWith

\* Sequences of one length with the same elements are the same.
LEMMA SeqEqual ==
    ASSUME NEW T, NEW s \in Seq(T), NEW t \in Seq(T), Len(s) = Len(t),
           \A i \in 1..Len(s) : s[i] = t[i]
    PROVE  s = t
OBVIOUS

\* Appending to a sequence that is not empty leaves its head where it is.
LEMMA AppendSeq ==
    ASSUME NEW T, NEW q \in Seq(T), q # <<>>, NEW f \in T
    PROVE  /\ Append(q, f) \in Seq(T) /\ Append(q, f) # <<>>
           /\ Head(Append(q, f)) = Head(q)
           /\ Append(Tail(q), f) = Tail(Append(q, f))
<1> DEFINE a == Append(q, f)
           b == Append(Tail(q), f)
           n == Len(q)
<1>1. n \in Nat /\ n > 0 /\ Tail(q) \in Seq(T) /\ Len(Tail(q)) = n - 1
  OBVIOUS
<1>2. a \in Seq(T) /\ a # <<>> /\ Len(a) = n + 1 /\ Head(a) = Head(q)
  BY <1>1
<1>3. b \in Seq(T) /\ Len(b) = n
  BY <1>1
<1>4. Tail(a) \in Seq(T) /\ Len(Tail(a)) = n
  BY <1>1, <1>2
<1>5. \A j \in 1..n : Tail(a)[j] = a[j + 1]
  BY <1>1, <1>2, <1>4
<1>6. \A j \in 1..n - 1 : Tail(q)[j] = q[j + 1] /\ b[j] = Tail(q)[j]
  BY <1>1
<1>7. b[n] = f /\ a[n + 1] = f /\ \A j \in 1..n : a[j] = q[j]
  BY <1>1
<1> HIDE DEF a, b, n
<1>8. \A i \in 1..n : i = n \/ (i \in 1..n - 1 /\ i + 1 \in 1..n)
  BY <1>1
<1>9. \A i \in 1..n : b[i] = Tail(a)[i]
  BY <1>5, <1>6, <1>7, <1>8
<1>10. b = Tail(a)
  BY <1>3, <1>4, <1>9, SeqEqual
<1> QED  BY <1>2, <1>10 DEF a, b

\* A functor posted last leaves the head where it is.
LEMMA AppendHeadTail ==
    ASSUME NEW q \in Queues, q # <<>>, NEW f \in {"add", "stop"} \X Handlers
    PROVE  /\ Append(q, f) \in Queues /\ Append(q, f) # <<>>
           /\ Head(Append(q, f)) = Head(q)
           /\ Append(Tail(q), f) = Tail(Append(q, f))
<1> DEFINE T == {"add", "stop"} \X Handlers
<1>1. q \in Seq(T) /\ q # <<>> /\ f \in T
  BY DEF Queues
<1> HIDE DEF T
<1> QED  BY <1>1, AppendSeq DEF T, Queues

\* It does not matter that a handler becomes deaf that no functor is about.
LEMMA MoreDeaf ==
    ASSUME NEW q, NEW D, NEW E, NEW r, NEW w, EndsWith(q, D, r, w),
           \A i \in 1..Len(q) : q[i][2] \in D <=> q[i][2] \in E
    PROVE  EndsWith(q, E, r, w)
BY DEF EndsWith, Decides

\* A bound on the handlers that a queue is about.
LEMMA AppendBounded ==
    ASSUME NEW q \in Queues, NEW f \in {"add", "stop"} \X Handlers,
           NEW m \in Nat, NEW n \in Nat, m <= n, f[2] <= n,
           \A i \in 1..Len(q) : q[i][2] <= m
    PROVE  \A i \in 1..Len(Append(q, f)) : Append(q, f)[i][2] <= n
<1> SUFFICES ASSUME NEW i \in 1..Len(Append(q, f))
             PROVE  Append(q, f)[i][2] <= n
  OBVIOUS
<1>1. CASE i \in 1..Len(q)
  <2>1. Append(q, f)[i] = q[i] /\ q[i] \in {"add", "stop"} \X Handlers
    BY <1>1 DEF Queues
  <2>2. q[i][2] \in Handlers  BY <2>1
  <2>3. q[i][2] \in Nat  BY <2>2 DEF Handlers
  <2> QED  BY <1>1, <2>1, <2>3
<1>2. CASE i \notin 1..Len(q)
  <2>1. Append(q, f)[i] = f
    BY <1>2 DEF Queues
  <2> QED  BY <2>1
<1> QED  BY <1>1, <1>2

\* Running the first functor keeps the promise.
LEMMA RunHead ==
    ASSUME NEW q \in Queues, q # <<>>, NEW D, NEW r, NEW w, EndsWith(q, D, r, w)
    PROVE  EndsWith(Tail(q), D, IF Head(q)[2] \in D THEN r ELSE Effect(Head(q)), w)
<1> DEFINE p == Tail(q)
           s == IF Head(q)[2] \in D THEN r ELSE Effect(Head(q))
<1>1. Len(q) \in Nat /\ Len(q) >= 1 /\ Len(p) = Len(q) - 1 /\ Head(q) = q[1]
  BY DEF Queues
<1>2. \A i \in 1..Len(p) : p[i] = q[i + 1] /\ i + 1 \in 1..Len(q)
  BY <1>1 DEF Queues
<1>3. \A j \in 1..Len(q) : j = 1 \/ (j - 1 \in 1..Len(p) /\ q[j] = p[j - 1])
  BY <1>1, <1>2
<1>4. ASSUME \A i \in 1..Len(p) : p[i][2] \in D
      PROVE  s = w
  <2>1. CASE q[1][2] \in D
    BY <1>1, <1>3, <1>4, <2>1 DEF EndsWith
  <2>2. CASE q[1][2] \notin D
    <3>1. ASSUME NEW j \in 1..Len(q), j > 1 PROVE q[j][2] \in D
      <4>1. j - 1 \in 1..Len(p) /\ q[j] = p[j - 1]  BY <1>3, <3>1
      <4> QED  BY <1>4, <4>1
    <3>2. Decides(q, D, 1)  BY <2>2, <3>1 DEF Decides
    <3> QED  BY <1>1, <2>2, <3>2 DEF EndsWith
  <2> QED  BY <2>1, <2>2
<1>5. ASSUME NEW i \in 1..Len(p), Decides(p, D, i)
      PROVE  Effect(p[i]) = w
  <2>1. Decides(q, D, i + 1)  BY <1>1, <1>2, <1>3, <1>5 DEF Decides
  <2> QED  BY <1>2, <2>1 DEF EndsWith
<1> QED  BY <1>4, <1>5 DEF EndsWith

-----------------------------------------------------------------------------
(***************************************************************************)
(* The inductive invariant.                                                *)
(***************************************************************************)
\* Handlers are made in order, each in a loop, and functors are about handlers
\* that have been made.
MadeInOrder ==
    /\ deaf \subseteq 1..handler
    /\ handler # 0 => loopOf[handler] \in Loops
    /\ \A l \in Loops : \A i \in 1..Len(functors[l]) : functors[l][i][2] <= handler
    /\ posting # <<>> => handler # 0 /\ posting[2] = handler

\* A round that has functors to run finds them in the queue.
RoundHasFunctors == \A l \in Loops : roundFunctors[l] <= Len(functors[l])

\* Who shall be registered in loop l when all functors have run: nobody between
\* the two posts of with().
Wanted(l) == IF making = None /\ Hearing(l) THEN handler ELSE 0

\* The queue of loop l with the functor that is about to be pushed.
Coming(l) == IF posting # <<>> /\ loopOf[posting[2]] = l
             THEN Append(functors[l], posting)
             ELSE functors[l]

QueuesLeadToWatch ==
    \A l \in Loops : EndsWith(Coming(l), deaf, registered[l], Wanted(l))

SignalsInv ==
    /\ TypeOK /\ MaskLagsOnlyThread
    /\ MadeInOrder /\ RoundHasFunctors /\ QueuesLeadToWatch

USE BoundsAssumption, LoopsAssumption DEF TypeOK, Handlers, Queues

\* The numbers of the enumerators are signals.
LEMMA SignalNumbers ==
    /\ \A s \in Enumerators : ToLinuxSignal[s] \in Range(ToLinuxSignal)
    /\ Range(ToLinuxSignal) \subseteq Numbers
BY DEF ToLinuxSignal, Enumerators, Range, Numbers

\* The initial states satisfy the invariant.
LEMMA InitInv == Init => SignalsInv
<1> SUFFICES ASSUME Init PROVE SignalsInv  OBVIOUS
<1> USE DEF Init
<1>1. TypeOK
  <2>1. 0 \in 0..MaxCalls /\ 0 \in 0..MaxSends
    OBVIOUS
  <2>2. functors \in [Loops -> Queues]
    OBVIOUS
  <2> QED  BY <2>1, <2>2
<1>2. MaskLagsOnlyThread /\ MadeInOrder /\ RoundHasFunctors
  BY DEF MaskLagsOnlyThread, MadeInOrder, RoundHasFunctors
<1>3. QueuesLeadToWatch
  BY DEF QueuesLeadToWatch, EndsWith, Coming, Wanted, Hearing
<1> QED  BY <1>1, <1>2, <1>3 DEF SignalsInv

\* What the mask's thread, the callers of watch and restore, the senders and
\* the reads of the signalfd leave alone.
queueVars == <<handler, loopOf, deaf, making, posting, functors, registered,
               roundFunctors>>

\* A step that leaves the queues and registrations alone keeps what is said of them.
LEMMA OtherSteps ==
    ASSUME SignalsInv, UNCHANGED queueVars, TypeOK', MaskLagsOnlyThread'
    PROVE  SignalsInv'
<1>1. MadeInOrder' /\ RoundHasFunctors'
  BY DEF SignalsInv, queueVars, MadeInOrder, RoundHasFunctors
<1>2. \A l \in Loops : Coming(l)' = Coming(l) /\ Wanted(l)' = Wanted(l)
  BY DEF queueVars, Coming, Wanted, Hearing
<1>3. QueuesLeadToWatch'
  BY <1>2 DEF SignalsInv, queueVars, QueuesLeadToWatch
<1> QED  BY <1>1, <1>3 DEF SignalsInv

\* The mask and its thread, and the senders.
LEMMA MaskStep ==
    ASSUME SignalsInv,
           \/ \E r \in {"open", "failed"} : EnableWatchSignal(r)
           \/ \E s \in Enumerators : Watch(s) \/ Restore(s)
           \/ ThreadSetsMask
           \/ \E n \in Numbers : Send(n)
    PROVE  SignalsInv'
<1> USE SignalNumbers DEF handlerVars, withVars, loopVars, maskVars, queueVars,
        MaskLagsOnlyThread
<1>1. ASSUME NEW r \in {"open", "failed"}, EnableWatchSignal(r) PROVE SignalsInv'
  <2>1. TypeOK' /\ MaskLagsOnlyThread'
    BY <1>1 DEF SignalsInv, EnableWatchSignal
  <2> QED  BY <1>1, <2>1, OtherSteps DEF EnableWatchSignal
<1>2. ASSUME NEW s \in Enumerators, Watch(s) PROVE SignalsInv'
  <2>1. TypeOK' /\ MaskLagsOnlyThread'
    BY <1>2 DEF SignalsInv, Watch, Notified
  <2> QED  BY <1>2, <2>1, OtherSteps DEF Watch
<1>3. ASSUME NEW s \in Enumerators, Restore(s) PROVE SignalsInv'
  <2>1. TypeOK' /\ MaskLagsOnlyThread'
    BY <1>3 DEF SignalsInv, Restore, Notified
  <2> QED  BY <1>3, <2>1, OtherSteps DEF Restore
<1>4. ASSUME ThreadSetsMask PROVE SignalsInv'
  <2>1. TypeOK' /\ MaskLagsOnlyThread'
    BY <1>4 DEF SignalsInv, ThreadSetsMask
  <2> QED  BY <1>4, <2>1, OtherSteps DEF ThreadSetsMask
<1>5. ASSUME NEW n \in Numbers, Send(n) PROVE SignalsInv'
  <2>1. TypeOK' /\ MaskLagsOnlyThread'
    BY <1>5 DEF SignalsInv, Send
  <2> QED  BY <1>5, <2>1, OtherSteps DEF Send
<1> QED  BY <1>1, <1>2, <1>3, <1>4, <1>5

\* The steps of a loop that run no functor.
LEMMA ReadStep ==
    ASSUME SignalsInv, NEW l \in Loops,
           \/ HandleInRead(l) \/ \E n \in Numbers : HandleInSignal(l, n)
    PROVE  SignalsInv'
<1> USE DEF handlerVars, withVars, maskVars, queueVars, MaskLagsOnlyThread
<1>1. ASSUME HandleInRead(l) PROVE SignalsInv'
  <2>0. pending \cap watching \in SUBSET Numbers
    BY DEF SignalsInv
  <2>1. batch' \in [Loops -> SUBSET Numbers]
    BY <1>1, <2>0 DEF SignalsInv, HandleInRead
  <2>2. roundSignal' \in [Loops -> Handlers \cup {0}]
    BY <1>1 DEF SignalsInv, HandleInRead
  <2>3. TypeOK' /\ MaskLagsOnlyThread'
    BY <1>1, <2>1, <2>2 DEF SignalsInv, HandleInRead
  <2> QED  BY <1>1, <2>3, OtherSteps DEF HandleInRead
<1>2. ASSUME NEW n \in Numbers, HandleInSignal(l, n) PROVE SignalsInv'
  <2>1. TypeOK' /\ MaskLagsOnlyThread'
    BY <1>2 DEF SignalsInv, HandleInSignal
  <2> QED  BY <1>2, <2>1, OtherSteps DEF HandleInSignal
<1> QED  BY <1>1, <1>2

\* A round begins.
LEMMA PollStep ==
    ASSUME SignalsInv, NEW l \in Loops, Poll(l)
    PROVE  SignalsInv'
<1> USE DEF handlerVars, withVars, maskVars, Poll
<1>1. Len(functors[l]) \in Nat
  BY DEF SignalsInv
<1>2. roundFunctors' \in [Loops -> Nat] /\ RoundHasFunctors'
  BY <1>1 DEF SignalsInv, RoundHasFunctors
<1>3. TypeOK' /\ MaskLagsOnlyThread'
  BY <1>2 DEF SignalsInv, MaskLagsOnlyThread
<1>4. MadeInOrder'
  BY DEF SignalsInv, MadeInOrder
<1>5. \A k \in Loops : Coming(k)' = Coming(k) /\ Wanted(k)' = Wanted(k)
  BY DEF Coming, Wanted, Hearing
<1>6. QueuesLeadToWatch'
  BY <1>5 DEF SignalsInv, QueuesLeadToWatch
<1> QED  BY <1>2, <1>3, <1>4, <1>6 DEF SignalsInv

\* A functor runs.
LEMMA RunFunctorStep ==
    ASSUME SignalsInv, NEW l \in Loops, RunFunctor(l)
    PROVE  SignalsInv'
<1> DEFINE q == functors[l]
           f == Head(q)
<1> USE DEF maskVars, withVars
<1>1. q \in Queues /\ roundFunctors[l] \in 1..Len(q) /\ q # <<>>
  <2>1. q \in Queues /\ roundFunctors[l] \in Nat
    BY DEF SignalsInv
  <2>2. roundFunctors[l] > 0 /\ roundFunctors[l] <= Len(q)
    BY DEF SignalsInv, RunFunctor, RoundHasFunctors
  <2>3. Len(q) \in Nat /\ Len(<<>>) = 0
    BY <2>1
  <2> HIDE DEF q, TypeOK
  <2>4. q # <<>>
    BY <2>1, <2>2, <2>3
  <2> QED  BY <2>1, <2>2, <2>3, <2>4
<1>2. /\ f \in {"add", "stop"} \X Handlers /\ f[1] \in {"add", "stop"}
      /\ f[2] \in Handlers /\ Tail(q) \in Queues
      /\ Len(q) \in Nat /\ Len(Tail(q)) = Len(q) - 1
      /\ \A i \in 1..Len(Tail(q)) : Tail(q)[i] = q[i + 1] /\ i + 1 \in 1..Len(q)
  <2>1. f \in {"add", "stop"} \X Handlers /\ Tail(q) \in Queues
    BY <1>1
  <2>2. f[1] \in {"add", "stop"} /\ f[2] \in Handlers
    BY <2>1
  <2>3. Len(q) \in Nat /\ Len(q) > 0 /\ Len(Tail(q)) = Len(q) - 1
    BY <1>1
  <2>4. \A i \in 1..Len(Tail(q)) : Tail(q)[i] = q[i + 1] /\ i + 1 \in 1..Len(q)
    BY <1>1, <2>3
  <2> QED  BY <2>1, <2>2, <2>3, <2>4
<1>3. /\ functors' = [functors EXCEPT ![l] = Tail(q)]
      /\ registered' = [registered EXCEPT ![l] = IF f[2] \in deaf THEN @ ELSE Effect(f)]
      /\ roundFunctors' = [roundFunctors EXCEPT ![l] = roundFunctors[l] - 1]
      /\ live' \subseteq live
  BY <1>2 DEF SignalsInv, RunFunctor, Effect
<1>4. UNCHANGED <<handler, loopOf, deaf, making, posting>>
  BY DEF RunFunctor
<1>5. TypeOK'
  <2>1. functors' \in [Loops -> Queues]
    BY <1>2, <1>3 DEF SignalsInv
  <2>2. registered' \in [Loops -> Handlers \cup {0}]
    BY <1>2, <1>3 DEF SignalsInv, Effect
  <2>3. roundFunctors' \in [Loops -> Nat]
    <3>1. roundFunctors[l] - 1 \in Nat /\ roundFunctors \in [Loops -> Nat]
      BY <1>1 DEF SignalsInv
    <3> HIDE DEF TypeOK
    <3> QED  BY <1>3, <3>1
  <2>4. live' \subseteq Handlers
    BY <1>3 DEF SignalsInv
  <2>5. UNCHANGED <<maskVars, pending, awake, roundSignal, batch, calls, sends, undefined>>
    BY DEF RunFunctor
  <2> QED  BY <1>4, <2>1, <2>2, <2>3, <2>4, <2>5 DEF SignalsInv
<1>6. MaskLagsOnlyThread'
  BY DEF SignalsInv, RunFunctor, MaskLagsOnlyThread
<1>7. MadeInOrder'
  BY <1>2, <1>3, <1>4 DEF SignalsInv, MadeInOrder
<1>8. RoundHasFunctors'
  BY <1>1, <1>2, <1>3 DEF SignalsInv, RoundHasFunctors
<1>9. ASSUME NEW k \in Loops
      PROVE  EndsWith(Coming(k), deaf, registered[k], Wanted(k))'
  <2>1. Wanted(k)' = Wanted(k)
    BY <1>4 DEF Wanted, Hearing
  <2>2. EndsWith(Coming(k), deaf, registered[k], Wanted(k))
    BY DEF SignalsInv, QueuesLeadToWatch
  <2>3. CASE k = l
    <3>0. functors'[l] = Tail(q)
      BY <1>3 DEF SignalsInv
    <3>1. /\ Coming(l) \in Queues /\ Coming(l) # <<>>
          /\ Head(Coming(l)) = f /\ Coming(l)' = Tail(Coming(l))
      <4>1. CASE posting # <<>> /\ loopOf[posting[2]] = l
        <5>1. posting \in {"add", "stop"} \X Handlers
          BY <4>1 DEF SignalsInv
        <5>2. Coming(l) = Append(q, posting) /\ Coming(l)' = Append(Tail(q), posting)
          BY <1>4, <3>0, <4>1 DEF Coming
        <5>3. q \in Queues /\ q # <<>>
          BY <1>1
        <5> HIDE DEF q, TypeOK, Queues
        <5>4. /\ Append(q, posting) \in Queues /\ Append(q, posting) # <<>>
              /\ Head(Append(q, posting)) = Head(q)
              /\ Append(Tail(q), posting) = Tail(Append(q, posting))
          BY <5>1, <5>3, AppendHeadTail
        <5> QED  BY <5>2, <5>4
      <4>2. CASE ~(posting # <<>> /\ loopOf[posting[2]] = l)
        <5>1. Coming(l) = q /\ Coming(l)' = Tail(q)
          BY <1>4, <3>0, <4>2 DEF Coming
        <5> QED  BY <1>1, <5>1
      <4> QED  BY <4>1, <4>2
    <3>2. EndsWith(Tail(Coming(l)), deaf,
                   IF f[2] \in deaf THEN registered[l] ELSE Effect(f), Wanted(k))
      BY <2>2, <2>3, <3>1, RunHead
    <3>3. registered'[k] = IF f[2] \in deaf THEN registered[l] ELSE Effect(f)
      BY <1>3, <2>3 DEF SignalsInv
    <3> QED  BY <1>4, <2>1, <2>3, <3>1, <3>2, <3>3
  <2>4. CASE k # l
    <3>1. Coming(k)' = Coming(k) /\ registered'[k] = registered[k]
      BY <1>3, <1>4, <2>4 DEF SignalsInv, Coming
    <3> QED  BY <1>4, <2>1, <2>2, <3>1
  <2> QED  BY <2>3, <2>4
<1> QED  BY <1>5, <1>6, <1>7, <1>8, <1>9 DEF SignalsInv, QueuesLeadToWatch

\* with() writes the old handler's eventfd: its stop is coming, and nobody shall
\* be registered after it.
LEMMA StopStep ==
    ASSUME SignalsInv, NEW l \in Loops, StopSignalHandler(l)
    PROVE  SignalsInv'
<1> DEFINE h == handler
           f == <<"stop", h>>
<1> USE DEF maskVars, handlerVars
<1>1. /\ h \in Handlers /\ loopOf[h] \in Loops /\ f \in {"add", "stop"} \X Handlers
      /\ f # <<>> /\ f[1] = "stop" /\ f[2] = h /\ making = None /\ posting = <<>>
      /\ l # None
  BY DEF SignalsInv, MadeInOrder, StopSignalHandler
<1>2. /\ posting' = f /\ making' = l /\ awake' = [awake EXCEPT ![loopOf[h]] = TRUE]
      /\ UNCHANGED <<maskVars, pending, handlerVars, functors, registered,
                     roundFunctors, roundSignal, batch, calls, sends, undefined>>
  BY DEF StopSignalHandler, WakeUp
<1> HIDE DEF f
<1>3. TypeOK' /\ MaskLagsOnlyThread'
  BY <1>1, <1>2 DEF SignalsInv, MaskLagsOnlyThread
<1>4. MadeInOrder' /\ RoundHasFunctors'
  BY <1>1, <1>2 DEF SignalsInv, MadeInOrder, RoundHasFunctors
<1>5. ASSUME NEW k \in Loops
      PROVE  EndsWith(Coming(k), deaf, registered[k], Wanted(k))'
  <2>1. EndsWith(functors[k], deaf, registered[k], Wanted(k)) /\ functors[k] \in Queues
    BY <1>1 DEF SignalsInv, QueuesLeadToWatch, Coming
  <2>2. Wanted(k)' = 0
    BY <1>1, <1>2 DEF Wanted
  <2>3. CASE k = loopOf[h]
    <3>1. Coming(k)' = Append(functors[k], f)
      BY <1>1, <1>2, <2>3 DEF Coming
    <3>2. CASE h \in deaf
      <4>1. Wanted(k) = 0  BY <3>2 DEF Wanted, Hearing
      <4> QED  BY <1>1, <1>2, <2>1, <2>2, <3>1, <3>2, <4>1, AppendIgnored
    <3>3. CASE h \notin deaf
      <4>1. Effect(f) = 0  BY <1>1 DEF Effect
      <4>2. EndsWith(Append(functors[k], f), deaf, registered[k], Effect(f))
        BY <1>1, <2>1, <3>3, AppendDecides
      <4> QED  BY <1>2, <2>2, <3>1, <4>1, <4>2
    <3> QED  BY <3>2, <3>3
  <2>4. CASE k # loopOf[h]
    <3>1. Coming(k)' = functors[k] /\ Wanted(k) = 0
      BY <1>1, <1>2, <2>4 DEF Coming, Wanted, Hearing
    <3> QED  BY <1>2, <2>1, <2>2, <3>1
  <2> QED  BY <2>3, <2>4
<1> QED  BY <1>3, <1>4, <1>5 DEF SignalsInv, QueuesLeadToWatch

\* Then it makes the new handler and writes its eventfd: its add is coming.
LEMMA MakeStep ==
    ASSUME SignalsInv, NEW l \in Loops, MakeSignalHandler(l)
    PROVE  SignalsInv'
<1> DEFINE h == handler
           new == handler + 1
           f == <<"add", new>>
<1> USE DEF maskVars
<1>1. /\ h \in Nat /\ new \in Handlers /\ h < new /\ h # new /\ posting = <<>>
      /\ f \in {"add", "stop"} \X Handlers /\ f # <<>> /\ f[1] = "add" /\ f[2] = new
      /\ h = 0 \/ making # None
  BY DEF SignalsInv, MakeSignalHandler
<1>2. /\ handler' = new /\ loopOf' = [loopOf EXCEPT ![new] = l]
      /\ live' = live \cup {new} /\ making' = None /\ posting' = f
      /\ deaf' = IF signalFd = "open" THEN deaf ELSE deaf \cup {new}
      /\ awake' = [awake EXCEPT ![l] = TRUE]
      /\ UNCHANGED <<maskVars, pending, functors, registered, roundFunctors,
                     roundSignal, batch, calls, sends, undefined>>
  BY DEF MakeSignalHandler, NewHandler, WakeUp
<1> HIDE DEF f
<1>3. loopOf'[new] = l
  BY <1>1, <1>2 DEF SignalsInv
<1>4. TypeOK' /\ MaskLagsOnlyThread'
  BY <1>1, <1>2 DEF SignalsInv, MaskLagsOnlyThread
<1>5. ASSUME NEW k \in Loops, NEW i \in 1..Len(functors[k])
      PROVE  functors[k][i][2] \in Handlers /\ functors[k][i][2] <= h
  <2>1. functors[k] \in Queues /\ functors[k][i][2] <= h
    BY DEF SignalsInv, MadeInOrder
  <2>2. functors[k][i] \in {"add", "stop"} \X Handlers
    BY <2>1
  <2> QED  BY <2>1, <2>2
<1>6. MadeInOrder'
  <2>1. \A k \in Loops : \A i \in 1..Len(functors[k]) : functors[k][i][2] <= new
    BY <1>1, <1>5
  <2>2. deaf' \subseteq 1..new
    BY <1>1, <1>2 DEF SignalsInv, MadeInOrder
  <2> QED  BY <1>1, <1>2, <1>3, <2>1, <2>2 DEF MadeInOrder
<1>7. RoundHasFunctors'
  BY <1>2 DEF SignalsInv, RoundHasFunctors
<1>8. ASSUME NEW k \in Loops
      PROVE  EndsWith(functors[k], deaf', registered[k], 0)
  <2>1. Coming(k) = functors[k] /\ Wanted(k) = 0
    BY <1>1 DEF Coming, Wanted, Hearing
  <2>2. EndsWith(functors[k], deaf, registered[k], 0)
    BY <2>1 DEF SignalsInv, QueuesLeadToWatch
  <2>3. \A i \in 1..Len(functors[k]) : functors[k][i][2] # new
    BY <1>1, <1>5
  <2>4. \A i \in 1..Len(functors[k]) :
           functors[k][i][2] \in deaf <=> functors[k][i][2] \in deaf'
    BY <1>2, <2>3
  <2> QED  BY <2>2, <2>4, MoreDeaf
<1>9. ASSUME NEW k \in Loops
      PROVE  EndsWith(Coming(k)', deaf', registered'[k], Wanted(k)')
  <2>1. Wanted(k)' = IF new \notin deaf' /\ k = l THEN new ELSE 0
    BY <1>1, <1>2, <1>3 DEF Wanted, Hearing
  <2>2. CASE k # l
    <3>1. Coming(k)' = functors[k]
      BY <1>1, <1>2, <1>3, <2>2 DEF Coming
    <3> QED  BY <1>2, <1>8, <2>1, <2>2, <3>1
  <2>3. CASE k = l
    <3>1. Coming(k)' = Append(functors[k], f) /\ functors[k] \in Queues
      BY <1>1, <1>2, <1>3, <2>3 DEF Coming, SignalsInv
    <3>2. CASE new \in deaf'
      <4>1. EndsWith(Append(functors[k], f), deaf', registered[k], 0)
        BY <1>1, <1>8, <3>1, <3>2, AppendIgnored
      <4> QED  BY <1>2, <2>1, <3>1, <3>2, <4>1
    <3>3. CASE new \notin deaf'
      <4>1. EndsWith(Append(functors[k], f), deaf', registered[k], Effect(f))
        BY <1>1, <3>1, <3>3, AppendDecides
      <4>2. Effect(f) = new  BY <1>1 DEF Effect
      <4> QED  BY <1>2, <2>1, <2>3, <3>1, <3>3, <4>1, <4>2
    <3> QED  BY <3>2, <3>3
  <2> QED  BY <2>2, <2>3
<1> QED  BY <1>4, <1>6, <1>7, <1>9 DEF SignalsInv, QueuesLeadToWatch

\* The push makes the functor that was coming the last one of the queue.
LEMMA PushStep ==
    ASSUME SignalsInv, Push
    PROVE  SignalsInv'
<1> DEFINE k0 == loopOf[posting[2]]
<1> USE DEF maskVars, handlerVars
<1>1. /\ posting \in {"add", "stop"} \X Handlers /\ posting # <<>>
      /\ posting[2] = handler /\ handler \in Nat /\ k0 \in Loops
  BY DEF SignalsInv, MadeInOrder, Push
<1>2. /\ functors' = [functors EXCEPT ![k0] = Append(functors[k0], posting)]
      /\ posting' = <<>>
      /\ UNCHANGED <<maskVars, pending, handlerVars, making, awake, registered,
                     roundFunctors, roundSignal, batch, calls, sends, undefined>>
  BY DEF Push, Posted
<1>3. /\ Append(functors[k0], posting) \in Queues
      /\ Len(Append(functors[k0], posting)) = Len(functors[k0]) + 1
      /\ functors[k0] \in Queues /\ Len(functors[k0]) \in Nat
  BY <1>1 DEF SignalsInv
<1> HIDE DEF k0
<1>4. functors' \in [Loops -> Queues]
  BY <1>2, <1>3 DEF SignalsInv
<1>5. TypeOK' /\ MaskLagsOnlyThread'
  BY <1>2, <1>4 DEF SignalsInv, MaskLagsOnlyThread
<1>6. \A k \in Loops : functors'[k] = IF k = k0 THEN Append(functors[k0], posting)
                                    ELSE functors[k]
  BY <1>1, <1>2 DEF SignalsInv
<1>7. MadeInOrder'
  <2>1. \A i \in 1..Len(functors[k0]) : functors[k0][i][2] <= handler
    BY <1>1 DEF SignalsInv, MadeInOrder
  <2>2. \A i \in 1..Len(Append(functors[k0], posting)) :
           Append(functors[k0], posting)[i][2] <= handler
    BY <1>1, <1>3, <2>1, AppendBounded
  <2> QED  BY <1>2, <1>6, <2>2 DEF SignalsInv, MadeInOrder
<1>8. RoundHasFunctors'
  BY <1>1, <1>2, <1>3, <1>6 DEF SignalsInv, RoundHasFunctors
<1>9. ASSUME NEW k \in Loops PROVE Coming(k)' = Coming(k) /\ Wanted(k)' = Wanted(k)
  <2>1. Coming(k) = IF k = k0 THEN Append(functors[k0], posting) ELSE functors[k]
    BY <1>1 DEF Coming, k0
  <2>2. Coming(k)' = functors'[k]
    BY <1>2 DEF Coming
  <2> QED  BY <1>2, <1>6, <2>1, <2>2 DEF Wanted, Hearing
<1>10. QueuesLeadToWatch'
  BY <1>2, <1>9 DEF SignalsInv, QueuesLeadToWatch
<1> QED  BY <1>5, <1>7, <1>8, <1>10 DEF SignalsInv

-----------------------------------------------------------------------------
(***************************************************************************)
(* The theorems.                                                           *)
(***************************************************************************)
\* Every step of the mask's thread, the callers, the senders and the loops
\* keeps the invariant.
THEOREM SignalsInvariant == Spec => []SignalsInv
<1>1. SignalsInv /\ [Next]_vars => SignalsInv'
  <2> SUFFICES ASSUME SignalsInv, [Next]_vars PROVE SignalsInv'  OBVIOUS
  <2>1. CASE UNCHANGED vars
    <3>1. TypeOK' /\ MaskLagsOnlyThread' /\ UNCHANGED queueVars
      BY <2>1 DEF SignalsInv, vars, queueVars, MaskLagsOnlyThread
    <3> QED  BY <3>1, OtherSteps
  <2>2. CASE Next
    BY <2>2, MaskStep, ReadStep, PollStep, RunFunctorStep, StopStep, MakeStep, PushStep
       DEF Next, LoopStep
  <2> QED  BY <2>1, <2>2
<1> QED  BY <1>1, InitInv, PTL DEF Spec

\* SignalWatcher::with leaves the signalfd with the last handler it made, in
\* its loop and in no other, for any number of loops and calls, whichever loops
\* the calls name, however their functors interleave and wake-ups get lost.
THEOREM HandoverKeepsWatchTheorem == Spec => []HandoverKeepsWatch
<1>1. SignalsInv => HandoverKeepsWatch
  <2> SUFFICES ASSUME SignalsInv, making = None, posting = <<>>,
                      \A l \in Loops : functors[l] = <<>>, NEW l \in Loops
               PROVE  registered[l] = IF Hearing(l) THEN handler ELSE 0
    BY DEF HandoverKeepsWatch
  <2>1. EndsWith(<<>>, deaf, registered[l], Wanted(l))
    BY DEF SignalsInv, QueuesLeadToWatch, Coming
  <2> QED  BY <2>1, EmptyEnds DEF Wanted
<1> QED  BY <1>1, SignalsInvariant, PTL

\* While m_unHandledSignalThread waits for a notification, its mask is what
\* watch() and restore() have asked for.
THEOREM MaskLagsOnlyThreadTheorem == Spec => []MaskLagsOnlyThread
<1>1. SignalsInv => MaskLagsOnlyThread  BY DEF SignalsInv
<1> QED  BY <1>1, SignalsInvariant, PTL
=============================================================================
