--------------------------- MODULE RunInLoopProofs --------------------------
(***************************************************************************)
(* Proofs about RunInLoop for any sets of threads and any bounds: types,   *)
(* one thread in the loop at a time, nothing lost, order kept, and the     *)
(* refinement of FunctorQueue.                                             *)
(***************************************************************************)
EXTENDS RunInLoop, SequenceTheorems, TLAPS

\* A thread inside addPendingFunction still has a call left to count.
PostingBounded == \A t \in posting : posted[t] < MaxPosts

\* The flag is set while a thread is anywhere inside start().
FlagCovers == \A r \in Runners : pc[r] # "out" => loopRunning

\* The local vector exists only while handleIn calls functors.
BatchInHandler ==
    \A r \in Runners : batch[r] # <<>> => pc[r] \in {"call", "functor"}

LoopInv == TypeOK /\ PostingBounded /\ FlagCovers /\ OneLoopThread /\ BatchInHandler

USE ThreadsAssumption, BoundsAssumption

\* The initial states.
LEMMA LoopInvInit == Init => LoopInv
  <1> SUFFICES ASSUME Init PROVE LoopInv
    OBVIOUS
  <1> USE DEF Init
  <1>1. TypeOK
    <2>1. <<>> \in Seq(Functors)
      BY EmptySeq
    <2>2. 0 \in 0..MaxPosts /\ 0 \in 0..MaxThrows /\ 0 \in Nat
      OBVIOUS
    <2>3. posted \in [Threads -> 0..MaxPosts] /\ throws \in 0..MaxThrows
      BY <2>2
    <2>4. batch \in [Runners -> Seq(Functors)] /\ pending \in Seq(Functors)
          /\ ran \in Seq(Functors)
      BY <2>1
    <2> QED
      BY <2>2, <2>3, <2>4 DEF TypeOK, InLoop, InUser
  <1>2. PostingBounded /\ FlagCovers /\ OneLoopThread /\ BatchInHandler
    BY DEF PostingBounded, FlagCovers, OneLoopThread, BatchInHandler
  <1> QED
    BY <1>1, <1>2 DEF LoopInv

\* What one step of a runner writes to its own row of pc keeps the rest.
LEMMA TypeOKStep == LoopInv /\ [Next]_vars => TypeOK'
  <1> SUFFICES ASSUME LoopInv, [Next]_vars PROVE TypeOK'
    OBVIOUS
  <1> USE DEF LoopInv, TypeOK, InLoop, InUser
  <1>1. ASSUME NEW t \in Threads, AddPendingWake(t) PROVE TypeOK'
    BY <1>1 DEF AddPendingWake
  <1>2. ASSUME NEW t \in Threads, AddPendingPush(t) PROVE TypeOK'
    <2>1. posted[t] \in 0..MaxPosts /\ posted[t] < MaxPosts
      BY <1>2 DEF AddPendingPush, PostingBounded
    <2>2. <<t, posted[t] + 1>> \in Functors /\ posted[t] + 1 \in 0..MaxPosts
      BY <2>1 DEF Functors
    <2>3. pending' \in Seq(Functors)
      BY <1>2, <2>2, AppendProperties DEF AddPendingPush
    <2> QED
      BY <1>2, <2>2, <2>3 DEF AddPendingPush
  <1>3. ASSUME NEW r \in Runners, Start(r) PROVE TypeOK'
    BY <1>3 DEF Start
  <1>4. ASSUME NEW r \in Runners, Poll(r) PROVE TypeOK'
    BY <1>4 DEF Poll
  <1>5. ASSUME NEW r \in Runners, Dispatch(r) PROVE TypeOK'
    BY <1>5 DEF Dispatch
  <1>6. ASSUME NEW r \in Runners, CallbackReturns(r) PROVE TypeOK'
    BY <1>6 DEF CallbackReturns
  <1>7. ASSUME NEW r \in Runners, HandleInRead(r) PROVE TypeOK'
    BY <1>7 DEF HandleInRead
  <1>8. ASSUME NEW r \in Runners, HandleInSwap(r) PROVE TypeOK'
    BY <1>8, EmptySeq DEF HandleInSwap
  <1>9. ASSUME NEW r \in Runners, HandleInCall(r) PROVE TypeOK'
    <2>1. Head(batch[r]) \in Functors /\ Tail(batch[r]) \in Seq(Functors)
      BY <1>9, HeadTailProperties DEF HandleInCall
    <2>2. ran' \in Seq(Functors)
      BY <1>9, <2>1, AppendProperties DEF HandleInCall
    <2> QED
      BY <1>9, <2>1, <2>2 DEF HandleInCall
  <1>10. ASSUME NEW r \in Runners, FunctorReturns(r) PROVE TypeOK'
    BY <1>10 DEF FunctorReturns
  <1>11. ASSUME NEW r \in Runners, HandleInReturn(r) PROVE TypeOK'
    BY <1>11 DEF HandleInReturn
  <1>12. ASSUME NEW r \in Runners, UserThrows(r) PROVE TypeOK'
    <2>1. SeqRange(batch[r]) \subseteq Functors
      BY ElementOfSeq DEF SeqRange
    <2>2. throws' \in 0..MaxThrows
      BY <1>12 DEF UserThrows
    <2> QED
      BY <1>12, <2>1, <2>2, EmptySeq DEF UserThrows
  <1>13. ASSUME NEW r \in Runners, StartCatch(r) PROVE TypeOK'
    BY <1>13 DEF StartCatch
  <1>14. CASE UNCHANGED vars
    BY <1>14 DEF vars
  <1> QED
    BY <1>1, <1>2, <1>3, <1>4, <1>5, <1>6, <1>7, <1>8, <1>9, <1>10, <1>11,
       <1>12, <1>13, <1>14 DEF Next, LoopStep

\* Every step keeps LoopInv.
LEMMA LoopStepInv == LoopInv /\ [Next]_vars => LoopInv'
  <1> SUFFICES ASSUME LoopInv, [Next]_vars PROVE LoopInv'
    OBVIOUS
  <1> USE DEF LoopInv
  <1>0. TypeOK'
    BY TypeOKStep
  <1>1. PostingBounded'
    <2> USE DEF TypeOK, PostingBounded
    <2>1. ASSUME NEW t \in Threads, AddPendingWake(t) PROVE PostingBounded'
      BY <2>1 DEF AddPendingWake, MayPost
    <2>2. ASSUME NEW t \in Threads, AddPendingPush(t) PROVE PostingBounded'
      BY <2>2 DEF AddPendingPush
    <2>3. CASE UNCHANGED <<posting, posted>>
      BY <2>3
    <2> QED
      BY <2>1, <2>2, <2>3 DEF Next, LoopStep, Start, Poll, Dispatch,
         CallbackReturns, HandleInRead, HandleInSwap, HandleInCall,
         FunctorReturns, HandleInReturn, UserThrows, StartCatch, vars
  <1>2. FlagCovers' /\ OneLoopThread' /\ BatchInHandler'
    <2> USE DEF TypeOK, FlagCovers, OneLoopThread, BatchInHandler
    <2>1. ASSUME NEW r \in Runners, Start(r)
          PROVE  FlagCovers' /\ OneLoopThread' /\ BatchInHandler'
      BY <2>1 DEF Start
    <2>2. ASSUME NEW r \in Runners, StartCatch(r)
          PROVE  FlagCovers' /\ OneLoopThread' /\ BatchInHandler'
      BY <2>2 DEF StartCatch
    <2>3. ASSUME NEW r \in Runners, HandleInSwap(r)
          PROVE  FlagCovers' /\ OneLoopThread' /\ BatchInHandler'
      BY <2>3 DEF HandleInSwap
    <2>4. ASSUME NEW r \in Runners, HandleInCall(r)
          PROVE  FlagCovers' /\ OneLoopThread' /\ BatchInHandler'
      BY <2>4 DEF HandleInCall
    <2>5. ASSUME NEW r \in Runners, UserThrows(r)
          PROVE  FlagCovers' /\ OneLoopThread' /\ BatchInHandler'
      BY <2>5 DEF UserThrows, InUser
    <2>6. ASSUME NEW r \in Runners,
                 \/ Poll(r) \/ Dispatch(r) \/ CallbackReturns(r)
                 \/ HandleInRead(r) \/ FunctorReturns(r) \/ HandleInReturn(r)
          PROVE  FlagCovers' /\ OneLoopThread' /\ BatchInHandler'
      BY <2>6 DEF Poll, Dispatch, CallbackReturns, HandleInRead,
         FunctorReturns, HandleInReturn
    <2>7. CASE UNCHANGED <<pc, loopRunning, batch>>
      BY <2>7
    <2> QED
      BY <2>1, <2>2, <2>3, <2>4, <2>5, <2>6, <2>7
         DEF Next, LoopStep, AddPendingWake, AddPendingPush, vars
  <1> QED
    BY <1>0, <1>1, <1>2

\* The inductive invariant holds always.
LEMMA LoopInvAlways == Spec => []LoopInv
  BY LoopInvInit, LoopStepInv, PTL DEF Spec

\* Every variable keeps its type, for any number of threads and any bounds.
THEOREM TypesOK == Spec => []TypeOK
  BY LoopInvAlways, PTL DEF LoopInv

\* At most one thread is inside EventLoopImpl::start.
THEOREM LoopIsExclusive == Spec => []OneLoopThread
  BY LoopInvAlways, PTL DEF LoopInv

-----------------------------------------------------------------------------
(***************************************************************************)
(* How a step changes the line of functors.                                *)
(***************************************************************************)
\* When r alone can hold a batch, Fetched is r's batch.
LEMMA ChosenBatch ==
  ASSUME NEW b \in [Runners -> Seq(Functors)], NEW r \in Runners,
         \A q \in Runners : b[q] # <<>> => q = r
  PROVE  (IF \E q \in Runners : b[q] # <<>>
          THEN b[CHOOSE q \in Runners : b[q] # <<>>] ELSE <<>>) = b[r]
  <1>1. CASE b[r] # <<>>
    <2>1. \E q \in Runners : b[q] # <<>>
      BY <1>1
    <2>2. (CHOOSE q \in Runners : b[q] # <<>>) = r
      BY <2>1
    <2> QED
      BY <2>1, <2>2
  <1>2. CASE b[r] = <<>>
    <2>1. ~ \E q \in Runners : b[q] # <<>>
      BY <1>2
    <2> QED
      BY <1>2, <2>1
  <1> QED
    BY <1>1, <1>2

\* The fetched batch is a sequence of functors.
LEMMA FetchedType == LoopInv => Fetched \in Seq(Functors)
  <1> SUFFICES ASSUME LoopInv PROVE Fetched \in Seq(Functors)
    OBVIOUS
  <1>1. batch \in [Runners -> Seq(Functors)] /\ <<>> \in Seq(Functors)
    BY EmptySeq DEF LoopInv, TypeOK
  <1>2. CASE \E q \in Runners : batch[q] # <<>>
    <2>1. (CHOOSE q \in Runners : batch[q] # <<>>) \in Runners
      BY <1>2
    <2> QED
      BY <1>1, <1>2, <2>1 DEF Fetched
  <1> QED
    BY <1>1, <1>2 DEF Fetched

\* With one thread in the loop, its batch is the fetched one.
LEMMA FetchedOf ==
  ASSUME LoopInv, NEW r \in Runners, pc[r] # "out"
  PROVE  Fetched = batch[r]
  <1>1. \A q \in Runners : batch[q] # <<>> => q = r
    BY DEF LoopInv, BatchInHandler, OneLoopThread
  <1> QED
    BY <1>1, ChosenBatch DEF Fetched, LoopInv, TypeOK

\* The same in the next state.
LEMMA FetchedOfNext ==
  ASSUME LoopInv', NEW r \in Runners, pc'[r] # "out"
  PROVE  Fetched' = batch'[r]
  <1>1. \A q \in Runners : batch'[q] # <<>> => q = r
    BY DEF LoopInv, BatchInHandler, OneLoopThread
  <1> QED
    BY <1>1, ChosenBatch DEF Fetched, LoopInv, TypeOK

\* A step leaves the waiting functors alone, queues one, calls the oldest, or
\* destroys the fetched ones.
LEMMA WaitingStep ==
  ASSUME LoopInv, LoopInv', [Next]_vars
  PROVE  \/ /\ Waiting' = Waiting
            /\ UNCHANGED <<ran, posted, dropped>>
         \/ \E t \in Threads :
               /\ AddPendingPush(t)
               /\ <<t, posted[t] + 1>> \in Functors
               /\ Waiting' = Append(Waiting, <<t, posted[t] + 1>>)
         \/ /\ Waiting # <<>>
            /\ ran' = Append(ran, Head(Waiting))
            /\ Waiting' = Tail(Waiting)
            /\ UNCHANGED <<posted, dropped>>
         \/ \E r \in Runners :
               /\ UserThrows(r)
               /\ Waiting = batch[r] \o pending
               /\ Waiting' = pending
  <1> DEFINE Quiet == Waiting' = Waiting /\ UNCHANGED <<ran, posted, dropped>>
  <1>0. /\ pending \in Seq(Functors) /\ ran \in Seq(Functors)
        /\ batch \in [Runners -> Seq(Functors)]
        /\ Fetched \in Seq(Functors)
    BY FetchedType DEF LoopInv, TypeOK
  <1>1. CASE UNCHANGED <<pending, batch, ran, posted, dropped>>
    BY <1>1 DEF Waiting, Fetched
  <1>2. ASSUME NEW t \in Threads, AddPendingPush(t)
        PROVE  /\ <<t, posted[t] + 1>> \in Functors
               /\ Waiting' = Append(Waiting, <<t, posted[t] + 1>>)
    <2> DEFINE x == <<t, posted[t] + 1>>
    <2>1. x \in Functors
      BY <1>2 DEF AddPendingPush, LoopInv, TypeOK, PostingBounded, Functors
    <2>2. Fetched' = Fetched /\ pending' = Append(pending, x)
      BY <1>2 DEF AddPendingPush, Fetched
    <2>3. <<x>> \in Seq(Functors)
      BY <2>1
    <2>4. Append(pending, x) = pending \o <<x>>
      BY <1>0, <2>1, AppendIsConcat
    <2>5. Fetched \o (pending \o <<x>>) = (Fetched \o pending) \o <<x>>
      BY <1>0, <2>3, ConcatAssociative
    <2>6. Append(Fetched \o pending, x) = (Fetched \o pending) \o <<x>>
      BY <1>0, <2>1, AppendIsConcat, ConcatProperties
    <2> QED
      BY <2>1, <2>2, <2>4, <2>5, <2>6 DEF Waiting
  <1>3. ASSUME NEW r \in Runners, HandleInSwap(r) PROVE Quiet
    <2>1. pc[r] # "out" /\ pc'[r] # "out" /\ batch[r] = <<>>
      BY <1>3 DEF HandleInSwap, LoopInv, TypeOK, BatchInHandler
    <2>2. Fetched = <<>> /\ Fetched' = pending /\ pending' = <<>>
      BY <1>0, <1>3, <2>1, FetchedOf, FetchedOfNext DEF HandleInSwap
    <2>3. pending \o <<>> = <<>> \o pending
      BY <1>0, ConcatEmptySeq
    <2> QED
      BY <1>3, <2>2, <2>3 DEF Waiting, HandleInSwap
  <1>4. ASSUME NEW r \in Runners, HandleInCall(r)
        PROVE  /\ Waiting # <<>>
               /\ ran' = Append(ran, Head(Waiting))
               /\ Waiting' = Tail(Waiting)
               /\ UNCHANGED <<posted, dropped>>
    <2> DEFINE b == batch[r]
    <2>1. pc[r] # "out" /\ pc'[r] # "out" /\ b # <<>> /\ b \in Seq(Functors)
      BY <1>0, <1>4 DEF HandleInCall, LoopInv, TypeOK
    <2>2. Fetched = b /\ Fetched' = Tail(b) /\ pending' = pending
      BY <1>0, <1>4, <2>1, FetchedOf, FetchedOfNext DEF HandleInCall
    <2> HIDE DEF b
    <2>3. /\ b \o pending # <<>>
          /\ Head(b \o pending) = Head(b)
          /\ Tail(b \o pending) = Tail(b) \o pending
      <3>1. b \o pending \in Seq(Functors) /\ Len(b \o pending) = Len(b) + Len(pending)
        BY <1>0, <2>1, ConcatProperties
      <3>2. Len(b) \in Nat \ {0} /\ Len(pending) \in Nat
        BY <1>0, <2>1, EmptySeq, LenProperties
      <3>3. b \o pending # <<>>
        BY <3>1, <3>2, EmptySeq
      <3>4. (b \o pending)[1] = b[1]
        BY <1>0, <2>1, <3>2, ConcatProperties
      <3>5. Tail(b) \in Seq(Functors) /\ Len(Tail(b)) = Len(b) - 1
            /\ \A i \in 1..Len(Tail(b)) : Tail(b)[i] = b[i + 1]
        BY <2>1, HeadTailProperties
      <3>6. /\ Tail(b \o pending) \in Seq(Functors)
            /\ Len(Tail(b \o pending)) = Len(b \o pending) - 1
            /\ \A i \in 1..Len(Tail(b \o pending)) :
                  Tail(b \o pending)[i] = (b \o pending)[i + 1]
        BY <3>1, <3>3, HeadTailProperties
      <3>7. /\ Tail(b) \o pending \in Seq(Functors)
            /\ Len(Tail(b) \o pending) = Len(b) - 1 + Len(pending)
            /\ \A i \in 1..Len(b) - 1 + Len(pending) : (Tail(b) \o pending)[i] =
                  IF i <= Len(b) - 1 THEN Tail(b)[i] ELSE pending[i - (Len(b) - 1)]
        BY <1>0, <3>5, ConcatProperties
      <3>8. \A i \in 1..Len(b) + Len(pending) : (b \o pending)[i] =
                  IF i <= Len(b) THEN b[i] ELSE pending[i - Len(b)]
        BY <1>0, <2>1, ConcatProperties
      <3>9. ASSUME NEW i \in 1..Len(Tail(b \o pending))
            PROVE  Tail(b \o pending)[i] = (Tail(b) \o pending)[i]
        BY <3>1, <3>2, <3>5, <3>6, <3>7, <3>8
      <3>10. Tail(b \o pending) = Tail(b) \o pending
        BY <3>1, <3>2, <3>6, <3>7, <3>9, SeqEqual
      <3> QED
        BY <3>3, <3>4, <3>10
    <2>4. ran' = Append(ran, Head(b)) /\ UNCHANGED <<posted, dropped>>
      BY <1>4 DEF HandleInCall, b
    <2> QED
      BY <2>2, <2>3, <2>4 DEF Waiting
  <1>5. ASSUME NEW r \in Runners, UserThrows(r)
        PROVE  Waiting = batch[r] \o pending /\ Waiting' = pending
    <2>1. pc[r] # "out" /\ pc'[r] # "out" /\ batch'[r] = <<>> /\ pending' = pending
      BY <1>5 DEF UserThrows, InUser, LoopInv, TypeOK
    <2>2. Fetched = batch[r] /\ Fetched' = <<>>
      BY <2>1, FetchedOf, FetchedOfNext
    <2>3. <<>> \o pending = pending
      BY <1>0, ConcatEmptySeq
    <2> QED
      BY <2>1, <2>2, <2>3 DEF Waiting
  <1> QED
    BY <1>1, <1>2, <1>3, <1>4, <1>5
       DEF Next, LoopStep, AddPendingWake, Start, Poll, Dispatch,
           CallbackReturns, HandleInRead, FunctorReturns, HandleInReturn,
           StartCatch, vars

\* Moving the head of w to the end of a does not change the two in a row.
LEMMA MoveHead ==
  ASSUME NEW S, NEW a \in Seq(S), NEW w \in Seq(S), w # <<>>
  PROVE  Append(a, Head(w)) \o Tail(w) = a \o w
  <1>1. /\ Head(w) \in S /\ Tail(w) \in Seq(S)
        /\ Len(Tail(w)) = Len(w) - 1
        /\ \A i \in 1..Len(Tail(w)) : Tail(w)[i] = w[i + 1]
        /\ Head(w) = w[1]
    BY HeadTailProperties
  <1>2. Len(w) \in Nat \ {0} /\ Len(a) \in Nat
    BY EmptySeq, LenProperties
  <1>3. /\ Append(a, Head(w)) \in Seq(S)
        /\ Len(Append(a, Head(w))) = Len(a) + 1
        /\ \A i \in 1..Len(a) : Append(a, Head(w))[i] = a[i]
        /\ Append(a, Head(w))[Len(a) + 1] = Head(w)
    BY <1>1, AppendProperties
  <1> DEFINE A == Append(a, Head(w))
             B == Tail(w)
  <1>4. /\ A \o B \in Seq(S) /\ Len(A \o B) = Len(A) + Len(B)
        /\ \A i \in 1..Len(A) + Len(B) :
              (A \o B)[i] = IF i <= Len(A) THEN A[i] ELSE B[i - Len(A)]
    BY <1>1, <1>3, ConcatProperties
  <1>5. /\ a \o w \in Seq(S) /\ Len(a \o w) = Len(a) + Len(w)
        /\ \A i \in 1..Len(a) + Len(w) :
              (a \o w)[i] = IF i <= Len(a) THEN a[i] ELSE w[i - Len(a)]
    BY ConcatProperties
  <1>6. ASSUME NEW i \in 1..Len(A \o B) PROVE (A \o B)[i] = (a \o w)[i]
    <2>1. CASE i <= Len(a)
      BY <1>1, <1>2, <1>3, <1>4, <1>5, <2>1
    <2>2. CASE i = Len(a) + 1
      BY <1>1, <1>2, <1>3, <1>4, <1>5, <2>2
    <2>3. CASE i > Len(a) + 1
      <3>1. i - (Len(a) + 1) \in 1..Len(B) /\ ~(i <= Len(A)) /\ ~(i <= Len(a))
        BY <1>1, <1>2, <1>3, <1>4, <2>3
      <3>2. (A \o B)[i] = B[i - (Len(a) + 1)]
        BY <1>1, <1>2, <1>3, <1>4, <3>1
      <3>3. B[i - (Len(a) + 1)] = w[i - Len(a)]
        BY <1>1, <1>2, <3>1
      <3> QED
        BY <1>1, <1>2, <1>3, <1>4, <1>5, <3>1, <3>2, <3>3
    <2> QED
      BY <1>2, <1>4, <2>1, <2>2, <2>3
  <1> QED
    BY <1>1, <1>2, <1>3, <1>4, <1>5, <1>6, SeqEqual

\* Where the elements of three sequences in a row stand, and of the outer two.
LEMMA ThreeInARow ==
  ASSUME NEW S, NEW a \in Seq(S), NEW b \in Seq(S), NEW c \in Seq(S)
  PROVE  /\ a \o (b \o c) \in Seq(S) /\ a \o c \in Seq(S)
         /\ Len(a \o (b \o c)) = Len(a) + Len(b) + Len(c)
         /\ Len(a \o c) = Len(a) + Len(c)
         /\ \A i \in 1..Len(a) :
               (a \o (b \o c))[i] = a[i] /\ (a \o c)[i] = a[i]
         /\ \A i \in 1..Len(b) : (a \o (b \o c))[Len(a) + i] = b[i]
         /\ \A i \in 1..Len(c) :
               /\ (a \o (b \o c))[Len(a) + Len(b) + i] = c[i]
               /\ (a \o c)[Len(a) + i] = c[i]
  <1>0. Len(a) \in Nat /\ Len(b) \in Nat /\ Len(c) \in Nat
    BY LenProperties
  <1>1. /\ b \o c \in Seq(S) /\ Len(b \o c) = Len(b) + Len(c)
        /\ \A i \in 1..Len(b) + Len(c) :
              (b \o c)[i] = IF i <= Len(b) THEN b[i] ELSE c[i - Len(b)]
    BY ConcatProperties
  <1>2. /\ a \o c \in Seq(S) /\ Len(a \o c) = Len(a) + Len(c)
        /\ \A i \in 1..Len(a) + Len(c) :
              (a \o c)[i] = IF i <= Len(a) THEN a[i] ELSE c[i - Len(a)]
    BY ConcatProperties
  <1> DEFINE d == b \o c
  <1>3. /\ a \o d \in Seq(S) /\ Len(a \o d) = Len(a) + Len(d)
        /\ \A i \in 1..Len(a) + Len(d) :
              (a \o d)[i] = IF i <= Len(a) THEN a[i] ELSE d[i - Len(a)]
    BY <1>1, ConcatProperties
  <1> HIDE DEF d
  <1>4. Len(d) = Len(b) + Len(c)
    BY <1>1 DEF d
  <1>5. ASSUME NEW i \in 1..Len(a)
        PROVE  (a \o d)[i] = a[i] /\ (a \o c)[i] = a[i]
    BY <1>0, <1>2, <1>3, <1>4
  <1>6. ASSUME NEW i \in 1..Len(b) PROVE (a \o d)[Len(a) + i] = b[i]
    <2>1. (a \o d)[Len(a) + i] = d[i]
      <3>1. Len(a) + i \in 1..Len(a) + Len(d) /\ ~(Len(a) + i <= Len(a))
            /\ (Len(a) + i) - Len(a) = i
        BY <1>0, <1>4
      <3> QED
        BY <1>3, <3>1
    <2>2. d[i] = b[i]
      BY <1>0, <1>1 DEF d
    <2> QED
      BY <2>1, <2>2
  <1>7. ASSUME NEW i \in 1..Len(c)
        PROVE  (a \o d)[Len(a) + Len(b) + i] = c[i] /\ (a \o c)[Len(a) + i] = c[i]
    <2>1. (a \o d)[Len(a) + Len(b) + i] = d[Len(b) + i]
      <3>1. /\ Len(a) + Len(b) + i \in 1..Len(a) + Len(d)
            /\ ~(Len(a) + Len(b) + i <= Len(a))
            /\ (Len(a) + Len(b) + i) - Len(a) = Len(b) + i
        BY <1>0, <1>4
      <3> QED
        BY <1>3, <3>1
    <2>2. d[Len(b) + i] = c[i]
      <3>1. /\ Len(b) + i \in 1..Len(b) + Len(c) /\ ~(Len(b) + i <= Len(b))
            /\ (Len(b) + i) - Len(b) = i
        BY <1>0
      <3> QED
        BY <1>1, <3>1 DEF d
    <2>3. (a \o c)[Len(a) + i] = c[i]
      <3>1. /\ Len(a) + i \in 1..Len(a) + Len(c) /\ ~(Len(a) + i <= Len(a))
            /\ (Len(a) + i) - Len(a) = i
        BY <1>0
      <3> QED
        BY <1>2, <3>1
    <2> QED
      BY <2>1, <2>2, <2>3
  <1> QED
    BY <1>0, <1>2, <1>3, <1>4, <1>5, <1>6, <1>7 DEF d

\* Called and waiting functors are sequences.
LEMMA LineType == LoopInv => Line \in Seq(Functors) /\ Waiting \in Seq(Functors)
  BY FetchedType, ConcatProperties DEF LoopInv, TypeOK, Line, Waiting

\* A step leaves the line alone, puts a new functor at its end, or cuts the
\* throwing runner's batch out of its middle.
LEMMA LineStep ==
  ASSUME LoopInv, LoopInv', [Next]_vars
  PROVE  \/ Line' = Line /\ UNCHANGED <<posted, dropped>>
         \/ \E t \in Threads :
               /\ Line' = Append(Line, <<t, posted[t] + 1>>)
               /\ <<t, posted[t] + 1>> \in Functors
               /\ posted' = [posted EXCEPT ![t] = @ + 1]
               /\ UNCHANGED dropped
         \/ \E r \in Runners :
               /\ Line = ran \o (batch[r] \o pending)
               /\ Line' = ran \o pending
               /\ dropped' = dropped \cup SeqRange(batch[r])
               /\ UNCHANGED posted
  <1>0. ran \in Seq(Functors) /\ Waiting \in Seq(Functors)
    BY LineType DEF LoopInv, TypeOK
  <1>1. CASE Waiting' = Waiting /\ UNCHANGED <<ran, posted, dropped>>
    BY <1>1 DEF Line
  <1>2. ASSUME NEW t \in Threads, AddPendingPush(t),
               <<t, posted[t] + 1>> \in Functors,
               Waiting' = Append(Waiting, <<t, posted[t] + 1>>)
        PROVE  /\ Line' = Append(Line, <<t, posted[t] + 1>>)
               /\ posted' = [posted EXCEPT ![t] = @ + 1]
               /\ UNCHANGED dropped
    <2> DEFINE x == <<t, posted[t] + 1>>
    <2>1. ran' = ran /\ posted' = [posted EXCEPT ![t] = @ + 1] /\ dropped' = dropped
      BY <1>2 DEF AddPendingPush
    <2>2. x \in Functors /\ Waiting' = Append(Waiting, x)
      BY <1>2
    <2> HIDE DEF x
    <2>3. <<x>> \in Seq(Functors)
      BY <2>2
    <2>4. Append(Waiting, x) = Waiting \o <<x>>
      BY <1>0, <2>2, AppendIsConcat
    <2>5. ran \o (Waiting \o <<x>>) = (ran \o Waiting) \o <<x>>
      BY <1>0, <2>3, ConcatAssociative
    <2>6. Append(ran \o Waiting, x) = (ran \o Waiting) \o <<x>>
      BY <1>0, <2>2, AppendIsConcat, ConcatProperties
    <2>7. Line' = Append(Line, x)
      BY <2>1, <2>2, <2>4, <2>5, <2>6 DEF Line
    <2> QED
      BY <2>1, <2>7 DEF x
  <1>3. CASE /\ Waiting # <<>>
             /\ ran' = Append(ran, Head(Waiting))
             /\ Waiting' = Tail(Waiting)
             /\ UNCHANGED <<posted, dropped>>
    BY <1>0, <1>3, MoveHead DEF Line
  <1>4. ASSUME NEW r \in Runners, UserThrows(r),
               Waiting = batch[r] \o pending, Waiting' = pending
        PROVE  /\ Line = ran \o (batch[r] \o pending)
               /\ Line' = ran \o pending
               /\ dropped' = dropped \cup SeqRange(batch[r])
               /\ UNCHANGED posted
    BY <1>4 DEF Line, UserThrows
  <1> QED
    BY <1>1, <1>2, <1>3, <1>4, WaitingStep

-----------------------------------------------------------------------------
(***************************************************************************)
(* Order kept, nothing lost, nothing destroyed comes back.                 *)
(***************************************************************************)
\* Every functor in the line, and every destroyed one, was counted when it was
\* handed over: the next one of its thread has a greater number.
Counted == \A i \in 1..Len(Line) : Line[i][2] <= posted[Line[i][1]]
DroppedCounted == \A f \in dropped : f[2] <= posted[f[1]]

OrderInv == /\ PostOrderKept
            /\ Counted
            /\ DroppedCounted
            /\ DroppedNeverRuns
            /\ NothingLost

\* What OrderInv says when the line is l, the counts are p and the destroyed
\* functors are d.
Ordered(l, p, d) ==
    /\ \A i, j \in 1..Len(l) : i < j /\ l[i][1] = l[j][1] => l[i][2] < l[j][2]
    /\ \A i \in 1..Len(l) : l[i][2] <= p[l[i][1]]
    /\ \A f \in d : f[2] <= p[f[1]]
    /\ \A i \in 1..Len(l) : l[i] \notin d
    /\ \A t \in Threads : \A n \in 1..p[t] :
          <<t, n>> \in d \/ \E i \in 1..Len(l) : l[i] = <<t, n>>

\* OrderInv as a statement about three values.
LEMMA OrderedIsOrderInv == OrderInv <=> Ordered(Line, posted, dropped)
  BY DEF OrderInv, Ordered, PostOrderKept, Counted, DroppedCounted,
         DroppedNeverRuns, NothingLost, SeqRange

\* Appending a fresh functor keeps the order.
LEMMA OrderedAppend ==
  ASSUME NEW l \in Seq(Functors), NEW p \in [Threads -> 0..MaxPosts],
         NEW d \in SUBSET Functors, NEW t \in Threads,
         <<t, p[t] + 1>> \in Functors, Ordered(l, p, d)
  PROVE  Ordered(Append(l, <<t, p[t] + 1>>), [p EXCEPT ![t] = @ + 1], d)
  <1> DEFINE x == <<t, p[t] + 1>>
             m == Append(l, x)
             q == [p EXCEPT ![t] = @ + 1]
  <1>1. /\ x \in Functors /\ x[1] = t /\ x[2] = p[t] + 1
        /\ q[t] = p[t] + 1 /\ p[t] \in Nat
        /\ \A u \in Threads : p[u] \in Nat /\ p[u] <= q[u] /\ (u # t => q[u] = p[u])
    OBVIOUS
  <1>2. /\ Len(l) \in Nat /\ Len(m) = Len(l) + 1
        /\ \A i \in 1..Len(l) : m[i] = l[i]
        /\ m[Len(l) + 1] = x
    BY <1>1, AppendProperties, LenProperties
  <1>3. \A i \in 1..Len(l) : l[i] \in Functors
    BY ElementOfSeq
  <1>4. \A f \in Functors : f = <<f[1], f[2]>> /\ f[1] \in Threads /\ f[2] \in Nat
    BY DEF Functors
  <1>5. \A i \in 1..Len(m) : i \in 1..Len(l) \/ i = Len(l) + 1
    BY <1>2
  <1> HIDE DEF x, m, q
  <1>6. ASSUME NEW i \in 1..Len(m), NEW j \in 1..Len(m), i < j, m[i][1] = m[j][1]
        PROVE  m[i][2] < m[j][2]
    <2>1. i \in 1..Len(l)
      BY <1>2, <1>6
    <2>2. CASE j \in 1..Len(l)
      BY <1>2, <1>6, <2>1, <2>2 DEF Ordered
    <2>3. CASE j = Len(l) + 1
      <3>1. l[i][1] = t /\ l[i][2] <= p[t] /\ l[i][2] \in Nat
        BY <1>1, <1>2, <1>3, <1>4, <1>6, <2>1, <2>3 DEF Ordered
      <3> QED
        BY <1>1, <1>2, <2>1, <2>3, <3>1
    <2> QED
      BY <1>5, <2>2, <2>3
  <1>7. ASSUME NEW i \in 1..Len(m) PROVE m[i][2] <= q[m[i][1]]
    <2>1. CASE i \in 1..Len(l)
      <3>1. l[i][2] <= p[l[i][1]] /\ p[l[i][1]] <= q[l[i][1]]
        BY <1>1, <1>3, <1>4, <2>1 DEF Ordered
      <3>2. l[i][2] \in Nat /\ p[l[i][1]] \in Nat /\ q[l[i][1]] \in Nat
        BY <1>1, <1>3, <1>4, <2>1
      <3>3. m[i] = l[i]
        BY <1>2, <2>1
      <3> QED
        BY ONLY <3>1, <3>2, <3>3
    <2>2. CASE i = Len(l) + 1
      BY <1>1, <1>2, <2>2
    <2> QED
      BY <1>5, <2>1, <2>2
  <1>8. ASSUME NEW f \in d PROVE f[2] <= q[f[1]]
    <2>1. f[2] <= p[f[1]] /\ p[f[1]] <= q[f[1]] /\ f[2] \in Nat
          /\ p[f[1]] \in Nat /\ q[f[1]] \in Nat
      BY <1>1, <1>4 DEF Ordered
    <2> QED
      BY <2>1
  <1>9. ASSUME NEW i \in 1..Len(m) PROVE m[i] \notin d
    <2>1. CASE i \in 1..Len(l)
      BY <1>2, <2>1 DEF Ordered
    <2>2. CASE i = Len(l) + 1
      <3>1. ASSUME x \in d PROVE FALSE
        <4>1. x[2] <= p[x[1]]
          BY <3>1 DEF Ordered
        <4> QED
          BY <1>1, <4>1
      <3> QED
        BY <1>2, <2>2, <3>1
    <2> QED
      BY <1>5, <2>1, <2>2
  <1>10. ASSUME NEW u \in Threads, NEW n \in 1..q[u]
         PROVE  <<u, n>> \in d \/ \E i \in 1..Len(m) : m[i] = <<u, n>>
    <2>1. CASE n \in 1..p[u]
      <3>1. CASE <<u, n>> \in d
        BY <3>1
      <3>2. CASE \E i \in 1..Len(l) : l[i] = <<u, n>>
        <4>1. PICK i \in 1..Len(l) : l[i] = <<u, n>>
          BY <3>2
        <4>2. i \in 1..Len(m) /\ m[i] = <<u, n>>
          BY <1>2, <4>1
        <4> QED
          BY <4>2
      <3> QED
        BY <2>1, <3>1, <3>2 DEF Ordered
    <2>2. CASE n \notin 1..p[u]
      <3>1. u = t /\ n = p[t] + 1
        BY <1>1, <2>2
      <3>2. Len(l) + 1 \in 1..Len(m) /\ m[Len(l) + 1] = <<u, n>>
        BY <1>2, <3>1 DEF x
      <3> QED
        BY <3>2
    <2> QED
      BY <2>1, <2>2
  <1>11. Ordered(m, q, d)
    BY <1>6, <1>7, <1>8, <1>9, <1>10 DEF Ordered
  <1> QED
    BY <1>11 DEF m, q, x

\* Cutting out a batch that an exception destroyed keeps the order.
LEMMA OrderedCut ==
  ASSUME NEW a \in Seq(Functors), NEW b \in Seq(Functors), NEW c \in Seq(Functors),
         NEW p \in [Threads -> 0..MaxPosts], NEW d \in SUBSET Functors,
         Ordered(a \o (b \o c), p, d)
  PROVE  Ordered(a \o c, p, d \cup SeqRange(b))
  <1> DEFINE l == a \o (b \o c)
             m == a \o c
             g(i) == IF i <= Len(a) THEN i ELSE i + Len(b)
  <1>0. Len(a) \in Nat /\ Len(b) \in Nat /\ Len(c) \in Nat
    BY LenProperties
  <1>1. /\ l \in Seq(Functors)
        /\ Len(l) = Len(a) + Len(b) + Len(c)
        /\ Len(m) = Len(a) + Len(c)
        /\ \A i \in 1..Len(a) : l[i] = a[i] /\ m[i] = a[i]
        /\ \A i \in 1..Len(b) : l[Len(a) + i] = b[i]
        /\ \A i \in 1..Len(c) : l[Len(a) + Len(b) + i] = c[i] /\ m[Len(a) + i] = c[i]
    <2>1. l \in Seq(Functors) /\ Len(l) = Len(a) + Len(b) + Len(c)
          /\ Len(m) = Len(a) + Len(c)
      BY ThreeInARow
    <2>2. \A i \in 1..Len(a) : l[i] = a[i] /\ m[i] = a[i]
      BY ThreeInARow
    <2>3. \A i \in 1..Len(b) : l[Len(a) + i] = b[i]
      BY ThreeInARow
    <2>4. \A i \in 1..Len(c) : l[Len(a) + Len(b) + i] = c[i] /\ m[Len(a) + i] = c[i]
      BY ThreeInARow
    <2> QED
      BY <2>1, <2>2, <2>3, <2>4
  <1> HIDE DEF l, m
  <1>2. ASSUME NEW i \in 1..Len(m)
        PROVE  g(i) \in 1..Len(l) /\ m[i] = l[g(i)]
    <2>1. CASE i <= Len(a)
      BY <1>0, <1>1, <2>1
    <2>2. CASE i > Len(a)
      <3>1. i - Len(a) \in 1..Len(c) /\ g(i) = Len(a) + Len(b) + (i - Len(a))
            /\ i = Len(a) + (i - Len(a))
        BY <1>0, <1>1, <2>2
      <3>2. l[Len(a) + Len(b) + (i - Len(a))] = c[i - Len(a)]
            /\ m[Len(a) + (i - Len(a))] = c[i - Len(a)]
        BY <1>1, <3>1
      <3> QED
        BY <1>0, <1>1, <3>1, <3>2
    <2> QED
      BY <1>0, <1>1, <2>1, <2>2
  <1>3. \A i, j \in 1..Len(m) : i < j => g(i) < g(j)
    BY <1>0, <1>1
  <1>4. \A i \in 1..Len(m), k \in 1..Len(b) :
            g(i) < Len(a) + k \/ Len(a) + k < g(i)
    BY <1>0, <1>1
  <1>5. \A k \in 1..Len(b) : Len(a) + k \in 1..Len(l)
    BY <1>0, <1>1
  <1> HIDE DEF g
  <1>6. \A i \in 1..Len(l) : l[i] \in Functors
    BY <1>1, ElementOfSeq
  <1>7. \A f \in Functors : f = <<f[1], f[2]>> /\ f[1] \in Threads /\ f[2] \in Nat
    BY DEF Functors
  <1>8. /\ \A i, j \in 1..Len(l) : i < j /\ l[i][1] = l[j][1] => l[i][2] < l[j][2]
        /\ \A i \in 1..Len(l) : l[i][2] <= p[l[i][1]]
        /\ \A f \in d : f[2] <= p[f[1]]
        /\ \A i \in 1..Len(l) : l[i] \notin d
        /\ \A t \in Threads : \A n \in 1..p[t] :
              <<t, n>> \in d \/ \E i \in 1..Len(l) : l[i] = <<t, n>>
    BY DEF Ordered, l
  <1>9. ASSUME NEW i \in 1..Len(m), NEW j \in 1..Len(m), i < j, m[i][1] = m[j][1]
        PROVE  m[i][2] < m[j][2]
    <2>1. /\ g(i) \in 1..Len(l) /\ g(j) \in 1..Len(l) /\ g(i) < g(j)
          /\ m[i] = l[g(i)] /\ m[j] = l[g(j)]
      BY <1>2, <1>3, <1>9
    <2>2. \A x, y \in 1..Len(l) : x < y /\ l[x][1] = l[y][1] => l[x][2] < l[y][2]
      BY <1>8
    <2> QED
      BY ONLY <1>9, <2>1, <2>2
  <1>10. \A i \in 1..Len(m) : m[i][2] <= p[m[i][1]]
    BY <1>2, <1>8
  <1>11. ASSUME NEW f \in d \cup SeqRange(b) PROVE f[2] <= p[f[1]]
    <2>1. CASE f \in d
      BY <1>8, <2>1
    <2>2. CASE f \in SeqRange(b)
      <3>1. PICK k \in 1..Len(b) : f = b[k]
        BY <2>2 DEF SeqRange
      <3>2. f = l[Len(a) + k] /\ Len(a) + k \in 1..Len(l)
        BY <1>1, <1>5, <3>1
      <3> QED
        BY <1>8, <3>2
    <2> QED
      BY <2>1, <2>2
  <1>12. ASSUME NEW i \in 1..Len(m) PROVE m[i] \notin d \cup SeqRange(b)
    <2>1. m[i] \notin d
      BY <1>2, <1>8
    <2>2. ASSUME NEW k \in 1..Len(b), m[i] = b[k] PROVE FALSE
      <3>1. l[g(i)] = l[Len(a) + k]
        BY <1>1, <1>2, <2>2
      <3>2. g(i) \in 1..Len(l) /\ Len(a) + k \in 1..Len(l)
        BY <1>2, <1>5
      <3>3. l[g(i)][2] \in Nat
        BY <1>6, <1>7, <3>2
      <3>4. \A x, y \in 1..Len(l) : x < y => l[x] # l[y]
        <4> SUFFICES ASSUME NEW x \in 1..Len(l), NEW y \in 1..Len(l), x < y, l[x] = l[y]
                     PROVE  FALSE
          OBVIOUS
        <4>1. l[x][2] < l[y][2]
          BY <1>8
        <4>2. l[x][2] \in Nat
          BY <1>6, <1>7
        <4> QED
          BY ONLY <4>1, <4>2, l[x] = l[y]
      <3> QED
        BY <1>4, <3>1, <3>2, <3>4
    <2> QED
      BY <2>1, <2>2 DEF SeqRange
  <1>13. ASSUME NEW t \in Threads, NEW n \in 1..p[t]
         PROVE  <<t, n>> \in d \cup SeqRange(b) \/ \E i \in 1..Len(m) : m[i] = <<t, n>>
    <2>1. CASE <<t, n>> \in d
      BY <2>1
    <2>2. ASSUME NEW i \in 1..Len(l), l[i] = <<t, n>>
          PROVE  <<t, n>> \in SeqRange(b) \/ \E j \in 1..Len(m) : m[j] = <<t, n>>
      <3>1. CASE i <= Len(a)
        <4>1. i \in 1..Len(a) /\ i \in 1..Len(m)
          BY <1>0, <1>1, <3>1
        <4>2. m[i] = <<t, n>>
          BY <1>1, <2>2, <4>1
        <4> QED
          BY <4>1, <4>2
      <3>2. CASE Len(a) < i /\ i <= Len(a) + Len(b)
        <4>1. i - Len(a) \in 1..Len(b) /\ i = Len(a) + (i - Len(a))
          BY <1>0, <1>1, <3>2
        <4>2. b[i - Len(a)] = <<t, n>>
          BY <1>1, <2>2, <4>1
        <4> QED
          BY <4>1, <4>2 DEF SeqRange
      <3>3. CASE Len(a) + Len(b) < i
        <4> DEFINE k == i - (Len(a) + Len(b))
        <4>1. k \in 1..Len(c) /\ i = Len(a) + Len(b) + k /\ Len(a) + k \in 1..Len(m)
          BY <1>0, <1>1, <3>3
        <4>2. m[Len(a) + k] = <<t, n>>
          BY <1>1, <2>2, <4>1
        <4> QED
          BY <4>1, <4>2
      <3>4. i \in Int /\ Len(a) \in Int /\ Len(a) + Len(b) \in Int
        BY <1>0, <1>1
      <3> QED
        BY <3>1, <3>2, <3>3, <3>4
    <2> QED
      BY <1>8, <2>1, <2>2
  <1>14. Ordered(m, p, d \cup SeqRange(b))
    BY <1>9, <1>10, <1>11, <1>12, <1>13 DEF Ordered
  <1> QED
    BY <1>14 DEF m

\* The initial states.
LEMMA OrderInvInit == Init => OrderInv
  <1> SUFFICES ASSUME Init PROVE OrderInv
    OBVIOUS
  <1>1. Fetched = <<>> /\ ran = <<>> /\ pending = <<>>
    BY DEF Init, Fetched
  <1>2. Line = <<>> /\ Len(Line) = 0
    BY <1>1 DEF Line, Waiting
  <1> HIDE DEF Line
  <1>3. dropped = {} /\ \A t \in Threads : posted[t] = 0
    BY DEF Init
  <1>4. Ordered(Line, posted, dropped)
    BY <1>2, <1>3 DEF Ordered
  <1> QED
    BY <1>4, OrderedIsOrderInv

\* Every step keeps OrderInv.
LEMMA OrderStepInv == LoopInv /\ LoopInv' /\ OrderInv /\ [Next]_vars => OrderInv'
  <1> SUFFICES ASSUME LoopInv, LoopInv', OrderInv, [Next]_vars PROVE OrderInv'
    OBVIOUS
  <1>0. /\ Line \in Seq(Functors) /\ ran \in Seq(Functors) /\ pending \in Seq(Functors)
        /\ posted \in [Threads -> 0..MaxPosts] /\ dropped \in SUBSET Functors
        /\ \A r \in Runners : batch[r] \in Seq(Functors)
    BY LineType DEF LoopInv, TypeOK
  <1>1. Ordered(Line, posted, dropped)
    BY OrderedIsOrderInv
  <1>2. CASE Line' = Line /\ UNCHANGED <<posted, dropped>>
    <2>1. Ordered(Line', posted', dropped')
      BY <1>1, <1>2
    <2> QED
      BY <2>1 DEF OrderInv, Ordered, PostOrderKept, Counted, DroppedCounted,
                  DroppedNeverRuns, NothingLost, SeqRange
  <1>3. ASSUME NEW t \in Threads,
               Line' = Append(Line, <<t, posted[t] + 1>>),
               <<t, posted[t] + 1>> \in Functors,
               posted' = [posted EXCEPT ![t] = @ + 1],
               dropped' = dropped
        PROVE  OrderInv'
    <2>1. Ordered(Append(Line, <<t, posted[t] + 1>>), [posted EXCEPT ![t] = @ + 1], dropped)
      BY <1>0, <1>1, <1>3, OrderedAppend
    <2>2. Ordered(Line', posted', dropped')
      BY <1>3, <2>1
    <2> QED
      BY <2>2 DEF OrderInv, Ordered, PostOrderKept, Counted, DroppedCounted,
                  DroppedNeverRuns, NothingLost, SeqRange
  <1>4. ASSUME NEW r \in Runners,
               Line = ran \o (batch[r] \o pending),
               Line' = ran \o pending,
               dropped' = dropped \cup SeqRange(batch[r]),
               posted' = posted
        PROVE  OrderInv'
    <2>1. Ordered(ran \o pending, posted, dropped \cup SeqRange(batch[r]))
      BY <1>0, <1>1, <1>4, OrderedCut
    <2>2. Ordered(Line', posted', dropped')
      BY <1>4, <2>1
    <2> QED
      BY <2>2 DEF OrderInv, Ordered, PostOrderKept, Counted, DroppedCounted,
                  DroppedNeverRuns, NothingLost, SeqRange
  <1> QED
    BY <1>2, <1>3, <1>4, LineStep

\* OrderInv holds of every reachable state.
LEMMA OrderInvAlways == Spec => []OrderInv
  <1>1. LoopInv /\ LoopInv' /\ OrderInv /\ [Next]_vars => OrderInv'
    BY OrderStepInv
  <1> QED
    BY <1>1, LoopInvAlways, OrderInvInit, PTL DEF Spec

\* runInLoop keeps each thread's order and calls no functor twice, for any
\* number of threads, exceptions and restarts.
THEOREM OrderIsKept == Spec => []PostOrderKept
  BY OrderInvAlways, PTL DEF OrderInv

\* No functor that addPendingFunction accepted vanishes except by an exception.
THEOREM NothingIsLost == Spec => []NothingLost
  BY OrderInvAlways, PTL DEF OrderInv

\* A functor that an exception destroyed is never called by a later run().
THEOREM DroppedStaysDropped == Spec => []DroppedNeverRuns
  BY OrderInvAlways, PTL DEF OrderInv

-----------------------------------------------------------------------------
(***************************************************************************)
(* Refinement.                                                             *)
(***************************************************************************)
LEMMA QueueInit == Init => Queue!AInit
  <1> SUFFICES ASSUME Init PROVE Queue!AInit
    OBVIOUS
  <1>1. Fetched = <<>> /\ ran = <<>> /\ pending = <<>>
    BY DEF Init, Fetched
  <1> QED
    BY <1>1 DEF Queue!AInit, Waiting

\* The functor a thread is about to hand over was never in the line.
LEMMA FreshFunctor ==
  ASSUME LoopInv, OrderInv, NEW t \in Threads
  PROVE  ~Queue!InSeq(<<t, posted[t] + 1>>, Waiting)
         /\ ~Queue!InSeq(<<t, posted[t] + 1>>, ran)
  <1>1. /\ ran \in Seq(Functors) /\ Waiting \in Seq(Functors)
        /\ posted[t] \in Nat
    BY LineType DEF LoopInv, TypeOK
  <1>2. Len(ran) \in Nat /\ Len(Waiting) \in Nat
    BY <1>1, LenProperties
  <1>3. /\ Len(Line) = Len(ran) + Len(Waiting)
        /\ \A i \in 1..Len(ran) + Len(Waiting) : Line[i] =
               IF i <= Len(ran) THEN ran[i] ELSE Waiting[i - Len(ran)]
    BY <1>1, ConcatProperties DEF Line
  <1>4. ASSUME NEW i \in 1..Len(Line) PROVE Line[i] # <<t, posted[t] + 1>>
    BY <1>1 DEF OrderInv, Counted
  <1>5. ASSUME NEW i \in 1..Len(ran) PROVE ran[i] # <<t, posted[t] + 1>>
    <2>1. i \in 1..Len(Line) /\ Line[i] = ran[i]
      BY <1>2, <1>3
    <2> QED
      BY <1>4, <2>1
  <1>6. ASSUME NEW i \in 1..Len(Waiting) PROVE Waiting[i] # <<t, posted[t] + 1>>
    <2>1. Len(ran) + i \in 1..Len(Line) /\ ~(Len(ran) + i <= Len(ran))
          /\ (Len(ran) + i) - Len(ran) = i
      BY <1>2, <1>3
    <2>2. Line[Len(ran) + i] = Waiting[i]
      BY <1>3, <2>1
    <2> QED
      BY <1>4, <2>1, <2>2
  <1> QED
    BY <1>5, <1>6 DEF Queue!InSeq

\* What is left when a prefix is cut off.
LEMMA CutPrefix ==
  ASSUME NEW S, NEW b \in Seq(S), NEW c \in Seq(S)
  PROVE  SubSeq(b \o c, Len(b) + 1, Len(b \o c)) = c
  <1>0. Len(b) \in Nat /\ Len(c) \in Nat
    BY LenProperties
  <1>1. /\ b \o c \in Seq(S) /\ Len(b \o c) = Len(b) + Len(c)
        /\ \A i \in 1..Len(b) + Len(c) :
              (b \o c)[i] = IF i <= Len(b) THEN b[i] ELSE c[i - Len(b)]
    BY ConcatProperties
  <1> DEFINE l == b \o c
             s == SubSeq(l, Len(b) + 1, Len(l))
  <1>2. \A i \in Len(b) + 1..Len(l) : l[i] \in S
    BY <1>0, <1>1, ElementOfSeq
  <1>3. /\ s \in Seq(S)
        /\ Len(s) = IF Len(b) + 1 <= Len(l) THEN Len(l) - (Len(b) + 1) + 1 ELSE 0
        /\ \A i \in 1..Len(l) - (Len(b) + 1) + 1 : s[i] = l[Len(b) + 1 + i - 1]
    BY <1>0, <1>1, <1>2, SubSeqProperties
  <1>4. Len(s) = Len(c)
    BY <1>0, <1>1, <1>3
  <1>5. ASSUME NEW i \in 1..Len(c) PROVE s[i] = c[i]
    <2>1. /\ i \in 1..Len(l) - (Len(b) + 1) + 1
          /\ Len(b) + 1 + i - 1 = Len(b) + i
          /\ Len(b) + i \in 1..Len(b) + Len(c) /\ ~(Len(b) + i <= Len(b))
          /\ (Len(b) + i) - Len(b) = i
      BY <1>0, <1>1
    <2>2. s[i] = l[Len(b) + i]
      BY <1>3, <2>1
    <2> QED
      BY <1>1, <2>1, <2>2
  <1> QED
    BY <1>3, <1>4, <1>5, SeqEqual

\* Every step is a step of FunctorQueue or a stutter.
LEMMA QueueStep ==
  ASSUME LoopInv, LoopInv', OrderInv, [Next]_vars
  PROVE  [Queue!ANext]_(Queue!avars)
  <1>0. /\ ran \in Seq(Functors) /\ pending \in Seq(Functors)
        /\ \A r \in Runners : batch[r] \in Seq(Functors)
    BY DEF LoopInv, TypeOK
  <1>1. CASE Waiting' = Waiting /\ UNCHANGED <<ran, posted, dropped>>
    BY <1>1 DEF Queue!avars
  <1>2. ASSUME NEW t \in Threads, AddPendingPush(t),
               <<t, posted[t] + 1>> \in Functors,
               Waiting' = Append(Waiting, <<t, posted[t] + 1>>)
        PROVE  Queue!ANext
    <2>1. ran' = ran
      BY <1>2 DEF AddPendingPush
    <2>2. Queue!Post(<<t, posted[t] + 1>>)
      BY <1>2, <2>1, FreshFunctor DEF Queue!Post
    <2> QED
      BY <1>2, <2>2 DEF Queue!ANext
  <1>3. CASE /\ Waiting # <<>>
             /\ ran' = Append(ran, Head(Waiting))
             /\ Waiting' = Tail(Waiting)
             /\ UNCHANGED <<posted, dropped>>
    BY <1>3 DEF Queue!ANext, Queue!Call
  <1>4. ASSUME NEW r \in Runners, UserThrows(r),
               Waiting = batch[r] \o pending, Waiting' = pending
        PROVE  Queue!ANext \/ UNCHANGED Queue!avars
    <2>1. ran' = ran /\ batch[r] \in Seq(Functors)
      BY <1>0, <1>4 DEF UserThrows
    <2>2. Waiting' = SubSeq(Waiting, Len(batch[r]) + 1, Len(Waiting))
      BY <1>0, <1>4, <2>1, CutPrefix
    <2>3. Queue!Lose(Len(batch[r]))
      BY <2>1, <2>2 DEF Queue!Lose
    <2>4. CASE batch[r] = <<>>
      <3>1. Waiting = pending
        BY <1>0, <1>4, <2>4, ConcatEmptySeq
      <3> QED
        BY <1>4, <2>1, <3>1 DEF Queue!avars
    <2>5. CASE batch[r] # <<>>
      <3>1. Len(batch[r]) \in 1..Len(Waiting)
        <4>1. Len(batch[r]) \in Nat \ {0} /\ Len(pending) \in Nat
          BY <1>0, <2>1, <2>5, EmptySeq, LenProperties
        <4>2. Len(Waiting) = Len(batch[r]) + Len(pending)
          BY <1>0, <1>4, <2>1, ConcatProperties
        <4> QED
          BY <4>1, <4>2
      <3> QED
        BY <2>3, <3>1 DEF Queue!ANext
    <2> QED
      BY <2>4, <2>5
  <1> QED
    BY <1>1, <1>2, <1>3, <1>4, WaitingStep

\* EventLoop and RunInLoopHandler implement the abstract first-in first-out
\* queue: every step of every thread is a Post, a Call, a Lose or no step of it.
THEOREM ImplementsQueue == Spec => QueueSpec
  <1>1. LoopInv /\ LoopInv' /\ OrderInv /\ [Next]_vars => [Queue!ANext]_(Queue!avars)
    BY QueueStep
  <1> QED
    BY <1>1, LoopInvAlways, OrderInvAlways, QueueInit, PTL
       DEF Spec, QueueSpec, Queue!ASpec
=============================================================================
