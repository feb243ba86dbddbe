---------------------------- MODULE ServerProofs ----------------------------
(***************************************************************************)
(* Proofs about Server for any numbers of loops, acceptors and clients:    *)
(* types, and that the stop of a destroyed server reaches its acceptor.    *)
(***************************************************************************)
EXTENDS Server, SequenceTheorems, TLAPS

\* Every loop's functors are for acceptors that were made and live in it.
AtHome ==
    \A l \in Loops :
        /\ \A i \in DOMAIN functors[l] :
              functors[l][i][2] <= made /\ acceptor[functors[l][i][2]].at = l
        /\ \A i \in DOMAIN batch[l] :
              batch[l][i][2] <= made /\ acceptor[batch[l][i][2]].at = l

\* Only acceptors that were made are in a loop.
InLoopMade == \A a \in Acceptors : acceptor[a].inLoop => a <= made

\* The server knows the acceptors it made, but for the overwritten ones.
KnownOrOrphan ==
    /\ serverAcceptor <= made
    /\ \A a \in 1..made : a = serverAcceptor \/ a \in orphans

\* Only a running loop has a batch, and no loop runs before startLoop.
BatchRuns ==
    \A l \in Loops : /\ batch[l] # <<>> => loop[l] = "running"
                     /\ start = "no" => loop[l] = "idle"

\* What an acceptor is.
Acceptance == [at : Loops, inLoop : BOOLEAN, state : {"Closed", "Listen"},
               socket : {"new", "bound", "elsewhere"}]

HandoverInv == /\ AtHome /\ InLoopMade /\ KnownOrOrphan /\ BatchRuns
               /\ StopReachesAcceptor

ServerInv == TypeOK /\ HandoverInv

USE BoundsAssumption

(***************************************************************************)
(* Queues of functors.                                                     *)
(***************************************************************************)
\* Posting puts a functor behind the others.
LEMMA PostedFunctor ==
  ASSUME NEW s \in Seq(Functors), NEW f \in Functors
  PROVE  /\ Append(s, f) \in Seq(Functors)
         /\ DOMAIN Append(s, f) = 1..(Len(s) + 1) /\ DOMAIN s = 1..Len(s) /\ Len(s) \in Nat
         /\ \A i \in DOMAIN s : Append(s, f)[i] = s[i]
         /\ Append(s, f)[Len(s) + 1] = f
  BY AppendProperties, LenProperties

\* Calling a functor takes it from the front.
LEMMA CalledFunctor ==
  ASSUME NEW s \in Seq(Functors), s # <<>>
  PROVE  /\ Tail(s) \in Seq(Functors)
         /\ Len(s) \in Nat \ {0} /\ DOMAIN s = 1..Len(s)
         /\ Head(s) = s[1] /\ Head(s) \in Functors
         /\ DOMAIN Tail(s) = 1..(Len(s) - 1)
         /\ \A i \in DOMAIN Tail(s) : Tail(s)[i] = s[i + 1]
  BY HeadTailProperties, LenProperties, EmptySeq

\* A functor names an acceptor.
LEMMA FunctorType ==
  ASSUME NEW f \in Functors
  PROVE  f = <<f[1], f[2]>> /\ f[1] \in {"listen", "stop"} /\ f[2] \in Acceptors
  BY DEF Functors

\* A stop that is posted now is the acceptor's last functor.
LEMMA PostedStopIsLast ==
  ASSUME NEW s \in Seq(Functors), NEW a \in Acceptors
  PROVE  StopIsLast(Append(s, <<"stop", a>>), a)
  <1>1. <<"stop", a>> \in Functors
    BY DEF Functors
  <1> QED
    BY <1>1, PostedFunctor DEF StopIsLast

\* When a functor has been called, the acceptor's last one is still its stop,
\* unless it was the one that was called.
LEMMA CalledBeforeStop ==
  ASSUME NEW s \in Seq(Functors), s # <<>>, NEW a \in Acceptors, StopIsLast(s, a)
  PROVE  \/ StopIsLast(Tail(s), a)
         \/ Head(s) = <<"stop", a>> /\ ~Holds(Tail(s), a)
  <1>1. PICK i \in DOMAIN s : /\ s[i] = <<"stop", a>>
                              /\ \A j \in DOMAIN s : s[j][2] = a => j <= i
    BY DEF StopIsLast
  <1>2. CASE i = 1
    BY <1>1, <1>2, CalledFunctor DEF Holds
  <1>3. CASE i # 1
    <2>1. i - 1 \in DOMAIN Tail(s) /\ Tail(s)[i - 1] = <<"stop", a>>
      BY <1>1, <1>3, CalledFunctor
    <2>2. ASSUME NEW j \in DOMAIN Tail(s), Tail(s)[j][2] = a PROVE j <= i - 1
      BY <1>1, <2>2, CalledFunctor
    <2> QED
      BY <2>1, <2>2 DEF StopIsLast
  <1> QED
    BY <1>2, <1>3

\* A call adds no functor.
LEMMA CalledHoldsLess ==
  ASSUME NEW s \in Seq(Functors), s # <<>>, NEW a \in Acceptors, ~Holds(s, a)
  PROVE  ~Holds(Tail(s), a) /\ Head(s)[2] # a
  BY CalledFunctor DEF Holds

\* An empty queue holds nothing.
LEMMA EmptyHoldsNothing ==
  ASSUME NEW a
  PROVE  ~Holds(<<>>, a) /\ ~StopIsLast(<<>>, a)
  BY DEF Holds, StopIsLast

(***************************************************************************)
(* The dispatcher.                                                         *)
(***************************************************************************)
\* The round robin stays within the loops.
LEMMA DispatchInRange ==
  ASSUME TypeOK
  PROVE  /\ DispatchedLoop \in 0..(IF loopsCount = 0 THEN 0 ELSE loopsCount - 1)
         /\ DispatchedLoop \in Loops
  BY DEF TypeOK, DispatchedLoop, Loops

\* A step changes one acceptor, which stays one.
LEMMA AcceptorChanged ==
  ASSUME NEW f \in [Acceptors -> Acceptance], NEW a \in Acceptors, NEW r \in Acceptance
  PROVE  [f EXCEPT ![a] = r] \in [Acceptors -> Acceptance]
  OBVIOUS

(***************************************************************************)
(* Types.                                                                  *)
(***************************************************************************)
LEMMA ServerTypeInit == Init => TypeOK
  <1> SUFFICES ASSUME Init PROVE TypeOK
    OBVIOUS
  <1>1. 0 \in Loops
    BY DEF Loops
  <1>2. functors \in [Loops -> Seq(Functors)] /\ batch \in [Loops -> Seq(Functors)]
    BY EmptySeq DEF Init
  <1>3. acceptor \in [Acceptors -> [at : Loops, inLoop : BOOLEAN,
                                    state : {"Closed", "Listen"},
                                    socket : {"new", "bound", "elsewhere"}]]
    BY <1>1 DEF Init
  <1>4. loopsCount \in 0..MaxLoops /\ made \in 0..MaxAcceptors
        /\ serverAcceptor \in 0..MaxAcceptors
        /\ dispatchIndex \in 0..(IF loopsCount = 0 THEN 0 ELSE loopsCount - 1)
    BY DEF Init
  <1> QED
    BY <1>2, <1>3, <1>4 DEF Init, TypeOK

\* Every step keeps the types.
LEMMA ServerTypeStep == TypeOK /\ [Next]_vars => TypeOK'
  <1> SUFFICES ASSUME TypeOK, [Next]_vars PROVE TypeOK'
    OBVIOUS
  <1> USE DEF TypeOK, loopVars, serverVars
  <1>1. CASE Listen
    <2>1. made' \in Acceptors /\ serverAcceptor' \in 0..MaxAcceptors
          /\ made' \in 0..MaxAcceptors
      BY <1>1 DEF Listen, Acceptors
    <2>2. /\ DispatchedLoop \in 0..(IF loopsCount = 0 THEN 0 ELSE loopsCount - 1)
          /\ DispatchedLoop \in Loops
      BY DispatchInRange
    <2>3. <<"listen", made'>> \in Functors
      BY <2>1 DEF Functors
    <2>4. functors' \in [Loops -> Seq(Functors)]
      <3>1. Append(functors[DispatchedLoop], <<"listen", made'>>) \in Seq(Functors)
        BY <2>2, <2>3, PostedFunctor
      <3>2. functors' = [functors EXCEPT ![DispatchedLoop] =
                            Append(functors[DispatchedLoop], <<"listen", made'>>)]
        BY <1>1 DEF Listen, Posted
      <3> HIDE DEF TypeOK
      <3> QED
        BY <2>2, <3>1, <3>2 DEF TypeOK
    <2>5. acceptor' \in [Acceptors -> [at : Loops, inLoop : BOOLEAN,
                                       state : {"Closed", "Listen"},
                                       socket : {"new", "bound", "elsewhere"}]]
      <3>1. acceptor[made'] \in Acceptance /\ acceptor \in [Acceptors -> Acceptance]
        BY <2>1 DEF Acceptance
      <3>2. [acceptor[made'] EXCEPT !.at = DispatchedLoop] \in Acceptance
        BY <2>2, <3>1 DEF Acceptance
      <3>3. acceptor' = [acceptor EXCEPT ![made'] =
                            [acceptor[made'] EXCEPT !.at = DispatchedLoop]]
        BY <1>1 DEF Listen
      <3>4. acceptor' \in [Acceptors -> Acceptance]
        BY <2>1, <3>1, <3>2, <3>3, AcceptorChanged
      <3> QED
        BY <3>4 DEF Acceptance
    <2>6. orphans' \subseteq Acceptors
      BY <1>1 DEF Listen, Overwritten, Acceptors
    <2>7. dispatchIndex' \in 0..(IF loopsCount' = 0 THEN 0 ELSE loopsCount' - 1)
      BY <1>1, <2>2 DEF Listen
    <2> QED
      BY <1>1, <2>1, <2>4, <2>5, <2>6, <2>7 DEF Listen
  <1>2. CASE ListenNoSocket
    <2>1. DispatchedLoop \in 0..(IF loopsCount = 0 THEN 0 ELSE loopsCount - 1)
      BY DispatchInRange
    <2>2. orphans' \subseteq Acceptors
      BY <1>2 DEF ListenNoSocket, Overwritten, Acceptors
    <2>3. dispatchIndex' \in 0..(IF loopsCount' = 0 THEN 0 ELSE loopsCount' - 1)
      BY <1>2, <2>1 DEF ListenNoSocket
    <2>4. serverAcceptor' \in 0..MaxAcceptors
      BY <1>2 DEF ListenNoSocket
    <2> QED
      BY <1>2, <2>2, <2>3, <2>4 DEF ListenNoSocket
  <1>3. CASE ListenNoLoop
    BY <1>3 DEF ListenNoLoop
  <1>4. ASSUME NEW s \in {"alive", "destroyed"}, StopListen(s) PROVE TypeOK'
    <2>1. functors' \in [Loops -> Seq(Functors)]
      <3>1. CASE Locked
        <4>1. serverAcceptor \in Acceptors
          BY <3>1 DEF Locked, Acceptors
        <4>2. acceptor[serverAcceptor].at \in Loops
          BY <4>1
        <4>3. <<"stop", serverAcceptor>> \in Functors
          BY <4>1 DEF Functors
        <4>4. Append(functors[acceptor[serverAcceptor].at], <<"stop", serverAcceptor>>)
                \in Seq(Functors)
          BY <4>2, <4>3, PostedFunctor
        <4>5. functors' = [functors EXCEPT ![acceptor[serverAcceptor].at] =
                Append(functors[acceptor[serverAcceptor].at], <<"stop", serverAcceptor>>)]
          BY <1>4, <3>1 DEF StopListen, Posted
        <4> QED
          BY <4>2, <4>4, <4>5
      <3>2. CASE ~Locked
        BY <1>4, <3>2 DEF StopListen
      <3> QED
        BY <3>1, <3>2
    <2> QED
      BY <1>4, <2>1 DEF StopListen
  <1>5. ASSUME NEW r \in {"true", "false"}, StartLoop(r) PROVE TypeOK'
    BY <1>5 DEF StartLoop
  <1>6. ASSUME NEW l \in Loops, PoolThreadRuns(l) PROVE TypeOK'
    BY <1>6 DEF PoolThreadRuns
  <1>7. ASSUME NEW l \in Loops, Poll(l) PROVE TypeOK'
    <2>1. round' \in [Loops -> SUBSET ({RunInLoop} \cup Acceptors)]
      BY <1>7 DEF Poll, Ready
    <2> QED
      BY <1>7, <2>1 DEF Poll
  <1>8. ASSUME NEW l \in Loops, FetchFunctors(l) PROVE TypeOK'
    <2>1. functors' \in [Loops -> Seq(Functors)] /\ batch' \in [Loops -> Seq(Functors)]
      BY <1>8, EmptySeq DEF FetchFunctors
    <2>2. round' \in [Loops -> SUBSET ({RunInLoop} \cup Acceptors)]
      BY <1>8 DEF FetchFunctors
    <2> QED
      BY <1>8, <2>1, <2>2 DEF FetchFunctors
  <1>9. ASSUME NEW l \in Loops, RunFunctor(l) PROVE TypeOK'
    <2> DEFINE a == Head(batch[l])[2]
    <2>1. a \in Acceptors /\ batch[l] # <<>> /\ Tail(batch[l]) \in Seq(Functors)
      BY <1>9, CalledFunctor, FunctorType DEF RunFunctor
    <2>2. \/ \E result \in BindResults(a) : ListenInLoop(l, a, result)
          \/ StopInLoop(l, a)
      BY <1>9 DEF RunFunctor
    <2>3. UNCHANGED <<loopsCount, dispatchIndex, start, functors, serverVars, client,
                      undefined>>
      BY <1>9 DEF RunFunctor
    <2> HIDE DEF a
    <2>4. ASSUME NEW result \in BindResults(a), ListenInLoop(l, a, result) PROVE TypeOK'
      <3>1. batch' \in [Loops -> Seq(Functors)]
        <4>1. batch' = [batch EXCEPT ![l] = <<>>] \/ batch' = [batch EXCEPT ![l] = Tail(batch[l])]
          BY <2>4 DEF ListenInLoop
        <4>2. <<>> \in Seq(Functors)
          BY EmptySeq
        <4>3. CASE batch' = [batch EXCEPT ![l] = <<>>]
          BY <4>2, <4>3
        <4>4. CASE batch' = [batch EXCEPT ![l] = Tail(batch[l])]
          BY <2>1, <4>4
        <4> QED
          BY <4>1, <4>3, <4>4
      <3>2. /\ loop' \in [Loops -> {"idle", "running", "dead"}]
            /\ round' \in [Loops -> SUBSET ({RunInLoop} \cup Acceptors)]
        BY <2>4 DEF ListenInLoop
      <3>3. acceptor' \in [Acceptors -> [at : Loops, inLoop : BOOLEAN,
                                         state : {"Closed", "Listen"},
                                         socket : {"new", "bound", "elsewhere"}]]
        <4>1. acceptor[a] \in Acceptance /\ acceptor \in [Acceptors -> Acceptance]
          BY <2>1 DEF Acceptance
        <4>2. Listened(acceptor[a], result) \in Acceptance
          BY <4>1 DEF Acceptance, Listened
        <4>3. \/ acceptor' = acceptor
              \/ acceptor' = [acceptor EXCEPT ![a] = Listened(acceptor[a], result)]
          BY <2>4 DEF ListenInLoop
        <4>4. [acceptor EXCEPT ![a] = Listened(acceptor[a], result)]
                \in [Acceptors -> Acceptance]
          BY <2>1, <4>1, <4>2, AcceptorChanged
        <4>5. acceptor' \in [Acceptors -> Acceptance]
          BY ONLY <4>1, <4>3, <4>4
        <4> QED
          BY <4>5 DEF Acceptance
      <3> QED
        BY <2>3, <3>1, <3>2, <3>3
    <2>5. CASE StopInLoop(l, a)
      <3> DEFINE r == [acceptor[a] EXCEPT !.inLoop = FALSE, !.state = "Closed"]
      <3>1. acceptor[a] \in Acceptance /\ acceptor \in [Acceptors -> Acceptance]
        BY <2>1 DEF Acceptance
      <3>2. r \in Acceptance
        BY <3>1 DEF Acceptance
      <3>3. acceptor' = [acceptor EXCEPT ![a] = r]
        BY <2>5 DEF StopInLoop
      <3> HIDE DEF r
      <3>4. acceptor' \in [Acceptors -> Acceptance]
        BY <2>1, <3>1, <3>2, <3>3, AcceptorChanged
      <3>5. batch' \in [Loops -> Seq(Functors)] /\ UNCHANGED <<loop, round>>
        BY <2>1, <2>5 DEF StopInLoop
      <3> QED
        BY <2>3, <3>4, <3>5 DEF Acceptance
    <2> QED
      BY <2>2, <2>4, <2>5
  <1>10. ASSUME NEW l \in Loops, NEW a \in Acceptors, NEW c \in Clients, HandleIn(l, a, c)
         PROVE  TypeOK'
    <2>1. /\ DispatchedLoop \in 0..(IF loopsCount = 0 THEN 0 ELSE loopsCount - 1)
          /\ DispatchedLoop \in Loops
      BY DispatchInRange
    <2>2. dispatchIndex' \in 0..(IF loopsCount' = 0 THEN 0 ELSE loopsCount' - 1)
      BY <1>10, <2>1 DEF HandleIn
    <2>3. /\ client' \in [Clients -> {Nowhere} \cup ({"backlog"} \X Acceptors)
                                       \cup ({"loop"} \X Loops)]
          /\ round' \in [Loops -> SUBSET ({RunInLoop} \cup Acceptors)]
      BY <1>10, <2>1 DEF HandleIn, AtAcceptor
    <2> QED
      BY <1>10, <2>2, <2>3 DEF HandleIn
  <1>11. ASSUME NEW l \in Loops, NEW a \in Acceptors, HandleInFails(l, a) PROVE TypeOK'
    BY <1>11 DEF HandleInFails, AtAcceptor
  <1>12. ASSUME NEW l \in Loops, NEW a \in Acceptors, HandleDestroyed(l, a) PROVE TypeOK'
    BY <1>12 DEF HandleDestroyed, AtAcceptor
  <1>13. ASSUME NEW c \in Clients, NEW a \in Acceptors, Connect(c, a) PROVE TypeOK'
    BY <1>13 DEF Connect
  <1>14. CASE UNCHANGED vars
    BY <1>14 DEF vars
  <1> QED
    BY <1>1, <1>2, <1>3, <1>4, <1>5, <1>6, <1>7, <1>8, <1>9, <1>10, <1>11, <1>12,
       <1>13, <1>14 DEF Next, LoopStep, Accepts

(***************************************************************************)
(* Functors, acceptors and the server.                                     *)
(***************************************************************************)
LEMMA HandoverInit == Init => HandoverInv
  <1> SUFFICES ASSUME Init PROVE HandoverInv
    OBVIOUS
  <1>1. AtHome
    BY DEF Init, AtHome
  <1>2. InLoopMade /\ BatchRuns /\ StopReachesAcceptor
    BY DEF Init, InLoopMade, BatchRuns, StopReachesAcceptor
  <1>3. KnownOrOrphan
    BY DEF Init, KnownOrOrphan
  <1> QED
    BY <1>1, <1>2, <1>3 DEF HandoverInv

\* Most steps touch no functor, no acceptor and no loop's life.
LEMMA QuietStep ==
  ASSUME HandoverInv, UNCHANGED <<start, loop, functors, batch, acceptor, serverVars>>
  PROVE  HandoverInv'
  BY DEF HandoverInv, AtHome, InLoopMade, KnownOrOrphan, BatchRuns, StopReachesAcceptor,
         StopComes, serverVars

\* A loop that had not been started is.
LEMMA LoopStarts ==
  ASSUME TypeOK, HandoverInv, NEW l \in Loops, loop[l] = "idle",
         start' # "no", loop' = [loop EXCEPT ![l] = "running"],
         UNCHANGED <<functors, batch, acceptor, serverVars>>
  PROVE  HandoverInv'
  <1> USE DEF HandoverInv, serverVars
  <1>1. AtHome' /\ InLoopMade' /\ KnownOrOrphan'
    BY DEF AtHome, InLoopMade, KnownOrOrphan
  <1>2. BatchRuns'
    BY DEF TypeOK, BatchRuns
  <1>3. \A k \in Loops : loop[k] = "dead" => loop'[k] = "dead"
    BY DEF TypeOK
  <1>4. StopReachesAcceptor'
    <2> SUFFICES ASSUME server' = "destroyed", NEW a \in Acceptors PROVE StopComes(a)'
      BY DEF StopReachesAcceptor
    <2>1. StopComes(a) /\ acceptor[a].at \in Loops
      BY DEF TypeOK, StopReachesAcceptor
    <2> QED
      BY <1>3, <2>1 DEF StopComes
  <1> QED
    BY <1>1, <1>2, <1>4

\* listen(): the new acceptor's functor goes to its own loop, and the acceptor
\* the server forgets is an orphan.
LEMMA ListenHandover ==
  ASSUME TypeOK, HandoverInv, Listen
  PROVE  HandoverInv'
  <1> USE DEF HandoverInv
  <1> DEFINE d == DispatchedLoop
             m == made + 1
  <1>0. d \in Loops /\ m \in Acceptors /\ m \in Nat /\ made \in Nat
    <2>1. d \in Loops
      BY DispatchInRange
    <2>2. made \in 0..MaxAcceptors /\ made < MaxAcceptors
      BY DEF Listen, TypeOK
    <2> QED
      BY <2>1, <2>2 DEF Acceptors
  <1>1. /\ d \in Loops /\ m \in Acceptors /\ made' = m /\ serverAcceptor' = m
        /\ m \in Nat /\ made \in Nat /\ server' = "alive"
        /\ acceptor' = [acceptor EXCEPT ![m].at = d]
        /\ functors' = [functors EXCEPT ![d] = Append(functors[d], <<"listen", m>>)]
        /\ orphans' = Overwritten
        /\ UNCHANGED <<start, loop, batch>>
    BY <1>0 DEF Listen, Posted
  <1>2. \A a \in Acceptors : /\ a # m => acceptor'[a] = acceptor[a]
                             /\ acceptor'[a].inLoop = acceptor[a].inLoop
    BY <1>1 DEF TypeOK
  <1>3. acceptor'[m].at = d
    BY <1>1 DEF TypeOK
  <1>4. <<"listen", m>> \in Functors
    BY <1>1 DEF Functors
  <1> HIDE DEF d, m
  <1>5. AtHome'
    <2> SUFFICES ASSUME NEW l \in Loops
                 PROVE  /\ \A i \in DOMAIN functors'[l] :
                             /\ functors'[l][i][2] <= made'
                             /\ acceptor'[functors'[l][i][2]].at = l
                        /\ \A i \in DOMAIN batch'[l] :
                             /\ batch'[l][i][2] <= made'
                             /\ acceptor'[batch'[l][i][2]].at = l
      BY DEF AtHome
    <2>1. ASSUME NEW s \in Seq(Functors), NEW i \in DOMAIN s, s[i][2] <= made,
                 acceptor[s[i][2]].at = l
          PROVE  s[i][2] <= made' /\ acceptor'[s[i][2]].at = l
      <3>1. s[i] \in Functors
        BY LenProperties, ElementOfSeq
      <3>2. s[i][2] \in Acceptors /\ s[i][2] \in Nat
        BY <3>1, FunctorType DEF Acceptors
      <3>3. s[i][2] # m
        BY <1>1, <2>1, <3>2 DEF m
      <3> QED
        BY <1>1, <1>2, <2>1, <3>2, <3>3 DEF m
    <2>2. functors[l] \in Seq(Functors) /\ batch[l] \in Seq(Functors)
      BY DEF TypeOK
    <2>3. ASSUME NEW i \in DOMAIN batch'[l]
          PROVE  batch'[l][i][2] <= made' /\ acceptor'[batch'[l][i][2]].at = l
      BY <1>1, <2>1, <2>2 DEF AtHome
    <2>4. ASSUME NEW i \in DOMAIN functors[l]
          PROVE  functors[l][i][2] <= made' /\ acceptor'[functors[l][i][2]].at = l
      BY <2>1, <2>2 DEF AtHome
    <2>5. ASSUME NEW i \in DOMAIN functors'[l]
          PROVE  functors'[l][i][2] <= made' /\ acceptor'[functors'[l][i][2]].at = l
      <3>1. CASE l # d
        BY <1>1, <2>4, <3>1 DEF TypeOK
      <3>2. CASE l = d
        <4>1. functors'[l] = Append(functors[l], <<"listen", m>>)
          BY <1>1, <3>2 DEF TypeOK
        <4>2. CASE i \in DOMAIN functors[l]
          BY <1>4, <2>2, <2>4, <4>1, <4>2, PostedFunctor
        <4>3. CASE i \notin DOMAIN functors[l]
          <5>1. functors'[l][i] = <<"listen", m>>
            BY <1>4, <2>2, <4>1, <4>3, PostedFunctor
          <5> QED
            BY <1>1, <1>3, <3>2, <5>1
        <4> QED
          BY <4>2, <4>3
      <3> QED
        BY <3>1, <3>2
    <2> QED
      BY <2>3, <2>5
  <1>6. InLoopMade'
    BY <1>1, <1>2 DEF InLoopMade, Acceptors, m
  <1>7. KnownOrOrphan'
    <2>1. ASSUME NEW b \in 1..m, b # m PROVE b \in Overwritten
      BY <1>1, <2>1 DEF KnownOrOrphan, Overwritten, m
    <2> QED
      BY <1>1, <2>1 DEF KnownOrOrphan
  <1>8. BatchRuns' /\ StopReachesAcceptor'
    BY <1>1 DEF BatchRuns, StopReachesAcceptor
  <1> QED
    BY <1>5, <1>6, <1>7, <1>8

\* stopListen(): an acceptor that still lives gets its stop last; one that does
\* not is in no loop and in no queue.
LEMMA StopHandover ==
  ASSUME TypeOK, HandoverInv, NEW s \in {"alive", "destroyed"}, StopListen(s)
  PROVE  HandoverInv'
  <1> USE DEF HandoverInv
  <1> DEFINE at == acceptor[serverAcceptor].at
             stop == <<"stop", serverAcceptor>>
  <1>1. UNCHANGED <<start, loop, batch, made, acceptor, serverAcceptor, orphans>>
    BY DEF StopListen
  <1>2. InLoopMade' /\ KnownOrOrphan' /\ BatchRuns'
    BY <1>1 DEF InLoopMade, KnownOrOrphan, BatchRuns
  <1>3. CASE Locked
    <2>1. serverAcceptor \in Acceptors /\ serverAcceptor <= made
      BY <1>3 DEF Locked, TypeOK, Acceptors, KnownOrOrphan
    <2>2. at \in Loops /\ stop \in Functors
      BY <2>1 DEF TypeOK, Functors
    <2>3. functors' = [functors EXCEPT ![at] = Append(functors[at], stop)]
      BY <1>3 DEF StopListen, Posted
    <2>4. functors[at] \in Seq(Functors)
      BY <2>2 DEF TypeOK
    <2>5. \A l \in Loops : l # at => functors'[l] = functors[l]
      BY <2>2, <2>3 DEF TypeOK
    <2>6. functors'[at] = Append(functors[at], stop)
      BY <2>2, <2>3 DEF TypeOK
    <2> HIDE DEF at
    <2>7. AtHome'
      <3> SUFFICES ASSUME NEW l \in Loops, NEW i \in DOMAIN functors'[l]
                   PROVE  functors'[l][i][2] <= made /\ acceptor[functors'[l][i][2]].at = l
        BY <1>1 DEF AtHome
      <3>1. CASE l # at \/ i \in DOMAIN functors[l]
        <4>1. i \in DOMAIN functors[l] /\ functors'[l][i] = functors[l][i]
          <5>1. CASE l # at
            BY <2>5, <5>1
          <5>2. CASE l = at
            <6>1. i \in DOMAIN functors[l] /\ functors'[l] = Append(functors[l], stop)
                  /\ functors[l] \in Seq(Functors)
              BY <2>4, <2>6, <3>1, <5>2
            <6> QED
              BY <2>2, <6>1, PostedFunctor
          <5> QED
            BY <5>1, <5>2
        <4> QED
          BY <4>1 DEF AtHome
      <3>2. CASE l = at /\ i \notin DOMAIN functors[l]
        <4>1. functors'[l][i] = stop
          BY <2>2, <2>4, <2>6, <3>2, PostedFunctor
        <4> QED
          BY <2>1, <3>2, <4>1 DEF at
      <3> QED
        BY <3>1, <3>2
    <2>8. StopReachesAcceptor'
      <3> SUFFICES ASSUME NEW a \in Acceptors PROVE StopComes(a)'
        BY DEF StopReachesAcceptor
      <3>1. CASE a = serverAcceptor
        BY <1>1, <2>1, <2>4, <2>6, <3>1, PostedStopIsLast DEF StopComes, at
      <3>2. CASE a # serverAcceptor /\ a <= made
        BY <1>1, <3>2 DEF KnownOrOrphan, StopComes, Acceptors, TypeOK
      <3>3. CASE a # serverAcceptor /\ ~(a <= made)
        <4>1. ~acceptor[a].inLoop
          BY <3>3 DEF InLoopMade
        <4>2. ASSUME NEW l \in Loops PROVE ~Holds(batch[l], a) /\ ~Holds(functors'[l], a)
          BY <1>1, <2>7, <3>3 DEF AtHome, Holds
        <4>3. acceptor[a].at \in Loops
          BY DEF TypeOK
        <4> QED
          BY <1>1, <4>1, <4>2, <4>3 DEF StopComes
      <3> QED
        BY <3>1, <3>2, <3>3
    <2> QED
      BY <1>2, <2>7, <2>8
  <1>4. CASE ~Locked
    <2>1. functors' = functors
      BY <1>4 DEF StopListen
    <2>2. AtHome'
      BY <1>1, <2>1 DEF AtHome
    <2>3. StopReachesAcceptor'
      <3> SUFFICES ASSUME NEW a \in Acceptors PROVE StopComes(a)'
        BY DEF StopReachesAcceptor
      <3>1. acceptor[a].at \in Loops
        BY DEF TypeOK
      <3>2. CASE a = serverAcceptor
        <4>1. ~Alive(a)
          BY <1>4, <3>2 DEF Locked, Acceptors
        <4>2. ASSUME NEW q \in Seq(Functors), Range(q) \cap Held(a) = {}
              PROVE  ~Holds(q, a)
          <5> SUFFICES ASSUME NEW i \in DOMAIN q, q[i][2] = a PROVE FALSE
            BY DEF Holds
          <5>1. q[i] \in Functors
            BY LenProperties, ElementOfSeq
          <5>2. q[i] \in Held(a)
            BY <5>1, FunctorType DEF Held
          <5> QED
            BY <4>2, <5>2 DEF Range
        <4>3. functors[acceptor[a].at] \in Seq(Functors) /\ batch[acceptor[a].at] \in Seq(Functors)
          BY <3>1 DEF TypeOK
        <4> QED
          BY <1>1, <2>1, <4>1, <4>2, <4>3 DEF Alive, StopComes
      <3>3. CASE a # serverAcceptor /\ a <= made
        BY <1>1, <3>3 DEF KnownOrOrphan, StopComes, Acceptors, TypeOK
      <3>4. CASE a # serverAcceptor /\ ~(a <= made)
        <4>1. ~acceptor[a].inLoop
          BY <3>4 DEF InLoopMade
        <4>2. ASSUME NEW l \in Loops PROVE ~Holds(batch[l], a) /\ ~Holds(functors[l], a)
          BY <3>4 DEF AtHome, Holds
        <4> QED
          BY <1>1, <2>1, <3>1, <4>1, <4>2 DEF StopComes
      <3> QED
        BY <3>2, <3>3, <3>4
    <2> QED
      BY <1>2, <2>2, <2>3
  <1> QED
    BY <1>3, <1>4

\* The round fetches all functors of its loop, behind no others.
LEMMA FetchHandover ==
  ASSUME TypeOK, HandoverInv, NEW l \in Loops, FetchFunctors(l)
  PROVE  HandoverInv'
  <1> USE DEF HandoverInv
  <1>1. /\ UNCHANGED <<start, loop, made, acceptor, serverAcceptor, server, orphans>>
        /\ batch[l] = <<>> /\ loop[l] = "running"
    BY DEF FetchFunctors, serverVars
  <1>2. /\ batch'[l] = functors[l] /\ functors'[l] = <<>>
        /\ \A k \in Loops : k # l => batch'[k] = batch[k] /\ functors'[k] = functors[k]
    BY DEF FetchFunctors, TypeOK
  <1>3. InLoopMade' /\ KnownOrOrphan' /\ BatchRuns'
    BY <1>1, <1>2 DEF InLoopMade, KnownOrOrphan, BatchRuns
  <1>4. AtHome'
    BY <1>1, <1>2 DEF AtHome
  <1>5. StopReachesAcceptor'
    <2> SUFFICES ASSUME server' = "destroyed", NEW a \in Acceptors PROVE StopComes(a)'
      BY DEF StopReachesAcceptor
    <2>1. StopComes(a) /\ acceptor[a].at \in Loops
      BY <1>1 DEF TypeOK, StopReachesAcceptor
    <2> QED
      BY <1>1, <1>2, <2>1, EmptyHoldsNothing DEF StopComes
  <1> QED
    BY <1>3, <1>4, <1>5

\* A functor is called: a listen leaves the stop behind it, a stop takes the
\* acceptor out, and an exception ends the loop.
LEMMA RunHandover ==
  ASSUME TypeOK, HandoverInv, NEW l \in Loops, RunFunctor(l)
  PROVE  HandoverInv'
  <1> USE DEF HandoverInv
  <1> DEFINE f == Head(batch[l])
             a == f[2]
  <1>1. batch[l] \in Seq(Functors) /\ batch[l] # <<>>
    BY DEF RunFunctor, TypeOK
  <1>2. /\ f \in Functors /\ a \in Acceptors /\ f[1] \in {"listen", "stop"}
        /\ f = <<f[1], a>>
    BY <1>1, CalledFunctor, FunctorType
  <1>3. a <= made /\ acceptor[a].at = l
    BY <1>1, CalledFunctor DEF AtHome
  <1>4. UNCHANGED <<start, functors, made, serverAcceptor, server, orphans>>
    BY DEF RunFunctor, serverVars
  <1>5. /\ \A b \in Acceptors : b # a => acceptor'[b] = acceptor[b]
        /\ acceptor'[a].at = l
        /\ f[1] = "stop" => ~acceptor'[a].inLoop
        /\ \/ batch' = [batch EXCEPT ![l] = Tail(batch[l])] /\ loop' = loop
           \/ batch' = [batch EXCEPT ![l] = <<>>] /\ loop' = [loop EXCEPT ![l] = "dead"]
    <2>1. CASE f[1] = "listen"
      <3>1. PICK result \in BindResults(a) : ListenInLoop(l, a, result)
        BY <2>1 DEF RunFunctor
      <3>2. \/ acceptor' = acceptor
            \/ acceptor' = [acceptor EXCEPT ![a] = Listened(acceptor[a], result)]
        BY <3>1 DEF ListenInLoop
      <3>3. Listened(acceptor[a], result).at = acceptor[a].at
        BY <1>2 DEF Listened, TypeOK
      <3>4. \/ batch' = [batch EXCEPT ![l] = Tail(batch[l])] /\ loop' = loop
            \/ batch' = [batch EXCEPT ![l] = <<>>] /\ loop' = [loop EXCEPT ![l] = "dead"]
        BY <3>1 DEF ListenInLoop
      <3> QED
        BY <1>2, <1>3, <2>1, <3>2, <3>3, <3>4 DEF TypeOK
    <2>2. CASE f[1] = "stop"
      <3>1. StopInLoop(l, a)
        BY <2>2 DEF RunFunctor
      <3> QED
        BY <1>2, <1>3, <3>1 DEF StopInLoop, TypeOK
    <2> QED
      BY <1>2, <2>1, <2>2
  <1>6. InLoopMade' /\ KnownOrOrphan'
    BY <1>2, <1>3, <1>4, <1>5 DEF InLoopMade, KnownOrOrphan
  <1>7. \A b \in Acceptors : acceptor'[b].at = acceptor[b].at
    BY <1>3, <1>5
  <1>8. loop[l] = "running"
    BY <1>1 DEF BatchRuns
  <1>9. CASE batch' = [batch EXCEPT ![l] = Tail(batch[l])] /\ loop' = loop
    <2>1. /\ batch'[l] = Tail(batch[l])
          /\ \A k \in Loops : k # l => batch'[k] = batch[k]
      BY <1>9 DEF TypeOK
    <2>2. BatchRuns'
      BY <1>4, <1>8, <1>9, <2>1 DEF BatchRuns
    <2>3. AtHome'
      <3> SUFFICES ASSUME NEW k \in Loops
                   PROVE  /\ \A i \in DOMAIN functors'[k] :
                               /\ functors'[k][i][2] <= made'
                               /\ acceptor'[functors'[k][i][2]].at = k
                          /\ \A i \in DOMAIN batch'[k] :
                               /\ batch'[k][i][2] <= made'
                               /\ acceptor'[batch'[k][i][2]].at = k
        BY DEF AtHome
      <3>1. ASSUME NEW s \in Seq(Functors), NEW i \in DOMAIN s PROVE s[i][2] \in Acceptors
        <4>1. s[i] \in Functors
          BY LenProperties, ElementOfSeq
        <4> QED
          BY <4>1, FunctorType
      <3>2. functors[k] \in Seq(Functors) /\ batch[k] \in Seq(Functors)
        BY DEF TypeOK
      <3>3. ASSUME NEW i \in DOMAIN functors'[k]
            PROVE  functors'[k][i][2] <= made' /\ acceptor'[functors'[k][i][2]].at = k
        BY <1>4, <1>7, <3>1, <3>2 DEF AtHome
      <3>4. ASSUME NEW i \in DOMAIN batch[k]
            PROVE  batch[k][i][2] <= made' /\ acceptor'[batch[k][i][2]].at = k
        BY <1>4, <1>7, <3>1, <3>2 DEF AtHome
      <3>5. CASE k # l
        BY <2>1, <3>3, <3>4, <3>5
      <3>6. CASE k = l
        <4>1. ASSUME NEW i \in DOMAIN Tail(batch[l])
              PROVE  i + 1 \in DOMAIN batch[l] /\ Tail(batch[l])[i] = batch[l][i + 1]
          BY <1>1, CalledFunctor
        <4>2. ASSUME NEW i \in DOMAIN batch'[k]
              PROVE  batch'[k][i][2] <= made' /\ acceptor'[batch'[k][i][2]].at = k
          <5>1. i + 1 \in DOMAIN batch[k] /\ batch'[k][i] = batch[k][i + 1]
            BY <2>1, <3>6, <4>1, <4>2
          <5> QED
            BY <3>4, <5>1
        <4> QED
          BY <3>3, <4>2
      <3> QED
        BY <3>5, <3>6
    <2>4. StopReachesAcceptor'
      <3> SUFFICES ASSUME server' = "destroyed", NEW b \in Acceptors PROVE StopComes(b)'
        BY DEF StopReachesAcceptor
      <3>1. StopComes(b) /\ acceptor[b].at \in Loops
        BY <1>4 DEF TypeOK, StopReachesAcceptor
      <3>2. CASE acceptor[b].at # l
        BY <1>3, <1>4, <1>5, <1>7, <1>9, <2>1, <3>1, <3>2 DEF StopComes
      <3>3. CASE acceptor[b].at = l
        <4>1. CASE b \in orphans \/ loop[l] = "dead" \/ StopIsLast(functors[l], b)
          BY <1>4, <1>7, <1>9, <3>3, <4>1 DEF StopComes
        <4>2. CASE /\ ~acceptor[b].inLoop
                   /\ ~Holds(batch[l], b) /\ ~Holds(functors[l], b)
          BY <1>1, <1>4, <1>5, <1>7, <2>1, <3>3, <4>2, CalledHoldsLess DEF StopComes
        <4>3. CASE ~Holds(functors[l], b) /\ StopIsLast(batch[l], b)
          <5>1. CASE StopIsLast(Tail(batch[l]), b)
            BY <1>4, <1>7, <2>1, <3>3, <4>3, <5>1 DEF StopComes
          <5>2. CASE f = <<"stop", b>> /\ ~Holds(Tail(batch[l]), b)
            <6>1. b = a /\ f[1] = "stop"
              BY <5>2
            <6> QED
              BY <1>4, <1>5, <1>7, <2>1, <3>3, <4>3, <5>2, <6>1 DEF StopComes
          <5> QED
            BY <1>1, <4>3, <5>1, <5>2, CalledBeforeStop
        <4> QED
          BY <3>1, <3>3, <4>1, <4>2, <4>3 DEF StopComes
      <3> QED
        BY <3>2, <3>3
    <2> QED
      BY <1>6, <2>2, <2>3, <2>4
  <1>10. CASE batch' = [batch EXCEPT ![l] = <<>>] /\ loop' = [loop EXCEPT ![l] = "dead"]
    <2>1. /\ batch'[l] = <<>> /\ loop'[l] = "dead"
          /\ \A k \in Loops : k # l => batch'[k] = batch[k] /\ loop'[k] = loop[k]
      BY <1>10 DEF TypeOK
    <2>2. BatchRuns'
      BY <1>4, <1>8, <2>1 DEF BatchRuns
    <2>3. AtHome'
      <3>1. ASSUME NEW s \in Seq(Functors), NEW i \in DOMAIN s PROVE s[i][2] \in Acceptors
        <4>1. s[i] \in Functors
          BY LenProperties, ElementOfSeq
        <4> QED
          BY <4>1, FunctorType
      <3>2. \A k \in Loops : functors[k] \in Seq(Functors) /\ batch[k] \in Seq(Functors)
        BY DEF TypeOK
      <3>3. ASSUME NEW k \in Loops, NEW i \in DOMAIN functors'[k]
            PROVE  functors'[k][i][2] <= made' /\ acceptor'[functors'[k][i][2]].at = k
        BY <1>4, <1>7, <3>1, <3>2 DEF AtHome
      <3>4. ASSUME NEW k \in Loops, NEW i \in DOMAIN batch'[k]
            PROVE  batch'[k][i][2] <= made' /\ acceptor'[batch'[k][i][2]].at = k
        <4>1. k # l
          BY <2>1, <3>4
        <4>2. i \in DOMAIN batch[k] /\ batch'[k][i] = batch[k][i]
          BY <2>1, <3>4, <4>1
        <4>3. batch[k][i][2] \in Acceptors
          BY <3>1, <3>2, <4>2
        <4> QED
          BY <1>4, <1>7, <4>2, <4>3 DEF AtHome
      <3> QED
        BY <3>3, <3>4 DEF AtHome
    <2>4. StopReachesAcceptor'
      <3> SUFFICES ASSUME server' = "destroyed", NEW b \in Acceptors PROVE StopComes(b)'
        BY DEF StopReachesAcceptor
      <3>1. StopComes(b) /\ acceptor[b].at \in Loops
        BY <1>4 DEF TypeOK, StopReachesAcceptor
      <3>2. CASE acceptor[b].at # l
        BY <1>3, <1>4, <1>5, <1>7, <2>1, <3>1, <3>2 DEF StopComes
      <3>3. CASE acceptor[b].at = l
        BY <1>7, <2>1, <3>3 DEF StopComes
      <3> QED
        BY <3>2, <3>3
    <2> QED
      BY <1>6, <2>2, <2>3, <2>4
  <1> QED
    BY <1>5, <1>9, <1>10

\* Every step keeps the invariant.
LEMMA HandoverStep == TypeOK /\ HandoverInv /\ [Next]_vars => HandoverInv'
  <1> SUFFICES ASSUME TypeOK, HandoverInv, [Next]_vars PROVE HandoverInv'
    OBVIOUS
  <1>1. CASE Listen
    BY <1>1, ListenHandover
  <1>2. CASE ListenNoSocket
    <2>1. /\ UNCHANGED <<start, loop, functors, batch, made, acceptor, server>>
          /\ serverAcceptor' = 0 /\ orphans' = Overwritten /\ server = "alive"
      BY <1>2 DEF ListenNoSocket, loopVars
    <2>2. AtHome' /\ InLoopMade' /\ BatchRuns' /\ StopReachesAcceptor'
      BY <2>1 DEF HandoverInv, AtHome, InLoopMade, BatchRuns, StopReachesAcceptor
    <2>3. KnownOrOrphan'
      BY <2>1 DEF HandoverInv, KnownOrOrphan, Overwritten, TypeOK
    <2> QED
      BY <2>2, <2>3 DEF HandoverInv
  <1>3. CASE ListenNoLoop
    BY <1>3, QuietStep DEF ListenNoLoop, loopVars
  <1>4. ASSUME NEW s \in {"alive", "destroyed"}, StopListen(s) PROVE HandoverInv'
    BY <1>4, StopHandover
  <1>5. ASSUME NEW r \in {"true", "false"}, StartLoop(r) PROVE HandoverInv'
    <2>1. 0 \in Loops
      BY DEF Loops
    <2>2. /\ loop[0] = "idle" /\ start' # "no" /\ loop' = [loop EXCEPT ![0] = "running"]
          /\ UNCHANGED <<functors, batch, acceptor, serverVars>>
      BY <1>5, <2>1 DEF StartLoop, HandoverInv, BatchRuns
    <2> QED
      BY <2>1, <2>2, LoopStarts
  <1>6. ASSUME NEW l \in Loops, PoolThreadRuns(l) PROVE HandoverInv'
    BY <1>6, LoopStarts DEF PoolThreadRuns
  <1>7. ASSUME NEW l \in Loops, Poll(l) PROVE HandoverInv'
    BY <1>7, QuietStep DEF Poll
  <1>8. ASSUME NEW l \in Loops, FetchFunctors(l) PROVE HandoverInv'
    BY <1>8, FetchHandover
  <1>9. ASSUME NEW l \in Loops, RunFunctor(l) PROVE HandoverInv'
    BY <1>9, RunHandover
  <1>10. ASSUME NEW l \in Loops, NEW a \in Acceptors, NEW c \in Clients, HandleIn(l, a, c)
         PROVE  HandoverInv'
    BY <1>10, QuietStep DEF HandleIn
  <1>11. ASSUME NEW l \in Loops, NEW a \in Acceptors, HandleInFails(l, a) PROVE HandoverInv'
    BY <1>11, QuietStep DEF HandleInFails
  <1>12. ASSUME NEW l \in Loops, NEW a \in Acceptors, HandleDestroyed(l, a)
         PROVE  HandoverInv'
    BY <1>12, QuietStep DEF HandleDestroyed
  <1>13. ASSUME NEW c \in Clients, NEW a \in Acceptors, Connect(c, a) PROVE HandoverInv'
    BY <1>13, QuietStep DEF Connect, loopVars
  <1>14. CASE UNCHANGED vars
    BY <1>14, QuietStep DEF vars, serverVars
  <1> QED
    BY <1>1, <1>2, <1>3, <1>4, <1>5, <1>6, <1>7, <1>8, <1>9, <1>10, <1>11, <1>12,
       <1>13, <1>14 DEF Next, LoopStep, Accepts

(***************************************************************************)
(* Theorems.                                                               *)
(***************************************************************************)
\* For any number of loops, acceptors and clients: functors stay in the loop of
\* their acceptor, the server knows every acceptor it has not overwritten, and
\* only running loops call functors.
THEOREM ServerInvariant == Spec => []ServerInv
  <1>1. Init => ServerInv
    BY ServerTypeInit, HandoverInit DEF ServerInv
  <1>2. ServerInv /\ [Next]_vars => ServerInv'
    BY ServerTypeStep, HandoverStep DEF ServerInv
  <1> QED
    BY <1>1, <1>2, PTL DEF Spec

\* The destructor's stop reaches the acceptor, however many loops there are,
\* whatever bind and listen come to and wherever the acceptor's functors are.
THEOREM StopReachesAcceptorTheorem == Spec => []StopReachesAcceptor
  <1>1. ServerInv => StopReachesAcceptor
    BY DEF ServerInv, HandoverInv
  <1> QED
    BY <1>1, ServerInvariant, PTL
=============================================================================
