-------------------------- MODULE ConnectionProofs --------------------------
(***************************************************************************)
(* Proofs about a connection and about the array its bytes are kept in.    *)
(*                                                                         *)
(* TcpConnection, for any bounds and any timeout: types, the order of the  *)
(* states, and every safety invariant of the connection run.               *)
(*                                                                         *)
(* ByteArray, for any node size, bounds and lengths: its counters are the  *)
(* extents of its nodes, a reader gets the bytes it found, a transfer is   *)
(* adjusted rightly in exactly the cases listed, the array is a queue of   *)
(* bytes, and what a copy reads survives the array it was copied from.     *)
(***************************************************************************)
EXTENDS TcpConnection, ByteArray, SequenceTheorems, FiniteSetTheorems,
        WellFoundedInduction, TLAPS

\* Before makeTcpConnection has put the connection into the loop nobody else
\* knows it.
UnknownAtStart ==
    creator = "start" =>
        /\ state = "Established" /\ ~isWaitWriting
        /\ ~registered /\ ~inLoop /\ ~held
        /\ functors = <<>> /\ batch = <<>>
        /\ idle = 0 /\ halfClose = 0
        /\ loop # "connection" /\ "connection" \notin round /\ events = {}
        /\ disconnects = 0

\* From then on it is in the loop exactly until it is closed.
InLoopUntilClosed == creator # "start" => (inLoop <=> state # "Closed")

\* The local vector of functors exists only while handleIn calls them.
BatchInHandler == loop # "functors" => batch = <<>>

\* handleEvents is called once per round and channel.
HandledOnce == loop = "connection" => "connection" \notin round

\* An OUT event that waits for handleOut belongs to a write under way.
OutIsWanted == state # "Closed" /\ "OUT" \in events => isWaitWriting

\* What a closed connection has left, unless a send functor revived it or the
\* half-close timeout hit it: it is no key of the Epoll, no later round has it,
\* and the rest of its dispatch does not register it again.
ClosedIsQuiet ==
    state = "Closed" /\ ~lateSend /\ ~kicked =>
        /\ ~registered /\ "connection" \notin round
        /\ "RDHUP" \notin events
        /\ "OUT" \in events => peer = "reset"

\* onDisconnect belongs to the close.
DisconnectAtClose == state # "Closed" => disconnects = 0

\* Everything but the types and the timeouts.
QuietInv == /\ UnknownAtStart /\ InLoopUntilClosed /\ BatchInHandler
            /\ HandledOnce /\ OutIsWanted /\ ClosedIsQuiet /\ DisconnectAtClose
            /\ OutIffWaitWriting /\ DisconnectOnce

ConnInv == TypeOK /\ QuietInv /\ NeverForgotten

\* A close functor waits in q.
CloseWaits(q) == \E i \in 1..Len(q) : q[i] = "close"

USE BoundsAssumption, TimeoutAssumption

(***************************************************************************)
(* Types.                                                                  *)
(***************************************************************************)
LEMMA TypeOKInit == Init => TypeOK
  <1> SUFFICES ASSUME Init PROVE TypeOK
    OBVIOUS
  <1>1. functors \in Seq(Functors) /\ batch \in Seq(Functors)
    BY EmptySeq DEF Init
  <1>2. 0 \in 0..MaxData /\ 0 \in 0..Timeout /\ 0 \in 0..2
    OBVIOUS
  <1>3. buffer \in [Arrays -> 0..MaxData] /\ received \in 0..MaxData
    BY <1>2 DEF Init
  <1>4. idle \in 0..Timeout /\ halfClose \in 0..Timeout
    BY <1>2 DEF Init
  <1> QED
    BY <1>1, <1>2, <1>3, <1>4 DEF Init, TypeOK, States, Creator

\* forceClose keeps the types.
LEMMA ForceCloseTypes ==
  ASSUME disconnects \in 0..2, ForceClose
  PROVE  /\ state' \in States /\ idle' \in 0..Timeout /\ halfClose' \in 0..Timeout
         /\ disconnects' \in 0..2 /\ registered' \in BOOLEAN /\ inLoop' \in BOOLEAN
  <1>1. disconnects' \in 0..2
    BY DEF ForceClose
  <1>2. 0 \in 0..Timeout
    OBVIOUS
  <1> QED
    BY <1>1, <1>2 DEF ForceClose, States

\* A renewed entry has at most the whole timeout left.
LEMMA RenewWheelType == RenewWheel \in 0..Timeout
  BY DEF RenewWheel

\* Every step keeps the types.
LEMMA TypeOKStep == TypeOK /\ [Next]_vars => TypeOK'
  <1> SUFFICES ASSUME TypeOK, [Next]_vars PROVE TypeOK'
    OBVIOUS
  <1> USE DEF TypeOK, fsm, epoll, wheel, queue, thread, wire, history
  <1>1. CASE AddToLoop
    BY <1>1 DEF AddToLoop, Creator
  <1>2. CASE AddIdleEntry
    BY <1>2 DEF AddIdleEntry, Creator
  <1>3. CASE AcceptorLocks
    BY <1>3 DEF AcceptorLocks, Creator
  <1>4. CASE AcceptorReturns
    BY <1>4 DEF AcceptorReturns, Creator
  <1>5. CASE UserLocks
    BY <1>5 DEF UserLocks
  <1>6. ASSUME NEW f \in Functors, UserPosts(f) PROVE TypeOK'
    <2>1. functors' \in Seq(Functors)
      BY <1>6, AppendProperties DEF UserPosts
    <2>2. buffer' \in [Arrays -> 0..MaxData]
      BY <1>6 DEF UserPosts, Arrays
    <2> QED
      BY <1>6, <2>1, <2>2 DEF UserPosts
  <1>7. CASE UserReleases
    <2>1. held' \in BOOLEAN
      BY <1>7 DEF UserReleases
    <2>2. UNCHANGED <<fsm, epoll, wheel, hasWheel, queue, thread, wire, history,
                      inLoop, buffer, creator>>
      BY <1>7 DEF UserReleases
    <2> QED
      BY <2>1, <2>2
  <1>8. CASE PeerSends
    BY <1>8 DEF PeerSends
  <1>9. CASE PeerCloses
    BY <1>9 DEF PeerCloses
  <1>10. ASSUME NEW writable \in BOOLEAN, NEW tick \in BOOLEAN, Poll(writable, tick)
         PROVE  TypeOK'
    <2>1. events' \in SUBSET {"IN", "OUT", "RDHUP"}
      BY <1>10 DEF Poll, Ready
    <2>2. round' \in SUBSET Channels
      BY <1>10 DEF Poll, Channels
    <2> QED
      BY <1>10, <2>1, <2>2 DEF Poll
  <1>11. CASE EndRound
    BY <1>11 DEF EndRound
  <1>12. CASE HandleEvents
    BY <1>12 DEF HandleEvents
  <1>13. CASE EndHandleEvents
    BY <1>13 DEF EndHandleEvents
  <1>14. CASE HandleRdhup
    <2>1. events' \in SUBSET {"IN", "OUT", "RDHUP"}
          /\ watching' \in SUBSET {"IN", "OUT", "RDHUP"}
      BY <1>14 DEF HandleRdhup, Deactivate
    <2>2. /\ state' \in States /\ idle' \in 0..Timeout /\ halfClose' \in 0..Timeout
          /\ disconnects' \in 0..2 /\ registered' \in BOOLEAN /\ inLoop' \in BOOLEAN
      BY <1>14, ForceCloseTypes DEF HandleRdhup, States
    <2> QED
      BY <1>14, <2>1, <2>2 DEF HandleRdhup
  <1>15. CASE HandleIn
    <2>1. received' \in 0..MaxData /\ buffer' \in [Arrays -> 0..MaxData]
      BY <1>15 DEF HandleIn, ReadUnits, WriteBufferConvert, Arrays
    <2>2. /\ state' \in States /\ idle' \in 0..Timeout /\ halfClose' \in 0..Timeout
          /\ disconnects' \in 0..2 /\ registered' \in BOOLEAN /\ inLoop' \in BOOLEAN
      BY <1>15, ForceCloseTypes, RenewWheelType DEF HandleIn
    <2> QED
      BY <1>15, <2>1, <2>2 DEF HandleIn
  <1>16. CASE HandleOut
    <2>1. buffer' \in [Arrays -> 0..MaxData]
      BY <1>16 DEF HandleOut, SendResults, ReadBufferConvert, Arrays
    <2>2. /\ watching' \in SUBSET {"IN", "OUT", "RDHUP"} /\ isWaitWriting' \in BOOLEAN
      BY <1>16 DEF HandleOut, Deactivate
    <2>3. /\ state' \in States /\ idle' \in 0..Timeout /\ halfClose' \in 0..Timeout
          /\ disconnects' \in 0..2 /\ registered' \in BOOLEAN /\ inLoop' \in BOOLEAN
      BY <1>16, ForceCloseTypes, RenewWheelType DEF HandleOut
    <2> QED
      BY <1>16, <2>1, <2>2, <2>3 DEF HandleOut
  <1>17. CASE FetchFunctors
    BY <1>17, EmptySeq DEF FetchFunctors
  <1>18. CASE EndFunctors
    BY <1>18 DEF EndFunctors
  <1>19. CASE SendInLoop
    <2>1. batch' \in Seq(Functors)
      BY <1>19, HeadTailProperties DEF SendInLoop
    <2>2. /\ watching' \in SUBSET {"IN", "OUT", "RDHUP"} /\ isWaitWriting' \in BOOLEAN
          /\ registered' \in BOOLEAN /\ lateSend' \in BOOLEAN
      BY <1>19 DEF SendInLoop
    <2> QED
      BY <1>19, <2>1, <2>2 DEF SendInLoop
  <1>20. CASE CloseAfterWriteCompleted
    <2>1. batch' \in Seq(Functors)
      BY <1>20, HeadTailProperties DEF CloseAfterWriteCompleted
    <2>2. watching' \in SUBSET {"IN", "OUT", "RDHUP"} /\ registered' \in BOOLEAN
      BY <1>20 DEF CloseAfterWriteCompleted, Deactivate
    <2>3. state' \in States /\ shutWrite' \in BOOLEAN
      BY <1>20 DEF CloseAfterWriteCompleted, States
    <2>4. halfClose' \in 0..Timeout
      <3>1. halfClose' \in {halfClose, Timeout, 0}
        BY <1>20 DEF CloseAfterWriteCompleted
      <3> QED
        BY <3>1
    <2> QED
      BY <1>20, <2>1, <2>2, <2>3, <2>4 DEF CloseAfterWriteCompleted
  <1>21. CASE Tick
    <2>1. functors' \in Seq(Functors)
      <3>1. functors' = functors \/ functors' = Append(functors, "close")
        BY <1>21 DEF Tick
      <3>2. "close" \in Functors
        BY DEF Functors
      <3>3. Append(functors, "close") \in Seq(Functors)
        BY <3>2, AppendProperties
      <3> QED
        BY <3>1, <3>3
    <2>2. /\ state' \in States /\ idle' \in 0..Timeout /\ halfClose' \in 0..Timeout
          /\ disconnects' \in 0..2 /\ registered' \in BOOLEAN /\ inLoop' \in BOOLEAN
          /\ kicked' \in BOOLEAN
      <3>1. CASE ForceClose /\ kicked' = TRUE
        BY <3>1, ForceCloseTypes
      <3>2. CASE /\ idle' = IF idle > 0 THEN idle - 1 ELSE 0
                 /\ halfClose' = IF halfClose > 0 THEN halfClose - 1 ELSE 0
                 /\ UNCHANGED <<state, registered, inLoop, disconnects, kicked>>
        <4>1. idle' \in 0..Timeout /\ halfClose' \in 0..Timeout
          BY <3>2
        <4> QED
          BY <3>2, <4>1
      <3> QED
        BY <1>21, <3>1, <3>2 DEF Tick
    <2> QED
      BY <1>21, <2>1, <2>2 DEF Tick
  <1>22. CASE UNCHANGED vars
    BY <1>22 DEF vars
  <1> QED
    BY <1>1, <1>2, <1>3, <1>4, <1>5, <1>6, <1>7, <1>8, <1>9, <1>10, <1>11, <1>12,
       <1>13, <1>14, <1>15, <1>16, <1>17, <1>18, <1>19, <1>20, <1>21, <1>22
    DEF Next, AcceptorStep, UserStep, PeerStep, HandlerStep

(***************************************************************************)
(* Who knows the connection, and what is left of it once it is closed.     *)
(***************************************************************************)
LEMMA QuietInvInit == Init => QuietInv
  BY DEF Init, QuietInv, UnknownAtStart, InLoopUntilClosed, BatchInHandler,
     HandledOnce, OutIsWanted, ClosedIsQuiet, DisconnectAtClose,
     OutIffWaitWriting, DisconnectOnce

\* Every step of acceptor, users, peer and loop keeps QuietInv.
LEMMA QuietInvStep == TypeOK /\ QuietInv /\ [Next]_vars => QuietInv'
  <1> SUFFICES ASSUME TypeOK, QuietInv, [Next]_vars PROVE QuietInv'
    OBVIOUS
  <1>0. TypeOK'
    BY TypeOKStep
  <1> USE <1>0 DEF TypeOK, fsm, epoll, wheel, queue, thread, wire, history, QuietInv,
      UnknownAtStart, InLoopUntilClosed, BatchInHandler, HandledOnce, OutIsWanted,
      ClosedIsQuiet, DisconnectAtClose, OutIffWaitWriting, DisconnectOnce
  <1>1. CASE AddToLoop
    BY <1>1 DEF AddToLoop
  <1>2. CASE AddIdleEntry
    BY <1>2 DEF AddIdleEntry
  <1>3. CASE AcceptorLocks
    BY <1>3 DEF AcceptorLocks, Alive
  <1>4. CASE AcceptorReturns
    BY <1>4 DEF AcceptorReturns
  <1>5. CASE UserLocks
    BY <1>5 DEF UserLocks, Alive
  <1>6. ASSUME NEW f \in Functors, UserPosts(f) PROVE QuietInv'
    BY <1>6 DEF UserPosts
  <1>7. CASE UserReleases
    BY <1>7 DEF UserReleases
  <1>8. CASE PeerSends
    BY <1>8 DEF PeerSends, Alive
  <1>9. CASE PeerCloses
    BY <1>9 DEF PeerCloses, Alive
  <1>10. ASSUME NEW writable \in BOOLEAN, NEW tick \in BOOLEAN,
            Poll(writable, tick)
        PROVE  QuietInv'
    BY <1>10 DEF Poll, Ready, Alive
  <1>11. CASE EndRound
    BY <1>11 DEF EndRound
  <1>12. CASE HandleEvents
    BY <1>12 DEF HandleEvents, Alive
  <1>13. CASE EndHandleEvents
    BY <1>13 DEF EndHandleEvents
  <1>14. CASE HandleRdhup
    BY <1>14 DEF HandleRdhup, Deactivate, ForceClose
  <1>15. CASE HandleIn
    BY <1>15 DEF HandleIn, ForceClose, ReceiveFails
  <1>16. CASE HandleOut
    BY <1>16 DEF HandleOut, ForceClose, Deactivate, Broken, WriteCompleted
  <1>17. CASE FetchFunctors
    BY <1>17 DEF FetchFunctors
  <1>18. CASE EndFunctors
    BY <1>18 DEF EndFunctors
  <1>19. CASE SendInLoop
    BY <1>19 DEF SendInLoop, Alive
  <1>20. CASE CloseAfterWriteCompleted
    BY <1>20 DEF CloseAfterWriteCompleted, Deactivate, Alive
  <1>21. CASE Tick
    BY <1>21 DEF Tick, ForceClose, Alive
  <1>22. CASE UNCHANGED vars
    BY <1>22 DEF vars
  <1> QED
    BY <1>1, <1>2, <1>3, <1>4, <1>5, <1>6, <1>7, <1>8, <1>9, <1>10, <1>11,
       <1>12, <1>13, <1>14, <1>15, <1>16, <1>17, <1>18, <1>19, <1>20, <1>21,
       <1>22
    DEF Next, AcceptorStep, UserStep, PeerStep, HandlerStep

(***************************************************************************)
(* The timeouts.                                                           *)
(***************************************************************************)
LEMMA AppendKeepsClose ==
  ASSUME NEW q \in Seq(Functors), NEW f \in Functors, CloseWaits(q)
  PROVE  CloseWaits(Append(q, f))
  BY AppendProperties DEF CloseWaits

\* A posted close functor waits.
LEMMA AppendMakesClose ==
  ASSUME NEW q \in Seq(Functors) PROVE CloseWaits(Append(q, "close"))
  <1>1. "close" \in Functors
    BY DEF Functors
  <1> DEFINE r == Append(q, "close")
  <1>2. Len(r) = Len(q) + 1 /\ Len(q) \in Nat /\ r[Len(q) + 1] = "close"
    BY <1>1, AppendProperties
  <1> QED
    BY <1>2 DEF CloseWaits

\* Running another functor leaves a close functor waiting.
LEMMA TailKeepsClose ==
  ASSUME NEW q \in Seq(Functors), q # <<>>, Head(q) # "close", CloseWaits(q)
  PROVE  CloseWaits(Tail(q))
  <1>1. PICK i \in 1..Len(q) : q[i] = "close"
    BY DEF CloseWaits
  <1>2. Len(Tail(q)) = Len(q) - 1 /\ Len(q) \in Nat
        /\ \A j \in 1..Len(Tail(q)) : Tail(q)[j] = q[j + 1]
    BY HeadTailProperties
  <1>3. i # 1
    BY <1>1
  <1>4. i - 1 \in 1..Len(Tail(q)) /\ Tail(q)[i - 1] = "close"
    BY <1>1, <1>2, <1>3
  <1> QED
    BY <1>4 DEF CloseWaits

\* Every step keeps NeverForgotten.
LEMMA NeverForgottenStep ==
  TypeOK /\ QuietInv /\ NeverForgotten /\ [Next]_vars => NeverForgotten'
  <1> SUFFICES ASSUME TypeOK, QuietInv, NeverForgotten, [Next]_vars
               PROVE  NeverForgotten'
    OBVIOUS
  <1>0. NeverForgotten <=>
          /\ hasWheel /\ state = "Established"
             /\ creator \in {"returned", "locked", "done"}
               => idle > 0 \/ CloseWaits(functors) \/ CloseWaits(batch)
          /\ hasWheel /\ state = "HalfClose" => isWaitWriting \/ halfClose > 0
    BY DEF NeverForgotten, CloseWaits
  <1>00. NeverForgotten' <=>
          /\ hasWheel' /\ state' = "Established"
             /\ creator' \in {"returned", "locked", "done"}
               => idle' > 0 \/ CloseWaits(functors') \/ CloseWaits(batch')
          /\ hasWheel' /\ state' = "HalfClose" => isWaitWriting' \/ halfClose' > 0
    BY DEF NeverForgotten, CloseWaits
  <1> USE <1>0, <1>00 DEF TypeOK, QuietInv, fsm, epoll, wheel, queue, thread, wire,
      history
  <1>1. CASE AddToLoop
    BY <1>1 DEF AddToLoop, UnknownAtStart
  <1>2. CASE AddIdleEntry
    BY <1>2 DEF AddIdleEntry
  <1>3. CASE AcceptorLocks
    BY <1>3 DEF AcceptorLocks
  <1>4. CASE AcceptorReturns
    BY <1>4 DEF AcceptorReturns
  <1>5. CASE UserLocks
    BY <1>5 DEF UserLocks
  <1>6. ASSUME NEW f \in Functors, UserPosts(f) PROVE NeverForgotten'
    <2>1. CloseWaits(functors) => CloseWaits(functors')
      BY <1>6, AppendKeepsClose DEF UserPosts
    <2> QED
      BY <1>6, <2>1 DEF UserPosts
  <1>7. CASE UserReleases
    BY <1>7 DEF UserReleases
  <1>8. CASE PeerSends
    BY <1>8 DEF PeerSends
  <1>9. CASE PeerCloses
    BY <1>9 DEF PeerCloses
  <1>10. ASSUME NEW writable \in BOOLEAN, NEW tick \in BOOLEAN,
            Poll(writable, tick)
        PROVE  NeverForgotten'
    BY <1>10 DEF Poll
  <1>11. CASE EndRound
    BY <1>11 DEF EndRound
  <1>12. CASE HandleEvents
    BY <1>12 DEF HandleEvents
  <1>13. CASE EndHandleEvents
    BY <1>13 DEF EndHandleEvents
  <1>14. CASE HandleRdhup
    BY <1>14 DEF HandleRdhup, ForceClose
  <1>15. CASE HandleIn
    BY <1>15 DEF HandleIn, ForceClose, RenewWheel
  <1>16. CASE HandleOut
    BY <1>16 DEF HandleOut, ForceClose, RenewWheel
  <1>17. CASE FetchFunctors
    BY <1>17 DEF FetchFunctors, BatchInHandler
  <1>18. CASE EndFunctors
    BY <1>18 DEF EndFunctors
  <1>19. CASE SendInLoop
    <2>1. CloseWaits(batch) => CloseWaits(batch')
      BY <1>19, TailKeepsClose DEF SendInLoop
    <2> QED
      BY <1>19, <2>1 DEF SendInLoop
  <1>20. CASE CloseAfterWriteCompleted
    <2>1. state = "Established" => Alive
      BY <1>20 DEF InLoopUntilClosed, UnknownAtStart, CloseAfterWriteCompleted, Alive
    <2>2. state' # "Established"
      BY <1>20, <2>1 DEF CloseAfterWriteCompleted, States
    <2> QED
      BY <1>20, <2>1, <2>2 DEF CloseAfterWriteCompleted
  <1>21. CASE Tick
    <2>1. CASE halfClose = 1 /\ Alive
      BY <1>21, <2>1 DEF Tick, ForceClose
    <2>2. CASE ~(halfClose = 1 /\ Alive)
      <3>1. /\ idle' = IF idle > 0 THEN idle - 1 ELSE 0
            /\ halfClose' = IF halfClose > 0 THEN halfClose - 1 ELSE 0
            /\ UNCHANGED <<state, isWaitWriting, hasWheel, creator, batch>>
        BY <1>21, <2>2 DEF Tick
      <3>2. ASSUME hasWheel, state = "Established",
                   creator \in {"returned", "locked", "done"}
            PROVE  idle' > 0 \/ CloseWaits(functors') \/ CloseWaits(batch')
        <4>1. Alive
          BY <3>2 DEF InLoopUntilClosed, Alive
        <4>2. functors' = IF idle = 1 THEN Append(functors, "close") ELSE functors
          BY <1>21, <2>2, <4>1 DEF Tick
        <4>3. CloseWaits(functors) \/ idle = 1 => CloseWaits(functors')
          BY <4>2, AppendKeepsClose, AppendMakesClose
        <4> QED
          BY <3>1, <3>2, <4>3
      <3>3. ASSUME hasWheel, state = "HalfClose" PROVE isWaitWriting \/ halfClose' > 0
        <4>1. Alive
          BY <3>3 DEF InLoopUntilClosed, UnknownAtStart, Alive
        <4> QED
          BY <2>2, <3>1, <3>3, <4>1
      <3> QED
        BY <3>1, <3>2, <3>3
    <2> QED
      BY <2>1, <2>2
  <1>22. CASE UNCHANGED vars
    BY <1>22 DEF vars
  <1> QED
    BY <1>1, <1>2, <1>3, <1>4, <1>5, <1>6, <1>7, <1>8, <1>9, <1>10, <1>11,
       <1>12, <1>13, <1>14, <1>15, <1>16, <1>17, <1>18, <1>19, <1>20, <1>21,
       <1>22
    DEF Next, AcceptorStep, UserStep, PeerStep, HandlerStep

(***************************************************************************)
(* The theorems.                                                           *)
(***************************************************************************)
\* ConnInv is inductive: it holds of every reachable state.
THEOREM ConnInvariant == Spec => []ConnInv
  <1>1. Init => ConnInv
    BY TypeOKInit, QuietInvInit DEF ConnInv, NeverForgotten, Init
  <1>2. ConnInv /\ [Next]_vars => ConnInv'
    BY TypeOKStep, QuietInvStep, NeverForgottenStep DEF ConnInv
  <1> QED
    BY <1>1, <1>2, PTL DEF Spec

\* Until the connection is closed, m_isWaitWriting says whether OUT is watched,
\* whatever the order of handlers, functors, ticks and user calls.
THEOREM OutIffWaitWritingTheorem == Spec => []OutIffWaitWriting
  <1>1. ConnInv => OutIffWaitWriting
    BY DEF ConnInv, QuietInv
  <1> QED
    BY <1>1, ConnInvariant, PTL

\* A connection on a loop with a wheel is timed, has a close functor under way
\* or a write pending: TimeWheel, runInLoop and handleOut never all drop it.
THEOREM NeverForgottenTheorem == Spec => []NeverForgotten
  <1>1. ConnInv => NeverForgotten
    BY DEF ConnInv
  <1> QED
    BY <1>1, ConnInvariant, PTL

\* Neither Epoll::_events nor a round of start() holds a destroyed connection,
\* unless a send functor ran after the close or the half-close timeout closed it.
THEOREM DanglingExplainedTheorem == Spec => []DanglingExplained
  <1>1. ConnInv => DanglingExplained
    <2> SUFFICES ASSUME ConnInv, ~Alive PROVE DanglingExplained
      BY DEF DanglingExplained
    <2>1. state = "Closed"
      BY DEF ConnInv, QuietInv, InLoopUntilClosed, Alive
    <2> QED
      BY <2>1 DEF ConnInv, QuietInv, ClosedIsQuiet, DanglingExplained
  <1> QED
    BY <1>1, ConnInvariant, PTL

\* forceClose, which has no guard, reports onDisconnect twice only on a reset,
\* on a revived connection or after the half-close timeout.
THEOREM DisconnectOnceTheorem == Spec => []DisconnectOnce
  <1>1. ConnInv => DisconnectOnce
    BY DEF ConnInv, QuietInv
  <1> QED
    BY <1>1, ConnInvariant, PTL

\* m_state only moves along the arrows of TcpConnection.h's diagram.
THEOREM StateOrderTheorem == Spec => StateOrder
  <1>1. TypeOK /\ [Next]_vars =>
          [\/ state' = state
           \/ state = "Established" /\ state' \in {"HalfClose", "Closed"}
           \/ state = "HalfClose" /\ state' = "Closed"]_vars
    BY DEF Next, AcceptorStep, UserStep, PeerStep, HandlerStep, AddToLoop,
       AddIdleEntry, AcceptorLocks, AcceptorReturns, UserLocks, UserPosts,
       UserReleases, PeerSends, PeerCloses, Poll, EndRound, HandleEvents,
       EndHandleEvents, HandleRdhup, HandleIn, HandleOut, FetchFunctors,
       EndFunctors, SendInLoop, CloseAfterWriteCompleted, Tick, ForceClose,
       fsm, TypeOK, States
  <1>2. ConnInv => TypeOK
    BY DEF ConnInv
  <1> QED
    BY <1>1, <1>2, ConnInvariant, PTL DEF Spec, StateOrder

-----------------------------------------------------------------------------
\* Induction over the natural numbers, for a set of them.
LEMMA LeastElement ==
  ASSUME NEW S \in SUBSET Nat, S # {}
  PROVE  \E m \in S : \A k \in S : m <= k
  <1> DEFINE R == {ss \in Nat \X Nat : ss[1] < ss[2]}
  <1>1. IsWellFoundedOn(R, Nat)
    BY NatLessThanWellFounded DEF OpToRel
  <1>2. \E m \in S : \A k \in S : ~(<<k, m>> \in R)
    BY <1>1, WFMin, Zenon
  <1>3. PICK m \in S : \A k \in S : ~(<<k, m>> \in R)
    BY <1>2
  <1>4. ASSUME NEW k \in S PROVE m <= k
    <2>1. k \in Nat /\ m \in Nat
      OBVIOUS
    <2>2. ~(<<k, m>> \in R)
      BY <1>3
    <2>3. ~(k < m)
      BY <2>1, <2>2
    <2> QED
      BY <2>1, <2>3
  <1> QED
    BY <1>4

\* A set that has `from`, and with a number the next one up to `to`, has all.
LEMMA IntervalInduction ==
  ASSUME NEW S, NEW from \in Nat, NEW to \in Nat, from \in S,
         \A i \in from..to : i \in S /\ i < to => i + 1 \in S
  PROVE  from..to \subseteq S
  <1> DEFINE Out == {i \in from..to : i \notin S}
  <1> SUFFICES ASSUME Out # {} PROVE FALSE
    OBVIOUS
  <1>1. Out \in SUBSET Nat
    OBVIOUS
  <1>2. PICK m \in Out : \A k \in Out : m <= k
    BY <1>1, LeastElement
  <1>3. m \in from..to /\ m \notin S /\ m # from
    OBVIOUS
  <1>4. m - 1 \in from..to /\ m - 1 < to /\ m - 1 \notin Out
    BY <1>2, <1>3
  <1>5. m - 1 \in S /\ (m - 1) + 1 = m
    BY <1>3, <1>4
  <1> QED
    BY <1>3, <1>4, <1>5

\* What one turn of a loop takes.
LEMMA LeastIs ==
  ASSUME NEW x \in Nat, NEW y \in Nat
  PROVE  /\ Least(x, y) \in Nat /\ Least(x, y) <= x /\ Least(x, y) <= y
         /\ Least(x, y) = x \/ Least(x, y) = y
         /\ x - Least(x, y) \in Nat
  BY DEF Least

\* f is computed from v, one step after the other.
Computed(f, step, from, to, v) ==
  f = [i \in from..to |-> IF i = from THEN v ELSE step[i - 1][f[i - 1]]]

\* There is such a function: a recursive function over an interval is defined.
LEMMA RecursionExists ==
  ASSUME NEW from \in Nat, NEW to \in Nat, from <= to, NEW V, NEW v \in V,
         NEW step \in [from..(to - 1) -> [V -> V]]
  PROVE  \E f \in [from..to -> V] : Computed(f, step, from, to, v)
  <1> DEFINE S == {k \in from..to : \E f \in [from..k -> V] : Computed(f, step, from, k, v)}
  <1>1. from \in S
    <2> DEFINE f == [i \in from..from |-> v]
    <2>1. f \in [from..from -> V] /\ \A i \in from..from : i = from
      OBVIOUS
    <2>2. Computed(f, step, from, from, v)
      BY <2>1 DEF Computed
    <2>3. from \in from..to
      OBVIOUS
    <2> HIDE DEF f
    <2> QED
      BY <2>1, <2>2, <2>3
  <1>2. ASSUME NEW k \in from..to, k \in S, k < to PROVE k + 1 \in S
    <2>1. PICK f \in [from..k -> V] : Computed(f, step, from, k, v)
      BY <1>2
    <2> DEFINE u == step[k][f[k]]
               g == [i \in from..(k + 1) |-> IF i = k + 1 THEN u ELSE f[i]]
    <2>2. k \in from..(to - 1) /\ k \in from..k
      BY <1>2
    <2>3. f[k] \in V /\ step[k] \in [V -> V]
      BY <2>2
    <2>4. u \in V
      BY <2>3
    <2> HIDE DEF u
    <2>5. g \in [from..(k + 1) -> V]
      BY <2>4
    <2>6. ASSUME NEW i \in from..(k + 1)
          PROVE  g[i] = IF i = from THEN v ELSE step[i - 1][g[i - 1]]
      <3>1. CASE i = k + 1
        <4>1. i # from /\ i - 1 = k /\ g[i - 1] = f[k] /\ g[i] = u
          BY <3>1, <1>2
        <4> QED
          BY <4>1 DEF u
      <3>2. CASE i # k + 1 /\ i # from
        <4>1. i \in from..k /\ i - 1 \in from..k /\ g[i] = f[i] /\ g[i - 1] = f[i - 1]
          BY <3>2
        <4>2. f[i] = step[i - 1][f[i - 1]]
          BY <2>1, <3>2, <4>1 DEF Computed
        <4> QED
          BY <3>2, <4>1, <4>2
      <3>3. CASE i = from /\ i # k + 1
        <4>1. i \in from..k /\ g[i] = f[i]
          BY <3>3
        <4>2. f[i] = v
          BY <2>1, <3>3, <4>1 DEF Computed
        <4> QED
          BY <3>3, <4>1, <4>2
      <3> QED
        BY <3>1, <3>2, <3>3
    <2>7. Computed(g, step, from, k + 1, v)
      BY <2>6 DEF Computed
    <2>8. k + 1 \in from..to
      BY <1>2
    <2> HIDE DEF g
    <2> QED
      BY <2>5, <2>7, <2>8
  <1>3. from..to \subseteq S
    <2> HIDE DEF S
    <2> QED
      BY <1>1, <1>2, IntervalInduction
  <1>4. to \in from..to
    OBVIOUS
  <1> QED
    BY <1>3, <1>4

\* f is what is left of length before each turn of a loop over capacities c.
Loop(f, c, from, to, length) ==
  f = [i \in from..to |-> IF i = from THEN length
                          ELSE f[i - 1] - Least(f[i - 1], c[i - 1])]

\* The loop is one.
LEMMA LoopExists ==
  ASSUME NEW from \in Nat, NEW to \in Nat, from <= to,
         NEW c \in [from..(to - 1) -> Nat], NEW length \in Nat
  PROVE  \E f \in [from..to -> Nat] : Loop(f, c, from, to, length)
  <1> DEFINE step == [i \in from..(to - 1) |-> [x \in Nat |-> x - Least(x, c[i])]]
  <1>1. ASSUME NEW i \in from..(to - 1), NEW x \in Nat PROVE x - Least(x, c[i]) \in Nat
    BY LeastIs
  <1>2. step \in [from..(to - 1) -> [Nat -> Nat]]
    BY <1>1
  <1>3. \A i \in from..(to - 1) : \A x \in Nat : step[i][x] = x - Least(x, c[i])
    OBVIOUS
  <1> HIDE DEF step
  <1>4. PICK f \in [from..to -> Nat] : Computed(f, step, from, to, length)
    BY <1>2, RecursionExists
  <1>5. ASSUME NEW i \in from..to, i # from
        PROVE  step[i - 1][f[i - 1]] = f[i - 1] - Least(f[i - 1], c[i - 1])
    <2>1. i - 1 \in from..(to - 1) /\ i - 1 \in from..to
      BY <1>5
    <2>2. f[i - 1] \in Nat
      BY <2>1
    <2> QED
      BY <1>3, <2>1, <2>2
  <1>6. Loop(f, c, from, to, length)
    BY <1>4, <1>5 DEF Loop, Computed
  <1> QED
    BY <1>6

\* So LeftOver is a function that obeys the loop.
LEMMA LeftOverLoop ==
  ASSUME NEW from \in Nat, NEW to \in Nat, from <= to,
         NEW c \in [from..(to - 1) -> Nat], NEW length \in Nat
  PROVE  Loop(LeftOver(c, from, to, length), c, from, to, length)
  <1>1. \E f : Loop(f, c, from, to, length)
    BY LoopExists
  <1>2. LeftOver(c, from, to, length) = CHOOSE f : Loop(f, c, from, to, length)
    BY DEF LeftOver, Loop
  <1> QED
    BY <1>1, <1>2

\* Node i, if the loop comes to it, takes all that lies between the places p[i]
\* and p[i + 1].
Places(f, c, p, from, to) ==
  /\ p \in [from..to -> Nat]
  /\ \A i \in from..(to - 1) : p[i] <= p[i + 1]
  /\ \A i \in from..(to - 1) : f[i] > 0 => c[i] = p[i + 1] - p[i]

\* What is left is what goes beyond p[i].
Over(target, place) == IF target > place THEN target - place ELSE 0

Beyond(f, p, from, to, length) ==
  \A i \in from..to : p[from] <= p[i] /\ f[i] = Over(p[from] + length, p[i])

\* So a loop over the nodes can be read off from the places of their bytes.
LEMMA LoopIs ==
  ASSUME NEW from \in Nat, NEW to \in Nat, from <= to,
         NEW c \in [from..(to - 1) -> Nat], NEW length \in Nat,
         NEW f, Loop(f, c, from, to, length), NEW p, Places(f, c, p, from, to)
  PROVE  Beyond(f, p, from, to, length)
  <1> USE DEF Places, Beyond, Over
  <1> DEFINE Good(i) == /\ p[from] <= p[i]
                        /\ f[i] = IF p[from] + length > p[i]
                                  THEN p[from] + length - p[i] ELSE 0
             S == {i \in from..to : Good(i)}
  <1>1. from \in S
    <2>1. from \in from..to /\ p[from] \in Nat /\ f[from] = length
      BY DEF Loop
    <2> QED
      BY <2>1
  <1>2. ASSUME NEW i \in from..to, i \in S, i < to PROVE i + 1 \in S
    <2>1. i \in from..(to - 1) /\ i + 1 \in from..to /\ i + 1 # from /\ (i + 1) - 1 = i
      BY <1>2
    <2>2. f[i + 1] = f[i] - Least(f[i], c[i])
      BY <2>1 DEF Loop
    <2>3. p[i] \in Nat /\ p[i + 1] \in Nat /\ p[from] \in Nat /\ c[i] \in Nat
      BY <2>1
    <2>4. Good(i) /\ f[i] \in Nat
      BY <1>2, <2>3
    <2>5. p[i] <= p[i + 1] /\ (f[i] > 0 => c[i] = p[i + 1] - p[i])
      BY <2>1
    <2>6. Good(i + 1)
      <3> DEFINE left == f[i]
                 next == f[i + 1]
                 target == p[from] + length
                 here == p[i]
                 there == p[i + 1]
                 room == c[i]
                 start == p[from]
      <3>1. /\ target \in Nat /\ here \in Nat /\ there \in Nat /\ room \in Nat
            /\ here <= there /\ (left > 0 => room = there - here)
            /\ left = IF target > here THEN target - here ELSE 0
            /\ next = left - Least(left, room)
        BY <2>2, <2>3, <2>4, <2>5
      <3>2. start \in Nat /\ start <= here
        BY <2>3, <2>4
      <3> HIDE DEF left, next, target, here, there, room, start
      <3>4. start <= there
        BY ONLY <3>1, <3>2
      <3>3. next = IF target > there THEN target - there ELSE 0
        BY ONLY <3>1 DEF Least
      <3> QED
        BY <2>1, <2>3, <3>3, <3>4 DEF next, target, there, start
    <2> QED
      BY <2>1, <2>6
  <1>3. from..to \subseteq S
    <2> HIDE DEF S
    <2> QED
      BY <1>1, <1>2, IntervalInduction
  <1> QED
    BY <1>3

\* A loop that is done with the nodes of a set without gaps comes to the first
\* node that is not in it.
LEMMA MoveOnIs ==
  ASSUME NEW node \in Nat, NEW size \in Nat, node < size,
         NEW done \in SUBSET (node..(size - 1)),
         \A i \in done : node..i \subseteq done
  PROVE  LET m == MoveOn(node, Cardinality(done), size)
         IN  /\ m \in node..(size - 1)
             /\ node..(m - 1) \subseteq done
             /\ m \in done => m = size - 1
  <1> DEFINE Out == {k \in Nat : k >= node /\ k \notin done}
  <1>1. Out \in SUBSET Nat /\ size \in Out
    OBVIOUS
  <1>2. PICK k \in Out : \A j \in Out : k <= j
    BY <1>1, LeastElement
  <1>3. k \in Nat /\ k >= node /\ k <= size /\ k \notin done
    BY <1>1, <1>2
  <1>4. node..(k - 1) \subseteq done
    BY <1>2, <1>3
  <1>5. done \subseteq node..(k - 1)
    <2> SUFFICES ASSUME NEW i \in done, i >= k PROVE FALSE
      BY <1>3
    <2>1. k \in node..i
      BY <1>3
    <2> QED
      BY <1>3, <2>1
  <1>6. done = node..(k - 1)
    BY <1>4, <1>5
  <1>7. Cardinality(node..(k - 1)) = k - node
    <2>1. node \in Int /\ k - 1 \in Int
      BY <1>3
    <2>2. Cardinality(node..(k - 1)) = IF node > k - 1 THEN 0 ELSE (k - 1) - node + 1
      BY <2>1, FS_Interval
    <2> QED
      BY <1>3, <2>2
  <1>8. MoveOn(node, Cardinality(done), size) = IF k <= size - 1 THEN k ELSE size - 1
    BY <1>3, <1>6, <1>7 DEF MoveOn, Least
  <1> QED
    BY <1>3, <1>6, <1>8

\* Doubling n again and again.
Doubling(f, n, times) ==
  f = [k \in 0..times |-> IF k = 0 THEN n ELSE 2 * f[k - 1]]

\* The doubling is one.
LEMMA DoublingExists ==
  ASSUME NEW n \in Nat, NEW times \in Nat
  PROVE  \E f \in [0..times -> Nat] : Doubling(f, n, times)
  <1> DEFINE step == [k \in 0..(times - 1) |-> [x \in Nat |-> 2 * x]]
  <1>1. step \in [0..(times - 1) -> [Nat -> Nat]]
    OBVIOUS
  <1>2. \A k \in 0..(times - 1) : \A x \in Nat : step[k][x] = 2 * x
    OBVIOUS
  <1> HIDE DEF step
  <1>3. PICK f \in [0..times -> Nat] : Computed(f, step, 0, times, n)
    <2>1. 0 \in Nat /\ 0 <= times
      OBVIOUS
    <2> QED
      BY <1>1, <2>1, RecursionExists
  <1>4. ASSUME NEW k \in 0..times, k # 0 PROVE step[k - 1][f[k - 1]] = 2 * f[k - 1]
    <2>1. k - 1 \in 0..(times - 1) /\ k - 1 \in 0..times
      BY <1>4
    <2>2. f[k - 1] \in Nat
      BY <2>1
    <2> QED
      BY <1>2, <2>1, <2>2
  <1>5. Doubling(f, n, times)
    BY <1>3, <1>4 DEF Doubling, Computed
  <1> QED
    BY <1>5

\* Every doubling adds at least one.
LEMMA DoublingGrows ==
  ASSUME NEW n \in Nat \ {0}, NEW times \in Nat, NEW f, Doubling(f, n, times)
  PROVE  \A k \in 0..times : f[k] \in Nat /\ f[k] >= n + k
  <1> DEFINE S == {k \in 0..times : f[k] \in Nat /\ f[k] >= n + k}
  <1>1. 0 \in S
    BY DEF Doubling
  <1>2. ASSUME NEW k \in 0..times, k \in S, k < times PROVE k + 1 \in S
    <2>1. k + 1 \in 0..times /\ k + 1 # 0 /\ (k + 1) - 1 = k
      BY <1>2
    <2>2. f[k + 1] = 2 * f[k]
      BY <2>1 DEF Doubling
    <2> QED
      BY <1>2, <2>1, <2>2
  <1>3. 0..times \subseteq S
    <2> HIDE DEF S
    <2> QED
      BY <1>1, <1>2, IntervalInduction
  <1> QED
    BY <1>3

\* i nodes more are at least i bytes more.
LEMMA TimesAtLeast ==
  ASSUME NEW i \in Nat
  PROVE  i * BufferNodeSize \in Nat /\ i * BufferNodeSize >= i
  <1>1. BufferNodeSize - 1 \in Nat
    BY SizesAssumption
  <1>2. i * (BufferNodeSize - 1) \in Nat
    BY <1>1
  <1>3. i * BufferNodeSize = i * (BufferNodeSize - 1) + i
    BY SizesAssumption
  <1> QED
    BY <1>2, <1>3

\* The doubling ends, and then there is room for size bytes and one more.
LEMMA MoreNodesIs ==
  ASSUME NEW a, a.size \in Nat \ {0}, a.availableSizeToWrite \in Nat, NEW size \in Nat
  PROVE  /\ MoreNodes(a, size) \in Nat /\ MoreNodes(a, size) > a.size
         /\ (MoreNodes(a, size) - a.size) * BufferNodeSize + a.availableSizeToWrite > size
  <1> DEFINE f == CHOOSE g : Doubling(g, a.size, size + 1)
             enough == {n \in {f[k] : k \in 1..(size + 1)} :
                          (n - a.size) * BufferNodeSize + a.availableSizeToWrite > size}
  <1>1. MoreNodes(a, size) = CHOOSE n \in enough : \A m \in enough : n <= m
    BY DEF MoreNodes, Doubling
  <1>2. Doubling(f, a.size, size + 1)
    <2>1. a.size \in Nat /\ size + 1 \in Nat
      OBVIOUS
    <2>2. \E g \in [0..(size + 1) -> Nat] : Doubling(g, a.size, size + 1)
      BY <2>1, DoublingExists
    <2> QED
      BY <2>2
  <1> HIDE DEF f
  <1>3. \A k \in 0..(size + 1) : f[k] \in Nat /\ f[k] >= a.size + k
    BY <1>2, DoublingGrows
  <1>4. enough \in SUBSET Nat
    BY <1>3
  <1>5. f[size + 1] \in enough
    <2>1. f[size + 1] - a.size \in Nat /\ f[size + 1] - a.size >= size + 1
      BY <1>3
    <2>2. (f[size + 1] - a.size) * BufferNodeSize >= size + 1
          /\ (f[size + 1] - a.size) * BufferNodeSize \in Nat
      BY <2>1, TimesAtLeast
    <2>3. size + 1 \in 1..(size + 1)
      OBVIOUS
    <2>4. (f[size + 1] - a.size) * BufferNodeSize + a.availableSizeToWrite > size
      BY <2>2
    <2> QED
      BY <2>3, <2>4
  <1>6. \E n \in enough : \A m \in enough : n <= m
    BY <1>4, <1>5, LeastElement
  <1>7. MoreNodes(a, size) \in enough
    <2> HIDE DEF enough
    <2> QED
      BY <1>1, <1>6
  <1>8. \A n \in enough : n > a.size
    BY <1>3
  <1> QED
    BY <1>4, <1>7, <1>8

NodeLists == UNION {[0..(n - 1) -> Node] : n \in Nat}

ByteArrays == [availableSizeToRead : Nat, availableSizeToWrite : Nat,
           readNode : Nat, writeNode : Nat, size : Nat, nodes : NodeLists]

Typed(a) == a \in ByteArrays /\ a.size # 0 /\ a.nodes \in [0..(a.size - 1) -> Node]

\* What is readable has no gaps: it goes from the read node's start to the write
\* node's end, which leaves room in the write node.
Extents(a) ==
    /\ a.readNode <= a.writeNode /\ a.writeNode < a.size
    /\ \A i \in a.readNode..(a.writeNode - 1) : a.nodes[i].end = BufferNodeSize
    /\ \A i \in (a.readNode + 1)..(a.size - 1) : a.nodes[i].start = 0
    /\ \A i \in (a.writeNode + 1)..(a.size - 1) : a.nodes[i].end = 0
    /\ a.nodes[a.readNode].start <= a.nodes[a.readNode].end
    /\ a.nodes[a.writeNode].end < BufferNodeSize

Counted(a) ==
    /\ a.availableSizeToRead = EndOf(a) - StartOf(a)
    /\ a.availableSizeToWrite = a.size * BufferNodeSize - EndOf(a)

Shape(a) == Typed(a) /\ Extents(a) /\ Counted(a)

\* A node has room for a byte.
LEMMA SizeIs == BufferNodeSize \in Nat \ {0}
  BY SizesAssumption

USE SizeIs

\* The place of a node.
LEMMA TimesIs ==
  ASSUME NEW i \in Nat, NEW j \in Nat
  PROVE  /\ i * BufferNodeSize \in Nat
         /\ (i + 1) * BufferNodeSize = i * BufferNodeSize + BufferNodeSize
         /\ (i + j) * BufferNodeSize = i * BufferNodeSize + j * BufferNodeSize
         /\ i <= j => i * BufferNodeSize <= j * BufferNodeSize
         /\ i < j => i * BufferNodeSize + BufferNodeSize <= j * BufferNodeSize
  <1>1. i * BufferNodeSize \in Nat /\ j * BufferNodeSize \in Nat
    OBVIOUS
  <1>2. (i + 1) * BufferNodeSize = i * BufferNodeSize + BufferNodeSize
    OBVIOUS
  <1>3. (i + j) * BufferNodeSize = i * BufferNodeSize + j * BufferNodeSize
    OBVIOUS
  <1>4. ASSUME i <= j PROVE i * BufferNodeSize <= j * BufferNodeSize
    <2>1. j - i \in Nat /\ (j - i) * BufferNodeSize \in Nat
      BY <1>4
    <2>2. j * BufferNodeSize = i * BufferNodeSize + (j - i) * BufferNodeSize
      OBVIOUS
    <2> QED
      BY <1>1, <2>1, <2>2
  <1>5. ASSUME i < j PROVE i * BufferNodeSize + BufferNodeSize <= j * BufferNodeSize
    <2>1. j - (i + 1) \in Nat /\ (j - (i + 1)) * BufferNodeSize \in Nat
      BY <1>5
    <2>2. j * BufferNodeSize = (i + 1) * BufferNodeSize + (j - (i + 1)) * BufferNodeSize
      OBVIOUS
    <2> QED
      BY <1>1, <1>2, <2>1, <2>2
  <1> QED
    BY <1>1, <1>2, <1>3, <1>4, <1>5

\* A node's extent lies within its bytes.
LEMMA NodeIs ==
  ASSUME NEW node \in Node
  PROVE  /\ node.start \in Nat /\ node.start <= BufferNodeSize
         /\ node.end \in Nat /\ node.end <= BufferNodeSize
  BY DEF Node

\* A new node is one, and holds nothing.
LEMMA EmptyNodeIs == EmptyNode \in Node /\ EmptyNode.start = 0 /\ EmptyNode.end = 0
                     /\ EmptyNode.twin = NoTwin
  BY SizesAssumption DEF EmptyNode, Node, NoTwin, Bytes

\* A node is its fields.
LEMMA NodeFields ==
  ASSUME NEW s \in Nat, NEW e \in Nat, s <= BufferNodeSize, e <= BufferNodeSize,
         NEW content \in [Offsets -> Bytes], NEW twin \in NoTwin..(MaxNodes - 1)
  PROVE  [start |-> s, end |-> e, buffer |-> content, twin |-> twin] \in Node
  BY DEF Node

\* A node that was reset.
LEMMA ResetIs ==
  ASSUME NEW node \in Node
  PROVE  /\ Reset(node) \in Node
         /\ Reset(node).start = 0 /\ Reset(node).end = 0
         /\ Reset(node).twin = node.twin /\ Reset(node).buffer = node.buffer
  <1>0. node.buffer \in [Offsets -> Bytes] /\ node.twin \in NoTwin..(MaxNodes - 1)
    BY DEF Node
  <1>1. Reset(node) = [start |-> 0, end |-> 0, buffer |-> node.buffer, twin |-> node.twin]
    BY DEF Reset
  <1>2. [start |-> 0, end |-> 0, buffer |-> node.buffer, twin |-> node.twin] \in Node
    BY <1>0, NodeFields
  <1> QED
    BY <1>1, <1>2

\* A node that was replaced, unless it is not shared.
LEMMA CowIs ==
  ASSUME NEW node \in Node
  PROVE  /\ Cow(node) \in Node /\ Cow(node).twin = NoTwin
         /\ Cow(node).buffer = node.buffer
         /\ \/ Cow(node).start = node.start /\ Cow(node).end = node.end
            \/ Cow(node).start = 0 /\ Cow(node).end = 0 /\ node.twin # NoTwin
         /\ node.twin = NoTwin => Cow(node) = node
  <1>1. CASE node.twin = NoTwin
    BY <1>1 DEF Cow
  <1>2. CASE node.twin # NoTwin
    <2>1. NoTwin \in NoTwin..(MaxNodes - 1)
      BY SizesAssumption DEF NoTwin
    <2>2. node.buffer \in [Offsets -> Bytes]
      BY DEF Node
    <2>3. Cow(node) = [start |-> 0, end |-> 0, buffer |-> node.buffer, twin |-> NoTwin]
      BY <1>2 DEF Cow, EmptyNode
    <2>4. [start |-> 0, end |-> 0, buffer |-> node.buffer, twin |-> NoTwin] \in Node
      BY <2>1, <2>2, NodeFields
    <2> QED
      BY <1>2, <2>3, <2>4
  <1> QED
    BY <1>1, <1>2

\* The nodes of an array are nodes.
LEMMA NodesAre ==
  ASSUME NEW a, Typed(a)
  PROVE  /\ a.size \in Nat \ {0} /\ a.readNode \in Nat /\ a.writeNode \in Nat
         /\ a.availableSizeToRead \in Nat /\ a.availableSizeToWrite \in Nat
         /\ \A i \in 0..(a.size - 1) :
               /\ a.nodes[i] \in Node
               /\ a.nodes[i].start \in Nat /\ a.nodes[i].start <= BufferNodeSize
               /\ a.nodes[i].end \in Nat /\ a.nodes[i].end <= BufferNodeSize
  <1>1. a \in ByteArrays /\ a.size # 0 /\ a.nodes \in [0..(a.size - 1) -> Node]
    BY DEF Typed
  <1>2. /\ a.size \in Nat \ {0} /\ a.readNode \in Nat /\ a.writeNode \in Nat
        /\ a.availableSizeToRead \in Nat /\ a.availableSizeToWrite \in Nat
    BY <1>1 DEF ByteArrays
  <1>3. \A i \in 0..(a.size - 1) : a.nodes[i] \in Node
    BY <1>1
  <1> QED
    BY <1>2, <1>3, NodeIs

\* What makes an array one.
LEMMA TypedIs ==
  ASSUME NEW r \in Nat, NEW w \in Nat, NEW read \in Nat, NEW write \in Nat,
         NEW n \in Nat \ {0}, NEW nodes \in [0..(n - 1) -> Node]
  PROVE  LET a == [availableSizeToRead |-> read, availableSizeToWrite |-> write,
                   readNode |-> r, writeNode |-> w, size |-> n, nodes |-> nodes]
         IN  Typed(a)
  <1>1. nodes \in NodeLists
    BY DEF NodeLists
  <1> QED
    BY <1>1 DEF Typed, ByteArrays

(***************************************************************************)
(* Space.                                                                  *)
(***************************************************************************)
\* The nodes after the head move.
Moved(a) == [i \in 0..(a.size - 1) |->
    IF i + a.readNode < a.size THEN a.nodes[i + a.readNode]
    ELSE Reset(a.nodes[i + a.readNode - a.size])]

\* The nodes before the read node go to the tail, empty; the others keep their order.
LEMMA MovedIs ==
  ASSUME NEW a, Typed(a), a.readNode < a.size
  PROVE  /\ Moved(a) \in [0..(a.size - 1) -> Node]
         /\ \A i \in 0..(a.size - 1) :
              /\ i + a.readNode < a.size => Moved(a)[i] = a.nodes[i + a.readNode]
              /\ i + a.readNode >= a.size => Moved(a)[i].start = 0 /\ Moved(a)[i].end = 0
  <1>1. /\ a.size \in Nat \ {0} /\ a.readNode \in Nat
        /\ \A i \in 0..(a.size - 1) : a.nodes[i] \in Node
    BY NodesAre
  <1>2. ASSUME NEW i \in 0..(a.size - 1), i + a.readNode < a.size
        PROVE  Moved(a)[i] = a.nodes[i + a.readNode] /\ Moved(a)[i] \in Node
    <2>1. i + a.readNode \in 0..(a.size - 1)
      BY <1>1, <1>2
    <2> QED
      BY <1>1, <1>2, <2>1 DEF Moved
  <1>3. ASSUME NEW i \in 0..(a.size - 1), i + a.readNode >= a.size
        PROVE  Moved(a)[i].start = 0 /\ Moved(a)[i].end = 0 /\ Moved(a)[i] \in Node
    <2>1. i + a.readNode - a.size \in 0..(a.size - 1)
      BY <1>1, <1>3
    <2>2. Moved(a)[i] = Reset(a.nodes[i + a.readNode - a.size])
      BY <1>1, <1>3 DEF Moved
    <2> QED
      BY <1>1, <2>1, <2>2, ResetIs
  <1>4. \A i \in 0..(a.size - 1) : Moved(a)[i] \in Node
    BY <1>1, <1>2, <1>3
  <1>5. Moved(a) = [i \in 0..(a.size - 1) |-> Moved(a)[i]]
    BY DEF Moved
  <1> QED
    BY <1>1, <1>2, <1>3, <1>4, <1>5

\* What unlockedMoveBufferHead changes.
LEMMA MoveHeadFields ==
  ASSUME NEW a, Typed(a), a.readNode <= a.writeNode, a.writeNode < a.size
  PROVE  LET b == MoveBufferHead(a)
         IN  /\ b.size = a.size /\ b.readNode = 0
             /\ b.writeNode = a.writeNode - a.readNode
             /\ b.nodes = Moved(a)
             /\ b.availableSizeToRead = a.availableSizeToRead
             /\ b.availableSizeToWrite = a.availableSizeToWrite + a.readNode * BufferNodeSize
             /\ Typed(b)
  <1> DEFINE nodes == Moved(a)
             write == a.availableSizeToWrite + a.readNode * BufferNodeSize
             w == a.writeNode - a.readNode
             b == MoveBufferHead(a)
  <1>1. a \in ByteArrays /\ a.size # 0
    BY DEF Typed
  <1>2. b = [a EXCEPT !.nodes = nodes, !.availableSizeToWrite = write, !.writeNode = w,
                      !.readNode = 0]
    BY DEF MoveBufferHead, Moved
  <1>3. a.readNode \in Nat /\ a.size \in Nat \ {0} /\ a.writeNode \in Nat
    BY NodesAre
  <1>4. nodes \in [0..(a.size - 1) -> Node]
    BY <1>3, MovedIs
  <1>5. nodes \in NodeLists
    BY <1>3, <1>4 DEF NodeLists
  <1>6. write \in Nat /\ w \in Nat /\ 0 \in Nat
    BY <1>3, NodesAre, TimesIs
  <1> HIDE DEF nodes, write, w, b
  <1>7. b \in ByteArrays
    BY <1>1, <1>2, <1>5, <1>6 DEF ByteArrays
  <1>8. /\ b.nodes = nodes /\ b.availableSizeToWrite = write /\ b.writeNode = w
        /\ b.readNode = 0 /\ b.size = a.size
        /\ b.availableSizeToRead = a.availableSizeToRead
    BY <1>1, <1>2 DEF ByteArrays
  <1>9. Typed(b)
    BY <1>1, <1>4, <1>7, <1>8 DEF Typed
  <1> QED
    BY <1>8, <1>9 DEF nodes, write, w, b

\* The first and the last readable place of an array in shape.
LEMMA PlacesAre ==
  ASSUME NEW a, Shape(a)
  PROVE  /\ a.readNode \in 0..(a.size - 1) /\ a.writeNode \in 0..(a.size - 1)
         /\ a.readNode <= a.writeNode
         /\ a.size \in Nat \ {0}
         /\ a.nodes[a.readNode].start \in Nat /\ a.nodes[a.writeNode].end \in Nat
         /\ a.nodes[a.readNode].start <= BufferNodeSize
         /\ a.nodes[a.writeNode].end < BufferNodeSize
         /\ StartOf(a) \in Nat /\ EndOf(a) \in Nat
         /\ StartOf(a) = a.readNode * BufferNodeSize + a.nodes[a.readNode].start
         /\ EndOf(a) = a.writeNode * BufferNodeSize + a.nodes[a.writeNode].end
         /\ a.availableSizeToRead = EndOf(a) - StartOf(a)
         /\ a.availableSizeToWrite = a.size * BufferNodeSize - EndOf(a)
         /\ a.availableSizeToRead \in Nat /\ a.availableSizeToWrite \in Nat
  <1>1. Typed(a) /\ Extents(a) /\ Counted(a)
    BY DEF Shape
  <1>2. /\ a.size \in Nat \ {0} /\ a.readNode \in Nat /\ a.writeNode \in Nat
        /\ a.availableSizeToRead \in Nat /\ a.availableSizeToWrite \in Nat
    BY <1>1, NodesAre
  <1>3. /\ a.readNode <= a.writeNode /\ a.writeNode < a.size
        /\ a.nodes[a.writeNode].end < BufferNodeSize
    BY <1>1 DEF Extents
  <1>4. a.readNode \in 0..(a.size - 1) /\ a.writeNode \in 0..(a.size - 1)
    BY <1>2, <1>3
  <1>5. /\ a.nodes[a.readNode].start \in Nat /\ a.nodes[a.readNode].start <= BufferNodeSize
        /\ a.nodes[a.writeNode].end \in Nat
    BY <1>1, <1>4, NodesAre
  <1>6. a.readNode * BufferNodeSize \in Nat /\ a.writeNode * BufferNodeSize \in Nat
    BY <1>2, TimesIs
  <1>7. StartOf(a) = a.readNode * BufferNodeSize + a.nodes[a.readNode].start
    BY DEF StartOf
  <1>8. EndOf(a) = a.writeNode * BufferNodeSize + a.nodes[a.writeNode].end
    BY DEF EndOf
  <1>9. StartOf(a) \in Nat /\ EndOf(a) \in Nat
    BY <1>5, <1>6, <1>7, <1>8
  <1>10. /\ a.availableSizeToRead = EndOf(a) - StartOf(a)
         /\ a.availableSizeToWrite = a.size * BufferNodeSize - EndOf(a)
    BY <1>1 DEF Counted
  <1> QED
    BY <1>2, <1>3, <1>4, <1>5, <1>7, <1>8, <1>9, <1>10

\* The head move keeps the shape; the nodes before the read node become room.
LEMMA MoveHeadShape ==
  ASSUME NEW a, Shape(a)
  PROVE  /\ Shape(MoveBufferHead(a))
         /\ MoveBufferHead(a).size = a.size
         /\ MoveBufferHead(a).availableSizeToRead = a.availableSizeToRead
  <1> DEFINE b == MoveBufferHead(a)
             r == a.readNode
             w == a.writeNode
             n == a.size
  <1>1. Typed(a) /\ Extents(a) /\ Counted(a)
    BY DEF Shape
  <1>2. /\ r \in Nat /\ w \in Nat /\ n \in Nat \ {0} /\ r <= w /\ w < n
        /\ a.nodes[w].end < BufferNodeSize
        /\ \A i \in r..(w - 1) : a.nodes[i].end = BufferNodeSize
        /\ \A i \in (r + 1)..(n - 1) : a.nodes[i].start = 0
        /\ \A i \in (w + 1)..(n - 1) : a.nodes[i].end = 0
        /\ a.nodes[r].start <= a.nodes[r].end
    BY <1>1, NodesAre DEF Extents
  <1>3. /\ b.size = n /\ b.readNode = 0 /\ b.writeNode = w - r /\ b.nodes = Moved(a)
        /\ b.availableSizeToRead = a.availableSizeToRead
        /\ b.availableSizeToWrite = a.availableSizeToWrite + r * BufferNodeSize
        /\ Typed(b)
    BY <1>1, <1>2, MoveHeadFields
  <1>4. \A i \in 0..(n - 1) :
           /\ i + r < n => b.nodes[i] = a.nodes[i + r]
           /\ i + r >= n => b.nodes[i].start = 0 /\ b.nodes[i].end = 0
    <2>1. a.readNode < a.size
      BY <1>2
    <2>2. \A i \in 0..(n - 1) :
             /\ i + r < n => Moved(a)[i] = a.nodes[i + r]
             /\ i + r >= n => Moved(a)[i].start = 0 /\ Moved(a)[i].end = 0
      BY <1>1, <2>1, MovedIs
    <2> HIDE DEF b, r, n
    <2> QED
      BY <1>3, <2>2
  <1> HIDE DEF b, r, w, n
  <1>5. b.nodes[0] = a.nodes[r] /\ b.nodes[w - r] = a.nodes[w]
    <2>1. 0 \in 0..(n - 1) /\ 0 + r = r /\ w - r \in 0..(n - 1) /\ (w - r) + r = w
      BY <1>2
    <2> QED
      BY <1>2, <1>4, <2>1
  <1>6. Extents(b)
    <2>1. \A i \in 0..((w - r) - 1) : b.nodes[i].end = BufferNodeSize
      <3> SUFFICES ASSUME NEW i \in 0..((w - r) - 1) PROVE b.nodes[i].end = BufferNodeSize
        OBVIOUS
      <3>1. i \in 0..(n - 1) /\ i + r < n /\ i + r \in r..(w - 1)
        BY <1>2
      <3> QED
        BY <1>2, <1>4, <3>1
    <2>2. \A i \in 1..(n - 1) : b.nodes[i].start = 0
      <3> SUFFICES ASSUME NEW i \in 1..(n - 1) PROVE b.nodes[i].start = 0
        OBVIOUS
      <3>1. i \in 0..(n - 1) /\ (i + r < n => i + r \in (r + 1)..(n - 1))
        BY <1>2
      <3>2. CASE i + r < n
        BY <1>2, <1>4, <3>1, <3>2
      <3>3. CASE i + r >= n
        BY <1>4, <3>1, <3>3
      <3> QED
        BY <1>2, <3>2, <3>3
    <2>3. \A i \in ((w - r) + 1)..(n - 1) : b.nodes[i].end = 0
      <3> SUFFICES ASSUME NEW i \in ((w - r) + 1)..(n - 1) PROVE b.nodes[i].end = 0
        OBVIOUS
      <3>1. i \in 0..(n - 1) /\ (i + r < n => i + r \in (w + 1)..(n - 1))
        BY <1>2
      <3>2. CASE i + r < n
        BY <1>2, <1>4, <3>1, <3>2
      <3>3. CASE i + r >= n
        BY <1>4, <3>1, <3>3
      <3> QED
        BY <1>2, <3>1, <3>2, <3>3
    <2>4. b.readNode <= b.writeNode /\ b.writeNode < b.size
      BY <1>2, <1>3
    <2>5. /\ b.nodes[b.readNode].start <= b.nodes[b.readNode].end
          /\ b.nodes[b.writeNode].end < BufferNodeSize
      BY <1>2, <1>3, <1>5
    <2>6. b.readNode + 1 = 1
      BY <1>3
    <2> QED
      BY <1>3, <2>1, <2>2, <2>3, <2>4, <2>5, <2>6 DEF Extents
  <1>7. Counted(b)
    <2>1. w * BufferNodeSize = (w - r) * BufferNodeSize + r * BufferNodeSize
      BY <1>2
    <2>2. /\ StartOf(b) = 0 * BufferNodeSize + a.nodes[r].start
          /\ EndOf(b) = (w - r) * BufferNodeSize + a.nodes[w].end
      BY <1>3, <1>5 DEF StartOf, EndOf
    <2>3. /\ StartOf(a) = r * BufferNodeSize + a.nodes[r].start
          /\ EndOf(a) = w * BufferNodeSize + a.nodes[w].end
          /\ a.nodes[r].start \in Nat /\ a.nodes[w].end \in Nat
          /\ a.availableSizeToRead = EndOf(a) - StartOf(a)
          /\ a.availableSizeToWrite = n * BufferNodeSize - EndOf(a)
      BY PlacesAre DEF r, w, n
    <2>4. /\ r * BufferNodeSize \in Nat /\ w * BufferNodeSize \in Nat
          /\ n * BufferNodeSize \in Nat /\ (w - r) * BufferNodeSize \in Int
          /\ 0 * BufferNodeSize = 0
      BY <1>2
    <2>5. EndOf(b) = EndOf(a) - r * BufferNodeSize /\ StartOf(b) = StartOf(a) - r * BufferNodeSize
      BY <2>1, <2>2, <2>3, <2>4
    <2>6. EndOf(a) \in Nat /\ StartOf(a) \in Nat
      BY PlacesAre
    <2>7. b.availableSizeToRead = EndOf(b) - StartOf(b)
      BY <1>3, <2>3, <2>4, <2>5, <2>6
    <2>8. b.availableSizeToWrite = b.size * BufferNodeSize - EndOf(b)
      BY <1>3, <2>3, <2>4, <2>5, <2>6
    <2> QED
      BY <2>7, <2>8 DEF Counted
  <1> QED
    BY <1>3, <1>6, <1>7 DEF Shape, b, n

\* An array with more nodes.
Grown(b, n) ==
    [b EXCEPT !.size = n,
              !.nodes = [i \in 0..(n - 1) |-> IF i < b.size THEN b.nodes[i] ELSE EmptyNode],
              !.availableSizeToWrite = @ + (n - b.size) * BufferNodeSize]

\* What an allocation changes.
LEMMA GrownFields ==
  ASSUME NEW b, Typed(b), NEW n \in Nat, n > b.size
  PROVE  LET c == Grown(b, n)
         IN  /\ c.size = n /\ c.readNode = b.readNode /\ c.writeNode = b.writeNode
             /\ \A i \in 0..(n - 1) :
                   c.nodes[i] = IF i < b.size THEN b.nodes[i] ELSE EmptyNode
             /\ c.availableSizeToRead = b.availableSizeToRead
             /\ c.availableSizeToWrite =
                   b.availableSizeToWrite + (n - b.size) * BufferNodeSize
             /\ Typed(c)
  <1> DEFINE nodes == [i \in 0..(n - 1) |-> IF i < b.size THEN b.nodes[i] ELSE EmptyNode]
             write == b.availableSizeToWrite + (n - b.size) * BufferNodeSize
             c == Grown(b, n)
  <1>1. b \in ByteArrays /\ b.size \in Nat \ {0} /\ b.availableSizeToWrite \in Nat
        /\ \A i \in 0..(b.size - 1) : b.nodes[i] \in Node
    BY NodesAre DEF Typed
  <1>2. c = [b EXCEPT !.size = n, !.nodes = nodes, !.availableSizeToWrite = write]
    BY DEF Grown
  <1>3. ASSUME NEW i \in 0..(n - 1)
        PROVE  (IF i < b.size THEN b.nodes[i] ELSE EmptyNode) \in Node
    <2>1. CASE i < b.size
      <3>1. i \in 0..(b.size - 1)
        BY <1>1, <2>1
      <3> QED
        BY <1>1, <2>1, <3>1
    <2>2. CASE ~(i < b.size)
      BY <2>2, EmptyNodeIs
    <2> QED
      BY <2>1, <2>2
  <1>4. nodes \in [0..(n - 1) -> Node]
    BY <1>3
  <1>5. nodes \in NodeLists
    BY <1>4 DEF NodeLists
  <1>6. write \in Nat
    <2>1. n - b.size \in Nat /\ (n - b.size) * BufferNodeSize \in Nat
      BY <1>1
    <2> QED
      BY <1>1, <2>1
  <1>7. \A i \in 0..(n - 1) : nodes[i] = IF i < b.size THEN b.nodes[i] ELSE EmptyNode
    OBVIOUS
  <1> HIDE DEF nodes, write, c
  <1>8. c \in ByteArrays
    BY <1>1, <1>2, <1>5, <1>6 DEF ByteArrays
  <1>9. /\ c.nodes = nodes /\ c.availableSizeToWrite = write /\ c.size = n
        /\ c.readNode = b.readNode /\ c.writeNode = b.writeNode
        /\ c.availableSizeToRead = b.availableSizeToRead
    BY <1>1, <1>2 DEF ByteArrays
  <1>10. Typed(c)
    <2>1. n # 0
      BY <1>1
    <2> QED
      BY <1>4, <1>8, <1>9, <2>1 DEF Typed
  <1> QED
    BY <1>7, <1>9, <1>10 DEF write, c

\* An allocation keeps the shape.
LEMMA GrownShape ==
  ASSUME NEW b, Shape(b), NEW n \in Nat, n > b.size
  PROVE  Shape(Grown(b, n))
  <1> DEFINE c == Grown(b, n)
             r == b.readNode
             w == b.writeNode
             m == b.size
  <1>1. Typed(b) /\ Extents(b) /\ Counted(b)
    BY DEF Shape
  <1>2. /\ r \in Nat /\ w \in Nat /\ m \in Nat \ {0} /\ r <= w /\ w < m
        /\ b.nodes[w].end < BufferNodeSize
        /\ \A i \in r..(w - 1) : b.nodes[i].end = BufferNodeSize
        /\ \A i \in (r + 1)..(m - 1) : b.nodes[i].start = 0
        /\ \A i \in (w + 1)..(m - 1) : b.nodes[i].end = 0
        /\ b.nodes[r].start <= b.nodes[r].end
    BY <1>1, NodesAre DEF Extents
  <1>3. /\ c.size = n /\ c.readNode = r /\ c.writeNode = w
        /\ \A i \in 0..(n - 1) : c.nodes[i] = IF i < m THEN b.nodes[i] ELSE EmptyNode
        /\ c.availableSizeToRead = b.availableSizeToRead
        /\ c.availableSizeToWrite = b.availableSizeToWrite + (n - m) * BufferNodeSize
        /\ Typed(c)
    BY <1>1, <1>2, GrownFields
  <1>4. EmptyNode.start = 0 /\ EmptyNode.end = 0
    BY EmptyNodeIs
  <1>5. n > m
    OBVIOUS
  <1>6. /\ StartOf(b) = r * BufferNodeSize + b.nodes[r].start
        /\ EndOf(b) = w * BufferNodeSize + b.nodes[w].end
        /\ StartOf(b) \in Nat /\ EndOf(b) \in Nat
        /\ b.availableSizeToRead = EndOf(b) - StartOf(b)
        /\ b.availableSizeToWrite = m * BufferNodeSize - EndOf(b)
    BY PlacesAre
  <1> HIDE DEF c, r, w, m
  <1>7. c.nodes[r] = b.nodes[r] /\ c.nodes[w] = b.nodes[w]
    BY <1>2, <1>3, <1>5
  <1>8. Extents(c)
    <2>1. \A i \in r..(w - 1) : c.nodes[i].end = BufferNodeSize
      BY <1>2, <1>3, <1>5
    <2>2. \A i \in (r + 1)..(n - 1) : c.nodes[i].start = 0
      BY <1>2, <1>3, <1>4, <1>5
    <2>3. \A i \in (w + 1)..(n - 1) : c.nodes[i].end = 0
      BY <1>2, <1>3, <1>4, <1>5
    <2>4. c.readNode <= c.writeNode /\ c.writeNode < c.size
      BY <1>2, <1>3, <1>5
    <2> QED
      BY <1>2, <1>3, <1>7, <2>1, <2>2, <2>3, <2>4 DEF Extents
  <1>9. Counted(c)
    <2>1. StartOf(c) = StartOf(b) /\ EndOf(c) = EndOf(b)
      BY <1>3, <1>6, <1>7 DEF StartOf, EndOf
    <2>2. n * BufferNodeSize = m * BufferNodeSize + (n - m) * BufferNodeSize
      BY <1>2
    <2>3. n * BufferNodeSize \in Nat /\ m * BufferNodeSize \in Nat
          /\ (n - m) * BufferNodeSize \in Int
      BY <1>2
    <2> QED
      BY <1>3, <1>6, <2>1, <2>2, <2>3 DEF Counted
  <1> QED
    BY <1>3, <1>8, <1>9 DEF Shape, c

\* unlockedAllocIfNotEnough keeps the shape and makes room for one byte more
\* than was asked for.
LEMMA AllocShape ==
  ASSUME NEW a, Shape(a), NEW size \in Nat
  PROVE  /\ Shape(AllocIfNotEnough(a, size))
         /\ AllocIfNotEnough(a, size).availableSizeToWrite > size
         /\ AllocIfNotEnough(a, size).availableSizeToRead = a.availableSizeToRead
  <1> DEFINE b == MoveBufferHead(a)
             n == MoreNodes(b, size)
  <1>1. a.availableSizeToWrite \in Nat
    BY PlacesAre
  <1>2. Shape(b) /\ b.availableSizeToRead = a.availableSizeToRead
    BY MoveHeadShape
  <1>3. Typed(b) /\ b.availableSizeToWrite \in Nat /\ b.size \in Nat \ {0}
    BY <1>2, PlacesAre DEF Shape
  <1>4. n \in Nat /\ n > b.size /\ (n - b.size) * BufferNodeSize + b.availableSizeToWrite > size
    BY <1>3, MoreNodesIs
  <1>5. AllocIfNotEnough(a, size) =
            IF a.availableSizeToWrite > size THEN a
            ELSE IF b.availableSizeToWrite > size THEN b ELSE Grown(b, n)
    BY DEF AllocIfNotEnough, Grown
  <1> HIDE DEF b, n
  <1>6. Shape(Grown(b, n))
    BY <1>2, <1>4, GrownShape
  <1>7. /\ Grown(b, n).availableSizeToRead = b.availableSizeToRead
        /\ Grown(b, n).availableSizeToWrite =
              b.availableSizeToWrite + (n - b.size) * BufferNodeSize
    BY <1>3, <1>4, GrownFields
  <1>8. Grown(b, n).availableSizeToWrite > size
    <2>1. (n - b.size) * BufferNodeSize \in Int
      BY <1>3, <1>4
    <2> QED
      BY <1>3, <1>4, <1>7, <2>1
  <1>9. CASE a.availableSizeToWrite > size
    BY <1>5, <1>9
  <1>10. CASE ~(a.availableSizeToWrite > size) /\ b.availableSizeToWrite > size
    BY <1>2, <1>5, <1>10
  <1>11. CASE ~(a.availableSizeToWrite > size) /\ ~(b.availableSizeToWrite > size)
    BY <1>2, <1>5, <1>6, <1>7, <1>8, <1>11
  <1> QED
    BY <1>9, <1>10, <1>11

(***************************************************************************)
(* Shared nodes.                                                           *)
(***************************************************************************)
\* Replacing nodes keeps the fields and the bytes; the nodes replaced are not
\* shared any more and have kept their extents or are empty.
LEMMA CowNodesFields ==
  ASSUME NEW a, Typed(a), NEW visited
  PROVE  LET c == CowNodes(a, visited)
         IN  /\ Typed(c) /\ c.size = a.size
             /\ c.readNode = a.readNode /\ c.writeNode = a.writeNode
             /\ c.availableSizeToRead = a.availableSizeToRead
             /\ c.availableSizeToWrite = a.availableSizeToWrite
             /\ \A i \in 0..(a.size - 1) :
                   c.nodes[i] = IF i \in visited THEN Cow(a.nodes[i]) ELSE a.nodes[i]
  <1> DEFINE nodes == [i \in 0..(a.size - 1) |->
                          IF i \in visited THEN Cow(a.nodes[i]) ELSE a.nodes[i]]
             c == CowNodes(a, visited)
  <1>1. /\ a \in ByteArrays /\ a.size \in Nat \ {0}
        /\ \A i \in 0..(a.size - 1) : a.nodes[i] \in Node
    BY NodesAre DEF Typed
  <1>2. c = [a EXCEPT !.nodes = nodes]
    BY DEF CowNodes
  <1>3. ASSUME NEW i \in 0..(a.size - 1)
        PROVE  /\ nodes[i] = IF i \in visited THEN Cow(a.nodes[i]) ELSE a.nodes[i]
               /\ nodes[i] \in Node
    BY <1>1, CowIs
  <1>4. nodes \in [0..(a.size - 1) -> Node]
    BY <1>3
  <1>5. nodes \in NodeLists
    BY <1>1, <1>4 DEF NodeLists
  <1> HIDE DEF nodes, c
  <1>6. c \in ByteArrays
    BY <1>1, <1>2, <1>5 DEF ByteArrays
  <1>7. /\ c.nodes = nodes /\ c.size = a.size
        /\ c.readNode = a.readNode /\ c.writeNode = a.writeNode
        /\ c.availableSizeToRead = a.availableSizeToRead
        /\ c.availableSizeToWrite = a.availableSizeToWrite
    BY <1>1, <1>2 DEF ByteArrays
  <1>8. Typed(c)
    BY <1>1, <1>4, <1>6, <1>7 DEF Typed
  <1> QED
    BY <1>3, <1>7, <1>8 DEF c

\* If no node loses its extents, replacing nodes changes no extent and no byte.
LEMMA CowNodesIs ==
  ASSUME NEW a, Typed(a), NEW visited, ~LosesExtents(a, visited)
  PROVE  LET c == CowNodes(a, visited)
         IN  /\ Typed(c) /\ c.size = a.size
             /\ c.readNode = a.readNode /\ c.writeNode = a.writeNode
             /\ c.availableSizeToRead = a.availableSizeToRead
             /\ c.availableSizeToWrite = a.availableSizeToWrite
             /\ \A i \in 0..(a.size - 1) :
                   /\ c.nodes[i] = IF i \in visited THEN Cow(a.nodes[i]) ELSE a.nodes[i]
                   /\ c.nodes[i].start = a.nodes[i].start
                   /\ c.nodes[i].end = a.nodes[i].end
                   /\ c.nodes[i].buffer = a.nodes[i].buffer
  <1> DEFINE nodes == [i \in 0..(a.size - 1) |->
                          IF i \in visited THEN Cow(a.nodes[i]) ELSE a.nodes[i]]
             c == CowNodes(a, visited)
  <1>1. /\ a \in ByteArrays /\ a.size \in Nat \ {0}
        /\ \A i \in 0..(a.size - 1) : a.nodes[i] \in Node
    BY NodesAre DEF Typed
  <1>2. c = [a EXCEPT !.nodes = nodes]
    BY DEF CowNodes
  <1>3. ASSUME NEW i \in 0..(a.size - 1)
        PROVE  /\ nodes[i] = IF i \in visited THEN Cow(a.nodes[i]) ELSE a.nodes[i]
               /\ nodes[i] \in Node
               /\ nodes[i].start = a.nodes[i].start /\ nodes[i].end = a.nodes[i].end
               /\ nodes[i].buffer = a.nodes[i].buffer
    <2>1. CASE i \in visited
      <3>1. nodes[i] = Cow(a.nodes[i]) /\ a.nodes[i] \in Node
        BY <1>1, <2>1
      <3>2. \/ a.nodes[i].twin = NoTwin
            \/ a.nodes[i].start = 0 /\ a.nodes[i].end = 0
        BY <2>1 DEF LosesExtents
      <3> HIDE DEF nodes
      <3> QED
        BY <2>1, <3>1, <3>2, CowIs
    <2>2. CASE i \notin visited
      BY <1>1, <2>2
    <2> QED
      BY <2>1, <2>2
  <1>4. nodes \in [0..(a.size - 1) -> Node]
    BY <1>3
  <1>5. nodes \in NodeLists
    BY <1>1, <1>4 DEF NodeLists
  <1> HIDE DEF nodes, c
  <1>6. c \in ByteArrays
    BY <1>1, <1>2, <1>5 DEF ByteArrays
  <1>7. /\ c.nodes = nodes /\ c.size = a.size
        /\ c.readNode = a.readNode /\ c.writeNode = a.writeNode
        /\ c.availableSizeToRead = a.availableSizeToRead
        /\ c.availableSizeToWrite = a.availableSizeToWrite
    BY <1>1, <1>2 DEF ByteArrays
  <1>8. Typed(c)
    BY <1>1, <1>4, <1>6, <1>7 DEF Typed
  <1> QED
    BY <1>3, <1>7, <1>8 DEF c

\* The extents of a node that is visited and does not lose them.
LEMMA CowKeeps ==
  ASSUME NEW a, Typed(a), NEW visited, ~LosesExtents(a, visited),
         NEW i \in 0..(a.size - 1), i \in visited
  PROVE  Cow(a.nodes[i]).start = a.nodes[i].start /\ Cow(a.nodes[i]).end = a.nodes[i].end
  <1>1. a.nodes[i] \in Node
    BY NodesAre
  <1>2. \/ a.nodes[i].twin = NoTwin
        \/ a.nodes[i].start = 0 /\ a.nodes[i].end = 0
    BY DEF LosesExtents
  <1> QED
    BY <1>1, <1>2, CowIs

(***************************************************************************)
(* writeRaw.                                                               *)
(***************************************************************************)
\* Where the loop goes on in node i.
WritePlace(b, i) == IF i = b.writeNode THEN EndOf(b) ELSE i * BufferNodeSize

\* What is left goes beyond node i's place.
LEMMA WriteLeftIs ==
  ASSUME NEW b, Shape(b), NEW length \in Nat, ~LosesExtents(b, WriteVisits(b, length))
  PROVE  /\ \A i \in b.writeNode..(b.size - 1) :
               Room(b.nodes[i]) = BufferNodeSize - b.nodes[i].end
         /\ \A i \in b.writeNode..b.size :
               WriteLeft(b, length)[i] = Over(EndOf(b) + length, WritePlace(b, i))
  <1> DEFINE w == b.writeNode
             n == b.size
             cap == [i \in w..(n - 1) |-> Room(b.nodes[i])]
             p == [i \in w..n |-> WritePlace(b, i)]
             left == WriteLeft(b, length)
  <1>1. /\ Typed(b) /\ Extents(b)
        /\ w \in 0..(n - 1) /\ n \in Nat \ {0} /\ b.nodes[w].end < BufferNodeSize
        /\ EndOf(b) = w * BufferNodeSize + b.nodes[w].end /\ EndOf(b) \in Nat
        /\ b.nodes[w].end \in Nat
    BY PlacesAre DEF Shape
  <1>2. ASSUME NEW i \in w..(n - 1) PROVE Cow(b.nodes[i]).end = b.nodes[i].end
    <2>1. i \in 0..(n - 1) /\ b.nodes[i] \in Node
      BY <1>1, NodesAre
    <2>2. CASE i = w
      <3>1. w \in WriteVisits(b, length)
        BY <1>1 DEF WriteVisits, Visited
      <3> HIDE DEF w, n
      <3> QED
        BY <1>1, <2>1, <2>2, <3>1, CowKeeps DEF n
    <2>3. CASE i # w
      <3>1. b.nodes[i].end = 0
        BY <1>1, <2>3 DEF Extents
      <3> QED
        BY <2>1, <3>1, CowIs
    <2> QED
      BY <2>2, <2>3
  <1>3. ASSUME NEW i \in w..(n - 1)
        PROVE  /\ Room(b.nodes[i]) = BufferNodeSize - b.nodes[i].end
               /\ Room(b.nodes[i]) \in Nat
               /\ WritePlace(b, i) \in Nat /\ WritePlace(b, i + 1) \in Nat
               /\ Room(b.nodes[i]) = WritePlace(b, i + 1) - WritePlace(b, i)
    <2>1. i \in Nat /\ i \in 0..(n - 1) /\ b.nodes[i].end \in Nat
          /\ b.nodes[i].end <= BufferNodeSize
      BY <1>1, NodesAre
    <2>2. Room(b.nodes[i]) = BufferNodeSize - b.nodes[i].end /\ Room(b.nodes[i]) \in Nat
      BY <1>2, <2>1 DEF Room
    <2>3. WritePlace(b, i + 1) = i * BufferNodeSize + BufferNodeSize
      <3>1. i + 1 # w
        BY <1>1
      <3> QED
        BY <2>1, <3>1, TimesIs DEF WritePlace
    <2>4. i * BufferNodeSize \in Nat
      BY <2>1, TimesIs
    <2>5. CASE i = w
      <3>1. WritePlace(b, i) = EndOf(b)
        BY <2>5 DEF WritePlace
      <3> QED
        BY <1>1, <2>1, <2>2, <2>3, <2>4, <2>5, <3>1
    <2>6. CASE i # w
      <3>1. b.nodes[i].end = 0 /\ WritePlace(b, i) = i * BufferNodeSize
        BY <1>1, <2>6 DEF Extents, WritePlace
      <3>2. WritePlace(b, i) \in Nat /\ WritePlace(b, i + 1) \in Nat
        BY <2>3, <2>4, <3>1
      <3>3. WritePlace(b, i + 1) - WritePlace(b, i) = BufferNodeSize
        BY <2>3, <2>4, <3>1
      <3> QED
        BY <2>2, <3>1, <3>2, <3>3
    <2> QED
      BY <2>5, <2>6
  <1>4. cap \in [w..(n - 1) -> Nat] /\ \A i \in w..(n - 1) : cap[i] = Room(b.nodes[i])
    BY <1>3
  <1>5. p \in [w..n -> Nat] /\ \A i \in w..n : p[i] = WritePlace(b, i)
    <2>1. ASSUME NEW i \in w..n PROVE WritePlace(b, i) \in Nat
      <3>1. CASE i = w
        BY <1>1, <3>1 DEF WritePlace
      <3>2. CASE i # w
        <4>1. i \in Nat
          BY <1>1
        <4> QED
          BY <3>2, <4>1, TimesIs DEF WritePlace
      <3> QED
        BY <3>1, <3>2
    <2> QED
      BY <2>1
  <1>6. left = LeftOver(cap, w, n, length)
    BY DEF WriteLeft
  <1>7. p[w] = EndOf(b)
    BY <1>1, <1>5 DEF WritePlace
  <1> HIDE DEF cap, p, left, w, n
  <1>8. w \in Nat /\ n \in Nat /\ w <= n
    BY <1>1
  <1>9. Loop(left, cap, w, n, length)
    BY <1>4, <1>6, <1>8, LeftOverLoop
  <1>10. \A i \in w..(n - 1) : p[i] <= p[i + 1] /\ cap[i] = p[i + 1] - p[i]
    <2> SUFFICES ASSUME NEW i \in w..(n - 1) PROVE p[i] <= p[i + 1] /\ cap[i] = p[i + 1] - p[i]
      OBVIOUS
    <2>1. i \in w..n /\ i + 1 \in w..n
      BY <1>8
    <2>2. p[i] = WritePlace(b, i) /\ p[i + 1] = WritePlace(b, i + 1) /\ cap[i] = Room(b.nodes[i])
      BY <1>4, <1>5, <2>1
    <2>3. p[i] \in Nat /\ p[i + 1] \in Nat /\ cap[i] \in Nat
      BY <1>4, <1>5, <2>1
    <2>4. cap[i] = p[i + 1] - p[i]
      BY <1>3, <2>2
    <2> QED
      BY <2>3, <2>4
  <1>11. \A i \in w..n : left[i] = Over(p[w] + length, p[i])
    <2>1. \A i \in w..(n - 1) : p[i] <= p[i + 1]
      BY <1>10
    <2>2. \A i \in w..(n - 1) : left[i] > 0 => cap[i] = p[i + 1] - p[i]
      BY <1>10
    <2>3. Places(left, cap, p, w, n)
      BY <1>5, <2>1, <2>2 DEF Places
    <2>4. Beyond(left, p, w, n, length)
      BY <1>4, <1>8, <1>9, <2>3, LoopIs
    <2> QED
      BY <2>4 DEF Beyond
  <1>12. \A i \in w..n : left[i] = Over(EndOf(b) + length, WritePlace(b, i))
    BY <1>5, <1>7, <1>11
  <1> QED
    BY <1>3, <1>12 DEF left, w, n

\* What the loop puts into node i, and where it then ends.
Put(b, length, i) == Least(WriteLeft(b, length)[i], Room(b.nodes[i]))

\* A node takes what it has room for, and no more than is left.
LEMMA PutIs ==
  ASSUME NEW b, Shape(b), NEW length \in Nat, ~LosesExtents(b, WriteVisits(b, length)),
         NEW i \in b.writeNode..(b.size - 1)
  PROVE  LET target == EndOf(b) + length
         IN  /\ WriteLeft(b, length)[i] \in 0..length
             /\ Put(b, length, i) \in Nat /\ Put(b, length, i) <= WriteLeft(b, length)[i]
             /\ b.nodes[i].end + Put(b, length, i) =
                   IF target >= i * BufferNodeSize + BufferNodeSize THEN BufferNodeSize
                   ELSE IF target > i * BufferNodeSize THEN target - i * BufferNodeSize
                   ELSE 0
             /\ (WriteLeft(b, length)[i] > 0 /\ Put(b, length, i) = Room(b.nodes[i]))
                   <=> target >= i * BufferNodeSize + BufferNodeSize
  <1> DEFINE left == WriteLeft(b, length)[i]
             room == Room(b.nodes[i])
             e == b.nodes[i].end
             x == i * BufferNodeSize
             target == EndOf(b) + length
             put == Put(b, length, i)
  <1>1. /\ b.writeNode \in 0..(b.size - 1) /\ b.size \in Nat \ {0}
        /\ b.nodes[b.writeNode].end < BufferNodeSize
        /\ EndOf(b) = b.writeNode * BufferNodeSize + b.nodes[b.writeNode].end
        /\ EndOf(b) \in Nat /\ Typed(b) /\ Extents(b)
    BY PlacesAre DEF Shape
  <1>2. i \in Nat /\ i \in 0..(b.size - 1) /\ e \in Nat /\ e <= BufferNodeSize /\ x \in Nat
    BY <1>1, NodesAre, TimesIs
  <1>3. i \in b.writeNode..b.size
    BY <1>1
  <1>4. room = BufferNodeSize - e
    BY WriteLeftIs
  <1>6. \/ /\ e < BufferNodeSize /\ WritePlace(b, i) = x + e /\ EndOf(b) = x + e
        \/ e = 0 /\ WritePlace(b, i) = x /\ EndOf(b) <= x
    <2>1. CASE i = b.writeNode
      BY <1>1, <2>1 DEF WritePlace
    <2>2. CASE i # b.writeNode
      <3>1. e = 0
        BY <1>1, <2>2 DEF Extents
      <3>2. b.writeNode \in Nat /\ b.writeNode < i
        BY <1>1, <1>2, <2>2
      <3>3. b.writeNode * BufferNodeSize + BufferNodeSize <= x
            /\ b.writeNode * BufferNodeSize \in Nat
        BY <1>2, <3>2, TimesIs
      <3>4. b.nodes[b.writeNode].end \in Nat
        BY PlacesAre
      <3>5. EndOf(b) <= x
        BY <1>1, <1>2, <3>3, <3>4
      <3> QED
        BY <2>2, <3>1, <3>5 DEF WritePlace
    <2> QED
      BY <2>1, <2>2
  <1>5. left = Over(target, WritePlace(b, i))
    BY <1>3, WriteLeftIs
  <1>7. put = Least(left, room) /\ target \in Nat /\ target = EndOf(b) + length
    BY <1>1 DEF Put
  <1> HIDE DEF left, room, e, x, target, put
  <1>8. left \in 0..length /\ room \in Nat
    BY <1>1, <1>2, <1>4, <1>5, <1>6, <1>7 DEF Over
  <1>9. put \in Nat /\ put <= left /\ put <= room /\ (put = left \/ put = room)
    BY <1>7, <1>8 DEF Least
  <1> DEFINE Kept == e < BufferNodeSize /\ target >= x + e /\ left = target - x - e
             Fresh == e = 0 /\ left = IF target > x THEN target - x ELSE 0
  <1>12. Kept \/ Fresh
    BY <1>1, <1>2, <1>5, <1>6, <1>7 DEF Over
  <1>13. e \in Nat /\ x \in Nat /\ left \in Nat /\ room \in Nat /\ target \in Nat /\ put \in Nat
    BY <1>2, <1>7, <1>8, <1>9
  <1>10. e + put = IF target >= x + BufferNodeSize THEN BufferNodeSize
                   ELSE IF target > x THEN target - x ELSE 0
    <2>1. CASE Kept
      BY ONLY SizeIs, <1>4, <1>9, <1>13, <2>1
    <2>2. CASE Fresh
      BY ONLY SizeIs, <1>4, <1>9, <1>13, <2>2
    <2> QED
      BY <1>12, <2>1, <2>2
  <1>11. (left > 0 /\ put = room) <=> target >= x + BufferNodeSize
    <2>1. CASE Kept
      BY ONLY SizeIs, <1>4, <1>9, <1>13, <2>1
    <2>2. CASE Fresh
      BY ONLY SizeIs, <1>4, <1>9, <1>13, <2>2
    <2> QED
      BY <1>12, <2>1, <2>2
  <1> QED
    BY <1>8, <1>9, <1>10, <1>11 DEF left, room, e, x, target, put

BytesFrom(data, first, count) == \A k \in first..(first + count - 1) : data[k] \in Bytes

\* The byte at offset o when count bytes of data were put behind `end`.
ByteAt(content, end, data, first, count, o) ==
  IF o - end \in 0..(count - 1) THEN data[first + (o - end)] ELSE content[o]

\* A node that was written to holds what it held and the new bytes behind it.
LEMMA FilledIs ==
  ASSUME NEW node \in Node, NEW data, NEW first \in Nat, NEW count \in Nat,
         node.end + count <= BufferNodeSize, BytesFrom(data, first, count)
  PROVE  LET f == Filled(node, data, first, count)
         IN  /\ f \in Node /\ f.start = node.start /\ f.end = node.end + count
             /\ f.twin = node.twin
             /\ \A o \in Offsets :
                   f.buffer[o] = ByteAt(node.buffer, node.end, data, first, count, o)
  <1> DEFINE content == [o \in Offsets |->
                IF o - node.end \in 0..(count - 1) THEN data[first + (o - node.end)]
                ELSE node.buffer[o]]
  <1>1. /\ node.start \in Nat /\ node.start <= BufferNodeSize
        /\ node.end \in Nat /\ node.end <= BufferNodeSize
    BY NodeIs
  <1>2. node.buffer \in [Offsets -> Bytes] /\ node.twin \in NoTwin..(MaxNodes - 1)
    BY DEF Node
  <1>3. ASSUME NEW o \in Offsets, o - node.end \in 0..(count - 1)
        PROVE  data[first + (o - node.end)] \in Bytes
    <2>1. o \in Nat
      BY DEF Offsets
    <2>2. first + (o - node.end) \in first..(first + count - 1)
      BY <1>1, <1>3, <2>1
    <2> QED
      BY <2>2 DEF BytesFrom
  <1>4. content \in [Offsets -> Bytes]
    <2>1. ASSUME NEW o \in Offsets
          PROVE (IF o - node.end \in 0..(count - 1) THEN data[first + (o - node.end)]
                 ELSE node.buffer[o]) \in Bytes
      <3>1. CASE o - node.end \in 0..(count - 1)
        BY <1>3, <3>1
      <3>2. CASE ~(o - node.end \in 0..(count - 1))
        BY <1>2, <3>2
      <3> QED
        BY <3>1, <3>2
    <2> QED
      BY <2>1
  <1>5. Filled(node, data, first, count) =
          [start |-> node.start, end |-> node.end + count, buffer |-> content,
           twin |-> node.twin]
    BY DEF Filled
  <1>6. \A o \in Offsets : content[o] = ByteAt(node.buffer, node.end, data, first, count, o)
    BY DEF ByteAt
  <1> HIDE DEF content
  <1>7. node.end + count \in Nat
    BY <1>1
  <1>8. [start |-> node.start, end |-> node.end + count, buffer |-> content,
         twin |-> node.twin] \in Node
    BY <1>1, <1>2, <1>4, <1>7, NodeFields
  <1> QED
    BY <1>5, <1>6, <1>8

\* What the loop makes of node i.
Written(b, data, i) ==
  LET c == CowNodes(b, WriteVisits(b, Len(data)))
  IN  IF i < b.writeNode THEN c.nodes[i]
      ELSE Filled(c.nodes[i], data, Len(data) - WriteLeft(b, Len(data))[i] + 1,
                  Put(b, Len(data), i))

\* The bytes a write is called with.
DataOK(data) == Len(data) \in Nat /\ \A k \in 1..Len(data) : data[k] \in Bytes

\* What a write makes of a node, from the node's room.
LEMMA WrittenIs ==
  ASSUME NEW b, Shape(b), NEW data, DataOK(data),
         ~LosesExtents(b, WriteVisits(b, Len(data))), NEW i \in 0..(b.size - 1)
  PROVE  /\ Written(b, data, i) \in Node
         /\ Written(b, data, i).start = b.nodes[i].start
         /\ i < b.writeNode => /\ Written(b, data, i).end = b.nodes[i].end
                               /\ Written(b, data, i).buffer = b.nodes[i].buffer
         /\ i >= b.writeNode =>
               /\ Written(b, data, i).end = b.nodes[i].end + Put(b, Len(data), i)
               /\ \A o \in Offsets : Written(b, data, i).buffer[o] =
                    ByteAt(b.nodes[i].buffer, b.nodes[i].end, data,
                           Len(data) - WriteLeft(b, Len(data))[i] + 1,
                           Put(b, Len(data), i), o)
  <1> DEFINE c == CowNodes(b, WriteVisits(b, Len(data)))
             left == WriteLeft(b, Len(data))[i]
             first == Len(data) - left + 1
             count == Put(b, Len(data), i)
  <1>1. Typed(b) /\ Len(data) \in Nat /\ \A k \in 1..Len(data) : data[k] \in Bytes
    BY DEF Shape, DataOK
  <1>2. /\ Typed(c) /\ c.size = b.size
        /\ c.nodes[i].start = b.nodes[i].start /\ c.nodes[i].end = b.nodes[i].end
        /\ c.nodes[i].buffer = b.nodes[i].buffer
    BY <1>1, CowNodesIs
  <1>3. Written(b, data, i) = IF i < b.writeNode THEN c.nodes[i]
                              ELSE Filled(c.nodes[i], data, first, count)
    BY DEF Written
  <1> HIDE DEF c
  <1>4. c.nodes[i] \in Node
    BY <1>2, NodesAre
  <1>5. CASE i < b.writeNode
    <2>1. b.writeNode \in Nat /\ ~(i >= b.writeNode)
      BY <1>5, PlacesAre
    <2>2. Written(b, data, i) = c.nodes[i]
      BY <1>3, <1>5
    <2> QED
      BY <1>2, <1>4, <2>1, <2>2
  <1>6. CASE ~(i < b.writeNode)
    <2>1. i \in b.writeNode..(b.size - 1) /\ b.writeNode \in Nat /\ i >= b.writeNode
      BY <1>6, PlacesAre
    <2>2. left \in 0..Len(data) /\ count \in Nat /\ count <= left
      BY <1>1, <2>1, PutIs
    <2>3. b.nodes[i].end + count <= BufferNodeSize
      <3> DEFINE target == EndOf(b) + Len(data)
                 x == i * BufferNodeSize
                 sum == b.nodes[i].end + count
      <3>1. sum = IF target >= x + BufferNodeSize THEN BufferNodeSize
                  ELSE IF target > x THEN target - x ELSE 0
        BY <1>1, <2>1, PutIs
      <3>2. target \in Nat /\ x \in Nat
        BY <1>1, <2>1, PlacesAre, TimesIs
      <3> HIDE DEF target, x, sum
      <3>3. sum <= BufferNodeSize
        BY <3>1, <3>2
      <3> QED
        BY <3>3 DEF sum
    <2>4. first \in Nat /\ first + count - 1 <= Len(data) /\ first >= 1
      BY <1>1, <2>2
    <2> HIDE DEF left, first, count
    <2>5. BytesFrom(data, first, count)
      <3> SUFFICES ASSUME NEW k \in first..(first + count - 1) PROVE data[k] \in Bytes
        BY DEF BytesFrom
      <3>1. k \in 1..Len(data)
        BY <1>1, <2>2, <2>4
      <3> QED
        BY <1>1, <3>1
    <2>6. c.nodes[i].end + count <= BufferNodeSize
      BY <1>2, <2>3
    <2> DEFINE f == Filled(c.nodes[i], data, first, count)
    <2>7. /\ f \in Node /\ f.start = c.nodes[i].start /\ f.end = c.nodes[i].end + count
          /\ \A o \in Offsets : f.buffer[o] =
                 ByteAt(c.nodes[i].buffer, c.nodes[i].end, data, first, count, o)
      <3> DEFINE node == c.nodes[i]
      <3>1. node \in Node /\ node.end + count <= BufferNodeSize /\ node.end \in Nat
        BY <1>4, <2>6, NodeIs
      <3>2. first \in Nat /\ count \in Nat
        BY <2>2, <2>4
      <3> HIDE DEF node
      <3>3. /\ f = Filled(node, data, first, count)
            /\ c.nodes[i] = node
        BY DEF node
      <3> HIDE DEF f
      <3>4. f \in Node
        BY ONLY <3>1, <3>2, <3>3, <2>5, FilledIs
      <3>6. f.start = node.start
        BY ONLY <3>3 DEF Filled
      <3>7. f.end = node.end + count
        BY ONLY <3>3 DEF Filled
      <3>5. \A o \in Offsets :
               f.buffer[o] = ByteAt(node.buffer, node.end, data, first, count, o)
        BY ONLY <3>1, <3>2, <3>3, <2>5, FilledIs
      <3> QED
        BY <3>3, <3>4, <3>5, <3>6, <3>7
    <2>8. Written(b, data, i) = f
      BY <1>3, <1>6
    <2> HIDE DEF f
    <2>9. \A o \in Offsets : f.buffer[o] =
                 ByteAt(b.nodes[i].buffer, b.nodes[i].end, data, first, count, o)
      BY <1>2, <2>7
    <2>10. f.start = b.nodes[i].start /\ f.end = b.nodes[i].end + count
      BY <1>2, <2>7
    <2> QED
      BY <1>6, <2>7, <2>8, <2>9, <2>10 DEF left, first, count
  <1> QED
    BY <1>5, <1>6

\* The nodes the loop fills up.
FullNodes(b, length) ==
  {i \in b.writeNode..(b.size - 1) :
     WriteLeft(b, length)[i] > 0 /\ Put(b, length, i) = Room(b.nodes[i])}

\* The loop ends in the node where the written bytes end.
LEMMA WriteEnds ==
  ASSUME NEW b, Shape(b), NEW length \in Nat, length < b.availableSizeToWrite,
         ~LosesExtents(b, WriteVisits(b, length))
  PROVE  LET m == MoveOn(b.writeNode, Cardinality(FullNodes(b, length)), b.size)
         IN  /\ m \in b.writeNode..(b.size - 1)
             /\ m * BufferNodeSize <= EndOf(b) + length
             /\ EndOf(b) + length < m * BufferNodeSize + BufferNodeSize
             /\ WriteLeft(b, length)[b.size] = 0
  <1> DEFINE w == b.writeNode
             n == b.size
             target == EndOf(b) + length
             full == FullNodes(b, length)
             m == MoveOn(w, Cardinality(full), n)
  <1>1. /\ w \in Nat /\ n \in Nat \ {0} /\ w < n /\ w \in 0..(n - 1)
        /\ b.availableSizeToWrite = n * BufferNodeSize - EndOf(b)
        /\ EndOf(b) = w * BufferNodeSize + b.nodes[w].end /\ b.nodes[w].end \in Nat
        /\ EndOf(b) \in Nat
    BY PlacesAre
  <1>2. n * BufferNodeSize \in Nat /\ w * BufferNodeSize \in Nat
    BY <1>1, TimesIs
  <1>3. target \in Nat /\ target < n * BufferNodeSize /\ w * BufferNodeSize <= target
    BY <1>1, <1>2
  <1>4. ASSUME NEW i \in w..(n - 1)
        PROVE i \in full <=> target >= i * BufferNodeSize + BufferNodeSize
    BY PutIs DEF FullNodes
  <1>5. full \in SUBSET (w..(n - 1))
    BY DEF FullNodes
  <1>6. WriteLeft(b, length)[n] = 0
    <2>1. n \in w..n /\ WritePlace(b, n) = n * BufferNodeSize
      BY <1>1 DEF WritePlace
    <2>2. WriteLeft(b, length)[n] = Over(target, WritePlace(b, n))
      BY <2>1, WriteLeftIs
    <2> HIDE DEF target, n
    <2> QED
      BY <1>2, <1>3, <2>1, <2>2 DEF Over
  <1> HIDE DEF w, n, target, full
  <1>7. \A i \in full : w..i \subseteq full
    <2> SUFFICES ASSUME NEW i \in full, NEW j \in w..i PROVE j \in full
      OBVIOUS
    <2>1. i \in w..(n - 1) /\ j \in w..(n - 1) /\ i \in Nat /\ j \in Nat /\ j <= i
      BY <1>1, <1>5
    <2>2. j * BufferNodeSize <= i * BufferNodeSize /\ j * BufferNodeSize \in Nat
          /\ i * BufferNodeSize \in Nat
      BY <2>1, TimesIs
    <2>3. target >= i * BufferNodeSize + BufferNodeSize
      BY <1>4, <2>1
    <2>4. target >= j * BufferNodeSize + BufferNodeSize
      BY <1>3, <2>2, <2>3
    <2> QED
      BY <1>4, <2>1, <2>4
  <1>8. m \in w..(n - 1) /\ w..(m - 1) \subseteq full /\ (m \in full => m = n - 1)
    BY <1>1, <1>5, <1>7, MoveOnIs
  <1> HIDE DEF m
  <1>9. m \in Nat /\ m * BufferNodeSize \in Nat
        /\ (m + 1) * BufferNodeSize = m * BufferNodeSize + BufferNodeSize
    BY <1>1, <1>8, TimesIs
  <1>10. m \notin full
    <2> SUFFICES ASSUME m \in full PROVE FALSE
      OBVIOUS
    <2>1. m = n - 1 /\ m + 1 = n
      BY <1>1, <1>8
    <2>2. target >= n * BufferNodeSize
      BY <1>4, <1>8, <1>9, <2>1
    <2> QED
      BY <1>2, <1>3, <2>2
  <1>11. target < m * BufferNodeSize + BufferNodeSize
    BY <1>3, <1>4, <1>8, <1>9, <1>10
  <1>12. m * BufferNodeSize <= target
    <2>1. CASE m = w
      BY <1>3, <2>1
    <2>2. CASE m # w
      <3>1. m - 1 \in w..(m - 1) /\ m - 1 \in w..(n - 1) /\ m - 1 \in Nat
        BY <1>1, <1>8, <2>2
      <3>2. target >= (m - 1) * BufferNodeSize + BufferNodeSize
        BY <1>4, <1>8, <3>1
      <3>3. m * BufferNodeSize = (m - 1) * BufferNodeSize + BufferNodeSize
        BY <1>9
      <3> QED
        BY <3>2, <3>3
    <2> QED
      BY <2>1, <2>2
  <1> QED
    BY <1>6, <1>8, <1>11, <1>12 DEF w, n, target, full, m

\* What the loop changes.
LEMMA WriteLoopFields ==
  ASSUME NEW b, Shape(b), NEW data, DataOK(data), Len(data) < b.availableSizeToWrite,
         ~LosesExtents(b, WriteVisits(b, Len(data)))
  PROVE  LET d == WriteLoop(b, data)
         IN  /\ Typed(d) /\ d.size = b.size /\ d.readNode = b.readNode
             /\ d.writeNode =
                   MoveOn(b.writeNode, Cardinality(FullNodes(b, Len(data))), b.size)
             /\ d.availableSizeToRead = b.availableSizeToRead + Len(data)
             /\ d.availableSizeToWrite = b.availableSizeToWrite - Len(data)
             /\ \A i \in 0..(b.size - 1) : d.nodes[i] = Written(b, data, i)
  <1> DEFINE c == CowNodes(b, WriteVisits(b, Len(data)))
             length == Len(data)
             w == MoveOn(b.writeNode, Cardinality(FullNodes(b, length)), b.size)
             written == length - WriteLeft(b, length)[b.size]
             read == c.availableSizeToRead + written
             write == c.availableSizeToWrite - written
             nodes == [i \in 0..(b.size - 1) |-> Written(b, data, i)]
             d == WriteLoop(b, data)
  <1>1. Typed(b) /\ length \in Nat
    BY DEF Shape, DataOK
  <1>2. /\ Typed(c) /\ c.size = b.size /\ c.readNode = b.readNode
        /\ c.writeNode = b.writeNode
        /\ c.availableSizeToRead = b.availableSizeToRead
        /\ c.availableSizeToWrite = b.availableSizeToWrite
    BY <1>1, CowNodesIs
  <1>3. /\ b.size \in Nat \ {0} /\ b.availableSizeToRead \in Nat
        /\ b.availableSizeToWrite \in Nat /\ b.writeNode \in Nat
    BY <1>1, NodesAre
  <1>4. d = [c EXCEPT !.nodes = nodes, !.writeNode = w, !.availableSizeToRead = read,
                      !.availableSizeToWrite = write]
    <2>1. d = [c EXCEPT
              !.nodes = [i \in 0..(c.size - 1) |->
                  IF i < c.writeNode THEN c.nodes[i]
                  ELSE Filled(c.nodes[i], data, length - WriteLeft(b, length)[i] + 1,
                              Put(b, length, i))],
              !.writeNode = MoveOn(c.writeNode, Cardinality(FullNodes(b, length)), c.size),
              !.availableSizeToRead  = c.availableSizeToRead + written,
              !.availableSizeToWrite = c.availableSizeToWrite - written]
      BY DEF WriteLoop, Put, FullNodes
    <2>2. nodes = [i \in 0..(c.size - 1) |->
                  IF i < c.writeNode THEN c.nodes[i]
                  ELSE Filled(c.nodes[i], data, length - WriteLeft(b, length)[i] + 1,
                              Put(b, length, i))]
      BY <1>2 DEF Written
    <2> QED
      BY <1>2, <2>1, <2>2
  <1>5. WriteLeft(b, length)[b.size] = 0 /\ w \in b.writeNode..(b.size - 1)
    BY <1>1, WriteEnds
  <1>6. written = length
    BY <1>1, <1>5
  <1>7. /\ read = b.availableSizeToRead + length /\ write = b.availableSizeToWrite - length
        /\ read \in Nat /\ write \in Nat /\ w \in Nat
    BY <1>1, <1>2, <1>3, <1>5, <1>6
  <1>8. nodes \in [0..(b.size - 1) -> Node]
    BY WrittenIs
  <1>9. nodes \in NodeLists
    BY <1>3, <1>8 DEF NodeLists
  <1>10. c \in ByteArrays /\ c.size # 0
    BY <1>2 DEF Typed
  <1>11. \A i \in 0..(b.size - 1) : nodes[i] = Written(b, data, i)
    OBVIOUS
  <1> HIDE DEF c, w, written, read, write, nodes, d
  <1>12. d \in ByteArrays
    BY <1>4, <1>7, <1>9, <1>10 DEF ByteArrays
  <1>13. /\ d.nodes = nodes /\ d.availableSizeToWrite = write /\ d.writeNode = w
         /\ d.readNode = c.readNode /\ d.size = c.size /\ d.availableSizeToRead = read
    BY <1>4, <1>10 DEF ByteArrays
  <1>14. Typed(d)
    BY <1>2, <1>3, <1>8, <1>12, <1>13 DEF Typed
  <1> QED
    BY <1>2, <1>7, <1>11, <1>13, <1>14 DEF w, d

\* writeRaw's loop keeps the shape: the data lies behind what was readable.
LEMMA WriteLoopShape ==
  ASSUME NEW b, Shape(b), NEW data, DataOK(data), Len(data) < b.availableSizeToWrite,
         ~LosesExtents(b, WriteVisits(b, Len(data)))
  PROVE  LET d == WriteLoop(b, data)
         IN  /\ Shape(d) /\ d.size = b.size
             /\ d.availableSizeToRead = b.availableSizeToRead + Len(data)
             /\ StartOf(d) = StartOf(b) /\ EndOf(d) = EndOf(b) + Len(data)
  <1> DEFINE d == WriteLoop(b, data)
             length == Len(data)
             target == EndOf(b) + length
             r == b.readNode
             w == b.writeNode
             n == b.size
             m == MoveOn(w, Cardinality(FullNodes(b, length)), n)
             E(i) == d.nodes[i].end
  <1>1. length \in Nat /\ Extents(b) /\ Typed(b)
    BY DEF DataOK, Shape
  <1>2. /\ r \in Nat /\ w \in Nat /\ n \in Nat \ {0} /\ r <= w /\ w < n
        /\ \A i \in r..(w - 1) : b.nodes[i].end = BufferNodeSize
        /\ \A i \in (r + 1)..(n - 1) : b.nodes[i].start = 0
        /\ b.nodes[r].start <= b.nodes[r].end
    BY <1>1, NodesAre DEF Extents
  <1>3. /\ EndOf(b) \in Nat /\ StartOf(b) \in Nat
        /\ EndOf(b) = w * BufferNodeSize + b.nodes[w].end
        /\ StartOf(b) = r * BufferNodeSize + b.nodes[r].start
        /\ b.nodes[w].end \in Nat /\ b.nodes[r].start \in Nat
        /\ b.nodes[w].end < BufferNodeSize
        /\ b.availableSizeToRead = EndOf(b) - StartOf(b)
        /\ b.availableSizeToWrite = n * BufferNodeSize - EndOf(b)
        /\ b.availableSizeToRead \in Nat /\ b.availableSizeToWrite \in Nat
        /\ b.nodes[r].start <= BufferNodeSize
    BY PlacesAre
  <1>4. /\ Typed(d) /\ d.size = n /\ d.readNode = r /\ d.writeNode = m
        /\ d.availableSizeToRead = b.availableSizeToRead + length
        /\ d.availableSizeToWrite = b.availableSizeToWrite - length
        /\ \A i \in 0..(n - 1) : d.nodes[i] = Written(b, data, i)
    BY WriteLoopFields
  <1>5. /\ m \in w..(n - 1) /\ m * BufferNodeSize <= target
        /\ target < m * BufferNodeSize + BufferNodeSize
    BY <1>1, WriteEnds
  <1>6. target \in Nat
    BY <1>1, <1>3
  <1>7. ASSUME NEW i \in 0..(n - 1)
        PROVE  /\ d.nodes[i].start = b.nodes[i].start
               /\ i < w => E(i) = b.nodes[i].end
    BY <1>4, WrittenIs
  <1>8. ASSUME NEW i \in w..(n - 1)
        PROVE  E(i) = IF target >= i * BufferNodeSize + BufferNodeSize THEN BufferNodeSize
                      ELSE IF target > i * BufferNodeSize THEN target - i * BufferNodeSize
                      ELSE 0
    <2>1. i \in 0..(n - 1) /\ i >= w
      BY <1>2
    <2>2. d.nodes[i] = Written(b, data, i)
      BY <1>4, <2>1
    <2>3. E(i) = b.nodes[i].end + Put(b, length, i)
      BY <2>1, <2>2, WrittenIs
    <2> QED
      BY <1>1, <2>3, PutIs
  <1> HIDE DEF d, length, target, r, w, n, m, E
  <1>9. m \in Nat /\ m * BufferNodeSize \in Nat /\ m < n /\ w <= m
    BY <1>2, <1>5, TimesIs
  <1>10. E(m) = target - m * BufferNodeSize
    <2>1. m \in w..(n - 1)
      BY <1>5
    <2> QED
      BY <1>5, <1>6, <1>8, <1>9, <2>1
  <1>11. \A i \in r..(m - 1) : E(i) = BufferNodeSize
    <2> SUFFICES ASSUME NEW i \in r..(m - 1) PROVE E(i) = BufferNodeSize
      OBVIOUS
    <2>1. i \in Nat /\ i < m /\ i \in 0..(n - 1)
      BY <1>2, <1>9
    <2>2. CASE i < w
      BY <1>2, <1>7, <2>1, <2>2
    <2>3. CASE ~(i < w)
      <3>1. i \in w..(n - 1)
        BY <1>2, <2>1, <2>3
      <3>2. i * BufferNodeSize + BufferNodeSize <= m * BufferNodeSize
            /\ i * BufferNodeSize \in Nat
        BY <1>9, <2>1, TimesIs
      <3>3. target >= i * BufferNodeSize + BufferNodeSize
        BY <1>5, <1>6, <1>9, <3>2
      <3> QED
        BY <1>8, <3>1, <3>3
    <2> QED
      BY <2>2, <2>3
  <1>12. \A i \in (m + 1)..(n - 1) : E(i) = 0
    <2> SUFFICES ASSUME NEW i \in (m + 1)..(n - 1) PROVE E(i) = 0
      OBVIOUS
    <2>1. i \in Nat /\ m < i /\ i \in w..(n - 1)
      BY <1>2, <1>9
    <2>2. m * BufferNodeSize + BufferNodeSize <= i * BufferNodeSize
          /\ i * BufferNodeSize \in Nat
      BY <1>9, <2>1, TimesIs
    <2>3. target < i * BufferNodeSize
      BY <1>5, <1>6, <1>9, <2>2
    <2>4. ~(target >= i * BufferNodeSize + BufferNodeSize) /\ ~(target > i * BufferNodeSize)
      BY <1>6, <2>2, <2>3
    <2> QED
      BY <1>8, <2>1, <2>4
  <1>13. \A i \in (r + 1)..(n - 1) : d.nodes[i].start = 0
    <2> SUFFICES ASSUME NEW i \in (r + 1)..(n - 1) PROVE d.nodes[i].start = 0
      OBVIOUS
    <2>1. i \in 0..(n - 1)
      BY <1>2
    <2> QED
      BY <1>2, <1>7, <2>1
  <1>14. d.nodes[r].start = b.nodes[r].start /\ r \in 0..(n - 1)
    BY <1>2, <1>7
  <1>15. d.nodes[r].start <= E(r)
    <2>1. CASE r < m
      <3>1. r \in r..(m - 1)
        BY <1>2, <1>9, <2>1
      <3> QED
        BY <1>3, <1>11, <1>14, <3>1
    <2>2. CASE ~(r < m)
      <3>1. r = m /\ r = w
        BY <1>2, <1>9, <2>2
      <3>2. EndOf(b) = m * BufferNodeSize + b.nodes[w].end
        BY <1>3, <3>1
      <3>3. target = m * BufferNodeSize + b.nodes[w].end + length
        BY <1>1, <1>3, <1>9, <3>2 DEF target
      <3> DEFINE x == m * BufferNodeSize
                 e == b.nodes[w].end
                 s == b.nodes[r].start
      <3>4. /\ x \in Nat /\ e \in Nat /\ s \in Nat /\ target = x + e + length
            /\ E(m) = target - x /\ target \in Nat
        BY <1>3, <1>6, <1>9, <1>10, <3>3
      <3>5. s <= e
        BY <1>2, <3>1
      <3> HIDE DEF x, e, s
      <3>7. s <= E(m)
        BY <1>1, <3>4, <3>5
      <3>6. b.nodes[r].start <= E(m)
        BY <3>7 DEF s
      <3> QED
        BY <1>14, <3>1, <3>6
    <2> QED
      BY <2>1, <2>2
  <1>16. E(m) < BufferNodeSize
    BY <1>5, <1>6, <1>9, <1>10
  <1>17. Extents(d)
    BY <1>2, <1>4, <1>9, <1>11, <1>12, <1>13, <1>15, <1>16 DEF Extents, E
  <1>18. StartOf(d) = StartOf(b)
    BY <1>3, <1>4, <1>14 DEF StartOf
  <1>19. EndOf(d) = target
    <2>1. EndOf(d) = m * BufferNodeSize + E(m)
      BY <1>4 DEF EndOf, E
    <2> QED
      BY <1>6, <1>9, <1>10, <2>1
  <1>20. Counted(d)
    <2>1. n * BufferNodeSize \in Nat
      BY <1>2, TimesIs
    <2>2. target = EndOf(b) + length
      BY DEF target
    <2>3. d.availableSizeToRead = target - StartOf(d)
      BY <1>1, <1>3, <1>4, <1>18, <2>2
    <2>4. d.availableSizeToWrite = n * BufferNodeSize - target
      BY <1>1, <1>3, <1>4, <2>1, <2>2
    <2> QED
      BY <1>4, <1>19, <2>3, <2>4 DEF Counted
  <1> QED
    BY <1>4, <1>17, <1>18, <1>19, <1>20 DEF Shape, d, target, length, n

(***************************************************************************)
(* retrieveRaw.                                                            *)
(***************************************************************************)
\* Where the readable bytes of node i begin.
ReadPlace(a, i) ==
  IF i = a.readNode THEN StartOf(a)
  ELSE IF i > a.writeNode THEN EndOf(a) ELSE i * BufferNodeSize

\* The readable nodes go up to the write node, which is left out when it is
\* empty and not the read node.
LEMMA EndOfReadIs ==
  ASSUME NEW a, Shape(a)
  PROVE  /\ EndOfReadNode(a) \in Nat
         /\ a.readNode < EndOfReadNode(a) /\ EndOfReadNode(a) <= a.writeNode + 1
         /\ EndOfReadNode(a) <= a.size
         /\ EndOfReadNode(a) = a.writeNode + 1
            \/ /\ EndOfReadNode(a) = a.writeNode /\ a.writeNode > a.readNode
               /\ a.nodes[a.writeNode].end = 0
         /\ ReadPlace(a, EndOfReadNode(a)) = EndOf(a)
  <1>1. /\ a.readNode \in Nat /\ a.writeNode \in Nat /\ a.readNode <= a.writeNode
        /\ a.size \in Nat /\ a.writeNode < a.size
        /\ EndOf(a) = a.writeNode * BufferNodeSize + a.nodes[a.writeNode].end
        /\ a.writeNode * BufferNodeSize \in Nat
    BY PlacesAre, TimesIs
  <1>2. \/ EndOfReadNode(a) = a.writeNode + 1
        \/ /\ EndOfReadNode(a) = a.writeNode /\ a.writeNode > a.readNode
           /\ a.nodes[a.writeNode].end = 0
    BY <1>1 DEF EndOfReadNode
  <1> QED
    BY <1>1, <1>2 DEF ReadPlace

\* A readable node holds what lies between its place and the next one's.
LEMMA ReadPlaceIs ==
  ASSUME NEW a, Shape(a), NEW i \in a.readNode..(EndOfReadNode(a) - 1)
  PROVE  /\ i \in Nat /\ i <= a.writeNode /\ i \in 0..(a.size - 1)
         /\ ReadPlace(a, i) \in Nat /\ ReadPlace(a, i + 1) \in Nat
         /\ a.nodes[i].start \in Nat /\ a.nodes[i].end \in Nat
         /\ a.nodes[i].start <= a.nodes[i].end /\ a.nodes[i].end <= BufferNodeSize
         /\ ReadPlace(a, i) = i * BufferNodeSize + a.nodes[i].start
         /\ ReadPlace(a, i + 1) = i * BufferNodeSize + a.nodes[i].end
         /\ i < a.writeNode => a.nodes[i].end = BufferNodeSize
  <1> DEFINE r == a.readNode
             w == a.writeNode
             last == EndOfReadNode(a)
  <1>1. /\ Typed(a) /\ Extents(a) /\ last \in Nat /\ r < last /\ last <= w + 1
        /\ last <= a.size
    BY EndOfReadIs DEF Shape
  <1>2. /\ r \in Nat /\ w \in Nat /\ r <= w /\ a.size \in Nat /\ w < a.size
        /\ StartOf(a) = r * BufferNodeSize + a.nodes[r].start
        /\ EndOf(a) = w * BufferNodeSize + a.nodes[w].end
        /\ StartOf(a) \in Nat /\ EndOf(a) \in Nat
    BY PlacesAre
  <1>3. i \in Nat /\ i <= w /\ i \in 0..(a.size - 1) /\ i >= r
    BY <1>1, <1>2
  <1>4. /\ a.nodes[i].start \in Nat /\ a.nodes[i].end \in Nat
        /\ a.nodes[i].end <= BufferNodeSize
    BY <1>1, <1>3, NodesAre
  <1>5. /\ \A j \in r..(w - 1) : a.nodes[j].end = BufferNodeSize
        /\ \A j \in (r + 1)..(a.size - 1) : a.nodes[j].start = 0
        /\ a.nodes[r].start <= a.nodes[r].end
    BY <1>1 DEF Extents
  <1>6. i # r => a.nodes[i].start = 0
    BY <1>2, <1>3, <1>5
  <1>7. i < w => a.nodes[i].end = BufferNodeSize
    BY <1>2, <1>3, <1>5
  <1>8. a.nodes[i].start <= a.nodes[i].end
    BY <1>4, <1>5, <1>6
  <1>9. /\ i * BufferNodeSize \in Nat
        /\ (i + 1) * BufferNodeSize = i * BufferNodeSize + BufferNodeSize
    BY <1>3, TimesIs
  <1>10. ReadPlace(a, i) = i * BufferNodeSize + a.nodes[i].start
    <2>1. CASE i = r
      BY <1>2, <2>1 DEF ReadPlace
    <2>2. CASE i # r
      <3>1. a.nodes[i].start = 0 /\ ~(i > w)
        BY <1>2, <1>3, <1>6, <2>2
      <3> QED
        BY <1>9, <2>2, <3>1 DEF ReadPlace
    <2> QED
      BY <2>1, <2>2
  <1>11. ReadPlace(a, i + 1) = i * BufferNodeSize + a.nodes[i].end
    <2>1. i + 1 # r
      BY <1>2, <1>3
    <2>2. CASE i = w
      <3>1. i + 1 > w
        BY <1>2, <2>2
      <3> QED
        BY <1>2, <2>1, <2>2, <3>1 DEF ReadPlace
    <2>3. CASE i # w
      <3>1. ~(i + 1 > w) /\ a.nodes[i].end = BufferNodeSize
        BY <1>2, <1>3, <1>7, <2>3
      <3> QED
        BY <1>9, <2>1, <3>1 DEF ReadPlace
    <2> QED
      BY <2>2, <2>3
  <1> HIDE DEF r, w, last
  <1>12. ReadPlace(a, i) \in Nat /\ ReadPlace(a, i + 1) \in Nat
    BY <1>4, <1>9, <1>10, <1>11
  <1> QED
    BY <1>3, <1>4, <1>7, <1>8, <1>10, <1>11, <1>12 DEF w

\* What is left to retrieve when the loop comes to node i.
LEMMA RetrieveLeftIs ==
  ASSUME NEW a, Shape(a), NEW length \in Nat, ~LosesExtents(a, RetrieveVisits(a, length))
  PROVE  /\ \A i \in a.readNode..EndOfReadNode(a) :
               RetrieveLeft(a, length)[i] = Over(StartOf(a) + length, ReadPlace(a, i))
         /\ \A i \in a.readNode..(EndOfReadNode(a) - 1) :
               /\ Readable(a.nodes[i]) \in Nat
               /\ Readable(a.nodes[i]) <= a.nodes[i].end - a.nodes[i].start
               /\ RetrieveLeft(a, length)[i] > 0 \/ i = a.readNode =>
                     Readable(a.nodes[i]) = a.nodes[i].end - a.nodes[i].start
  <1> DEFINE r == a.readNode
             last == EndOfReadNode(a)
             cap == [i \in r..(last - 1) |-> Readable(a.nodes[i])]
             p == [i \in r..last |-> ReadPlace(a, i)]
             left == RetrieveLeft(a, length)
  <1>1. r \in Nat /\ last \in Nat /\ r < last /\ Typed(a) /\ last <= a.size /\ a.size \in Nat
    BY EndOfReadIs, PlacesAre DEF Shape
  <1>2. ASSUME NEW i \in r..(last - 1)
        PROVE  /\ Readable(a.nodes[i]) \in Nat
               /\ Readable(a.nodes[i]) <= a.nodes[i].end - a.nodes[i].start
    <2>1. /\ a.nodes[i].start \in Nat /\ a.nodes[i].end \in Nat
          /\ a.nodes[i].start <= a.nodes[i].end /\ i \in 0..(a.size - 1)
      BY ReadPlaceIs
    <2>2. a.nodes[i] \in Node
      BY <1>1, <2>1, NodesAre
    <2>3. \/ /\ Cow(a.nodes[i]).start = a.nodes[i].start
             /\ Cow(a.nodes[i]).end = a.nodes[i].end
          \/ Cow(a.nodes[i]).start = 0 /\ Cow(a.nodes[i]).end = 0
      BY <2>2, CowIs
    <2> QED
      BY <2>1, <2>3 DEF Readable
  <1>3. ASSUME NEW i \in r..(last - 1), left[i] > 0 \/ i = r
        PROVE  Readable(a.nodes[i]) = a.nodes[i].end - a.nodes[i].start
    <2>1. i \in 0..(a.size - 1)
      BY ReadPlaceIs
    <2>2. i \in RetrieveVisits(a, length)
      BY <1>3, <2>1 DEF RetrieveVisits, Visited
    <2>3. Cow(a.nodes[i]).start = a.nodes[i].start /\ Cow(a.nodes[i]).end = a.nodes[i].end
      BY <1>1, <2>1, <2>2, CowKeeps
    <2> QED
      BY <2>3 DEF Readable
  <1>4. cap \in [r..(last - 1) -> Nat] /\ \A i \in r..(last - 1) : cap[i] = Readable(a.nodes[i])
    BY <1>2
  <1>5. /\ p \in [r..last -> Nat]
        /\ \A i \in r..last : p[i] = ReadPlace(a, i)
        /\ \A i \in r..last : p[i] \in Nat
    <2>1. ASSUME NEW i \in r..last PROVE ReadPlace(a, i) \in Nat
      <3>1. CASE i = last
        <4>1. EndOf(a) \in Nat
          BY PlacesAre
        <4> QED
          BY <3>1, <4>1, EndOfReadIs
      <3>2. CASE i # last
        <4>1. i \in r..(last - 1)
          BY <1>1, <3>2
        <4> QED
          BY <4>1, ReadPlaceIs
      <3> QED
        BY <3>1, <3>2
    <2> QED
      BY <2>1
  <1>6. left = LeftOver(cap, r, last, length)
    BY DEF RetrieveLeft
  <1>7. p[r] = StartOf(a)
    BY <1>1, <1>5 DEF ReadPlace
  <1>8. ASSUME NEW i \in r..(last - 1)
        PROVE  p[i] <= p[i + 1] /\ a.nodes[i].end - a.nodes[i].start = p[i + 1] - p[i]
    <2>1. i \in r..last /\ i + 1 \in r..last
      BY <1>1
    <2>2. p[i] = ReadPlace(a, i) /\ p[i + 1] = ReadPlace(a, i + 1)
      BY <1>5, <2>1
    <2> HIDE DEF p
    <2>3. /\ p[i] = i * BufferNodeSize + a.nodes[i].start
          /\ p[i + 1] = i * BufferNodeSize + a.nodes[i].end
          /\ a.nodes[i].start \in Nat /\ a.nodes[i].end \in Nat
          /\ a.nodes[i].start <= a.nodes[i].end /\ i * BufferNodeSize \in Nat
      BY <2>2, ReadPlaceIs, TimesIs
    <2> QED
      BY <2>3
  <1> HIDE DEF cap, p, left, r, last
  <1>9. Loop(left, cap, r, last, length)
    <2>1. r <= last
      BY <1>1
    <2> QED
      BY <1>1, <1>4, <1>6, <2>1, LeftOverLoop
  <1>10. Places(left, cap, p, r, last)
    <2>1. \A i \in r..(last - 1) : p[i] <= p[i + 1]
      BY <1>8
    <2>2. ASSUME NEW i \in r..(last - 1), left[i] > 0 PROVE cap[i] = p[i + 1] - p[i]
      BY <1>3, <1>4, <1>8, <2>2
    <2> QED
      BY <1>5, <2>1, <2>2 DEF Places
  <1>11. Beyond(left, p, r, last, length)
    <2>1. r <= last
      BY <1>1
    <2> QED
      BY <1>1, <1>4, <1>9, <1>10, <2>1, LoopIs
  <1>12. \A i \in r..last : left[i] = Over(StartOf(a) + length, ReadPlace(a, i))
    BY <1>5, <1>7, <1>11 DEF Beyond
  <1> QED
    BY <1>2, <1>3, <1>12 DEF left, r, last

\* What the loop takes out of node i.
LEMMA TakenIs ==
  ASSUME NEW a, Shape(a), NEW length \in Nat, ~LosesExtents(a, RetrieveVisits(a, length)),
         NEW i \in a.readNode..(EndOfReadNode(a) - 1)
  PROVE  LET target == StartOf(a) + length
             left == RetrieveLeft(a, length)[i]
             start == a.nodes[i].start + Taken(a, length, i)
         IN  /\ Taken(a, length, i) \in Nat /\ start \in Nat /\ start <= a.nodes[i].end
             /\ left \in 0..length
             /\ target <= i * BufferNodeSize => start = a.nodes[i].start
             /\ (i = a.readNode \/ target >= i * BufferNodeSize)
                  /\ target <= i * BufferNodeSize + a.nodes[i].end
                => start = target - i * BufferNodeSize
             /\ (left > 0 /\ start = BufferNodeSize) <=>
                   /\ target > i * BufferNodeSize + a.nodes[i].start
                   /\ target >= i * BufferNodeSize + BufferNodeSize
                   /\ a.nodes[i].end = BufferNodeSize
  <1> DEFINE target == StartOf(a) + length
             left == RetrieveLeft(a, length)[i]
             taken == Taken(a, length, i)
             s == a.nodes[i].start
             e == a.nodes[i].end
             x == i * BufferNodeSize
             room == Readable(a.nodes[i])
             first == i = a.readNode
  <1>1. /\ i \in Nat /\ s \in Nat /\ e \in Nat /\ s <= e /\ e <= BufferNodeSize
        /\ ReadPlace(a, i) = x + s
    BY ReadPlaceIs
  <1>2. x \in Nat
    BY <1>1, TimesIs
  <1>3. StartOf(a) \in Nat /\ target \in Nat /\ target = StartOf(a) + length
    BY PlacesAre
  <1>4. i \in a.readNode..EndOfReadNode(a)
    BY <1>1, EndOfReadIs, PlacesAre
  <1>5. left = Over(target, ReadPlace(a, i))
    BY <1>4, RetrieveLeftIs
  <1>6. left = IF target > x + s THEN target - (x + s) ELSE 0
    BY <1>1, <1>5 DEF Over
  <1>7. room \in Nat /\ room <= e - s /\ (left > 0 \/ first => room = e - s)
    BY RetrieveLeftIs
  <1>8. taken = Least(left, room)
    BY DEF Taken
  <1>9. first => StartOf(a) = x + s
    BY PlacesAre
  <1>10. ~first => s = 0
    <2> SUFFICES ASSUME i # a.readNode PROVE a.nodes[i].start = 0
      OBVIOUS
    <2>1. i \in (a.readNode + 1)..(a.size - 1)
      BY ReadPlaceIs, PlacesAre
    <2> QED
      BY <2>1 DEF Shape, Extents
  <1>18. StartOf(a) <= x + s
    <2>1. CASE first
      BY <1>1, <1>2, <1>3, <1>9, <2>1
    <2>2. CASE ~first
      <3>4. a.readNode \in Nat
        BY PlacesAre
      <3>1. a.readNode \in Nat /\ a.readNode < i
        BY <1>1, <2>2, <3>4
      <3>2. a.readNode * BufferNodeSize + BufferNodeSize <= x
            /\ a.readNode * BufferNodeSize \in Nat
        BY <1>1, <3>1, TimesIs
      <3>3. /\ StartOf(a) = a.readNode * BufferNodeSize + a.nodes[a.readNode].start
            /\ a.nodes[a.readNode].start \in Nat
            /\ a.nodes[a.readNode].start <= BufferNodeSize
        BY PlacesAre
      <3> QED
        BY <1>1, <1>2, <1>3, <3>2, <3>3
    <2> QED
      BY <2>1, <2>2
  <1> HIDE DEF target, left, taken, s, e, x, room, first
  <1>11. left \in 0..length
    BY <1>1, <1>2, <1>3, <1>6, <1>18
  <1>12. taken \in Nat /\ s + taken \in Nat /\ s + taken <= e
    BY <1>1, <1>7, <1>8, <1>11 DEF Least
  <1>13. target <= x => s + taken = s
    BY <1>1, <1>2, <1>3, <1>6, <1>7, <1>8 DEF Least
  <1>14. ASSUME first \/ target >= x, target <= x + e PROVE s + taken = target - x
    <2>1. target >= x + s
      <3>1. CASE first
        BY <1>1, <1>2, <1>3, <1>9, <3>1
      <3>2. CASE ~first
        BY <1>2, <1>3, <1>10, <1>14, <3>2
      <3> QED
        BY <3>1, <3>2
    <2>2. left = target - (x + s)
      BY <1>1, <1>2, <1>3, <1>6, <2>1
    <2>3. CASE left > 0
      BY <1>1, <1>2, <1>3, <1>7, <1>8, <1>14, <2>2, <2>3 DEF Least
    <2>4. CASE left = 0
      BY <1>1, <1>2, <1>3, <1>7, <1>8, <2>2, <2>4 DEF Least
    <2> QED
      BY <1>11, <2>3, <2>4
  <1>15. (left > 0 /\ s + taken = BufferNodeSize) <=>
            target > x + s /\ target >= x + BufferNodeSize /\ e = BufferNodeSize
    <2>1. left > 0 <=> target > x + s
      BY <1>1, <1>2, <1>3, <1>6
    <2>2. CASE target > x + s
      <3>1. room = e - s /\ left = target - (x + s)
        BY <1>1, <1>2, <1>3, <1>6, <1>7, <2>1, <2>2
      <3> QED
        BY <1>1, <1>2, <1>3, <1>8, <2>1, <2>2, <3>1 DEF Least
    <2> QED
      BY <2>1, <2>2
  <1> QED
    BY <1>11, <1>12, <1>13, <1>14, <1>15 DEF target, left, taken, s, e, x, first

\* The nodes the loop leaves.
Emptied(a, length) ==
  {i \in a.readNode..(EndOfReadNode(a) - 1) :
     /\ RetrieveLeft(a, length)[i] > 0
     /\ a.nodes[i].start + Taken(a, length, i) = BufferNodeSize}

\* The loop ends in the node where the retrieved bytes end, and that is not
\* beyond the write node.
LEMMA RetrieveEnds ==
  ASSUME NEW a, Shape(a), NEW length \in Nat, length <= a.availableSizeToRead,
         ~LosesExtents(a, RetrieveVisits(a, length))
  PROVE  LET m == MoveOn(a.readNode, Cardinality(Emptied(a, length)), a.size)
             target == StartOf(a) + length
         IN  /\ m \in a.readNode..a.writeNode
             /\ m = a.readNode \/ m * BufferNodeSize <= target
             /\ target <= m * BufferNodeSize + BufferNodeSize
             /\ target <= EndOf(a)
             /\ RetrieveLeft(a, length)[EndOfReadNode(a)] = 0
  <1> DEFINE r == a.readNode
             w == a.writeNode
             n == a.size
             last == EndOfReadNode(a)
             target == StartOf(a) + length
             emptied == Emptied(a, length)
             m == MoveOn(r, Cardinality(emptied), n)
  <1>1. /\ r \in Nat /\ w \in Nat /\ n \in Nat \ {0} /\ r <= w /\ w < n
        /\ StartOf(a) \in Nat /\ EndOf(a) \in Nat
        /\ EndOf(a) = w * BufferNodeSize + a.nodes[w].end
        /\ StartOf(a) = r * BufferNodeSize + a.nodes[r].start
        /\ a.nodes[w].end \in Nat /\ a.nodes[w].end < BufferNodeSize
        /\ a.nodes[r].start \in Nat /\ a.nodes[r].start <= BufferNodeSize
        /\ a.availableSizeToRead = EndOf(a) - StartOf(a)
    BY PlacesAre
  <1>2. last \in Nat /\ r < last /\ last <= w + 1 /\ last <= n
    BY EndOfReadIs
  <1>18. last = w + 1 \/ last = w
    BY EndOfReadIs
  <1>3. target \in Nat /\ target <= EndOf(a)
    BY <1>1
  <1>4. RetrieveLeft(a, length)[last] = 0
    <2>1. last \in r..last
      BY <1>1, <1>2
    <2>2. RetrieveLeft(a, length)[last] = Over(target, ReadPlace(a, last))
      BY <2>1, RetrieveLeftIs
    <2>3. ReadPlace(a, last) = EndOf(a)
      BY EndOfReadIs
    <2> HIDE DEF target, last
    <2> QED
      BY <1>1, <1>3, <2>2, <2>3 DEF Over
  <1>5. emptied \in SUBSET (r..(last - 1))
    BY DEF Emptied
  <1>6. ASSUME NEW i \in r..(last - 1)
        PROVE  i \in emptied <=> /\ target > i * BufferNodeSize + a.nodes[i].start
                                 /\ target >= i * BufferNodeSize + BufferNodeSize
                                 /\ a.nodes[i].end = BufferNodeSize
    BY TakenIs DEF Emptied
  <1>7. ASSUME NEW i \in r..(last - 1)
        PROVE  /\ a.nodes[i].start \in Nat /\ a.nodes[i].start <= BufferNodeSize
               /\ i < w => a.nodes[i].end = BufferNodeSize
    <2>1. /\ a.nodes[i].start \in Nat /\ a.nodes[i].end \in Nat
          /\ a.nodes[i].start <= a.nodes[i].end /\ a.nodes[i].end <= BufferNodeSize
          /\ i < w => a.nodes[i].end = BufferNodeSize
      BY ReadPlaceIs
    <2> QED
      BY <2>1
  <1> HIDE DEF r, w, n, last, target, emptied
  <1>8. w \notin emptied
    <2> SUFFICES ASSUME w \in emptied PROVE FALSE
      OBVIOUS
    <2>1. w * BufferNodeSize \in Nat
      BY <1>1, TimesIs
    <2>2. target >= w * BufferNodeSize + BufferNodeSize
      BY <1>5, <1>6
    <2> QED
      BY <1>1, <1>3, <2>1, <2>2
  <1>9. \A i \in emptied : r..i \subseteq emptied
    <2> SUFFICES ASSUME NEW i \in emptied, NEW j \in r..i, j # i PROVE j \in emptied
      OBVIOUS
    <2>1. /\ i \in r..(last - 1) /\ j \in r..(last - 1) /\ i \in Nat /\ j \in Nat /\ j < i
          /\ j < w
      BY <1>1, <1>2, <1>5
    <2>2. j * BufferNodeSize + BufferNodeSize <= i * BufferNodeSize
          /\ i * BufferNodeSize \in Nat /\ j * BufferNodeSize \in Nat
      BY <2>1, TimesIs
    <2>3. target >= i * BufferNodeSize + BufferNodeSize
      BY <1>6, <2>1
    <2>4. a.nodes[j].start \in Nat /\ a.nodes[j].start <= BufferNodeSize
          /\ a.nodes[j].end = BufferNodeSize
      BY <1>7, <2>1
    <2>5. /\ target > j * BufferNodeSize + a.nodes[j].start
          /\ target >= j * BufferNodeSize + BufferNodeSize
      BY <1>3, <2>2, <2>3, <2>4
    <2> QED
      BY <1>6, <2>1, <2>4, <2>5
  <1>10. emptied \in SUBSET (r..(n - 1)) /\ r < n
    BY <1>1, <1>2, <1>5
  <1>11. m \in r..(n - 1) /\ r..(m - 1) \subseteq emptied /\ (m \in emptied => m = n - 1)
    BY <1>1, <1>9, <1>10, MoveOnIs
  <1> HIDE DEF m
  <1>12. m \in Nat /\ m <= w
    <2>1. ~(m > w)
      BY <1>1, <1>8, <1>11
    <2> QED
      BY <1>1, <1>11, <2>1
  <1>13. m \notin emptied
    BY <1>1, <1>8, <1>11, <1>12
  <1>14. m * BufferNodeSize \in Nat /\ w * BufferNodeSize \in Nat
    BY <1>1, <1>12, TimesIs
  <1>15. target <= m * BufferNodeSize + BufferNodeSize
    <2>1. CASE m = w
      BY <1>1, <1>3, <1>14, <2>1
    <2>2. CASE m # w
      <3>1. m < w /\ m \in r..(last - 1)
        BY <1>1, <1>2, <1>11, <1>12, <1>18, <2>2
      <3>2. /\ a.nodes[m].start \in Nat /\ a.nodes[m].start <= BufferNodeSize
            /\ a.nodes[m].end = BufferNodeSize
        BY <1>7, <3>1
      <3>3. \/ ~(target > m * BufferNodeSize + a.nodes[m].start)
            \/ ~(target >= m * BufferNodeSize + BufferNodeSize)
        BY <1>6, <1>13, <3>1, <3>2
      <3> QED
        BY <1>3, <1>14, <3>2, <3>3
    <2> QED
      BY <2>1, <2>2
  <1>16. m = r \/ m * BufferNodeSize <= target
    <2> SUFFICES ASSUME m # r PROVE m * BufferNodeSize <= target
      OBVIOUS
    <2>1. m - 1 \in r..(m - 1) /\ m - 1 \in r..(last - 1) /\ m - 1 \in Nat
      BY <1>1, <1>2, <1>5, <1>11, <1>12
    <2>2. target >= (m - 1) * BufferNodeSize + BufferNodeSize
      BY <1>6, <1>11, <2>1
    <2>3. m * BufferNodeSize = (m - 1) * BufferNodeSize + BufferNodeSize
      BY <1>12
    <2> QED
      BY <2>2, <2>3
  <1>17. m \in r..w
    BY <1>1, <1>11, <1>12
  <1> QED
    BY <1>3, <1>4, <1>15, <1>16, <1>17 DEF r, w, n, last, target, emptied, m

\* What the loop makes of node i.
Rest(a, length, i) ==
  LET c == CowNodes(a, RetrieveVisits(a, length))
  IN  IF i \in a.readNode..(EndOfReadNode(a) - 1)
      THEN [c.nodes[i] EXCEPT !.start = @ + Taken(a, length, i)]
      ELSE c.nodes[i]

\* What a retrieve leaves of a node: only its start moves.
LEMMA RestIs ==
  ASSUME NEW a, Shape(a), NEW length \in Nat, ~LosesExtents(a, RetrieveVisits(a, length)),
         NEW i \in 0..(a.size - 1)
  PROVE  /\ Rest(a, length, i) \in Node
         /\ Rest(a, length, i).end = a.nodes[i].end
         /\ Rest(a, length, i).buffer = a.nodes[i].buffer
         /\ Rest(a, length, i).start =
               IF i \in a.readNode..(EndOfReadNode(a) - 1)
               THEN a.nodes[i].start + Taken(a, length, i) ELSE a.nodes[i].start
  <1> DEFINE c == CowNodes(a, RetrieveVisits(a, length))
             node == c.nodes[i]
             s == node.start + Taken(a, length, i)
  <1>1. /\ Typed(c) /\ c.size = a.size /\ node.start = a.nodes[i].start
        /\ node.end = a.nodes[i].end /\ node.buffer = a.nodes[i].buffer
    BY CowNodesIs DEF Shape
  <1>2. node \in Node
    BY <1>1, NodesAre
  <1>3. CASE i \in a.readNode..(EndOfReadNode(a) - 1)
    <2>1. Rest(a, length, i) = [node EXCEPT !.start = s]
      BY <1>3 DEF Rest
    <2>2. /\ a.nodes[i].start + Taken(a, length, i) \in Nat
          /\ a.nodes[i].start + Taken(a, length, i) <= a.nodes[i].end
      BY <1>3, TakenIs
    <2>3. s = a.nodes[i].start + Taken(a, length, i)
      BY <1>1
    <2>4. s \in 0..BufferNodeSize
      <3>1. node.end \in Nat /\ node.end <= BufferNodeSize
        BY <1>2, NodeIs
      <3> QED
        BY <1>1, <2>2, <2>3, <3>1
    <2> HIDE DEF node, s
    <2>5. [node EXCEPT !.start = s] \in Node
      BY <1>2, <2>4 DEF Node
    <2>6. /\ [node EXCEPT !.start = s].start = s
          /\ [node EXCEPT !.start = s].end = node.end
          /\ [node EXCEPT !.start = s].buffer = node.buffer
      BY <1>2 DEF Node
    <2> QED
      BY <1>1, <1>3, <2>1, <2>3, <2>5, <2>6
  <1>4. CASE i \notin a.readNode..(EndOfReadNode(a) - 1)
    <2>1. Rest(a, length, i) = node
      BY <1>4 DEF Rest
    <2> HIDE DEF node
    <2> QED
      BY <1>1, <1>2, <1>4, <2>1
  <1> QED
    BY <1>3, <1>4

\* What retrieveRaw changes.
LEMMA RetrieveFields ==
  ASSUME NEW a, Shape(a), NEW length \in Nat, length <= a.availableSizeToRead,
         ~LosesExtents(a, RetrieveVisits(a, length))
  PROVE  LET d == RetrieveRaw(a, length)
         IN  /\ Typed(d) /\ d.size = a.size /\ d.writeNode = a.writeNode
             /\ d.readNode =
                   MoveOn(a.readNode, Cardinality(Emptied(a, length)), a.size)
             /\ d.availableSizeToRead = a.availableSizeToRead - length
             /\ d.availableSizeToWrite = a.availableSizeToWrite
             /\ \A i \in 0..(a.size - 1) : d.nodes[i] = Rest(a, length, i)
  <1> DEFINE c == CowNodes(a, RetrieveVisits(a, length))
             last == EndOfReadNode(a)
             emptied == {i \in a.readNode..(last - 1) :
                           /\ RetrieveLeft(a, length)[i] > 0
                           /\ c.nodes[i].start + Taken(a, length, i) = BufferNodeSize}
             next == MoveOn(a.readNode, Cardinality(emptied), a.size)
             m == MoveOn(a.readNode, Cardinality(Emptied(a, length)), a.size)
             w == IF next > c.writeNode THEN next ELSE c.writeNode
             read == c.availableSizeToRead - (length - RetrieveLeft(a, length)[last])
             nodes == [i \in 0..(a.size - 1) |-> Rest(a, length, i)]
             d == RetrieveRaw(a, length)
  <1>1. Typed(a)
    BY DEF Shape
  <1>2. /\ Typed(c) /\ c.size = a.size /\ c.readNode = a.readNode
        /\ c.writeNode = a.writeNode
        /\ c.availableSizeToRead = a.availableSizeToRead
        /\ c.availableSizeToWrite = a.availableSizeToWrite
        /\ \A i \in 0..(a.size - 1) : c.nodes[i].start = a.nodes[i].start
    BY <1>1, CowNodesIs
  <1>3. /\ a.size \in Nat \ {0} /\ a.availableSizeToRead \in Nat
        /\ a.readNode \in Nat /\ a.writeNode \in Nat
    BY <1>1, NodesAre
  <1>4. d = [c EXCEPT !.nodes = nodes, !.readNode = next, !.writeNode = w,
                      !.availableSizeToRead = read]
    <2>1. d = [c EXCEPT
              !.nodes = [i \in 0..(c.size - 1) |->
                  IF i \in c.readNode..(last - 1)
                  THEN [c.nodes[i] EXCEPT !.start = @ + Taken(a, length, i)]
                  ELSE c.nodes[i]],
              !.readNode = next,
              !.writeNode = IF next > c.writeNode THEN next ELSE c.writeNode,
              !.availableSizeToRead =
                  c.availableSizeToRead - (length - RetrieveLeft(a, length)[last])]
      BY DEF RetrieveRaw
    <2>2. nodes = [i \in 0..(c.size - 1) |->
                  IF i \in c.readNode..(last - 1)
                  THEN [c.nodes[i] EXCEPT !.start = @ + Taken(a, length, i)]
                  ELSE c.nodes[i]]
      BY <1>2 DEF Rest
    <2> QED
      BY <2>1, <2>2
  <1>5. emptied = Emptied(a, length)
    <2>1. \A i \in a.readNode..(last - 1) : i \in 0..(a.size - 1)
      BY ReadPlaceIs
    <2> QED
      BY <1>2, <2>1 DEF Emptied
  <1>6. next = m
    BY <1>5
  <1>7. RetrieveLeft(a, length)[last] = 0 /\ m \in a.readNode..a.writeNode
    BY RetrieveEnds
  <1>8. nodes \in [0..(a.size - 1) -> Node]
    BY RestIs
  <1>9. nodes \in NodeLists
    BY <1>3, <1>8 DEF NodeLists
  <1>10. c \in ByteArrays /\ c.size # 0
    BY <1>2 DEF Typed
  <1>11. \A i \in 0..(a.size - 1) : nodes[i] = Rest(a, length, i)
    OBVIOUS
  <1> HIDE DEF emptied, m, next
  <1>12. next \in Nat /\ w = a.writeNode /\ w \in Nat
    BY <1>2, <1>3, <1>6, <1>7
  <1>13. read = a.availableSizeToRead - length /\ read \in Nat
    BY <1>2, <1>3, <1>7
  <1> HIDE DEF c, w, read, nodes, d
  <1>14. d \in ByteArrays
    BY <1>4, <1>9, <1>10, <1>12, <1>13 DEF ByteArrays
  <1>15. /\ d.nodes = nodes /\ d.availableSizeToWrite = c.availableSizeToWrite
         /\ d.writeNode = w /\ d.readNode = next /\ d.size = c.size
         /\ d.availableSizeToRead = read
    BY <1>4, <1>10 DEF ByteArrays
  <1>16. Typed(d)
    BY <1>2, <1>3, <1>8, <1>14, <1>15 DEF Typed
  <1> QED
    BY <1>2, <1>6, <1>11, <1>12, <1>13, <1>15, <1>16 DEF m, d

\* retrieveRaw keeps the shape, and what is readable begins length bytes later.
LEMMA RetrieveShape ==
  ASSUME NEW a, Shape(a), NEW length \in Nat, length <= a.availableSizeToRead,
         ~LosesExtents(a, RetrieveVisits(a, length))
  PROVE  LET d == RetrieveRaw(a, length)
         IN  /\ Shape(d) /\ d.size = a.size
             /\ d.availableSizeToRead = a.availableSizeToRead - length
             /\ StartOf(d) = StartOf(a) + length /\ EndOf(d) = EndOf(a)
  <1> DEFINE d == RetrieveRaw(a, length)
             r == a.readNode
             w == a.writeNode
             n == a.size
             last == EndOfReadNode(a)
             target == StartOf(a) + length
             m == MoveOn(r, Cardinality(Emptied(a, length)), n)
             S(i) == d.nodes[i].start
             T(i) == Taken(a, length, i)
  <1>1. Typed(a) /\ Extents(a)
    BY DEF Shape
  <1>2. /\ r \in Nat /\ w \in Nat /\ n \in Nat \ {0} /\ r <= w /\ w < n
        /\ \A i \in r..(w - 1) : a.nodes[i].end = BufferNodeSize
        /\ \A i \in (r + 1)..(n - 1) : a.nodes[i].start = 0
        /\ \A i \in (w + 1)..(n - 1) : a.nodes[i].end = 0
        /\ a.nodes[w].end < BufferNodeSize
    BY <1>1, NodesAre DEF Extents
  <1>3. /\ EndOf(a) \in Nat /\ StartOf(a) \in Nat
        /\ EndOf(a) = w * BufferNodeSize + a.nodes[w].end
        /\ a.nodes[w].end \in Nat
        /\ a.availableSizeToRead = EndOf(a) - StartOf(a)
        /\ a.availableSizeToWrite = n * BufferNodeSize - EndOf(a)
        /\ a.availableSizeToRead \in Nat
    BY PlacesAre
  <1>4. /\ Typed(d) /\ d.size = n /\ d.readNode = m /\ d.writeNode = w
        /\ d.availableSizeToRead = a.availableSizeToRead - length
        /\ d.availableSizeToWrite = a.availableSizeToWrite
        /\ \A i \in 0..(n - 1) : d.nodes[i] = Rest(a, length, i)
    BY RetrieveFields
  <1>5. /\ m \in r..w /\ (m = r \/ m * BufferNodeSize <= target)
        /\ target <= m * BufferNodeSize + BufferNodeSize /\ target <= EndOf(a)
    BY RetrieveEnds
  <1>6. target \in Nat
    BY <1>3
  <1>7. ASSUME NEW i \in 0..(n - 1)
        PROVE  /\ d.nodes[i].end = a.nodes[i].end
               /\ S(i) = IF i \in r..(last - 1) THEN a.nodes[i].start + T(i)
                         ELSE a.nodes[i].start
    BY <1>4, RestIs
  <1>8. ASSUME NEW i \in r..(last - 1)
        PROVE  /\ a.nodes[i].start + T(i) \in Nat
               /\ a.nodes[i].start + T(i) <= a.nodes[i].end
               /\ target <= i * BufferNodeSize => a.nodes[i].start + T(i) = a.nodes[i].start
               /\ i = r \/ target >= i * BufferNodeSize =>
                     (target <= i * BufferNodeSize + a.nodes[i].end =>
                        a.nodes[i].start + T(i) = target - i * BufferNodeSize)
    BY TakenIs
  <1>9. /\ last \in Nat /\ r < last /\ last <= w + 1
        /\ last = w + 1 \/ (last = w /\ w > r /\ a.nodes[w].end = 0)
    BY EndOfReadIs
  <1> HIDE DEF d, r, w, n, last, target, m, S, T
  <1>10. m \in Nat /\ m <= w /\ r <= m /\ m \in 0..(n - 1) /\ m * BufferNodeSize \in Nat
         /\ w * BufferNodeSize \in Nat
    <2>1. m \in Nat /\ m <= w /\ r <= m /\ m \in 0..(n - 1)
      BY <1>2, <1>5
    <2> QED
      BY <1>2, <2>1, TimesIs
  <1>11. \A i \in (m + 1)..(n - 1) : S(i) = 0
    <2> SUFFICES ASSUME NEW i \in (m + 1)..(n - 1) PROVE S(i) = 0
      OBVIOUS
    <2>1. i \in Nat /\ m < i /\ i \in (r + 1)..(n - 1) /\ i \in 0..(n - 1)
      BY <1>2, <1>10
    <2>2. a.nodes[i].start = 0
      BY <1>2, <2>1
    <2>3. CASE i \in r..(last - 1)
      <3>1. m * BufferNodeSize + BufferNodeSize <= i * BufferNodeSize
            /\ i * BufferNodeSize \in Nat
        BY <1>10, <2>1, TimesIs
      <3>2. target <= i * BufferNodeSize
        BY <1>5, <1>6, <1>10, <3>1
      <3> QED
        BY <1>7, <1>8, <2>1, <2>2, <2>3, <3>2
    <2>4. CASE i \notin r..(last - 1)
      BY <1>7, <2>1, <2>2, <2>4
    <2> QED
      BY <2>3, <2>4
  <1>12. S(m) = target - m * BufferNodeSize /\ S(m) <= a.nodes[m].end
    <2>1. CASE m \in r..(last - 1)
      <3>1. target <= m * BufferNodeSize + a.nodes[m].end
        <4>1. CASE m = w
          BY <1>3, <1>5, <4>1
        <4>2. CASE m # w
          <5>1. m \in r..(w - 1)
            BY <1>2, <1>10, <4>2
          <5>2. a.nodes[m].end = BufferNodeSize
            BY <1>2, <5>1
          <5> QED
            BY <1>5, <5>2
        <4> QED
          BY <4>1, <4>2
      <3>2. m = r \/ target >= m * BufferNodeSize
        BY <1>5, <1>6, <1>10
      <3>3. a.nodes[m].start + T(m) = target - m * BufferNodeSize
            /\ a.nodes[m].start + T(m) <= a.nodes[m].end
        BY <1>8, <2>1, <3>1, <3>2
      <3> QED
        BY <1>7, <1>10, <2>1, <3>3
    <2>2. CASE m \notin r..(last - 1)
      <3>1. m = w /\ m > r /\ a.nodes[w].end = 0
        BY <1>2, <1>9, <1>10, <2>2
      <3>2. m \in (r + 1)..(n - 1)
        BY <1>2, <1>10, <3>1
      <3>3. S(m) = 0
        BY <1>2, <1>7, <1>10, <2>2, <3>2
      <3>4. target >= m * BufferNodeSize
        BY <1>2, <1>5, <1>6, <1>10, <3>1
      <3>5. EndOf(a) = m * BufferNodeSize
        BY <1>3, <1>10, <3>1
      <3>6. target = m * BufferNodeSize
        BY <1>5, <1>6, <1>10, <3>4, <3>5
      <3> QED
        BY <1>10, <3>1, <3>3, <3>6
    <2> QED
      BY <2>1, <2>2
  <1>13. Extents(d)
    <2>1. \A i \in m..(w - 1) : d.nodes[i].end = BufferNodeSize
      BY <1>2, <1>7, <1>10
    <2>2. \A i \in (w + 1)..(n - 1) : d.nodes[i].end = 0
      BY <1>2, <1>7
    <2>3. d.nodes[w].end = a.nodes[w].end /\ d.nodes[m].end = a.nodes[m].end
      BY <1>2, <1>7, <1>10
    <2> QED
      BY <1>2, <1>4, <1>10, <1>11, <1>12, <2>1, <2>2, <2>3 DEF Extents, S
  <1>14. StartOf(d) = target
    <2>1. StartOf(d) = m * BufferNodeSize + S(m)
      BY <1>4 DEF StartOf, S
    <2> QED
      BY <1>6, <1>10, <1>12, <2>1
  <1>15. EndOf(d) = EndOf(a)
    <2>1. d.nodes[w].end = a.nodes[w].end
      BY <1>2, <1>7
    <2> QED
      BY <1>3, <1>4, <2>1 DEF EndOf
  <1>16. Counted(d)
    <2>1. target = StartOf(a) + length
      BY DEF target
    <2> QED
      BY <1>3, <1>4, <1>14, <1>15, <2>1 DEF Counted
  <1> QED
    BY <1>4, <1>13, <1>14, <1>15, <1>16 DEF Shape, d, n, target

\* A retrieve of what is there returns as much as was asked for.
LEMMA RetrievedLength ==
  ASSUME NEW a, Shape(a), NEW length \in Nat, length <= a.availableSizeToRead,
         ~LosesExtents(a, RetrieveVisits(a, length))
  PROVE  Len(Retrieved(a, length)) = length
  <1>1. RetrieveLeft(a, length)[EndOfReadNode(a)] = 0
    BY RetrieveEnds
  <1>2. length - RetrieveLeft(a, length)[EndOfReadNode(a)] = length
    BY <1>1
  <1> QED
    BY <1>2 DEF Retrieved

(***************************************************************************)
(* Transfers.                                                              *)
(***************************************************************************)
\* f is the sum of the capacities c before i.
Summed(f, c, from, to) ==
  f = [i \in from..to |-> IF i = from THEN 0 ELSE f[i - 1] + c[i - 1]]

\* There is such a sum.
LEMMA SumExists ==
  ASSUME NEW from \in Nat, NEW to \in Nat, from <= to, NEW c \in [from..(to - 1) -> Nat]
  PROVE  \E f \in [from..to -> Nat] : Summed(f, c, from, to)
  <1> DEFINE step == [i \in from..(to - 1) |-> [x \in Nat |-> x + c[i]]]
  <1>1. step \in [from..(to - 1) -> [Nat -> Nat]]
    OBVIOUS
  <1>2. \A i \in from..(to - 1) : \A x \in Nat : step[i][x] = x + c[i]
    OBVIOUS
  <1> HIDE DEF step
  <1>3. PICK f \in [from..to -> Nat] : Computed(f, step, from, to, 0)
    <2>1. 0 \in Nat
      OBVIOUS
    <2> QED
      BY <1>1, <2>1, RecursionExists
  <1>4. ASSUME NEW i \in from..to, i # from
        PROVE  step[i - 1][f[i - 1]] = f[i - 1] + c[i - 1]
    <2>1. i - 1 \in from..(to - 1) /\ i - 1 \in from..to
      BY <1>4
    <2>2. f[i - 1] \in Nat
      BY <2>1
    <2> QED
      BY <1>2, <2>1, <2>2
  <1>5. Summed(f, c, from, to)
    BY <1>3, <1>4 DEF Summed, Computed
  <1> QED
    BY <1>5

\* Node i holds what lies between the places p[i] and p[i + 1].
Between(c, p, from, to) == \A i \in from..(to - 1) : c[i] = p[i + 1] - p[i]

\* The sum goes from the first place to the last one.
LEMMA SumIs ==
  ASSUME NEW from \in Nat, NEW to \in Nat, from <= to, NEW c, NEW f,
         Summed(f, c, from, to), NEW p \in [from..to -> Nat],
         Between(c, p, from, to)
  PROVE  f[to] = p[to] - p[from]
  <1> DEFINE S == {i \in from..to : f[i] = p[i] - p[from]}
  <1>1. from \in S
    <2>1. from \in from..to /\ p[from] \in Nat /\ f[from] = 0
      BY DEF Summed
    <2> QED
      BY <2>1
  <1>2. ASSUME NEW i \in from..to, i \in S, i < to PROVE i + 1 \in S
    <2>1. i \in from..(to - 1) /\ i + 1 \in from..to /\ i + 1 # from /\ (i + 1) - 1 = i
      BY <1>2
    <2>2. f[i + 1] = f[i] + c[i]
      BY <2>1 DEF Summed
    <2>3. p[i] \in Nat /\ p[i + 1] \in Nat /\ p[from] \in Nat
      BY <2>1
    <2>4. f[i] = p[i] - p[from] /\ c[i] = p[i + 1] - p[i]
      BY <1>2, <2>1 DEF Between
    <2>5. f[i + 1] = p[i + 1] - p[from]
      BY <2>2, <2>3, <2>4
    <2> QED
      BY <2>1, <2>5
  <1>3. from..to \subseteq S
    <2> HIDE DEF S
    <2> QED
      BY <1>1, <1>2, IntervalInduction
  <1>4. to \in from..to
    OBVIOUS
  <1> QED
    BY <1>3, <1>4

\* The reader visits the nodes from the read node to the write node.
LEMMA ReaderVisitsAre ==
  ASSUME NEW a, Shape(a), NEW i \in a.readNode..a.writeNode
  PROVE  i \in ReaderVisits(a)
  <1>1. /\ a.readNode \in Nat /\ a.writeNode \in Nat /\ a.size \in Nat
        /\ a.writeNode < a.size
    BY PlacesAre
  <1>2. EndOfReadNode(a) \in Nat /\ a.readNode < EndOfReadNode(a)
        /\ (EndOfReadNode(a) = a.writeNode + 1 \/ EndOfReadNode(a) = a.writeNode)
    BY EndOfReadIs
  <1>3. i \in 0..(a.size - 1)
    BY <1>1
  <1>4. i \in a.readNode..(EndOfReadNode(a) - 1) \/ i - 1 \in a.readNode..(EndOfReadNode(a) - 1)
    BY <1>1, <1>2
  <1> QED
    BY <1>3, <1>4 DEF ReaderVisits, Visited

\* The iovecs cover what is readable.
LEMMA IovBytesIs ==
  ASSUME NEW a, Shape(a), ~LosesExtents(a, ReaderVisits(a))
  PROVE  IovBytes(a) = a.availableSizeToRead
  <1> DEFINE r == a.readNode
             last == EndOfReadNode(a)
             cap == [i \in r..(last - 1) |-> Readable(a.nodes[i])]
             p == [i \in r..last |-> ReadPlace(a, i)]
             sum == CHOOSE f : Summed(f, cap, r, last)
  <1>1. /\ r \in Nat /\ last \in Nat /\ r < last /\ Typed(a)
        /\ last <= a.writeNode + 1 /\ a.writeNode \in Nat
    BY EndOfReadIs, PlacesAre DEF Shape
  <1>2. ASSUME NEW i \in r..(last - 1)
        PROVE  /\ Readable(a.nodes[i]) = ReadPlace(a, i + 1) - ReadPlace(a, i)
               /\ Readable(a.nodes[i]) \in Nat
               /\ ReadPlace(a, i + 1) \in Nat /\ ReadPlace(a, i) \in Nat
    <2>1. /\ i \in Nat /\ i \in 0..(a.size - 1)
          /\ ReadPlace(a, i) = i * BufferNodeSize + a.nodes[i].start
          /\ ReadPlace(a, i + 1) = i * BufferNodeSize + a.nodes[i].end
          /\ ReadPlace(a, i + 1) \in Nat /\ ReadPlace(a, i) \in Nat
          /\ a.nodes[i].start \in Nat /\ a.nodes[i].end \in Nat
          /\ a.nodes[i].start <= a.nodes[i].end
      BY ReadPlaceIs
    <2>2. i \in ReaderVisits(a)
      <3>1. i \in r..a.writeNode
        BY <1>1
      <3> QED
        BY <3>1, ReaderVisitsAre
    <2>3. Cow(a.nodes[i]).start = a.nodes[i].start /\ Cow(a.nodes[i]).end = a.nodes[i].end
      BY <1>1, <2>1, <2>2, CowKeeps
    <2>4. Readable(a.nodes[i]) = a.nodes[i].end - a.nodes[i].start
      BY <2>3 DEF Readable
    <2>5. i * BufferNodeSize \in Nat
      BY <2>1, TimesIs
    <2> QED
      BY <2>1, <2>4, <2>5
  <1>3. ASSUME NEW i \in r..last PROVE ReadPlace(a, i) \in Nat
    <2>1. CASE i = last
      BY <2>1, EndOfReadIs, PlacesAre
    <2>2. CASE i # last
      <3>1. i \in r..(last - 1)
        BY <1>1, <2>2
      <3> QED
        BY <1>2, <3>1
    <2> QED
      BY <2>1, <2>2
  <1>4. IovBytes(a) = sum[last]
    <2>1. ASSUME NEW f
          PROVE  Summed(f, cap, r, last) <=>
                   f = [i \in r..last |-> IF i = r THEN 0
                                          ELSE f[i - 1] + Readable(a.nodes[i - 1])]
      <3>1. ASSUME NEW i \in r..last, i # r PROVE cap[i - 1] = Readable(a.nodes[i - 1])
        <4>1. i - 1 \in r..(last - 1)
          BY <1>1, <3>1
        <4> QED
          BY <4>1
      <3> HIDE DEF cap
      <3> QED
        BY <3>1 DEF Summed
    <2>2. sum = CHOOSE f : f = [i \in r..last |-> IF i = r THEN 0
                                          ELSE f[i - 1] + Readable(a.nodes[i - 1])]
      BY <2>1
    <2> QED
      BY <2>2 DEF IovBytes
  <1>5. cap \in [r..(last - 1) -> Nat] /\ \A i \in r..(last - 1) : cap[i] = Readable(a.nodes[i])
    BY <1>2
  <1>6. p \in [r..last -> Nat] /\ \A i \in r..last : p[i] = ReadPlace(a, i)
    BY <1>3
  <1> HIDE DEF cap, p
  <1>7. r <= last
    BY <1>1
  <1>8. Summed(sum, cap, r, last)
    <2>1. \E f \in [r..last -> Nat] : Summed(f, cap, r, last)
      BY <1>1, <1>5, <1>7, SumExists
    <2> QED
      BY <2>1
  <1> HIDE DEF sum
  <1>9. Between(cap, p, r, last)
    <2> SUFFICES ASSUME NEW i \in r..(last - 1) PROVE cap[i] = p[i + 1] - p[i]
      BY DEF Between
    <2>1. i \in r..last /\ i + 1 \in r..last
      BY <1>1
    <2> QED
      BY <1>2, <1>5, <1>6, <2>1
  <1> HIDE DEF r, last
  <1>10. sum[last] = p[last] - p[r]
    BY <1>1, <1>6, <1>7, <1>8, <1>9, SumIs
  <1>11. p[last] = EndOf(a) /\ p[r] = StartOf(a)
    <2>1. last \in r..last /\ r \in r..last
      BY <1>1
    <2>2. ReadPlace(a, last) = EndOf(a) /\ ReadPlace(a, r) = StartOf(a)
      BY EndOfReadIs DEF ReadPlace, r, last
    <2> QED
      BY <1>6, <2>1, <2>2
  <1>12. a.availableSizeToRead = EndOf(a) - StartOf(a)
    BY PlacesAre
  <1> QED
    BY <1>4, <1>10, <1>11, <1>12

\* Where the read node's start is after a transfer.
AdvancedStart(a, size) ==
  LET node == a.nodes[AdjustedReadNode(a, size)]
  IN  IF size >= a.availableSizeToRead THEN node.end ELSE node.start + (size % BufferNodeSize)

\* What a transfer changes before the head move.
LEMMA AdvancedFields ==
  ASSUME NEW a, Shape(a), NEW size \in Nat, ~LosesExtents(a, ReaderVisits(a)),
         AdjustedReadNode(a, size) \in a.readNode..a.writeNode
  PROVE  LET d == Advanced(a, size)
             n == AdjustedReadNode(a, size)
         IN  /\ d.size = a.size /\ d.readNode = n /\ d.writeNode = a.writeNode
             /\ d.availableSizeToRead = IF size >= a.availableSizeToRead THEN 0
                                        ELSE a.availableSizeToRead - size
             /\ d.availableSizeToWrite = a.availableSizeToWrite
             /\ \A i \in 0..(a.size - 1) :
                   /\ d.nodes[i].start = IF i = n THEN AdvancedStart(a, size)
                                         ELSE a.nodes[i].start
                   /\ d.nodes[i].end = a.nodes[i].end
                   /\ d.nodes[i].buffer = a.nodes[i].buffer
             /\ a.nodes[n].start \in Nat /\ a.nodes[n].end \in Nat
             /\ AdvancedStart(a, size) \in 0..BufferNodeSize => Typed(d)
  <1> DEFINE n == AdjustedReadNode(a, size)
             visits == ReaderVisits(a) \cup {n}
             c == CowNodes(a, visits)
             v == AdvancedStart(a, size)
             node == [c.nodes[n] EXCEPT !.start = v]
             nodes == [c.nodes EXCEPT ![n] = node]
             read == IF size >= a.availableSizeToRead THEN 0
                     ELSE a.availableSizeToRead - size
             d == Advanced(a, size)
  <1>1. /\ Typed(a) /\ a.readNode \in Nat /\ a.writeNode \in Nat /\ a.size \in Nat \ {0}
        /\ a.writeNode < a.size /\ a.availableSizeToRead \in Nat
    BY PlacesAre DEF Shape
  <1>2. n \in Nat /\ n \in 0..(a.size - 1) /\ n \in ReaderVisits(a)
    BY <1>1, ReaderVisitsAre
  <1>3. ~LosesExtents(a, visits)
    BY <1>2 DEF LosesExtents
  <1>4. /\ Typed(c) /\ c.size = a.size
        /\ c.readNode = a.readNode /\ c.writeNode = a.writeNode
        /\ c.availableSizeToRead = a.availableSizeToRead
        /\ c.availableSizeToWrite = a.availableSizeToWrite
        /\ \A i \in 0..(a.size - 1) :
              /\ c.nodes[i].start = a.nodes[i].start
              /\ c.nodes[i].end = a.nodes[i].end
              /\ c.nodes[i].buffer = a.nodes[i].buffer
    <2> HIDE DEF visits
    <2> QED
      BY <1>1, <1>3, CowNodesIs
  <1>5. /\ c \in ByteArrays /\ c.nodes \in [0..(a.size - 1) -> Node]
        /\ \A i \in 0..(a.size - 1) : c.nodes[i] \in Node
    BY <1>4 DEF Typed
  <1>6. d = [c EXCEPT !.readNode = n, !.availableSizeToRead = read, !.nodes = nodes]
    <2>1. CASE size >= a.availableSizeToRead
      <3>1. d = [c EXCEPT !.readNode = n, !.availableSizeToRead = 0,
                          !.nodes[n].start = c.nodes[n].end]
        BY <2>1 DEF Advanced
      <3>2. v = c.nodes[n].end /\ read = 0
        BY <1>2, <1>4, <2>1 DEF AdvancedStart
      <3> HIDE DEF c, n, v, read
      <3> QED
        BY <3>1, <3>2
    <2>2. CASE ~(size >= a.availableSizeToRead)
      <3>1. d = [c EXCEPT !.readNode = n,
                          !.availableSizeToRead = c.availableSizeToRead - size,
                          !.nodes[n].start = c.nodes[n].start + (size % BufferNodeSize)]
        BY <2>2 DEF Advanced
      <3>2. v = c.nodes[n].start + (size % BufferNodeSize)
        BY <1>2, <1>4, <2>2 DEF AdvancedStart
      <3>3. read = c.availableSizeToRead - size
        BY <1>4, <2>2
      <3> HIDE DEF c, n, v, read
      <3> QED
        BY <3>1, <3>2, <3>3
    <2> QED
      BY <2>1, <2>2
  <1>7. read \in Nat
    BY <1>1
  <1>8. a.nodes[n].start \in Nat /\ a.nodes[n].end \in Nat
    BY <1>1, <1>2, NodesAre
  <1> HIDE DEF n, c, v, read, d
  <1>9. /\ node.start = v /\ node.end = c.nodes[n].end /\ node.buffer = c.nodes[n].buffer
        /\ v \in 0..BufferNodeSize => node \in Node
    <2>1. c.nodes[n] \in Node
      BY <1>2, <1>5
    <2> QED
      BY <2>1 DEF Node
  <1> HIDE DEF node
  <1>10. \A i \in 0..(a.size - 1) : nodes[i] = IF i = n THEN node ELSE c.nodes[i]
    BY <1>5
  <1>11. v \in 0..BufferNodeSize => nodes \in [0..(a.size - 1) -> Node]
    BY <1>5, <1>9
  <1>12. v \in 0..BufferNodeSize => nodes \in NodeLists
    BY <1>1, <1>11 DEF NodeLists
  <1> HIDE DEF nodes
  <1>13. /\ d.nodes = nodes /\ d.readNode = n /\ d.availableSizeToRead = read
         /\ d.size = c.size /\ d.writeNode = c.writeNode
         /\ d.availableSizeToWrite = c.availableSizeToWrite
    BY <1>5, <1>6 DEF ByteArrays
  <1>14. v \in 0..BufferNodeSize => d \in ByteArrays
    BY <1>2, <1>5, <1>6, <1>7, <1>12 DEF ByteArrays
  <1>15. v \in 0..BufferNodeSize => Typed(d)
    BY <1>1, <1>4, <1>11, <1>13, <1>14 DEF Typed
  <1>16. ASSUME NEW i \in 0..(a.size - 1)
         PROVE  /\ d.nodes[i].start = IF i = n THEN v ELSE a.nodes[i].start
                /\ d.nodes[i].end = a.nodes[i].end
                /\ d.nodes[i].buffer = a.nodes[i].buffer
    <2>1. CASE i = n
      BY <1>4, <1>9, <1>10, <1>13, <2>1
    <2>2. CASE i # n
      BY <1>4, <1>10, <1>13, <2>2
    <2> QED
      BY <2>1, <2>2
  <1>17. /\ d.size = a.size /\ d.readNode = n /\ d.writeNode = a.writeNode
         /\ d.availableSizeToRead = read
         /\ d.availableSizeToWrite = a.availableSizeToWrite
    BY <1>4, <1>13
  <1> QED
    BY <1>8, <1>15, <1>16, <1>17 DEF n, v, read, d

\* Quotient and remainder of a number of bytes.
LEMMA SizeDivided ==
  ASSUME NEW size \in Nat
  PROVE  /\ size \div BufferNodeSize \in Nat /\ size % BufferNodeSize \in Nat
         /\ size % BufferNodeSize < BufferNodeSize
         /\ size = (size \div BufferNodeSize) * BufferNodeSize + (size % BufferNodeSize)
         /\ size < BufferNodeSize <=> size \div BufferNodeSize = 0
  <1> DEFINE q == size \div BufferNodeSize
             rem == size % BufferNodeSize
  <1>1. /\ q \in Int /\ rem \in 0..(BufferNodeSize - 1)
    OBVIOUS
  <1>2. size = BufferNodeSize * q + rem
    OBVIOUS
  <1>3. BufferNodeSize * q = q * BufferNodeSize
    BY <1>1
  <1> HIDE DEF q, rem
  <1>4. q \in Nat
    <2> SUFFICES ASSUME q < 0 PROVE FALSE
      BY <1>1
    <2>1. 0 - (q + 1) \in Nat
      BY <1>1
    <2>2. (0 - (q + 1)) * BufferNodeSize \in Nat
      BY <2>1, TimesIs
    <2>3. (0 - (q + 1)) * BufferNodeSize = 0 - q * BufferNodeSize - BufferNodeSize
      BY <1>1
    <2>4. q * BufferNodeSize \in Int
      BY <1>1
    <2> QED
      BY <1>1, <1>2, <1>3, <2>2, <2>3, <2>4
  <1>5. q # 0 => size >= BufferNodeSize
    <2> SUFFICES ASSUME q # 0 PROVE size >= BufferNodeSize
      OBVIOUS
    <2>1. 0 \in Nat /\ 0 < q
      BY <1>4
    <2>2. 0 * BufferNodeSize + BufferNodeSize <= q * BufferNodeSize
          /\ q * BufferNodeSize \in Nat
      BY <1>4, <2>1, TimesIs
    <2>3. 0 * BufferNodeSize = 0
      OBVIOUS
    <2> QED
      BY <1>1, <1>2, <1>3, <2>2, <2>3
  <1>6. q = 0 => size < BufferNodeSize
    <2> SUFFICES ASSUME q = 0 PROVE size < BufferNodeSize
      OBVIOUS
    <2>1. q * BufferNodeSize = 0
      OBVIOUS
    <2> QED
      BY <1>1, <1>2, <1>3, <2>1
  <1> QED
    BY <1>1, <1>2, <1>3, <1>4, <1>5, <1>6 DEF q, rem

\* The read node after a transfer of less than there is.
LEMMA AdjustedIs ==
  ASSUME NEW a, Shape(a), NEW size \in Nat, size < a.availableSizeToRead
  PROVE  LET n == AdjustedReadNode(a, size)
             q == size \div BufferNodeSize
             rem == size % BufferNodeSize
         IN  /\ n \in Nat /\ n >= a.readNode
             /\ q = 0 => n = a.readNode /\ rem = size
             /\ q # 0 /\ rem = 0 =>
                  /\ n > a.readNode
                  /\ n * BufferNodeSize = a.readNode * BufferNodeSize + size
             /\ q # 0 /\ rem # 0 =>
                  /\ n > a.readNode
                  /\ n * BufferNodeSize + rem =
                        a.readNode * BufferNodeSize + BufferNodeSize + size
  <1> DEFINE r == a.readNode
             n == AdjustedReadNode(a, size)
             q == size \div BufferNodeSize
             rem == size % BufferNodeSize
  <1>1. r \in Nat /\ a.availableSizeToRead \in Nat
    BY PlacesAre
  <1>2. /\ q \in Nat /\ rem \in Nat /\ rem < BufferNodeSize
        /\ size = q * BufferNodeSize + rem
    BY SizeDivided
  <1>3. n = r + q + (IF q # 0 /\ rem # 0 THEN 1 ELSE 0)
    BY <1>1 DEF AdjustedReadNode
  <1> HIDE DEF r, n, q, rem
  <1>4. /\ r * BufferNodeSize \in Nat /\ q * BufferNodeSize \in Nat
        /\ (r + q) * BufferNodeSize = r * BufferNodeSize + q * BufferNodeSize
        /\ (r + q) \in Nat
    BY <1>1, <1>2, TimesIs
  <1>5. ((r + q) + 1) * BufferNodeSize = (r + q) * BufferNodeSize + BufferNodeSize
    BY <1>4, TimesIs
  <1>6. CASE q = 0
    <2>1. q * BufferNodeSize = 0
      BY <1>6
    <2>2. n = r /\ rem = size
      BY <1>1, <1>2, <1>3, <1>6, <2>1
    <2> QED
      BY <1>1, <1>6, <2>2 DEF r, n, q, rem
  <1>7. CASE q # 0 /\ rem = 0
    <2>1. n = r + q /\ n \in Nat /\ n > r
      BY <1>1, <1>2, <1>3, <1>7
    <2>2. n * BufferNodeSize = r * BufferNodeSize + size
      BY <1>2, <1>4, <1>7, <2>1
    <2> QED
      BY <1>1, <1>7, <2>1, <2>2 DEF r, n, q, rem
  <1>8. CASE q # 0 /\ rem # 0
    <2>1. n = (r + q) + 1 /\ n \in Nat /\ n > r
      BY <1>1, <1>2, <1>3, <1>8
    <2>2. n * BufferNodeSize + rem = r * BufferNodeSize + BufferNodeSize + size
      BY <1>2, <1>4, <1>5, <2>1
    <2> QED
      BY <1>1, <1>8, <2>1, <2>2 DEF r, n, q, rem
  <1> QED
    BY <1>6, <1>7, <1>8

\* A place before the end of what is readable lies in a node up to the write
\* node, before its end.
LEMMA PlaceInNode ==
  ASSUME NEW a, Shape(a), NEW n \in Nat, n >= a.readNode, NEW v \in Nat,
         v <= BufferNodeSize, n * BufferNodeSize + v < EndOf(a)
  PROVE  n \in a.readNode..a.writeNode /\ v <= a.nodes[n].end
  <1> DEFINE r == a.readNode
             w == a.writeNode
  <1>1. /\ r \in Nat /\ w \in Nat /\ EndOf(a) = w * BufferNodeSize + a.nodes[w].end
        /\ a.nodes[w].end \in Nat /\ a.nodes[w].end < BufferNodeSize
        /\ EndOf(a) \in Nat
    BY PlacesAre
  <1>2. n * BufferNodeSize \in Nat /\ w * BufferNodeSize \in Nat
    BY <1>1, TimesIs
  <1>6. r \in Nat /\ w \in Nat /\ r <= n
    BY <1>1
  <1>3. n <= w
    <2> SUFFICES ASSUME w < n PROVE FALSE
      BY <1>1
    <2>1. w * BufferNodeSize + BufferNodeSize <= n * BufferNodeSize
      BY <1>1, TimesIs
    <2> QED
      BY <1>1, <1>2, <2>1
  <1>4. CASE n = w
    <2>1. v <= a.nodes[w].end
      BY <1>1, <1>2, <1>4
    <2> QED
      BY <1>1, <1>4, <2>1
  <1>5. CASE n # w
    <2>1. n \in r..(w - 1)
      <3> HIDE DEF r, w
      <3> QED
        BY <1>3, <1>5, <1>6
    <2>2. a.nodes[n].end = BufferNodeSize
      BY <2>1 DEF Shape, Extents
    <2> QED
      BY <1>1, <2>1, <2>2
  <1> QED
    BY <1>4, <1>5

\* A node after the read node starts at 0.
LEMMA LaterStart ==
  ASSUME NEW a, Shape(a), NEW n \in a.readNode..a.writeNode, n # a.readNode
  PROVE  a.nodes[n].start = 0
  <1>0. /\ a.readNode \in Nat /\ a.writeNode \in Nat /\ a.size \in Nat
        /\ a.writeNode < a.size
    BY PlacesAre
  <1>1. n \in (a.readNode + 1)..(a.size - 1)
    BY <1>0
  <1> QED
    BY <1>1 DEF Shape, Extents

\* An exact transfer ends in a readable node, where its bytes end.
LEMMA ExactIs ==
  ASSUME NEW a, Shape(a), NEW size \in Nat, ExactTransfer(a, size)
  PROVE  LET n == AdjustedReadNode(a, size)
             v == AdvancedStart(a, size)
         IN  /\ n \in a.readNode..a.writeNode
             /\ v \in Nat /\ v <= a.nodes[n].end
             /\ n * BufferNodeSize + v =
                   IF size >= a.availableSizeToRead THEN EndOf(a) ELSE StartOf(a) + size
  <1> DEFINE r == a.readNode
             w == a.writeNode
             n == AdjustedReadNode(a, size)
             v == AdvancedStart(a, size)
             q == size \div BufferNodeSize
             rem == size % BufferNodeSize
             s == a.nodes[r].start
             x == n * BufferNodeSize
             y == r * BufferNodeSize
  <1>1. /\ r \in Nat /\ w \in Nat /\ r <= w /\ a.size \in Nat
        /\ EndOf(a) = w * BufferNodeSize + a.nodes[w].end
        /\ EndOf(a) \in Nat /\ StartOf(a) \in Nat /\ StartOf(a) = y + s /\ s \in Nat
        /\ s <= BufferNodeSize /\ a.nodes[w].end \in Nat
        /\ a.availableSizeToRead = EndOf(a) - StartOf(a)
        /\ a.availableSizeToRead \in Nat
    BY PlacesAre
  <1>2. CASE size >= a.availableSizeToRead
    <2>1. n = w
      BY <1>2 DEF AdjustedReadNode
    <2>2. v = a.nodes[w].end
      BY <1>2, <2>1 DEF AdvancedStart
    <2> QED
      BY <1>1, <1>2, <2>1, <2>2
  <1>3. CASE ~(size >= a.availableSizeToRead)
    <2>1. size < a.availableSizeToRead
      BY <1>1, <1>3
    <2>2. /\ n \in Nat /\ n >= r
          /\ q = 0 => n = r /\ rem = size
          /\ q # 0 /\ rem = 0 => n > r /\ x = y + size
          /\ q # 0 /\ rem # 0 => n > r /\ x + rem = y + BufferNodeSize + size
      BY <2>1, AdjustedIs
    <2>3. rem \in Nat /\ rem < BufferNodeSize /\ (size < BufferNodeSize <=> q = 0)
      BY SizeDivided
    <2>4. v = a.nodes[n].start + rem
      BY <1>3 DEF AdvancedStart
    <2>5. x \in Nat /\ y \in Nat
      BY <1>1, <2>2, TimesIs
    <2>6. \/ size < BufferNodeSize /\ s + size <= BufferNodeSize
          \/ size >= BufferNodeSize /\ s = IF rem = 0 THEN 0 ELSE BufferNodeSize
      BY <1>3 DEF ExactTransfer
    <2>7. StartOf(a) + size < EndOf(a)
      BY <1>1, <2>1
    <2> HIDE DEF n, v, q, rem, x, y, s
    <2>8. CASE size < BufferNodeSize
      <3>1. n = r /\ rem = size /\ x = y
        BY <2>2, <2>3, <2>8 DEF x, y
      <3>2. v = s + size
        BY <2>4, <3>1 DEF s
      <3>3. v \in Nat /\ v <= BufferNodeSize /\ x + v = StartOf(a) + size
        BY <1>1, <2>5, <2>6, <2>8, <3>1, <3>2
      <3>4. x + v < EndOf(a)
        BY <2>7, <3>3
      <3>5. n \in r..w /\ v <= a.nodes[n].end
        BY <2>2, <3>3, <3>4, PlaceInNode DEF x
      <3> QED
        BY <1>3, <3>3, <3>5 DEF n, v, x
    <2>9. CASE size >= BufferNodeSize
      <3>1. q # 0 /\ n > r /\ ~(size < BufferNodeSize)
        BY <2>2, <2>3, <2>9
      <3>2. x + rem = StartOf(a) + size
        <4>1. CASE rem = 0
          BY <1>1, <2>2, <2>5, <2>6, <3>1, <4>1
        <4>2. CASE rem # 0
          BY <1>1, <2>2, <2>5, <2>6, <3>1, <4>2
        <4> QED
          BY <4>1, <4>2
      <3>3. x + rem < EndOf(a) /\ rem <= BufferNodeSize
        BY <2>3, <2>7, <3>2
      <3>4. n \in r..w /\ rem <= a.nodes[n].end
        BY <2>2, <2>3, <3>3, PlaceInNode DEF x
      <3>5. n # r
        BY <1>1, <2>2, <3>1
      <3>6. a.nodes[n].start = 0
        BY <3>4, <3>5, LaterStart
      <3>7. v = rem
        BY <2>3, <2>4, <3>6
      <3> QED
        BY <1>3, <2>3, <3>2, <3>4, <3>7 DEF n, v, x
    <2> QED
      BY <2>3, <2>8, <2>9
  <1> QED
    BY <1>2, <1>3

\* Any other transfer does not, or its node is past the write node.
LEMMA InexactIs ==
  ASSUME NEW a, Shape(a), NEW size \in Nat, ~ExactTransfer(a, size),
         AdjustedReadNode(a, size) \in a.readNode..a.writeNode
  PROVE  LET n == AdjustedReadNode(a, size)
             v == AdvancedStart(a, size)
         IN  v > BufferNodeSize \/ n * BufferNodeSize + v # StartOf(a) + size
  <1> DEFINE r == a.readNode
             n == AdjustedReadNode(a, size)
             v == AdvancedStart(a, size)
             q == size \div BufferNodeSize
             rem == size % BufferNodeSize
             s == a.nodes[r].start
             x == n * BufferNodeSize
             y == r * BufferNodeSize
  <1>1. /\ r \in Nat /\ StartOf(a) \in Nat /\ StartOf(a) = y + s /\ s \in Nat
        /\ s <= BufferNodeSize /\ a.availableSizeToRead \in Nat
    BY PlacesAre
  <1>2. /\ ~(size >= a.availableSizeToRead)
        /\ ~(size < BufferNodeSize /\ s + size <= BufferNodeSize)
        /\ ~(size >= BufferNodeSize /\ s = IF rem = 0 THEN 0 ELSE BufferNodeSize)
    BY DEF ExactTransfer
  <1>3. size < a.availableSizeToRead
    BY <1>1, <1>2
  <1>4. /\ n \in Nat /\ n >= r
        /\ q = 0 => n = r /\ rem = size
        /\ q # 0 /\ rem = 0 => n > r /\ x = y + size
        /\ q # 0 /\ rem # 0 => n > r /\ x + rem = y + BufferNodeSize + size
    BY <1>3, AdjustedIs
  <1>5. rem \in Nat /\ rem < BufferNodeSize /\ (size < BufferNodeSize <=> q = 0)
    BY SizeDivided
  <1>6. v = a.nodes[n].start + rem
    BY <1>2 DEF AdvancedStart
  <1>7. x \in Nat /\ y \in Nat
    BY <1>1, <1>4, TimesIs
  <1>8. n # r => a.nodes[n].start = 0
    BY LaterStart
  <1> HIDE DEF n, v, q, rem, x, y, s
  <1>9. CASE size < BufferNodeSize
    <2>1. n = r /\ rem = size
      BY <1>4, <1>5, <1>9
    <2>2. v = s + size
      BY <1>6, <2>1 DEF s
    <2>3. v > BufferNodeSize
      BY <1>1, <1>2, <1>9, <2>2
    <2> QED
      BY <2>3 DEF n, v
  <1>10. CASE size >= BufferNodeSize
    <2>1. q # 0 /\ n > r
      BY <1>4, <1>5, <1>10
    <2>2. n # r
      BY <1>1, <1>4, <2>1
    <2>3. v = rem
      BY <1>5, <1>6, <1>8, <2>2
    <2>4. x + v # StartOf(a) + size
      <3>1. CASE rem = 0
        <4>1. s # 0 /\ x = y + size /\ v = 0
          BY <1>2, <1>4, <1>10, <2>1, <2>3, <3>1
        <4> QED
          BY <1>1, <1>7, <4>1
      <3>2. CASE rem # 0
        <4>1. s # BufferNodeSize /\ x + v = y + BufferNodeSize + size
          BY <1>2, <1>4, <1>10, <2>1, <2>3, <3>2
        <4> QED
          BY <1>1, <1>7, <4>1
      <3> QED
        BY <3>1, <3>2
    <2> QED
      BY <2>4 DEF n, v, x
  <1> QED
    BY <1>9, <1>10

\* An exact transfer keeps the shape.
LEMMA AdvancedShape ==
  ASSUME NEW a, Shape(a), NEW size \in Nat, ~LosesExtents(a, ReaderVisits(a)),
         ExactTransfer(a, size)
  PROVE  LET d == Advanced(a, size)
         IN  /\ Shape(d) /\ d.size = a.size /\ EndOf(d) = EndOf(a)
             /\ d.availableSizeToRead = IF size >= a.availableSizeToRead THEN 0
                                        ELSE a.availableSizeToRead - size
  <1> DEFINE d == Advanced(a, size)
             n == AdjustedReadNode(a, size)
             v == AdvancedStart(a, size)
             r == a.readNode
             w == a.writeNode
             m == a.size
  <1>1. n \in r..w /\ v \in Nat /\ v <= a.nodes[n].end
        /\ n * BufferNodeSize + v =
              IF size >= a.availableSizeToRead THEN EndOf(a) ELSE StartOf(a) + size
    BY ExactIs
  <1>2. /\ r \in Nat /\ w \in Nat /\ r <= w /\ m \in Nat \ {0} /\ w < m
        /\ EndOf(a) = w * BufferNodeSize + a.nodes[w].end
        /\ EndOf(a) \in Nat /\ StartOf(a) \in Nat
        /\ a.availableSizeToRead = EndOf(a) - StartOf(a)
        /\ a.availableSizeToWrite = m * BufferNodeSize - EndOf(a)
        /\ a.availableSizeToRead \in Nat /\ Typed(a)
    BY PlacesAre DEF Shape
  <1>3. /\ \A i \in r..(w - 1) : a.nodes[i].end = BufferNodeSize
        /\ \A i \in (r + 1)..(m - 1) : a.nodes[i].start = 0
        /\ \A i \in (w + 1)..(m - 1) : a.nodes[i].end = 0
        /\ a.nodes[w].end < BufferNodeSize
    BY DEF Shape, Extents
  <1>4. /\ d.size = m /\ d.readNode = n /\ d.writeNode = w
        /\ d.availableSizeToRead = IF size >= a.availableSizeToRead THEN 0
                                   ELSE a.availableSizeToRead - size
        /\ d.availableSizeToWrite = a.availableSizeToWrite
        /\ \A i \in 0..(m - 1) :
              /\ d.nodes[i].start = IF i = n THEN v ELSE a.nodes[i].start
              /\ d.nodes[i].end = a.nodes[i].end
        /\ v \in 0..BufferNodeSize => Typed(d)
    BY <1>1, AdvancedFields
  <1> HIDE DEF d, n, v, r, w, m
  <1>5. n \in 0..(m - 1) /\ n \in Nat /\ w \in 0..(m - 1) /\ r <= n /\ n <= w
    BY <1>1, <1>2
  <1>6. Typed(d)
    <2>1. a.nodes[n].end \in Nat /\ a.nodes[n].end <= BufferNodeSize
      BY <1>2, <1>5, NodesAre DEF m
    <2>2. v \in 0..BufferNodeSize
      BY <1>1, <2>1
    <2> QED
      BY <1>4, <2>2
  <1>7. d.nodes[n].start = v /\ d.nodes[n].end = a.nodes[n].end
        /\ d.nodes[w].end = a.nodes[w].end
    BY <1>4, <1>5
  <1>8. Extents(d)
    <2>1. \A i \in n..(w - 1) : d.nodes[i].end = BufferNodeSize
      <3> SUFFICES ASSUME NEW i \in n..(w - 1) PROVE d.nodes[i].end = BufferNodeSize
        OBVIOUS
      <3>1. i \in 0..(m - 1) /\ i \in r..(w - 1)
        BY <1>2, <1>5
      <3> QED
        BY <1>3, <1>4, <3>1
    <2>2. \A i \in (n + 1)..(m - 1) : d.nodes[i].start = 0
      <3> SUFFICES ASSUME NEW i \in (n + 1)..(m - 1) PROVE d.nodes[i].start = 0
        OBVIOUS
      <3>1. i \in 0..(m - 1) /\ i \in (r + 1)..(m - 1) /\ i # n
        BY <1>2, <1>5
      <3> QED
        BY <1>3, <1>4, <3>1
    <2>3. \A i \in (w + 1)..(m - 1) : d.nodes[i].end = 0
      <3> SUFFICES ASSUME NEW i \in (w + 1)..(m - 1) PROVE d.nodes[i].end = 0
        OBVIOUS
      <3>1. i \in 0..(m - 1)
        BY <1>2
      <3> QED
        BY <1>3, <1>4, <3>1
    <2> QED
      BY <1>1, <1>2, <1>3, <1>4, <1>5, <1>7, <2>1, <2>2, <2>3 DEF Extents
  <1>9. StartOf(d) = n * BufferNodeSize + v
    BY <1>4, <1>7 DEF StartOf
  <1>10. EndOf(d) = EndOf(a)
    BY <1>2, <1>4, <1>7 DEF EndOf
  <1>11. Counted(d)
    <2>1. CASE size >= a.availableSizeToRead
      BY <1>1, <1>2, <1>4, <1>9, <1>10, <2>1 DEF Counted
    <2>2. CASE ~(size >= a.availableSizeToRead)
      BY <1>1, <1>2, <1>4, <1>9, <1>10, <2>2 DEF Counted
    <2> QED
      BY <2>1, <2>2
  <1> QED
    BY <1>4, <1>6, <1>8, <1>10, <1>11 DEF Shape, d, m

(***************************************************************************)
(* ByteArrayWriterWithLock::adjustByteArray.                               *)
(***************************************************************************)
\* The modulus is larger than any length.
LEMMA ModulusIs ==
  /\ LengthModulus \in Nat \ {0}
  /\ \A x \in Int : x % LengthModulus \in Nat
  /\ \A x \in Nat : x < LengthModulus => x % LengthModulus = x
  <1>1. (MaxNodes + 1) * BufferNodeSize \in Nat
    BY SizesAssumption
  <1>2. LengthModulus \in Nat \ {0}
    BY <1>1, SizesAssumption
  <1> QED
    BY <1>2

\* The end of a node when the loop comes to it with x left.
FilledUp(node, x) == Least(BufferNodeSize, (node.end + x) % LengthModulus)

\* The end adjustByteArray gives a node is within it.
LEMMA FilledUpIs ==
  ASSUME NEW node, node.end \in Nat, NEW x \in Nat
  PROVE  FilledUp(node, x) \in Nat /\ FilledUp(node, x) <= BufferNodeSize
  <1> DEFINE y == (node.end + x) % LengthModulus
  <1>1. y \in Nat
    BY ModulusIs
  <1>2. FilledUp(node, x) = Least(BufferNodeSize, y)
    BY DEF FilledUp
  <1> HIDE DEF y
  <1> QED
    BY <1>1, <1>2 DEF Least

\* What is left goes from node to node like this.
LEMMA WriterLeftIs ==
  ASSUME NEW b, Shape(b), NEW size \in Nat
  PROVE  /\ WriterLeft(b, size)[b.writeNode] = size
         /\ \A i \in b.writeNode..b.size : WriterLeft(b, size)[i] \in Nat
         /\ \A i \in b.writeNode..(b.size - 1) :
               WriterLeft(b, size)[i + 1] =
                  (WriterLeft(b, size)[i] -
                     (BufferNodeSize - FilledUp(b.nodes[i], WriterLeft(b, size)[i])))
                  % LengthModulus
  <1> DEFINE w == b.writeNode
             n == b.size
             After(i, x) == (x - (BufferNodeSize - FilledUp(b.nodes[i], x))) % LengthModulus
             step == [i \in w..(n - 1) |-> [x \in Nat |-> After(i, x)]]
             Rule(f) == f = [i \in w..n |-> IF i = w THEN size ELSE After(i - 1, f[i - 1])]
             left == WriterLeft(b, size)
  <1>1. w \in Nat /\ n \in Nat /\ w < n /\ w <= n
    BY PlacesAre
  <1>2. ASSUME NEW i \in w..(n - 1), NEW x \in Nat PROVE After(i, x) \in Nat
    <2>1. i \in 0..(n - 1)
      BY <1>1
    <2>2. b.nodes[i].end \in Nat
      BY <2>1, NodesAre DEF Shape
    <2>3. FilledUp(b.nodes[i], x) \in Nat
      BY <2>2, FilledUpIs
    <2>4. x - (BufferNodeSize - FilledUp(b.nodes[i], x)) \in Int
      BY <2>3
    <2> QED
      BY <2>4, ModulusIs
  <1>3. left = CHOOSE f : Rule(f)
    BY DEF WriterLeft, FilledUp
  <1> HIDE DEF After
  <1>4. step \in [w..(n - 1) -> [Nat -> Nat]]
    BY <1>2
  <1>5. \A i \in w..(n - 1) : \A x \in Nat : step[i][x] = After(i, x)
    OBVIOUS
  <1> HIDE DEF step, w, n, left
  <1>6. PICK f \in [w..n -> Nat] : Computed(f, step, w, n, size)
    BY <1>1, <1>4, RecursionExists
  <1>7. ASSUME NEW i \in w..n, i # w PROVE step[i - 1][f[i - 1]] = After(i - 1, f[i - 1])
    <2>1. i - 1 \in w..(n - 1) /\ i - 1 \in w..n
      BY <1>1, <1>7
    <2>2. f[i - 1] \in Nat
      BY <2>1
    <2> QED
      BY <1>5, <2>1, <2>2
  <1>8. Rule(f)
    BY <1>6, <1>7 DEF Computed
  <1>9. Rule(left)
    <2> HIDE DEF Rule
    <2> QED
      BY <1>3, <1>8
  <1>10. left[w] = size /\ \A i \in w..(n - 1) : left[i + 1] = After(i, left[i])
    <2>1. w \in w..n
      BY <1>1
    <2>2. ASSUME NEW i \in w..(n - 1) PROVE left[i + 1] = After(i, left[i])
      <3>1. i + 1 \in w..n /\ i + 1 # w /\ (i + 1) - 1 = i
        BY <1>1
      <3> QED
        BY <1>9, <3>1
    <2> QED
      BY <1>9, <2>1, <2>2
  <1> DEFINE S == {i \in w..n : left[i] \in Nat}
  <1>11. w \in S
    BY <1>1, <1>10
  <1>12. ASSUME NEW i \in w..n, i \in S, i < n PROVE i + 1 \in S
    <2>1. i \in w..(n - 1) /\ i + 1 \in w..n
      BY <1>1, <1>12
    <2> QED
      BY <1>2, <1>10, <1>12, <2>1
  <1>13. w..n \subseteq S
    <2> HIDE DEF S
    <2> QED
      BY <1>1, <1>11, <1>12, IntervalInduction
  <1> QED
    BY <1>10, <1>13 DEF left, w, n, After

\* If the write node is filled and there is enough left for a node, every node
\* is taken for full: the loop subtracts nothing.
LEMMA WriterAllFull ==
  ASSUME NEW b, Shape(b), NEW size \in Nat, size >= BufferNodeSize,
         size + BufferNodeSize < LengthModulus
  PROVE  \A i \in b.writeNode..(b.size - 1) :
            /\ WriterLeft(b, size)[i] = size
            /\ FilledUp(b.nodes[i], size) = BufferNodeSize
  <1> DEFINE w == b.writeNode
             n == b.size
             left == WriterLeft(b, size)
             S == {i \in w..(n - 1) : left[i] = size}
  <1>1. w \in Nat /\ n \in Nat /\ w < n
    BY PlacesAre
  <1>2. ASSUME NEW i \in w..(n - 1) PROVE FilledUp(b.nodes[i], size) = BufferNodeSize
    <2>1. i \in 0..(n - 1)
      BY <1>1
    <2>2. b.nodes[i].end \in Nat /\ b.nodes[i].end <= BufferNodeSize
      BY <2>1, NodesAre DEF Shape
    <2> DEFINE e == b.nodes[i].end
               y == (e + size) % LengthModulus
    <2>3. y = e + size
      <3>2. LengthModulus \in Nat
        BY ModulusIs
      <3>1. e + size \in Nat /\ e + size < LengthModulus
        BY <2>2, <3>2
      <3> QED
        BY <3>1, ModulusIs
    <2>4. FilledUp(b.nodes[i], size) = Least(BufferNodeSize, y)
      BY DEF FilledUp
    <2> HIDE DEF y
    <2> QED
      BY <2>2, <2>3, <2>4 DEF Least
  <1>3. w \in S
    BY <1>1, WriterLeftIs
  <1>4. ASSUME NEW i \in w..(n - 1), i \in S, i < n - 1 PROVE i + 1 \in S
    <2>1. i + 1 \in w..(n - 1)
      BY <1>1, <1>4
    <2>2. left[i] = size /\ FilledUp(b.nodes[i], size) = BufferNodeSize
      BY <1>2, <1>4
    <2>3. left[i + 1] = (left[i] - (BufferNodeSize - FilledUp(b.nodes[i], left[i])))
                        % LengthModulus
      BY WriterLeftIs
    <2>4. left[i] - (BufferNodeSize - FilledUp(b.nodes[i], left[i])) = size
      BY <2>2
    <2>5. size < LengthModulus
      BY ModulusIs
    <2>6. left[i + 1] = size
      BY <2>3, <2>4, <2>5, ModulusIs
    <2> QED
      BY <2>1, <2>6
  <1>5. w..(n - 1) \subseteq S
    <2>1. n - 1 \in Nat
      BY <1>1
    <2> HIDE DEF S, w, n
    <2> QED
      BY <1>1, <1>3, <1>4, <2>1, IntervalInduction
  <1> QED
    BY <1>2, <1>5

\* The array the writer leaves when it finds b.
WriterAdjusted(b, size) ==
    [b EXCEPT
        !.availableSizeToWrite = @ - size,
        !.availableSizeToRead  = @ + size,
        !.nodes = [i \in 0..(b.size - 1) |->
            IF i < b.writeNode THEN b.nodes[i]
            ELSE [b.nodes[i] EXCEPT !.end = FilledUp(b.nodes[i], WriterLeft(b, size)[i])]],
        !.writeNode = b.size - 1]

\* Where it begins and ends.
LEMMA WriterAdjustedIs ==
  ASSUME NEW b, Shape(b), NEW size \in Nat
  PROVE  LET d == WriterAdjusted(b, size)
             l == b.size - 1
         IN  /\ StartOf(d) = StartOf(b)
             /\ EndOf(d) = l * BufferNodeSize
                           + FilledUp(b.nodes[l], WriterLeft(b, size)[l])
  <1> DEFINE d == WriterAdjusted(b, size)
             l == b.size - 1
             r == b.readNode
             read == b.availableSizeToRead + size
             write == b.availableSizeToWrite - size
             left == WriterLeft(b, size)
             E(i) == FilledUp(b.nodes[i], left[i])
             N(i) == [b.nodes[i] EXCEPT !.end = E(i)]
             nodes == [i \in 0..(b.size - 1) |-> IF i < b.writeNode THEN b.nodes[i] ELSE N(i)]
  <1>0. b \in ByteArrays /\ Typed(b)
    BY DEF Shape, Typed
  <1>1. /\ b \in ByteArrays /\ Typed(b)
        /\ b.size \in Nat \ {0} /\ b.writeNode \in Nat /\ b.writeNode < b.size
        /\ r \in 0..(b.size - 1)
        /\ StartOf(b) = r * BufferNodeSize + b.nodes[r].start
    BY <1>0, PlacesAre
  <1>2. d = [b EXCEPT !.availableSizeToWrite = write, !.availableSizeToRead = read,
                      !.nodes = nodes, !.writeNode = l]
    BY DEF WriterAdjusted
  <1>3. ASSUME NEW i \in 0..(b.size - 1)
        PROVE  /\ nodes[i].start = b.nodes[i].start
               /\ ~(i < b.writeNode) => nodes[i].end = E(i)
    <2>1. b.nodes[i] \in Node
      BY <1>1, NodesAre
    <2>2. nodes[i] = IF i < b.writeNode THEN b.nodes[i] ELSE N(i)
      OBVIOUS
    <2> HIDE DEF E, nodes
    <2>3. N(i).start = b.nodes[i].start /\ N(i).end = E(i)
      BY <2>1 DEF Node
    <2> HIDE DEF N
    <2> QED
      BY <2>2, <2>3
  <1> HIDE DEF d, l, read, write, nodes, E, N, left
  <1>4. d.readNode = b.readNode /\ d.writeNode = l /\ d.nodes = nodes
    BY <1>1, <1>2 DEF ByteArrays
  <1>5. StartOf(d) = StartOf(b)
    BY <1>1, <1>3, <1>4 DEF StartOf
  <1>6. l \in 0..(b.size - 1) /\ ~(l < b.writeNode)
    BY <1>1 DEF l
  <1>7. EndOf(d) = l * BufferNodeSize + E(l)
    BY <1>3, <1>4, <1>6 DEF EndOf
  <1> QED
    BY <1>5, <1>7 DEF d, l, E, left

\* The writer's arithmetic is right in the last node ...
LEMMA WriterExact ==
  ASSUME NEW b, Shape(b), NEW size \in Nat, size < b.availableSizeToWrite,
         size + BufferNodeSize < LengthModulus, b.writeNode = b.size - 1
  PROVE  EndOf(WriterAdjusted(b, size)) = EndOf(b) + size
  <1> DEFINE w == b.writeNode
             e == b.nodes[w].end
             x == w * BufferNodeSize
             y == (e + size) % LengthModulus
  <1>1. /\ w \in Nat /\ b.size \in Nat /\ b.size = w + 1 /\ EndOf(b) = x + e /\ e \in Nat
        /\ b.availableSizeToWrite = b.size * BufferNodeSize - EndOf(b)
        /\ e < BufferNodeSize
    BY PlacesAre
  <1>2. x \in Nat /\ b.size * BufferNodeSize = x + BufferNodeSize
    BY <1>1, TimesIs
  <1>3. EndOf(WriterAdjusted(b, size)) = x + FilledUp(b.nodes[w], WriterLeft(b, size)[w])
    BY WriterAdjustedIs
  <1>4. WriterLeft(b, size)[w] = size
    BY WriterLeftIs
  <1>5. e + size < BufferNodeSize
    <2>1. size < b.availableSizeToWrite
      OBVIOUS
    <2>2. b.availableSizeToWrite = (x + BufferNodeSize) - (x + e)
      BY <1>1, <1>2
    <2> HIDE DEF x, e
    <2> QED
      BY <1>1, <1>2, <2>1, <2>2
  <1>6. y = e + size
    <2>1. e + size \in Nat /\ e + size < LengthModulus
      BY <1>1, <1>5, ModulusIs
    <2> QED
      BY <2>1, ModulusIs
  <1>7. FilledUp(b.nodes[w], size) = Least(BufferNodeSize, y)
    BY DEF FilledUp
  <1> HIDE DEF x, y, e
  <1>8. Least(BufferNodeSize, y) = e + size
    BY <1>1, <1>5, <1>6 DEF Least
  <1>9. EndOf(WriterAdjusted(b, size)) = x + (e + size)
    BY <1>3, <1>4, <1>7, <1>8
  <1> QED
    BY <1>1, <1>2, <1>9

\* ... and wrong in any other.
LEMMA WriterInexact ==
  ASSUME NEW b, Shape(b), NEW size \in Nat, size < b.availableSizeToWrite,
         size + BufferNodeSize < LengthModulus, b.writeNode < b.size - 1
  PROVE  EndOf(WriterAdjusted(b, size)) # EndOf(b) + size
  <1> DEFINE w == b.writeNode
             l == b.size - 1
             e == b.nodes[w].end
             x == w * BufferNodeSize
             z == l * BufferNodeSize
             left == WriterLeft(b, size)
             end == FilledUp(b.nodes[l], left[l])
  <1>1. /\ w \in Nat /\ b.size \in Nat \ {0} /\ EndOf(b) = x + e /\ e \in Nat
        /\ b.availableSizeToWrite = b.size * BufferNodeSize - EndOf(b)
        /\ e < BufferNodeSize /\ Typed(b) /\ Extents(b)
    BY PlacesAre DEF Shape
  <1>2. /\ l \in Nat /\ b.size = l + 1 /\ w < l /\ w + 1 \in Nat
        /\ w \in w..(b.size - 1) /\ l \in w..(b.size - 1) /\ l \in 0..(b.size - 1)
    BY <1>1
  <1>3. /\ x \in Nat /\ z \in Nat /\ b.size * BufferNodeSize = z + BufferNodeSize
        /\ x + BufferNodeSize <= z
        /\ (w + 1) * BufferNodeSize = x + BufferNodeSize
    BY <1>1, <1>2, TimesIs
  <1>4. EndOf(WriterAdjusted(b, size)) = z + end
    BY WriterAdjustedIs
  <1>5. b.nodes[l].end = 0
    <2>1. l \in (w + 1)..(b.size - 1)
      BY <1>1, <1>2
    <2> QED
      BY <1>1, <2>1 DEF Extents
  <1>6. left[l] \in Nat /\ left[w] = size
    <2>1. l \in w..b.size
      BY <1>1, <1>2
    <2> QED
      BY <2>1, WriterLeftIs
  <1>7. end \in Nat
    BY <1>5, <1>6, FilledUpIs
  <1>8. x + e + size < z + BufferNodeSize
    BY <1>1, <1>3
  <1>9. CASE size >= BufferNodeSize
    <2>1. end = BufferNodeSize
      BY <1>2, <1>9, WriterAllFull
    <2> HIDE DEF x, z, e, end
    <2> QED
      BY <1>1, <1>3, <1>4, <1>8, <2>1
  <1>10. CASE size < BufferNodeSize /\ w + 1 < l
    <2>1. (w + 1) * BufferNodeSize + BufferNodeSize <= z
      BY <1>2, <1>10, TimesIs
    <2> HIDE DEF x, z, e, end
    <2> QED
      BY <1>1, <1>3, <1>4, <1>7, <1>10, <2>1
  <1>11. CASE size < BufferNodeSize /\ w + 1 = l
    <2>1. z = x + BufferNodeSize
      BY <1>3, <1>11
    <2>2. CASE e + size < BufferNodeSize
      <3> HIDE DEF x, z, e, end
      <3> QED
        BY <1>1, <1>3, <1>4, <1>7, <2>1, <2>2
    <2>3. CASE e + size >= BufferNodeSize
      <3> DEFINE y == (e + size) % LengthModulus
      <3>1. y = e + size
        <4>1. LengthModulus \in Nat /\ e \in Nat /\ e < BufferNodeSize
          BY <1>1, ModulusIs
        <4>2. e + size \in Nat /\ e + size < LengthModulus
          <5> HIDE DEF e
          <5> QED
            BY <4>1
        <4> QED
          BY <4>2, ModulusIs
      <3>2. FilledUp(b.nodes[w], size) = Least(BufferNodeSize, y)
        BY DEF FilledUp
      <3>3. FilledUp(b.nodes[w], size) = BufferNodeSize
        <4> HIDE DEF y, e
        <4> QED
          BY <1>1, <2>3, <3>1, <3>2 DEF Least
      <3>4. left[w + 1] = (left[w] - (BufferNodeSize - FilledUp(b.nodes[w], left[w])))
                          % LengthModulus
        BY <1>2, WriterLeftIs
      <3>5. left[w] - (BufferNodeSize - FilledUp(b.nodes[w], left[w])) = size
        BY <1>6, <3>3
      <3>6. size < LengthModulus /\ size % LengthModulus = size
        <4>1. size < LengthModulus
          BY ModulusIs
        <4> QED
          BY <4>1, ModulusIs
      <3>7. left[l] = size
        BY <1>11, <3>4, <3>5, <3>6
      <3>8. end = Least(BufferNodeSize, (0 + size) % LengthModulus)
        BY <1>5, <3>7 DEF FilledUp
      <3>9. end = size
        <4>1. 0 + size = size
          OBVIOUS
        <4> QED
          BY <1>11, <3>6, <3>8, <4>1 DEF Least
      <3> HIDE DEF x, z, e, end
      <3> QED
        BY <1>1, <1>3, <1>4, <2>1, <3>9
    <2> QED
      BY <1>1, <2>2, <2>3
  <1>12. w + 1 < l \/ w + 1 = l
    <2> HIDE DEF w, l
    <2> QED
      BY <1>1, <1>2
  <1>13. size < BufferNodeSize \/ size >= BufferNodeSize
    OBVIOUS
  <1> QED
    BY <1>9, <1>10, <1>11, <1>12, <1>13

\* Head move and allocation leave room after the write node.
LEMMA AllocRoom ==
  ASSUME NEW a, Shape(a), NEW size \in Nat, ~(a.availableSizeToWrite > size)
  PROVE  LET b == AllocIfNotEnough(a, size)
         IN  b.writeNode < b.size - 1
  <1> DEFINE b == MoveBufferHead(a)
             n == MoreNodes(b, size)
  <1>1. /\ a.readNode \in Nat /\ a.writeNode \in Nat /\ a.size \in Nat
        /\ a.readNode <= a.writeNode /\ a.writeNode < a.size
        /\ a.availableSizeToWrite \in Nat /\ Typed(a)
    BY PlacesAre DEF Shape
  <1>2. /\ b.size = a.size /\ b.writeNode = a.writeNode - a.readNode /\ Typed(b)
        /\ b.availableSizeToWrite = a.availableSizeToWrite + a.readNode * BufferNodeSize
    BY <1>1, MoveHeadFields
  <1>3. b.availableSizeToWrite \in Nat /\ b.size \in Nat \ {0}
    BY <1>2, NodesAre
  <1>4. n \in Nat /\ n > b.size
    BY <1>3, MoreNodesIs
  <1>5. AllocIfNotEnough(a, size) =
            IF b.availableSizeToWrite > size THEN b ELSE Grown(b, n)
    BY DEF AllocIfNotEnough, Grown
  <1> HIDE DEF b, n
  <1>6. CASE b.availableSizeToWrite > size
    <2>1. a.readNode # 0
      <3> SUFFICES ASSUME a.readNode = 0 PROVE FALSE
        OBVIOUS
      <3>1. a.readNode * BufferNodeSize = 0
        OBVIOUS
      <3> QED
        BY <1>1, <1>2, <1>6, <3>1
    <2>2. b.writeNode < b.size - 1
      BY <1>1, <1>2, <2>1
    <2> QED
      BY <1>5, <1>6, <2>2
  <1>7. CASE ~(b.availableSizeToWrite > size)
    <2>1. Grown(b, n).size = n /\ Grown(b, n).writeNode = b.writeNode
      BY <1>2, <1>4, GrownFields
    <2>2. b.writeNode < n - 1
      BY <1>1, <1>2, <1>4
    <2> QED
      BY <1>5, <1>7, <2>1, <2>2
  <1> QED
    BY <1>6, <1>7

\* The two together.
LEMMA WriterExactIff ==
  ASSUME NEW a, Shape(a), a.size <= MaxNodes, NEW size \in 0..a.availableSizeToWrite
  PROVE  LET w == WriterAdjustByteArray(a, size)
         IN  (a.writeNode = a.size - 1 /\ size < a.availableSizeToWrite)
                <=> EndOf(w) - StartOf(w) = a.availableSizeToRead + size
  <1> DEFINE b == AllocIfNotEnough(a, size)
             w == WriterAdjustByteArray(a, size)
  <1>1. /\ a.writeNode \in Nat /\ a.size \in Nat \ {0} /\ a.writeNode < a.size
        /\ a.availableSizeToWrite = a.size * BufferNodeSize - EndOf(a)
        /\ EndOf(a) \in Nat /\ a.availableSizeToWrite \in Nat
        /\ a.availableSizeToRead \in Nat
    BY PlacesAre
  <1>2. size \in Nat /\ size <= a.availableSizeToWrite
    BY <1>1
  <1>3. /\ Shape(b) /\ b.availableSizeToWrite > size
        /\ b.availableSizeToRead = a.availableSizeToRead
    BY <1>2, AllocShape
  <1>4. w = WriterAdjusted(b, size)
    BY DEF WriterAdjustByteArray, WriterAdjusted, FilledUp
  <1>5. size + BufferNodeSize < LengthModulus
    <2>1. MaxNodes \in Nat /\ (MaxNodes + 1) * BufferNodeSize < LengthModulus
          /\ LengthModulus \in Nat
      BY SizesAssumption
    <2>2. /\ a.size * BufferNodeSize <= MaxNodes * BufferNodeSize
          /\ a.size * BufferNodeSize \in Nat /\ MaxNodes * BufferNodeSize \in Nat
          /\ (MaxNodes + 1) * BufferNodeSize = MaxNodes * BufferNodeSize + BufferNodeSize
      BY <1>1, <2>1, TimesIs
    <2> QED
      BY <1>1, <1>2, <2>1, <2>2
  <1>6. ~(a.availableSizeToWrite > size) => b.writeNode < b.size - 1
    BY <1>2, AllocRoom
  <1>7. a.availableSizeToWrite > size => b = a
    BY DEF AllocIfNotEnough
  <1> HIDE DEF b, w
  <1>8. /\ b.availableSizeToRead = EndOf(b) - StartOf(b) /\ EndOf(b) \in Nat
        /\ StartOf(b) \in Nat /\ b.availableSizeToWrite \in Nat
        /\ b.writeNode \in Nat /\ b.size \in Nat \ {0}
    BY <1>3, PlacesAre
  <1>9. size < b.availableSizeToWrite
    BY <1>2, <1>3, <1>8
  <1>10. StartOf(w) = StartOf(b) /\ EndOf(w) \in Nat
    <2> DEFINE l == b.size - 1
               end == FilledUp(b.nodes[l], WriterLeft(b, size)[l])
    <2>1. StartOf(w) = StartOf(b) /\ EndOf(w) = l * BufferNodeSize + end
      BY <1>2, <1>3, <1>4, WriterAdjustedIs
    <2>2. l \in 0..(b.size - 1) /\ l \in b.writeNode..b.size /\ l \in Nat
      BY <1>3, <1>8, PlacesAre
    <2>3. WriterLeft(b, size)[l] \in Nat /\ b.nodes[l].end \in Nat
      BY <1>2, <1>3, <2>2, WriterLeftIs, NodesAre DEF Shape
    <2>4. end \in Nat
      BY <2>3, FilledUpIs
    <2>5. l * BufferNodeSize \in Nat
      BY <2>2, TimesIs
    <2> HIDE DEF l, end
    <2> QED
      BY <2>1, <2>4, <2>5
  <1>11. EndOf(w) - StartOf(w) = a.availableSizeToRead + size
            <=> EndOf(w) = EndOf(b) + size
    BY <1>2, <1>3, <1>8, <1>10
  <1>12. CASE a.writeNode = a.size - 1 /\ size < a.availableSizeToWrite
    <2>1. b = a
      BY <1>1, <1>2, <1>7, <1>12
    <2>2. b.writeNode = b.size - 1
      BY <1>12, <2>1
    <2>3. EndOf(w) = EndOf(b) + size
      BY <1>2, <1>3, <1>4, <1>5, <1>9, <2>2, WriterExact
    <2> QED
      BY <1>11, <1>12, <2>3 DEF w
  <1>13. CASE ~(a.writeNode = a.size - 1 /\ size < a.availableSizeToWrite)
    <2>1. b.writeNode < b.size - 1
      <3>1. CASE a.availableSizeToWrite > size
        <4>3. size < a.availableSizeToWrite
          BY <1>1, <1>2, <3>1
        <4>1. b = a /\ a.writeNode # a.size - 1
          BY <1>7, <1>13, <3>1, <4>3
        <4>4. a.writeNode \in Nat /\ a.size \in Nat /\ a.writeNode < a.size
          BY PlacesAre
        <4>2. a.writeNode < a.size - 1
          BY <4>1, <4>4
        <4> QED
          BY <4>1, <4>2
      <3>2. CASE ~(a.availableSizeToWrite > size)
        BY <1>6, <3>2
      <3> QED
        BY <3>1, <3>2
    <2>2. EndOf(w) # EndOf(b) + size
      BY <1>2, <1>3, <1>4, <1>5, <1>9, <2>1, WriterInexact
    <2> QED
      BY <1>11, <1>13, <2>2 DEF w
  <1> QED
    BY <1>12, <1>13

(***************************************************************************)
(* What a socket fills.                                                    *)
(***************************************************************************)
\* Arrays with any nodes.
ArraysOf(lists) ==
  [availableSizeToRead : Nat, availableSizeToWrite : Nat,
   readNode : Nat, writeNode : Nat, size : Nat, nodes : lists]

\* A record is its fields.
LEMMA RecordIs ==
  ASSUME NEW r, NEW w, NEW read, NEW write, NEW n, NEW nodes,
         NEW a \in [availableSizeToRead : {read}, availableSizeToWrite : {write},
                    readNode : {r}, writeNode : {w}, size : {n}, nodes : {nodes}]
  PROVE  a = [availableSizeToRead |-> read, availableSizeToWrite |-> write,
              readNode |-> r, writeNode |-> w, size |-> n, nodes |-> nodes]
  OBVIOUS

\* A write or a fill that begins at the last node visits no other.
LEMMA FillVisitsAre ==
  ASSUME NEW a, Typed(a), a.writeNode = a.size - 1, NEW length
  PROVE  /\ WriterVisits(a) = {a.writeNode}
         /\ WriteVisits(a, length) = WriterVisits(a)
  <1>1. a.writeNode \in Nat /\ a.size \in Nat \ {0}
    BY NodesAre
  <1>2. WriterVisits(a) = {a.writeNode}
    BY <1>1 DEF WriterVisits
  <1> DEFINE used == {i \in a.writeNode..(a.size - 1) : WriteLeft(a, length)[i] > 0}
  <1>3. used \subseteq {a.writeNode}
    BY <1>1
  <1>4. WriteVisits(a, length) = Visited(a, a.writeNode, used)
    BY DEF WriteVisits
  <1> HIDE DEF used
  <1>5. Visited(a, a.writeNode, used) = {a.writeNode}
    BY <1>1, <1>3 DEF Visited
  <1> QED
    BY <1>2, <1>4, <1>5

\* What writeRaw's loop does to the last node.
LEMMA LastNodeWritten ==
  ASSUME NEW a, Typed(a), a.writeNode = a.size - 1, NEW data, Len(data) \in Nat,
         Len(data) < Room(a.nodes[a.writeNode])
  PROVE  /\ WriteLeft(a, Len(data))[a.writeNode] = Len(data)
         /\ WriteLeft(a, Len(data))[a.size] = 0
         /\ Least(Len(data), Room(a.nodes[a.writeNode])) = Len(data)
         /\ {i \in a.writeNode..(a.size - 1) :
               WriteLeft(a, Len(data))[i] > 0 /\
               Least(WriteLeft(a, Len(data))[i], Room(a.nodes[i])) = Room(a.nodes[i])} = {}
  <1> DEFINE w == a.writeNode
             length == Len(data)
             room == Room(a.nodes[w])
             cap == [i \in w..(a.size - 1) |-> Room(a.nodes[i])]
             left == WriteLeft(a, length)
  <1>1. /\ w \in Nat /\ a.size \in Nat /\ a.size = w + 1 /\ w \in 0..(a.size - 1)
        /\ a.nodes[w] \in Node
    BY NodesAre
  <1>2. room \in Nat /\ length \in Nat /\ length < room
    <2>1. Cow(a.nodes[w]).end \in Nat /\ Cow(a.nodes[w]).end <= BufferNodeSize
      BY <1>1, CowIs, NodeIs
    <2> QED
      BY <2>1 DEF Room
  <1>3. \A i \in w..(a.size - 1) : i = w
    BY <1>1
  <1>4. cap \in [w..(a.size - 1) -> Nat] /\ cap[w] = room
    BY <1>1, <1>2, <1>3
  <1>5. left = LeftOver(cap, w, a.size, length)
    BY DEF WriteLeft
  <1> HIDE DEF cap, left
  <1>6. Loop(left, cap, w, a.size, length)
    <2>1. w <= a.size /\ length \in Nat
      BY <1>1, <1>2
    <2> HIDE DEF w, length
    <2> QED
      BY <1>1, <1>4, <1>5, <2>1, LeftOverLoop
  <1>7. left[w] = length
    <2>1. w \in w..a.size
      BY <1>1
    <2> HIDE DEF w, length
    <2> QED
      BY <1>6, <2>1 DEF Loop
  <1> HIDE DEF room, length
  <1>8. Least(length, room) = length
    BY <1>2 DEF Least
  <1>9. left[a.size] = 0
    <2>1. a.size \in w..a.size /\ a.size # w /\ a.size - 1 = w
      BY <1>1
    <2>2. left[a.size] = left[w] - Least(left[w], cap[w])
      BY <1>6, <2>1 DEF Loop
    <2> QED
      BY <1>2, <1>4, <1>7, <1>8, <2>2
  <1>10. length # room
    BY <1>2
  <1> QED
    BY <1>3, <1>7, <1>8, <1>9, <1>10 DEF left, length, room

\* The bytes recvmsg puts behind the node's end.
Put1(node, data) ==
  [o \in Offsets |-> IF o - node.end \in 0..(Len(data) - 1)
                     THEN data[1 + (o - node.end)] ELSE node.buffer[o]]

\* With the end moved over them, it is the node writeRaw leaves.
LEMMA FilledTo ==
  ASSUME NEW node \in Node, NEW data
  PROVE  [[node EXCEPT !.buffer = Put1(node, data)] EXCEPT !.end = node.end + Len(data)] =
         Filled(node, data, 1, Len(data))
  <1> DEFINE content == Put1(node, data)
             e == node.end + Len(data)
  <1>1. node = [start |-> node.start, end |-> node.end, buffer |-> node.buffer,
                twin |-> node.twin]
    BY DEF Node
  <1>2. Filled(node, data, 1, Len(data)) =
          [start |-> node.start, end |-> e, buffer |-> content, twin |-> node.twin]
    BY DEF Filled, Put1
  <1> HIDE DEF content, e
  <1> DEFINE n == [node EXCEPT !.buffer = content]
             d == [n EXCEPT !.end = e]
  <1>3. n \in [start : {node.start}, end : {node.end}, buffer : {content},
               twin : {node.twin}]
    BY DEF Node
  <1> HIDE DEF n
  <1>4. d \in [start : {node.start}, end : {e}, buffer : {content}, twin : {node.twin}]
    BY <1>3
  <1> HIDE DEF d
  <1>5. d = [start |-> node.start, end |-> e, buffer |-> content, twin |-> node.twin]
    BY ONLY <1>4
  <1> QED
    BY <1>2, <1>5 DEF content, e, d, n

\* The loop of adjustByteArray begins with all that was received.
LEMMA WriterLeftFirst ==
  ASSUME NEW b, b.writeNode \in Nat, b.size = b.writeNode + 1,
         b.nodes[b.writeNode].end \in Nat, NEW size \in Nat
  PROVE  WriterLeft(b, size)[b.writeNode] = size
  <1> DEFINE w == b.writeNode
             n == b.size
             After(i, x) == (x - (BufferNodeSize - FilledUp(b.nodes[i], x))) % LengthModulus
             step == [i \in w..(n - 1) |-> [x \in Nat |-> After(i, x)]]
             Rule(f) == f = [i \in w..n |-> IF i = w THEN size ELSE After(i - 1, f[i - 1])]
             left == WriterLeft(b, size)
  <1>1. w \in Nat /\ n \in Nat /\ w <= n /\ \A i \in w..(n - 1) : i = w
    OBVIOUS
  <1>2. ASSUME NEW i \in w..(n - 1), NEW x \in Nat PROVE After(i, x) \in Nat
    <2>1. b.nodes[i].end \in Nat
      BY <1>1
    <2>2. FilledUp(b.nodes[i], x) \in Nat
      BY <2>1, FilledUpIs
    <2>3. x - (BufferNodeSize - FilledUp(b.nodes[i], x)) \in Int
      BY <2>2
    <2> QED
      BY <2>3, ModulusIs
  <1>3. left = CHOOSE f : Rule(f)
    BY DEF WriterLeft, FilledUp
  <1> HIDE DEF After
  <1>4. step \in [w..(n - 1) -> [Nat -> Nat]]
    BY <1>2
  <1>5. \A i \in w..(n - 1) : \A x \in Nat : step[i][x] = After(i, x)
    OBVIOUS
  <1> HIDE DEF step, w, n, left
  <1>6. PICK f \in [w..n -> Nat] : Computed(f, step, w, n, size)
    BY <1>1, <1>4, RecursionExists
  <1>7. ASSUME NEW i \in w..n, i # w PROVE step[i - 1][f[i - 1]] = After(i - 1, f[i - 1])
    <2>1. i - 1 \in w..(n - 1) /\ i - 1 \in w..n
      BY <1>1, <1>7
    <2>2. f[i - 1] \in Nat
      BY <2>1
    <2> QED
      BY <1>5, <2>1, <2>2
  <1>8. Rule(f)
    BY <1>6, <1>7 DEF Computed
  <1>9. Rule(left)
    <2> HIDE DEF Rule
    <2> QED
      BY <1>3, <1>8
  <1>10. w \in w..n
    BY <1>1
  <1> QED
    BY <1>9, <1>10 DEF left, w

\* In a write node that is the last one, and keeps room, recvmsg and
\* adjustByteArray do what writeRaw's loop does.
LEMMA ReceivedIsWritten ==
  ASSUME NEW a, Typed(a), a.writeNode = a.size - 1, NEW data, Len(data) \in Nat,
         Len(data) < Room(a.nodes[a.writeNode]), Len(data) < a.availableSizeToWrite
  PROVE  Received(a, data) = WriteLoop(a, data)
  <1> DEFINE w == a.writeNode
             n == a.size
             length == Len(data)
             c == CowNodes(a, WriterVisits(a))
             node == c.nodes[w]
             filled == [c EXCEPT !.nodes[w].buffer = Put1(node, data)]
             filledNode == [node EXCEPT !.buffer = Put1(node, data)]
             read == a.availableSizeToRead + length
             write == a.availableSizeToWrite - length
             nodes == [i \in 0..(n - 1) |->
                         IF i < w THEN c.nodes[i] ELSE Filled(node, data, 1, length)]
             result == [availableSizeToRead |-> read, availableSizeToWrite |-> write,
                        readNode |-> a.readNode, writeNode |-> w, size |-> n,
                        nodes |-> nodes]
  <1>1. /\ w \in Nat /\ n \in Nat \ {0} /\ n = w + 1 /\ w \in 0..(n - 1)
        /\ \A i \in 0..(n - 1) : ~(i < w) => i = w
        /\ a.nodes[w] \in Node
        /\ a.availableSizeToRead \in Nat /\ a.availableSizeToWrite \in Nat
    BY NodesAre
  <1>2. /\ Typed(c) /\ c.size = n /\ c.readNode = a.readNode /\ c.writeNode = w
        /\ c.availableSizeToRead = a.availableSizeToRead
        /\ c.availableSizeToWrite = a.availableSizeToWrite
        /\ node = Cow(a.nodes[w])
    <2>1. WriterVisits(a) = {w}
      BY FillVisitsAre
    <2> QED
      BY <1>1, <2>1, CowNodesFields
  <1> HIDE DEF c
  <1>3. c \in ByteArrays /\ c.nodes \in [0..(n - 1) -> Node]
    BY <1>2 DEF Typed
  <1>4. /\ node \in Node /\ node.end \in Nat /\ node.end + length < BufferNodeSize
        /\ node.end + length \in Nat
    <2>1. node \in Node
      BY <1>1, <1>2, CowIs
    <2>2. Room(a.nodes[w]) = BufferNodeSize - node.end
      BY <1>2 DEF Room
    <2>3. node.end \in Nat
      BY <2>1, NodeIs
    <2>4. length \in Nat /\ length < BufferNodeSize - node.end
      BY <2>2
    <2> HIDE DEF node, length
    <2> QED
      BY <2>1, <2>3, <2>4
  <1>5. WriteLoop(a, data) = result
    <2>1. /\ WriteVisits(a, length) = WriterVisits(a)
          /\ WriteLeft(a, length)[w] = length /\ WriteLeft(a, length)[n] = 0
          /\ Least(length, Room(a.nodes[w])) = length
          /\ {i \in w..(n - 1) : WriteLeft(a, length)[i] > 0 /\
                Least(WriteLeft(a, length)[i], Room(a.nodes[i])) = Room(a.nodes[i])} = {}
      BY FillVisitsAre, LastNodeWritten
    <2> DEFINE left == WriteLeft(a, length)
               made == [i \in 0..(c.size - 1) |->
                          IF i < c.writeNode THEN c.nodes[i]
                          ELSE Filled(c.nodes[i], data, length - left[i] + 1,
                                      Least(left[i], Room(a.nodes[i])))]
               full == {i \in w..(n - 1) :
                          left[i] > 0 /\ Least(left[i], Room(a.nodes[i])) = Room(a.nodes[i])}
               next == MoveOn(c.writeNode, Cardinality(full), c.size)
               written == length - left[n]
    <2>2. WriteLoop(a, data) =
             [c EXCEPT !.nodes = made, !.writeNode = next,
                       !.availableSizeToRead = c.availableSizeToRead + written,
                       !.availableSizeToWrite = c.availableSizeToWrite - written]
      BY <2>1 DEF WriteLoop, c
    <2>3. made = nodes
      <3>1. length - left[w] + 1 = 1
        BY <2>1
      <3> QED
        BY <1>1, <1>2, <2>1, <3>1
    <2>4. next = w
      <3>1. Cardinality(full) = 0
        BY <2>1, FS_EmptySet
      <3> HIDE DEF full
      <3>2. next = MoveOn(w, 0, n)
        BY <1>2, <3>1
      <3> HIDE DEF next, w, n
      <3>3. w + 0 = w /\ w <= n - 1
        BY <1>1
      <3> QED
        BY <3>2, <3>3 DEF MoveOn, Least
    <2>5. /\ c.availableSizeToRead + written = read
          /\ c.availableSizeToWrite - written = write
      BY <1>1, <1>2, <2>1
    <2> HIDE DEF made, next, written, nodes, read, write
    <2>6. WriteLoop(a, data) = [c EXCEPT !.nodes = nodes, !.writeNode = w,
                                  !.availableSizeToRead = read,
                                  !.availableSizeToWrite = write]
      BY <2>2, <2>3, <2>4, <2>5
    <2>7. c \in ArraysOf(NodeLists)
      BY <1>3 DEF ByteArrays, ArraysOf
    <2>8. WriteLoop(a, data) \in
            [availableSizeToRead : {read}, availableSizeToWrite : {write},
             readNode : {c.readNode}, writeNode : {w}, size : {c.size}, nodes : {nodes}]
      BY <2>6, <2>7 DEF ArraysOf
    <2> QED
      BY <1>2, <2>8, RecordIs
  <1>6. /\ filled.size = n /\ filled.writeNode = w /\ filled.readNode = a.readNode
        /\ filled.availableSizeToRead = a.availableSizeToRead
        /\ filled.availableSizeToWrite = a.availableSizeToWrite
        /\ filled.nodes = [c.nodes EXCEPT ![w] = filledNode]
    BY <1>2, <1>3 DEF ByteArrays
  <1>7. filled.nodes[w] = filledNode /\ filledNode.end = node.end
    <2>1. filledNode.end = node.end
      BY <1>4 DEF Node
    <2> HIDE DEF filled, filledNode, w, n
    <2> QED
      BY <1>1, <1>3, <1>6, <2>1
  <1>8. \A i \in 0..(n - 1) : i < w => filled.nodes[i] = c.nodes[i]
    BY <1>1, <1>3, <1>6
  <1>9. WriterLeft(filled, length)[w] = length
    <2> HIDE DEF filled, filledNode, w, n, node, length
    <2>1. filled.writeNode \in Nat /\ filled.size = filled.writeNode + 1
      BY <1>1, <1>6
    <2>2. filled.nodes[filled.writeNode].end \in Nat
      BY <1>4, <1>6, <1>7
    <2>3. length \in Nat
      BY DEF length
    <2>4. WriterLeft(filled, length)[filled.writeNode] = length
      BY <2>1, <2>2, <2>3, WriterLeftFirst
    <2> QED
      BY <1>6, <2>4
  <1>10. Least(BufferNodeSize, (node.end + length) % LengthModulus) = node.end + length
    <2>1. node.end + length < LengthModulus
      <3>1. BufferNodeSize <= (MaxNodes + 1) * BufferNodeSize
        BY SizesAssumption
      <3>2. (MaxNodes + 1) * BufferNodeSize \in Nat
        BY SizesAssumption
      <3> QED
        BY <1>4, <3>1, <3>2, SizesAssumption
    <2>2. (node.end + length) % LengthModulus = node.end + length
      BY <1>4, <2>1, ModulusIs
    <2> QED
      BY <1>4, <2>2 DEF Least
  <1>11. WriterAdjustByteArray(filled, length) = result
    <2> DEFINE made == [i \in 0..(filled.size - 1) |->
                  IF i < filled.writeNode THEN filled.nodes[i]
                  ELSE [filled.nodes[i] EXCEPT !.end =
                          Least(BufferNodeSize,
                                (filled.nodes[i].end + WriterLeft(filled, length)[i])
                                % LengthModulus)]]
    <2>1. AllocIfNotEnough(filled, length) = filled
      <3>1. filled.availableSizeToWrite > length
        BY <1>1, <1>6
      <3> HIDE DEF filled, length
      <3> QED
        BY <3>1 DEF AllocIfNotEnough
    <2>2. WriterAdjustByteArray(filled, length) =
             [filled EXCEPT !.availableSizeToWrite = filled.availableSizeToWrite - length,
                            !.availableSizeToRead = filled.availableSizeToRead + length,
                            !.nodes = made, !.writeNode = filled.size - 1]
      BY <2>1 DEF WriterAdjustByteArray
    <2>3. [filledNode EXCEPT !.end = node.end + length] = Filled(node, data, 1, length)
      BY <1>4, FilledTo
    <2> HIDE DEF filled, filledNode, node
    <2>4. made = nodes
      <3>1. ASSUME NEW i \in 0..(n - 1) PROVE made[i] = nodes[i]
        <4>1. CASE i < w
          BY <1>6, <1>8, <4>1
        <4>2. CASE ~(i < w)
          <5>1. i = w
            BY <1>1, <4>2
          <5>2. made[i] = [filledNode EXCEPT !.end =
                             Least(BufferNodeSize, (node.end + length) % LengthModulus)]
            BY <1>6, <1>7, <1>9, <4>2, <5>1
          <5> QED
            BY <1>10, <2>3, <4>2, <5>1, <5>2
        <4> QED
          BY <4>1, <4>2
      <3> QED
        BY <1>6, <3>1
    <2> HIDE DEF made, nodes
    <2>5. WriterAdjustByteArray(filled, length) =
             [filled EXCEPT !.availableSizeToWrite = write, !.availableSizeToRead = read,
                            !.nodes = nodes, !.writeNode = w]
      BY <1>1, <1>6, <2>2, <2>4
    <2>6. filled \in ArraysOf({[c.nodes EXCEPT ![w] = filledNode]})
      BY <1>3, <1>6 DEF ByteArrays, ArraysOf, filled, filledNode
    <2>7. WriterAdjustByteArray(filled, length) \in
            [availableSizeToRead : {read}, availableSizeToWrite : {write},
             readNode : {filled.readNode}, writeNode : {w}, size : {filled.size},
             nodes : {nodes}]
      <3> HIDE DEF w, length, read, write
      <3> QED
        BY <2>5, <2>6 DEF ArraysOf
    <2>8. /\ filled.readNode = a.readNode /\ filled.size = n
      BY <1>6
    <2>9. WriterAdjustByteArray(filled, length) \in
            [availableSizeToRead : {read}, availableSizeToWrite : {write},
             readNode : {a.readNode}, writeNode : {w}, size : {n}, nodes : {nodes}]
      BY <2>7, <2>8
    <2> HIDE DEF read, write, w, n
    <2> QED
      BY <2>9, RecordIs
  <1> QED
    BY <1>5, <1>11 DEF Received, Put1, c, WriterVisits

(***************************************************************************)
(* Copies.                                                                 *)
(***************************************************************************)
\* No node is shared.
Untwinned(a) == \A i \in 0..(a.size - 1) : a.nodes[i].twin = NoTwin

\* Then no node loses its extents.
LEMMA UntwinnedKeeps ==
  ASSUME NEW a, Untwinned(a), NEW from, NEW used
  PROVE  ~LosesExtents(a, Visited(a, from, used))
  BY DEF Untwinned, LosesExtents, Visited

\* Nodes that are replaced are not shared.
LEMMA UntwinnedCow ==
  ASSUME NEW a, Typed(a), Untwinned(a), NEW visited, ~LosesExtents(a, visited),
         NEW i \in 0..(a.size - 1)
  PROVE  CowNodes(a, visited).nodes[i].twin = NoTwin
  <1>1. a.nodes[i] \in Node /\ a.nodes[i].twin = NoTwin
    BY NodesAre DEF Untwinned
  <1>2. CowNodes(a, visited).nodes[i] = IF i \in visited THEN Cow(a.nodes[i]) ELSE a.nodes[i]
    BY CowNodesIs
  <1>3. Cow(a.nodes[i]).twin = NoTwin
    BY <1>1, CowIs
  <1> QED
    BY <1>1, <1>2, <1>3

\* A head move shares no node that was not shared.
LEMMA UntwinnedMove ==
  ASSUME NEW a, Shape(a), Untwinned(a)
  PROVE  Untwinned(MoveBufferHead(a))
  <1>1. /\ a.readNode \in Nat /\ a.size \in Nat \ {0} /\ a.readNode <= a.writeNode
        /\ a.writeNode < a.size /\ a.readNode < a.size /\ Typed(a)
    BY PlacesAre DEF Shape
  <1>2. MoveBufferHead(a).size = a.size /\ MoveBufferHead(a).nodes = Moved(a)
    BY <1>1, MoveHeadFields
  <1>3. ASSUME NEW i \in 0..(a.size - 1) PROVE Moved(a)[i].twin = NoTwin
    <2>1. CASE i + a.readNode < a.size
      <3>1. i + a.readNode \in 0..(a.size - 1)
        BY <1>1, <2>1
      <3> QED
        BY <2>1, <3>1 DEF Untwinned, Moved
    <2>2. CASE ~(i + a.readNode < a.size)
      <3>1. i + a.readNode - a.size \in 0..(a.size - 1)
        BY <1>1, <2>2
      <3>2. Moved(a)[i] = Reset(a.nodes[i + a.readNode - a.size])
        BY <2>2 DEF Moved
      <3>3. a.nodes[i + a.readNode - a.size] \in Node
            /\ a.nodes[i + a.readNode - a.size].twin = NoTwin
        BY <1>1, <3>1, NodesAre DEF Untwinned
      <3> QED
        BY <3>2, <3>3, ResetIs
    <2> QED
      BY <2>1, <2>2
  <1> QED
    BY <1>2, <1>3 DEF Untwinned

\* Nor does an allocation.
LEMMA UntwinnedAlloc ==
  ASSUME NEW a, Shape(a), Untwinned(a), NEW size \in Nat
  PROVE  Untwinned(AllocIfNotEnough(a, size))
  <1> DEFINE b == MoveBufferHead(a)
             n == MoreNodes(b, size)
  <1>1. Shape(b) /\ Untwinned(b)
    BY MoveHeadShape, UntwinnedMove
  <1>2. Typed(b) /\ b.availableSizeToWrite \in Nat /\ b.size \in Nat \ {0}
    BY <1>1, PlacesAre DEF Shape
  <1>3. n \in Nat /\ n > b.size
    BY <1>2, MoreNodesIs
  <1>4. AllocIfNotEnough(a, size) =
            IF a.availableSizeToWrite > size THEN a
            ELSE IF b.availableSizeToWrite > size THEN b ELSE Grown(b, n)
    BY DEF AllocIfNotEnough, Grown
  <1> HIDE DEF b, n
  <1>5. Untwinned(Grown(b, n))
    <2>1. /\ Grown(b, n).size = n
          /\ \A i \in 0..(n - 1) :
                Grown(b, n).nodes[i] = IF i < b.size THEN b.nodes[i] ELSE EmptyNode
      BY <1>2, <1>3, GrownFields
    <2>2. ASSUME NEW i \in 0..(n - 1) PROVE Grown(b, n).nodes[i].twin = NoTwin
      <3>1. CASE i < b.size
        <4>1. i \in 0..(b.size - 1)
          BY <1>2, <3>1
        <4> QED
          BY <1>1, <2>1, <3>1, <4>1 DEF Untwinned
      <3>2. CASE ~(i < b.size)
        BY <2>1, <3>2, EmptyNodeIs
      <3> QED
        BY <3>1, <3>2
    <2> QED
      BY <2>1, <2>2 DEF Untwinned
  <1> QED
    BY <1>1, <1>4, <1>5

\* Nor a write ...
LEMMA UntwinnedWrite ==
  ASSUME NEW b, Shape(b), Untwinned(b), NEW data, DataOK(data),
         Len(data) < b.availableSizeToWrite
  PROVE  Untwinned(WriteLoop(b, data))
  <1> DEFINE visits == WriteVisits(b, Len(data))
             c == CowNodes(b, visits)
  <1>1. ~LosesExtents(b, visits)
    BY UntwinnedKeeps DEF WriteVisits
  <1>2. /\ WriteLoop(b, data).size = b.size
        /\ \A i \in 0..(b.size - 1) : WriteLoop(b, data).nodes[i] = Written(b, data, i)
    BY <1>1, WriteLoopFields
  <1>3. ASSUME NEW i \in 0..(b.size - 1) PROVE Written(b, data, i).twin = NoTwin
    <2>1. c.nodes[i].twin = NoTwin
      <3> HIDE DEF visits
      <3> QED
        BY <1>1, UntwinnedCow DEF Shape
    <2> DEFINE first == Len(data) - WriteLeft(b, Len(data))[i] + 1
               count == Put(b, Len(data), i)
    <2>2. Written(b, data, i) = IF i < b.writeNode THEN c.nodes[i]
                                ELSE Filled(c.nodes[i], data, first, count)
      BY DEF Written
    <2> HIDE DEF c, first, count
    <2>3. Filled(c.nodes[i], data, first, count).twin = c.nodes[i].twin
      BY DEF Filled
    <2> QED
      BY <2>1, <2>2, <2>3
  <1> QED
    BY <1>2, <1>3 DEF Untwinned

\* ... a retrieve ...
LEMMA UntwinnedRetrieve ==
  ASSUME NEW a, Shape(a), Untwinned(a), NEW length \in Nat,
         length <= a.availableSizeToRead
  PROVE  Untwinned(RetrieveRaw(a, length))
  <1> DEFINE visits == RetrieveVisits(a, length)
             c == CowNodes(a, visits)
  <1>1. ~LosesExtents(a, visits)
    BY UntwinnedKeeps DEF RetrieveVisits
  <1>2. /\ RetrieveRaw(a, length).size = a.size
        /\ \A i \in 0..(a.size - 1) : RetrieveRaw(a, length).nodes[i] = Rest(a, length, i)
    BY <1>1, RetrieveFields
  <1>3. ASSUME NEW i \in 0..(a.size - 1) PROVE Rest(a, length, i).twin = NoTwin
    <2>1. c.nodes[i].twin = NoTwin /\ c.nodes[i] \in Node
      <3>1. Typed(c) /\ c.size = a.size
        BY <1>1, CowNodesIs DEF Shape
      <3>2. c.nodes[i] \in Node
        BY <3>1, NodesAre
      <3> HIDE DEF visits
      <3> QED
        BY <1>1, <3>2, UntwinnedCow DEF Shape
    <2> DEFINE s == c.nodes[i].start + Taken(a, length, i)
    <2>2. Rest(a, length, i) = IF i \in a.readNode..(EndOfReadNode(a) - 1)
                               THEN [c.nodes[i] EXCEPT !.start = s] ELSE c.nodes[i]
      BY DEF Rest
    <2> HIDE DEF c, s
    <2>3. [c.nodes[i] EXCEPT !.start = s].twin = c.nodes[i].twin
      BY <2>1 DEF Node
    <2> QED
      BY <2>1, <2>2, <2>3
  <1> QED
    BY <1>2, <1>3 DEF Untwinned

\* ... or an exact transfer.
LEMMA UntwinnedAdvance ==
  ASSUME NEW a, Shape(a), Untwinned(a), NEW size \in Nat, ExactTransfer(a, size)
  PROVE  Untwinned(Advanced(a, size))
  <1> DEFINE n == AdjustedReadNode(a, size)
             visits == ReaderVisits(a) \cup {n}
             c == CowNodes(a, visits)
             d == Advanced(a, size)
  <1>1. ~LosesExtents(a, ReaderVisits(a))
    BY UntwinnedKeeps DEF ReaderVisits
  <1>2. n \in a.readNode..a.writeNode
    BY ExactIs
  <1>3. ~LosesExtents(a, visits)
    BY <1>1, <1>2, ReaderVisitsAre DEF LosesExtents
  <1>4. d.size = a.size
    BY <1>1, <1>2, AdvancedFields
  <1>5. Typed(c) /\ c.size = a.size /\ Typed(a)
    <2> HIDE DEF visits
    <2> QED
      BY <1>3, CowNodesIs DEF Shape
  <1>6. ASSUME NEW i \in 0..(a.size - 1) PROVE c.nodes[i].twin = NoTwin /\ c.nodes[i] \in Node
    <2> HIDE DEF visits
    <2> QED
      BY <1>3, <1>5, UntwinnedCow, NodesAre
  <1>7. \E v, x : d = [c EXCEPT !.readNode = n, !.availableSizeToRead = x,
                                !.nodes[n].start = v]
    <2>1. CASE size >= a.availableSizeToRead
      BY <2>1 DEF Advanced
    <2>2. CASE ~(size >= a.availableSizeToRead)
      BY <2>2 DEF Advanced
    <2> QED
      BY <2>1, <2>2
  <1>8. PICK v, x : d = [c EXCEPT !.readNode = n, !.availableSizeToRead = x,
                                  !.nodes[n].start = v]
    BY <1>7
  <1> DEFINE node == [c.nodes[n] EXCEPT !.start = v]
             nodes == [c.nodes EXCEPT ![n] = node]
  <1>9. c \in ByteArrays /\ c.nodes \in [0..(a.size - 1) -> Node]
    BY <1>5 DEF Typed
  <1> HIDE DEF c, n, d
  <1>10. d = [c EXCEPT !.readNode = n, !.availableSizeToRead = x, !.nodes = nodes]
    BY <1>8
  <1>11. node.twin = c.nodes[n].twin
    <2>1. n \in 0..(a.size - 1)
      BY <1>2, PlacesAre
    <2>2. c.nodes[n] \in Node
      BY <1>6, <2>1
    <2> QED
      BY <2>2 DEF Node
  <1> HIDE DEF node
  <1>12. \A i \in 0..(a.size - 1) : nodes[i] = IF i = n THEN node ELSE c.nodes[i]
    BY <1>9
  <1> HIDE DEF nodes
  <1>13. d.nodes = nodes
    BY <1>9, <1>10 DEF ByteArrays
  <1>14. ASSUME NEW i \in 0..(a.size - 1) PROVE d.nodes[i].twin = NoTwin
    BY <1>6, <1>11, <1>12, <1>13
  <1> QED
    BY <1>4, <1>14 DEF Untwinned, d

\* The nodes have the same bytes.
SameBuffers(a, d) == \A i \in 0..(a.size - 1) : d.nodes[i].buffer = a.nodes[i].buffer

\* The array with other twins.
Retwinned(a, t) ==
  [a EXCEPT !.nodes = [i \in 0..(a.size - 1) |-> [a.nodes[i] EXCEPT !.twin = t[i]]]]

\* Sharing the nodes with a copy, or ending that, keeps the shape.
LEMMA RetwinnedShape ==
  ASSUME NEW a, Shape(a), NEW t \in [0..(a.size - 1) -> NoTwin..(MaxNodes - 1)]
  PROVE  LET d == Retwinned(a, t)
         IN  /\ Shape(d) /\ d.size = a.size
             /\ d.availableSizeToRead = a.availableSizeToRead
             /\ StartOf(d) = StartOf(a)
             /\ \A i \in 0..(a.size - 1) : d.nodes[i].twin = t[i]
             /\ SameBuffers(a, d)
  <1> DEFINE d == Retwinned(a, t)
             node == [i \in 0..(a.size - 1) |-> [a.nodes[i] EXCEPT !.twin = t[i]]]
  <1>1. /\ a \in ByteArrays /\ a.size \in Nat \ {0}
        /\ \A i \in 0..(a.size - 1) : a.nodes[i] \in Node
    BY NodesAre DEF Shape, Typed
  <1>2. d = [a EXCEPT !.nodes = node]
    BY DEF Retwinned
  <1>3. ASSUME NEW i \in 0..(a.size - 1)
        PROVE  /\ node[i] \in Node
               /\ node[i].start = a.nodes[i].start /\ node[i].end = a.nodes[i].end
               /\ node[i].twin = t[i] /\ node[i].buffer = a.nodes[i].buffer
    <2>1. a.nodes[i] \in Node /\ t[i] \in NoTwin..(MaxNodes - 1)
      BY <1>1
    <2>2. node[i] = [a.nodes[i] EXCEPT !.twin = t[i]]
      OBVIOUS
    <2> HIDE DEF node
    <2> QED
      BY <2>1, <2>2 DEF Node
  <1>4. node \in [0..(a.size - 1) -> Node]
    BY <1>3
  <1>5. node \in NodeLists
    BY <1>1, <1>4 DEF NodeLists
  <1> HIDE DEF d, node
  <1>6. d \in ByteArrays
    BY <1>1, <1>2, <1>5 DEF ByteArrays
  <1>7. /\ d.nodes = node /\ d.size = a.size
        /\ d.readNode = a.readNode /\ d.writeNode = a.writeNode
        /\ d.availableSizeToRead = a.availableSizeToRead
        /\ d.availableSizeToWrite = a.availableSizeToWrite
    BY <1>1, <1>2 DEF ByteArrays
  <1>8. Typed(d)
    BY <1>1, <1>4, <1>6, <1>7 DEF Typed
  <1>9. a.readNode \in 0..(a.size - 1) /\ a.writeNode \in 0..(a.size - 1)
    BY PlacesAre
  <1>10. Extents(d)
    <2>1. Extents(a) /\ a.readNode \in Nat /\ a.writeNode \in Nat /\ a.writeNode < a.size
      BY <1>9, PlacesAre DEF Shape
    <2>2. ASSUME NEW i \in a.readNode..(a.writeNode - 1) PROVE d.nodes[i].end = BufferNodeSize
      <3>1. i \in 0..(a.size - 1)
        BY <1>1, <2>1
      <3>2. a.nodes[i].end = BufferNodeSize
        BY <2>1 DEF Extents
      <3> QED
        BY <1>3, <1>7, <3>1, <3>2
    <2>3. ASSUME NEW i \in (a.readNode + 1)..(a.size - 1) PROVE d.nodes[i].start = 0
      <3>1. i \in 0..(a.size - 1)
        BY <1>1, <2>1
      <3>2. a.nodes[i].start = 0
        BY <2>1 DEF Extents
      <3> QED
        BY <1>3, <1>7, <3>1, <3>2
    <2>4. ASSUME NEW i \in (a.writeNode + 1)..(a.size - 1) PROVE d.nodes[i].end = 0
      <3>1. i \in 0..(a.size - 1)
        BY <1>1, <2>1
      <3>2. a.nodes[i].end = 0
        BY <2>1 DEF Extents
      <3> QED
        BY <1>3, <1>7, <3>1, <3>2
    <2>5. /\ d.nodes[a.readNode].start <= d.nodes[a.readNode].end
          /\ d.nodes[a.writeNode].end < BufferNodeSize
      BY <1>3, <1>7, <1>9, <2>1 DEF Extents
    <2> QED
      BY <1>7, <2>1, <2>2, <2>3, <2>4, <2>5 DEF Extents
  <1>11. StartOf(d) = StartOf(a) /\ EndOf(d) = EndOf(a)
    BY <1>3, <1>7, <1>9 DEF StartOf, EndOf
  <1>12. Counted(d)
    BY <1>7, <1>11 DEF Counted, Shape
  <1>13. SameBuffers(a, d)
    BY <1>3, <1>7 DEF SameBuffers
  <1> QED
    BY <1>3, <1>7, <1>8, <1>10, <1>11, <1>12, <1>13 DEF Shape, d

(***************************************************************************)
(* The invariant.                                                          *)
(***************************************************************************)
ArrayInv ==
    /\ nextByte \in Bytes /\ checked \in 0..MaxLength
    /\ ~lost /\ ~crossed => Shape(array) /\ array.size <= MaxNodes
    /\ lost => passive # {}
    /\ passive = {} /\ ~crossed => Untwinned(array)
    /\ checked > 0 /\ ~overtaken /\ ~lost /\ ~crossed =>
          array.availableSizeToRead >= checked

\* A new ByteArray has it.
LEMMA ArrayInvInit == ArrayInit => ArrayInv
  <1> SUFFICES ASSUME ArrayInit PROVE ArrayInv
    OBVIOUS
  <1> DEFINE nodes == [i \in 0..(1 - 1) |-> EmptyNode]
  <1>1. /\ array = [availableSizeToRead  |-> 0, availableSizeToWrite |-> BufferNodeSize,
                    readNode |-> 0, writeNode |-> 0, size |-> 1, nodes |-> nodes]
        /\ nextByte = 0 /\ checked = 0 /\ lost = FALSE
    <2>1. 0..(1 - 1) = {0}
      OBVIOUS
    <2> QED
      BY <2>1 DEF ArrayInit
  <1>2. EmptyNode \in Node /\ EmptyNode.start = 0 /\ EmptyNode.end = 0 /\ EmptyNode.twin = NoTwin
    BY EmptyNodeIs
  <1>3. nodes \in [0..(1 - 1) -> Node] /\ nodes[0] = EmptyNode /\ \A i \in 0..(1 - 1) : i = 0
    BY <1>2
  <1> HIDE DEF nodes
  <1>4. 0 \in Nat /\ BufferNodeSize \in Nat /\ 1 \in Nat \ {0}
    OBVIOUS
  <1>5. Typed(array)
    BY <1>1, <1>3, <1>4, TypedIs
  <1>6. /\ array.readNode = 0 /\ array.writeNode = 0 /\ array.size = 1
        /\ array.availableSizeToRead = 0 /\ array.availableSizeToWrite = BufferNodeSize
        /\ array.nodes = nodes
    BY <1>1
  <1>7. Extents(array)
    BY <1>2, <1>3, <1>6 DEF Extents
  <1>8. Counted(array)
    <2>1. 0 * BufferNodeSize = 0 /\ 1 * BufferNodeSize = BufferNodeSize
      OBVIOUS
    <2>2. EndOf(array) = 0 /\ StartOf(array) = 0
      BY <1>2, <1>3, <1>6, <2>1 DEF EndOf, StartOf
    <2> QED
      BY <1>6, <2>1, <2>2 DEF Counted
  <1>9. Untwinned(array)
    BY <1>2, <1>3, <1>6 DEF Untwinned
  <1>10. nextByte \in Bytes /\ checked \in 0..MaxLength
    BY <1>1, SizesAssumption DEF Bytes
  <1>11. 1 <= MaxNodes
    BY SizesAssumption
  <1> QED
    BY <1>1, <1>5, <1>6, <1>7, <1>8, <1>9, <1>10, <1>11 DEF ArrayInv, Shape

\* The copy is there as long as it was.
LEMMA PassiveIs ==
  ASSUME NEW a
  PROVE  Passive(a) = {} <=> passive = {}
  <1> DEFINE Now(copy) ==
               [copy EXCEPT !.nodes = [j \in DOMAIN copy.nodes |->
                  IF \E i \in DOMAIN a.nodes : a.nodes[i].twin = j
                  THEN [a.nodes[CHOOSE i \in DOMAIN a.nodes : a.nodes[i].twin = j]
                          EXCEPT !.twin = NoTwin]
                  ELSE copy.nodes[j]]]
  <1>1. Passive(a) = {Now(copy) : copy \in passive}
    BY DEF Passive
  <1> HIDE DEF Now
  <1> QED
    BY <1>1

\* The bytes of a write are bytes.
LEMMA DataFromIs ==
  ASSUME NEW b \in Nat, NEW length \in Nat, b + length <= MaxBytes
  PROVE  DataOK(DataFrom(b, length)) /\ Len(DataFrom(b, length)) = length
  <1>1. Len(DataFrom(b, length)) = length
    BY DEF DataFrom
  <1>2. ASSUME NEW k \in 1..length PROVE DataFrom(b, length)[k] \in Bytes
    <2>1. DataFrom(b, length)[k] = b + k
      BY DEF DataFrom
    <2> QED
      BY <2>1, SizesAssumption DEF Bytes
  <1> QED
    BY <1>1, <1>2 DEF DataOK

\* Writing keeps the invariant.
LEMMA WriteInv ==
  ASSUME ArrayInv, NEW length \in WriteLengths, Write(length)
  PROVE  ArrayInv'
  <1> DEFINE data == DataFrom(nextByte, length)
             b == AllocIfNotEnough(array, length)
             d == WriteLoop(b, data)
             loses == LosesExtents(b, WriteVisits(b, length))
  <1>1. length \in Nat /\ nextByte \in Nat /\ MaxBytes \in Nat
    BY SizesAssumption DEF WriteLengths, ArrayInv, Bytes
  <1>2. /\ ~crossed /\ nextByte + length <= MaxBytes /\ d.size <= MaxNodes
        /\ array' = d /\ nextByte' = nextByte + length
        /\ passive' = Passive(d) /\ lost' = (lost \/ loses)
        /\ checked' = checked /\ overtaken' = overtaken /\ crossed' = crossed
    <2>1. Len(data) = length
      <3>1. nextByte + length <= MaxBytes
        BY DEF Write
      <3> QED
        BY <1>1, <3>1, DataFromIs
    <2> HIDE DEF data
    <2>2. WriteRaw(array, data) = d
      BY <2>1 DEF WriteRaw
    <2> QED
      BY <2>2 DEF Write, readerVars, data
  <1>3. DataOK(data) /\ Len(data) = length
    BY <1>1, <1>2, DataFromIs
  <1>4. passive' = {} <=> passive = {}
    BY <1>2, PassiveIs
  <1>5. ASSUME ~lost
        PROVE  /\ Shape(b) /\ length < b.availableSizeToWrite
               /\ b.availableSizeToRead = array.availableSizeToRead
               /\ Shape(array) /\ array.availableSizeToRead \in Nat
    <2>1. Shape(array)
      BY <1>2, <1>5 DEF ArrayInv
    <2>2. /\ Shape(b) /\ b.availableSizeToWrite > length
          /\ b.availableSizeToRead = array.availableSizeToRead
      BY <1>1, <2>1, AllocShape
    <2>3. b.availableSizeToWrite \in Nat /\ array.availableSizeToRead \in Nat
      BY <2>1, <2>2, PlacesAre
    <2> QED
      BY <1>1, <2>1, <2>2, <2>3
  <1>6. ASSUME passive = {}
        PROVE  ~lost /\ ~loses /\ Untwinned(d)
    <2>1. ~lost /\ Untwinned(array)
      BY <1>2, <1>6 DEF ArrayInv
    <2>2. Untwinned(b)
      BY <1>1, <1>5, <2>1, UntwinnedAlloc
    <2>3. Untwinned(d)
      BY <1>3, <1>5, <2>1, <2>2, UntwinnedWrite
    <2>4. ~loses
      BY <2>2, UntwinnedKeeps DEF WriteVisits
    <2> QED
      BY <2>1, <2>3, <2>4
  <1>7. ASSUME ~lost, ~loses
        PROVE  Shape(d) /\ d.availableSizeToRead = array.availableSizeToRead + length
    BY <1>3, <1>5, <1>7, WriteLoopShape
  <1> HIDE DEF b, d, data, loses
  <1>8. nextByte' \in Bytes /\ checked' \in 0..MaxLength
    BY <1>1, <1>2 DEF ArrayInv, Bytes
  <1>9. ~lost' /\ ~crossed' => Shape(array') /\ array'.size <= MaxNodes
    BY <1>2, <1>7
  <1>10. lost' => passive' # {}
    BY <1>2, <1>4, <1>6 DEF ArrayInv
  <1>11. passive' = {} /\ ~crossed' => Untwinned(array')
    BY <1>2, <1>4, <1>6
  <1>12. ASSUME checked' > 0, ~overtaken', ~lost', ~crossed'
         PROVE  array'.availableSizeToRead >= checked'
    <2>1. ~lost /\ ~loses
      BY <1>2, <1>12
    <2>4. checked \in Nat
      BY SizesAssumption DEF ArrayInv
    <2>2. array.availableSizeToRead >= checked
      BY <1>2, <1>12, <2>1 DEF ArrayInv
    <2>3. d.availableSizeToRead = array.availableSizeToRead + length
          /\ array.availableSizeToRead \in Nat
      BY <1>5, <1>7, <2>1
    <2> QED
      BY <1>1, <1>2, <2>2, <2>3, <2>4
  <1> QED
    BY <1>8, <1>9, <1>10, <1>11, <1>12 DEF ArrayInv, Shape, Typed, Extents, Counted,
       StartOf, EndOf, Untwinned, ByteArrays, NodeLists, Node, Bytes, Offsets, NoTwin

\* A fill writes what it brought, or is not followed further.
LEMMA FillIsWrite ==
  ASSUME ArrayInv, NEW length \in WriteLengths, SocketFills(length)
  PROVE  \/ Write(length)
         \/ /\ ~crossed /\ ~lost /\ crossed' /\ out' = <<>>
            /\ array' = array /\ nextByte' = nextByte /\ passive' = passive
            /\ lost' = lost /\ checked' = checked /\ overtaken' = overtaken
  <1> DEFINE data == DataFrom(nextByte, length)
             w == array.writeNode
  <1>1. /\ ~crossed /\ ~lost /\ out' = <<>>
        /\ checked' = checked /\ overtaken' = overtaken
    BY DEF SocketFills, readerVars
  <1>2. Shape(array) /\ array.size <= MaxNodes
    BY <1>1 DEF ArrayInv
  <1>3. length \in Nat /\ nextByte \in Nat
    BY SizesAssumption DEF WriteLengths, ArrayInv, Bytes
  <1>4. CASE ExactFill(array, length)
    <2>1. /\ nextByte + length <= MaxBytes
          /\ array' = Received(array, data) /\ nextByte' = nextByte + length
          /\ passive' = Passive(array') /\ crossed' = crossed
          /\ lost' = LosesExtents(array, WriterVisits(array))
      BY <1>4 DEF SocketFills
    <2>2. w = array.size - 1 /\ length < array.availableSizeToWrite
      BY <1>4 DEF ExactFill
    <2>3. Len(data) = length
      BY <1>3, <2>1, DataFromIs
    <2>4. length < Room(array.nodes[w])
      <3>1. /\ array.size \in Nat /\ w \in Nat /\ w \in 0..(array.size - 1)
            /\ array.nodes[w] \in Node
            /\ array.availableSizeToWrite = array.size * BufferNodeSize - EndOf(array)
            /\ array.availableSizeToWrite \in Nat
        BY <1>2, <2>2, PlacesAre, NodesAre DEF Shape
      <3>2. array.size * BufferNodeSize = w * BufferNodeSize + BufferNodeSize
        <4>1. array.size = w + 1
          BY <2>2, <3>1
        <4> QED
          BY <3>1, <4>1, TimesIs
      <3>3. w * BufferNodeSize \in Nat /\ array.nodes[w].end \in Nat
        BY <3>1, TimesIs, NodeIs
      <3>4. array.availableSizeToWrite = BufferNodeSize - array.nodes[w].end
        BY <3>1, <3>2, <3>3 DEF EndOf
      <3>5. Cow(array.nodes[w]).end \in Nat /\ Cow(array.nodes[w]).end <= array.nodes[w].end
        BY <3>1, <3>3, CowIs
      <3> HIDE DEF w
      <3> QED
        BY <1>3, <2>2, <3>1, <3>3, <3>4, <3>5 DEF Room
    <2>5. AllocIfNotEnough(array, length) = array
      <3>1. array.availableSizeToWrite > length
        BY <2>2
      <3> QED
        BY <3>1 DEF AllocIfNotEnough
    <2> HIDE DEF data
    <2>6. Received(array, data) = WriteLoop(array, data)
      <3>1. Typed(array) /\ Len(data) \in Nat
        BY <1>2, <1>3, <2>3 DEF Shape
      <3> QED
        BY <2>2, <2>3, <2>4, <3>1, ReceivedIsWritten
    <2>7. WriteRaw(array, data) = array'
      BY <2>1, <2>3, <2>5, <2>6 DEF WriteRaw
    <2>8. WriteVisits(array, length) = WriterVisits(array)
      BY <1>2, <2>2, FillVisitsAre DEF Shape
    <2>9. lost' = (lost \/ LosesExtents(array, WriteVisits(array, length)))
      <3> DEFINE X == LosesExtents(array, WriterVisits(array))
      <3>1. X \in BOOLEAN /\ lost' = X
        BY <2>1 DEF LosesExtents
      <3>2. LosesExtents(array, WriteVisits(array, length)) = X
        BY <2>8
      <3> HIDE DEF X
      <3>3. lost' = (lost \/ X)
        BY <1>1, <3>1
      <3> QED
        BY <3>2, <3>3
    <2>10. array'.size <= MaxNodes
      <3> DEFINE c == CowNodes(array, WriteVisits(array, Len(data)))
      <3>1. c \in ByteArrays /\ c.size = array.size
        BY <1>2, CowNodesFields DEF Shape, Typed
      <3> HIDE DEF c
      <3>2. WriteLoop(array, data).size = c.size
        BY <3>1 DEF WriteLoop, ByteArrays, c
      <3> QED
        BY <1>2, <2>1, <2>6, <3>1, <3>2
    <2> QED
      BY <1>1, <2>1, <2>5, <2>7, <2>9, <2>10 DEF Write, readerVars, data
  <1>5. CASE ~ExactFill(array, length)
    BY <1>1, <1>5 DEF SocketFills
  <1> QED
    BY <1>4, <1>5

\* Filling keeps the invariant.
LEMMA FillInv ==
  ASSUME ArrayInv, NEW length \in WriteLengths, SocketFills(length)
  PROVE  ArrayInv'
  <1>1. CASE Write(length)
    BY <1>1, WriteInv
  <1>2. CASE /\ ~crossed /\ ~lost /\ crossed'
             /\ array' = array /\ nextByte' = nextByte /\ passive' = passive
             /\ lost' = lost /\ checked' = checked /\ overtaken' = overtaken
    <2>1. nextByte \in Bytes /\ checked \in 0..MaxLength
      BY DEF ArrayInv
    <2>2. nextByte' \in Bytes /\ checked' \in 0..MaxLength /\ ~lost' /\ crossed'
      BY <1>2, <2>1 DEF Bytes
    <2> QED
      BY <2>2 DEF ArrayInv, Bytes
  <1> QED
    BY <1>1, <1>2, FillIsWrite

\* What a retrieve does, whoever makes it.
LEMMA RetrieveInv ==
  ASSUME ArrayInv, NEW length \in Nat, Retrieve(length)
  PROVE  /\ nextByte' \in Bytes
         /\ ~lost' /\ ~crossed' => Shape(array') /\ array'.size <= MaxNodes
         /\ lost' => passive' # {}
         /\ passive' = {} /\ ~crossed' => Untwinned(array')
  <1> DEFINE d == RetrieveRaw(array, length)
             loses == LosesExtents(array, RetrieveVisits(array, length))
  <1>1. /\ ~crossed /\ crossed' = crossed /\ nextByte' = nextByte
        /\ passive' = Passive(array')
    BY DEF Retrieve
  <1>2. passive' = {} <=> passive = {}
    BY <1>1, PassiveIs
  <1>3. /\ nextByte \in Bytes
        /\ lost => passive # {}
        /\ ~lost => Shape(array) /\ array.size <= MaxNodes
        /\ passive = {} => Untwinned(array)
    BY <1>1 DEF ArrayInv
  <1>4. CASE /\ array.availableSizeToRead >= length
             /\ array' = d /\ lost' = (lost \/ loses)
    <2>1. array' = d /\ lost' = (lost \/ loses)
      BY <1>4
    <2>2. ~lost => length <= array.availableSizeToRead
      BY <1>3, <1>4, PlacesAre
    <2>3. ASSUME ~lost, ~loses PROVE Shape(d) /\ d.size = array.size
      BY <1>3, <2>2, <2>3, RetrieveShape
    <2>4. ASSUME passive = {} PROVE ~lost /\ ~loses /\ Untwinned(d)
      <3>1. ~lost /\ Untwinned(array)
        BY <1>3, <2>4
      <3>2. ~loses
        BY <3>1, UntwinnedKeeps DEF RetrieveVisits
      <3>3. Untwinned(d)
        BY <1>3, <2>2, <3>1, UntwinnedRetrieve
      <3> QED
        BY <3>1, <3>2, <3>3
    <2> HIDE DEF d, loses
    <2>5. nextByte' \in Bytes
      BY <1>1, <1>3 DEF Bytes
    <2>6. ~lost' /\ ~crossed' => Shape(array') /\ array'.size <= MaxNodes
      BY <1>3, <2>1, <2>3
    <2>7. lost' => passive' # {}
      BY <1>2, <2>1, <2>4
    <2>8. passive' = {} /\ ~crossed' => Untwinned(array')
      BY <1>2, <2>1, <2>4
    <2> QED
      BY <2>5, <2>6, <2>7, <2>8
  <1>5. CASE array' = array /\ lost' = lost
    <2>1. nextByte' \in Bytes
      BY <1>1, <1>3 DEF Bytes
    <2>2. ~lost' /\ ~crossed' => Shape(array') /\ array'.size <= MaxNodes
      BY <1>3, <1>5
    <2>3. lost' => passive' # {}
      BY <1>2, <1>3, <1>5
    <2>4. passive' = {} /\ ~crossed' => Untwinned(array')
      BY <1>2, <1>3, <1>5
    <2> QED
      BY <2>1, <2>2, <2>3, <2>4
  <1> QED
    BY <1>4, <1>5 DEF Retrieve

\* A transfer keeps the invariant, as far as it is followed.
LEMMA TransferInv ==
  ASSUME ArrayInv, NEW size \in Nat, SocketTransfers(size)
  PROVE  ArrayInv'
  <1> DEFINE a == Advanced(array, size)
             d == AdjustByteArray(array, size)
             loses == LosesExtents(array, ReaderVisits(array))
  <1>1. /\ ~crossed /\ ~lost /\ nextByte' = nextByte /\ checked' = checked
        /\ overtaken' = (checked > 0)
    BY DEF SocketTransfers
  <1>2. /\ nextByte \in Bytes /\ checked \in 0..MaxLength
        /\ Shape(array) /\ array.size <= MaxNodes
        /\ passive = {} => Untwinned(array)
    BY <1>1 DEF ArrayInv
  <1>3. CASE ExactTransfer(array, size)
    <2>1. array' = d /\ lost' = loses /\ passive' = Passive(d)
      BY <1>3 DEF SocketTransfers
    <2>2. passive' = {} <=> passive = {}
      BY <2>1, PassiveIs
    <2>3. d = MoveBufferHead(a)
      BY DEF AdjustByteArray
    <2>4. ASSUME ~loses PROVE Shape(a) /\ a.size = array.size
      BY <1>2, <1>3, <2>4, AdvancedShape
    <2>5. ASSUME ~loses PROVE Shape(d) /\ d.size = array.size
      <3> HIDE DEF a, d
      <3> QED
        BY <2>3, <2>4, <2>5, MoveHeadShape
    <2>6. ASSUME passive = {} PROVE ~loses /\ Untwinned(d)
      <3>1. Untwinned(array)
        BY <1>2, <2>6
      <3>2. ~loses
        BY <3>1, UntwinnedKeeps DEF ReaderVisits
      <3>3. Untwinned(a)
        BY <1>2, <1>3, <3>1, UntwinnedAdvance
      <3> HIDE DEF a, d, loses
      <3> QED
        BY <2>3, <2>4, <3>2, <3>3, UntwinnedMove
    <2> HIDE DEF a, d, loses
    <2>7. nextByte' \in Bytes /\ checked' \in 0..MaxLength
      BY <1>1, <1>2 DEF Bytes
    <2>8. ~lost' /\ ~crossed' => Shape(array') /\ array'.size <= MaxNodes
      BY <1>2, <2>1, <2>5
    <2>9. lost' => passive' # {}
      BY <2>1, <2>2, <2>6
    <2>10. passive' = {} /\ ~crossed' => Untwinned(array')
      BY <2>1, <2>2, <2>6
    <2>11. checked' > 0 => overtaken'
      BY <1>1
    <2> QED
      BY <2>7, <2>8, <2>9, <2>10, <2>11 DEF ArrayInv, Shape, Typed, Extents, Counted,
         StartOf, EndOf, Untwinned, ByteArrays, NodeLists, Node, Bytes, Offsets, NoTwin
  <1>4. CASE ~ExactTransfer(array, size)
    <2>1. crossed' /\ lost' = lost
      BY <1>4 DEF SocketTransfers
    <2> QED
      BY <1>1, <1>2, <2>1 DEF ArrayInv, Bytes
  <1> QED
    BY <1>3, <1>4

\* Copying keeps the invariant.
LEMMA CopyInv ==
  ASSUME ArrayInv, Copy
  PROVE  ArrayInv'
  <1> DEFINE t == [i \in 0..(array.size - 1) |-> i]
             d == Retwinned(array, t)
  <1>1. /\ ~lost /\ ~crossed /\ passive' = {array} /\ nextByte' = nextByte
        /\ checked' = checked /\ overtaken' = overtaken /\ lost' = lost /\ crossed' = crossed
    BY DEF Copy, readerVars
  <1>2. /\ nextByte \in Bytes /\ checked \in 0..MaxLength
        /\ Shape(array) /\ array.size <= MaxNodes
        /\ (checked > 0 /\ ~overtaken => array.availableSizeToRead >= checked)
    BY <1>1 DEF ArrayInv
  <1>3. array.size \in Nat /\ DOMAIN array.nodes = 0..(array.size - 1)
    BY <1>2 DEF Shape, Typed, ByteArrays
  <1>4. array' = d
    <2>1. array' = [array EXCEPT !.nodes = [i \in 0..(array.size - 1) |->
                                              [array.nodes[i] EXCEPT !.twin = i]]]
      BY <1>3 DEF Copy
    <2>2. \A i \in 0..(array.size - 1) : t[i] = i
      OBVIOUS
    <2> HIDE DEF t
    <2> QED
      BY <2>1, <2>2 DEF Retwinned
  <1>5. t \in [0..(array.size - 1) -> NoTwin..(MaxNodes - 1)]
    BY <1>2, <1>3, SizesAssumption DEF NoTwin
  <1> HIDE DEF t
  <1>6. /\ Shape(d) /\ d.size = array.size
        /\ d.availableSizeToRead = array.availableSizeToRead
    BY <1>2, <1>5, RetwinnedShape
  <1> HIDE DEF d
  <1>7. nextByte' \in Bytes /\ checked' \in 0..MaxLength
    BY <1>1, <1>2 DEF Bytes
  <1>8. Shape(array') /\ array'.size <= MaxNodes
    BY <1>2, <1>4, <1>6
  <1>9. passive' # {}
    BY <1>1
  <1>10. checked' > 0 /\ ~overtaken' => array'.availableSizeToRead >= checked'
    BY <1>1, <1>2, <1>4, <1>6
  <1> QED
    BY <1>7, <1>8, <1>9, <1>10 DEF ArrayInv, Shape, Typed, Extents, Counted,
       StartOf, EndOf, Untwinned, ByteArrays, NodeLists, Node, Bytes, Offsets, NoTwin

\* So does the end of the copy.
LEMMA DestroyCopyInv ==
  ASSUME ArrayInv, DestroyCopy
  PROVE  ArrayInv'
  <1> DEFINE t == [i \in 0..(array.size - 1) |-> NoTwin]
             d == Retwinned(array, t)
  <1>1. /\ ~lost /\ ~crossed /\ nextByte' = nextByte
        /\ checked' = checked /\ overtaken' = overtaken /\ lost' = lost /\ crossed' = crossed
    BY DEF DestroyCopy, readerVars
  <1>2. /\ nextByte \in Bytes /\ checked \in 0..MaxLength
        /\ Shape(array) /\ array.size <= MaxNodes
        /\ (checked > 0 /\ ~overtaken => array.availableSizeToRead >= checked)
    BY <1>1 DEF ArrayInv
  <1>3. array.size \in Nat /\ DOMAIN array.nodes = 0..(array.size - 1)
    BY <1>2 DEF Shape, Typed, ByteArrays
  <1>4. array' = d
    <2>1. array' = [array EXCEPT !.nodes = [i \in 0..(array.size - 1) |->
                                              [array.nodes[i] EXCEPT !.twin = NoTwin]]]
      BY <1>3 DEF DestroyCopy
    <2>2. \A i \in 0..(array.size - 1) : t[i] = NoTwin
      OBVIOUS
    <2> HIDE DEF t
    <2> QED
      BY <2>1, <2>2 DEF Retwinned
  <1>5. t \in [0..(array.size - 1) -> NoTwin..(MaxNodes - 1)]
    BY SizesAssumption DEF NoTwin
  <1>5a. \A i \in 0..(array.size - 1) : t[i] = NoTwin
    OBVIOUS
  <1> HIDE DEF t
  <1>6. Shape(d) /\ d.size = array.size /\ d.availableSizeToRead = array.availableSizeToRead
    BY <1>2, <1>5, RetwinnedShape
  <1>6a. Untwinned(d)
    <2>1. \A i \in 0..(array.size - 1) : d.nodes[i].twin = t[i]
      BY <1>2, <1>5, RetwinnedShape
    <2> QED
      BY <1>5a, <1>6, <2>1 DEF Untwinned
  <1> HIDE DEF d
  <1>7. nextByte' \in Bytes /\ checked' \in 0..MaxLength
    BY <1>1, <1>2 DEF Bytes
  <1>8. Shape(array') /\ array'.size <= MaxNodes /\ Untwinned(array')
    BY <1>2, <1>4, <1>6, <1>6a
  <1>9. ~lost'
    BY <1>1
  <1>10. checked' > 0 /\ ~overtaken' => array'.availableSizeToRead >= checked'
    BY <1>1, <1>2, <1>4, <1>6
  <1> QED
    BY <1>7, <1>8, <1>9, <1>10 DEF ArrayInv, Shape, Typed, Extents, Counted,
       StartOf, EndOf, Untwinned, ByteArrays, NodeLists, Node, Bytes, Offsets, NoTwin

\* A reader that looks first keeps it, ...
LEMMA ReaderChecksInv ==
  ASSUME ArrayInv, NEW length \in RetrieveLengths, ReaderChecks(length)
  PROVE  ArrayInv'
  <1>1. /\ array' = array /\ nextByte' = nextByte /\ passive' = passive
        /\ lost' = lost /\ crossed' = crossed /\ checked' = length
        /\ array.availableSizeToRead >= length
    BY DEF ReaderChecks
  <1>2. checked' \in 0..MaxLength
    BY <1>1 DEF RetrieveLengths
  <1> QED
    BY <1>1, <1>2 DEF ArrayInv, Shape, Typed, Extents, Counted, StartOf, EndOf,
       Untwinned, ByteArrays, NodeLists, Node, Bytes, Offsets, NoTwin

\* ... when it takes what it found ...
LEMMA ReaderRetrievesInv ==
  ASSUME ArrayInv, ReaderRetrieves
  PROVE  ArrayInv'
  <1>1. Retrieve(checked) /\ checked' = 0
    BY DEF ReaderRetrieves
  <1>2. checked \in Nat
    BY SizesAssumption DEF ArrayInv
  <1>3. /\ nextByte' \in Bytes
        /\ ~lost' /\ ~crossed' => Shape(array') /\ array'.size <= MaxNodes
        /\ lost' => passive' # {}
        /\ passive' = {} /\ ~crossed' => Untwinned(array')
    BY <1>1, <1>2, RetrieveInv
  <1>4. checked' \in 0..MaxLength /\ ~(checked' > 0)
    BY <1>1, SizesAssumption
  <1> QED
    BY <1>3, <1>4 DEF ArrayInv, Shape, Typed, Extents, Counted, StartOf, EndOf,
       Untwinned, ByteArrays, NodeLists, Node, Bytes, Offsets, NoTwin

\* ... and when someone else takes something.
LEMMA OtherRetrievesInv ==
  ASSUME ArrayInv, NEW length \in RetrieveLengths, OtherRetrieves(length)
  PROVE  ArrayInv'
  <1>1. /\ Retrieve(length) /\ checked' = checked
        /\ overtaken' = (checked > 0 /\ (overtaken \/ array' # array))
    BY DEF OtherRetrieves
  <1>2. length \in Nat
    BY SizesAssumption DEF RetrieveLengths
  <1>3. /\ nextByte' \in Bytes
        /\ ~lost' /\ ~crossed' => Shape(array') /\ array'.size <= MaxNodes
        /\ lost' => passive' # {}
        /\ passive' = {} /\ ~crossed' => Untwinned(array')
    BY <1>1, <1>2, RetrieveInv
  <1>4. checked' \in 0..MaxLength
    BY <1>1 DEF ArrayInv
  <1>5. lost => lost'
    BY <1>1 DEF Retrieve
  <1>6. crossed' = crossed
    BY <1>1 DEF Retrieve
  <1>7. ASSUME checked' > 0, ~overtaken', ~lost', ~crossed'
        PROVE  array'.availableSizeToRead >= checked'
    <2>1. array' = array /\ ~overtaken
      BY <1>1, <1>7
    <2> QED
      BY <1>1, <1>5, <1>6, <1>7, <2>1 DEF ArrayInv
  <1> QED
    BY <1>3, <1>4, <1>7 DEF ArrayInv, Shape, Typed, Extents, Counted, StartOf, EndOf,
       Untwinned, ByteArrays, NodeLists, Node, Bytes, Offsets, NoTwin

\* Every step keeps the invariant.
LEMMA ArrayInvNext == ArrayInv /\ [ArrayNext]_arrayVars => ArrayInv'
  <1> SUFFICES ASSUME ArrayInv, [ArrayNext]_arrayVars PROVE ArrayInv'
    OBVIOUS
  <1>1. ASSUME NEW length \in WriteLengths, Write(length) PROVE ArrayInv'
    BY <1>1, WriteInv
  <1>2. ASSUME NEW length \in RetrieveLengths, OtherRetrieves(length) PROVE ArrayInv'
    BY <1>2, OtherRetrievesInv
  <1>3. ASSUME NEW length \in RetrieveLengths, ReaderChecks(length) PROVE ArrayInv'
    BY <1>3, ReaderChecksInv
  <1>4. CASE ReaderRetrieves
    BY <1>4, ReaderRetrievesInv
  <1>5. ASSUME NEW size \in 0..(MaxNodes * BufferNodeSize), SocketTransfers(size)
        PROVE  ArrayInv'
    <2>1. size \in Nat
      BY SizesAssumption
    <2> QED
      BY <1>5, <2>1, TransferInv
  <1>5a. ASSUME NEW length \in WriteLengths, SocketFills(length) PROVE ArrayInv'
    BY <1>5a, FillInv
  <1>6. CASE Copy
    BY <1>6, CopyInv
  <1>7. CASE DestroyCopy
    BY <1>7, DestroyCopyInv
  <1>8. CASE UNCHANGED arrayVars
    BY <1>8 DEF arrayVars, ArrayInv, Shape, Typed, Extents, Counted, StartOf, EndOf,
       Untwinned, ByteArrays, NodeLists, Node, Bytes, Offsets, NoTwin
  <1> QED
    BY <1>1, <1>2, <1>3, <1>4, <1>5, <1>6, <1>7, <1>8, <1>5a DEF ArrayNext

\* ByteArray.h: until a node loses its extents to BufferNode's copy constructor,
\* or a socket's transfer or fill is none of those ExactTransfer and ExactFill
\* name, the nodes hold one run of readable bytes and the counters say how long
\* it is, whatever is written, taken, moved, allocated, copied, sent and filled;
\* and a reader's bytes stay until someone else takes them.
THEOREM ArrayInvariant == ArraySpec => []ArrayInv
  BY ArrayInvInit, ArrayInvNext, PTL DEF ArraySpec

\* ByteArray's counters are the extents of its nodes: as long as no node has lost
\* its extents and every transfer and fill of a socket was one of those that
\* ExactTransfer and ExactFill name.  Of the first other one nothing is said; after
\* such a fill the statement is false (AdjustExactIffTheorem).
THEOREM CountersAreExtentsTheorem == ArraySpec => []CountersAreExtents
  <1>1. ArrayInv => CountersAreExtents
    <2> SUFFICES ASSUME ArrayInv, ~lost, ~crossed
                 PROVE  /\ array.availableSizeToRead = EndOf(array) - StartOf(array)
                        /\ array.availableSizeToWrite = array.size * BufferNodeSize - EndOf(array)
                        /\ array.nodes[array.writeNode].end < BufferNodeSize
      BY DEF CountersAreExtents
    <2>1. Shape(array)
      BY DEF ArrayInv
    <2> QED
      BY <2>1, PlacesAre
  <1> QED
    BY <1>1, ArrayInvariant, PTL
\* The reader's half of AdjustExactIff, for one transfer.
LEMMA ReaderExactIff ==
  ASSUME NEW a, Shape(a), Untwinned(a), NEW size \in 0..a.availableSizeToRead
  PROVE  LET n == AdjustedReadNode(a, size)
         IN  ExactTransfer(a, size) <=>
               /\ n <= a.writeNode
               /\ StartOf(Advanced(a, size)) = StartOf(a) + size
               /\ Advanced(a, size).nodes[n].start <= BufferNodeSize
  <1> DEFINE n == AdjustedReadNode(a, size)
             v == AdvancedStart(a, size)
             d == Advanced(a, size)
  <1>1. ~LosesExtents(a, ReaderVisits(a))
    BY UntwinnedKeeps DEF ReaderVisits
  <1>2. /\ a.readNode \in Nat /\ a.writeNode \in Nat /\ a.size \in Nat /\ a.writeNode < a.size
        /\ a.availableSizeToRead \in Nat
        /\ StartOf(a) \in Nat /\ EndOf(a) \in Nat
        /\ a.availableSizeToRead = EndOf(a) - StartOf(a)
    BY PlacesAre
  <1>3. size \in Nat /\ size <= a.availableSizeToRead
    BY <1>2
  <1>4. ASSUME n \in a.readNode..a.writeNode
        PROVE  StartOf(d) = n * BufferNodeSize + v /\ d.nodes[n].start = v
    <2>1. n \in 0..(a.size - 1)
      BY <1>2, <1>4
    <2>2. /\ d.readNode = n
          /\ \A i \in 0..(a.size - 1) :
                d.nodes[i].start = IF i = n THEN v ELSE a.nodes[i].start
      BY <1>1, <1>3, <1>4, AdvancedFields
    <2> HIDE DEF d, n, v
    <2> QED
      BY <2>1, <2>2 DEF StartOf
  <1>5. CASE ExactTransfer(a, size)
    <2>1. /\ n \in a.readNode..a.writeNode
          /\ v \in Nat /\ v <= a.nodes[n].end
          /\ n * BufferNodeSize + v =
                IF size >= a.availableSizeToRead THEN EndOf(a) ELSE StartOf(a) + size
      BY <1>3, <1>5, ExactIs
    <2>2. n * BufferNodeSize + v = StartOf(a) + size
      <3>1. size >= a.availableSizeToRead => StartOf(a) + size = EndOf(a)
        BY <1>2, <1>3
      <3> QED
        BY <2>1, <3>1
    <2>3. v <= BufferNodeSize
      <3>1. n \in 0..(a.size - 1)
        BY <1>2, <2>1
      <3>2. a.nodes[n].end \in Nat /\ a.nodes[n].end <= BufferNodeSize
        BY <3>1, NodesAre DEF Shape
      <3> QED
        BY <2>1, <3>2
    <2> QED
      BY <1>2, <1>4, <1>5, <2>1, <2>2, <2>3
  <1>6. CASE ~ExactTransfer(a, size)
    <2> SUFFICES ASSUME n <= a.writeNode, StartOf(d) = StartOf(a) + size,
                        d.nodes[n].start <= BufferNodeSize
                 PROVE  FALSE
      BY <1>6
    <2>1. size < a.availableSizeToRead
      BY <1>2, <1>3, <1>6 DEF ExactTransfer
    <2>2. n \in Nat /\ n >= a.readNode
      BY <1>3, <2>1, AdjustedIs
    <2>3. n \in a.readNode..a.writeNode
      BY <1>2, <2>2
    <2>4. v > BufferNodeSize \/ n * BufferNodeSize + v # StartOf(a) + size
      BY <1>3, <1>6, <2>3, InexactIs
    <2>5. v \in Nat
      <3>1. n \in 0..(a.size - 1)
        BY <1>2, <2>3
      <3>2. a.nodes[n].start \in Nat
        BY <3>1, NodesAre DEF Shape
      <3>3. size % BufferNodeSize \in Nat
        BY <1>3, SizeDivided
      <3>4. ~(size >= a.availableSizeToRead)
        BY <1>2, <1>3, <2>1
      <3>5. v = a.nodes[n].start + (size % BufferNodeSize)
        BY <3>4 DEF AdvancedStart
      <3> HIDE DEF n, v
      <3> QED
        BY <3>2, <3>3, <3>5
    <2> HIDE DEF n, v, d
    <2>6. ~(v > BufferNodeSize)
      BY <1>4, <2>3, <2>5
    <2> QED
      BY <1>4, <2>3, <2>4, <2>6
  <1> QED
    BY <1>5, <1>6

\* SocketIO.cpp:55 and 98: the reader's and the writer's adjustByteArray are
\* right exactly in the cases listed, in every reachable state of an array that
\* is not shared, for every BufferNodeSize.
THEOREM AdjustExactIffTheorem == ArraySpec => []AdjustExactIff
  <1>1. ArrayInv => AdjustExactIff
    <2> SUFFICES ASSUME ArrayInv, passive = {}, ~crossed
                 PROVE  /\ \A size \in 0..IovBytes(array) :
                              LET n == AdjustedReadNode(array, size)
                              IN  ExactTransfer(array, size) <=>
                                    /\ n <= array.writeNode
                                    /\ StartOf(Advanced(array, size)) = StartOf(array) + size
                                    /\ Advanced(array, size).nodes[n].start <= BufferNodeSize
                        /\ \A size \in 0..array.availableSizeToWrite :
                              LET w == WriterAdjustByteArray(array, size)
                              IN  ExactFill(array, size)
                                    <=> EndOf(w) - StartOf(w) = array.availableSizeToRead + size
      BY DEF AdjustExactIff
    <2>1. Shape(array) /\ array.size <= MaxNodes /\ Untwinned(array)
      BY DEF ArrayInv
    <2>2. ~LosesExtents(array, ReaderVisits(array))
      BY <2>1, UntwinnedKeeps DEF ReaderVisits
    <2>3. IovBytes(array) = array.availableSizeToRead
      BY <2>1, <2>2, IovBytesIs
    <2>4. ASSUME NEW size \in 0..IovBytes(array)
          PROVE  LET n == AdjustedReadNode(array, size)
                 IN  ExactTransfer(array, size) <=>
                       /\ n <= array.writeNode
                       /\ StartOf(Advanced(array, size)) = StartOf(array) + size
                       /\ Advanced(array, size).nodes[n].start <= BufferNodeSize
      <3>1. size \in 0..array.availableSizeToRead
        BY <2>3
      <3> QED
        BY <2>1, <3>1, ReaderExactIff
    <2>5. ASSUME NEW size \in 0..array.availableSizeToWrite
          PROVE  LET w == WriterAdjustByteArray(array, size)
                 IN  ExactFill(array, size)
                       <=> EndOf(w) - StartOf(w) = array.availableSizeToRead + size
      BY <2>1, WriterExactIff DEF ExactFill
    <2> QED
      BY <2>4, <2>5
  <1> QED
    BY <1>1, ArrayInvariant, PTL

\* ChannelReader's two locks: a reader that found enough bytes gets as many as it
\* found, unless another one took bytes in between or extents were lost.
THEOREM InventedExplainedTheorem == ArraySpec => InventedExplained
  <1>1. ArrayInv /\ [ArrayNext]_arrayVars =>
           [ReaderRetrieves => overtaken \/ lost' \/ Len(out') = checked]_arrayVars
    <2> SUFFICES ASSUME ArrayInv, ReaderRetrieves, ~overtaken, ~lost'
                 PROVE  Len(out') = checked
      OBVIOUS
    <2>1. checked > 0 /\ Retrieve(checked) /\ ~crossed
      BY DEF ReaderRetrieves, Retrieve
    <2>2. checked \in Nat
      BY SizesAssumption DEF ArrayInv
    <2>3. ~lost
      BY <2>1 DEF Retrieve
    <2>4. Shape(array) /\ array.availableSizeToRead >= checked
      BY <2>1, <2>3 DEF ArrayInv
    <2>5. array.availableSizeToRead \in Nat
      BY <2>4, PlacesAre
    <2>6. checked <= array.availableSizeToRead /\ ~(array.availableSizeToRead < checked)
      BY <2>2, <2>4, <2>5
    <2>7. /\ out' = Retrieved(array, checked)
          /\ lost' = (lost \/ LosesExtents(array, RetrieveVisits(array, checked)))
      BY <2>1, <2>6 DEF Retrieve
    <2>8. ~LosesExtents(array, RetrieveVisits(array, checked))
      BY <2>7
    <2> QED
      BY <2>2, <2>4, <2>6, <2>7, <2>8, RetrievedLength
  <1> QED
    BY <1>1, ArrayInvariant, PTL DEF ArraySpec, InventedExplained
(***************************************************************************)
(* The bytes.                                                              *)
(***************************************************************************)
\* The byte at a place, counted from the first node's first byte.
ByteIn(a, p) == a.nodes[p \div BufferNodeSize].buffer[p % BufferNodeSize]

\* A place is a node and an offset in it ...
LEMMA PlaceSplit ==
  ASSUME NEW p \in Nat
  PROVE  /\ p \div BufferNodeSize \in Nat /\ p % BufferNodeSize \in Nat
         /\ p % BufferNodeSize \in Offsets /\ p % BufferNodeSize < BufferNodeSize
         /\ p = (p \div BufferNodeSize) * BufferNodeSize + (p % BufferNodeSize)
  BY SizeDivided DEF Offsets

\* ... and a node and an offset are a place.
LEMMA PlaceJoin ==
  ASSUME NEW i \in Nat, NEW o \in Nat, o < BufferNodeSize, NEW p \in Nat,
         p = i * BufferNodeSize + o
  PROVE  p \div BufferNodeSize = i /\ p % BufferNodeSize = o
  <1> DEFINE q == p \div BufferNodeSize
             m == p % BufferNodeSize
             x == q * BufferNodeSize
             y == i * BufferNodeSize
  <1>1. q \in Nat /\ m \in Nat /\ m < BufferNodeSize /\ p = x + m
    BY PlaceSplit
  <1>2. x \in Nat /\ y \in Nat
    BY <1>1, TimesIs
  <1>3. ~(q < i)
    <2> SUFFICES ASSUME q < i PROVE FALSE
      OBVIOUS
    <2>1. x + BufferNodeSize <= y
      BY <1>1, TimesIs
    <2> HIDE DEF q, m, x, y
    <2> QED
      BY <1>1, <1>2, <2>1 DEF y
  <1>4. ~(i < q)
    <2> SUFFICES ASSUME i < q PROVE FALSE
      OBVIOUS
    <2>1. y + BufferNodeSize <= x
      BY <1>1, TimesIs
    <2> HIDE DEF q, m, x
    <2> QED
      BY <1>1, <1>2, <2>1
  <1>5. q = i
    <2> HIDE DEF q
    <2> QED
      BY <1>1, <1>3, <1>4
  <1>6. x = y
    BY <1>5
  <1> HIDE DEF q, m, x
  <1>7. m = o
    BY <1>1, <1>2, <1>6
  <1> QED
    BY <1>5, <1>7 DEF q, m

\* A readable byte is in a node up to the write node.
LEMMA ByteInNode ==
  ASSUME NEW a, Shape(a), NEW p \in Nat, p < a.size * BufferNodeSize
  PROVE  p \div BufferNodeSize \in 0..(a.size - 1) /\ ByteIn(a, p) \in Bytes
  <1> DEFINE q == p \div BufferNodeSize
             m == p % BufferNodeSize
  <1>1. /\ q \in Nat /\ m \in Nat /\ m \in Offsets /\ p = q * BufferNodeSize + m
    BY PlaceSplit
  <1>2. a.size \in Nat /\ Typed(a)
    BY PlacesAre DEF Shape
  <1>3. q * BufferNodeSize \in Nat /\ a.size * BufferNodeSize \in Nat
    BY <1>1, <1>2, TimesIs
  <1>4. q < a.size
    <2> SUFFICES ASSUME a.size <= q PROVE FALSE
      BY <1>1, <1>2
    <2>1. a.size * BufferNodeSize <= q * BufferNodeSize
      BY <1>1, <1>2, TimesIs
    <2> HIDE DEF q, m
    <2> QED
      BY <1>1, <1>3, <2>1
  <1>5. q \in 0..(a.size - 1)
    BY <1>1, <1>2, <1>4
  <1>6. a.nodes[q] \in Node
    BY <1>2, <1>5, NodesAre
  <1>7. a.nodes[q].buffer[m] \in Bytes
    <2> HIDE DEF q, m
    <2> QED
      BY <1>1, <1>6 DEF Node
  <1> QED
    BY <1>5, <1>7 DEF ByteIn

\* The readable bytes end before the last node does.
LEMMA EndBeforeSize ==
  ASSUME NEW a, Shape(a)
  PROVE  EndOf(a) < a.size * BufferNodeSize /\ a.size * BufferNodeSize \in Nat
  <1>1. /\ a.writeNode \in Nat /\ a.size \in Nat /\ a.writeNode < a.size
        /\ EndOf(a) = a.writeNode * BufferNodeSize + a.nodes[a.writeNode].end
        /\ a.nodes[a.writeNode].end \in Nat /\ a.nodes[a.writeNode].end < BufferNodeSize
    BY PlacesAre
  <1>2. /\ a.writeNode * BufferNodeSize + BufferNodeSize <= a.size * BufferNodeSize
        /\ a.writeNode * BufferNodeSize \in Nat /\ a.size * BufferNodeSize \in Nat
    BY <1>1, TimesIs
  <1> QED
    BY <1>1, <1>2

\* Intervals of the same numbers end alike.
LEMMA SameInterval ==
  ASSUME NEW m \in Nat, NEW n \in Nat, 1..m = 1..n
  PROVE  m = n
  <1>1. ~(m < n)
    <2> SUFFICES ASSUME m < n PROVE FALSE
      OBVIOUS
    <2>1. n \in 1..n /\ n \notin 1..m
      OBVIOUS
    <2> QED
      BY <2>1
  <1>2. ~(n < m)
    <2> SUFFICES ASSUME n < m PROVE FALSE
      OBVIOUS
    <2>1. m \in 1..m /\ m \notin 1..n
      OBVIOUS
    <2> QED
      BY <2>1
  <1> QED
    BY <1>1, <1>2

\* A function on 1..n is a sequence of length n.
LEMMA BytesAreSeq ==
  ASSUME NEW n \in Nat, NEW byte \in [1..n -> Bytes]
  PROVE  byte \in Seq(Bytes) /\ Len(byte) = n
  <1>1. byte \in Seq(Bytes)
    BY SeqDef
  <1>2. Len(byte) \in Nat /\ DOMAIN byte = 1..Len(byte)
    BY <1>1, LenProperties
  <1>3. 1..Len(byte) = 1..n
    BY <1>2
  <1> QED
    BY <1>1, <1>2, <1>3, SameInterval

\* What the array holds is a sequence of bytes, found by their places.
LEMMA ContentsAre ==
  ASSUME NEW a, Shape(a)
  PROVE  /\ ContentsOf(a) \in Seq(Bytes)
         /\ Len(ContentsOf(a)) = a.availableSizeToRead
         /\ \A k \in 1..a.availableSizeToRead :
               ContentsOf(a)[k] = ByteIn(a, StartOf(a) + (k - 1))
  <1> DEFINE n == a.availableSizeToRead
             s == StartOf(a)
             byte == [k \in 1..n |-> ByteIn(a, s + (k - 1))]
  <1>1. n \in Nat /\ s \in Nat /\ EndOf(a) \in Nat /\ n = EndOf(a) - s
    BY PlacesAre
  <1>2. EndOf(a) < a.size * BufferNodeSize /\ a.size * BufferNodeSize \in Nat
    BY EndBeforeSize
  <1>3. ASSUME NEW k \in 1..n
        PROVE  s + (k - 1) \in Nat /\ s + (k - 1) < a.size * BufferNodeSize
    <2> HIDE DEF n, s
    <2> QED
      BY <1>1, <1>2
  <1>4. ASSUME NEW k \in 1..n PROVE ByteIn(a, s + (k - 1)) \in Bytes
    BY <1>3, ByteInNode
  <1>5. ContentsOf(a) = byte
    <2>1. a.readNode * BufferNodeSize \in Nat /\ a.nodes[a.readNode].start \in Nat
      <3>1. a.readNode \in Nat /\ a.nodes[a.readNode].start \in Nat
        BY PlacesAre
      <3> QED
        BY <3>1, TimesIs
    <2>2. \A k \in 1..n : a.readNode * BufferNodeSize + a.nodes[a.readNode].start + k - 1
                          = s + (k - 1)
      <3>1. s = a.readNode * BufferNodeSize + a.nodes[a.readNode].start
        BY DEF StartOf
      <3> HIDE DEF n, s
      <3> QED
        BY <1>1, <2>1, <3>1
    <2> HIDE DEF s
    <2> QED
      BY <2>2 DEF ContentsOf, ByteIn
  <1>6. byte \in [1..n -> Bytes]
    BY <1>4
  <1> HIDE DEF byte, n
  <1>7. byte \in Seq(Bytes) /\ Len(byte) = n
    BY <1>1, <1>6, BytesAreSeq
  <1> QED
    BY <1>5, <1>7 DEF byte, n
\* count bytes from one place on in one array and from another in another one.
SameBytes(a, from, d, to, count) ==
  \A j \in 0..(count - 1) : ByteIn(d, to + j) = ByteIn(a, from + j)

\* An array that holds what another one holds, but the first n bytes.
LEMMA ContentsDropped ==
  ASSUME NEW a, Shape(a), NEW d, Shape(d), NEW n \in Nat, n <= a.availableSizeToRead,
         d.availableSizeToRead = a.availableSizeToRead - n,
         SameBytes(a, StartOf(a) + n, d, StartOf(d), a.availableSizeToRead - n)
  PROVE  ContentsOf(d) = SubSeq(ContentsOf(a), n + 1, Len(ContentsOf(a)))
  <1> DEFINE c == ContentsOf(a)
             e == ContentsOf(d)
             m == a.availableSizeToRead
             t == SubSeq(c, n + 1, m)
             s == StartOf(a)
             u == StartOf(d)
  <1>1. m \in Nat /\ s \in Nat /\ u \in Nat
    BY PlacesAre
  <1>2. c \in Seq(Bytes) /\ Len(c) = m /\ \A k \in 1..m : c[k] = ByteIn(a, s + (k - 1))
    BY ContentsAre
  <1>3. e \in Seq(Bytes) /\ Len(e) = m - n
        /\ \A k \in 1..(m - n) : e[k] = ByteIn(d, u + (k - 1))
    BY ContentsAre
  <1>4. \A j \in 0..(m - n - 1) : ByteIn(d, u + j) = ByteIn(a, s + n + j)
    BY DEF SameBytes
  <1> HIDE DEF c, e, m, s, u
  <1>5. n + 1 \in Int /\ m \in Int /\ \A i \in (n + 1)..m : c[i] \in Bytes
    <2>1. ASSUME NEW i \in (n + 1)..m PROVE c[i] \in Bytes
      <3>1. i \in 1..Len(c)
        BY <1>1, <1>2
      <3> QED
        BY <1>2, <3>1, ElementOfSeq
    <2> QED
      BY <1>1, <2>1
  <1>6. /\ t \in Seq(Bytes)
        /\ Len(t) = IF n + 1 <= m THEN m - (n + 1) + 1 ELSE 0
        /\ \A i \in 1..(m - (n + 1) + 1) : t[i] = c[n + 1 + i - 1]
    BY <1>5, SubSeqProperties
  <1> HIDE DEF t
  <1>7. n <= m
    BY DEF m
  <1>8. Len(t) = m - n
    BY <1>1, <1>6, <1>7
  <1>9. ASSUME NEW i \in 1..(m - n) PROVE e[i] = t[i]
    <2>1. /\ i \in Nat /\ i - 1 \in 0..(m - n - 1) /\ n + i \in 1..m
          /\ i \in 1..(m - (n + 1) + 1) /\ n + 1 + i - 1 = n + i
          /\ s + n + (i - 1) = s + (n + i - 1)
      BY <1>1, <1>7
    <2>2. e[i] = ByteIn(d, u + (i - 1))
      BY <1>3
    <2>3. ByteIn(d, u + (i - 1)) = ByteIn(a, s + n + (i - 1))
      BY <1>4, <2>1
    <2>4. t[i] = c[n + i]
      BY <1>6, <2>1
    <2>5. c[n + i] = ByteIn(a, s + (n + i - 1))
      BY <1>2, <2>1
    <2> QED
      BY <2>1, <2>2, <2>3, <2>4, <2>5
  <1>10. e = t
    <2>1. Len(e) = Len(t) /\ \A i \in 1..Len(e) : e[i] = t[i]
      BY <1>3, <1>8, <1>9
    <2> QED
      BY <1>3, <1>6, <2>1, SeqEqual
  <1> QED
    BY <1>2, <1>10 DEF c, e, t

\* All of it.
LEMMA ContentsKept ==
  ASSUME NEW a, Shape(a), NEW d, Shape(d),
         d.availableSizeToRead = a.availableSizeToRead,
         SameBytes(a, StartOf(a), d, StartOf(d), a.availableSizeToRead)
  PROVE  ContentsOf(d) = ContentsOf(a)
  <1>1. a.availableSizeToRead \in Nat /\ StartOf(a) \in Nat
    BY PlacesAre
  <1>2. /\ 0 \in Nat /\ 0 <= a.availableSizeToRead
        /\ a.availableSizeToRead - 0 = a.availableSizeToRead /\ StartOf(a) + 0 = StartOf(a)
    BY <1>1
  <1>3. ContentsOf(d) = SubSeq(ContentsOf(a), 0 + 1, Len(ContentsOf(a)))
    BY <1>2, ContentsDropped
  <1>4. ContentsOf(a) \in Seq(Bytes) /\ 0 + 1 = 1
    BY ContentsAre
  <1> QED
    BY <1>3, <1>4, SubSeqFull

\* Nodes with the same bytes have them at every readable place.
LEMMA BuffersBytes ==
  ASSUME NEW a, Shape(a), NEW d, SameBuffers(a, d), NEW from \in Nat, NEW count \in Nat,
         from + count <= EndOf(a)
  PROVE  SameBytes(a, from, d, from, count)
  <1>1. EndOf(a) \in Nat
    BY PlacesAre
  <1>2. EndOf(a) < a.size * BufferNodeSize /\ a.size * BufferNodeSize \in Nat
    BY EndBeforeSize
  <1>3. ASSUME NEW j \in 0..(count - 1) PROVE ByteIn(d, from + j) = ByteIn(a, from + j)
    <2>1. from + j \in Nat /\ from + j < a.size * BufferNodeSize
      BY <1>1, <1>2
    <2>2. (from + j) \div BufferNodeSize \in 0..(a.size - 1)
      BY <2>1, ByteInNode
    <2> QED
      BY <2>2 DEF SameBuffers, ByteIn
  <1> QED
    BY <1>3 DEF SameBytes

\* A head move changes no readable byte.
LEMMA MoveHeadContents ==
  ASSUME NEW a, Shape(a)
  PROVE  ContentsOf(MoveBufferHead(a)) = ContentsOf(a)
  <1> DEFINE d == MoveBufferHead(a)
             r == a.readNode
             w == a.writeNode
             n == a.size
             x == r * BufferNodeSize
             s == StartOf(a)
             u == StartOf(d)
             m == a.availableSizeToRead
  <1>1. /\ Typed(a) /\ r \in Nat /\ w \in Nat /\ n \in Nat \ {0} /\ r <= w /\ w < n /\ r < n
        /\ a.readNode < a.size
        /\ s \in Nat /\ m \in Nat /\ EndOf(a) \in Nat /\ m = EndOf(a) - s
        /\ s = x + a.nodes[r].start /\ a.nodes[r].start \in Nat
    BY PlacesAre DEF Shape
  <1>2. Shape(d) /\ d.availableSizeToRead = m
    BY MoveHeadShape
  <1>3. d.readNode = 0 /\ d.nodes = Moved(a)
    BY <1>1, MoveHeadFields
  <1>4. \A i \in 0..(n - 1) : i + r < n => d.nodes[i] = a.nodes[i + r]
    BY <1>1, <1>3, MovedIs
  <1>5. x \in Nat
    BY <1>1, TimesIs
  <1>6. u = s - x /\ u \in Nat
    <2>1. 0 \in 0..(n - 1) /\ 0 + r = r
      BY <1>1
    <2>2. d.nodes[0] = a.nodes[r]
      <3> HIDE DEF d, r, n
      <3> QED
        BY <1>1, <1>4, <2>1
    <2>3. u = 0 * BufferNodeSize + a.nodes[r].start
      BY <1>3, <2>2 DEF StartOf
    <2>4. 0 * BufferNodeSize = 0
      OBVIOUS
    <2> HIDE DEF u, s, x, r
    <2> QED
      BY <1>1, <1>5, <2>3, <2>4
  <1>7. EndOf(a) < n * BufferNodeSize /\ n * BufferNodeSize \in Nat
    BY EndBeforeSize
  <1>8. ASSUME NEW j \in 0..(m - 1) PROVE ByteIn(d, u + j) = ByteIn(a, s + j)
    <2> DEFINE p == u + j
               q == p \div BufferNodeSize
               o == p % BufferNodeSize
               y == q * BufferNodeSize
    <2>1. p \in Nat /\ s + j \in Nat /\ s + j = p + x /\ s + j < n * BufferNodeSize
      <3> HIDE DEF u, s, x, m, n
      <3> QED
        BY <1>1, <1>5, <1>6, <1>7
    <2>2. q \in Nat /\ o \in Nat /\ o < BufferNodeSize /\ p = y + o
      BY <2>1, PlaceSplit
    <2>3. y \in Nat /\ (q + r) * BufferNodeSize = y + x /\ q + r \in Nat
      BY <1>1, <2>2, TimesIs
    <2>4. s + j = (q + r) * BufferNodeSize + o
      <3> HIDE DEF p, q, o, y, u, s, x
      <3> QED
        BY <1>5, <2>1, <2>2, <2>3
    <2>5. (s + j) \div BufferNodeSize = q + r /\ (s + j) % BufferNodeSize = o
      <3> DEFINE z == s + j
                 h == q + r
      <3>1. z \in Nat /\ h \in Nat /\ z = h * BufferNodeSize + o
        BY <2>1, <2>3, <2>4
      <3>2. o \in Nat /\ o < BufferNodeSize
        BY <2>2
      <3> HIDE DEF o, z, h
      <3>3. z \div BufferNodeSize = h /\ z % BufferNodeSize = o
        BY <3>1, <3>2, PlaceJoin
      <3> QED
        BY <3>3 DEF z, h
    <2>6. q + r \in 0..(n - 1)
      BY <2>1, <2>5, ByteInNode
    <2>7. d.nodes[q] = a.nodes[q + r]
      <3> HIDE DEF d, q, r, n
      <3>1. q \in 0..(n - 1) /\ q + r < n
        BY <1>1, <2>2, <2>6
      <3> QED
        BY <1>4, <3>1
    <2> QED
      BY <2>5, <2>7 DEF ByteIn
  <1>9. SameBytes(a, s, d, u, m)
    <2> HIDE DEF d, u, s, m
    <2> QED
      BY <1>8 DEF SameBytes
  <1> QED
    BY <1>2, <1>9, ContentsKept

\* Nor does an allocation.
LEMMA AllocContents ==
  ASSUME NEW a, Shape(a), NEW size \in Nat
  PROVE  ContentsOf(AllocIfNotEnough(a, size)) = ContentsOf(a)
  <1> DEFINE b == MoveBufferHead(a)
             n == MoreNodes(b, size)
             g == Grown(b, n)
  <1>1. Shape(b) /\ ContentsOf(b) = ContentsOf(a)
    BY MoveHeadShape, MoveHeadContents
  <1>2. /\ Typed(b) /\ b.availableSizeToWrite \in Nat /\ b.size \in Nat \ {0}
        /\ b.availableSizeToRead \in Nat /\ StartOf(b) \in Nat /\ EndOf(b) \in Nat
        /\ b.availableSizeToRead = EndOf(b) - StartOf(b)
        /\ b.readNode \in 0..(b.size - 1)
    BY <1>1, PlacesAre DEF Shape
  <1>3. n \in Nat /\ n > b.size
    BY <1>2, MoreNodesIs
  <1>4. AllocIfNotEnough(a, size) =
            IF a.availableSizeToWrite > size THEN a
            ELSE IF b.availableSizeToWrite > size THEN b ELSE g
    BY DEF AllocIfNotEnough, Grown
  <1> HIDE DEF b, n
  <1>5. ContentsOf(g) = ContentsOf(b)
    <2>1. /\ g.size = n /\ g.readNode = b.readNode
          /\ \A i \in 0..(n - 1) : g.nodes[i] = IF i < b.size THEN b.nodes[i] ELSE EmptyNode
          /\ g.availableSizeToRead = b.availableSizeToRead
      BY <1>2, <1>3, GrownFields
    <2>2. Shape(g)
      BY <1>1, <1>3, GrownShape
    <2> HIDE DEF g
    <2>3. ASSUME NEW i \in 0..(b.size - 1) PROVE g.nodes[i] = b.nodes[i]
      <3>1. i \in 0..(n - 1) /\ i < b.size
        BY <1>2, <1>3
      <3> QED
        BY <2>1, <3>1
    <2>4. SameBuffers(b, g)
      BY <2>3 DEF SameBuffers
    <2>5. StartOf(g) = StartOf(b)
      BY <1>2, <2>1, <2>3 DEF StartOf
    <2>6. StartOf(b) + b.availableSizeToRead <= EndOf(b)
      BY <1>2
    <2>7. SameBytes(b, StartOf(b), g, StartOf(b), b.availableSizeToRead)
      BY <1>1, <1>2, <2>4, <2>6, BuffersBytes
    <2> QED
      BY <1>1, <2>1, <2>2, <2>5, <2>7, ContentsKept
  <1> HIDE DEF g
  <1> QED
    BY <1>1, <1>4, <1>5

\* An array with the same bytes that starts n bytes later.
LEMMA ContentsFrom ==
  ASSUME NEW a, Shape(a), NEW d, Shape(d), SameBuffers(a, d), NEW n \in Nat,
         n <= a.availableSizeToRead, d.availableSizeToRead = a.availableSizeToRead - n,
         StartOf(d) = StartOf(a) + n
  PROVE  ContentsOf(d) = SubSeq(ContentsOf(a), n + 1, Len(ContentsOf(a)))
  <1>1. /\ a.availableSizeToRead \in Nat /\ StartOf(a) \in Nat /\ EndOf(a) \in Nat
        /\ a.availableSizeToRead = EndOf(a) - StartOf(a)
    BY PlacesAre
  <1>2. /\ StartOf(a) + n \in Nat /\ a.availableSizeToRead - n \in Nat
        /\ (StartOf(a) + n) + (a.availableSizeToRead - n) <= EndOf(a)
    BY <1>1
  <1>3. SameBytes(a, StartOf(a) + n, d, StartOf(a) + n, a.availableSizeToRead - n)
    BY <1>2, BuffersBytes
  <1> QED
    BY <1>3, ContentsDropped
\* A retrieve takes the oldest bytes away.
LEMMA RetrieveContents ==
  ASSUME NEW a, Shape(a), NEW length \in Nat, length <= a.availableSizeToRead,
         ~LosesExtents(a, RetrieveVisits(a, length))
  PROVE  ContentsOf(RetrieveRaw(a, length)) =
            SubSeq(ContentsOf(a), length + 1, Len(ContentsOf(a)))
  <1> DEFINE d == RetrieveRaw(a, length)
  <1>1. /\ Shape(d) /\ d.availableSizeToRead = a.availableSizeToRead - length
        /\ StartOf(d) = StartOf(a) + length
    BY RetrieveShape
  <1>2. ASSUME NEW i \in 0..(a.size - 1) PROVE d.nodes[i].buffer = a.nodes[i].buffer
    <2>1. d.nodes[i] = Rest(a, length, i)
      BY RetrieveFields
    <2>2. Rest(a, length, i).buffer = a.nodes[i].buffer
      BY RestIs
    <2> HIDE DEF d
    <2> QED
      BY <2>1, <2>2
  <1> HIDE DEF d
  <1>3. SameBuffers(a, d)
    BY <1>2 DEF SameBuffers
  <1>4. ContentsOf(d) = SubSeq(ContentsOf(a), length + 1, Len(ContentsOf(a)))
    BY <1>1, <1>3, ContentsFrom
  <1> QED
    BY <1>4 DEF d

\* So does an exact transfer, before its head move and after it.
LEMMA TransferContents ==
  ASSUME NEW a, Shape(a), NEW size \in Nat, size <= a.availableSizeToRead,
         ~LosesExtents(a, ReaderVisits(a)), ExactTransfer(a, size)
  PROVE  ContentsOf(AdjustByteArray(a, size)) =
            SubSeq(ContentsOf(a), size + 1, Len(ContentsOf(a)))
  <1> DEFINE d == Advanced(a, size)
             n == AdjustedReadNode(a, size)
             v == AdvancedStart(a, size)
  <1>1. /\ a.availableSizeToRead \in Nat /\ StartOf(a) \in Nat /\ EndOf(a) \in Nat
        /\ a.availableSizeToRead = EndOf(a) - StartOf(a)
    BY PlacesAre
  <1>2. Shape(d) /\ d.availableSizeToRead = a.availableSizeToRead - size
    <2>1. /\ Shape(d)
          /\ d.availableSizeToRead = IF size >= a.availableSizeToRead THEN 0
                                     ELSE a.availableSizeToRead - size
      BY AdvancedShape
    <2> HIDE DEF d
    <2> QED
      BY <1>1, <2>1
  <1>3. /\ n \in a.readNode..a.writeNode
        /\ n * BufferNodeSize + v =
              IF size >= a.availableSizeToRead THEN EndOf(a) ELSE StartOf(a) + size
    BY ExactIs
  <1>4. n \in 0..(a.size - 1)
    BY <1>3, PlacesAre
  <1>5. /\ d.readNode = n
        /\ \A i \in 0..(a.size - 1) :
              /\ d.nodes[i].start = IF i = n THEN v ELSE a.nodes[i].start
              /\ d.nodes[i].buffer = a.nodes[i].buffer
    BY <1>3, AdvancedFields
  <1> HIDE DEF d, n, v
  <1>6. StartOf(d) = n * BufferNodeSize + v
    BY <1>4, <1>5 DEF StartOf
  <1>7. StartOf(d) = StartOf(a) + size
    <2>1. size >= a.availableSizeToRead => StartOf(a) + size = EndOf(a)
      BY <1>1
    <2> QED
      BY <1>3, <1>6, <2>1
  <1>8. SameBuffers(a, d)
    BY <1>5 DEF SameBuffers
  <1>9. ContentsOf(d) = SubSeq(ContentsOf(a), size + 1, Len(ContentsOf(a)))
    BY <1>2, <1>7, <1>8, ContentsFrom
  <1>10. ContentsOf(MoveBufferHead(d)) = ContentsOf(d)
    BY <1>2, MoveHeadContents
  <1> QED
    BY <1>9, <1>10 DEF AdjustByteArray, d

\* Sharing the nodes changes nothing.
LEMMA RetwinnedContents ==
  ASSUME NEW a, Shape(a), NEW t \in [0..(a.size - 1) -> NoTwin..(MaxNodes - 1)]
  PROVE  ContentsOf(Retwinned(a, t)) = ContentsOf(a)
  <1> DEFINE d == Retwinned(a, t)
  <1>1. /\ Shape(d) /\ d.availableSizeToRead = a.availableSizeToRead
        /\ StartOf(d) = StartOf(a)
    BY RetwinnedShape
  <1>2. SameBuffers(a, d)
    BY RetwinnedShape
  <1> HIDE DEF d
  <1>3. /\ a.availableSizeToRead \in Nat /\ StartOf(a) \in Nat /\ EndOf(a) \in Nat
        /\ a.availableSizeToRead = EndOf(a) - StartOf(a)
    BY PlacesAre
  <1>4. StartOf(a) + a.availableSizeToRead <= EndOf(a)
    BY <1>3
  <1>5. SameBytes(a, StartOf(a), d, StartOf(a), a.availableSizeToRead)
    BY <1>2, <1>3, <1>4, BuffersBytes
  <1>6. ContentsOf(d) = ContentsOf(a)
    BY <1>1, <1>5, ContentsKept
  <1> QED
    BY <1>6 DEF d

\* The byte at offset o of node i is one of those a write of n bytes leaves readable.
Within(b, i, o, n) == i * BufferNodeSize + o < EndOf(b) + n

\* Where the bytes of a write come to lie in a node.
LEMMA WrittenInNode ==
  ASSUME NEW b, Shape(b), NEW data, DataOK(data),
         ~LosesExtents(b, WriteVisits(b, Len(data))), NEW i \in b.writeNode..(b.size - 1),
         NEW o \in Offsets, Within(b, i, o, Len(data))
  PROVE  Written(b, data, i).buffer[o] =
            IF i * BufferNodeSize + o < EndOf(b) THEN b.nodes[i].buffer[o]
            ELSE data[(i * BufferNodeSize + o) - EndOf(b) + 1]
  <1> DEFINE n == Len(data)
             x == i * BufferNodeSize
             f == EndOf(b)
             target == f + n
             e == b.nodes[i].end
             left == WriteLeft(b, n)[i]
             put == Put(b, n, i)
             first == n - left + 1
  <1>1. n \in Nat
    BY DEF DataOK
  <1>2. /\ b.writeNode \in Nat /\ b.size \in Nat /\ f \in Nat
        /\ f = b.writeNode * BufferNodeSize + b.nodes[b.writeNode].end
        /\ b.nodes[b.writeNode].end \in Nat /\ b.nodes[b.writeNode].end < BufferNodeSize
    BY PlacesAre
  <1>3. i \in Nat /\ i \in 0..(b.size - 1) /\ i \in b.writeNode..b.size /\ i >= b.writeNode
    BY <1>2
  <1>4. x \in Nat
    BY <1>3, TimesIs
  <1>5. e \in Nat
    BY <1>3, NodesAre DEF Shape
  <1>6. o \in Nat /\ o < BufferNodeSize
    BY DEF Offsets
  <1>7. left \in 0..n /\ put \in Nat
    BY <1>1, PutIs
  <1>7a. e + put = IF target >= x + BufferNodeSize THEN BufferNodeSize
                   ELSE IF target > x THEN target - x ELSE 0
    BY <1>1, PutIs
  <1>8. left \in Nat
    <2> HIDE DEF left, n
    <2> QED
      BY <1>1, <1>7
  <1>9. left = Over(target, WritePlace(b, i))
    BY <1>1, <1>3, WriteLeftIs
  <1>10. Written(b, data, i).buffer[o] = ByteAt(b.nodes[i].buffer, e, data, first, put, o)
    BY <1>3, WrittenIs
  <1>11. x + o < target
    BY DEF Within
  <1>12. ASSUME i = b.writeNode PROVE f = x + e /\ left = n
    <2>1. f = x + e /\ WritePlace(b, i) = f
      BY <1>2, <1>12 DEF WritePlace
    <2> HIDE DEF n, f, target, x, e, left
    <2>2. left = n
      BY <1>1, <1>2, <1>9, <2>1 DEF Over, target
    <2> QED
      BY <2>1, <2>2
  <1>13. ASSUME i # b.writeNode PROVE f <= x /\ e = 0 /\ left = target - x
    <2>1. b.writeNode < i /\ i \in (b.writeNode + 1)..(b.size - 1)
      BY <1>2, <1>3, <1>13
    <2>2. e = 0
      BY <2>1 DEF Shape, Extents
    <2>3. b.writeNode * BufferNodeSize + BufferNodeSize <= x
      BY <1>2, <1>3, <2>1, TimesIs
    <2>4. b.writeNode * BufferNodeSize \in Nat
      BY <1>2, TimesIs
    <2>5. f <= x
      <3> DEFINE z == b.writeNode * BufferNodeSize
                 g == b.nodes[b.writeNode].end
      <3>1. /\ f = z + g /\ g < BufferNodeSize /\ z + BufferNodeSize <= x
            /\ f \in Nat /\ z \in Nat /\ g \in Nat /\ x \in Nat
        BY <1>2, <1>4, <2>3, <2>4
      <3> HIDE DEF f, x, z, g
      <3> QED
        BY <3>1
    <2>6. WritePlace(b, i) = x
      BY <1>13 DEF WritePlace
    <2> HIDE DEF n, f, target, x, e, left
    <2>7. target > x
      BY <1>1, <1>2, <1>4, <1>6, <1>11 DEF target
    <2>8. left = Over(target, x)
      BY <1>9, <2>6
    <2>9. left = target - x
      BY <2>7, <2>8 DEF Over
    <2> QED
      BY <2>2, <2>5, <2>9
  <1>14. (f = x + e /\ left = n) \/ (f <= x /\ e = 0 /\ left = target - x)
    <2> HIDE DEF n, f, target, x, e, left, put
    <2> QED
      BY <1>12, <1>13
  <1> HIDE DEF n, f, x, e, left, put
  <1>14a. target = f + n /\ f \in Nat
    BY <1>2
  <1> HIDE DEF target
  <1>15. /\ (o - e) \in 0..(put - 1) <=> ~(x + o < f)
         /\ (n - left + 1) + (o - e) = (x + o) - f + 1
    BY <1>1, <1>4, <1>5, <1>6, <1>7, <1>7a, <1>8, <1>11, <1>14, <1>14a
  <1>16. first + (o - e) = (x + o) - f + 1
    BY <1>15
  <1> HIDE DEF first
  <1>17. Written(b, data, i).buffer[o] =
            IF x + o < f THEN b.nodes[i].buffer[o] ELSE data[(x + o) - f + 1]
    BY <1>10, <1>15, <1>16 DEF ByteAt
  <1> QED
    BY <1>17 DEF x, f

\* Where they come to lie in the array.
LEMMA WrittenByte ==
  ASSUME NEW b, Shape(b), NEW data, DataOK(data), Len(data) < b.availableSizeToWrite,
         ~LosesExtents(b, WriteVisits(b, Len(data))), NEW p \in Nat,
         p < EndOf(b) + Len(data)
  PROVE  ByteIn(WriteLoop(b, data), p) =
            IF p < EndOf(b) THEN ByteIn(b, p) ELSE data[p - EndOf(b) + 1]
  <1> DEFINE d == WriteLoop(b, data)
             n == Len(data)
             q == p \div BufferNodeSize
             o == p % BufferNodeSize
             x == q * BufferNodeSize
             w == b.writeNode
             z == w * BufferNodeSize
             f == EndOf(b)
             room == b.availableSizeToWrite
             total == b.size * BufferNodeSize
  <1>1. q \in Nat /\ o \in Nat /\ o < BufferNodeSize /\ p = x + o /\ o \in Offsets
    BY PlaceSplit
  <1>2. w \in Nat /\ b.size \in Nat /\ f \in Nat /\ room = total - f /\ room \in Nat
    BY PlacesAre
  <1>3. f = z + b.nodes[w].end /\ b.nodes[w].end \in Nat
    BY PlacesAre
  <1>4. n \in Nat /\ n < room /\ p < f + n
    BY DEF DataOK
  <1>5. x \in Nat /\ z \in Nat /\ total \in Nat
    BY <1>1, <1>2, TimesIs
  <1>6. p < total
    <2> HIDE DEF f, n, room, total
    <2> QED
      BY <1>2, <1>4, <1>5
  <1>7. q \in 0..(b.size - 1)
    BY <1>6, ByteInNode
  <1>8. ByteIn(d, p) = Written(b, data, q).buffer[o]
    <2>1. d.nodes[q] = Written(b, data, q)
      BY <1>7, WriteLoopFields
    <2> QED
      BY <2>1 DEF ByteIn
  <1>9. ByteIn(b, p) = b.nodes[q].buffer[o]
    BY DEF ByteIn
  <1>10. CASE q < w
    <2>1. Written(b, data, q).buffer = b.nodes[q].buffer
      BY <1>7, <1>10, WrittenIs
    <2>2. x + BufferNodeSize <= z
      BY <1>1, <1>2, <1>10, TimesIs
    <2>3. p < f
      <3> DEFINE e == b.nodes[w].end
      <3>1. f = z + e /\ e \in Nat
        BY <1>3
      <3> HIDE DEF f, x, z, o, e
      <3> QED
        BY <1>1, <1>5, <2>2, <3>1
    <2> QED
      BY <1>8, <1>9, <2>1, <2>3
  <1>11. CASE ~(q < w)
    <2>1. q \in w..(b.size - 1)
      <3> HIDE DEF q, w
      <3> QED
        BY <1>1, <1>2, <1>7, <1>11
    <2>2. Within(b, q, o, n)
      <3>1. x + o < f + n
        <4> HIDE DEF x, o, f, n
        <4> QED
          BY <1>1, <1>4
      <3> QED
        BY <3>1 DEF Within
    <2>3. Written(b, data, q).buffer[o] =
            IF x + o < f THEN b.nodes[q].buffer[o] ELSE data[(x + o) - f + 1]
      <3> HIDE DEF q, o
      <3>1. o \in Offsets
        BY <1>1
      <3> QED
        BY <2>1, <2>2, <3>1, WrittenInNode
    <2> HIDE DEF q, o, x
    <2> QED
      BY <1>1, <1>8, <1>9, <2>3
  <1> QED
    BY <1>10, <1>11

\* A write appends.
LEMMA WriteContents ==
  ASSUME NEW b, Shape(b), NEW data, DataOK(data), data \in Seq(Bytes),
         Len(data) < b.availableSizeToWrite, ~LosesExtents(b, WriteVisits(b, Len(data)))
  PROVE  ContentsOf(WriteLoop(b, data)) = ContentsOf(b) \o data
  <1> DEFINE d == WriteLoop(b, data)
             c == ContentsOf(b)
             e == ContentsOf(d)
             n == Len(data)
             m == b.availableSizeToRead
             s == StartOf(b)
             f == EndOf(b)
             t == c \o data
  <1>1. m \in Nat /\ s \in Nat /\ f \in Nat /\ m = f - s
    BY PlacesAre
  <1>2. n \in Nat
    BY DEF DataOK
  <1>3. Shape(d) /\ d.availableSizeToRead = m + n /\ StartOf(d) = s
    BY WriteLoopShape
  <1>4. c \in Seq(Bytes) /\ Len(c) = m /\ \A k \in 1..m : c[k] = ByteIn(b, s + (k - 1))
    BY ContentsAre
  <1>5. /\ e \in Seq(Bytes) /\ Len(e) = m + n
        /\ \A k \in 1..(m + n) : e[k] = ByteIn(d, s + (k - 1))
    BY <1>3, ContentsAre
  <1>6. /\ t \in Seq(Bytes) /\ Len(t) = m + n
        /\ \A k \in 1..(m + n) : t[k] = IF k <= m THEN c[k] ELSE data[k - m]
    <2> HIDE DEF c
    <2>1. /\ t \in Seq(Bytes) /\ Len(t) = Len(c) + Len(data)
          /\ \A k \in 1..(Len(c) + Len(data)) :
                t[k] = IF k <= Len(c) THEN c[k] ELSE data[k - Len(c)]
      BY <1>4, ConcatProperties
    <2> QED
      BY <1>4, <2>1
  <1>7. ASSUME NEW k \in 1..(m + n) PROVE e[k] = t[k]
    <2> DEFINE p == s + (k - 1)
    <2>1. p \in Nat /\ p < f + n /\ (p < f <=> k <= m) /\ p - f + 1 = k - m
      <3> HIDE DEF s, f, m, n
      <3> QED
        BY <1>1, <1>2
    <2>2. ByteIn(d, p) = IF p < f THEN ByteIn(b, p) ELSE data[p - f + 1]
      BY <2>1, WrittenByte
    <2>3. e[k] = ByteIn(d, p)
      BY <1>5
    <2>4. k <= m => c[k] = ByteIn(b, p)
      <3> HIDE DEF c, s, m, n
      <3> QED
        BY <1>1, <1>2, <1>4
    <2>5. t[k] = IF k <= m THEN c[k] ELSE data[k - m]
      BY <1>6
    <2> HIDE DEF d, c, e, n, m, f, t, p
    <2> QED
      BY <2>1, <2>2, <2>3, <2>4, <2>5
  <1>8. e = t
    <2> HIDE DEF d, c, e, n, m, t, s
    <2>1. Len(e) = Len(t) /\ \A i \in 1..Len(e) : e[i] = t[i]
      BY <1>5, <1>6, <1>7
    <2> QED
      BY <1>5, <1>6, <2>1, SeqEqual
  <1> QED
    BY <1>8 DEF e, t, c, d

\* The byte k of a retrieve comes out of node i.
ComesFrom(a, length, k, i) ==
  /\ length - RetrieveLeft(a, length)[i] < k
  /\ k <= length - RetrieveLeft(a, length)[i + 1]

\* Every one of them comes out of some node.
LEMMA ComesFromSome ==
  ASSUME NEW a, Shape(a), NEW length \in Nat, length <= a.availableSizeToRead,
         ~LosesExtents(a, RetrieveVisits(a, length)), NEW k \in 1..length
  PROVE  \E i \in a.readNode..(EndOfReadNode(a) - 1) : ComesFrom(a, length, k, i)
  <1> DEFINE r == a.readNode
             last == EndOfReadNode(a)
             left == RetrieveLeft(a, length)
             S == {i \in r..(last - 1) : k <= length - left[i + 1]}
  <1>1. r \in Nat /\ last \in Nat /\ r < last
    BY PlacesAre, EndOfReadIs
  <1>2. left[last] = 0
    BY RetrieveEnds
  <1>3. left[r] = length
    <2>1. StartOf(a) \in Nat
      BY PlacesAre
    <2>2. r \in r..last
      BY <1>1
    <2>3. left[r] = Over(StartOf(a) + length, ReadPlace(a, r))
      BY <2>2, RetrieveLeftIs
    <2>4. ReadPlace(a, r) = StartOf(a)
      BY DEF ReadPlace
    <2>5. left[r] = Over(StartOf(a) + length, StartOf(a))
      BY <2>3, <2>4
    <2> HIDE DEF left, r
    <2> QED
      BY <2>1, <2>5 DEF Over
  <1> HIDE DEF r, last, left
  <1>4. last - 1 \in S
    <2>1. (last - 1) + 1 = last /\ last - 1 \in r..(last - 1)
      BY <1>1
    <2>2. k <= length - left[(last - 1) + 1]
      BY <1>2, <2>1
    <2> QED
      BY <2>1, <2>2
  <1>5. S \in SUBSET Nat
    BY <1>1
  <1>6. PICK m \in S : \A j \in S : m <= j
    <2> HIDE DEF S
    <2>1. S # {}
      BY <1>4
    <2> QED
      BY <1>5, <2>1, LeastElement
  <1>7. m \in r..(last - 1) /\ m \in Nat /\ k <= length - left[m + 1]
    BY <1>1, <1>6
  <1>8. length - left[m] < k
    <2>1. CASE m = r
      BY <1>3, <2>1
    <2>2. CASE m # r
      <3>1. m - 1 \in r..(last - 1) /\ (m - 1) + 1 = m /\ ~(m <= m - 1)
        BY <1>1, <1>7, <2>2
      <3>2. m - 1 \notin S
        BY <1>6, <3>1
      <3>3. ~(k <= length - left[m])
        BY <3>1, <3>2
      <3>4. left[m] \in Nat
        <4>1. m \in a.readNode..(EndOfReadNode(a) - 1)
          BY <1>7 DEF r, last
        <4>2. RetrieveLeft(a, length)[m] \in 0..length
          BY <4>1, TakenIs
        <4> QED
          BY <4>2 DEF left
      <3> QED
        BY <3>3, <3>4
    <2> QED
      BY <2>1, <2>2
  <1> QED
    BY <1>7, <1>8 DEF ComesFrom, r, last, left

\* It is the byte at its place.
LEMMA ByteOfNode ==
  ASSUME NEW a, Shape(a), NEW length \in Nat, length <= a.availableSizeToRead,
         ~LosesExtents(a, RetrieveVisits(a, length)), NEW k \in 1..length,
         NEW i \in a.readNode..(EndOfReadNode(a) - 1), ComesFrom(a, length, k, i)
  PROVE  LET node == Cow(a.nodes[i])
         IN  node.buffer[node.start + (k - 1 - (length - RetrieveLeft(a, length)[i]))]
                = ByteIn(a, StartOf(a) + (k - 1))
  <1> DEFINE left == RetrieveLeft(a, length)[i]
             then == RetrieveLeft(a, length)[i + 1]
             s == StartOf(a)
             x == i * BufferNodeSize
             begin == a.nodes[i].start
             end == a.nodes[i].end
             node == Cow(a.nodes[i])
             p == s + (k - 1)
             o == begin + (k - 1 - (length - left))
  <1>1. /\ i \in Nat /\ i \in 0..(a.size - 1)
        /\ begin \in Nat /\ end \in Nat /\ begin <= end /\ end <= BufferNodeSize
        /\ ReadPlace(a, i) = x + begin /\ ReadPlace(a, i + 1) = x + end
    BY ReadPlaceIs
  <1>2. x \in Nat /\ s \in Nat
    BY <1>1, TimesIs, PlacesAre
  <1>3. EndOfReadNode(a) \in Nat /\ a.readNode \in Nat
    BY PlacesAre, EndOfReadIs
  <1>4. i \in a.readNode..EndOfReadNode(a) /\ i + 1 \in a.readNode..EndOfReadNode(a)
    BY <1>3
  <1>5. left = Over(s + length, x + begin) /\ then = Over(s + length, x + end)
    BY <1>1, <1>4, RetrieveLeftIs
  <1>6. length - left < k /\ k <= length - then
    BY DEF ComesFrom
  <1>7. left > 0 /\ o \in Nat /\ o < BufferNodeSize /\ p = x + o /\ p \in Nat
    <2>1. /\ k \in Nat /\ k <= length /\ 1 <= k
          /\ begin \in Nat /\ end \in Nat /\ begin <= end /\ end <= BufferNodeSize
      BY <1>1
    <2> HIDE DEF left, then, s, x, begin, end
    <2>2. left = length + s - (x + begin) /\ left > 0
      BY <1>2, <1>5, <1>6, <2>1 DEF Over
    <2>3. s + k <= x + end
      BY <1>2, <1>5, <1>6, <2>1 DEF Over
    <2> QED
      BY <1>2, <1>6, <2>1, <2>2, <2>3
  <1>8. node.start = begin /\ node.buffer = a.nodes[i].buffer
    <2>1. Typed(a)
      BY DEF Shape
    <2>2. i \in RetrieveVisits(a, length)
      BY <1>1, <1>7 DEF RetrieveVisits, Visited
    <2>3. CowNodes(a, RetrieveVisits(a, length)).nodes[i] = node
      BY <1>1, <2>1, <2>2, CowNodesIs
    <2>4. /\ CowNodes(a, RetrieveVisits(a, length)).nodes[i].start = begin
          /\ CowNodes(a, RetrieveVisits(a, length)).nodes[i].buffer = a.nodes[i].buffer
      BY <1>1, <2>1, CowNodesIs
    <2> QED
      BY <2>3, <2>4
  <1>9. p \div BufferNodeSize = i /\ p % BufferNodeSize = o
    <2> HIDE DEF p, o
    <2> QED
      BY <1>1, <1>7, PlaceJoin
  <1>10. ByteIn(a, p) = a.nodes[i].buffer[o]
    BY <1>9 DEF ByteIn
  <1>11. node.buffer[node.start + (k - 1 - (length - left))] = a.nodes[i].buffer[o]
    BY <1>8
  <1> QED
    BY <1>10, <1>11

\* A retrieve returns the oldest bytes.
LEMMA RetrievedIs ==
  ASSUME NEW a, Shape(a), NEW length \in Nat, length <= a.availableSizeToRead,
         ~LosesExtents(a, RetrieveVisits(a, length))
  PROVE  Retrieved(a, length) = SubSeq(ContentsOf(a), 1, length)
  <1> DEFINE c == ContentsOf(a)
             m == a.availableSizeToRead
             s == StartOf(a)
             t == SubSeq(c, 1, length)
             e == [k \in 1..length |-> ByteIn(a, s + (k - 1))]
  <1>1. m \in Nat /\ s \in Nat
    BY PlacesAre
  <1>2. c \in Seq(Bytes) /\ Len(c) = m /\ \A k \in 1..m : c[k] = ByteIn(a, s + (k - 1))
    BY ContentsAre
  <1>3. Retrieved(a, length) = e
    <2> DEFINE left == RetrieveLeft(a, length)
               From(k) == CHOOSE i \in a.readNode..(EndOfReadNode(a) - 1) :
                             ComesFrom(a, length, k, i)
               B(k) == LET node == Cow(a.nodes[From(k)])
                       IN  node.buffer[node.start + (k - 1 - (length - left[From(k)]))]
    <2>1. left[EndOfReadNode(a)] = 0
      BY RetrieveEnds
    <2>2. length - left[EndOfReadNode(a)] = length
      BY <2>1
    <2>3. Retrieved(a, length) = [k \in 1..(length - left[EndOfReadNode(a)]) |-> B(k)]
      BY DEF Retrieved, ComesFrom
    <2>4. ASSUME NEW k \in 1..length PROVE B(k) = ByteIn(a, s + (k - 1))
      <3>1. \E i \in a.readNode..(EndOfReadNode(a) - 1) : ComesFrom(a, length, k, i)
        BY ComesFromSome
      <3>2. /\ From(k) \in a.readNode..(EndOfReadNode(a) - 1)
            /\ ComesFrom(a, length, k, From(k))
        BY <3>1
      <3> HIDE DEF From
      <3> QED
        BY <3>2, ByteOfNode
    <2> HIDE DEF B, left
    <2>5. Retrieved(a, length) = [k \in 1..length |-> B(k)]
      BY <2>2, <2>3
    <2> QED
      BY <2>4, <2>5
  <1> HIDE DEF c, m, s
  <1>4. length <= m
    BY DEF m
  <1>5. ASSUME NEW k \in 1..length PROVE k \in 1..m /\ c[k] = ByteIn(a, s + (k - 1))
    BY <1>1, <1>2, <1>4
  <1>6. ASSUME NEW k \in 1..length PROVE c[k] \in Bytes
    <2>1. k \in 1..Len(c)
      BY <1>2, <1>5
    <2> QED
      BY <1>2, <2>1, ElementOfSeq
  <1>7. /\ t \in Seq(Bytes)
        /\ Len(t) = IF 1 <= length THEN length - 1 + 1 ELSE 0
        /\ \A k \in 1..(length - 1 + 1) : t[k] = c[1 + k - 1]
    <2>1. 1 \in Int /\ length \in Int /\ \A k \in 1..length : c[k] \in Bytes
      BY <1>6
    <2> QED
      BY <2>1, SubSeqProperties
  <1>8. e \in [1..length -> Bytes] /\ \A k \in 1..length : e[k] = c[k]
    BY <1>5, <1>6
  <1> HIDE DEF t, e
  <1>9. e \in Seq(Bytes) /\ Len(e) = length
    BY <1>8, BytesAreSeq
  <1>10. e = t
    <2>1. Len(t) = length /\ \A k \in 1..length : 1 + k - 1 = k /\ k \in 1..(length - 1 + 1)
      BY <1>7
    <2>2. Len(e) = Len(t) /\ \A k \in 1..Len(e) : e[k] = t[k]
      BY <1>7, <1>8, <1>9, <2>1
    <2> QED
      BY <1>7, <1>9, <2>2, SeqEqual
  <1> QED
    BY <1>3, <1>10 DEF t, c

(***************************************************************************)
(* The refinement of ByteQueue.                                            *)
(***************************************************************************)
\* A write is the queue's.
LEMMA WriteIsQueue ==
  ASSUME ArrayInv, NEW length \in WriteLengths, Write(length), ~lost'
  PROVE  ContentsOf(array') = ContentsOf(array) \o DataFrom(nextByte, length)
  <1> DEFINE data == DataFrom(nextByte, length)
             b == AllocIfNotEnough(array, length)
  <1>1. length \in Nat /\ nextByte \in Nat /\ MaxBytes \in Nat
    BY SizesAssumption DEF WriteLengths, ArrayInv, Bytes
  <1>2. nextByte + length <= MaxBytes /\ array' = WriteRaw(array, data)
    BY DEF Write
  <1>3. DataOK(data) /\ Len(data) = length
    BY <1>1, <1>2, DataFromIs
  <1>4. ~lost /\ ~crossed /\ ~LosesExtents(b, WriteVisits(b, length))
    BY DEF Write
  <1>5. Shape(array)
    BY <1>4 DEF ArrayInv
  <1>6. data \in Seq(Bytes)
    <2>1. \A k \in 1..length : nextByte + k \in Bytes
      BY <1>1, <1>2 DEF Bytes
    <2>2. data \in [1..length -> Bytes]
      BY <2>1 DEF DataFrom
    <2> HIDE DEF data
    <2> QED
      BY <1>1, <2>2, BytesAreSeq
  <1>7. Shape(b) /\ b.availableSizeToWrite > length /\ b.availableSizeToWrite \in Nat
    <2>1. Shape(b) /\ b.availableSizeToWrite > length
      BY <1>1, <1>5, AllocShape
    <2> QED
      BY <2>1, PlacesAre
  <1>8. ContentsOf(b) = ContentsOf(array)
    BY <1>1, <1>5, AllocContents
  <1> HIDE DEF data
  <1>9. array' = WriteLoop(b, data)
    BY <1>2, <1>3 DEF WriteRaw
  <1> HIDE DEF b
  <1>10. Len(data) < b.availableSizeToWrite /\ ~LosesExtents(b, WriteVisits(b, Len(data)))
    BY <1>1, <1>3, <1>4, <1>7
  <1>11. ContentsOf(WriteLoop(b, data)) = ContentsOf(b) \o data
    BY <1>3, <1>6, <1>7, <1>10, WriteContents
  <1> QED
    BY <1>8, <1>9, <1>11 DEF data

\* A retrieve is the queue's, too.
LEMMA RetrieveIsQueue ==
  ASSUME ArrayInv, NEW length \in Nat, Retrieve(length), ~lost'
  PROVE  \/ /\ length <= Len(ContentsOf(array))
            /\ out' = SubSeq(ContentsOf(array), 1, length)
            /\ ContentsOf(array') =
                  SubSeq(ContentsOf(array), length + 1, Len(ContentsOf(array)))
         \/ /\ length > Len(ContentsOf(array))
            /\ out' = <<>> /\ ContentsOf(array') = ContentsOf(array)
  <1>1. ~lost
    BY DEF Retrieve
  <1>2. ~crossed
    BY DEF Retrieve
  <1>3. Shape(array)
    BY <1>1, <1>2 DEF ArrayInv
  <1>4. /\ Len(ContentsOf(array)) = array.availableSizeToRead
        /\ array.availableSizeToRead \in Nat
    BY <1>3, ContentsAre, PlacesAre
  <1>5. CASE array.availableSizeToRead >= length
    <2>1. length <= array.availableSizeToRead /\ ~(array.availableSizeToRead < length)
      BY <1>4, <1>5
    <2>2. /\ array' = RetrieveRaw(array, length) /\ out' = Retrieved(array, length)
          /\ ~LosesExtents(array, RetrieveVisits(array, length))
      BY <2>1 DEF Retrieve
    <2>3. Retrieved(array, length) = SubSeq(ContentsOf(array), 1, length)
      BY <1>3, <2>1, <2>2, RetrievedIs
    <2>4. ContentsOf(RetrieveRaw(array, length)) =
            SubSeq(ContentsOf(array), length + 1, Len(ContentsOf(array)))
      BY <1>3, <2>1, <2>2, RetrieveContents
    <2> QED
      BY <1>4, <2>1, <2>2, <2>3, <2>4
  <1>6. CASE ~(array.availableSizeToRead >= length)
    <2>1. out' = <<>> /\ array' = array
      BY <1>6 DEF Retrieve
    <2>2. length > array.availableSizeToRead
      BY <1>4, <1>6
    <2> QED
      BY <1>4, <2>1, <2>2
  <1> QED
    BY <1>5, <1>6

\* Sends n bytes: what the queue's Send does.
Sends(n) ==
  /\ n \in 0..Len(ContentsOf(array))
  /\ ContentsOf(array') = SubSeq(ContentsOf(array), n + 1, Len(ContentsOf(array)))

\* A step that leaves the bytes alone sends none of them.
LEMMA SendsNone ==
  ASSUME Shape(array), ContentsOf(array') = ContentsOf(array)
  PROVE  Sends(0)
  <1>1. ContentsOf(array) \in Seq(Bytes)
    BY ContentsAre
  <1>2. Len(ContentsOf(array)) \in Nat
    BY <1>1, LenProperties
  <1>3. SubSeq(ContentsOf(array), 1, Len(ContentsOf(array))) = ContentsOf(array)
    BY <1>1, SubSeqFull
  <1>4. 0 + 1 = 1 /\ 0 \in 0..Len(ContentsOf(array))
    BY <1>2
  <1> QED
    BY <1>3, <1>4 DEF Sends

\* A transfer sends its bytes, or is not followed further.
LEMMA TransferIsQueue ==
  ASSUME ArrayInv, NEW size \in Nat, SocketTransfers(size), ~lost'
  PROVE  \E n \in Nat : Sends(n)
  <1>1. ~crossed /\ ~lost /\ size <= IovBytes(array)
    BY DEF SocketTransfers
  <1>2. Shape(array)
    BY <1>1 DEF ArrayInv
  <1>3. CASE ExactTransfer(array, size)
    <2>1. array' = AdjustByteArray(array, size) /\ ~LosesExtents(array, ReaderVisits(array))
      BY <1>3 DEF SocketTransfers
    <2>2. size <= array.availableSizeToRead
      BY <1>1, <1>2, <2>1, IovBytesIs
    <2>3. ContentsOf(array') = SubSeq(ContentsOf(array), size + 1, Len(ContentsOf(array)))
      BY <1>2, <1>3, <2>1, <2>2, TransferContents
    <2>4. /\ Len(ContentsOf(array)) = array.availableSizeToRead
          /\ array.availableSizeToRead \in Nat
      BY <1>2, ContentsAre, PlacesAre
    <2>5. size \in 0..Len(ContentsOf(array))
      BY <2>2, <2>4
    <2> QED
      BY <2>3, <2>5 DEF Sends
  <1>4. CASE ~ExactTransfer(array, size)
    <2>1. array' = array
      BY <1>4 DEF SocketTransfers
    <2> QED
      BY <1>2, <2>1, SendsNone
  <1> QED
    BY <1>3, <1>4

\* Making a copy sends nothing, nor does destroying it.
LEMMA CopyIsQueue ==
  ASSUME ArrayInv, Copy \/ DestroyCopy
  PROVE  Sends(0)
  <1> DEFINE N == 0..(array.size - 1)
  <1>1. ~crossed /\ ~lost
    BY DEF Copy, DestroyCopy
  <1>2. Shape(array) /\ array.size <= MaxNodes
    BY <1>1 DEF ArrayInv
  <1>3. array.size \in Nat /\ DOMAIN array.nodes = N
    BY <1>2 DEF Shape, Typed, ByteArrays
  <1>4. CASE Copy
    <2> DEFINE t == [i \in N |-> i]
    <2>1. array' = Retwinned(array, t)
      <3>1. array' = [array EXCEPT !.nodes =
                        [i \in N |-> [array.nodes[i] EXCEPT !.twin = i]]]
        BY <1>3, <1>4 DEF Copy
      <3>2. \A i \in N : t[i] = i
        OBVIOUS
      <3> HIDE DEF t
      <3> QED
        BY <3>1, <3>2 DEF Retwinned
    <2>2. t \in [0..(array.size - 1) -> NoTwin..(MaxNodes - 1)]
      BY <1>2, <1>3, SizesAssumption DEF NoTwin
    <2> HIDE DEF t
    <2>3. ContentsOf(array') = ContentsOf(array)
      BY <1>2, <2>1, <2>2, RetwinnedContents
    <2> QED
      BY <1>2, <2>3, SendsNone
  <1>5. CASE DestroyCopy
    <2> DEFINE t == [i \in N |-> NoTwin]
    <2>1. array' = Retwinned(array, t)
      <3>1. array' = [array EXCEPT !.nodes =
                        [i \in N |-> [array.nodes[i] EXCEPT !.twin = NoTwin]]]
        BY <1>3, <1>5 DEF DestroyCopy
      <3>2. \A i \in N : t[i] = NoTwin
        OBVIOUS
      <3> HIDE DEF t
      <3> QED
        BY <3>1, <3>2 DEF Retwinned
    <2>2. t \in [0..(array.size - 1) -> NoTwin..(MaxNodes - 1)]
      BY SizesAssumption DEF NoTwin
    <2> HIDE DEF t
    <2>3. ContentsOf(array') = ContentsOf(array)
      BY <1>2, <2>1, <2>2, RetwinnedContents
    <2> QED
      BY <1>2, <2>3, SendsNone
  <1> QED
    BY <1>4, <1>5

\* The queue's content and what it becomes, unless extents are lost.
LEMMA ContentIs ==
  ASSUME ~lost, ~lost'
  PROVE  /\ (IF lost THEN <<>> ELSE ContentsOf(array)) = ContentsOf(array)
         /\ (IF lost THEN <<>> ELSE ContentsOf(array))' = ContentsOf(array')
  BY DEF ContentsOf

\* A step that sends is one of the queue's.
LEMMA SendsIsQueue ==
  ASSUME ~lost, ~lost', out' = <<>>, \E n \in Nat : Sends(n)
  PROVE  Fifo!QNext
  <1>1. PICK n \in Nat : Sends(n)
    OBVIOUS
  <1>2. /\ n \in 0..Len(ContentsOf(array))
        /\ ContentsOf(array') = SubSeq(ContentsOf(array), n + 1, Len(ContentsOf(array)))
    BY <1>1 DEF Sends
  <1>3. Fifo!Send(n)
    BY <1>2, ContentIs DEF Fifo!Send
  <1>4. n \in 0..Len(IF lost THEN <<>> ELSE ContentsOf(array))
    BY <1>2
  <1> QED
    BY <1>3, <1>4 DEF Fifo!QNext

\* Every step is a step of the queue, or extents are lost.
LEMMA FifoStep ==
  ArrayInv /\ [ArrayNext]_arrayVars => [Fifo!QNext \/ lost']_(Fifo!qvars)
  <1> SUFFICES ASSUME ArrayInv, [ArrayNext]_arrayVars
               PROVE  [Fifo!QNext \/ lost']_(Fifo!qvars)
    OBVIOUS
  <1>1. ASSUME NEW length \in WriteLengths, Write(length), ~lost' PROVE Fifo!QNext
    <2>1. ~lost /\ out' = <<>>
      BY <1>1 DEF Write
    <2>2. ContentsOf(array') = ContentsOf(array) \o DataFrom(nextByte, length)
      BY <1>1, WriteIsQueue
    <2>3. Fifo!Write(DataFrom(nextByte, length))
      BY <1>1, <2>1, <2>2, ContentIs DEF Fifo!Write
    <2>4. nextByte \in Bytes
      BY DEF ArrayInv
    <2> QED
      BY <2>3, <2>4 DEF Fifo!QNext
  <1>2. ASSUME NEW length \in RetrieveLengths, Retrieve(length), ~lost' PROVE Fifo!QNext
    <2>1. ~lost
      BY <1>2 DEF Retrieve
    <2>2. length \in Nat
      BY SizesAssumption DEF RetrieveLengths
    <2>3. \/ /\ length <= Len(ContentsOf(array))
             /\ out' = SubSeq(ContentsOf(array), 1, length)
             /\ ContentsOf(array') =
                  SubSeq(ContentsOf(array), length + 1, Len(ContentsOf(array)))
          \/ /\ length > Len(ContentsOf(array))
             /\ out' = <<>> /\ ContentsOf(array') = ContentsOf(array)
      BY <1>2, <2>2, RetrieveIsQueue
    <2>4. Fifo!Retrieve(length)
      BY <1>2, <2>1, <2>3, ContentIs DEF Fifo!Retrieve
    <2> QED
      BY <2>4 DEF Fifo!QNext
  <1>3. ASSUME NEW length \in RetrieveLengths, ReaderChecks(length), ~lost' PROVE Fifo!QNext
    <2>1. ~lost /\ ~crossed /\ out' = <<>> /\ array' = array
      BY <1>3 DEF ReaderChecks
    <2>2. Shape(array)
      BY <2>1 DEF ArrayInv
    <2>3. Sends(0)
      BY <2>1, <2>2, SendsNone
    <2> QED
      BY <1>3, <2>1, <2>3, SendsIsQueue
  <1>4. ASSUME NEW size \in 0..(MaxNodes * BufferNodeSize), SocketTransfers(size), ~lost'
        PROVE  Fifo!QNext
    <2>1. ~lost /\ out' = <<>>
      BY <1>4 DEF SocketTransfers
    <2>2. \E n \in Nat : Sends(n)
      BY <1>4, TransferIsQueue
    <2> QED
      BY <1>4, <2>1, <2>2, SendsIsQueue
  <1>4a. ASSUME NEW length \in WriteLengths, SocketFills(length), ~lost' PROVE Fifo!QNext
    <2>1. CASE Write(length)
      BY <1>1, <1>4a, <2>1
    <2>2. CASE ~crossed /\ ~lost /\ out' = <<>> /\ array' = array
      <3>1. Shape(array)
        BY <2>2 DEF ArrayInv
      <3>2. Sends(0)
        BY <2>2, <3>1, SendsNone
      <3> QED
        BY <1>4a, <2>2, <3>2, SendsIsQueue
    <2> QED
      BY <1>4a, <2>1, <2>2, FillIsWrite
  <1>5. ASSUME Copy \/ DestroyCopy, ~lost' PROVE Fifo!QNext
    <2>1. ~lost /\ out' = <<>>
      BY <1>5 DEF Copy, DestroyCopy
    <2>2. Sends(0)
      BY <1>5, CopyIsQueue
    <2> QED
      BY <1>5, <2>1, <2>2, SendsIsQueue
  <1>6. ASSUME ReaderRetrieves, ~lost' PROVE Fifo!QNext
    <2>1. Retrieve(checked) /\ checked \in RetrieveLengths
      BY <1>6 DEF ReaderRetrieves, ArrayInv, RetrieveLengths
    <2> QED
      BY <1>2, <1>6, <2>1
  <1>7. ASSUME NEW length \in RetrieveLengths, OtherRetrieves(length), ~lost'
        PROVE  Fifo!QNext
    <2>1. Retrieve(length)
      BY <1>7 DEF OtherRetrieves
    <2> QED
      BY <1>2, <1>7, <2>1
  <1>8. CASE UNCHANGED arrayVars
    <2>1. array' = array /\ lost' = lost /\ out' = out
      BY <1>8 DEF arrayVars
    <2>2. (IF lost THEN <<>> ELSE ContentsOf(array))' =
             IF lost THEN <<>> ELSE ContentsOf(array)
      BY <2>1 DEF ContentsOf
    <2> QED
      BY <2>1, <2>2 DEF Fifo!qvars
  <1>9. CASE ArrayNext
    <2>1. Fifo!QNext \/ lost'
      BY <1>1, <1>3, <1>4, <1>5, <1>6, <1>7, <1>9, <1>4a DEF ArrayNext
    <2> QED
      BY <2>1
  <1> QED
    BY <1>8, <1>9

\* A new array is an empty queue.
LEMMA FifoInit == ArrayInit => Fifo!QInit
  <1> SUFFICES ASSUME ArrayInit PROVE Fifo!QInit
    OBVIOUS
  <1>1. array.availableSizeToRead = 0 /\ lost = FALSE /\ out = <<>>
    BY DEF ArrayInit
  <1>2. 1..0 = {}
    OBVIOUS
  <1>3. ContentsOf(array) = <<>>
    BY <1>1, <1>2 DEF ContentsOf
  <1> QED
    BY <1>1, <1>3 DEF Fifo!QInit

\* ByteArray refines ByteQueue until extents are lost, or a transfer or a fill is
\* none of ExactTransfer and ExactFill: bytes come out in the order they were
\* written or received, none is lost and none comes twice, whatever the sizes of
\* the nodes and of the calls, and wherever nodes are moved, added or shared.
THEOREM FifoUntilLostTheorem == ArraySpec => FifoUntilLost
  BY FifoInit, FifoStep, ArrayInvariant, PTL DEF ArraySpec, FifoUntilLost

(***************************************************************************)
(* The copy.  It keeps its bytes also when the array has lost extents, of  *)
(* which Shape says nothing.  What is left then: the read node is not past *)
(* the write node, and from there on no node ends before it starts.        *)
(***************************************************************************)
Placed(a)  == Typed(a) /\ a.readNode <= a.writeNode /\ a.writeNode < a.size
Ordered(a) == \A i \in a.readNode..(a.size - 1) : a.nodes[i].start <= a.nodes[i].end

\* The copy's readable bytes lie in its nodes.
CopyOK(copy) ==
  /\ Typed(copy) /\ copy.readNode < copy.size
  /\ StartOf(copy) + copy.availableSizeToRead <= copy.size * BufferNodeSize

\* Node i of the array, which is shared, is the copy's node too: the same bytes,
\* and, where the copy reads first, the same start.  What the array has read
\* was read when the copy was made, or the node would have been replaced.
Shares(a, i, copy) ==
  LET j == a.nodes[i].twin
  IN  /\ j \in 0..(copy.size - 1)
      /\ a.nodes[i].buffer = copy.nodes[j].buffer
      /\ i < a.readNode => j < copy.readNode
      /\ j = copy.readNode => a.nodes[i].start = copy.nodes[j].start

Linked(a, copy) ==
  \A i \in 0..(a.size - 1) : a.nodes[i].twin # NoTwin => Shares(a, i, copy)

\* Node i of d is node k of a: only a node that was read is reset in place.
Comes(a, k, d, i) ==
  /\ d.nodes[i].twin = a.nodes[k].twin /\ d.nodes[i].buffer = a.nodes[k].buffer
  /\ i < d.readNode => k < a.readNode
  /\ k < a.readNode \/ d.nodes[i].start = a.nodes[k].start

\* Every node that d shares it has from a.
Follows(a, d) ==
  \A i \in 0..(d.size - 1) :
     d.nodes[i].twin # NoTwin => \E k \in 0..(a.size - 1) : Comes(a, k, d, i)

\* An array that is left alone ...
LEMMA FollowsSelf ==
  ASSUME NEW a
  PROVE  Follows(a, a)
  BY DEF Follows, Comes

\* ... and one changed twice.
LEMMA FollowsOn ==
  ASSUME NEW a, NEW b, NEW d, Follows(a, b), Follows(b, d)
  PROVE  Follows(a, d)
  <1> SUFFICES ASSUME NEW i \in 0..(d.size - 1), d.nodes[i].twin # NoTwin
               PROVE  \E k \in 0..(a.size - 1) : Comes(a, k, d, i)
    BY DEF Follows
  <1>1. PICK k \in 0..(b.size - 1) : Comes(b, k, d, i)
    BY DEF Follows
  <1>2. b.nodes[k].twin # NoTwin
    BY <1>1 DEF Comes
  <1>3. PICK h \in 0..(a.size - 1) : Comes(a, h, b, k)
    BY <1>2 DEF Follows
  <1>4. Comes(a, h, d, i)
    BY <1>1, <1>3 DEF Comes
  <1> QED
    BY <1>4

\* The nodes stay those of the copy.
LEMMA LinkedFollows ==
  ASSUME NEW a, NEW d, NEW copy, Linked(a, copy), Follows(a, d), Typed(copy)
  PROVE  Linked(d, copy)
  <1> SUFFICES ASSUME NEW i \in 0..(d.size - 1), d.nodes[i].twin # NoTwin
               PROVE  Shares(d, i, copy)
    BY DEF Linked
  <1>1. PICK k \in 0..(a.size - 1) : Comes(a, k, d, i)
    BY DEF Follows
  <1>2. d.nodes[i].twin = a.nodes[k].twin
    BY <1>1 DEF Comes
  <1>3. Shares(a, k, copy)
    BY <1>2 DEF Linked
  <1>4. copy.readNode \in Nat /\ copy.size \in Nat
    BY NodesAre
  <1>5. k < a.readNode => a.nodes[k].twin # copy.readNode
    BY <1>3, <1>4 DEF Shares
  <1> QED
    BY <1>1, <1>2, <1>3, <1>5 DEF Comes, Shares

(***************************************************************************)
(* The copy after a step of the array, as the nodes they share are now.    *)
(***************************************************************************)
SyncedNode(copy, a, j) ==
  IF \E i \in DOMAIN a.nodes : a.nodes[i].twin = j
  THEN [a.nodes[CHOOSE i \in DOMAIN a.nodes : a.nodes[i].twin = j] EXCEPT !.twin = NoTwin]
  ELSE copy.nodes[j]

Synced(copy, a) ==
  [copy EXCEPT !.nodes = [j \in DOMAIN copy.nodes |-> SyncedNode(copy, a, j)]]

\* It is what Passive says.
LEMMA PassiveSynced ==
  ASSUME NEW a
  PROVE  Passive(a) = {Synced(copy, a) : copy \in passive}
  BY DEF Passive, Synced, SyncedNode

\* The node of a copy has its bytes, and the first one its start.
LEMMA SyncedNodeIs ==
  ASSUME NEW a, NEW copy, Typed(a), Typed(copy), Linked(a, copy),
         NEW j \in 0..(copy.size - 1)
  PROVE  /\ SyncedNode(copy, a, j) \in Node
         /\ SyncedNode(copy, a, j).buffer = copy.nodes[j].buffer
         /\ j = copy.readNode => SyncedNode(copy, a, j).start = copy.nodes[j].start
  <1>1. /\ copy.nodes[j] \in Node /\ copy.size \in Nat
        /\ \A i \in 0..(a.size - 1) : a.nodes[i] \in Node
    BY NodesAre
  <1>2. DOMAIN a.nodes = 0..(a.size - 1)
    BY DEF Typed
  <1>3. CASE \E i \in DOMAIN a.nodes : a.nodes[i].twin = j
    <2> DEFINE h == CHOOSE i \in DOMAIN a.nodes : a.nodes[i].twin = j
    <2>1. h \in DOMAIN a.nodes /\ a.nodes[h].twin = j
      BY <1>3
    <2>2. SyncedNode(copy, a, j) = [a.nodes[h] EXCEPT !.twin = NoTwin]
      BY <1>3 DEF SyncedNode
    <2> HIDE DEF h
    <2>3. h \in 0..(a.size - 1) /\ a.nodes[h] \in Node
      BY <1>1, <1>2, <2>1
    <2>4. j # NoTwin
      BY <1>1 DEF NoTwin
    <2>5. Shares(a, h, copy)
      BY <2>1, <2>3, <2>4 DEF Linked
    <2>6. /\ a.nodes[h].buffer = copy.nodes[j].buffer
          /\ j = copy.readNode => a.nodes[h].start = copy.nodes[j].start
      BY <2>1, <2>5 DEF Shares
    <2>7. NoTwin \in NoTwin..(MaxNodes - 1)
      BY SizesAssumption DEF NoTwin
    <2>8. /\ [a.nodes[h] EXCEPT !.twin = NoTwin] \in Node
          /\ [a.nodes[h] EXCEPT !.twin = NoTwin].buffer = a.nodes[h].buffer
          /\ [a.nodes[h] EXCEPT !.twin = NoTwin].start = a.nodes[h].start
      BY <2>3, <2>7 DEF Node
    <2> QED
      BY <2>2, <2>6, <2>8
  <1>4. CASE ~\E i \in DOMAIN a.nodes : a.nodes[i].twin = j
    BY <1>1, <1>4 DEF SyncedNode
  <1> QED
    BY <1>3, <1>4

\* The fields of the copy.
LEMMA SyncedFields ==
  ASSUME NEW a, NEW copy, Typed(a), Typed(copy), Linked(a, copy)
  PROVE  LET e == Synced(copy, a)
         IN  /\ Typed(e) /\ e.size = copy.size /\ e.readNode = copy.readNode
             /\ e.availableSizeToRead = copy.availableSizeToRead
             /\ \A j \in 0..(copy.size - 1) : e.nodes[j] = SyncedNode(copy, a, j)
  <1> DEFINE e == Synced(copy, a)
             nodes == [j \in 0..(copy.size - 1) |-> SyncedNode(copy, a, j)]
  <1>1. copy \in ByteArrays /\ copy.size # 0 /\ DOMAIN copy.nodes = 0..(copy.size - 1)
    BY DEF Typed
  <1>2. e = [copy EXCEPT !.nodes = nodes]
    BY <1>1 DEF Synced
  <1>3. nodes \in [0..(copy.size - 1) -> Node]
    BY SyncedNodeIs
  <1>4. nodes \in NodeLists
    BY <1>3, NodesAre DEF NodeLists
  <1>5. \A j \in 0..(copy.size - 1) : nodes[j] = SyncedNode(copy, a, j)
    OBVIOUS
  <1> HIDE DEF e, nodes
  <1>6. e \in ByteArrays
    BY <1>1, <1>2, <1>4 DEF ByteArrays
  <1>7. /\ e.nodes = nodes /\ e.size = copy.size /\ e.readNode = copy.readNode
        /\ e.availableSizeToRead = copy.availableSizeToRead
    BY <1>1, <1>2 DEF ByteArrays
  <1>8. Typed(e)
    BY <1>1, <1>3, <1>6, <1>7 DEF Typed
  <1> QED
    BY <1>5, <1>7, <1>8 DEF e

\* The copy has lost nothing and stays linked.
LEMMA SyncedIs ==
  ASSUME NEW a, NEW copy, Typed(a), CopyOK(copy), Linked(a, copy)
  PROVE  /\ CopyOK(Synced(copy, a)) /\ Linked(a, Synced(copy, a))
         /\ ContentsOf(Synced(copy, a)) = ContentsOf(copy)
  <1> DEFINE e == Synced(copy, a)
             n == copy.size
             r == copy.readNode
             s == copy.nodes[r].start
             read == copy.availableSizeToRead
  <1>1. Typed(copy) /\ r < n /\ StartOf(copy) + read <= n * BufferNodeSize
    BY DEF CopyOK
  <1>2. /\ n \in Nat \ {0} /\ r \in Nat /\ read \in Nat /\ r \in 0..(n - 1)
        /\ s \in Nat
    BY <1>1, NodesAre
  <1>3. /\ Typed(e) /\ e.size = n /\ e.readNode = r /\ e.availableSizeToRead = read
        /\ \A j \in 0..(n - 1) : e.nodes[j] = SyncedNode(copy, a, j)
    BY <1>1, SyncedFields
  <1> HIDE DEF e
  <1>4. \A j \in 0..(n - 1) :
           /\ e.nodes[j].buffer = copy.nodes[j].buffer
           /\ j = r => e.nodes[j].start = copy.nodes[j].start
    BY <1>1, <1>3, SyncedNodeIs
  <1>5. StartOf(e) = StartOf(copy) /\ e.nodes[e.readNode].start = s
    BY <1>2, <1>3, <1>4 DEF StartOf
  <1>6. CopyOK(e)
    BY <1>1, <1>3, <1>5 DEF CopyOK
  <1>7. Linked(a, e)
    <2> SUFFICES ASSUME NEW i \in 0..(a.size - 1), a.nodes[i].twin # NoTwin
                 PROVE  Shares(a, i, e)
      BY DEF Linked
    <2>1. Shares(a, i, copy)
      BY DEF Linked
    <2> QED
      BY <1>3, <1>4, <2>1 DEF Shares
  <1>8. ASSUME NEW k \in 1..read
        PROVE  LET p == r * BufferNodeSize + s + k - 1
               IN  p \div BufferNodeSize \in 0..(n - 1)
    <2> DEFINE p == r * BufferNodeSize + s + k - 1
    <2>1. StartOf(copy) = r * BufferNodeSize + s /\ r * BufferNodeSize \in Nat
          /\ n * BufferNodeSize \in Nat
      BY <1>2, TimesIs DEF StartOf
    <2>2. p \in Nat /\ p < n * BufferNodeSize
      BY <1>1, <1>2, <2>1
    <2> HIDE DEF p
    <2> DEFINE q == p \div BufferNodeSize
    <2>3. q \in Nat /\ q * BufferNodeSize <= p
      <3>1. p \div BufferNodeSize \in Nat /\ p % BufferNodeSize \in Nat
            /\ p = (p \div BufferNodeSize) * BufferNodeSize + (p % BufferNodeSize)
        BY <2>2, SizeDivided
      <3>2. (p \div BufferNodeSize) * BufferNodeSize \in Nat
        BY <3>1, TimesIs
      <3> QED
        BY <2>2, <3>1, <3>2
    <2> HIDE DEF q
    <2>4. q < n
      <3> SUFFICES ASSUME n <= q PROVE FALSE
        BY <1>2, <2>3
      <3>1. n * BufferNodeSize <= q * BufferNodeSize /\ q * BufferNodeSize \in Nat
        BY <1>2, <2>3, TimesIs
      <3> QED
        BY <2>1, <2>2, <2>3, <3>1
    <2> QED
      BY <1>2, <2>3, <2>4 DEF p, q
  <1>9. ContentsOf(e) = ContentsOf(copy)
    <2>1. ContentsOf(e) = [k \in 1..read |->
             LET p == r * BufferNodeSize + s + k - 1
             IN  e.nodes[p \div BufferNodeSize].buffer[p % BufferNodeSize]]
      BY <1>3, <1>5 DEF ContentsOf
    <2>2. ContentsOf(copy) = [k \in 1..read |->
             LET p == r * BufferNodeSize + s + k - 1
             IN  copy.nodes[p \div BufferNodeSize].buffer[p % BufferNodeSize]]
      BY DEF ContentsOf
    <2> HIDE DEF n, r, s, read
    <2> QED
      BY <1>4, <1>8, <2>1, <2>2
  <1> QED
    BY <1>6, <1>7, <1>9 DEF e

(***************************************************************************)
(* Space, for an array that may have lost extents.                         *)
(***************************************************************************)
\* An array in shape has what is left.
LEMMA ShapePlaced ==
  ASSUME NEW a, Shape(a)
  PROVE  Placed(a) /\ Ordered(a)
  <1>1. /\ Typed(a) /\ Extents(a) /\ a.readNode \in Nat /\ a.writeNode \in Nat
        /\ a.size \in Nat /\ a.readNode <= a.writeNode /\ a.writeNode < a.size
    BY PlacesAre DEF Shape
  <1>2. ASSUME NEW i \in a.readNode..(a.size - 1) PROVE a.nodes[i].start <= a.nodes[i].end
    <2>1. i \in 0..(a.size - 1) /\ i \in Nat
      BY <1>1
    <2>2. a.nodes[i].end \in Nat
      BY <1>1, <2>1, NodesAre
    <2>3. CASE i = a.readNode
      BY <1>1, <2>3 DEF Extents
    <2>4. CASE i # a.readNode
      <3>1. i \in (a.readNode + 1)..(a.size - 1)
        BY <1>1, <2>4
      <3>2. a.nodes[i].start = 0
        BY <1>1, <3>1 DEF Extents
      <3> QED
        BY <2>2, <3>2
    <2> QED
      BY <2>3, <2>4
  <1> QED
    BY <1>1, <1>2 DEF Placed, Ordered

\* The head move resets nodes that were read, and no other.
LEMMA MoveHeadFollows ==
  ASSUME NEW a, Placed(a)
  PROVE  LET b == MoveBufferHead(a)
         IN  Placed(b) /\ Follows(a, b) /\ (Ordered(a) => Ordered(b))
  <1> DEFINE b == MoveBufferHead(a)
             n == a.size
             r == a.readNode
  <1>1. /\ Typed(a) /\ n \in Nat \ {0} /\ r \in Nat /\ a.writeNode \in Nat
        /\ r <= a.writeNode /\ a.writeNode < n
        /\ \A i \in 0..(n - 1) : a.nodes[i] \in Node
    BY NodesAre DEF Placed
  <1>2. /\ b.size = n /\ b.readNode = 0 /\ b.writeNode = a.writeNode - r
        /\ b.nodes = Moved(a) /\ Typed(b)
    BY <1>1, MoveHeadFields
  <1> HIDE DEF b
  <1>3. Placed(b)
    BY <1>1, <1>2 DEF Placed
  <1>4. ASSUME NEW i \in 0..(n - 1), i + r < n
        PROVE  i + r \in 0..(n - 1) /\ b.nodes[i] = a.nodes[i + r]
    BY <1>1, <1>2, <1>4 DEF Moved
  <1>5. ASSUME NEW i \in 0..(n - 1), ~(i + r < n)
        PROVE  /\ i + r - n \in 0..(n - 1) /\ i + r - n < r
               /\ b.nodes[i] = Reset(a.nodes[i + r - n])
    BY <1>1, <1>2, <1>5 DEF Moved
  <1>6. ASSUME NEW i \in 0..(n - 1) PROVE \E k \in 0..(n - 1) : Comes(a, k, b, i)
    <2>1. ~(i < b.readNode)
      BY <1>1, <1>2
    <2>2. CASE i + r < n
      BY <1>4, <2>1, <2>2 DEF Comes
    <2>3. CASE ~(i + r < n)
      <3> DEFINE k == i + r - n
      <3>1. k \in 0..(n - 1) /\ k < r /\ b.nodes[i] = Reset(a.nodes[k])
        BY <1>5, <2>3
      <3> HIDE DEF k
      <3>2. b.nodes[i].twin = a.nodes[k].twin /\ b.nodes[i].buffer = a.nodes[k].buffer
        BY <1>1, <3>1, ResetIs
      <3> QED
        BY <2>1, <3>1, <3>2 DEF Comes
    <2> QED
      BY <2>2, <2>3
  <1>7. Follows(a, b)
    BY <1>2, <1>6 DEF Follows
  <1>8. ASSUME Ordered(a), NEW i \in b.readNode..(b.size - 1)
        PROVE  b.nodes[i].start <= b.nodes[i].end
    <2>1. i \in 0..(n - 1)
      BY <1>2
    <2>2. CASE i + r < n
      <3>1. i + r \in r..(n - 1)
        BY <1>1, <2>1, <2>2
      <3> QED
        BY <1>4, <1>8, <2>1, <2>2, <3>1 DEF Ordered
    <2>3. CASE ~(i + r < n)
      <3> DEFINE k == i + r - n
      <3>1. k \in 0..(n - 1) /\ b.nodes[i] = Reset(a.nodes[k])
        BY <1>5, <2>1, <2>3
      <3> HIDE DEF k
      <3>2. b.nodes[i].start = 0 /\ b.nodes[i].end = 0
        BY <1>1, <3>1, ResetIs
      <3> QED
        BY <3>2
    <2> QED
      BY <2>2, <2>3
  <1> QED
    BY <1>3, <1>7, <1>8 DEF b, Ordered

\* New nodes are not shared.
LEMMA GrownFollows ==
  ASSUME NEW b, Placed(b), NEW n \in Nat, n > b.size
  PROVE  LET c == Grown(b, n)
         IN  Placed(c) /\ Follows(b, c) /\ (Ordered(b) => Ordered(c))
  <1> DEFINE c == Grown(b, n)
  <1>1. /\ Typed(b) /\ b.size \in Nat \ {0} /\ b.readNode \in Nat /\ b.writeNode \in Nat
        /\ b.readNode <= b.writeNode /\ b.writeNode < b.size
    BY NodesAre DEF Placed
  <1>2. /\ Typed(c) /\ c.size = n /\ c.readNode = b.readNode /\ c.writeNode = b.writeNode
        /\ \A i \in 0..(n - 1) :
              c.nodes[i] = IF i < b.size THEN b.nodes[i] ELSE EmptyNode
    BY <1>1, GrownFields
  <1> HIDE DEF c
  <1>3. Placed(c)
    BY <1>1, <1>2 DEF Placed
  <1>4. Follows(b, c)
    <2> SUFFICES ASSUME NEW i \in 0..(c.size - 1), c.nodes[i].twin # NoTwin
                 PROVE  \E k \in 0..(b.size - 1) : Comes(b, k, c, i)
      BY DEF Follows
    <2>1. i < b.size
      BY <1>2, EmptyNodeIs
    <2>2. i \in 0..(b.size - 1) /\ c.nodes[i] = b.nodes[i]
      BY <1>1, <1>2, <2>1
    <2>3. Comes(b, i, c, i)
      BY <1>2, <2>2 DEF Comes
    <2> QED
      BY <2>2, <2>3
  <1>5. ASSUME Ordered(b), NEW i \in c.readNode..(c.size - 1)
        PROVE  c.nodes[i].start <= c.nodes[i].end
    <2>1. i \in 0..(n - 1) /\ i >= b.readNode
      BY <1>1, <1>2
    <2>2. CASE i < b.size
      <3>1. i \in b.readNode..(b.size - 1)
        BY <1>1, <2>1, <2>2
      <3> QED
        BY <1>2, <1>5, <2>1, <2>2, <3>1 DEF Ordered
    <2>3. CASE ~(i < b.size)
      <3>1. c.nodes[i].start = 0 /\ c.nodes[i].end = 0
        BY <1>2, <2>1, <2>3, EmptyNodeIs
      <3> QED
        BY <3>1
    <2> QED
      BY <2>2, <2>3
  <1> QED
    BY <1>3, <1>4, <1>5 DEF c, Ordered

\* The allocation before a write.
LEMMA AllocFollows ==
  ASSUME NEW a, Placed(a), Ordered(a), NEW size \in Nat
  PROVE  LET d == AllocIfNotEnough(a, size)
         IN  Placed(d) /\ Ordered(d) /\ Follows(a, d) /\ d.availableSizeToWrite > size
  <1> DEFINE b == MoveBufferHead(a)
             n == MoreNodes(b, size)
  <1>1. Placed(b) /\ Ordered(b) /\ Follows(a, b)
    BY MoveHeadFollows
  <1>2. Typed(b) /\ b.availableSizeToWrite \in Nat /\ b.size \in Nat \ {0}
    BY <1>1, NodesAre DEF Placed
  <1>3. n \in Nat /\ n > b.size /\ (n - b.size) * BufferNodeSize + b.availableSizeToWrite > size
    BY <1>2, MoreNodesIs
  <1>4. AllocIfNotEnough(a, size) =
            IF a.availableSizeToWrite > size THEN a
            ELSE IF b.availableSizeToWrite > size THEN b ELSE Grown(b, n)
    BY DEF AllocIfNotEnough, Grown
  <1> HIDE DEF b, n
  <1>5. Placed(Grown(b, n)) /\ Ordered(Grown(b, n)) /\ Follows(b, Grown(b, n))
    BY <1>1, <1>3, GrownFollows
  <1>6. Follows(a, Grown(b, n))
    BY <1>1, <1>5, FollowsOn
  <1>7. Grown(b, n).availableSizeToWrite > size
    <2>1. Grown(b, n).availableSizeToWrite =
              b.availableSizeToWrite + (n - b.size) * BufferNodeSize
      BY <1>2, <1>3, GrownFields
    <2>2. (n - b.size) * BufferNodeSize \in Int
      BY <1>2, <1>3
    <2> QED
      BY <1>2, <1>3, <2>1, <2>2
  <1>8. CASE a.availableSizeToWrite > size
    BY <1>4, <1>8, FollowsSelf
  <1>9. CASE ~(a.availableSizeToWrite > size) /\ b.availableSizeToWrite > size
    BY <1>1, <1>4, <1>9
  <1>10. CASE ~(a.availableSizeToWrite > size) /\ ~(b.availableSizeToWrite > size)
    BY <1>4, <1>5, <1>6, <1>7, <1>10
  <1> QED
    BY <1>8, <1>9, <1>10

(***************************************************************************)
(* Loops and replaced nodes.                                               *)
(***************************************************************************)
\* What is left only falls, by what the node takes, and when nothing is left
\* nothing is.
LEMMA LoopFalls ==
  ASSUME NEW from \in Nat, NEW to \in Nat, from <= to,
         NEW c \in [from..(to - 1) -> Nat], NEW length \in Nat,
         NEW f, Loop(f, c, from, to, length)
  PROVE  /\ \A i \in from..to : f[i] \in 0..length
         /\ \A i \in from..to : f[i] = 0 => \A k \in i..to : f[k] = 0
  <1>1. f[from] = length
    BY DEF Loop
  <1>2. ASSUME NEW i \in from..(to - 1) PROVE f[i + 1] = f[i] - Least(f[i], c[i])
    <2>1. i + 1 \in from..to /\ i + 1 # from /\ i + 1 - 1 = i
      OBVIOUS
    <2> QED
      BY <2>1 DEF Loop
  <1>3. \A i \in from..to : f[i] \in 0..length
    <2> DEFINE S == {i \in from..to : f[i] \in 0..length}
    <2>1. from \in S
      BY <1>1
    <2>2. \A i \in from..to : i \in S /\ i < to => i + 1 \in S
      <3> SUFFICES ASSUME NEW i \in from..to, i \in S, i < to PROVE i + 1 \in S
        OBVIOUS
      <3>1. i \in from..(to - 1) /\ i + 1 \in from..to /\ f[i] \in 0..length
        OBVIOUS
      <3>2. f[i + 1] = f[i] - Least(f[i], c[i])
        BY <1>2, <3>1
      <3>3. c[i] \in Nat /\ f[i] \in Nat
        BY <3>1
      <3>4. Least(f[i], c[i]) \in Nat /\ f[i] - Least(f[i], c[i]) \in Nat
        BY <3>3, LeastIs
      <3>5. f[i + 1] \in 0..length
        BY <3>1, <3>2, <3>4
      <3> QED
        BY <3>1, <3>5
    <2> HIDE DEF S
    <2>3. from..to \subseteq S
      BY <2>1, <2>2, IntervalInduction
    <2> QED
      BY <2>3 DEF S
  <1>4. ASSUME NEW i \in from..to, f[i] = 0 PROVE \A k \in i..to : f[k] = 0
    <2> DEFINE S == {k \in i..to : f[k] = 0}
    <2>1. i \in S /\ i \in Nat
      BY <1>4
    <2>2. \A k \in i..to : k \in S /\ k < to => k + 1 \in S
      <3> SUFFICES ASSUME NEW k \in i..to, k \in S, k < to PROVE k + 1 \in S
        OBVIOUS
      <3>1. k \in from..(to - 1) /\ k + 1 \in i..to /\ f[k] = 0
        OBVIOUS
      <3>2. f[k + 1] = f[k] - Least(f[k], c[k]) /\ c[k] \in Nat
        BY <1>2, <3>1
      <3>3. f[k + 1] = 0
        BY <3>1, <3>2 DEF Least
      <3> QED
        BY <3>1, <3>3
    <2> HIDE DEF S
    <2>3. i..to \subseteq S
      BY <2>1, <2>2, IntervalInduction
    <2> QED
      BY <2>3 DEF S
  <1> QED
    BY <1>3, <1>4

\* A step over some of the nodes from `node` on goes forward, not past the last one,
\* and not past a node before which all of them lie.
LEMMA MoveOnBounds ==
  ASSUME NEW node \in Nat, NEW size \in Nat, node < size,
         NEW done \in SUBSET (node..(size - 1))
  PROVE  LET m == MoveOn(node, Cardinality(done), size)
         IN  /\ m \in node..(size - 1)
             /\ \A i \in node..(size - 1) : done \subseteq node..(i - 1) => m <= i
  <1>1. IsFiniteSet(node..(size - 1))
    BY FS_Interval
  <1>2. IsFiniteSet(done) /\ Cardinality(done) \in Nat
    BY <1>1, FS_Subset, FS_CardinalityType
  <1>3. ASSUME NEW i \in node..(size - 1), done \subseteq node..(i - 1)
        PROVE  node + Cardinality(done) <= i
    <2>1. /\ IsFiniteSet(node..(i - 1))
          /\ Cardinality(node..(i - 1)) = IF node > i - 1 THEN 0 ELSE (i - 1) - node + 1
      BY FS_Interval
    <2>2. Cardinality(done) <= Cardinality(node..(i - 1))
      BY <1>3, <2>1, FS_Subset
    <2> QED
      BY <1>2, <2>1, <2>2
  <1> DEFINE sum == node + Cardinality(done)
             m == MoveOn(node, Cardinality(done), size)
  <1>4. m = IF sum <= size - 1 THEN sum ELSE size - 1
    BY DEF MoveOn, Least
  <1>5. sum \in Nat /\ sum >= node
    BY <1>2
  <1> HIDE DEF sum
  <1>6. m \in node..(size - 1) /\ m <= sum
    BY <1>4, <1>5
  <1> HIDE DEF m
  <1>7. ASSUME NEW i \in node..(size - 1), done \subseteq node..(i - 1) PROVE m <= i
    <2>1. sum <= i
      BY <1>3, <1>7 DEF sum
    <2> QED
      BY <1>5, <1>6, <2>1
  <1> QED
    BY <1>6, <1>7 DEF m

(***************************************************************************)
(* writeRaw.                                                               *)
(***************************************************************************)
\* A node takes no more than is left and it has room for when it is replaced, and
\* nothing when it is not visited.
LEMMA PutBounds ==
  ASSUME NEW b, Placed(b), NEW length \in Nat, NEW i \in b.writeNode..(b.size - 1)
  PROVE  /\ WriteLeft(b, length)[i] \in 0..length
         /\ Put(b, length, i) \in Nat /\ Put(b, length, i) <= WriteLeft(b, length)[i]
         /\ Cow(b.nodes[i]).end + Put(b, length, i) <= BufferNodeSize
         /\ i \notin WriteVisits(b, length) => Put(b, length, i) = 0
         /\ WriteLeft(b, length)[b.size] \in 0..length
  <1> DEFINE w == b.writeNode
             n == b.size
             cap == [k \in w..(n - 1) |-> Room(b.nodes[k])]
             left == WriteLeft(b, length)
  <1>1. /\ Typed(b) /\ w \in Nat /\ n \in Nat \ {0} /\ w < n
        /\ \A k \in 0..(n - 1) : b.nodes[k] \in Node
    BY NodesAre DEF Placed
  <1>2. ASSUME NEW k \in w..(n - 1)
        PROVE  /\ k \in 0..(n - 1) /\ Cow(b.nodes[k]).end \in Nat
               /\ Room(b.nodes[k]) = BufferNodeSize - Cow(b.nodes[k]).end
               /\ Room(b.nodes[k]) \in Nat
    <2>1. k \in 0..(n - 1) /\ b.nodes[k] \in Node
      BY <1>1
    <2>2. Cow(b.nodes[k]) \in Node
      BY <2>1, CowIs
    <2>3. Cow(b.nodes[k]).end \in Nat /\ Cow(b.nodes[k]).end <= BufferNodeSize
      BY <2>2, NodeIs
    <2> QED
      BY <2>1, <2>3 DEF Room
  <1>3. cap \in [w..(n - 1) -> Nat]
    BY <1>2
  <1>4. left = LeftOver(cap, w, n, length)
    BY DEF WriteLeft
  <1>5. /\ w \in Nat /\ n \in Nat /\ w <= n
    BY <1>1
  <1> HIDE DEF cap, left
  <1>6. \A k \in w..n : left[k] \in 0..length
    <2>1. Loop(left, cap, w, n, length)
      BY <1>3, <1>4, <1>5, LeftOverLoop
    <2> QED
      BY <1>3, <1>5, <2>1, LoopFalls
  <1>7. left[i] \in 0..length /\ left[n] \in 0..length
    <2>1. i \in w..n /\ n \in w..n
      BY <1>1
    <2> QED
      BY <1>6, <2>1
  <1>8. Put(b, length, i) = Least(left[i], Room(b.nodes[i]))
    BY DEF Put, left
  <1>9. /\ Put(b, length, i) \in Nat /\ Put(b, length, i) <= left[i]
        /\ Put(b, length, i) <= Room(b.nodes[i])
    <2>1. left[i] \in Nat /\ Room(b.nodes[i]) \in Nat
      BY <1>2, <1>7
    <2> DEFINE x == left[i]
               y == Room(b.nodes[i])
    <2> HIDE DEF x, y
    <2>2. Least(x, y) \in Nat /\ Least(x, y) <= x /\ Least(x, y) <= y
      <3>1. x \in Nat /\ y \in Nat
        BY <2>1 DEF x, y
      <3> QED
        BY ONLY <3>1, LeastIs
    <2>3. Put(b, length, i) = Least(x, y)
      BY <1>8 DEF x, y
    <2> QED
      BY ONLY <2>2, <2>3 DEF x, y
  <1>10. Cow(b.nodes[i]).end + Put(b, length, i) <= BufferNodeSize
    BY <1>2, <1>9
  <1>11. ASSUME i \notin WriteVisits(b, length) PROVE Put(b, length, i) = 0
    <2>1. ~(left[i] > 0)
      BY <1>2, <1>11 DEF WriteVisits, Visited, left
    <2> QED
      BY <1>7, <1>9, <2>1
  <1> QED
    BY <1>7, <1>9, <1>10, <1>11 DEF left

\* Nothing written is nothing changed.
LEMMA FilledNone ==
  ASSUME NEW node \in Node, NEW data, NEW first \in Nat
  PROVE  Filled(node, data, first, 0).buffer = node.buffer
  <1>1. node.end \in Nat /\ node.buffer \in [Offsets -> Bytes]
    BY DEF Node
  <1>2. Filled(node, data, first, 0).buffer =
           [o \in Offsets |-> IF o - node.end \in 0..(0 - 1) THEN data[first + (o - node.end)]
                              ELSE node.buffer[o]]
    BY DEF Filled
  <1>3. \A o \in Offsets : o - node.end \notin 0..(0 - 1)
    BY <1>1 DEF Offsets
  <1>4. Filled(node, data, first, 0).buffer = [o \in Offsets |-> node.buffer[o]]
    BY <1>2, <1>3
  <1> QED
    BY <1>1, <1>4

\* What the loop makes of a node: a shared one is the node it was.
LEMMA WrittenFollows ==
  ASSUME NEW b, Placed(b), Ordered(b), NEW data, DataOK(data), NEW i \in 0..(b.size - 1)
  PROVE  LET node == Written(b, data, i)
         IN  /\ node \in Node
             /\ i >= b.readNode => node.start <= node.end
             /\ node.twin # NoTwin =>
                  /\ node.twin = b.nodes[i].twin /\ node.buffer = b.nodes[i].buffer
                  /\ node.start = b.nodes[i].start
  <1> DEFINE length == Len(data)
             visits == WriteVisits(b, length)
             c == CowNodes(b, visits)
             node == c.nodes[i]
             left == WriteLeft(b, length)[i]
             first == length - left + 1
             count == Put(b, length, i)
             f == Filled(node, data, first, count)
  <1>1. /\ Typed(b) /\ b.readNode \in Nat /\ b.writeNode \in Nat /\ b.size \in Nat
        /\ length \in Nat /\ \A k \in 1..length : data[k] \in Bytes
        /\ b.nodes[i] \in Node
    BY NodesAre DEF Placed, DataOK
  <1>2. node = IF i \in visits THEN Cow(b.nodes[i]) ELSE b.nodes[i]
    <2> HIDE DEF visits
    <2> QED
      BY <1>1, CowNodesFields
  <1>3. Written(b, data, i) = IF i < b.writeNode THEN node ELSE f
    BY DEF Written
  <1> HIDE DEF c
  <1>4. /\ node \in Node
        /\ node.twin # NoTwin => node = b.nodes[i] /\ i \notin visits
    <2>1. Cow(b.nodes[i]) \in Node /\ Cow(b.nodes[i]).twin = NoTwin
      BY <1>1, CowIs
    <2> HIDE DEF visits, node
    <2> QED
      BY <1>1, <1>2, <2>1
  <1>5. i >= b.readNode => node.start <= node.end
    <2> SUFFICES ASSUME i >= b.readNode PROVE node.start <= node.end
      OBVIOUS
    <2>1. i \in b.readNode..(b.size - 1)
      BY <1>1
    <2>2. b.nodes[i].start <= b.nodes[i].end
      BY <2>1 DEF Ordered
    <2>3. Cow(b.nodes[i]).start <= Cow(b.nodes[i]).end
      BY <1>1, <2>2, CowIs
    <2> HIDE DEF visits, node
    <2> QED
      BY <1>2, <2>2, <2>3
  <1>6. CASE i < b.writeNode
    <2>1. Written(b, data, i) = node
      BY <1>3, <1>6
    <2> HIDE DEF node, visits
    <2> QED
      BY <1>4, <1>5, <2>1
  <1>7. CASE ~(i < b.writeNode)
    <2>1. i \in b.writeNode..(b.size - 1)
      BY <1>1, <1>7
    <2>2. /\ left \in 0..length /\ count \in Nat
          /\ count <= left
          /\ Cow(b.nodes[i]).end + count <= BufferNodeSize
          /\ i \notin visits => count = 0
      BY <1>1, <2>1, PutBounds
    <2>3. first \in Nat /\ first + count - 1 <= length /\ first >= 1
      <3> HIDE DEF left, count, length
      <3> QED
        BY <1>1, <2>2
    <2>4. Written(b, data, i) = f
      BY <1>3, <1>7
    <2>5. node.end \in Nat /\ node.end <= BufferNodeSize
      BY <1>4, NodeIs
    <2> HIDE DEF first, count, visits
    <2>6. node.end + count <= BufferNodeSize
      <3> HIDE DEF node
      <3> QED
        BY <1>2, <2>2, <2>5
    <2>7. BytesFrom(data, first, count)
      <3> SUFFICES ASSUME NEW k \in first..(first + count - 1) PROVE data[k] \in Bytes
        BY DEF BytesFrom
      <3>1. k \in 1..length
        BY <1>1, <2>2, <2>3
      <3> QED
        BY <1>1, <3>1
    <2> HIDE DEF node, length
    <2>8. f \in Node
      BY ONLY <1>4, <2>2, <2>3, <2>6, <2>7, FilledIs
    <2>9. f.start = node.start /\ f.end = node.end + count /\ f.twin = node.twin
      BY DEF Filled
    <2>10. f.twin # NoTwin => /\ f.buffer = b.nodes[i].buffer
                              /\ node = b.nodes[i]
      <3> SUFFICES ASSUME f.twin # NoTwin
                   PROVE  f.buffer = b.nodes[i].buffer /\ node = b.nodes[i]
        OBVIOUS
      <3>1. node = b.nodes[i] /\ count = 0
        BY <1>4, <2>2, <2>9
      <3>2. f.buffer = node.buffer
        BY <1>4, <2>3, <3>1, FilledNone
      <3> QED
        BY <3>1, <3>2
    <2> HIDE DEF f
    <2>11. i >= b.readNode => f.start <= f.end
      <3> SUFFICES ASSUME i >= b.readNode PROVE f.start <= f.end
        OBVIOUS
      <3>1. node.start <= node.end /\ node.start \in Nat
        BY <1>4, <1>5, NodeIs
      <3> QED
        BY <2>2, <2>5, <2>9, <3>1
    <2>12. f.twin # NoTwin => f.twin = b.nodes[i].twin /\ f.start = b.nodes[i].start
      BY <2>9, <2>10
    <2> QED
      BY <2>4, <2>8, <2>10, <2>11, <2>12
  <1> QED
    BY <1>6, <1>7

\* The write.
LEMMA WriteFollows ==
  ASSUME NEW b, Placed(b), Ordered(b), NEW data, DataOK(data),
         Len(data) < b.availableSizeToWrite
  PROVE  LET d == WriteLoop(b, data)
         IN  Placed(d) /\ Ordered(d) /\ Follows(b, d)
  <1> DEFINE length == Len(data)
             c == CowNodes(b, WriteVisits(b, length))
             w == MoveOn(b.writeNode, Cardinality(FullNodes(b, length)), b.size)
             written == length - WriteLeft(b, length)[b.size]
             read == c.availableSizeToRead + written
             write == c.availableSizeToWrite - written
             nodes == [i \in 0..(b.size - 1) |-> Written(b, data, i)]
             d == WriteLoop(b, data)
  <1>1. Typed(b) /\ length \in Nat
    BY DEF Placed, DataOK
  <1>2. /\ Typed(c) /\ c.size = b.size /\ c.readNode = b.readNode
        /\ c.writeNode = b.writeNode
        /\ c.availableSizeToRead = b.availableSizeToRead
        /\ c.availableSizeToWrite = b.availableSizeToWrite
    BY <1>1, CowNodesFields
  <1>3. /\ b.size \in Nat \ {0} /\ b.availableSizeToRead \in Nat
        /\ b.availableSizeToWrite \in Nat /\ b.writeNode \in Nat /\ b.readNode \in Nat
        /\ b.readNode <= b.writeNode /\ b.writeNode < b.size
    BY <1>1, NodesAre DEF Placed
  <1>4. d = [c EXCEPT !.nodes = nodes, !.writeNode = w, !.availableSizeToRead = read,
                      !.availableSizeToWrite = write]
    <2>1. d = [c EXCEPT
              !.nodes = [i \in 0..(c.size - 1) |->
                  IF i < c.writeNode THEN c.nodes[i]
                  ELSE Filled(c.nodes[i], data, length - WriteLeft(b, length)[i] + 1,
                              Put(b, length, i))],
              !.writeNode = MoveOn(c.writeNode, Cardinality(FullNodes(b, length)), c.size),
              !.availableSizeToRead  = c.availableSizeToRead + written,
              !.availableSizeToWrite = c.availableSizeToWrite - written]
      BY DEF WriteLoop, Put, FullNodes
    <2>2. nodes = [i \in 0..(c.size - 1) |->
                  IF i < c.writeNode THEN c.nodes[i]
                  ELSE Filled(c.nodes[i], data, length - WriteLeft(b, length)[i] + 1,
                              Put(b, length, i))]
      BY <1>2 DEF Written
    <2> QED
      BY <1>2, <2>1, <2>2
  <1>5. WriteLeft(b, length)[b.size] \in 0..length
    <2>1. b.writeNode \in b.writeNode..(b.size - 1)
      BY <1>3
    <2> QED
      BY <1>1, <2>1, PutBounds
  <1>6. read \in Nat /\ write \in Nat
    <2>1. written \in 0..length
      BY <1>1, <1>5
    <2> HIDE DEF written
    <2> QED
      BY <1>1, <1>2, <1>3, <2>1
  <1>7. w \in b.writeNode..(b.size - 1)
    <2>1. FullNodes(b, length) \in SUBSET (b.writeNode..(b.size - 1))
      BY DEF FullNodes
    <2> QED
      BY <1>3, <2>1, MoveOnBounds
  <1>8. nodes \in [0..(b.size - 1) -> Node]
    BY WrittenFollows
  <1>9. nodes \in NodeLists
    BY <1>3, <1>8 DEF NodeLists
  <1>10. c \in ByteArrays /\ c.size # 0
    BY <1>2 DEF Typed
  <1>11. \A i \in 0..(b.size - 1) : nodes[i] = Written(b, data, i)
    OBVIOUS
  <1> HIDE DEF c, w, written, read, write, nodes, d
  <1>12. w \in Nat
    BY <1>3, <1>7
  <1>13. d \in ByteArrays
    BY <1>4, <1>6, <1>9, <1>10, <1>12 DEF ByteArrays
  <1>14. d.nodes = nodes /\ d.writeNode = w /\ d.readNode = b.readNode /\ d.size = b.size
    BY <1>2, <1>4, <1>10 DEF ByteArrays
  <1>15. Placed(d)
    <2>1. Typed(d)
      BY <1>3, <1>8, <1>13, <1>14 DEF Typed
    <2> QED
      BY <1>3, <1>7, <1>14, <2>1 DEF Placed
  <1>16. ASSUME NEW i \in d.readNode..(d.size - 1) PROVE d.nodes[i].start <= d.nodes[i].end
    <2>1. i \in 0..(b.size - 1) /\ i >= b.readNode /\ d.nodes[i] = Written(b, data, i)
      BY <1>3, <1>11, <1>14
    <2> QED
      BY <2>1, WrittenFollows
  <1>17. ASSUME NEW i \in 0..(d.size - 1), d.nodes[i].twin # NoTwin
         PROVE  \E k \in 0..(b.size - 1) : Comes(b, k, d, i)
    <2>1. i \in 0..(b.size - 1) /\ d.nodes[i] = Written(b, data, i)
      BY <1>11, <1>14
    <2>2. /\ d.nodes[i].twin = b.nodes[i].twin /\ d.nodes[i].buffer = b.nodes[i].buffer
          /\ d.nodes[i].start = b.nodes[i].start
      BY <1>17, <2>1, WrittenFollows
    <2>3. Comes(b, i, d, i)
      BY <1>14, <2>2 DEF Comes
    <2> QED
      BY <2>1, <2>3
  <1> QED
    BY <1>15, <1>16, <1>17 DEF d, Ordered, Follows

(***************************************************************************)
(* retrieveRaw.                                                            *)
(***************************************************************************)
\* The readable nodes lie in the array.
LEMMA EndOfReadBounds ==
  ASSUME NEW a, Placed(a)
  PROVE  /\ a.readNode \in Nat /\ EndOfReadNode(a) \in Nat /\ a.size \in Nat \ {0}
         /\ a.readNode < EndOfReadNode(a) /\ EndOfReadNode(a) <= a.size
         /\ \A i \in a.readNode..(EndOfReadNode(a) - 1) : i \in 0..(a.size - 1)
  <1>1. /\ a.size \in Nat \ {0} /\ a.readNode \in Nat /\ a.writeNode \in Nat
        /\ a.readNode <= a.writeNode /\ a.writeNode < a.size
    BY NodesAre DEF Placed
  <1>2. \/ EndOfReadNode(a) = a.writeNode + 1
        \/ EndOfReadNode(a) = a.writeNode /\ a.writeNode > a.readNode
    BY <1>1 DEF EndOfReadNode
  <1> QED
    BY <1>1, <1>2

\* A node gives no more than is left and it holds when it is replaced, and
\* nothing when it is not visited; then nothing is left for later nodes.
LEMMA TakenBounds ==
  ASSUME NEW a, Placed(a), Ordered(a), NEW length \in Nat
  PROVE  LET left == RetrieveLeft(a, length)
             last == EndOfReadNode(a)
         IN  /\ \A i \in a.readNode..last : left[i] \in 0..length
             /\ \A i \in a.readNode..(last - 1) :
                   /\ Taken(a, length, i) \in Nat
                   /\ Cow(a.nodes[i]).start + Taken(a, length, i) <= Cow(a.nodes[i]).end
                   /\ i \notin RetrieveVisits(a, length) =>
                         /\ Taken(a, length, i) = 0
                         /\ \A k \in i..last : left[k] = 0
  <1> DEFINE r == a.readNode
             last == EndOfReadNode(a)
             cap == [k \in r..(last - 1) |-> Readable(a.nodes[k])]
             left == RetrieveLeft(a, length)
  <1>1. /\ Typed(a) /\ r \in Nat /\ last \in Nat /\ r <= last /\ last <= a.size
        /\ a.size \in Nat
        /\ \A k \in r..(last - 1) : k \in 0..(a.size - 1) /\ a.nodes[k] \in Node
    BY NodesAre, EndOfReadBounds DEF Placed
  <1>2. ASSUME NEW k \in r..(last - 1)
        PROVE  /\ Cow(a.nodes[k]).start \in Nat /\ Cow(a.nodes[k]).end \in Nat
               /\ Readable(a.nodes[k]) = Cow(a.nodes[k]).end - Cow(a.nodes[k]).start
               /\ Readable(a.nodes[k]) \in Nat
    <2>1. k \in r..(a.size - 1) /\ a.nodes[k] \in Node
      BY <1>1
    <2>2. a.nodes[k].start <= a.nodes[k].end
      BY <2>1 DEF Ordered
    <2>3. Cow(a.nodes[k]) \in Node /\ Cow(a.nodes[k]).start <= Cow(a.nodes[k]).end
      BY <2>1, <2>2, CowIs
    <2>4. Cow(a.nodes[k]).start \in Nat /\ Cow(a.nodes[k]).end \in Nat
      BY <2>3, NodeIs
    <2> QED
      BY <2>3, <2>4 DEF Readable
  <1>3. cap \in [r..(last - 1) -> Nat]
    BY <1>2
  <1>4. left = LeftOver(cap, r, last, length)
    BY DEF RetrieveLeft
  <1> HIDE DEF cap, left, last, r
  <1>5. /\ \A i \in r..last : left[i] \in 0..length
        /\ \A i \in r..last : left[i] = 0 => \A k \in i..last : left[k] = 0
    <2>1. Loop(left, cap, r, last, length)
      BY <1>1, <1>3, <1>4, LeftOverLoop
    <2> QED
      BY <1>1, <1>3, <2>1, LoopFalls
  <1>6. ASSUME NEW i \in r..(last - 1)
        PROVE  /\ Taken(a, length, i) \in Nat
               /\ Cow(a.nodes[i]).start + Taken(a, length, i) <= Cow(a.nodes[i]).end
               /\ i \notin RetrieveVisits(a, length) =>
                     /\ Taken(a, length, i) = 0
                     /\ \A k \in i..last : left[k] = 0
    <2> DEFINE x == left[i]
               y == Readable(a.nodes[i])
    <2>1. i \in r..last /\ i \in 0..(a.size - 1)
      BY <1>1
    <2>2. x \in Nat /\ y \in Nat
      BY <1>2, <1>5, <2>1
    <2>3. Taken(a, length, i) = Least(x, y)
      BY DEF Taken, left
    <2>4. y = Cow(a.nodes[i]).end - Cow(a.nodes[i]).start
          /\ Cow(a.nodes[i]).start \in Nat /\ Cow(a.nodes[i]).end \in Nat
      BY <1>2
    <2>5. i \notin RetrieveVisits(a, length) => ~(x > 0)
      BY <2>1 DEF RetrieveVisits, Visited, left, last, r
    <2>6. x = 0 => \A k \in i..last : left[k] = 0
      BY <1>5, <2>1
    <2> HIDE DEF x, y
    <2>7. Least(x, y) \in Nat /\ Least(x, y) <= x /\ Least(x, y) <= y
      BY ONLY <2>2, LeastIs
    <2>8. i \notin RetrieveVisits(a, length) => x = 0
      BY <2>2, <2>5
    <2>9. x = 0 => Least(x, y) = 0
      BY <2>2, <2>7
    <2> QED
      BY <2>3, <2>4, <2>6, <2>7, <2>8, <2>9
  <1> QED
    BY <1>5, <1>6 DEF left, last, r

\* What the loop makes of a node: a shared one is the node it was.
LEMMA RestFollows ==
  ASSUME NEW a, Placed(a), Ordered(a), NEW length \in Nat, NEW i \in 0..(a.size - 1)
  PROVE  LET node == Rest(a, length, i)
         IN  /\ node \in Node
             /\ i >= a.readNode => node.start <= node.end
             /\ node.twin # NoTwin => node = a.nodes[i] /\ i \notin RetrieveVisits(a, length)
  <1> DEFINE visits == RetrieveVisits(a, length)
             c == CowNodes(a, visits)
             node == c.nodes[i]
             taken == Taken(a, length, i)
             s == node.start + taken
  <1>1. /\ Typed(a) /\ a.readNode \in Nat /\ a.size \in Nat /\ a.nodes[i] \in Node
    BY NodesAre DEF Placed
  <1>2. node = IF i \in visits THEN Cow(a.nodes[i]) ELSE a.nodes[i]
    <2> HIDE DEF visits
    <2> QED
      BY <1>1, CowNodesFields
  <1>3. Rest(a, length, i) = IF i \in a.readNode..(EndOfReadNode(a) - 1)
                             THEN [node EXCEPT !.start = s] ELSE node
    BY DEF Rest
  <1> HIDE DEF c
  <1>4. /\ node \in Node
        /\ node.twin # NoTwin => node = a.nodes[i] /\ i \notin visits
    <2>1. Cow(a.nodes[i]) \in Node /\ Cow(a.nodes[i]).twin = NoTwin
      BY <1>1, CowIs
    <2> HIDE DEF visits, node
    <2> QED
      BY <1>1, <1>2, <2>1
  <1>5. node.start \in Nat /\ node.end \in Nat /\ node.end <= BufferNodeSize
    BY <1>4, NodeIs
  <1>6. i >= a.readNode => node.start <= node.end
    <2> SUFFICES ASSUME i >= a.readNode PROVE node.start <= node.end
      OBVIOUS
    <2>1. i \in a.readNode..(a.size - 1)
      BY <1>1
    <2>2. a.nodes[i].start <= a.nodes[i].end
      BY <2>1 DEF Ordered
    <2>3. Cow(a.nodes[i]).start <= Cow(a.nodes[i]).end
      BY <1>1, <2>2, CowIs
    <2> HIDE DEF visits, node
    <2> QED
      BY <1>2, <2>2, <2>3
  <1>7. CASE i \notin a.readNode..(EndOfReadNode(a) - 1)
    <2>1. Rest(a, length, i) = node
      BY <1>3, <1>7
    <2> HIDE DEF node
    <2> QED
      BY <1>4, <1>6, <2>1
  <1>8. CASE i \in a.readNode..(EndOfReadNode(a) - 1)
    <2>1. Rest(a, length, i) = [node EXCEPT !.start = s]
      BY <1>3, <1>8
    <2>2. /\ taken \in Nat /\ Cow(a.nodes[i]).start + taken <= Cow(a.nodes[i]).end
          /\ i \notin visits => taken = 0
      BY <1>8, TakenBounds
    <2>3. i >= a.readNode
      BY <1>1, <1>8
    <2> HIDE DEF node, taken, visits
    <2>4. s \in Nat /\ s <= node.end
      <3>1. CASE i \in visits
        BY <1>2, <1>5, <2>2, <3>1
      <3>2. CASE i \notin visits
        BY <1>5, <1>6, <2>2, <2>3, <3>2
      <3> QED
        BY <3>1, <3>2
    <2>5. i \notin visits => s = node.start
      BY <1>5, <2>2
    <2> HIDE DEF s
    <2>6. s \in 0..BufferNodeSize
      BY <1>5, <2>4
    <2> DEFINE rest == [node EXCEPT !.start = s]
    <2>7. /\ rest \in Node /\ rest.start = s /\ rest.end = node.end
          /\ rest.twin = node.twin
      BY <1>4, <2>6 DEF Node
    <2>8. s = node.start => rest = node
      BY <1>4 DEF Node
    <2> HIDE DEF rest
    <2>9. Rest(a, length, i) = rest
      BY <2>1 DEF rest
    <2>10. rest.twin # NoTwin => rest = a.nodes[i] /\ i \notin visits
      BY <1>4, <2>5, <2>7, <2>8
    <2>11. rest \in Node /\ rest.start <= rest.end
      BY <2>4, <2>7
    <2> QED
      BY <2>9, <2>10, <2>11 DEF visits
  <1> QED
    BY <1>7, <1>8

\* The nodes the loop leaves behind.
LeftBehind(a, length) ==
  {i \in a.readNode..(EndOfReadNode(a) - 1) :
     /\ RetrieveLeft(a, length)[i] > 0
     /\ CowNodes(a, RetrieveVisits(a, length)).nodes[i].start + Taken(a, length, i)
          = BufferNodeSize}

\* The read node does not pass a node that is not visited.
LEMMA NotPassed ==
  ASSUME NEW a, Placed(a), Ordered(a), NEW length \in Nat
  PROVE  LET m == MoveOn(a.readNode, Cardinality(LeftBehind(a, length)), a.size)
         IN  /\ m \in a.readNode..(a.size - 1)
             /\ \A i \in a.readNode..(a.size - 1) :
                   i \notin RetrieveVisits(a, length) => m <= i
  <1> DEFINE r == a.readNode
             n == a.size
             last == EndOfReadNode(a)
             left == RetrieveLeft(a, length)
             done == LeftBehind(a, length)
             m == MoveOn(r, Cardinality(done), n)
  <1>1. /\ r \in Nat /\ n \in Nat /\ last \in Nat /\ r < last /\ last <= n /\ r < n
    BY EndOfReadBounds
  <1>2. ASSUME NEW k \in done PROVE k \in r..(last - 1) /\ left[k] > 0
    BY DEF LeftBehind
  <1>3. done \in SUBSET (r..(n - 1))
    BY <1>1, <1>2
  <1>4. /\ m \in r..(n - 1)
        /\ \A i \in r..(n - 1) : done \subseteq r..(i - 1) => m <= i
    <2> HIDE DEF done, r, n
    <2> QED
      BY <1>1, <1>3, MoveOnBounds
  <1>5. ASSUME NEW i \in r..(n - 1), i \notin RetrieveVisits(a, length)
        PROVE  done \subseteq r..(i - 1)
    <2> SUFFICES ASSUME NEW k \in done PROVE k \in r..(i - 1)
      OBVIOUS
    <2>1. k \in r..(last - 1) /\ left[k] > 0
      BY <1>2
    <2> SUFFICES ASSUME k >= i PROVE FALSE
      BY <1>1, <2>1
    <2>2. i \in r..(last - 1) /\ k \in i..last
      BY <1>1, <2>1
    <2>3. left[k] = 0
      BY <1>5, <2>2, TakenBounds
    <2> QED
      BY <2>1, <2>3
  <1> QED
    BY <1>4, <1>5

\* The retrieve.
LEMMA RetrieveFollows ==
  ASSUME NEW a, Placed(a), Ordered(a), NEW length \in Nat, length <= a.availableSizeToRead
  PROVE  LET d == RetrieveRaw(a, length)
         IN  Placed(d) /\ Ordered(d) /\ Follows(a, d)
  <1> DEFINE visits == RetrieveVisits(a, length)
             c == CowNodes(a, visits)
             last == EndOfReadNode(a)
             m == MoveOn(a.readNode, Cardinality(LeftBehind(a, length)), a.size)
             w == IF m > c.writeNode THEN m ELSE c.writeNode
             read == c.availableSizeToRead - (length - RetrieveLeft(a, length)[last])
             nodes == [i \in 0..(a.size - 1) |-> Rest(a, length, i)]
             d == RetrieveRaw(a, length)
  <1>1. /\ Typed(a) /\ a.size \in Nat \ {0} /\ a.availableSizeToRead \in Nat
        /\ a.readNode \in Nat /\ a.writeNode \in Nat
        /\ a.readNode <= a.writeNode /\ a.writeNode < a.size
    BY NodesAre DEF Placed
  <1>2. /\ Typed(c) /\ c.size = a.size /\ c.readNode = a.readNode
        /\ c.writeNode = a.writeNode
        /\ c.availableSizeToRead = a.availableSizeToRead
    BY <1>1, CowNodesFields
  <1>3. d = [c EXCEPT !.nodes = nodes, !.readNode = m, !.writeNode = w,
                      !.availableSizeToRead = read]
    <2>1. d = [c EXCEPT
              !.nodes = [i \in 0..(c.size - 1) |->
                  IF i \in c.readNode..(last - 1)
                  THEN [c.nodes[i] EXCEPT !.start = @ + Taken(a, length, i)]
                  ELSE c.nodes[i]],
              !.readNode = m,
              !.writeNode = IF m > c.writeNode THEN m ELSE c.writeNode,
              !.availableSizeToRead =
                  c.availableSizeToRead - (length - RetrieveLeft(a, length)[last])]
      BY DEF RetrieveRaw, LeftBehind
    <2>2. nodes = [i \in 0..(c.size - 1) |->
                  IF i \in c.readNode..(last - 1)
                  THEN [c.nodes[i] EXCEPT !.start = @ + Taken(a, length, i)]
                  ELSE c.nodes[i]]
      BY <1>2 DEF Rest
    <2> QED
      BY <2>1, <2>2
  <1>4. read \in Nat
    <2>1. last \in a.readNode..last
      BY EndOfReadBounds
    <2>2. RetrieveLeft(a, length)[last] \in 0..length
      BY <2>1, TakenBounds
    <2> QED
      BY <1>1, <1>2, <2>2
  <1>5. /\ m \in a.readNode..(a.size - 1)
        /\ \A i \in a.readNode..(a.size - 1) : i \notin visits => m <= i
    BY NotPassed
  <1>6. nodes \in [0..(a.size - 1) -> Node]
    BY RestFollows
  <1>7. nodes \in NodeLists
    BY <1>1, <1>6 DEF NodeLists
  <1>8. c \in ByteArrays /\ c.size # 0
    BY <1>2 DEF Typed
  <1>9. \A i \in 0..(a.size - 1) : nodes[i] = Rest(a, length, i)
    OBVIOUS
  <1> HIDE DEF visits, c, m, read, nodes, d
  <1>10. w \in m..(a.size - 1) /\ w \in Nat /\ m \in Nat
    BY <1>1, <1>2, <1>5
  <1> HIDE DEF w
  <1>11. d \in ByteArrays
    BY <1>3, <1>4, <1>7, <1>8, <1>10 DEF ByteArrays
  <1>12. d.nodes = nodes /\ d.writeNode = w /\ d.readNode = m /\ d.size = a.size
    BY <1>2, <1>3, <1>8 DEF ByteArrays
  <1>13. Placed(d)
    <2>1. Typed(d)
      BY <1>1, <1>6, <1>11, <1>12 DEF Typed
    <2> QED
      BY <1>1, <1>10, <1>12, <2>1 DEF Placed
  <1>14. ASSUME NEW i \in d.readNode..(d.size - 1) PROVE d.nodes[i].start <= d.nodes[i].end
    <2>1. i \in 0..(a.size - 1) /\ i >= a.readNode /\ d.nodes[i] = Rest(a, length, i)
      BY <1>1, <1>5, <1>9, <1>12
    <2> QED
      BY <2>1, RestFollows
  <1>15. ASSUME NEW i \in 0..(d.size - 1), d.nodes[i].twin # NoTwin
         PROVE  \E k \in 0..(a.size - 1) : Comes(a, k, d, i)
    <2>1. i \in 0..(a.size - 1) /\ d.nodes[i] = Rest(a, length, i)
      BY <1>9, <1>12
    <2>2. d.nodes[i] = a.nodes[i] /\ i \notin visits
      BY <1>15, <2>1, RestFollows DEF visits
    <2>3. i < m => i < a.readNode
      <3> SUFFICES ASSUME ~(i < a.readNode) PROVE m <= i
        BY <1>10, <2>1
      <3>1. i \in a.readNode..(a.size - 1)
        BY <1>1, <2>1
      <3> QED
        BY <1>5, <2>2, <3>1
    <2>4. Comes(a, i, d, i)
      BY <1>12, <2>2, <2>3 DEF Comes
    <2> QED
      BY <2>1, <2>4
  <1> QED
    BY <1>13, <1>14, <1>15 DEF d, Ordered, Follows

(***************************************************************************)
(* The socket's adjustment.                                                *)
(***************************************************************************)
\* A transfer replaces all nodes from the read node up to the write node, so that
\* the nodes that are still shared are those read before and the free ones.
LEMMA AdvancedFollows ==
  ASSUME NEW a, Shape(a), NEW size \in Nat, ExactTransfer(a, size)
  PROVE  LET d == Advanced(a, size)
         IN  /\ Placed(d) /\ Follows(a, d)
             /\ d.nodes[d.readNode].start <= d.nodes[d.readNode].end => Ordered(d)
  <1> DEFINE n == AdjustedReadNode(a, size)
             visits == ReaderVisits(a) \cup {n}
             c == CowNodes(a, visits)
             rem == size % BufferNodeSize
             v == IF size >= a.availableSizeToRead THEN c.nodes[n].end
                  ELSE c.nodes[n].start + rem
             node == [c.nodes[n] EXCEPT !.start = v]
             nodes == [c.nodes EXCEPT ![n] = node]
             read == IF size >= a.availableSizeToRead THEN 0
                     ELSE a.availableSizeToRead - size
             d == Advanced(a, size)
  <1>1. /\ Typed(a) /\ a.readNode \in Nat /\ a.writeNode \in Nat /\ a.size \in Nat \ {0}
        /\ a.readNode <= a.writeNode /\ a.writeNode < a.size
        /\ a.availableSizeToRead \in Nat
        /\ \A i \in 0..(a.size - 1) : a.nodes[i] \in Node
    BY PlacesAre, NodesAre DEF Shape
  <1>2. /\ n \in a.readNode..a.writeNode
        /\ AdvancedStart(a, size) \in Nat /\ AdvancedStart(a, size) <= a.nodes[n].end
    BY ExactIs
  <1>3. n \in Nat /\ n \in 0..(a.size - 1)
    BY <1>1, <1>2
  <1>4. \A i \in a.readNode..a.writeNode : i \in visits
    BY ReaderVisitsAre
  <1>5. rem \in Nat /\ rem < BufferNodeSize
    BY SizeDivided
  <1>6. /\ Typed(c) /\ c.size = a.size
        /\ c.readNode = a.readNode /\ c.writeNode = a.writeNode
        /\ c.availableSizeToRead = a.availableSizeToRead
        /\ \A i \in 0..(a.size - 1) :
              c.nodes[i] = IF i \in visits THEN Cow(a.nodes[i]) ELSE a.nodes[i]
    <2> HIDE DEF visits
    <2> QED
      BY <1>1, CowNodesFields
  <1>7. /\ c \in ByteArrays /\ c.nodes \in [0..(a.size - 1) -> Node]
        /\ \A i \in 0..(a.size - 1) : c.nodes[i] \in Node
    BY <1>6 DEF Typed
  <1>8. c.nodes[n] = Cow(a.nodes[n]) /\ a.nodes[n] \in Node /\ c.nodes[n] \in Node
    <2> HIDE DEF visits, c, n
    <2> QED
      BY <1>1, <1>2, <1>3, <1>4, <1>6, <1>7
  <1>9. v \in 0..BufferNodeSize
    <2>1. /\ c.nodes[n].end \in Nat /\ c.nodes[n].end <= BufferNodeSize
          /\ a.nodes[n].end \in Nat /\ a.nodes[n].end <= BufferNodeSize
          /\ a.nodes[n].start \in Nat
      BY <1>8, NodeIs
    <2>2. CASE size >= a.availableSizeToRead
      BY <2>1, <2>2
    <2>3. CASE ~(size >= a.availableSizeToRead)
      <3>1. AdvancedStart(a, size) = a.nodes[n].start + rem
        BY <2>3 DEF AdvancedStart
      <3>2. c.nodes[n].start = a.nodes[n].start \/ c.nodes[n].start = 0
        BY <1>8, CowIs
      <3>3. v = c.nodes[n].start + rem
        BY <2>3
      <3> HIDE DEF v, c, n, rem
      <3> QED
        BY <1>2, <1>5, <2>1, <3>1, <3>2, <3>3
    <2> QED
      BY <2>2, <2>3
  <1>10. d = [c EXCEPT !.readNode = n, !.availableSizeToRead = read, !.nodes = nodes]
    <2>1. CASE size >= a.availableSizeToRead
      <3>1. d = [c EXCEPT !.readNode = n, !.availableSizeToRead = 0,
                          !.nodes[n].start = c.nodes[n].end]
        BY <2>1 DEF Advanced
      <3>2. v = c.nodes[n].end /\ read = 0
        BY <2>1
      <3> HIDE DEF c, n, v, read
      <3> QED
        BY <3>1, <3>2
    <2>2. CASE ~(size >= a.availableSizeToRead)
      <3>1. d = [c EXCEPT !.readNode = n,
                          !.availableSizeToRead = c.availableSizeToRead - size,
                          !.nodes[n].start = c.nodes[n].start + rem]
        BY <2>2 DEF Advanced
      <3>2. v = c.nodes[n].start + rem /\ read = c.availableSizeToRead - size
        BY <1>6, <2>2
      <3> HIDE DEF c, n, v, read
      <3> QED
        BY <3>1, <3>2
    <2> QED
      BY <2>1, <2>2
  <1>11. read \in Nat
    BY <1>1
  <1> HIDE DEF n, visits, c, v, read, d
  <1>12. node \in Node /\ node.twin = c.nodes[n].twin
    BY <1>8, <1>9 DEF Node
  <1> HIDE DEF node
  <1>13. /\ \A i \in 0..(a.size - 1) : nodes[i] = IF i = n THEN node ELSE c.nodes[i]
         /\ nodes \in [0..(a.size - 1) -> Node]
    BY <1>7, <1>12
  <1> HIDE DEF nodes
  <1>14. nodes \in NodeLists
    BY <1>1, <1>13 DEF NodeLists
  <1>15. d \in ByteArrays
    BY <1>3, <1>7, <1>10, <1>11, <1>14 DEF ByteArrays
  <1>16. d.nodes = nodes /\ d.readNode = n /\ d.size = a.size /\ d.writeNode = a.writeNode
    BY <1>6, <1>7, <1>10 DEF ByteArrays
  <1>17. Placed(d)
    <2>1. Typed(d)
      BY <1>1, <1>13, <1>15, <1>16 DEF Typed
    <2> QED
      BY <1>1, <1>2, <1>16, <2>1 DEF Placed
  <1>18. ASSUME NEW i \in 0..(d.size - 1), d.nodes[i].twin # NoTwin
         PROVE  \E k \in 0..(a.size - 1) : Comes(a, k, d, i)
    <2>1. i \in 0..(a.size - 1) /\ a.nodes[i] \in Node
      BY <1>1, <1>16
    <2>2. Cow(a.nodes[i]).twin = NoTwin /\ Cow(a.nodes[n]).twin = NoTwin
      BY <1>8, <2>1, CowIs
    <2>3. i # n
      BY <1>8, <1>12, <1>13, <1>16, <1>18, <2>1, <2>2
    <2>4. i \notin visits /\ d.nodes[i] = a.nodes[i]
      BY <1>6, <1>13, <1>16, <1>18, <2>1, <2>2, <2>3
    <2>5. i \notin a.readNode..a.writeNode
      BY <1>4, <2>4
    <2>6. i < n => i < a.readNode
      BY <1>1, <1>2, <2>1, <2>5
    <2>7. Comes(a, i, d, i)
      BY <1>16, <2>4, <2>6 DEF Comes
    <2> QED
      BY <2>1, <2>7
  <1>19. ASSUME d.nodes[d.readNode].start <= d.nodes[d.readNode].end,
                NEW i \in d.readNode..(d.size - 1)
         PROVE  d.nodes[i].start <= d.nodes[i].end
    <2>1. i \in 0..(a.size - 1) /\ i \in (a.readNode)..(a.size - 1) /\ a.nodes[i] \in Node
      BY <1>1, <1>2, <1>16
    <2>2. CASE i = n
      BY <1>16, <1>19, <2>2
    <2>3. CASE i # n
      <3>1. d.nodes[i] = c.nodes[i]
        BY <1>13, <1>16, <2>1, <2>3
      <3>2. a.nodes[i].start <= a.nodes[i].end
        BY <2>1, ShapePlaced DEF Ordered
      <3>3. Cow(a.nodes[i]).start <= Cow(a.nodes[i]).end
        BY <2>1, <3>2, CowIs
      <3> QED
        BY <1>6, <2>1, <3>1, <3>2, <3>3
    <2> QED
      BY <2>2, <2>3
  <1> QED
    BY <1>17, <1>18, <1>19 DEF d, Ordered, Follows

\* The whole adjustment; its read node shows whether extents were lost.
LEMMA AdjustFollows ==
  ASSUME NEW a, Shape(a), NEW size \in Nat, ExactTransfer(a, size)
  PROVE  LET b == AdjustByteArray(a, size)
         IN  /\ Placed(b) /\ Follows(a, b)
             /\ b.nodes[b.readNode].start <= b.nodes[b.readNode].end => Ordered(b)
  <1> DEFINE d == Advanced(a, size)
             b == AdjustByteArray(a, size)
  <1>1. /\ Placed(d) /\ Follows(a, d)
        /\ d.nodes[d.readNode].start <= d.nodes[d.readNode].end => Ordered(d)
    BY AdvancedFollows
  <1>2. b = MoveBufferHead(d)
    BY DEF AdjustByteArray
  <1> HIDE DEF d, b
  <1>3. Placed(b) /\ Follows(d, b) /\ (Ordered(d) => Ordered(b))
    BY <1>1, <1>2, MoveHeadFollows
  <1>4. Follows(a, b)
    BY <1>1, <1>3, FollowsOn
  <1>5. b.nodes[b.readNode] = d.nodes[d.readNode]
    <2>1. /\ Typed(d) /\ d.readNode \in Nat /\ d.writeNode \in Nat /\ d.size \in Nat
          /\ d.readNode <= d.writeNode /\ d.writeNode < d.size
      BY <1>1, NodesAre DEF Placed
    <2>2. b.readNode = 0 /\ b.nodes = Moved(d)
      BY <1>2, <2>1, MoveHeadFields
    <2>3. 0 \in 0..(d.size - 1) /\ 0 + d.readNode < d.size /\ 0 + d.readNode = d.readNode
      BY <2>1
    <2>4. Moved(d)[0] = d.nodes[0 + d.readNode]
      BY <2>1, <2>3, MovedIs
    <2> QED
      BY <2>2, <2>3, <2>4
  <1> QED
    BY <1>1, <1>3, <1>4, <1>5 DEF b

(***************************************************************************)
(* The invariant of a shared array.                                        *)
(***************************************************************************)
CopiesOK(a, copies) == \A copy \in copies : CopyOK(copy) /\ Linked(a, copy)

SharedInv == ~crossed => Placed(array) /\ Ordered(array) /\ CopiesOK(array, passive)

\* What the copies hold.
Held(copies) == {ContentsOf(copy) : copy \in copies}

\* An array that follows the old one leaves the copy what it had.
LEMMA CopiesKept ==
  ASSUME NEW d, Typed(d), Follows(array, d), CopiesOK(array, passive)
  PROVE  CopiesOK(d, Passive(d)) /\ Held(Passive(d)) = Held(passive)
  <1>1. Passive(d) = {Synced(copy, d) : copy \in passive}
    BY PassiveSynced
  <1>2. ASSUME NEW copy \in passive
        PROVE  /\ CopyOK(Synced(copy, d)) /\ Linked(d, Synced(copy, d))
               /\ ContentsOf(Synced(copy, d)) = ContentsOf(copy)
    <2>1. CopyOK(copy) /\ Linked(array, copy)
      BY DEF CopiesOK
    <2>2. Typed(copy)
      BY <2>1 DEF CopyOK
    <2>3. Linked(d, copy)
      BY <2>1, <2>2, LinkedFollows
    <2> QED
      BY <2>1, <2>3, SyncedIs
  <1>3. CopiesOK(d, Passive(d))
    BY <1>1, <1>2 DEF CopiesOK
  <1>4. Held(Passive(d)) = Held(passive)
    BY <1>1, <1>2 DEF Held
  <1> QED
    BY <1>3, <1>4

\* The invariant after a step, from the array and the copies it leaves.
LEMMA SharedIs ==
  ASSUME ~crossed' => Placed(array') /\ Ordered(array') /\ CopiesOK(array', passive')
  PROVE  SharedInv'
  BY DEF SharedInv, Placed, Ordered, CopiesOK, CopyOK, Linked, Shares, Typed, ByteArrays,
         NodeLists, Node, Bytes, Offsets, NoTwin, StartOf

\* A new array has it.
LEMMA SharedInit == ArrayInit => SharedInv
  <1> SUFFICES ASSUME ArrayInit PROVE SharedInv
    OBVIOUS
  <1>1. ~lost /\ ~crossed /\ passive = {}
    BY DEF ArrayInit
  <1>2. Shape(array)
    BY <1>1, ArrayInvInit DEF ArrayInv
  <1> QED
    BY <1>1, <1>2, ShapePlaced DEF SharedInv, CopiesOK

\* Writing keeps it, and the copy.
LEMMA WriteShared ==
  ASSUME ArrayInv, SharedInv, NEW length \in WriteLengths, Write(length)
  PROVE  SharedInv' /\ Held(passive') = Held(passive)
  <1> DEFINE data == DataFrom(nextByte, length)
             b == AllocIfNotEnough(array, length)
             d == WriteLoop(b, data)
  <1>1. length \in Nat /\ nextByte \in Nat
    BY SizesAssumption DEF WriteLengths, ArrayInv, Bytes
  <1>2. nextByte + length <= MaxBytes
    BY DEF Write
  <1>3. DataOK(data) /\ Len(data) = length
    BY <1>1, <1>2, DataFromIs
  <1>4. array' = d /\ passive' = Passive(d)
    <2> HIDE DEF data
    <2>1. WriteRaw(array, data) = d
      BY <1>3 DEF WriteRaw
    <2> QED
      BY <2>1 DEF Write, data
  <1>5. ~crossed
    BY DEF Write
  <1>6. Placed(array) /\ Ordered(array) /\ CopiesOK(array, passive)
    BY <1>5 DEF SharedInv
  <1>7. /\ Placed(b) /\ Ordered(b) /\ Follows(array, b)
        /\ b.availableSizeToWrite > length
    BY <1>1, <1>6, AllocFollows
  <1> HIDE DEF data, b
  <1>8. Len(data) < b.availableSizeToWrite
    <2>1. b.availableSizeToWrite \in Nat
      BY <1>7, NodesAre DEF Placed
    <2> QED
      BY <1>1, <1>3, <1>7, <2>1
  <1>9. Placed(d) /\ Ordered(d) /\ Follows(b, d)
    BY <1>3, <1>7, <1>8, WriteFollows
  <1> HIDE DEF d
  <1>10. Typed(d) /\ Follows(array, d)
    BY <1>7, <1>9, FollowsOn DEF Placed
  <1>11. CopiesOK(d, Passive(d)) /\ Held(Passive(d)) = Held(passive)
    BY <1>6, <1>10, CopiesKept
  <1> QED
    BY <1>4, <1>9, <1>11, SharedIs

\* So does a retrieve, whoever makes it and whether there is enough or not.
LEMMA RetrieveShared ==
  ASSUME SharedInv, NEW length \in Nat, Retrieve(length)
  PROVE  SharedInv' /\ Held(passive') = Held(passive)
  <1>1. ~crossed
    BY DEF Retrieve
  <1>2. Placed(array) /\ Ordered(array) /\ CopiesOK(array, passive)
    BY <1>1 DEF SharedInv
  <1>3. passive' = Passive(array')
    BY DEF Retrieve
  <1>4. Placed(array') /\ Ordered(array') /\ Follows(array, array')
    <2>1. CASE array.availableSizeToRead >= length
      <3>1. array' = RetrieveRaw(array, length)
        <4>1. array.availableSizeToRead \in Nat
          BY <1>2, NodesAre DEF Placed
        <4> QED
          BY <2>1, <4>1 DEF Retrieve
      <3>2. length <= array.availableSizeToRead
        BY <2>1
      <3> QED
        BY <1>2, <3>1, <3>2, RetrieveFollows
    <2>2. CASE ~(array.availableSizeToRead >= length)
      <3>1. array' = array
        BY <2>2 DEF Retrieve
      <3> QED
        BY <1>2, <3>1, FollowsSelf
    <2> QED
      BY <2>1, <2>2
  <1>5. Typed(array')
    BY <1>4 DEF Placed
  <1> DEFINE d == array'
  <1>6. Typed(d) /\ Follows(array, d)
    BY <1>4, <1>5
  <1> HIDE DEF d
  <1>7. CopiesOK(d, Passive(d)) /\ Held(Passive(d)) = Held(passive)
    BY <1>2, <1>6, CopiesKept
  <1> QED
    BY <1>3, <1>4, <1>7, SharedIs DEF d

\* ... and a transfer, also one that loses extents or crosses.
LEMMA TransferShared ==
  ASSUME ArrayInv, SharedInv, NEW size \in Nat, SocketTransfers(size)
  PROVE  SharedInv' /\ Held(passive') = Held(passive)
  <1>1. ~crossed /\ ~lost
    BY DEF SocketTransfers
  <1>2. Shape(array) /\ CopiesOK(array, passive)
    BY <1>1 DEF SharedInv, ArrayInv
  <1>3. CASE ExactTransfer(array, size)
    <2> DEFINE d == AdjustByteArray(array, size)
    <2>1. /\ array' = d /\ passive' = Passive(d)
          /\ crossed' = (d.nodes[d.readNode].start > d.nodes[d.readNode].end)
      BY <1>3 DEF SocketTransfers
    <2>2. /\ Placed(d) /\ Follows(array, d)
          /\ d.nodes[d.readNode].start <= d.nodes[d.readNode].end => Ordered(d)
      BY <1>2, <1>3, AdjustFollows
    <2> HIDE DEF d
    <2>3. Typed(d) /\ d.readNode \in 0..(d.size - 1)
      BY <2>2, NodesAre DEF Placed
    <2>4. CopiesOK(d, Passive(d)) /\ Held(Passive(d)) = Held(passive)
      BY <1>2, <2>2, <2>3, CopiesKept
    <2>5. ~crossed' => Ordered(d)
      <3>1. d.nodes[d.readNode].start \in Nat /\ d.nodes[d.readNode].end \in Nat
        BY <2>3, NodesAre
      <3>2. ~(d.nodes[d.readNode].start > d.nodes[d.readNode].end) => Ordered(d)
        BY <2>2, <3>1
      <3> QED
        BY <2>1, <3>2
    <2> QED
      BY <2>1, <2>2, <2>4, <2>5, SharedIs
  <1>4. CASE ~ExactTransfer(array, size)
    <2>1. crossed' /\ passive' = passive
      BY <1>4 DEF SocketTransfers
    <2> QED
      BY <2>1, SharedIs
  <1> QED
    BY <1>3, <1>4

\* A copy of an array in shape shares all nodes with it.
LEMMA CopyShared ==
  ASSUME ArrayInv, Copy
  PROVE  SharedInv'
  <1> DEFINE t == [i \in 0..(array.size - 1) |-> i]
             d == Retwinned(array, t)
  <1>1. ~lost /\ ~crossed /\ passive' = {array}
    BY DEF Copy
  <1>2. Shape(array) /\ array.size <= MaxNodes
    BY <1>1 DEF ArrayInv
  <1>3. Typed(array) /\ array.size \in Nat /\ DOMAIN array.nodes = 0..(array.size - 1)
    BY <1>2 DEF Shape, Typed, ByteArrays
  <1>4. array' = d
    <2>1. array' = [array EXCEPT !.nodes = [i \in 0..(array.size - 1) |->
                                              [array.nodes[i] EXCEPT !.twin = i]]]
      BY <1>3 DEF Copy
    <2>2. \A i \in 0..(array.size - 1) : t[i] = i
      OBVIOUS
    <2> HIDE DEF t
    <2> QED
      BY <2>1, <2>2 DEF Retwinned
  <1>5. /\ t \in [0..(array.size - 1) -> NoTwin..(MaxNodes - 1)]
        /\ \A i \in 0..(array.size - 1) : t[i] = i
    BY <1>2, <1>3, SizesAssumption DEF NoTwin
  <1> HIDE DEF t
  <1>6. /\ Shape(d) /\ d.size = array.size
        /\ \A i \in 0..(array.size - 1) : d.nodes[i].twin = t[i]
        /\ SameBuffers(array, d)
    BY <1>2, <1>5, RetwinnedShape
  <1>7. /\ d.readNode = array.readNode
        /\ \A i \in 0..(array.size - 1) : d.nodes[i].start = array.nodes[i].start
    <2> DEFINE nodes == [i \in 0..(array.size - 1) |-> [array.nodes[i] EXCEPT !.twin = t[i]]]
    <2>1. d = [array EXCEPT !.nodes = nodes] /\ array \in ByteArrays
      BY <1>3 DEF Retwinned, Typed
    <2>2. \A i \in 0..(array.size - 1) : nodes[i].start = array.nodes[i].start
      <3> SUFFICES ASSUME NEW i \in 0..(array.size - 1)
                   PROVE  nodes[i].start = array.nodes[i].start
        OBVIOUS
      <3>1. array.nodes[i] \in Node
        BY <1>3, NodesAre
      <3>2. nodes[i] = [array.nodes[i] EXCEPT !.twin = t[i]]
        OBVIOUS
      <3> HIDE DEF nodes
      <3> QED
        BY <3>1, <3>2 DEF Node
    <2> HIDE DEF nodes, d
    <2>3. d.nodes = nodes /\ d.readNode = array.readNode
      BY <2>1 DEF ByteArrays
    <2> QED
      BY <2>2, <2>3
  <1> HIDE DEF d
  <1>8. Linked(d, array)
    <2> SUFFICES ASSUME NEW i \in 0..(d.size - 1) PROVE Shares(d, i, array)
      BY DEF Linked
    <2>1. /\ i \in 0..(array.size - 1) /\ d.nodes[i].twin = i
          /\ d.nodes[i].buffer = array.nodes[i].buffer
      BY <1>5, <1>6 DEF SameBuffers
    <2> QED
      BY <1>7, <2>1 DEF Shares
  <1>9. CopyOK(array)
    <2>1. /\ array.readNode < array.size
          /\ array.writeNode \in Nat /\ array.writeNode < array.size
          /\ StartOf(array) \in Nat /\ EndOf(array) \in Nat
          /\ array.availableSizeToRead = EndOf(array) - StartOf(array)
          /\ array.availableSizeToWrite = array.size * BufferNodeSize - EndOf(array)
          /\ array.availableSizeToWrite \in Nat
      BY <1>2, <1>3, PlacesAre
    <2>2. array.size * BufferNodeSize \in Nat
      BY <1>3, TimesIs
    <2>3. StartOf(array) + array.availableSizeToRead <= array.size * BufferNodeSize
      BY <2>1, <2>2
    <2> QED
      BY <1>3, <2>1, <2>3 DEF CopyOK
  <1>10. Placed(d) /\ Ordered(d)
    BY <1>6, ShapePlaced
  <1>11. CopiesOK(d, {array})
    BY <1>8, <1>9 DEF CopiesOK
  <1> QED
    BY <1>1, <1>4, <1>10, <1>11, SharedIs

\* Without a copy nothing is shared.
LEMMA DestroyShared ==
  ASSUME ArrayInv, DestroyCopy
  PROVE  SharedInv'
  <1>1. ~lost' /\ ~crossed' /\ passive' = {}
    <2>1. ~lost' BY DEF DestroyCopy
    <2>2. ~crossed' BY DEF DestroyCopy
    <2> QED
      BY <2>1, <2>2 DEF DestroyCopy
  <1>2. ArrayInv'
    BY DestroyCopyInv
  <1>3. Shape(array')
    BY <1>1, <1>2 DEF ArrayInv, Shape, Typed, Extents, Counted,
       StartOf, EndOf, Untwinned, ByteArrays, NodeLists, Node, Bytes, Offsets, NoTwin
  <1>4. Placed(array') /\ Ordered(array')
    BY <1>3, ShapePlaced
  <1>5. CopiesOK(array', passive')
    BY <1>1 DEF CopiesOK
  <1> QED
    BY <1>4, <1>5, SharedIs

\* Every step keeps the invariant; a step that neither makes nor ends the copy keeps
\* what it holds.
LEMMA SharedStep ==
  ArrayInv /\ SharedInv /\ [ArrayNext]_arrayVars =>
     /\ SharedInv'
     /\ passive # {} /\ passive' # {} => Held(passive') = Held(passive)
  <1> SUFFICES ASSUME ArrayInv, SharedInv, [ArrayNext]_arrayVars
               PROVE  /\ SharedInv'
                      /\ passive # {} /\ passive' # {} => Held(passive') = Held(passive)
    OBVIOUS
  <1>1. CASE \E length \in WriteLengths : Write(length)
    BY <1>1, WriteShared
  <1>2. CASE \E length \in RetrieveLengths : OtherRetrieves(length)
    <2>1. PICK length \in RetrieveLengths : Retrieve(length)
      BY <1>2 DEF OtherRetrieves
    <2>2. length \in Nat
      BY SizesAssumption DEF RetrieveLengths
    <2> QED
      BY <2>1, <2>2, RetrieveShared
  <1>3. CASE ReaderRetrieves
    <2>1. Retrieve(checked) /\ checked \in Nat
      BY <1>3, SizesAssumption DEF ReaderRetrieves, ArrayInv
    <2> DEFINE length == checked
    <2>2. Retrieve(length) /\ length \in Nat
      BY <2>1
    <2> HIDE DEF length
    <2> QED
      BY <2>2, RetrieveShared
  <1>4. CASE \E size \in 0..(MaxNodes * BufferNodeSize) : SocketTransfers(size)
    <2>1. PICK size \in 0..(MaxNodes * BufferNodeSize) : SocketTransfers(size)
      BY <1>4
    <2>2. size \in Nat
      OBVIOUS
    <2> QED
      BY <2>1, <2>2, TransferShared
  <1>4a. CASE \E length \in WriteLengths : SocketFills(length)
    <2>1. PICK length \in WriteLengths : SocketFills(length)
      BY <1>4a
    <2>2. CASE Write(length)
      BY <2>2, WriteShared
    <2>3. CASE crossed' /\ passive' = passive
      BY <2>3, SharedIs
    <2> QED
      BY <2>1, <2>2, <2>3, FillIsWrite
  <1>5. CASE Copy
    <2>1. passive = {}
      BY <1>5 DEF Copy
    <2> QED
      BY <1>5, <2>1, CopyShared
  <1>6. CASE DestroyCopy
    <2>1. passive' = {}
      BY <1>6 DEF DestroyCopy
    <2> QED
      BY <1>6, <2>1, DestroyShared
  <1>7. ASSUME array' = array, passive' = passive, crossed' = crossed
        PROVE  SharedInv' /\ Held(passive') = Held(passive)
    <2>1. ~crossed' => Placed(array') /\ Ordered(array') /\ CopiesOK(array', passive')
      BY <1>7 DEF SharedInv
    <2> QED
      BY <1>7, <2>1, SharedIs
  <1>8. CASE \E length \in RetrieveLengths : ReaderChecks(length)
    <2>1. array' = array /\ passive' = passive /\ crossed' = crossed
      BY <1>8 DEF ReaderChecks
    <2> QED
      BY <1>7, <2>1
  <1>9. CASE UNCHANGED arrayVars
    <2>1. array' = array /\ passive' = passive /\ crossed' = crossed
      BY <1>9 DEF arrayVars
    <2> QED
      BY <1>7, <2>1
  <1> QED
    BY <1>1, <1>2, <1>3, <1>4, <1>5, <1>6, <1>8, <1>9, <1>4a DEF ArrayNext

\* Whatever is done to one of two arrays that share their nodes, extents lost
\* included, the bytes the other one holds stay as they are: every node with
\* bytes of the copy is replaced before it is written (CowLink.hpp), and the head
\* move resets only nodes the copy had read before.
THEOREM CopyIntactTheorem == ArraySpec => CopyIntact
  <1>1. ArrayInit => SharedInv
    BY SharedInit
  <1>2. ArrayInv /\ SharedInv /\ [ArrayNext]_arrayVars => SharedInv'
    BY SharedStep
  <1>3. ArrayInv /\ SharedInv /\ [ArrayNext]_arrayVars =>
          [passive # {} /\ passive' # {} =>
             {ContentsOf(copy) : copy \in passive'} =
             {ContentsOf(copy) : copy \in passive}]_arrayVars
    BY SharedStep DEF Held
  <1> QED
    BY <1>1, <1>2, <1>3, ArrayInvariant, PTL DEF ArraySpec, CopyIntact
=============================================================================
