--------------------------- MODULE ConnectorProofs --------------------------
(***************************************************************************)
(* Proofs about Connector for any bounds: types and every invariant of the *)
(* connector run.                                                          *)
(***************************************************************************)
EXTENDS Connector, SequenceTheorems, TLAPS

\* ~Timer takes the timer's channel out of the round.
TimerRuns == "timer" \in round => timer # 0

\* The kernel watches the socket only on behalf of its key.
WatchedHasKey == watched => fd \in keys

\* A key the kernel has forgotten, that of a closed descriptor with the same
\* number, belongs to a retry, whose timer runs, or to the connection made.
ForgottenKey == Defined /\ fd \in keys /\ ~watched => timer # 0 \/ socket = 0

\* Once the socket is handed over nothing calls the connector any more.
HandedOver ==
    Defined /\ socket = 0 => ~watched /\ "connector" \notin round /\ timer = 0

\* onConnected comes with the handing over.
NotYetConnected == socket # 0 => connects = 0

\* A refused attempt that handleOut has seen is no longer watched.
GivenUpIsQuiet ==
    tcp = "givenUp" => socket # 0 /\ fd \notin keys /\ "connector" \notin round

QuietInv == /\ TimerRuns /\ WatchedHasKey /\ ForgottenKey /\ HandedOver
            /\ NotYetConnected /\ GivenUpIsQuiet
            /\ NeverStranded /\ RemovedIsQuiet /\ ConnectedOnce /\ StaleKeyExplained

ConnectorInv == TypeOK /\ QuietInv

USE BoundsAssumption

(***************************************************************************)
(* Types.                                                                  *)
(***************************************************************************)
LEMMA TypeOKInit == Init => TypeOK
  <1> SUFFICES ASSUME Init PROVE TypeOK
    OBVIOUS
  <1>1. functors \in Seq(Functors) /\ batch \in Seq(Functors)
    BY EmptySeq DEF Init
  <1>2. timer \in Intervals \cup {0} /\ connects \in 0..2
    BY DEF Init
  <1> QED
    BY <1>1, <1>2 DEF Init, TypeOK, Sockets

\* The next retry interval is an interval.
LEMMA BackoffType ==
  ASSUME NEW interval \in Intervals \cup {0}
  PROVE  Backoff(interval) \in Intervals
  BY DEF Intervals, Backoff

\* What connect() may come to.
LEMMA ConnectResultsType ==
  ASSUME NEW res \in ConnectResults
  PROVE  res[1] \in Sockets \ {"givenUp"}
  <1>1. \E c \in {"synSent", "connected", "new"} : \E b \in BOOLEAN : res = <<c, b>>
    BY DEF ConnectResults
  <1> QED
    BY <1>1 DEF Sockets

\* Every step keeps the types.
LEMMA TypeOKStep == TypeOK /\ [Next]_vars => TypeOK'
  <1> SUFFICES ASSUME TypeOK, [Next]_vars PROVE TypeOK'
    OBVIOUS
  <1> USE DEF TypeOK, machine, kernel, epoll, queue
  <1>1. ASSUME NEW f \in Functors, UserPosts(f) PROVE TypeOK'
    <2>1. functors' \in Seq(Functors)
      BY <1>1, AppendProperties DEF UserPosts
    <2> QED
      BY <1>1, <2>1 DEF UserPosts
  <1>2. CASE UserReleases
    <2>1. held' \in BOOLEAN
      BY <1>2 DEF UserReleases
    <2>2. UNCHANGED <<machine, kernel, epoll, served, inLoop, timer, queue, loop, round,
                      overlapped, lateEvent>>
      BY <1>2 DEF UserReleases
    <2> QED
      BY <2>1, <2>2
  <1>3. CASE Answer
    BY <1>3 DEF Answer, Sockets
  <1>4. ASSUME NEW expired \in BOOLEAN, Poll(expired) PROVE TypeOK'
    <2>1. round' \in SUBSET Channels
      BY <1>4 DEF Poll, Channels
    <2> QED
      BY <1>4, <2>1 DEF Poll
  <1>5. CASE EndRound
    BY <1>5 DEF EndRound
  <1>6. CASE HandleDead
    BY <1>6 DEF HandleDead
  <1>7. CASE HandleOutRefused
    <2>1. timer' \in Intervals \cup {0}
      BY <1>7, BackoffType DEF HandleOutRefused
    <2>2. keys' \in SUBSET Fds /\ watched' \in BOOLEAN /\ round' \in SUBSET Channels
      BY <1>7 DEF HandleOutRefused, Disable
    <2> QED
      BY <1>7, <2>1, <2>2 DEF HandleOutRefused, Sockets
  <1>8. CASE HandleOutConnected
    <2>1. keys' \in SUBSET Fds /\ watched' \in BOOLEAN
      BY <1>8 DEF HandleOutConnected
    <2>2. round' \in SUBSET Channels
      BY <1>8 DEF HandleOutConnected, WithoutTimer, Channels
    <2>3. connects' \in 0..2
      BY <1>8 DEF HandleOutConnected
    <2> QED
      BY <1>8, <2>1, <2>2, <2>3 DEF HandleOutConnected
  <1>9. CASE HandleOutOther
    BY <1>9 DEF HandleOutOther, Sockets
  <1>10. CASE TimerFires
    <2>1. "connect" \in Functors
      BY DEF Functors
    <2>2. functors' \in Seq(Functors)
      BY <1>10, <2>1, AppendProperties DEF TimerFires
    <2>3. /\ socket' \in Fds /\ fd' \in Fds /\ tcp' \in Sockets
          /\ keys' \in SUBSET Fds /\ watched' \in BOOLEAN
      BY <1>10 DEF TimerFires, Sockets
    <2>4. round' \in SUBSET Channels
      BY <1>10 DEF TimerFires, Channels
    <2> QED
      BY <1>10, <2>2, <2>3, <2>4 DEF TimerFires
  <1>11. CASE FetchFunctors
    BY <1>11, EmptySeq DEF FetchFunctors
  <1>12. CASE EndFunctors
    BY <1>12 DEF EndFunctors
  <1>13. CASE ConnectInLoop
    <2>1. batch' \in Seq(Functors)
      BY <1>13, HeadTailProperties DEF ConnectInLoop
    <2>2. keys' \in SUBSET Fds /\ watched' \in BOOLEAN
      BY <1>13 DEF ConnectInLoop, Active
    <2>3. tcp' \in Sockets /\ state' \in {"Closed", "Connecting"}
      BY <1>13, ConnectResultsType DEF ConnectInLoop
    <2> QED
      BY <1>13, <2>1, <2>2, <2>3 DEF ConnectInLoop
  <1>14. CASE StopInLoop
    <2>1. batch' \in Seq(Functors)
      BY <1>14, HeadTailProperties DEF StopInLoop
    <2>2. keys' \in SUBSET Fds /\ watched' \in BOOLEAN
      BY <1>14 DEF StopInLoop, Disable
    <2>3. round' \in SUBSET Channels
      BY <1>14 DEF StopInLoop, WithoutTimer, Channels
    <2> QED
      BY <1>14, <2>1, <2>2, <2>3 DEF StopInLoop
  <1>15. CASE UNCHANGED vars
    BY <1>15 DEF vars
  <1> QED
    BY <1>1, <1>2, <1>3, <1>4, <1>5, <1>6, <1>7, <1>8, <1>9, <1>10, <1>11, <1>12,
       <1>13, <1>14, <1>15 DEF Next, LoopStep

(***************************************************************************)
(* What wakes the connector, and what is left of it.                       *)
(***************************************************************************)
LEMMA QuietInvInit == Init => QuietInv
  BY DEF Init, QuietInv, TimerRuns, WatchedHasKey, ForgottenKey, HandedOver,
     NotYetConnected, GivenUpIsQuiet, NeverStranded, RemovedIsQuiet, ConnectedOnce,
     StaleKeyExplained, Fds

\* Every step of user, network and loop keeps the other conjuncts.
LEMMA QuietInvStep == TypeOK /\ QuietInv /\ [Next]_vars => QuietInv'
  <1> SUFFICES ASSUME TypeOK, QuietInv, [Next]_vars PROVE QuietInv'
    OBVIOUS
  <1> USE DEF TypeOK, machine, kernel, epoll, queue, QuietInv, TimerRuns,
      WatchedHasKey, ForgottenKey, HandedOver, NotYetConnected, GivenUpIsQuiet,
      NeverStranded, RemovedIsQuiet, ConnectedOnce, StaleKeyExplained, Defined
  <1>1. ASSUME NEW f \in Functors, UserPosts(f) PROVE QuietInv'
    BY <1>1 DEF UserPosts
  <1>2. CASE UserReleases
    BY <1>2 DEF UserReleases
  <1>3. CASE Answer
    BY <1>3 DEF Answer
  <1>4. ASSUME NEW expired \in BOOLEAN, Poll(expired) PROVE QuietInv'
    BY <1>4 DEF Poll
  <1>5. CASE EndRound
    BY <1>5 DEF EndRound
  <1>6. CASE HandleDead
    BY <1>6 DEF HandleDead
  <1>7. CASE HandleOutRefused
    <2>1. timer' # 0
      BY <1>7, BackoffType DEF HandleOutRefused, Intervals
    <2> QED
      BY <1>7, <2>1 DEF HandleOutRefused, InHandleOut, Disable
  <1>8. CASE HandleOutConnected
    <2>1. socket # 0 /\ connects = 0 /\ tcp # "givenUp"
      BY <1>8 DEF HandleOutConnected, InHandleOut
    <2>2. ~watched' /\ "connector" \notin round' /\ "timer" \notin round'
      BY <1>8 DEF HandleOutConnected, WithoutTimer
    <2>3. keys' \ {fd'} = keys \ {fd} /\ (served' # "here" => fd' \notin keys')
      BY <1>8 DEF HandleOutConnected
    <2> QED
      BY <1>8, <2>1, <2>2, <2>3 DEF HandleOutConnected
  <1>9. CASE HandleOutOther
    BY <1>9 DEF HandleOutOther, InHandleOut
  <1>10. CASE TimerFires
    BY <1>10 DEF TimerFires, Fds
  <1>11. CASE FetchFunctors
    BY <1>11 DEF FetchFunctors
  <1>12. CASE EndFunctors
    BY <1>12 DEF EndFunctors
  <1>13. CASE ConnectInLoop
    <2>1. socket # 0 => tcp' # "givenUp" \/ state # "Closed"
      BY <1>13, ConnectResultsType DEF ConnectInLoop
    <2> QED
      BY <1>13, <2>1 DEF ConnectInLoop, Active
  <1>14. CASE StopInLoop
    <2>1. CASE state = "Connecting"
      <3>1. "timer" \notin round' /\ ("connector" \in round' => "connector" \in round)
        BY <1>14, <2>1 DEF StopInLoop, WithoutTimer
      <3>2. ~watched' /\ fd' \notin keys' /\ keys' \ {fd'} = keys \ {fd}
        BY <1>14, <2>1 DEF StopInLoop, Disable
      <3> QED
        BY <1>14, <2>1, <3>1, <3>2 DEF StopInLoop
    <2>2. CASE state # "Connecting"
      BY <1>14, <2>2 DEF StopInLoop
    <2> QED
      BY <2>1, <2>2
  <1>15. CASE UNCHANGED vars
    BY <1>15 DEF vars
  <1> QED
    BY <1>1, <1>2, <1>3, <1>4, <1>5, <1>6, <1>7, <1>8, <1>9, <1>10, <1>11, <1>12,
       <1>13, <1>14, <1>15 DEF Next, LoopStep

(***************************************************************************)
(* The theorems.                                                           *)
(***************************************************************************)
\* ConnectorInv is inductive: it holds of every reachable state.
THEOREM ConnectorInvariant == Spec => []ConnectorInv
  <1>1. Init => ConnectorInv
    BY TypeOKInit, QuietInvInit DEF ConnectorInv
  <1>2. ConnectorInv /\ [Next]_vars => ConnectorInv'
    BY TypeOKStep, QuietInvStep DEF ConnectorInv
  <1> QED
    BY <1>1, <1>2, PTL DEF Spec

\* A connector in m_handlers is watched or its retry timer runs, in whatever
\* order refusals, retries, connect and stop functors come.
THEOREM NeverStrandedTheorem == Spec => []NeverStranded
  <1>1. ConnectorInv => NeverStranded
    BY DEF ConnectorInv, QuietInv
  <1> QED
    BY <1>1, ConnectorInvariant, PTL

\* A connector the loop has let go has neither timer nor event left, unless
\* handleOut ran after a stop functor of the same round.
THEOREM RemovedIsQuietTheorem == Spec => []RemovedIsQuiet
  <1>1. ConnectorInv => RemovedIsQuiet
    BY DEF ConnectorInv, QuietInv
  <1> QED
    BY <1>1, ConnectorInvariant, PTL

\* handleOut reports onConnected, and hands a socket over, at most once.
THEOREM ConnectedOnceTheorem == Spec => []ConnectedOnce
  <1>1. ConnectorInv => ConnectedOnce
    BY DEF ConnectorInv, QuietInv
  <1> QED
    BY <1>1, ConnectorInvariant, PTL

\* A key of a closed descriptor is left in Epoll::_events only by a retry that
\* began before handleOut had given the last attempt up.
THEOREM StaleKeyExplainedTheorem == Spec => []StaleKeyExplained
  <1>1. ConnectorInv => StaleKeyExplained
    BY DEF ConnectorInv, QuietInv
  <1> QED
    BY <1>1, ConnectorInvariant, PTL
=============================================================================
