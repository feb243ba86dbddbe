----------------------------- MODULE EpollProofs ----------------------------
(***************************************************************************)
(* Proofs about Epoll for any set of handlers, any number of descriptors   *)
(* and any sizes of the two vectors: types, no pointer to a destroyed      *)
(* handler, masks, and when activeChannels is overrun.                     *)
(***************************************************************************)
EXTENDS Epoll, SequenceTheorems, FiniteSetTheorems, TLAPS

\* The kernel gives no number to two open descriptors.
OwnFd ==
    /\ \A h \in Alive : fdOf[h] \in Fds
    /\ \A g, h \in Alive : g # h => fdOf[g] # fdOf[h]

\* A key of _events belongs to the living handler that watches the number.
EventsPointToLive ==
    \A fd \in Fds : events[fd] # None => events[fd] \in Alive /\ fdOf[events[fd]] = fd

EpollInv == /\ TypeOK /\ OwnFd /\ EventsPointToLive
            /\ KernelPointsToLive /\ WatchedOrRefused /\ OverflowExplained

\* Steps that touch neither handlers nor registrations.
SameRegistrations == UNCHANGED <<life, fdOf, watching, events, kernel, refused>>

USE SizesAssumption, NoHandlerAssumption, NoInterestAssumption

\* No handlers, no keys, an empty round.
LEMMA InitInv == Init => EpollInv
  <1> SUFFICES ASSUME Init PROVE EpollInv
    OBVIOUS
  <1>1. round \in Seq(Handlers)
    BY EmptySeq DEF Init
  <1>2. activeSize \in ActiveSize..(ActiveSize + 2 * MaxFd)
    BY DEF Init
  <1>3. TypeOK
    BY <1>1, <1>2 DEF Init, TypeOK
  <1>4. OwnFd /\ EventsPointToLive /\ KernelPointsToLive /\ WatchedOrRefused
        /\ OverflowExplained
    BY DEF Init, OwnFd, EventsPointToLive, KernelPointsToLive, WatchedOrRefused,
       OverflowExplained, Alive
  <1> QED
    BY <1>3, <1>4 DEF EpollInv

(***************************************************************************)
(* What epoll_wait may report.                                             *)
(***************************************************************************)
LEMMA EpollWaitProperties ==
  ASSUME TypeOK, NEW F \in EpollWait
  PROVE  /\ F \subseteq Fds /\ \A fd \in F : kernel[fd] \in Interest
         /\ Cardinality(F) \in Nat \ {0}
         /\ Cardinality(F) <= activeSize /\ Cardinality(F) <= MaxFd
         /\ activeSize \in Nat \ {0}
  <1>1. F \subseteq Fds /\ \A fd \in F : kernel[fd] \in Interest
    BY DEF EpollWait, TypeOK
  <1>2. activeSize \in Nat \ {0}
    BY DEF TypeOK
  <1>3. Cardinality(F) \in 1..activeSize
    BY DEF EpollWait
  <1>4. IsFiniteSet(Fds) /\ Cardinality(Fds) = MaxFd
    BY FS_Interval DEF Fds
  <1>5. Cardinality(F) <= MaxFd
    BY <1>1, <1>4, FS_Subset
  <1> QED
    BY <1>1, <1>2, <1>3, <1>5

\* A round and the grown vectors keep their types; an overflow is explained.
LEMMA PollTypes ==
  ASSUME TypeOK, Poll
  PROVE  /\ activeSize' \in ActiveSize..(ActiveSize + 2 * MaxFd)
         /\ round' \in Seq(Handlers)
         /\ overflow' \in {<<>>} \cup (Nat \X Nat)
         /\ OverflowExplained'
  <1>1. PICK F \in EpollWait :
          LET nums == Cardinality(F) IN
          /\ activeSize' = Grown(nums)[1]
          /\ IF nums <= Grown(nums)[2]
             THEN /\ \E s \in Injection(1..nums, F) :
                        round' = [i \in 1..nums |-> kernel[s[i]].ptr]
                  /\ UNCHANGED overflow
             ELSE overflow' = <<nums, activeSize>> /\ UNCHANGED round
    BY DEF Poll
  <1> DEFINE nums == Cardinality(F)
  <1>2. /\ F \subseteq Fds /\ \A fd \in F : kernel[fd] \in Interest
        /\ nums \in Nat \ {0} /\ nums <= activeSize /\ nums <= MaxFd
        /\ activeSize \in Nat \ {0}
    BY EpollWaitProperties
  <1>3. overflow = <<>>
    BY DEF Poll, Defined
  <1> HIDE DEF nums
  <1>4. activeSize' \in ActiveSize..(ActiveSize + 2 * MaxFd)
    <2>1. activeSize' = IF nums = activeSize THEN activeSize * 2 ELSE activeSize
      BY <1>1 DEF Grown, nums
    <2>2. activeSize \in ActiveSize..(ActiveSize + 2 * MaxFd)
      BY DEF TypeOK
    <2> QED
      BY <1>2, <2>1, <2>2
  <1>5. CASE nums <= Grown(nums)[2]
    <2>1. PICK s \in Injection(1..nums, F) :
            round' = [i \in 1..nums |-> kernel[s[i]].ptr]
      BY <1>1, <1>5 DEF nums
    <2>2. \A i \in 1..nums : kernel[s[i]].ptr \in Handlers
      BY <1>2 DEF Injection, Interest
    <2>3. round' \in Seq(Handlers)
      BY <1>2, <2>1, <2>2
    <2>4. overflow' = <<>>
      BY <1>1, <1>3, <1>5 DEF nums
    <2> QED
      BY <1>4, <2>3, <2>4 DEF OverflowExplained
  <1>6. CASE ~(nums <= Grown(nums)[2])
    <2>1. overflow' = <<nums, activeSize>> /\ round' = round
      BY <1>1, <1>6 DEF nums
    <2>2. nums # activeSize /\ nums > ChannelsSize
      BY <1>2, <1>6 DEF Grown
    <2> QED
      BY <1>2, <1>4, <2>1, <2>2 DEF TypeOK, OverflowExplained
  <1> QED
    BY <1>5, <1>6

\* updateEvent keeps the types.
LEMMA UpdateTypes ==
  ASSUME TypeOK, OwnFd, NEW h \in Alive, NEW mask \in SUBSET Events,
         UpdateEvent(h, mask)
  PROVE  /\ events' \in [Fds -> Handlers \cup {None}]
         /\ kernel' \in [Fds -> Interest \cup {None}]
         /\ refused' \subseteq Handlers
  BY DEF TypeOK, OwnFd, Alive, UpdateEvent, EpollCtl, Interest

\* Every step keeps the types.
LEMMA TypeOKStep == TypeOK /\ OwnFd /\ [Next]_vars => TypeOK'
  <1> SUFFICES ASSUME TypeOK, OwnFd, [Next]_vars PROVE TypeOK'
    OBVIOUS
  <1> USE DEF TypeOK
  <1>1. ASSUME NEW h \in Handlers, Make(h) PROVE TypeOK'
    BY <1>1 DEF Make
  <1>2. ASSUME NEW h \in Handlers, NEW e \in Events, Active(h, {e}) PROVE TypeOK'
    <2>1. h \in Alive /\ watching[h] \cup {e} \in SUBSET Events
      BY <1>2 DEF Active
    <2> QED
      BY <1>2, <2>1, UpdateTypes DEF Active
  <1>3. ASSUME NEW h \in Handlers, NEW e \in Events, Deactivate(h, {e}) PROVE TypeOK'
    <2>1. h \in Alive /\ watching[h] \ {e} \in SUBSET Events
      BY <1>3 DEF Deactivate
    <2> QED
      BY <1>3, <2>1, UpdateTypes DEF Deactivate
  <1>4. ASSUME NEW h \in Handlers, Disable(h) PROVE TypeOK'
    BY <1>4 DEF Disable
  <1>5. ASSUME NEW h \in Handlers, Destroy(h) PROVE TypeOK'
    BY <1>5 DEF Destroy
  <1>6. CASE Poll
    BY <1>6, PollTypes DEF Poll
  <1>7. CASE HandleEvents
    BY <1>7, HeadTailProperties DEF HandleEvents
  <1>8. CASE UNCHANGED vars
    BY <1>8 DEF vars
  <1> QED
    BY <1>1, <1>2, <1>3, <1>4, <1>5, <1>6, <1>7, <1>8 DEF Next

(***************************************************************************)
(* Registrations.                                                          *)
(***************************************************************************)
\* updateEvent on a living handler whose new mask is watched keeps what the
\* map and the kernel say of each other.
LEMMA UpdateKeeps ==
  ASSUME EpollInv, NEW h \in Alive, NEW mask \in SUBSET Events,
         watching' = [watching EXCEPT ![h] = mask], UpdateEvent(h, mask),
         UNCHANGED <<life, fdOf>>
  PROVE  EventsPointToLive' /\ KernelPointsToLive' /\ WatchedOrRefused'
  <1> USE DEF EpollInv, TypeOK
  <1> DEFINE fd == fdOf[h]
  <1>1. fd \in Fds /\ h \in Handlers /\ Alive' = Alive /\ h # None
    BY DEF OwnFd, Alive
  <1>2. events' = [events EXCEPT ![fd] = h]
    BY DEF UpdateEvent
  <1>3. events[fd] \in {h, None}
    BY <1>1 DEF EventsPointToLive, OwnFd
  <1>4. EventsPointToLive'
    BY <1>1, <1>2 DEF EventsPointToLive
  <1>5. kernel[fd] # None => events[fd] = h /\ kernel[fd].ptr = h
    BY <1>1, <1>3 DEF KernelPointsToLive, Alive
  <1>6. CASE /\ kernel' = [kernel EXCEPT ![fd] = [ptr |-> h, mask |-> mask]]
             /\ refused' = refused \ {h}
    <2>1. KernelPointsToLive'
      BY <1>1, <1>2, <1>6 DEF KernelPointsToLive
    <2>2. WatchedOrRefused'
      BY <1>1, <1>2, <1>6 DEF WatchedOrRefused, OwnFd, Alive
    <2> QED
      BY <1>4, <2>1, <2>2
  <1>7. CASE kernel' = kernel /\ refused' = refused \cup {h}
    <2>1. KernelPointsToLive'
      BY <1>1, <1>2, <1>5, <1>7 DEF KernelPointsToLive
    <2>2. WatchedOrRefused'
      BY <1>1, <1>2, <1>7 DEF WatchedOrRefused, OwnFd, Alive
    <2> QED
      BY <1>4, <2>1, <2>2
  <1>8. CASE /\ kernel' = kernel /\ refused' = refused
             /\ ~((events[fd] = None) <=> (kernel[fd] = None))
    \* ADD of a number the kernel knows cannot be; MOD of one it does not know
    \* was refused before.
    <2>1. events[fd] = h /\ kernel[fd] = None
      BY <1>1, <1>3, <1>5, <1>8
    <2>2. h \in refused
      <3>1. [ptr |-> h, mask |-> watching[h]] \in Interest
        BY <1>1 DEF Interest
      <3> QED
        BY <1>1, <2>1, <3>1 DEF WatchedOrRefused
    <2>3. events' = events
      BY <1>1, <1>2, <2>1
    <2>4. KernelPointsToLive'
      BY <1>1, <1>8, <2>3 DEF KernelPointsToLive
    <2>5. WatchedOrRefused'
      BY <1>1, <1>8, <2>2, <2>3 DEF WatchedOrRefused, Alive
    <2> QED
      BY <1>4, <2>4, <2>5
  <1> QED
    BY <1>3, <1>6, <1>7, <1>8, <1>1 DEF UpdateEvent, EpollCtl

\* Every step keeps the whole invariant.
LEMMA EpollStep == EpollInv /\ [Next]_vars => EpollInv'
  <1> SUFFICES ASSUME EpollInv, [Next]_vars PROVE EpollInv'
    OBVIOUS
  <1>0. TypeOK'
    BY TypeOKStep DEF EpollInv
  <1> DEFINE Rest == /\ OwnFd /\ EventsPointToLive /\ KernelPointsToLive
                     /\ WatchedOrRefused /\ OverflowExplained
  <1> USE DEF EpollInv, TypeOK
  <1>1. ASSUME NEW h \in Handlers, Make(h) PROVE Rest'
    <2>1. PICK fd \in Fds \ Open : fdOf' = [fdOf EXCEPT ![h] = fd]
      BY <1>1 DEF Make
    <2>2. h \notin Alive /\ Alive' = Alive \cup {h}
          /\ \A g \in Alive : fdOf'[g] = fdOf[g] /\ fdOf[g] # fd
      BY <1>1, <2>1 DEF Make, Alive, Open
    <2>3. OwnFd'
      BY <2>1, <2>2 DEF OwnFd
    <2>4. EventsPointToLive'
      BY <1>1, <2>2 DEF Make, EventsPointToLive
    <2>5. KernelPointsToLive'
      BY <1>1, <2>2 DEF Make, KernelPointsToLive
    <2>6. events[fd] # h
      BY <2>2 DEF EventsPointToLive
    <2>7. WatchedOrRefused'
      BY <1>1, <2>1, <2>2, <2>6 DEF Make, WatchedOrRefused
    <2> QED
      BY <1>1, <2>3, <2>4, <2>5, <2>7 DEF Make, OverflowExplained
  <1>2. ASSUME NEW h \in Handlers, NEW e \in Events, Active(h, {e}) PROVE Rest'
    <2>1. h \in Alive /\ watching[h] \cup {e} \in SUBSET Events
      BY <1>2 DEF Active
    <2>2. EventsPointToLive' /\ KernelPointsToLive' /\ WatchedOrRefused'
      BY <1>2, <2>1, UpdateKeeps DEF Active
    <2> QED
      BY <1>2, <2>2 DEF Active, OwnFd, OverflowExplained, Alive
  <1>3. ASSUME NEW h \in Handlers, NEW e \in Events, Deactivate(h, {e}) PROVE Rest'
    <2>1. h \in Alive /\ watching[h] \ {e} \in SUBSET Events
      BY <1>3 DEF Deactivate
    <2>2. EventsPointToLive' /\ KernelPointsToLive' /\ WatchedOrRefused'
      BY <1>3, <2>1, UpdateKeeps DEF Deactivate
    <2> QED
      BY <1>3, <2>2 DEF Deactivate, OwnFd, OverflowExplained, Alive
  <1>4. ASSUME NEW h \in Handlers, Disable(h) PROVE Rest'
    <2>1. OwnFd' /\ OverflowExplained'
      BY <1>4 DEF Disable, OwnFd, OverflowExplained, Alive
    <2>2. fdOf[h] \in Fds /\ Alive' = Alive
      BY <1>4 DEF Disable, OwnFd, Alive
    <2>3. EventsPointToLive' /\ KernelPointsToLive'
      BY <1>4, <2>2 DEF Disable, EventsPointToLive, KernelPointsToLive
    <2>4. WatchedOrRefused'
      BY <1>4, <2>2 DEF Disable, WatchedOrRefused, OwnFd, Alive
    <2> QED
      BY <2>1, <2>3, <2>4
  <1>5. ASSUME NEW h \in Handlers, Destroy(h) PROVE Rest'
    <2>1. /\ Alive' = Alive \ {h} /\ h \in Alive
          /\ \A g \in Alive \ {h} : fdOf'[g] = fdOf[g] /\ fdOf[g] # fdOf[h]
      BY <1>5 DEF Destroy, OwnFd, Alive
    <2>2. OwnFd' /\ OverflowExplained'
      BY <1>5, <2>1 DEF Destroy, OwnFd, OverflowExplained
    <2>3. \A fd \in Fds : events[fd] # h
      BY <1>5, <2>1 DEF Destroy, EventsPointToLive
    <2>4. EventsPointToLive'
      BY <1>5, <2>1, <2>3 DEF Destroy, EventsPointToLive
    <2>5. KernelPointsToLive'
      BY <1>5, <2>1, <2>3 DEF Destroy, KernelPointsToLive, OwnFd
    <2>6. WatchedOrRefused'
      <3> SUFFICES ASSUME NEW g \in Alive \ {h}, events'[fdOf'[g]] = g
                   PROVE  \/ kernel'[fdOf'[g]] = [ptr |-> g, mask |-> watching'[g]]
                          \/ g \in refused'
        BY <2>1 DEF WatchedOrRefused
      <3>1. UNCHANGED <<watching, events, refused>>
        BY <1>5 DEF Destroy
      <3>2. kernel'[fdOf[g]] = kernel[fdOf[g]]
        BY <1>5, <2>1 DEF Destroy, Alive
      <3> QED
        BY <2>1, <3>1, <3>2 DEF WatchedOrRefused
    <2> QED
      BY <2>2, <2>4, <2>5, <2>6
  <1>6. CASE SameRegistrations /\ OverflowExplained'
    <2>1. Alive' = Alive
      BY <1>6 DEF SameRegistrations, Alive
    <2>2. OwnFd' /\ EventsPointToLive'
      BY <1>6, <2>1 DEF SameRegistrations, OwnFd, EventsPointToLive
    <2>3. KernelPointsToLive'
      BY <1>6, <2>1 DEF SameRegistrations, KernelPointsToLive
    <2>4. WatchedOrRefused'
      BY <1>6, <2>1 DEF SameRegistrations, WatchedOrRefused
    <2> QED
      BY <1>0, <1>6, <2>2, <2>3, <2>4
  <1>7. CASE Poll
    BY <1>6, <1>7, PollTypes DEF Poll, SameRegistrations
  <1>8. CASE HandleEvents
    BY <1>6, <1>8 DEF HandleEvents, SameRegistrations, OverflowExplained
  <1>9. CASE UNCHANGED vars
    BY <1>6, <1>9 DEF vars, SameRegistrations, OverflowExplained
  <1> QED
    BY <1>0, <1>1, <1>2, <1>3, <1>4, <1>5, <1>7, <1>8, <1>9 DEF Next

(***************************************************************************)
(* The theorems.                                                           *)
(***************************************************************************)
\* EpollInv is inductive: it holds of every reachable state.
THEOREM EpollInvariant == Spec => []EpollInv
  BY InitInv, EpollStep, PTL DEF Spec

\* As long as disable() comes before destruction the kernel's interest list has
\* no pointer to a destroyed EpollEvent, whatever epoll_ctl refuses and however
\* numbers are reused.
THEOREM KernelPointsToLiveTheorem == Spec => []KernelPointsToLive
  <1>1. EpollInv => KernelPointsToLive
    BY DEF EpollInv
  <1> QED
    BY <1>1, EpollInvariant, PTL

\* A handler that updateEvent left in _events is registered with the mask it
\* asked for, or its last epoll_ctl hit a resource limit.
THEOREM WatchedOrRefusedTheorem == Spec => []WatchedOrRefused
  <1>1. EpollInv => WatchedOrRefused
    BY DEF EpollInv
  <1> QED
    BY <1>1, EpollInvariant, PTL

\* Epoll::poll writes past activeChannels only when it reports more events than
\* activeChannels has room for and fewer than m_activeEvents holds.
THEOREM OverflowExplainedTheorem == Spec => []OverflowExplained
  <1>1. EpollInv => OverflowExplained
    BY DEF EpollInv
  <1> QED
    BY <1>1, EpollInvariant, PTL
=============================================================================
