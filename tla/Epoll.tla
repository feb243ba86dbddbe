------------------------------- MODULE Epoll --------------------------------
(***************************************************************************)
(* internal::epoll::Epoll and EpollEvent: the map _events, the kernel's    *)
(* interest list behind it, the vectors a round of EventLoopImpl::start    *)
(* collects its events in, and epoll_ctl calls the kernel may refuse.      *)
(* Handlers are made, changed and destroyed by callbacks of the round, by  *)
(* functors, and by the thread of another loop (makeTcpConnection).        *)
(***************************************************************************)
EXTENDS Integers, Sequences, FiniteSets, Functions

CONSTANTS Handlers,     \* EpollEvent objects; the address of each is its name
          MaxFd,        \* bound: descriptors of the handlers
          ChannelsSize, \* size of activeChannels at the start of a round, 4
          ActiveSize,   \* initial size of m_activeEvents, 32
          None

ASSUME SizesAssumption ==
    {MaxFd, ChannelsSize, ActiveSize} \subseteq Nat \ {0}
ASSUME NoHandlerAssumption == None \notin Handlers

VARIABLES
    life,           \* of each handler: "unmade", "alive" or "dead"
    fdOf,           \* _watchingFd
    watching,       \* m_watchingEvents
    events,         \* _events: the handler of each descriptor
    kernel,         \* the interest list: data.ptr and mask of each descriptor
    refused,        \* handlers whose last epoll_ctl hit a resource limit
    activeSize,     \* m_activeEvents.size()
    round,          \* activeChannels that are still to be handled
    overflow        \* <<nums, size>> of the poll that wrote past activeChannels

vars == <<life, fdOf, watching, events, kernel, refused, activeSize, round, overflow>>

Fds    == 1..MaxFd
Events == {"IN", "OUT"}
Interest == [ptr : Handlers, mask : SUBSET Events]

ASSUME NoInterestAssumption == None \notin Interest

Alive  == {h \in Handlers : life[h] = "alive"}
Open   == {fdOf[h] : h \in Alive}

TypeOK ==
    /\ life \in [Handlers -> {"unmade", "alive", "dead"}]
    /\ fdOf \in [Handlers -> Fds \cup {0}]
    /\ watching \in [Handlers -> SUBSET Events]
    /\ events \in [Fds -> Handlers \cup {None}]
    /\ kernel \in [Fds -> Interest \cup {None}]
    /\ refused \subseteq Handlers
    /\ activeSize \in ActiveSize..(ActiveSize + 2 * MaxFd)
    /\ round \in Seq(Handlers)
    /\ overflow \in {<<>>} \cup (Nat \X Nat)

Init ==
    /\ life = [h \in Handlers |-> "unmade"]
    /\ fdOf = [h \in Handlers |-> 0]
    /\ watching = [h \in Handlers |-> {}]
    /\ events = [fd \in Fds |-> None]
    /\ kernel = [fd \in Fds |-> None]
    /\ refused = {}
    /\ activeSize = ActiveSize
    /\ round = <<>>
    /\ overflow = <<>>

\* What lies behind the end of activeChannels is overwritten: nothing more is
\* said about a program that did that.
Defined == overflow = <<>>

-----------------------------------------------------------------------------
\* A descriptor is opened, which takes the smallest free number, and its
\* handler and EpollEvent are made.
Make(h) ==
    /\ Defined
    /\ life[h] = "unmade"
    /\ \E fd \in Fds \ Open :
          /\ \A n \in 1..(fd - 1) : n \in Open
          /\ fdOf' = [fdOf EXCEPT ![h] = fd]
    /\ life' = [life EXCEPT ![h] = "alive"]
    /\ UNCHANGED <<watching, events, kernel, refused, activeSize, round, overflow>>

\* ADD and MOD: the kernel does it or hits a resource limit, which the stub
\* throws.  ADD of a registered descriptor (EEXIST) and MOD of a missing one
\* (ENOENT) are logged and forgotten.
EpollCtl(h, op, mask) ==
    LET fd == fdOf[h]
        fits == (op = "ADD") <=> (kernel[fd] = None)
    IN  \/ fits /\ kernel' = [kernel EXCEPT ![fd] = [ptr |-> h, mask |-> mask]]
                /\ refused' = refused \ {h}
        \/ fits /\ kernel' = kernel /\ refused' = refused \cup {h}
        \/ ~fits /\ UNCHANGED <<kernel, refused>>

\* updateEvent: the key goes into the map before epoll_ctl is tried, and its
\* ResourceLimitException is swallowed.
UpdateEvent(h, mask) ==
    /\ events' = [events EXCEPT ![fdOf[h]] = h]
    /\ EpollCtl(h, IF events[fdOf[h]] = None THEN "ADD" ELSE "MOD", mask)

\* Fault: the mask changes and updateEvent is not called.
DeactivateMutantNoUpdate(h, E) ==
    /\ Defined /\ h \in Alive
    /\ watching' = [watching EXCEPT ![h] = @ \ E]
    /\ UNCHANGED <<life, fdOf, events, kernel, refused, activeSize, round, overflow>>

\* active and deactivate: the mask changes whatever epoll_ctl says, and the
\* kernel is told whether it changed or not.
Active(h, E) ==
    /\ Defined /\ h \in Alive
    /\ watching' = [watching EXCEPT ![h] = @ \cup E]
    /\ UpdateEvent(h, watching[h] \cup E)
    /\ UNCHANGED <<life, fdOf, activeSize, round, overflow>>

Deactivate(h, E) ==
    /\ Defined /\ h \in Alive
    /\ watching' = [watching EXCEPT ![h] = @ \ E]
    /\ UpdateEvent(h, watching[h] \ E)
    /\ UNCHANGED <<life, fdOf, activeSize, round, overflow>>

\* Fault: the key is erased and the kernel is not told.
DisableMutantNoDel(h) ==
    /\ Defined /\ h \in Alive
    /\ events[fdOf[h]] # None
    /\ events' = [events EXCEPT ![fdOf[h]] = None]
    /\ refused' = refused \ {h}
    /\ UNCHANGED <<life, fdOf, watching, kernel, activeSize, round, overflow>>

\* disable: removeEvent looks for the number, not for the handler.  DEL of a
\* number the kernel does not have is logged.
Disable(h) ==
    /\ Defined /\ h \in Alive
    /\ events[fdOf[h]] # None
    /\ events' = [events EXCEPT ![fdOf[h]] = None]
    /\ kernel' = [kernel EXCEPT ![fdOf[h]] = None]
    /\ refused' = refused \ {h}
    /\ UNCHANGED <<life, fdOf, watching, activeSize, round, overflow>>

\* EpollEvent.h:57, "Must call this to remove event from epoll before
\* destruction": a handler that keeps to it is destroyed, its descriptor closed.
\* One that does not leaves its key to the next owner of the number: Connector
\* and Timer show that.
Destroy(h) ==
    /\ Defined /\ h \in Alive
    /\ events[fdOf[h]] = None
    /\ life' = [life EXCEPT ![h] = "dead"]
    /\ kernel' = [kernel EXCEPT ![fdOf[h]] = None]
    /\ fdOf' = [fdOf EXCEPT ![h] = 0]
    /\ UNCHANGED <<watching, events, refused, activeSize, round, overflow>>

-----------------------------------------------------------------------------
\* Fault: only m_activeEvents grows.
GrownMutantEventsOnly(nums) ==
    IF nums = activeSize THEN <<activeSize * 2, ChannelsSize>>
    ELSE <<activeSize, ChannelsSize>>

\* The sizes of m_activeEvents and activeChannels after nums events came: both
\* vectors grow when m_activeEvents was full, else neither does.  (A vector of
\* INT_MAX / 2 elements does not grow; no process has that many descriptors.)
Grown(nums) ==
    IF nums = activeSize THEN <<activeSize * 2, activeSize * 4>>
    ELSE <<activeSize, ChannelsSize>>

\* epoll_wait reports some of the descriptors, at most activeSize; EINTR
\* restarts it.
EpollWait ==
    {F \in SUBSET {fd \in Fds : kernel[fd] # None} : Cardinality(F) \in 1..activeSize}

Poll ==
    /\ Defined /\ round = <<>>
    /\ \E F \in EpollWait :
          LET nums == Cardinality(F) IN
          /\ activeSize' = Grown(nums)[1]
          /\ IF nums <= Grown(nums)[2]
             THEN /\ \E s \in Injection(1..nums, F) :
                        round' = [i \in 1..nums |-> kernel[s[i]].ptr]
                  /\ UNCHANGED overflow
             ELSE overflow' = <<nums, activeSize>> /\ UNCHANGED round
    /\ UNCHANGED <<life, fdOf, watching, events, kernel, refused>>

\* handleEvents of the next one returns; what its callbacks do are the actions
\* above.  One that was destroyed in this round is called all the same: the
\* TcpConnection module shows when that happens.
HandleEvents ==
    /\ Defined /\ round # <<>>
    /\ round' = Tail(round)
    /\ UNCHANGED <<life, fdOf, watching, events, kernel, refused, activeSize,
                   overflow>>

Next == \/ \E h \in Handlers :
              \/ Make(h) \/ Disable(h) \/ Destroy(h)
              \/ \E e \in Events : Active(h, {e}) \/ Deactivate(h, {e})
        \/ Poll
        \/ HandleEvents

Spec == Init /\ [][Next]_vars

-----------------------------------------------------------------------------
(***************************************************************************)
(* Properties.                                                             *)
(***************************************************************************)
\* As long as handlers call disable() before they are destroyed, the kernel
\* holds no pointer to a destroyed handler, however often numbers are reused
\* and epoll_ctl is refused: no later round can return one.
KernelPointsToLive ==
    \A fd \in Fds : kernel[fd] # None =>
        /\ kernel[fd].ptr \in Alive /\ fdOf[kernel[fd].ptr] = fd
        /\ events[fd] = kernel[fd].ptr

\* A handler in _events is registered with exactly the mask it asked for,
\* unless its last epoll_ctl was refused: updateEvent swallows that, the key
\* stays, and every later call is a MOD the kernel answers with ENOENT.
WatchedOrRefused ==
    \A h \in Alive : events[fdOf[h]] = h =>
        \/ kernel[fdOf[h]] = [ptr |-> h, mask |-> watching[h]]
        \/ h \in refused

\* activeChannels is only written past its end by a poll that reports more than
\* ChannelsSize events and does not fill m_activeEvents (EventLoop.cpp:103,
\* Epoll.cpp:36); a full one resizes both and fits.
OverflowExplained ==
    overflow # <<>> => overflow[1] > ChannelsSize /\ overflow[1] < overflow[2]
=============================================================================
