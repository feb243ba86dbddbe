----------------------------- MODULE Connector ------------------------------
(***************************************************************************)
(* One Connector from makeConnector on: the connect and stop functors, the *)
(* OUT events of its socket, the retry timer, and the Epoll of its loop,   *)
(* whose _events map is keyed by descriptor and outlives the descriptor.   *)
(*                                                                         *)
(* Everything but the two calls that queue a functor runs on the thread of *)
(* the loop; a handler, a functor and a timeout each are one action.       *)
(* runInLoop is taken as FunctorQueue promises it.  Of TcpConnection only  *)
(* makeTcpConnection is here: it takes the socket and watches it, on this  *)
(* loop or on another.                                                     *)
(***************************************************************************)
EXTENDS Integers, Sequences, FiniteSets

CONSTANTS MaxFunctors,  \* bound: functors queued by users
          MaxFd         \* bound: descriptors the kernel may hand out, 1..MaxFd

ASSUME BoundsAssumption == MaxFunctors \in Nat /\ MaxFd \in Nat \ {0}

VARIABLES
    state,          \* m_state
    established,    \* m_connectionEstablished
    socket,         \* descriptor of m_socket, 0 after it was moved from
    fd,             \* descriptor m_epollEvent was made for
    tcp,            \* kernel: the state of the socket, with its SO_ERROR
    keys,           \* keys of Epoll::_events that this connector caused
    watched,        \* kernel: epoll reports the socket to m_epollEvent
    served,         \* where the TcpConnection made from the socket is watched
    inLoop,         \* the connector is in EventLoopImpl::m_handlers
    timer,          \* interval of m_retryTimer, which runs; 0 for nullptr
    functors,       \* handed to runInLoop, waiting
    batch,          \* fetched by RunInLoopHandler::handleIn, being called
    loop,           \* where the loop's thread is
    round,          \* activeChannels not handled yet
    held,           \* the user holds the shared_ptr
    connects,       \* history: onConnected calls, counted up to 2
    overlapped,     \* history: a retry began before handleOut gave the last one up
    lateEvent       \* history: handleOut ran after a stop in the same round

machine == <<state, established, connects>>
kernel  == <<socket, fd, tcp>>
epoll   == <<keys, watched>>
queue   == <<functors, batch>>
vars    == <<machine, kernel, epoll, served, inLoop, timer, queue, loop, round,
             held, overlapped, lateEvent>>

Fds      == 1..MaxFd
\* "refused" and "unreachable" have an SO_ERROR to report; "givenUp" reported
\* that it was refused and is, for the kernel, as good as "new".
Sockets  == {"new", "synSent", "connected", "refused", "unreachable", "givenUp"}
Functors == {"connect", "stop"}
Channels == {"connector", "timer", "wakeUp", "deadConnector", "deadTimer"}
Intervals == {200, 400, 800, 1600, 3200, 6400}

TypeOK ==
    /\ state \in {"Closed", "Connecting"} /\ established \in BOOLEAN
    /\ socket \in Fds \cup {0} /\ fd \in Fds /\ tcp \in Sockets
    /\ keys \in SUBSET Fds /\ watched \in BOOLEAN
    /\ served \in {"no", "here", "elsewhere", "deaf"}
    /\ inLoop \in BOOLEAN /\ held \in BOOLEAN
    /\ timer \in Intervals \cup {0}
    /\ functors \in Seq(Functors) /\ batch \in Seq(Functors)
    /\ loop \in {"poll", "round", "functors", "undefined"}
    /\ round \in SUBSET Channels
    /\ connects \in 0..2 /\ overlapped \in BOOLEAN /\ lateEvent \in BOOLEAN

Init ==
    /\ state = "Closed" /\ established = FALSE
    /\ socket \in Fds /\ fd = socket /\ tcp = "new"
    /\ keys = {} /\ watched = FALSE /\ served = "no"
    /\ inLoop = FALSE /\ held = TRUE
    /\ timer = 0
    /\ functors = <<>> /\ batch = <<>>
    /\ loop = "poll" /\ round = {}
    /\ connects = 0 /\ overlapped = FALSE /\ lateEvent = FALSE

\* Some shared_ptr to the connector exists; every functor captures one, and
\* the fetched ones live until handleIn of the RunInLoopHandler returns.
Alive == inLoop \/ held \/ functors # <<>> \/ loop = "functors"

\* The process still behaves: no dangling or null pointer was followed.
Defined == loop # "undefined"

(***************************************************************************)
(* connect() and stopConnect(), called by a user thread or in a callback.  *)
(***************************************************************************)
UserPosts(f) ==
    /\ Defined
    /\ held /\ Len(functors) < MaxFunctors
    /\ functors' = Append(functors, f)
    /\ UNCHANGED <<machine, kernel, epoll, served, inLoop, timer, batch, loop,
                   round, held, overlapped,
                   lateEvent>>

UserReleases ==
    /\ Defined
    /\ held
    /\ held' = FALSE
    /\ UNCHANGED <<machine, kernel, epoll, served, inLoop, timer, queue, loop,
                   round, overlapped,
                   lateEvent>>

(***************************************************************************)
(* The kernel.                                                             *)
(***************************************************************************)
\* The answer to the SYN, or none in time.
Answer ==
    /\ Defined
    /\ Alive /\ socket # 0 /\ tcp = "synSent"
    /\ tcp' \in {"connected", "refused", "unreachable"}
    /\ UNCHANGED <<machine, socket, fd, epoll, served, inLoop, timer, queue,
                   loop, round, held, overlapped,
                   lateEvent>>

\* What connect(2) makes of a socket, and whether stub::connect returns; for
\* every errno that it does not name it returns too.
ConnectResults ==
    CASE tcp \in {"new", "givenUp"} ->
                              {<<"synSent", FALSE>>, <<"connected", TRUE>>,
                               <<"new", TRUE>>, <<"new", FALSE>>}
      [] tcp = "synSent"   -> {<<"synSent", TRUE>>}
      [] tcp = "connected" -> {<<"connected", TRUE>>}
      [] OTHER             -> {<<"new", FALSE>>}

\* epoll reports OUT for a socket that is not connected too, except while the
\* answer to its SYN is outstanding.
Writable == socket # 0 /\ tcp # "synSent"

(***************************************************************************)
(* EpollEvent and Epoll.                                                   *)
(***************************************************************************)
\* updateEvent: a key that is in _events already means EPOLL_CTL_MOD, which
\* fails on a descriptor the kernel has forgotten.
Active == /\ keys' = keys \cup {fd}
          /\ watched' = (IF fd \in keys THEN watched ELSE TRUE)

\* removeEvent, by descriptor: whoever watches the descriptor in this Epoll.
Disable == /\ keys' = keys \ {fd}
           /\ watched' = (watched /\ fd \notin keys)

(***************************************************************************)
(* EventLoopImpl::start.                                                   *)
(***************************************************************************)
Poll(expired) ==
    /\ Defined
    /\ loop = "poll"
    /\ expired => timer # 0 /\ Alive
    /\ round' = (IF watched /\ Alive /\ Writable THEN {"connector"} ELSE {}) \cup
                (IF functors # <<>> THEN {"wakeUp"} ELSE {}) \cup
                (IF expired THEN {"timer"} ELSE {})
    /\ round' # {}
    /\ loop' = "round"
    /\ UNCHANGED <<machine, kernel, epoll, served, inLoop, timer, queue, held,
                   overlapped,
                   lateEvent>>

EndRound ==
    /\ Defined
    /\ loop = "round" /\ round = {}
    /\ loop' = "poll"
    /\ UNCHANGED <<machine, kernel, epoll, served, inLoop, timer, queue, round,
                   held, overlapped,
                   lateEvent>>

\* A channel whose EpollEvent, or whose Timer, was destroyed in this round.
HandleDead ==
    /\ Defined
    /\ loop = "round"
    /\ \/ round \cap {"deadConnector", "deadTimer"} # {}
       \/ round \cap {"connector", "timer"} # {} /\ ~Alive
    /\ loop' = "undefined"
    /\ UNCHANGED <<machine, kernel, epoll, served, inLoop, timer, queue, round,
                   held, overlapped,
                   lateEvent>>

\* ~Timer: its handler keeps a raw pointer to it.
WithoutTimer(r) ==
    (r \ {"timer"}) \cup (IF "timer" \in r THEN {"deadTimer"} ELSE {})

(***************************************************************************)
(* Connector::handleOut.  getError reads SO_ERROR and clears it.           *)
(***************************************************************************)
InHandleOut == /\ Defined
               /\ loop = "round" /\ "connector" \in round /\ Alive

\* setupTimer starts with 100 and reconnect doubles whatever is below 4000.
Backoff(interval) ==
    IF interval = 0 THEN 200 ELSE IF interval < 4000 THEN 2 * interval ELSE interval

\* Fault: reconnect leaves the old socket watched.
HandleOutRefusedMutantNoDisable ==
    /\ InHandleOut
    /\ lateEvent' = (lateEvent \/ ~inLoop)
    /\ tcp = "refused"
    /\ tcp' = "givenUp"
    /\ timer' = Backoff(timer)
    /\ round' = round \ ({"connector"} \cup IF timer < 4000 THEN {"timer"} ELSE {})
    /\ UNCHANGED <<machine, socket, fd, epoll, served, inLoop, queue, loop, held,
                   overlapped>>

\* setInterval on the running timer discards an expiration not read yet.
HandleOutRefused ==
    /\ InHandleOut
    /\ lateEvent' = (lateEvent \/ ~inLoop)
    /\ tcp = "refused"
    /\ tcp' = "givenUp"
    /\ timer' = Backoff(timer)
    /\ Disable
    /\ round' = round \ ({"connector"} \cup IF timer < 4000 THEN {"timer"} ELSE {})
    /\ UNCHANGED <<machine, socket, fd, served, inLoop, queue, loop, held,
                   overlapped>>

\* Fault: the connector stays registered after it has handed the socket over.
HandleOutConnectedMutantStays ==
    /\ InHandleOut
    /\ lateEvent' = (lateEvent \/ ~inLoop)
    /\ tcp \notin {"refused", "unreachable"}
    /\ timer' = 0
    /\ round' = WithoutTimer(round) \ {"connector"}
    /\ established' = TRUE
    /\ connects' = IF connects < 2 THEN connects + 1 ELSE 2
    /\ inLoop' = FALSE
    /\ served' = "elsewhere"
    /\ UNCHANGED <<state, kernel, epoll, queue, loop, held, overlapped>>

HandleOutConnected ==
    /\ InHandleOut
    /\ lateEvent' = (lateEvent \/ ~inLoop)
    /\ tcp \notin {"refused", "unreachable"}
    /\ timer' = 0
    /\ round' = WithoutTimer(round) \ {"connector"}
    /\ watched' = (watched /\ fd \notin keys)
    /\ \/ served' = "here" /\ keys' = keys \cup {fd}
       \/ served' = "elsewhere" /\ keys' = keys \ {fd}
    /\ socket' = 0
    /\ established' = TRUE
    /\ connects' = IF connects < 2 THEN connects + 1 ELSE 2
    /\ inLoop' = FALSE
    /\ UNCHANGED <<state, fd, tcp, queue, loop, held, overlapped>>

\* Only onError.
HandleOutOther ==
    /\ InHandleOut
    /\ lateEvent' = (lateEvent \/ ~inLoop)
    /\ tcp = "unreachable"
    /\ tcp' = "new"
    /\ round' = round \ {"connector"}
    /\ UNCHANGED <<machine, socket, fd, epoll, served, inLoop, timer, queue, loop,
                   held, overlapped>>

(***************************************************************************)
(* The callback of m_retryTimer.  The new socket is made and watched while *)
(* the old one is still open; the old EpollEvent goes without disable().   *)
(***************************************************************************)
TimerFires ==
    /\ Defined
    /\ loop = "round" /\ "timer" \in round /\ Alive
    /\ \E f \in Fds \ {socket} :
          /\ socket' = f /\ fd' = f /\ tcp' = "new"
          /\ keys' = keys \cup {f} /\ watched' = (f \notin keys)
    /\ functors' = Append(functors, "connect")
    /\ round' = (round \ {"timer", "connector"}) \cup
                (IF "connector" \in round THEN {"deadConnector"} ELSE {})
    /\ overlapped' = (overlapped \/ tcp # "givenUp")
    /\ UNCHANGED <<machine, served, inLoop, timer, batch, loop, held, lateEvent>>

(***************************************************************************)
(* RunInLoopHandler::handleIn and the two functors.                        *)
(***************************************************************************)
FetchFunctors ==
    /\ Defined
    /\ loop = "round" /\ "wakeUp" \in round
    /\ loop' = "functors" /\ round' = round \ {"wakeUp"}
    /\ batch' = functors /\ functors' = <<>>
    /\ UNCHANGED <<machine, kernel, epoll, served, inLoop, timer, held, overlapped,
                   lateEvent>>

EndFunctors ==
    /\ Defined
    /\ loop = "functors" /\ batch = <<>>
    /\ loop' = "round"
    /\ UNCHANGED <<machine, kernel, epoll, served, inLoop, timer, queue, round,
                   held, overlapped,
                   lateEvent>>

\* Fault: the handler is added to the loop and OUT is not watched.
ConnectInLoopMutantNoActive ==
    /\ Defined
    /\ loop = "functors" /\ batch # <<>> /\ Head(batch) = "connect"
    /\ batch' = Tail(batch)
    /\ IF state = "Closed" /\ socket # 0
       THEN /\ inLoop' = TRUE
            /\ \E res \in ConnectResults :
                  /\ tcp' = res[1]
                  /\ state' = IF res[2] THEN "Connecting" ELSE state
       ELSE UNCHANGED <<state, tcp, inLoop>>
    /\ UNCHANGED <<established, connects, socket, fd, epoll, served, timer, loop,
                   functors, round, held, overlapped,
                   lateEvent>>

\* An exception, EINPROGRESS included, leaves m_state as it was.
ConnectInLoop ==
    /\ Defined
    /\ loop = "functors" /\ batch # <<>> /\ Head(batch) = "connect"
    /\ batch' = Tail(batch)
    /\ IF state = "Closed"
       THEN /\ inLoop' = TRUE
            /\ Active
            /\ \/ /\ socket = 0
                  /\ loop' = "undefined"
                  /\ UNCHANGED <<state, tcp>>
               \/ /\ socket # 0
                  /\ \E res \in ConnectResults :
                        /\ tcp' = res[1]
                        /\ state' = IF res[2] THEN "Connecting" ELSE state
                  /\ UNCHANGED loop
       ELSE UNCHANGED <<state, tcp, epoll, inLoop, loop>>
    /\ UNCHANGED <<established, connects, socket, fd, served, timer, functors,
                   round, held, overlapped,
                   lateEvent>>

\* Fault: the retry timer is left running.
StopInLoopMutantKeepsTimer ==
    /\ Defined
    /\ loop = "functors" /\ batch # <<>> /\ Head(batch) = "stop"
    /\ batch' = Tail(batch)
    /\ IF state = "Connecting"
       THEN /\ Disable
            /\ inLoop' = FALSE
            /\ state' = "Closed"
       ELSE UNCHANGED <<state, epoll, inLoop>>
    /\ UNCHANGED <<established, connects, kernel, served, timer, functors, loop,
                   round, held, overlapped,
                   lateEvent>>

StopInLoop ==
    /\ Defined
    /\ loop = "functors" /\ batch # <<>> /\ Head(batch) = "stop"
    /\ batch' = Tail(batch)
    /\ IF state = "Connecting"
       THEN /\ timer' = 0
            /\ round' = IF timer # 0 THEN WithoutTimer(round) ELSE round
            /\ Disable
            /\ served' = IF served = "here" THEN "deaf" ELSE served
            /\ inLoop' = FALSE
            /\ state' = "Closed"
       ELSE UNCHANGED <<state, epoll, served, inLoop, timer, round>>
    /\ UNCHANGED <<established, connects, kernel, functors, loop, held, overlapped,
                   lateEvent>>

-----------------------------------------------------------------------------
LoopStep == \/ \E expired \in BOOLEAN : Poll(expired)
            \/ EndRound \/ HandleDead
            \/ HandleOutRefused \/ HandleOutConnected \/ HandleOutOther
            \/ TimerFires
            \/ FetchFunctors \/ EndFunctors
            \/ ConnectInLoop \/ StopInLoop

Next == \/ \E f \in Functors : UserPosts(f)
        \/ UserReleases
        \/ Answer
        \/ LoopStep

Spec == Init /\ [][Next]_vars

-----------------------------------------------------------------------------
(***************************************************************************)
(* Properties.                                                             *)
(***************************************************************************)
\* A connector the loop still holds is on its way: its socket is watched or
\* the retry timer runs.  Refusals, retries that come too early and functors
\* in any order never leave it in m_handlers with nothing to wake it.
NeverStranded == Defined /\ inLoop => watched \/ timer # 0

\* A connector the loop has let go (connected, or stopped) has left nothing
\* behind, no timer that would call into it and no event of its own, but when
\* its event was handled after a stop functor of the same round.
RemovedIsQuiet ==
    Defined /\ ~inLoop /\ ~lateEvent =>
        /\ timer = 0 /\ ~watched
        /\ served # "here" => fd \notin keys

\* However often it was asked to connect and however often it retried, a
\* connector reports onConnected, and hands a socket over, once.
ConnectedOnce == connects < 2

\* Epoll::_events has the key of no closed descriptor (the next handler with
\* that number would be modified instead of added, and never be called), but
\* when the periodic timer fired before handleOut had given the attempt under
\* way up: unanswered, or answered with an error that it only reports.
StaleKeyExplained == keys \ {fd} # {} => overlapped

\* Two claims the code does not keep, so no run lists them.
\* Events.h:127, onConnected is "triggered when a tcp connection just
\* established": the socket of a reported connection is connected.
ConnectedIsConnected == established => tcp = "connected"

\* Connector.h:42, "If connecting, stop retry to connect, if already
\* connected, do nothing": when the stop functor has run, an unconnected
\* connector is out of the loop, and an established connection is as before.
StopStops ==
    [][(loop = "functors" /\ batch # <<>> /\ Head(batch) = "stop" /\ batch' = Tail(batch))
          => IF established THEN served' = served ELSE ~inLoop']_vars
=============================================================================
