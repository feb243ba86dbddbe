--------------------------- MODULE TcpConnection ----------------------------
(***************************************************************************)
(* One TcpConnection from makeTcpConnection to its destruction, with the   *)
(* parts it lives on: its EpollEvent and the Epoll of its loop, the rounds *)
(* of EventLoopImpl::start, the functors handed to runInLoop, its two      *)
(* entries of the loop's TimeWheel, the Acceptor that makes it (on another *)
(* loop's thread), user threads that hold its Channel, and the peer.       *)
(*                                                                         *)
(* A handler (handleIn, handleOut, handleRdhup), a functor and a tick each *)
(* run to completion on the loop's thread and other threads see only       *)
(* m_state and the reference count, so each is one action.  The connection *)
(* is destroyed when the last shared_ptr goes: m_handlers', handleEvents', *)
(* makeTcpConnection's, the acceptor's or a user thread's.                 *)
(*                                                                         *)
(* runInLoop is taken as FunctorQueue promises it; the wheel as entries    *)
(* that count ticks down, 0 meaning not in the wheel.                      *)
(***************************************************************************)
EXTENDS Integers, Sequences, FiniteSets

CONSTANTS MaxData,      \* bound: units of data in a buffer or on the wire
          MaxFunctors,  \* bound: functors queued by users
          Timeout       \* ticks from the latest bucket to the timeout bucket

ASSUME BoundsAssumption == MaxData \in Nat /\ MaxFunctors \in Nat
ASSUME TimeoutAssumption == Timeout \in Nat \ {0}

VARIABLES
    state,          \* m_state
    isWaitWriting,  \* m_isWaitWriting
    watching,       \* m_watchingEvents of the EpollEvent
    registered,     \* the descriptor is a key of Epoll::_events
    inLoop,         \* the connection is in EventLoopImpl::m_handlers
    buffer,         \* readable units in the TcpChannel's two ByteArrays
    idle, halfClose,\* ticks left of _idleConnectionWheel and _halfCloseWheel
    hasWheel,       \* the loop was made with a time wheel
    creator,        \* Acceptor::handleIn, which makes the connection
    held,           \* a user thread is inside Channel::send or Channel::close
    functors,       \* handed to runInLoop, waiting
    batch,          \* fetched by RunInLoopHandler::handleIn, being called
    loop,           \* where the loop's thread is
    round,          \* activeChannels not handled yet
    events,         \* activeEvents of the EpollEvent not handled yet
    peer,           \* "open", "shut" (FIN received) or "reset" (RST received)
    shutWrite,      \* SHUT_WR done
    received,       \* units received by the kernel and not read
    disconnects,    \* history: onDisconnect calls, counted up to 2
    lateSend,       \* history: a send functor ran on a Closed connection
    kicked          \* history: the half-close timeout closed the connection

fsm     == <<state, isWaitWriting>>
epoll   == <<watching, registered>>
wheel   == <<idle, halfClose>>
queue   == <<functors, batch>>
thread  == <<loop, round, events>>
wire    == <<peer, shutWrite, received>>
history == <<disconnects, lateSend, kicked>>
vars    == <<fsm, epoll, wheel, hasWheel, queue, thread, wire, history, inLoop,
             buffer, creator, held>>

States    == {"Established", "HalfClose", "Closed"}
Arrays    == {"m_readArray", "m_writeArray"}
Functors  == {"send", "close"}
Channels  == {"connection", "timer", "wakeUp"}
Creator   == {"start", "registered", "returned", "locked", "done", "null"}

TypeOK ==
    /\ state \in States /\ isWaitWriting \in BOOLEAN
    /\ watching \in SUBSET {"IN", "OUT", "RDHUP"} /\ registered \in BOOLEAN
    /\ inLoop \in BOOLEAN /\ held \in BOOLEAN /\ creator \in Creator
    /\ buffer \in [Arrays -> 0..MaxData]
    /\ idle \in 0..Timeout /\ halfClose \in 0..Timeout
    /\ hasWheel \in BOOLEAN
    /\ functors \in Seq(Functors) /\ batch \in Seq(Functors)
    /\ loop \in {"poll", "round", "connection", "functors", "undefined"}
    /\ round \in SUBSET Channels /\ events \in SUBSET {"IN", "OUT", "RDHUP"}
    /\ peer \in {"open", "shut", "reset"} /\ shutWrite \in BOOLEAN
    /\ received \in 0..MaxData
    /\ disconnects \in 0..2 /\ lateSend \in BOOLEAN /\ kicked \in BOOLEAN

Init ==
    /\ state = "Established" /\ isWaitWriting = FALSE
    /\ watching = {} /\ registered = FALSE
    /\ inLoop = FALSE /\ held = FALSE /\ creator = "start"
    /\ buffer = [a \in Arrays |-> 0]
    /\ idle = 0 /\ halfClose = 0
    /\ hasWheel \in BOOLEAN
    /\ functors = <<>> /\ batch = <<>>
    /\ loop = "poll" /\ round = {} /\ events = {}
    /\ peer = "open" /\ shutWrite = FALSE /\ received = 0
    /\ disconnects = 0 /\ lateSend = FALSE /\ kicked = FALSE

\* Some shared_ptr to the connection exists.  handleEvents locks its handler.
Alive == \/ inLoop
         \/ held
         \/ creator \in {"start", "registered", "locked"}
         \/ loop = "connection"

\* The process still behaves: no dangling or null pointer was followed.
Defined == loop # "undefined" /\ creator # "null"

(***************************************************************************)
(* Acceptor::handleIn and makeTcpConnection.  The connection is in the     *)
(* loop and watched before its idle entry is in the wheel, and the strong  *)
(* reference of makeTcpConnection is gone before the acceptor locks the    *)
(* weak_ptr it got.  The acceptor runs on the thread of another loop; the  *)
(* behaviours of one shared loop are those where these steps come in a row.*)
(***************************************************************************)
AddToLoop ==
    /\ Defined
    /\ creator = "start"
    /\ creator' = "registered"
    /\ inLoop' = TRUE
    /\ watching' = {"IN", "RDHUP"} /\ registered' = TRUE
    /\ UNCHANGED <<fsm, wheel, hasWheel, queue, thread, wire, history, buffer, held>>

AddIdleEntry ==
    /\ Defined
    /\ creator = "registered"
    /\ creator' = "returned"
    /\ idle' = IF hasWheel THEN Timeout ELSE 0
    /\ UNCHANGED <<fsm, epoll, halfClose, hasWheel, queue, thread, wire, history,
                   inLoop, buffer, held>>

AcceptorLocks ==
    /\ Defined
    /\ creator = "returned"
    /\ creator' = IF Alive THEN "locked" ELSE "null"
    /\ UNCHANGED <<fsm, epoll, wheel, hasWheel, queue, thread, wire, history,
                   inLoop, buffer, held>>

AcceptorReturns ==
    /\ Defined
    /\ creator = "locked"
    /\ creator' = "done"
    /\ UNCHANGED <<fsm, epoll, wheel, hasWheel, queue, thread, wire, history,
                   inLoop, buffer, held>>

(***************************************************************************)
(* Channel::send and Channel::close on a user thread, or in a callback.    *)
(***************************************************************************)
UserLocks ==
    /\ Defined
    /\ ~held /\ Alive /\ creator # "start"
    /\ held' = TRUE
    /\ UNCHANGED <<fsm, epoll, wheel, hasWheel, queue, thread, wire, history,
                   inLoop, buffer, creator>>

\* The user fills TcpChannel::writer() and then calls send().
UserPosts(f) ==
    /\ Defined
    /\ held /\ Len(functors) < MaxFunctors
    /\ functors' = Append(functors, f)
    /\ buffer' = IF f = "send" /\ buffer["m_writeArray"] < MaxData
                 THEN [buffer EXCEPT !["m_writeArray"] = @ + 1]
                 ELSE buffer
    /\ UNCHANGED <<fsm, epoll, wheel, hasWheel, batch, thread, wire, history,
                   inLoop, creator, held>>

UserReleases ==
    /\ Defined
    /\ held
    /\ held' = FALSE
    /\ UNCHANGED <<fsm, epoll, wheel, hasWheel, queue, thread, wire, history,
                   inLoop, buffer, creator>>

(***************************************************************************)
(* The peer, as long as the socket is open: ~Socket closes it.             *)
(***************************************************************************)
PeerSends ==
    /\ Defined
    /\ Alive /\ peer = "open" /\ received < MaxData
    /\ received' = received + 1
    /\ UNCHANGED <<fsm, epoll, wheel, hasWheel, queue, thread, peer, shutWrite,
                   history, inLoop, buffer, creator, held>>

PeerCloses ==
    /\ Defined
    /\ Alive /\ peer = "open"
    /\ peer' \in {"shut", "reset"}
    /\ UNCHANGED <<fsm, epoll, wheel, hasWheel, queue, thread, shutWrite, received,
                   history, inLoop, buffer, creator, held>>

(***************************************************************************)
(* EventLoopImpl::start.  A round is what one epoll_wait reported; it is   *)
(* level triggered.  Whether the socket is writable and whether the wheel  *)
(* timer has expired is up to the kernel.                                  *)
(***************************************************************************)
Ready(writable) ==
    watching \cap
        ((IF received > 0 \/ peer # "open" THEN {"IN"} ELSE {}) \cup
         (IF peer # "open" THEN {"RDHUP"} ELSE {}) \cup
         (IF writable \/ peer = "reset" THEN {"OUT"} ELSE {}))

Poll(writable, tick) ==
    /\ Defined
    /\ loop = "poll"
    /\ tick => hasWheel
    /\ events' = IF Alive /\ registered THEN Ready(writable) ELSE {}
    /\ round' = (IF events' # {} THEN {"connection"} ELSE {}) \cup
                (IF functors # <<>> THEN {"wakeUp"} ELSE {}) \cup
                (IF tick THEN {"timer"} ELSE {})
    /\ round' # {}
    /\ loop' = "round"
    /\ UNCHANGED <<fsm, epoll, wheel, hasWheel, queue, wire, history, inLoop,
                   buffer, creator, held>>

EndRound ==
    /\ Defined
    /\ loop = "round" /\ round = {}
    /\ loop' = "poll"
    /\ UNCHANGED <<fsm, epoll, wheel, hasWheel, queue, round, events, wire,
                   history, inLoop, buffer, creator, held>>

\* handleEvents on an EpollEvent that died earlier in the round reads freed
\* memory.
HandleEvents ==
    /\ Defined
    /\ loop = "round" /\ "connection" \in round
    /\ loop' = IF Alive THEN "connection" ELSE "undefined"
    /\ round' = round \ {"connection"}
    /\ UNCHANGED <<fsm, epoll, wheel, hasWheel, queue, events, wire, history,
                   inLoop, buffer, creator, held>>

EndHandleEvents ==
    /\ Defined
    /\ loop = "connection" /\ events = {}
    /\ loop' = "round"
    /\ UNCHANGED <<fsm, epoll, wheel, hasWheel, queue, round, events, wire,
                   history, inLoop, buffer, creator, held>>

(***************************************************************************)
(* What the handlers share.                                                *)
(***************************************************************************)
\* EpollEvent::deactivate: updateEvent adds the descriptor again when disable
\* has already removed it.
Deactivate(evs) == watching' = watching \ evs

\* Both branches of TcpConnection::renewWheel renew the idle entry: the
\* half-close entry is never renewed, against its doc (see HalfCloseRenewed).
RenewWheel == IF idle > 0 THEN Timeout ELSE 0

\* Faulty variants of a definition carry the suffix Mutant...; no specification
\* uses them, they show which property notices the fault.

\* Fault: the descriptor is left in the Epoll.
ForceCloseMutantNoDisable ==
    /\ idle' = 0 /\ halfClose' = 0
    /\ disconnects' = IF disconnects < 2 THEN disconnects + 1 ELSE 2
    /\ inLoop' = FALSE
    /\ state' = "Closed"
    /\ UNCHANGED registered

\* forceClose leaves m_watchingEvents as it is and has no guard against
\* running twice.
ForceClose ==
    /\ idle' = 0 /\ halfClose' = 0
    /\ disconnects' = IF disconnects < 2 THEN disconnects + 1 ELSE 2
    /\ registered' = FALSE
    /\ inLoop' = FALSE
    /\ state' = "Closed"

\* The array that SocketIO::write drains and the one SocketIO::read fills
\* through a reader, that is, over the units that are readable in it.
ReadBufferConvert == "m_readArray"
WriteBufferConvert == "m_writeArray"

\* SocketIO::write gives sendmsg every readable unit of the array.  Of a
\* non-empty one the kernel takes at least a unit, or none at all (EAGAIN, -1).
Broken == peer = "reset" \/ shutWrite
SendResults(size) == IF size = 0 THEN {0} ELSE {-1} \cup 1..size
WriteCompleted(sent, size) == sent # -1 /\ sent <= size

\* SocketIO::read offers recvmsg the readable units of the array as room, and
\* recvmsg on a reset connection may fail with an errno that is thrown.
ReadUnits(room) == IF received < room THEN received ELSE room
ReceiveFails == peer = "reset"

(***************************************************************************)
(* The handlers of TcpConnection, in the order handleEvents calls them.    *)
(* The default handleErr and handleHup do nothing.                         *)
(***************************************************************************)
HandleRdhup ==
    /\ Defined
    /\ loop = "connection" /\ "RDHUP" \in events
    /\ events' = events \ {"RDHUP"}
    /\ Deactivate({"RDHUP", "IN"})
    /\ \/ /\ state = "Established" /\ ~isWaitWriting
          /\ ForceClose
       \/ /\ state # "Established" \/ isWaitWriting
          /\ state' = IF state = "Established" THEN "HalfClose" ELSE state
          /\ registered' = TRUE
          /\ UNCHANGED <<wheel, inLoop, disconnects>>
    /\ UNCHANGED <<isWaitWriting, hasWheel, queue, loop, round, wire, lateSend,
                   kicked, buffer, creator, held>>

\* End of file, 0 units, is not looked at.
HandleIn ==
    /\ Defined
    /\ loop = "connection" /\ "IN" \in events /\ "RDHUP" \notin events
    /\ events' = events \ {"IN"}
    /\ \/ /\ LET num == ReadUnits(buffer[WriteBufferConvert])
             IN  /\ received' = received - num
                 /\ buffer' = [buffer EXCEPT ![WriteBufferConvert] = @ - num]
          /\ idle' = RenewWheel
          /\ UNCHANGED <<state, halfClose, registered, inLoop, disconnects>>
       \/ /\ ReceiveFails
          /\ ForceClose
          /\ UNCHANGED <<received, buffer>>
    /\ UNCHANGED <<isWaitWriting, watching, hasWheel, queue, loop, round, peer,
                   shutWrite, lateSend, kicked, creator, held>>

\* Fault: a completed write does not look at the state.
HandleOutMutantStaysHalfClose ==
    /\ Defined
    /\ loop = "connection" /\ events = {"OUT"}
    /\ events' = {}
    /\ \/ /\ Broken
          /\ ForceClose
          /\ UNCHANGED watching
       \/ /\ ~Broken
          /\ Deactivate({"OUT"}) /\ registered' = TRUE
          /\ idle' = RenewWheel
          /\ UNCHANGED <<state, halfClose, inLoop, disconnects>>
    /\ isWaitWriting' = FALSE
    /\ UNCHANGED <<hasWheel, queue, loop, round, wire, lateSend, kicked, buffer,
                   creator, held>>

HandleOut ==
    /\ Defined
    /\ loop = "connection" /\ events = {"OUT"}
    /\ events' = {}
    /\ LET size == buffer[ReadBufferConvert] IN
       \/ /\ Broken
          /\ isWaitWriting' = FALSE
          /\ ForceClose
          /\ UNCHANGED <<watching, buffer>>
       \/ /\ ~Broken
          /\ \E sent \in SendResults(size) :
                /\ buffer' = [buffer EXCEPT ![ReadBufferConvert] =
                                 IF sent = -1 THEN @ ELSE @ - sent]
                /\ IF WriteCompleted(sent, size)
                   THEN /\ Deactivate({"OUT"})
                        /\ isWaitWriting' = FALSE
                        /\ IF state = "HalfClose"
                           THEN ForceClose
                           ELSE /\ registered' = TRUE
                                /\ idle' = RenewWheel
                                /\ UNCHANGED <<state, halfClose, inLoop,
                                               disconnects>>
                   ELSE /\ idle' = RenewWheel
                        /\ UNCHANGED <<fsm, epoll, halfClose, inLoop,
                                       disconnects>>
    /\ UNCHANGED <<hasWheel, queue, loop, round, wire, lateSend, kicked, creator,
                   held>>

(***************************************************************************)
(* RunInLoopHandler::handleIn and the two functors.                        *)
(***************************************************************************)
FetchFunctors ==
    /\ Defined
    /\ loop = "round" /\ "wakeUp" \in round
    /\ loop' = "functors" /\ round' = round \ {"wakeUp"}
    /\ batch' = functors /\ functors' = <<>>
    /\ UNCHANGED <<fsm, epoll, wheel, hasWheel, events, wire, history, inLoop,
                   buffer, creator, held>>

EndFunctors ==
    /\ Defined
    /\ loop = "functors" /\ batch = <<>>
    /\ loop' = "round"
    /\ UNCHANGED <<fsm, epoll, wheel, hasWheel, queue, round, events, wire,
                   history, inLoop, buffer, creator, held>>

\* Fault: OUT is watched and the flag is forgotten.
SendInLoopMutantNoFlag ==
    /\ Defined
    /\ loop = "functors" /\ batch # <<>> /\ Head(batch) = "send"
    /\ batch' = Tail(batch)
    /\ IF Alive
       THEN watching' = watching \cup {"OUT"} /\ registered' = TRUE
       ELSE UNCHANGED epoll
    /\ UNCHANGED <<fsm, wheel, hasWheel, functors, thread, wire, history,
                   inLoop, buffer, creator, held>>

\* sendInLoop's functor: the state is not looked at.
SendInLoop ==
    /\ Defined
    /\ loop = "functors" /\ batch # <<>> /\ Head(batch) = "send"
    /\ batch' = Tail(batch)
    /\ IF Alive
       THEN /\ isWaitWriting' = TRUE
            /\ watching' = watching \cup {"OUT"} /\ registered' = TRUE
            /\ lateSend' = (lateSend \/ state = "Closed")
       ELSE UNCHANGED <<isWaitWriting, epoll, lateSend>>
    /\ UNCHANGED <<state, wheel, hasWheel, functors, thread, wire, disconnects,
                   kicked, inLoop, buffer, creator, held>>

\* Fault: the state is stored without comparing it first.
CloseAfterWriteCompletedMutantNoCas ==
    /\ Defined
    /\ loop = "functors" /\ batch # <<>> /\ Head(batch) = "close"
    /\ batch' = Tail(batch)
    /\ IF Alive
       THEN /\ state' = "HalfClose"
            /\ IF ~isWaitWriting
               THEN /\ shutWrite' = TRUE
                    /\ Deactivate({"RDHUP"}) /\ registered' = TRUE
                    /\ halfClose' = IF hasWheel THEN Timeout ELSE 0
               ELSE UNCHANGED <<shutWrite, epoll, halfClose>>
       ELSE UNCHANGED <<state, shutWrite, epoll, halfClose>>
    /\ UNCHANGED <<isWaitWriting, idle, hasWheel, functors, thread, peer,
                   received, history, inLoop, buffer, creator, held>>

\* Fault: the half-close entry is not made.
CloseAfterWriteCompletedMutantNoEntry ==
    /\ Defined
    /\ loop = "functors" /\ batch # <<>> /\ Head(batch) = "close"
    /\ batch' = Tail(batch)
    /\ IF Alive /\ state = "Established"
       THEN /\ state' = "HalfClose"
            /\ IF ~isWaitWriting
               THEN /\ shutWrite' = TRUE
                    /\ Deactivate({"RDHUP"}) /\ registered' = TRUE
               ELSE UNCHANGED <<shutWrite, epoll>>
       ELSE UNCHANGED <<state, shutWrite, epoll>>
    /\ UNCHANGED <<isWaitWriting, wheel, hasWheel, functors, thread, peer,
                   received, history, inLoop, buffer, creator, held>>

\* closeAfterWriteCompleted's functor.
CloseAfterWriteCompleted ==
    /\ Defined
    /\ loop = "functors" /\ batch # <<>> /\ Head(batch) = "close"
    /\ batch' = Tail(batch)
    /\ IF Alive /\ state = "Established"
       THEN /\ state' = "HalfClose"
            /\ IF ~isWaitWriting
               THEN /\ shutWrite' = TRUE
                    /\ Deactivate({"RDHUP"}) /\ registered' = TRUE
                    /\ halfClose' = IF hasWheel THEN Timeout ELSE 0
               ELSE UNCHANGED <<shutWrite, epoll, halfClose>>
       ELSE UNCHANGED <<state, shutWrite, epoll, halfClose>>
    /\ UNCHANGED <<isWaitWriting, idle, hasWheel, functors, thread, peer, received,
                   history, inLoop, buffer, creator, held>>

(***************************************************************************)
(* TimeWheel::tick as this connection's entries see it.  An entry whose    *)
(* count runs out is called and erased: the idle entry hands over a close  *)
(* functor, the half-close entry calls forceClose, which also removes the  *)
(* idle entry, before or after the idle entry's own turn in the bucket.    *)
(***************************************************************************)
Tick ==
    /\ Defined
    /\ loop = "round" /\ "timer" \in round
    /\ round' = round \ {"timer"}
    /\ LET idleOut == idle = 1
           halfOut == halfClose = 1 /\ Alive
       IN  /\ \E idleTurn \in {TRUE} \cup {~halfOut} :
                 functors' = IF idleOut /\ idleTurn /\ Alive
                             THEN Append(functors, "close") ELSE functors
           /\ \/ /\ halfOut
                 /\ ForceClose
                 /\ kicked' = TRUE
              \/ /\ ~halfOut
                 /\ idle' = IF idle > 0 THEN idle - 1 ELSE 0
                 /\ halfClose' = IF halfClose > 0 THEN halfClose - 1 ELSE 0
                 /\ UNCHANGED <<state, registered, inLoop, disconnects, kicked>>
    /\ UNCHANGED <<isWaitWriting, watching, hasWheel, batch, loop, events, wire,
                   lateSend, buffer, creator, held>>

-----------------------------------------------------------------------------
AcceptorStep == AddToLoop \/ AddIdleEntry \/ AcceptorLocks \/ AcceptorReturns
UserStep     == UserLocks \/ (\E f \in Functors : UserPosts(f)) \/ UserReleases
PeerStep     == PeerSends \/ PeerCloses
HandlerStep  == \/ EndRound \/ HandleEvents \/ EndHandleEvents
                \/ HandleRdhup \/ HandleIn \/ HandleOut
                \/ FetchFunctors \/ EndFunctors
                \/ SendInLoop \/ CloseAfterWriteCompleted
                \/ Tick

Next == \/ AcceptorStep \/ UserStep \/ PeerStep \/ HandlerStep
        \/ \E writable, tick \in BOOLEAN : Poll(writable, tick)

Spec == Init /\ [][Next]_vars

\* The loop's thread and the acceptor's keep running and a call of Channel
\* returns; the wheel's timer is periodic and a socket whose peer reads is
\* writable again and again, so that epoll_wait reports each infinitely often.
\* Users need not call anything and the peer need not send or close.
Fairness ==
    /\ WF_vars(AcceptorStep)
    /\ WF_vars(HandlerStep)
    /\ WF_vars(UserReleases)
    /\ SF_vars(\E tick \in BOOLEAN : Poll(TRUE, tick))
    /\ SF_vars(\E writable \in BOOLEAN : Poll(writable, TRUE))

FairSpec == Spec /\ Fairness

-----------------------------------------------------------------------------
(***************************************************************************)
(* Properties.                                                             *)
(***************************************************************************)
\* TcpConnection.h:109-124: the state only moves along the arrows of the
\* diagram.  Handlers of one dispatch go on after forceClose, and functors and
\* timeouts race the handlers: none of them may take a connection back.
StateOrder ==
    [][\/ state' = state
       \/ state = "Established" /\ state' \in {"HalfClose", "Closed"}
       \/ state = "HalfClose" /\ state' = "Closed"]_vars

\* Until the connection is closed, m_isWaitWriting says exactly whether OUT is
\* watched: a send is never left without the event that would complete it, and
\* the loop never spins on a writable socket with nothing asked of it.
OutIffWaitWriting ==
    state # "Closed" => (isWaitWriting <=> "OUT" \in watching)

\* A connection on a loop with a wheel is always on its way: while established
\* it is timed or a close functor is under way; while half closed a write is
\* pending or the half-close entry counts.  None is ever forgotten.
NeverForgotten ==
    /\ hasWheel /\ state = "Established" /\ creator \in {"returned", "locked", "done"}
          => idle > 0 \/ \E q \in {functors, batch} : \E i \in 1..Len(q) : q[i] = "close"
    /\ hasWheel /\ state = "HalfClose" => isWaitWriting \/ halfClose > 0

\* EpollEvent.h:57: the loop holds no pointer to the EpollEvent of a destroyed
\* connection, neither in Epoll::_events nor among the channels of a round.
\* Only a send functor that ran after the close, and a close by the half-close
\* timeout, which may come in the middle of a round, can leave one behind.  A
\* connection that one of them has touched is excepted from then on.
DanglingExplained ==
    /\ ~Alive /\ registered => lateSend \/ kicked
    /\ ~Alive /\ "connection" \in round => lateSend \/ kicked

\* onDisconnect is reported once, unless the connection was reset, a send
\* functor revived it after the close, or the half-close timeout closed it,
\* perhaps in the middle of a round that still had events for it.
DisconnectOnce ==
    disconnects > 1 => peer = "reset" \/ lateSend \/ kicked

\* Events.h:142, onWriteCompleted is "Triggered all data in buffer has wrote
\* out": when handleOut reports it on a working socket and clears
\* m_isWaitWriting, what the user wrote into the channel is gone from it.
WrittenOut ==
    [][isWaitWriting /\ ~isWaitWriting' /\ ~Broken => buffer'["m_writeArray"] = 0]_vars

\* A claim the code does not keep, so no run lists it.  Acceptor.cpp:62,
\* "connection ptr will not expire here": whatever loop the dispatcher chose,
\* the acceptor's lock gives the connection.
AcceptorNeverNull == creator # "null"

\* The socket takes bytes from the connection's buffer or gives it some.  The
\* end of file, and an event that finds no room or nothing to send, does not.
Transfer == \/ HandleIn /\ received' < received
            \/ HandleOut /\ buffer' # buffer

\* TcpConnection.h:137, "if connection is half close, and no data transferred,
\* closed by this time wheel", and the arrows of :115-117: on a loop with a
\* wheel a half closed connection is closed in the end, unless data keeps being
\* transferred for ever.  Which transfers restart the half-close timeout does
\* not matter (see HalfCloseRenewed); events that transfer nothing, such as the
\* end of file that the level-triggered IN reports without end, must not.
HalfCloseEnds ==
    \/ []<><<Transfer>>_vars
    \/ (hasWheel /\ state = "HalfClose") ~> (state = "Closed" \/ ~Defined)

\* A claim the code does not keep, so no run lists it.  TcpConnection.h:97,
\* renewWheel "Refresh time wheel when received any data, prevent closed by
\* time wheel", and 137: data received restarts the half-close timeout.  The
\* branch for it (TcpConnection.cpp:209-210) renews the idle entry instead.
HalfCloseRenewed ==
    [][halfClose > 0 /\ Transfer => halfClose' \in {0, Timeout}]_vars
=============================================================================
