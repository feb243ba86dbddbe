------------------------------- MODULE Server -------------------------------
(***************************************************************************)
(* TcpServer, Acceptor and EventLoopDispatcher: a user thread listens,     *)
(* stops and destroys the server, startLoop gives each event loop to a     *)
(* thread, acceptors live in the loop they were dispatched to, and every   *)
(* client they accept is dispatched to the next loop.  What a connection   *)
(* does in its loop is in TcpConnection, how threads take their tasks in   *)
(* ThreadPool, how functors reach a loop in RunInLoop.                     *)
(***************************************************************************)
EXTENDS Integers, Sequences, FiniteSets, Functions

CONSTANTS MaxLoops,      \* bound: loops of the dispatcher
          MaxAcceptors,  \* bound: calls of TcpServer::listen
          MaxFunctors,   \* bound: functors pending in a loop when stop is posted
          Clients        \* peers that connect to the server's address

ASSUME BoundsAssumption ==
    MaxLoops \in Nat \ {0} /\ {MaxAcceptors, MaxFunctors} \subseteq Nat

VARIABLES
    loopsCount,     \* m_loops.size(); fixed
    dispatchIndex,  \* m_dispatchIndex
    start,          \* startLoop: "no", or what m_threadPool->start() returned
    loop,           \* each loop is "idle", "running" on a thread or "dead"
    functors,       \* m_pendingFunctors of each loop
    batch,          \* functors its round has fetched and not called yet
    round,          \* what its round still has to handle
    made,           \* acceptors made so far
    acceptor,       \* each acceptor
    serverAcceptor, \* TcpServer::_acceptor, 0 when empty
    server,         \* "alive" or "destroyed"
    orphans,        \* acceptors _acceptor named when listen() overwrote it
    client,         \* where each client is
    undefined       \* a destroyed acceptor or a missing loop was used

vars == <<loopsCount, dispatchIndex, start, loop, functors, batch, round, made,
          acceptor, serverAcceptor, server, orphans, client, undefined>>

loopVars == <<loop, functors, batch, round>>
serverVars == <<made, serverAcceptor, server, orphans>>

Loops     == 0..(MaxLoops - 1)
Acceptors == 1..MaxAcceptors
Functors  == {"listen", "stop"} \X Acceptors
Nowhere   == <<"away", 0>>
RunInLoop == 0      \* the eventfd, beside the acceptors in a round

TypeOK ==
    /\ loopsCount \in 0..MaxLoops
    /\ dispatchIndex \in 0..(IF loopsCount = 0 THEN 0 ELSE loopsCount - 1)
    /\ start \in {"no", "true", "false"}
    /\ loop \in [Loops -> {"idle", "running", "dead"}]
    /\ functors \in [Loops -> Seq(Functors)] /\ batch \in [Loops -> Seq(Functors)]
    /\ round \in [Loops -> SUBSET ({RunInLoop} \cup Acceptors)]
    /\ made \in 0..MaxAcceptors
    /\ acceptor \in [Acceptors -> [at : Loops, inLoop : BOOLEAN,
                                   state : {"Closed", "Listen"},
                                   socket : {"new", "bound", "elsewhere"}]]
    /\ serverAcceptor \in 0..MaxAcceptors
    /\ server \in {"alive", "destroyed"}
    /\ orphans \subseteq Acceptors
    /\ client \in [Clients -> {Nowhere} \cup ({"backlog"} \X Acceptors)
                                \cup ({"loop"} \X Loops)]
    /\ undefined \in BOOLEAN

Init ==
    /\ loopsCount \in 0..MaxLoops /\ dispatchIndex = 0
    /\ start = "no"
    /\ loop = [l \in Loops |-> "idle"]
    /\ functors = [l \in Loops |-> <<>>] /\ batch = [l \in Loops |-> <<>>]
    /\ round = [l \in Loops |-> {}]
    /\ made = 0
    /\ acceptor = [a \in Acceptors |-> [at |-> 0, inLoop |-> FALSE,
                                        state |-> "Closed", socket |-> "new"]]
    /\ serverAcceptor = 0 /\ server = "alive" /\ orphans = {}
    /\ client = [c \in Clients |-> Nowhere]
    /\ undefined = FALSE

\* An acceptor lives while its loop or a functor holds it; then its descriptor
\* is closed and the clients in its backlog are gone.
Held(a)  == {"listen", "stop"} \X {a}
Alive(a) == \/ acceptor[a].inLoop
            \/ Range(functors[acceptor[a].at]) \cap Held(a) # {}
            \/ Range(batch[acceptor[a].at]) \cap Held(a) # {}

-----------------------------------------------------------------------------
(***************************************************************************)
(* EventLoopDispatcher.                                                    *)
(***************************************************************************)
\* ++m_dispatchIndex and the wrap, under m_indexMutex.
DispatchedLoop == IF dispatchIndex + 1 >= loopsCount THEN 0 ELSE dispatchIndex + 1

\* Fault: the last loop is not handed to the pool.
PooledLoopsMutantLast == 1..(loopsCount - 2)

\* The loops handed to the pool; the caller of startLoop runs loop 0.
PooledLoops == 1..(loopsCount - 1)

\* What start() returns is not looked at.
StartLoop(result) ==
    /\ start = "no" /\ loopsCount > 0
    /\ result = "false" => PooledLoops # {}
    /\ start' = result
    /\ loop' = [loop EXCEPT ![0] = "running"]
    /\ UNCHANGED <<loopsCount, dispatchIndex, functors, batch, round, acceptor,
                   serverVars, client, undefined>>

\* A thread of the pool takes the next task.  After a failed start() at least
\* one thread is missing, so that the last task stays in the queue, and m_quit
\* may keep the other threads from taking theirs.
PoolThreadRuns(l) ==
    /\ start # "no"
    /\ l \in PooledLoops /\ loop[l] = "idle"
    /\ \A k \in 1..(l - 1) : loop[k] # "idle"
    /\ start = "true" \/ l < loopsCount - 1
    /\ loop' = [loop EXCEPT ![l] = "running"]
    /\ UNCHANGED <<loopsCount, dispatchIndex, start, functors, batch, round, acceptor,
                   serverVars, client, undefined>>

-----------------------------------------------------------------------------
(***************************************************************************)
(* TcpServer, called by one user thread.                                   *)
(***************************************************************************)
Posted(a, at, op) == [functors EXCEPT ![at] = Append(@, <<op, a>>)]

Overwritten == IF serverAcceptor = 0 THEN orphans ELSE orphans \cup {serverAcceptor}

\* makeAcceptor and Acceptor::listen.
Listen ==
    /\ server = "alive" /\ made < MaxAcceptors /\ loopsCount > 0
    /\ made' = made + 1
    /\ dispatchIndex' = DispatchedLoop
    /\ acceptor' = [acceptor EXCEPT ![made'].at = DispatchedLoop]
    /\ functors' = Posted(made', DispatchedLoop, "listen")
    /\ serverAcceptor' = made'
    /\ orphans' = Overwritten
    /\ UNCHANGED <<loopsCount, start, loop, batch, round, server, client, undefined>>

\* No descriptor: makeAcceptor reports it and returns an empty pointer, which
\* listen() stores too.
ListenNoSocket ==
    /\ server = "alive" /\ loopsCount > 0
    /\ dispatchIndex' = DispatchedLoop
    /\ serverAcceptor' = 0
    /\ orphans' = Overwritten
    /\ UNCHANGED <<loopsCount, start, loopVars, made, acceptor, server, client,
                   undefined>>

\* A dispatcher with no loops returns a null pointer, and getPoll is called on it.
ListenNoLoop ==
    /\ server = "alive" /\ loopsCount = 0
    /\ undefined' = TRUE
    /\ UNCHANGED <<loopsCount, dispatchIndex, start, loopVars, acceptor, serverVars,
                   client>>

\* _acceptor.lock() finds it.
Locked == serverAcceptor # 0 /\ Alive(serverAcceptor)

\* stopListen, also from the destructor.
StopListen(s) ==
    /\ server = "alive"
    /\ server' = s
    /\ IF Locked
       THEN LET at == acceptor[serverAcceptor].at
            IN  /\ Len(functors[at]) < MaxFunctors
                /\ functors' = Posted(serverAcceptor, at, "stop")
       ELSE UNCHANGED functors
    /\ UNCHANGED <<loopsCount, dispatchIndex, start, loop, batch, round, made,
                   acceptor, serverAcceptor, orphans, client, undefined>>

-----------------------------------------------------------------------------
(***************************************************************************)
(* The loops.                                                              *)
(***************************************************************************)
Backlog(a) == {c \in Clients : client[c] = <<"backlog", a>>}

\* epoll_wait: a listening socket with clients is readable; a socket that does
\* not listen reports HUP, for which an acceptor has no handler.
Ready(l) ==
    {a \in Acceptors : /\ acceptor[a].inLoop /\ acceptor[a].at = l
                       /\ Backlog(a) # {} \/ acceptor[a].socket = "new"}

Poll(l) ==
    /\ ~undefined /\ loop[l] = "running"
    /\ round[l] = {} /\ batch[l] = <<>>
    /\ round' = [round EXCEPT ![l] =
                    Ready(l) \cup (IF functors[l] = <<>> THEN {} ELSE {RunInLoop})]
    /\ round'[l] # {}
    /\ UNCHANGED <<loopsCount, dispatchIndex, start, loop, functors, batch, acceptor,
                   serverVars, client, undefined>>

FetchFunctors(l) ==
    /\ ~undefined /\ loop[l] = "running"
    /\ batch[l] = <<>> /\ RunInLoop \in round[l]
    /\ round' = [round EXCEPT ![l] = @ \ {RunInLoop}]
    /\ batch' = [batch EXCEPT ![l] = functors[l]]
    /\ functors' = [functors EXCEPT ![l] = <<>>]
    /\ UNCHANGED <<loopsCount, dispatchIndex, start, loop, acceptor, serverVars, client,
                   undefined>>

\* What bind and listen may come to: an address that is in use throws, other
\* errors of bind are dropped and listen() then takes a port of the kernel's
\* choice, and a lack of memory throws past the functor.
BindResults(a) ==
    {"EADDRINUSE", "dropped", "ENOMEM"} \cup
    (IF \E b \in Acceptors \ {a} : Alive(b) /\ acceptor[b].socket = "bound"
     THEN {} ELSE {"bound"})

\* The acceptor after that.
Listened(accepting, result) ==
    [accepting EXCEPT
        !.inLoop = TRUE,
        !.state  = IF result \in {"bound", "dropped"} THEN "Listen" ELSE @,
        !.socket = CASE result = "bound"   -> "bound"
                     [] result = "dropped" -> "elsewhere"
                     [] OTHER              -> @]

\* Acceptor::listen's functor: added to the loop and watched before the socket
\* listens, so that it stays there when that fails.  An exception nobody
\* catches ends the loop's thread and destroys the batch.
ListenInLoop(l, a, result) ==
    /\ acceptor' =
        IF acceptor[a].state # "Closed" THEN acceptor
        ELSE [acceptor EXCEPT ![a] = Listened(@, result)]
    /\ \/ /\ result = "ENOMEM"
          /\ loop' = [loop EXCEPT ![l] = "dead"]
          /\ batch' = [batch EXCEPT ![l] = <<>>]
          /\ round' = [round EXCEPT ![l] = {}]
       \/ /\ result # "ENOMEM"
          /\ batch' = [batch EXCEPT ![l] = Tail(@)]
          /\ UNCHANGED <<loop, round>>

\* Fault: only an acceptor that listens is taken out.
StopInLoopMutantIfListening(l, a) ==
    /\ acceptor' = IF acceptor[a].state # "Listen" THEN acceptor
                   ELSE [acceptor EXCEPT ![a].inLoop = FALSE, ![a].state = "Closed"]
    /\ batch' = [batch EXCEPT ![l] = Tail(@)]
    /\ UNCHANGED <<loop, round>>

\* Acceptor::stop's functor.
StopInLoop(l, a) ==
    /\ acceptor' = [acceptor EXCEPT ![a].inLoop = FALSE, ![a].state = "Closed"]
    /\ batch' = [batch EXCEPT ![l] = Tail(@)]
    /\ UNCHANGED <<loop, round>>

RunFunctor(l) ==
    /\ ~undefined /\ batch[l] # <<>>
    /\ LET a == Head(batch[l])[2]
       IN  \/ /\ Head(batch[l])[1] = "listen"
              /\ \E result \in BindResults(a) : ListenInLoop(l, a, result)
           \/ /\ Head(batch[l])[1] = "stop"
              /\ StopInLoop(l, a)
    /\ UNCHANGED <<loopsCount, dispatchIndex, start, functors, serverVars, client,
                   undefined>>

\* The round comes to acceptor a's event.
AtAcceptor(l, a) ==
    /\ ~undefined /\ loop[l] = "running"
    /\ batch[l] = <<>> /\ a \in round[l]
    /\ round' = [round EXCEPT ![l] = @ \ {a}]

\* handleIn: accept, and the connection's loop is the next one.
HandleIn(l, a, c) ==
    /\ AtAcceptor(l, a) /\ Alive(a) /\ c \in Backlog(a)
    /\ dispatchIndex' = DispatchedLoop
    /\ client' = [client EXCEPT ![c] = <<"loop", DispatchedLoop>>]
    /\ UNCHANGED <<loopsCount, start, loop, functors, batch, acceptor, serverVars,
                   undefined>>

\* accept finds no descriptor or no client, or the event was HUP: onError, or
\* nothing.
HandleInFails(l, a) ==
    /\ AtAcceptor(l, a) /\ Alive(a)
    /\ UNCHANGED <<loopsCount, dispatchIndex, start, loop, functors, batch, acceptor,
                   serverVars, client, undefined>>

\* The stop functor of this round destroyed the acceptor and its EpollEvent.
HandleDestroyed(l, a) ==
    /\ AtAcceptor(l, a) /\ ~Alive(a)
    /\ undefined' = TRUE
    /\ UNCHANGED <<loopsCount, dispatchIndex, start, loop, functors, batch, acceptor,
                   serverVars, client>>

\* A client connects to the server's address.
Connect(c, a) ==
    /\ client[c] = Nowhere
    /\ Alive(a) /\ acceptor[a].socket = "bound"
    /\ client' = [client EXCEPT ![c] = <<"backlog", a>>]
    /\ UNCHANGED <<loopsCount, dispatchIndex, start, loopVars, acceptor, serverVars,
                   undefined>>

Accepts(l) == \E a \in Acceptors, c \in Clients : HandleIn(l, a, c)

LoopStep(l) == \/ Poll(l) \/ FetchFunctors(l) \/ RunFunctor(l) \/ Accepts(l)
               \/ \E a \in Acceptors : HandleInFails(l, a) \/ HandleDestroyed(l, a)

Next == \/ Listen \/ ListenNoSocket \/ ListenNoLoop
        \/ \E s \in {"alive", "destroyed"} : StopListen(s)
        \/ \E r \in {"true", "false"} : StartLoop(r)
        \/ \E l \in Loops : PoolThreadRuns(l) \/ LoopStep(l)
        \/ \E c \in Clients, a \in Acceptors : Connect(c, a)

Spec == Init /\ [][Next]_vars

\* Threads are scheduled, and accept() does not find the process without
\* descriptors for ever.
FairSpec ==
    /\ Spec
    /\ \A l \in Loops : /\ WF_vars(PoolThreadRuns(l) /\ start = "true")
                        /\ WF_vars(LoopStep(l))
                        /\ SF_vars(Accepts(l))

-----------------------------------------------------------------------------
(***************************************************************************)
(* Properties.                                                             *)
(***************************************************************************)
\* Acceptor a's functors in a queue: whether there is one, and whether there is
\* one and the last of them is its stop.
Holds(queue, a) == \E i \in DOMAIN queue : queue[i][2] = a
StopIsLast(queue, a) ==
    \E i \in DOMAIN queue : /\ queue[i] = <<"stop", a>>
                           /\ \A j \in DOMAIN queue : queue[j][2] = a => j <= i

\* Acceptor a has left its loop for good or its stop comes last: left behind are
\* only acceptors that a later listen() had overwritten, and those of a loop an
\* exception has ended.
StopComes(a) ==
    LET l == acceptor[a].at
    IN  \/ a \in orphans \/ loop[l] = "dead"
        \/ /\ ~acceptor[a].inLoop
           /\ ~Holds(batch[l], a) /\ ~Holds(functors[l], a)
        \/ StopIsLast(functors[l], a)
        \/ ~Holds(functors[l], a) /\ StopIsLast(batch[l], a)

\* TcpServer.h:36, "Stop accept incoming connections": when the server is gone,
\* every acceptor it made has left its loop or the last functor it gave to the
\* loop is its stop, which overtakes no listen and works whether listening
\* succeeded or not.
StopReachesAcceptor == server = "destroyed" => \A a \in Acceptors : StopComes(a)

\* A client in the backlog of an acceptor in a running loop is accepted and
\* given to a loop that some thread runs, however accept() fails meanwhile and
\* wherever the round robin has come to; unless the acceptor is stopped, an
\* exception ends a loop, or start() failed, which startLoop does not notice.
ClientsServed ==
    \A c \in Clients, a \in Acceptors :
        (client[c] = <<"backlog", a>> /\ start # "no") ~>
            \/ client[c][1] = "loop" /\ loop[client[c][2]] = "running"
            \/ ~acceptor[a].inLoop \/ start = "false" \/ undefined
            \/ \E l \in Loops : loop[l] = "dead"
=============================================================================
