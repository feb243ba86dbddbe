------------------------------ MODULE Signals -------------------------------
(***************************************************************************)
(* signal::SignalWatcher and SignalHandler.  Every thread of the program   *)
(* blocks every signal, except one that blocks what is watched and so lets *)
(* the default action of all others happen; watched signals stay pending   *)
(* and are read from the signalfd by the handler that with() put into a    *)
(* loop.  with() may be called again: the old handler's stop functor and   *)
(* the new one's add functor then run on their loops' threads.  Both are   *)
(* posted from the thread that calls with(), and addPendingFunction writes *)
(* the eventfd first and pushes the functor then                           *)
(* (src/src/internal/handlers/RunInLoopHandler.cpp:46-48).                 *)
(***************************************************************************)
EXTENDS Integers, Sequences, FiniteSets, Functions

CONSTANTS Loops,        \* of the dispatcher
          MaxHandlers,  \* bound: calls of with()
          MaxCalls,     \* bound: calls of watch() and restore()
          MaxSends,     \* bound: signals sent to the process
          None

ASSUME BoundsAssumption == {MaxHandlers, MaxCalls, MaxSends} \subseteq Nat
ASSUME LoopsAssumption == IsFiniteSet(Loops) /\ None \notin Loops

VARIABLES
    signalFd,       \* "none" until enableWatchSignal, "open" or "failed"
    watching,       \* m_watchingSignals, and the mask of the signalfd
    blocked,        \* signals blocked by m_unHandledSignalThread
    threadPc,       \* it is about to set its mask ("run") or waits
    pending,        \* signals the kernel holds back
    handler,        \* m_signalHandler, 0 before the first with()
    loopOf,         \* the loop of each handler
    live,           \* handlers that have not been destroyed
    deaf,           \* handlers made with signalFd -1
    making,         \* the loop of the handler with() will make, once it has
                    \* posted the old one's stop; None otherwise
    posting,        \* the functor whose eventfd is written and that is not
                    \* pushed yet; <<>> if none
    awake,          \* the eventfd of each loop is readable
    functors,       \* m_pendingFunctors of each loop, after what its round
                    \* has fetched and not run yet
    registered,     \* the handler the signalfd is registered with in each loop
    roundFunctors,  \* how many functors the loop's round still has to run
    roundSignal,    \* and the handler whose event it still has to handle
    batch,          \* signals read by handleIn and not looked at yet
    calls, sends,
    undefined       \* a round called a handler that had been destroyed

vars == <<signalFd, watching, blocked, threadPc, pending, handler, loopOf, live,
          deaf, making, posting, awake, functors, registered, roundFunctors, roundSignal,
          batch, calls, sends, undefined>>

maskVars == <<signalFd, watching, blocked, threadPc>>
handlerVars == <<handler, loopOf, live, deaf>>
withVars == <<making, posting>>
loopVars == <<withVars, awake, functors, registered, roundFunctors, roundSignal, batch>>

\* Some enumerators of Signals with their numbers, and a number that has none.
Enumerators == {"HUP", "INT"}
Numbers     == {1, 2, 34}
Handlers    == 1..MaxHandlers

ToLinuxSignal == [s \in Enumerators |-> CASE s = "HUP" -> 1 [] s = "INT" -> 2]

TypeOK ==
    /\ signalFd \in {"none", "open", "failed"}
    /\ watching \in SUBSET Range(ToLinuxSignal)
    /\ blocked \in SUBSET Numbers /\ pending \in SUBSET Numbers
    /\ threadPc \in {"none", "run", "wait"}
    /\ handler \in Handlers \cup {0}
    /\ loopOf \in [Handlers -> Loops \cup {None}]
    /\ live \subseteq Handlers /\ deaf \subseteq Handlers
    /\ making \in Loops \cup {None}
    /\ posting \in ({"add", "stop"} \X Handlers) \cup {<<>>}
    /\ awake \in [Loops -> BOOLEAN]
    /\ functors \in [Loops -> Seq({"add", "stop"} \X Handlers)]
    /\ registered \in [Loops -> Handlers \cup {0}]
    /\ roundFunctors \in [Loops -> Nat]
    /\ roundSignal \in [Loops -> Handlers \cup {0}]
    /\ batch \in [Loops -> SUBSET Numbers]
    /\ calls \in 0..MaxCalls /\ sends \in 0..MaxSends
    /\ undefined \in BOOLEAN

Init ==
    /\ signalFd = "none" /\ watching = {} /\ blocked = {} /\ threadPc = "none"
    /\ pending = {}
    /\ handler = 0 /\ live = {} /\ deaf = {}
    /\ loopOf = [h \in Handlers |-> None]
    /\ making = None /\ posting = <<>>
    /\ awake = [l \in Loops |-> FALSE]
    /\ functors = [l \in Loops |-> <<>>]
    /\ registered = [l \in Loops |-> 0]
    /\ roundFunctors = [l \in Loops |-> 0]
    /\ roundSignal = [l \in Loops |-> 0]
    /\ batch = [l \in Loops |-> {}]
    /\ calls = 0 /\ sends = 0 /\ undefined = FALSE

-----------------------------------------------------------------------------
(***************************************************************************)
(* The watching set, the thread that follows it, and the kernel.           *)
(***************************************************************************)
\* Every signal is blocked first, also when signalfd fails afterwards; the
\* thread inherits the full mask.
EnableWatchSignal(result) ==
    /\ signalFd = "none"
    /\ signalFd' = result
    /\ blocked' = Numbers
    /\ threadPc' = IF result = "open" THEN "run" ELSE "none"
    /\ UNCHANGED <<watching, pending, handlerVars, loopVars, calls, sends, undefined>>

Notified == IF threadPc = "wait" THEN "run" ELSE threadPc

\* Fault: the thread is not told.
WatchMutantNoNotify(s) ==
    /\ signalFd = "open" /\ calls < MaxCalls
    /\ calls' = calls + 1
    /\ watching' = watching \cup {ToLinuxSignal[s]}
    /\ UNCHANGED <<signalFd, blocked, threadPc, pending, handlerVars, loopVars, sends,
                   undefined>>

Watch(s) ==
    /\ signalFd = "open" /\ calls < MaxCalls
    /\ calls' = calls + 1
    /\ watching' = watching \cup {ToLinuxSignal[s]}
    /\ threadPc' = Notified
    /\ UNCHANGED <<signalFd, blocked, pending, handlerVars, loopVars, sends, undefined>>

\* Fault: the thread is not told.
RestoreMutantNoNotify(s) ==
    /\ signalFd = "open" /\ calls < MaxCalls
    /\ calls' = calls + 1
    /\ watching' = watching \ {ToLinuxSignal[s]}
    /\ UNCHANGED <<signalFd, blocked, threadPc, pending, handlerVars, loopVars, sends,
                   undefined>>

Restore(s) ==
    /\ signalFd = "open" /\ calls < MaxCalls
    /\ calls' = calls + 1
    /\ watching' = watching \ {ToLinuxSignal[s]}
    /\ threadPc' = Notified
    /\ UNCHANGED <<signalFd, blocked, pending, handlerVars, loopVars, sends, undefined>>

\* pthread_sigmask and the wait, under one hold of m_watchSignalMutex.  A
\* pending signal that is no longer blocked gets its default action.
ThreadSetsMask ==
    /\ threadPc = "run"
    /\ blocked' = watching
    /\ pending' = pending \cap watching
    /\ threadPc' = "wait"
    /\ UNCHANGED <<signalFd, watching, handlerVars, loopVars, calls, sends, undefined>>

\* kill(): a signal nobody blocks gets its default action at once, others stay
\* pending, each once.
Send(n) ==
    /\ sends < MaxSends
    /\ sends' = sends + 1
    /\ pending' = IF n \in blocked THEN pending \cup {n} ELSE pending
    /\ UNCHANGED <<maskVars, handlerVars, loopVars, calls, undefined>>

-----------------------------------------------------------------------------
(***************************************************************************)
(* with() and the loops.                                                   *)
(***************************************************************************)
Posted(q, l, f) == [q EXCEPT ![l] = Append(@, f)]

\* The first half of addPendingFunction.
WakeUp(l, f) == posting' = f /\ awake' = [awake EXCEPT ![l] = TRUE]

\* with(): the old handler, if there is one, is stopped first.
StopSignalHandler(l) ==
    /\ making = None /\ posting = <<>>
    /\ 0 < handler /\ handler < MaxHandlers
    /\ making' = l
    /\ WakeUp(loopOf[handler], <<"stop", handler>>)
    /\ UNCHANGED <<maskVars, pending, handlerVars, functors, registered, roundFunctors,
                   roundSignal, batch, calls, sends, undefined>>

\* The new handler; its EpollEvent keeps the signalFd of this moment.
NewHandler(l) ==
    /\ handler' = handler + 1
    /\ loopOf' = [loopOf EXCEPT ![handler'] = l]
    /\ live' = live \cup {handler'}
    /\ deaf' = IF signalFd = "open" THEN deaf ELSE deaf \cup {handler'}
    /\ making' = None
    /\ WakeUp(l, <<"add", handler'>>)
    /\ UNCHANGED <<maskVars, pending, functors, registered, roundFunctors, roundSignal,
                   batch, calls, sends, undefined>>

\* Fault: the old handler need not have been stopped.
MakeSignalHandlerMutantNoStop(l) ==
    /\ posting = <<>> /\ making \in {None, l} /\ handler < MaxHandlers
    /\ NewHandler(l)

MakeSignalHandler(l) ==
    /\ posting = <<>> /\ handler < MaxHandlers
    /\ making = IF handler = 0 THEN None ELSE l
    /\ NewHandler(l)

\* The second half of addPendingFunction: a round may have read the eventfd
\* since it was written.
Push ==
    /\ posting # <<>>
    /\ functors' = Posted(functors, loopOf[posting[2]], posting)
    /\ posting' = <<>>
    /\ UNCHANGED <<maskVars, pending, handlerVars, making, awake, registered,
                   roundFunctors, roundSignal, batch, calls, sends, undefined>>

RoundOver(l) == roundFunctors[l] = 0 /\ roundSignal[l] = 0 /\ batch[l] = {}

\* The signalfd is readable while a signal of its mask is pending.  If the
\* eventfd is readable, RunInLoopHandler reads it and fetches what has been
\* pushed; functors whose eventfd was read before are not looked for.
Poll(l) ==
    LET ready == registered[l] # 0 /\ pending \cap watching # {}
    IN  /\ ~undefined /\ RoundOver(l)
        /\ ready \/ awake[l]
        /\ roundFunctors' = [roundFunctors EXCEPT
                                ![l] = IF awake[l] THEN Len(functors[l]) ELSE 0]
        /\ awake' = [awake EXCEPT ![l] = FALSE]
        /\ roundSignal' = [roundSignal EXCEPT ![l] = IF ready THEN registered[l] ELSE 0]
        /\ UNCHANGED <<maskVars, pending, handlerVars, withVars, functors, registered,
                       batch, calls, sends, undefined>>

\* The next functor of the round.  active() adds the descriptor or gives it to
\* this handler; disable() takes it out whatever handler it belongs to, and a
\* handler that was stopped is destroyed with its functor.
RunFunctor(l) ==
    LET op == Head(functors[l])[1]
        h  == Head(functors[l])[2]
    IN  /\ ~undefined /\ roundFunctors[l] > 0 /\ batch[l] = {}
        /\ functors' = [functors EXCEPT ![l] = Tail(@)]
        /\ registered' = IF h \in deaf THEN registered
                         ELSE [registered EXCEPT ![l] = IF op = "add" THEN h ELSE 0]
        /\ live' = IF op = "stop" THEN live \ {h} ELSE live
        /\ roundFunctors' = [roundFunctors EXCEPT ![l] = @ - 1]
        /\ UNCHANGED <<maskVars, pending, handler, loopOf, deaf, withVars, awake,
                       roundSignal, batch, calls, sends, undefined>>

\* handleIn: the read takes what is pending now, if anything still is.
HandleInRead(l) ==
    /\ ~undefined /\ roundSignal[l] # 0
    /\ roundSignal' = [roundSignal EXCEPT ![l] = 0]
    /\ IF roundSignal[l] \in live
       THEN /\ batch' = [batch EXCEPT ![l] = pending \cap watching]
            /\ pending' = pending \ watching
            /\ UNCHANGED undefined
       ELSE undefined' = TRUE /\ UNCHANGED <<batch, pending>>
    /\ UNCHANGED <<maskVars, handlerVars, withVars, awake, functors, registered,
                   roundFunctors, calls, sends>>

\* isWatching decides between onSignal and an error in the log: a signal that
\* was restored since the read is dropped.
HandleInSignal(l, n) ==
    /\ ~undefined /\ n \in batch[l]
    /\ batch' = [batch EXCEPT ![l] = @ \ {n}]
    /\ UNCHANGED <<maskVars, pending, handlerVars, withVars, awake, functors,
                   registered, roundFunctors, roundSignal, calls, sends, undefined>>

LoopStep(l) == \/ Poll(l) \/ RunFunctor(l) \/ HandleInRead(l)
               \/ \E n \in Numbers : HandleInSignal(l, n)

Next == \/ \E r \in {"open", "failed"} : EnableWatchSignal(r)
        \/ \E s \in Enumerators : Watch(s) \/ Restore(s)
        \/ ThreadSetsMask
        \/ \E n \in Numbers : Send(n)
        \/ \E l \in Loops : StopSignalHandler(l) \/ MakeSignalHandler(l) \/ LoopStep(l)
        \/ Push

Spec == Init /\ [][Next]_vars

\* The thread and the loops run, and a call of with() that has begun goes on to
\* its end; nobody need call anything or send a signal.
FairSpec == /\ Spec
            /\ WF_vars(ThreadSetsMask)
            /\ WF_vars(Push)
            /\ \A l \in Loops : WF_vars(making = l /\ MakeSignalHandler(l))
            /\ \A l \in Loops : WF_vars(LoopStep(l))

-----------------------------------------------------------------------------
(***************************************************************************)
(* Properties.                                                             *)
(***************************************************************************)
Hearing(l) == handler # 0 /\ handler \notin deaf /\ loopOf[handler] = l

\* Once with() has returned and its functors have run, the signalfd is
\* registered in the loop of the last handler, with that handler, and in no
\* other loop: also when both handlers live in one loop, where they share a key
\* of Epoll's map, and when the wake-up for one of them was lost and the
\* other's found it.
HandoverKeepsWatch ==
    (making = None /\ posting = <<>> /\ \A l \in Loops : functors[l] = <<>>) =>
        \A l \in Loops : registered[l] = IF Hearing(l) THEN handler ELSE 0

\* The add functor of the last handler waits in its loop, whose round has read
\* the eventfd between the write and the push (RunInLoopHandler.cpp:46-48).
WakeUpLost ==
    LET l == loopOf[handler]
    IN  /\ handler # 0 /\ ~awake[l]
        /\ \E i \in roundFunctors[l] + 1..Len(functors[l]) :
               functors[l][i] = <<"add", handler>>

\* No signal stays pending: it gets its default action or is read, whatever
\* watch, restore and with do meanwhile.  It may stay for ever in four cases
\* only: a watched signal when with() was not called, was called before
\* enableWatchSignal, or was called by a thread whose functor the loop was not
\* woken for; and every signal after signalfd failed, because all of them were
\* blocked before.
Answered ==
    \A n \in Numbers :
        (n \in pending /\ signalFd = "open") ~>
            \/ n \notin pending \/ undefined
            \/ n \in watching /\ (handler \in {0} \cup deaf \/ WakeUpLost)

\* watch() returns before any mask has changed, so for a while the default
\* action of a signal that is "taken over" (SignalWatcher.h:40) still happens,
\* and after restore() it does not yet.  That window is the thread's: it has
\* been notified and has not set its mask; afterwards every thread blocks
\* exactly what is watched, whatever calls came while it was not waiting.
MaskLagsOnlyThread ==
    signalFd = "open" /\ threadPc = "wait" => blocked = watching
=============================================================================
