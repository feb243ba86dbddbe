----------------------------- MODULE RunInLoop ------------------------------
(***************************************************************************)
(* EventLoop and RunInLoopHandler: how code on any thread gets a functor   *)
(* executed by the thread that runs the loop.                              *)
(*                                                                         *)
(* addPendingFunction is two steps (src/src/internal/handlers/             *)
(* RunInLoopHandler.cpp:44-49): the eventfd is written first, and only     *)
(* then is the functor pushed under m_functorMutex.  handleIn (26-42) is   *)
(* several: read the eventfd, which resets it to 0; swap the pending list  *)
(* out under the mutex; call the functors with the mutex released.  Every  *)
(* critical section of m_functorMutex touches only m_pendingFunctors, so a *)
(* section is one step.                                                    *)
(*                                                                         *)
(* A functor is named by the thread that handed it over and the number of  *)
(* that thread's call.  Any thread may call EventLoop::run; user code that *)
(* runs inside the loop (a functor, or the callback of another handler)    *)
(* may itself call runInLoop and may throw.                                *)
(***************************************************************************)
EXTENDS Integers, Sequences, FiniteSets

CONSTANTS Producers,    \* threads that only call runInLoop
          Runners,      \* threads that call EventLoop::run
          MaxPosts,     \* bound: runInLoop calls of one thread
          MaxThrows     \* bound: exceptions that leave the loop

ASSUME ThreadsAssumption == Producers \cap Runners = {}
ASSUME BoundsAssumption  == MaxPosts \in Nat /\ MaxThrows \in Nat

VARIABLES
    pending,        \* m_pendingFunctors
    eventfd,        \* counter of m_wakeUpFd
    loopRunning,    \* m_loopRunning
    pc,             \* where a runner is in start() and in the handler it called
    active,         \* a runner's activeChannels not handled yet
    batch,          \* a runner's local `functors`, what is left of it
    posting,        \* threads between eventfd_write and the push
    posted,         \* runInLoop calls a thread has completed
    ran,            \* history: functors called, in calling order
    dropped,        \* history: functors destroyed uncalled by an exception
    throws          \* exceptions that left the loop so far

vars == <<pending, eventfd, loopRunning, pc, active, batch, posting, posted,
          ran, dropped, throws>>

Threads  == Producers \cup Runners
Functors == Threads \X (1..MaxPosts)
Channels == {"wakeUp", "other"}    \* the eventfd's EpollEvent and any other one
InUser   == {"functor", "callback"}
InLoop   == {"poll", "dispatch", "read", "swap", "call", "unwind"} \cup InUser

TypeOK ==
    /\ pending \in Seq(Functors)
    /\ eventfd \in Nat
    /\ loopRunning \in BOOLEAN
    /\ pc \in [Runners -> InLoop \cup {"out"}]
    /\ active \in [Runners -> SUBSET Channels]
    /\ batch \in [Runners -> Seq(Functors)]
    /\ posting \in SUBSET Threads
    /\ posted \in [Threads -> 0..MaxPosts]
    /\ ran \in Seq(Functors)
    /\ dropped \in SUBSET Functors
    /\ throws \in 0..MaxThrows

Init ==
    /\ pending = <<>>
    /\ eventfd = 0
    /\ loopRunning = FALSE
    /\ pc = [r \in Runners |-> "out"]
    /\ active = [r \in Runners |-> {}]
    /\ batch = [r \in Runners |-> <<>>]
    /\ posting = {}
    /\ posted = [t \in Threads |-> 0]
    /\ ran = <<>>
    /\ dropped = {}
    /\ throws = 0

(***************************************************************************)
(* addPendingFunction, called by thread t.                                 *)
(***************************************************************************)
\* A runner calls runInLoop only from user code: outside the loop it may be
\* regarded as a producer, inside library code it never does.
MayPost(t) == /\ posted[t] < MaxPosts
              /\ t \in Runners => pc[t] \in InUser

AddPendingWake(t) ==
    /\ MayPost(t)
    /\ t \notin posting
    /\ eventfd' = eventfd + 1
    /\ posting' = posting \cup {t}
    /\ UNCHANGED <<pending, loopRunning, pc, active, batch, posted, ran,
                   dropped, throws>>

\* Faulty variants of a definition carry the suffix Mutant...; no specification
\* uses them, they show which property notices the fault.

\* Fault: the push is repeated after it has succeeded.
AddPendingPushMutantRepeats(t) ==
    /\ t \in posting
    /\ pending' = Append(pending, <<t, posted[t] + 1>>)
    /\ posted' = [posted EXCEPT ![t] = @ + 1]
    /\ UNCHANGED <<eventfd, loopRunning, pc, active, batch, posting, ran,
                   dropped, throws>>

\* Fault: the push is not under the mutex and can overwrite another one.
AddPendingPushMutantUnlocked(t) ==
    /\ t \in posting
    /\ \E q \in {pending, <<>>} : pending' = Append(q, <<t, posted[t] + 1>>)
    /\ posted' = [posted EXCEPT ![t] = @ + 1]
    /\ posting' = posting \ {t}
    /\ UNCHANGED <<eventfd, loopRunning, pc, active, batch, ran, dropped,
                   throws>>

AddPendingPush(t) ==
    /\ t \in posting
    /\ pending' = Append(pending, <<t, posted[t] + 1>>)
    /\ posted' = [posted EXCEPT ![t] = @ + 1]
    /\ posting' = posting \ {t}
    /\ UNCHANGED <<eventfd, loopRunning, pc, active, batch, ran, dropped,
                   throws>>

(***************************************************************************)
(* EventLoopImpl::start, on thread r.                                      *)
(***************************************************************************)
\* Fault: the flag is set but its old value is not looked at.
StartMutantNoTest(r) ==
    /\ pc[r] = "out"
    /\ loopRunning' = TRUE
    /\ pc' = [pc EXCEPT ![r] = "poll"]
    /\ UNCHANGED <<pending, eventfd, active, batch, posting, posted, ran,
                   dropped, throws>>

\* A call that finds the flag set returns and changes nothing.
Start(r) ==
    /\ pc[r] = "out"
    /\ ~loopRunning
    /\ loopRunning' = TRUE
    /\ pc' = [pc EXCEPT ![r] = "poll"]
    /\ UNCHANGED <<pending, eventfd, active, batch, posting, posted, ran,
                   dropped, throws>>

\* epoll_wait is level triggered: the eventfd is reported exactly when its
\* counter is not 0; whether another descriptor is ready is up to the network.
Poll(r) ==
    /\ pc[r] = "poll"
    /\ \E s \in SUBSET Channels \ {{}} :
          /\ "wakeUp" \in s <=> eventfd > 0
          /\ active' = [active EXCEPT ![r] = s]
    /\ pc' = [pc EXCEPT ![r] = "dispatch"]
    /\ UNCHANGED <<pending, eventfd, loopRunning, batch, posting, posted, ran,
                   dropped, throws>>

\* The handleEvents loop, in whatever order epoll_wait listed the channels.
Dispatch(r) ==
    /\ pc[r] = "dispatch"
    /\ \/ \E c \in active[r] :
             /\ active' = [active EXCEPT ![r] = @ \ {c}]
             /\ pc' = [pc EXCEPT ![r] =
                         IF c = "wakeUp" THEN "read" ELSE "callback"]
       \/ /\ active[r] = {}
          /\ pc' = [pc EXCEPT ![r] = "poll"]
          /\ UNCHANGED active
    /\ UNCHANGED <<pending, eventfd, loopRunning, batch, posting, posted, ran,
                   dropped, throws>>

\* The callback of the other handler returns.
CallbackReturns(r) ==
    /\ pc[r] = "callback"
    /\ r \notin posting
    /\ pc' = [pc EXCEPT ![r] = "dispatch"]
    /\ UNCHANGED <<pending, eventfd, loopRunning, active, batch, posting,
                   posted, ran, dropped, throws>>

(***************************************************************************)
(* RunInLoopHandler::handleIn, on thread r.                                *)
(***************************************************************************)
HandleInRead(r) ==
    /\ pc[r] = "read"
    /\ eventfd' = 0
    /\ pc' = [pc EXCEPT ![r] = "swap"]
    /\ UNCHANGED <<pending, loopRunning, active, batch, posting, posted, ran,
                   dropped, throws>>

\* Fault: the list is copied and not cleared.
HandleInSwapMutantNoClear(r) ==
    /\ pc[r] = "swap"
    /\ batch' = [batch EXCEPT ![r] = pending]
    /\ pc' = [pc EXCEPT ![r] = "call"]
    /\ UNCHANGED <<pending, eventfd, loopRunning, active, posting, posted, ran,
                   dropped, throws>>

HandleInSwap(r) ==
    /\ pc[r] = "swap"
    /\ batch' = [batch EXCEPT ![r] = pending]
    /\ pending' = <<>>
    /\ pc' = [pc EXCEPT ![r] = "call"]
    /\ UNCHANGED <<eventfd, loopRunning, active, posting, posted, ran, dropped,
                   throws>>

\* Fault: the batch is called from its end.
HandleInCallMutantLifo(r) ==
    /\ pc[r] = "call"
    /\ batch[r] # <<>>
    /\ ran' = Append(ran, batch[r][Len(batch[r])])
    /\ batch' = [batch EXCEPT ![r] = SubSeq(@, 1, Len(@) - 1)]
    /\ pc' = [pc EXCEPT ![r] = "functor"]
    /\ UNCHANGED <<pending, eventfd, loopRunning, active, posting, posted,
                   dropped, throws>>

HandleInCall(r) ==
    /\ pc[r] = "call"
    /\ batch[r] # <<>>
    /\ ran' = Append(ran, Head(batch[r]))
    /\ batch' = [batch EXCEPT ![r] = Tail(@)]
    /\ pc' = [pc EXCEPT ![r] = "functor"]
    /\ UNCHANGED <<pending, eventfd, loopRunning, active, posting, posted,
                   dropped, throws>>

FunctorReturns(r) ==
    /\ pc[r] = "functor"
    /\ r \notin posting
    /\ pc' = [pc EXCEPT ![r] = "call"]
    /\ UNCHANGED <<pending, eventfd, loopRunning, active, batch, posting,
                   posted, ran, dropped, throws>>

\* Fault: the eventfd is read after the functors were called, not before.
HandleInReturnMutantLateRead(r) ==
    /\ pc[r] = "call"
    /\ batch[r] = <<>>
    /\ eventfd' = 0
    /\ pc' = [pc EXCEPT ![r] = "dispatch"]
    /\ UNCHANGED <<pending, loopRunning, active, batch, posting, posted, ran,
                   dropped, throws>>

HandleInReturn(r) ==
    /\ pc[r] = "call"
    /\ batch[r] = <<>>
    /\ pc' = [pc EXCEPT ![r] = "dispatch"]
    /\ UNCHANGED <<pending, eventfd, loopRunning, active, batch, posting,
                   posted, ran, dropped, throws>>

(***************************************************************************)
(* An exception from user code leaves handleIn and start(): unwinding      *)
(* destroys the local `functors` and `activeChannels`, and the catch       *)
(* clears the flag and rethrows to the caller of run().                    *)
(***************************************************************************)
SeqRange(s) == {s[i] : i \in 1..Len(s)}

\* Fault: the batch is a member and survives the exception.
UserThrowsMutantKeepsBatch(r) ==
    /\ pc[r] \in InUser
    /\ r \notin posting
    /\ throws < MaxThrows
    /\ throws' = throws + 1
    /\ dropped' = dropped \cup SeqRange(batch[r])
    /\ active' = [active EXCEPT ![r] = {}]
    /\ pc' = [pc EXCEPT ![r] = "unwind"]
    /\ UNCHANGED <<pending, eventfd, loopRunning, batch, posting, posted, ran>>

UserThrows(r) ==
    /\ pc[r] \in InUser
    /\ r \notin posting
    /\ throws < MaxThrows
    /\ throws' = throws + 1
    /\ dropped' = dropped \cup SeqRange(batch[r])
    /\ batch' = [batch EXCEPT ![r] = <<>>]
    /\ active' = [active EXCEPT ![r] = {}]
    /\ pc' = [pc EXCEPT ![r] = "unwind"]
    /\ UNCHANGED <<pending, eventfd, loopRunning, posting, posted, ran>>

StartCatch(r) ==
    /\ pc[r] = "unwind"
    /\ loopRunning' = FALSE
    /\ pc' = [pc EXCEPT ![r] = "out"]
    /\ UNCHANGED <<pending, eventfd, active, batch, posting, posted, ran,
                   dropped, throws>>

-----------------------------------------------------------------------------
LoopStep(r) == \/ Poll(r)
               \/ Dispatch(r)
               \/ CallbackReturns(r)
               \/ HandleInRead(r)
               \/ HandleInSwap(r)
               \/ HandleInCall(r)
               \/ FunctorReturns(r)
               \/ HandleInReturn(r)
               \/ StartCatch(r)

Next == \/ \E t \in Threads : AddPendingWake(t) \/ AddPendingPush(t)
        \/ \E r \in Runners : Start(r) \/ LoopStep(r) \/ UserThrows(r)

Spec == Init /\ [][Next]_vars

\* A thread inside addPendingFunction holds no other lock and is never blocked
\* for good; a thread inside the loop keeps executing, and user code returns.
\* epoll_wait must return when the eventfd is readable; nothing is assumed of
\* other descriptors, nor of callers: run() and runInLoop() need never be called.
Fairness == /\ \A t \in Threads : WF_vars(AddPendingPush(t))
            /\ \A r \in Runners : WF_vars(LoopStep(r) /\ (pc[r] = "poll" => eventfd > 0))

FairSpec == Spec /\ Fairness

-----------------------------------------------------------------------------
(***************************************************************************)
(* Properties.                                                             *)
(***************************************************************************)
\* EventLoop::run ("one loop per thread"): the test_and_set in start() and the
\* clear in its catch let at most one thread at a time be inside the loop, a
\* restart after an exception included; so handlers and functors never run
\* concurrently.
OneLoopThread ==
    \A r, s \in Runners : pc[r] # "out" /\ pc[s] # "out" => r = s

\* The functors not called yet, oldest first: what is left of the batch
\* handleIn swapped out, then m_pendingFunctors.
Fetched ==
    IF \E r \in Runners : batch[r] # <<>>
    THEN batch[CHOOSE r \in Runners : batch[r] # <<>>]
    ELSE <<>>

Waiting == Fetched \o pending

\* Everything runInLoop accepted and no exception destroyed.
Line == ran \o Waiting

\* runInLoop keeps a thread's order: in the order of calling, past and future,
\* a functor stands after every functor the same thread handed over earlier,
\* and none stands there twice.
PostOrderKept ==
    \A i, j \in 1..Len(Line) :
        i < j /\ Line[i][1] = Line[j][1] => Line[i][2] < Line[j][2]

\* No accepted functor is lost: each one was called, still waits, or was
\* destroyed because user code threw while it was in the same batch.
NothingLost ==
    \A t \in Threads : \A n \in 1..posted[t] :
        \/ <<t, n>> \in dropped
        \/ \E i \in 1..Len(Line) : Line[i] = <<t, n>>

\* A functor that an exception destroyed is gone: no later run() of the loop
\* calls it.
DroppedNeverRuns == SeqRange(Line) \cap dropped = {}

\* The detailed handler implements the abstract queue.
Queue == INSTANCE FunctorQueue WITH queue <- Waiting, ran <- ran
QueueSpec == Queue!ASpec

\* User code that runs inside the loop never needs another wake-up than its
\* own: whatever it hands over is called, unless an exception stops the loop.
LoopPostsRun ==
    \A r \in Runners, n \in 1..MaxPosts :
        (posted[r] >= n) ~>
            (\/ <<r, n>> \in SeqRange(ran)
             \/ throws > 0)

\* include/EventLoop.h and RunInLoopHandler.h:33 promise that a functor handed
\* over by any thread is run and that the loop is woken up for it: while a
\* thread stays in the loop, an accepted functor is eventually called.
PostsRun ==
    \A t \in Producers, n \in 1..MaxPosts :
        (posted[t] >= n /\ loopRunning) ~>
            (\/ <<t, n>> \in SeqRange(ran)
             \/ throws > 0)
=============================================================================
