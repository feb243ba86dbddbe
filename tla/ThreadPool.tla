----------------------------- MODULE ThreadPool -----------------------------
(***************************************************************************)
(* support::ThreadPool with its ThreadSafeQueue: a user hands tasks over   *)
(* with run(), a running task may hand over more, worker threads take and  *)
(* run them, and the owner of the pool starts it, waits for it with        *)
(* waitForDone(0) and destroys it.  Every atomic counter access, every     *)
(* queue operation under the queue's mutex and every condition variable    *)
(* call is a step of its own.                                              *)
(***************************************************************************)
EXTENDS Integers, Sequences, FiniteSets, Functions

CONSTANTS MaxTasks,     \* bound: calls of run()
          Workers,      \* the threads start() makes, threadNumber of them
          User,         \* the thread that calls run()
          None          \* no task, no thread

ASSUME CallersAssumption == User \notin Workers
ASSUME WorkersAssumption == IsFiniteSet(Workers)
ASSUME TasksAssumption == MaxTasks \in Nat

\* Tasks are numbered in the order of the calls.
Tasks == 1..MaxTasks

ASSUME NoneAssumption == None \notin Tasks \cup Workers \cup {User}

VARIABLES
    quit,           \* m_quit
    activeThreads,  \* m_activeThreads
    taskCount,      \* taskCount
    workQueue,      \* workQueue
    added,          \* how far addTask has come with each task
    caller,         \* the thread that called run() with each task
    pc,             \* where each worker is
    running,        \* the task each worker has taken
    ownerPc,        \* where the owner is
    waitedFor,      \* tasks counted when the owner called waitForDone
    finished        \* tasks that have returned

vars == <<quit, activeThreads, taskCount, workQueue, added, caller, pc, running,
          ownerPc, waitedFor, finished>>

poolVars == <<quit, activeThreads, taskCount, workQueue>>
taskVars == <<added, caller>>
ownerVars == <<ownerPc, waitedFor>>

Callers == Workers \cup {User}

TypeOK ==
    /\ quit \in BOOLEAN
    /\ activeThreads \in 0..Cardinality(Workers)
    /\ taskCount \in 0..Cardinality(Tasks)
    /\ workQueue \in Seq(Tasks)
    /\ added \in [Tasks -> {"new", "counted", "pushed", "returned"}]
    /\ caller \in [Tasks -> Callers \cup {None}]
    /\ pc \in [Workers -> {"unborn", "loop", "test", "empty", "wait", "pop",
                           "taken", "counted", "task", "returned", "exited"}]
    /\ running \in [Workers -> Tasks \cup {None}]
    /\ ownerPc \in {"made", "starting", "failed", "failedQuit", "idle",
                    "waitCount", "waitActive", "waited", "notify", "join",
                    "destroyed"}
    /\ waitedFor \subseteq Tasks /\ finished \subseteq Tasks

Init ==
    /\ quit = FALSE /\ activeThreads = 0 /\ taskCount = 0 /\ workQueue = <<>>
    /\ added = [t \in Tasks |-> "new"]
    /\ caller = [t \in Tasks |-> None]
    /\ pc = [w \in Workers |-> "unborn"]
    /\ running = [w \in Workers |-> None]
    /\ ownerPc = "made" /\ waitedFor = {} /\ finished = {}

Destroying == ownerPc \in {"notify", "join", "destroyed"}

-----------------------------------------------------------------------------
(***************************************************************************)
(* run() and addTask.                                                      *)
(***************************************************************************)
\* The user may not call into a pool that is being destroyed; a running task
\* still may, its worker has not been joined.
MayAdd(c) ==
    /\ IF c = User THEN ~Destroying ELSE pc[c] = "task"
    /\ \A t \in Tasks : caller[t] = c => added[t] \in {"new", "returned"}

AddTaskCount(c, t) ==
    /\ MayAdd(c)
    /\ added[t] = "new" /\ \A u \in 1..(t - 1) : added[u] # "new"
    /\ caller' = [caller EXCEPT ![t] = c]
    /\ added' = [added EXCEPT ![t] = "counted"]
    /\ taskCount' = taskCount + 1
    /\ UNCHANGED <<quit, activeThreads, workQueue, pc, running, ownerVars, finished>>

AddTaskPush(t) ==
    /\ added[t] = "counted"
    /\ added' = [added EXCEPT ![t] = "pushed"]
    /\ workQueue' = Append(workQueue, t)
    /\ UNCHANGED <<quit, activeThreads, taskCount, caller, pc, running, ownerVars,
                   finished>>

\* notify_one: some waiting worker goes on, if one waits.
AddTaskNotify(t) ==
    /\ added[t] = "pushed"
    /\ added' = [added EXCEPT ![t] = "returned"]
    /\ \/ \E w \in Workers : /\ pc[w] = "wait"
                             /\ pc' = [pc EXCEPT ![w] = "pop"]
       \/ (\A w \in Workers : pc[w] # "wait") /\ UNCHANGED pc
    /\ UNCHANGED <<poolVars, caller, running, ownerVars, finished>>

-----------------------------------------------------------------------------
(***************************************************************************)
(* workerThread and runTask.                                               *)
(***************************************************************************)
Goto(w, from, to) == pc[w] = from /\ pc' = [pc EXCEPT ![w] = to]

WorkerLoop(w) ==
    /\ Goto(w, "loop", IF quit THEN "exited" ELSE "test")
    /\ UNCHANGED <<poolVars, taskVars, running, ownerVars, finished>>

WorkerTest(w) ==
    /\ Goto(w, "test", IF workQueue = <<>> THEN "empty" ELSE "pop")
    /\ UNCHANGED <<poolVars, taskVars, running, ownerVars, finished>>

\* A notification that came after the test and before this step is lost.
WorkerWaits(w) ==
    /\ Goto(w, "empty", "wait")
    /\ UNCHANGED <<poolVars, taskVars, running, ownerVars, finished>>

\* Fault: wait instead of wait_for, so that only a notification ends it.
WaitTimesOutMutantWait(w) == FALSE

\* The 500 microseconds of wait_for are over.
WaitTimesOut(w) ==
    /\ Goto(w, "wait", "pop")
    /\ UNCHANGED <<poolVars, taskVars, running, ownerVars, finished>>

\* Fault: the popped task is left in the queue.
TryPopMutantKeeps(w) ==
    /\ Goto(w, "pop", IF workQueue = <<>> THEN "loop" ELSE "taken")
    /\ IF workQueue = <<>> THEN UNCHANGED running
       ELSE running' = [running EXCEPT ![w] = Head(workQueue)]
    /\ UNCHANGED <<poolVars, taskVars, ownerVars, finished>>

TryPop(w) ==
    /\ Goto(w, "pop", IF workQueue = <<>> THEN "loop" ELSE "taken")
    /\ IF workQueue = <<>>
       THEN UNCHANGED <<workQueue, running>>
       ELSE /\ running' = [running EXCEPT ![w] = Head(workQueue)]
            /\ workQueue' = Tail(workQueue)
    /\ UNCHANGED <<quit, activeThreads, taskCount, taskVars, ownerVars, finished>>

Activate(w, from, to) ==
    /\ Goto(w, from, to)
    /\ activeThreads' = activeThreads + 1
    /\ UNCHANGED <<quit, taskCount, workQueue, taskVars, running, ownerVars,
                   finished>>

Uncount(w, from, to) ==
    /\ Goto(w, from, to)
    /\ taskCount' = taskCount - 1
    /\ UNCHANGED <<quit, activeThreads, workQueue, taskVars, running, ownerVars,
                   finished>>

\* Fault: the task leaves taskCount before its thread is counted as active.
CountTaskMutantSwapped(w) == \/ Uncount(w, "taken", "counted")
                             \/ Activate(w, "counted", "task")

CountTask(w) == \/ Activate(w, "taken", "counted")
                \/ Uncount(w, "counted", "task")

\* The task returns, or throws into the future of its packaged_task.
TaskReturns(w) ==
    /\ MayAdd(w)
    /\ Goto(w, "task", "returned")
    /\ finished' = finished \cup {running[w]}
    /\ UNCHANGED <<poolVars, taskVars, running, ownerVars>>

TaskInactive(w) ==
    /\ Goto(w, "returned", "loop")
    /\ running' = [running EXCEPT ![w] = None]
    /\ activeThreads' = activeThreads - 1
    /\ UNCHANGED <<quit, taskCount, workQueue, taskVars, ownerVars, finished>>

WorkerStep(w) == \/ WorkerLoop(w) \/ WorkerTest(w) \/ WorkerWaits(w)
                 \/ WaitTimesOut(w) \/ TryPop(w) \/ CountTask(w)
                 \/ TaskReturns(w) \/ TaskInactive(w)

-----------------------------------------------------------------------------
(***************************************************************************)
(* The owner: start, waitForDone(0) and the destructor.                    *)
(***************************************************************************)
OwnerGoto(from, to) == ownerPc = from /\ ownerPc' = to

StartThread(w) ==
    /\ ownerPc \in {"made", "starting", "waited"} /\ ownerPc' = "starting"
    /\ Goto(w, "unborn", "loop")
    /\ UNCHANGED <<poolVars, taskVars, running, waitedFor, finished>>

StartReturns ==
    /\ OwnerGoto("starting", "idle")
    /\ \A w \in Workers : pc[w] # "unborn"
    /\ UNCHANGED <<poolVars, taskVars, pc, running, waitedFor, finished>>

Woken == [w \in Workers |-> IF pc[w] = "wait" THEN "pop" ELSE pc[w]]

\* std::thread throws: notify_all, then m_quit, and start() returns false.
StartFails ==
    /\ ownerPc \in {"made", "starting", "waited"}
    /\ \E w \in Workers : pc[w] = "unborn"
    /\ ownerPc' = "failed"
    /\ pc' = Woken
    /\ UNCHANGED <<poolVars, taskVars, running, waitedFor, finished>>

StartFailsQuit ==
    /\ OwnerGoto("failed", "failedQuit")
    /\ quit' = TRUE
    /\ UNCHANGED <<activeThreads, taskCount, workQueue, taskVars, pc, running,
                   waitedFor, finished>>

OwnerFree == ownerPc \in {"made", "idle", "waited", "failedQuit"}

WaitForDone ==
    /\ OwnerFree
    /\ ownerPc' = "waitCount"
    /\ waitedFor' = {t \in Tasks : added[t] # "new"}
    /\ UNCHANGED <<poolVars, taskVars, pc, running, finished>>

WaitReadsCount ==
    /\ OwnerGoto("waitCount", "waitActive")
    /\ taskCount = 0
    /\ UNCHANGED <<poolVars, taskVars, pc, running, waitedFor, finished>>

WaitReadsActive ==
    /\ OwnerGoto("waitActive", IF activeThreads = 0 THEN "waited" ELSE "waitCount")
    /\ UNCHANGED <<poolVars, taskVars, pc, running, waitedFor, finished>>

\* The destructor, once the user's calls have returned: notify_all comes first.
DestroyNotify ==
    /\ OwnerFree
    /\ \A t \in Tasks : caller[t] = User => added[t] = "returned"
    /\ ownerPc' = "notify"
    /\ pc' = Woken
    /\ UNCHANGED <<poolVars, taskVars, running, waitedFor, finished>>

DestroyQuit ==
    /\ OwnerGoto("notify", "join")
    /\ quit' = TRUE
    /\ UNCHANGED <<activeThreads, taskCount, workQueue, taskVars, pc, running,
                   waitedFor, finished>>

DestroyJoined ==
    /\ OwnerGoto("join", "destroyed")
    /\ \A w \in Workers : pc[w] \in {"unborn", "exited"}
    /\ UNCHANGED <<poolVars, taskVars, pc, running, waitedFor, finished>>

OwnerStep == \/ \E w \in Workers : StartThread(w)
             \/ StartReturns \/ StartFails \/ StartFailsQuit
             \/ WaitForDone \/ WaitReadsCount \/ WaitReadsActive
             \/ DestroyNotify \/ DestroyQuit \/ DestroyJoined

Next == \/ \E t \in Tasks : \/ \E c \in Callers : AddTaskCount(c, t)
                            \/ AddTaskPush(t) \/ AddTaskNotify(t)
        \/ \E w \in Workers : WorkerStep(w)
        \/ OwnerStep

Spec == Init /\ [][Next]_vars

\* Threads are scheduled and tasks return; whether the user adds a task and
\* whether the owner starts, waits or destroys is up to them.
Fairness ==
    /\ \A w \in Workers : WF_vars(WorkerStep(w))
    /\ \A t \in Tasks : WF_vars(AddTaskPush(t) \/ AddTaskNotify(t))
    /\ WF_vars(DestroyQuit \/ DestroyJoined \/ StartFailsQuit)

FairSpec == Spec /\ Fairness

-----------------------------------------------------------------------------
(***************************************************************************)
(* Properties.                                                             *)
(***************************************************************************)
\* waitForDone(0) returns only when every task added before the call has
\* returned, although taskCount and m_activeThreads are read one after the
\* other and a task moves from one counter to the other meanwhile.
WaitedTasksDone == ownerPc = "waited" => waitedFor \subseteq finished

Pending  == {t \in Tasks : added[t] = "counted"} \cup Range(workQueue)
                \cup {running[w] : w \in {v \in Workers : pc[v] \in {"taken", "counted"}}}

\* Whatever the interleaving, taskCount counts exactly the tasks that have been
\* counted and not begun, m_activeThreads the threads between their ++ and
\* their --, no task is in two places, and none is taken again once finished.
EachTaskOnce ==
    /\ taskCount = Cardinality(Pending)
    /\ activeThreads = Cardinality({w \in Workers :
                                        pc[w] \in {"counted", "task", "returned"}})
    /\ IsInjective(workQueue)
    /\ Pending \cap finished = {}
    /\ \A v, w \in Workers : v # w /\ running[v] # None => running[v] # running[w]
    /\ \A w \in Workers : running[w] \notin Range(workQueue)

\* ThreadPool.cpp:50: a worker that misses the notification still leaves, so
\* the destructor's joins end although it notifies before it sets m_quit.
DestructorEnds == (ownerPc = "notify") ~> (ownerPc = "destroyed")

\* Every task handed over is run once start() has made a thread, unless the
\* pool is destroyed or start() fails first; before start() it may wait for
\* ever, and waitForDone(0) with it.
TasksRun ==
    \A t \in Tasks :
        (added[t] = "returned" /\ \E w \in Workers : pc[w] # "unborn") ~>
            (t \in finished \/ quit)
=============================================================================
