-------------------------- MODULE ThreadPoolProofs --------------------------
(***************************************************************************)
(* Proofs about ThreadPool for any number of tasks and any finite set of   *)
(* workers: where each task is, what the two counters count, and what      *)
(* waitForDone promises.                                                   *)
(***************************************************************************)
EXTENDS ThreadPool, SequenceTheorems, FiniteSetTheorems, TLAPS

\* The worker has a task in hand.
Busy == {"taken", "counted", "task", "returned"}

\* The types without the counters, whose ranges follow from what they count.
Types ==
    /\ quit \in BOOLEAN
    /\ workQueue \in Seq(Tasks)
    /\ added \in [Tasks -> {"new", "counted", "pushed", "returned"}]
    /\ caller \in [Tasks -> Callers \cup {None}]
    /\ pc \in [Workers -> {"unborn", "loop", "test", "empty", "wait", "pop",
                           "taken", "counted", "task", "returned", "exited"}]
    /\ running \in [Workers -> Tasks \cup {None}]
    /\ ownerPc \in {"made", "starting", "failed", "failedQuit", "idle",
                    "waitCount", "waitActive", "waited", "notify", "join",
                    "destroyed"}
    /\ waitedFor \subseteq Tasks /\ finished \subseteq Tasks

RunningIffBusy == \A w \in Workers : running[w] # None <=> pc[w] \in Busy

\* A task that was pushed is in the queue, in a worker's hands or finished, and
\* no other task is.
Placed(t) == \/ t \in Range(workQueue) \/ t \in finished
             \/ \E w \in Workers : running[w] = t
PlacedIffPushed == \A t \in Tasks : Placed(t) <=> added[t] \in {"pushed", "returned"}

\* The places exclude each other, and a worker whose task has returned knows it
\* finished.
OnePlace ==
    /\ IsInjective(workQueue)
    /\ Range(workQueue) \cap finished = {}
    /\ \A v, w \in Workers : v # w /\ running[v] # None => running[v] # running[w]
    /\ \A w \in Workers : running[w] \notin Range(workQueue)
    /\ \A w \in Workers : pc[w] \in {"taken", "counted"} => running[w] \notin finished
    /\ \A w \in Workers : pc[w] = "returned" => running[w] \in finished

Places == RunningIffBusy /\ PlacedIffPushed /\ OnePlace

Active == {w \in Workers : pc[w] \in {"counted", "task", "returned"}}

Counters == taskCount = Cardinality(Pending) /\ activeThreads = Cardinality(Active)

\* Between the two reads of waitForDone every task it waits for has left
\* taskCount: it has finished or its worker is counted as active.
WaitInv ==
    /\ \A t \in waitedFor : added[t] # "new"
    /\ ownerPc = "waitActive" =>
          \A t \in waitedFor : t \in finished \/ \E w \in Workers : pc[w] = "task" /\ running[w] = t
    /\ WaitedTasksDone

PoolInv == Types /\ Places /\ Counters /\ WaitInv

\* Steps that move no task: workers without one change place, addTask returns,
\* and the owner goes on.
NoTaskMoves ==
    /\ UNCHANGED <<activeThreads, taskCount, workQueue, running, finished>>
    /\ \A w \in Workers : pc[w] \in Busy \/ pc'[w] \in Busy => pc'[w] = pc[w]
    /\ \A t \in Tasks : \/ added'[t] = added[t]
                        \/ (added[t] = "pushed" /\ added'[t] = "returned")

USE CallersAssumption, WorkersAssumption, TasksAssumption, NoneAssumption

(***************************************************************************)
(* Ranges of sequences.                                                    *)
(***************************************************************************)
LEMMA AppendRange ==
  ASSUME NEW q \in Seq(Tasks), NEW t \in Tasks
  PROVE  /\ Range(Append(q, t)) = Range(q) \cup {t}
         /\ IsInjective(q) /\ t \notin Range(q) => IsInjective(Append(q, t))
  <1> DEFINE r == Append(q, t)
  <1>1. /\ r \in Seq(Tasks) /\ Len(r) = Len(q) + 1 /\ Len(q) \in Nat
        /\ \A i \in 1..Len(q) : r[i] = q[i]
        /\ r[Len(q) + 1] = t
    BY AppendProperties, LenProperties
  <1>2. DOMAIN r = 1..(Len(q) + 1) /\ DOMAIN q = 1..Len(q)
    BY <1>1, LenProperties
  <1> HIDE DEF r
  <1>3. Range(r) = Range(q) \cup {t}
    BY <1>1, <1>2 DEF Range
  <1>4. IsInjective(q) /\ t \notin Range(q) => IsInjective(r)
    BY <1>1, <1>2 DEF Range, IsInjective
  <1> QED
    BY <1>3, <1>4 DEF r

\* Popping a queue without duplicates removes its head.
LEMMA TailRange ==
  ASSUME NEW q \in Seq(Tasks), q # <<>>
  PROVE  /\ Head(q) \in Tasks /\ Tail(q) \in Seq(Tasks)
         /\ Range(q) = Range(Tail(q)) \cup {Head(q)}
         /\ IsInjective(q) => IsInjective(Tail(q)) /\ Head(q) \notin Range(Tail(q))
  <1> DEFINE r == Tail(q)
  <1>1. /\ r \in Seq(Tasks) /\ Len(r) = Len(q) - 1 /\ Len(q) \in Nat \ {0}
        /\ \A i \in 1..Len(r) : r[i] = q[i + 1]
        /\ Head(q) \in Tasks /\ Head(q) = q[1]
    BY HeadTailProperties, LenProperties, EmptySeq
  <1>2. DOMAIN r = 1..(Len(q) - 1) /\ DOMAIN q = 1..Len(q)
    BY <1>1, LenProperties
  <1> HIDE DEF r
  <1>3. ASSUME NEW i \in 1..Len(q), i # 1 PROVE i - 1 \in DOMAIN r /\ r[i - 1] = q[i]
    BY <1>1, <1>2, <1>3
  <1>4. Range(q) = Range(r) \cup {Head(q)}
    <2>1. ASSUME NEW x \in Range(q) PROVE x \in Range(r) \cup {Head(q)}
      <3>1. PICK i \in 1..Len(q) : x = q[i]
        BY <1>2 DEF Range
      <3> QED
        BY <1>1, <1>3, <3>1 DEF Range
    <2>2. ASSUME NEW x \in Range(r) PROVE x \in Range(q)
      <3>1. PICK i \in 1..(Len(q) - 1) : x = r[i]
        BY <1>2 DEF Range
      <3>2. i + 1 \in 1..Len(q) /\ x = q[i + 1]
        BY <1>1, <3>1
      <3> QED
        BY <1>2, <3>2 DEF Range
    <2>3. Head(q) \in Range(q)
      BY <1>1, <1>2 DEF Range
    <2> QED
      BY <2>1, <2>2, <2>3
  <1>5. ASSUME IsInjective(q) PROVE IsInjective(r) /\ Head(q) \notin Range(r)
    <2>1. ASSUME NEW i \in 1..(Len(q) - 1)
          PROVE  i + 1 \in 1..Len(q) /\ r[i] = q[i + 1] /\ i + 1 # 1
      BY <1>1
    <2>2. ASSUME NEW i \in 1..(Len(q) - 1), NEW j \in 1..(Len(q) - 1), r[i] = r[j]
          PROVE  i = j
      <3>1. i + 1 = j + 1
        BY <1>2, <1>5, <2>1, <2>2 DEF IsInjective
      <3> QED
        BY <3>1
    <2>3. ASSUME NEW i \in 1..(Len(q) - 1) PROVE r[i] # Head(q)
      BY <1>1, <1>2, <1>5, <2>1 DEF IsInjective
    <2> QED
      BY <1>2, <2>2, <2>3 DEF Range, IsInjective
  <1> QED
    BY <1>1, <1>4, <1>5 DEF r

\* The empty queue.
LEMMA EmptyRange == Range(<<>>) = {} /\ IsInjective(<<>>)
  BY DEF Range, IsInjective

(***************************************************************************)
(* Types.                                                                  *)
(***************************************************************************)
LEMMA TypesInit == Init => Types
  <1> SUFFICES ASSUME Init PROVE Types
    OBVIOUS
  <1>1. workQueue \in Seq(Tasks)
    BY EmptySeq DEF Init
  <1> QED
    BY <1>1 DEF Init, Types

\* notify leaves every worker in a place of its loop.
LEMMA WokenType ==
  ASSUME Types
  PROVE  Woken \in [Workers -> {"unborn", "loop", "test", "empty", "wait", "pop",
                                "taken", "counted", "task", "returned", "exited"}]
  BY DEF Types, Woken

\* Every step keeps the types.
LEMMA TypesStep == Types /\ RunningIffBusy /\ [Next]_vars => Types'
  <1> SUFFICES ASSUME Types, RunningIffBusy, [Next]_vars PROVE Types'
    OBVIOUS
  <1> USE DEF Types, poolVars, taskVars, ownerVars, Goto, OwnerGoto
  <1>1. ASSUME NEW t \in Tasks, NEW c \in Callers, AddTaskCount(c, t) PROVE Types'
    BY <1>1 DEF AddTaskCount
  <1>2. ASSUME NEW t \in Tasks, AddTaskPush(t) PROVE Types'
    <2>1. workQueue' \in Seq(Tasks)
      BY <1>2, AppendProperties DEF AddTaskPush
    <2> QED
      BY <1>2, <2>1 DEF AddTaskPush
  <1>3. ASSUME NEW t \in Tasks, AddTaskNotify(t) PROVE Types'
    BY <1>3 DEF AddTaskNotify
  <1>4. ASSUME NEW w \in Workers, WorkerLoop(w) PROVE Types'
    BY <1>4 DEF WorkerLoop
  <1>5. ASSUME NEW w \in Workers, WorkerTest(w) PROVE Types'
    BY <1>5 DEF WorkerTest
  <1>6. ASSUME NEW w \in Workers, WorkerWaits(w) PROVE Types'
    BY <1>6 DEF WorkerWaits
  <1>7. ASSUME NEW w \in Workers, WaitTimesOut(w) PROVE Types'
    BY <1>7 DEF WaitTimesOut
  <1>8. ASSUME NEW w \in Workers, TryPop(w) PROVE Types'
    <2>1. CASE workQueue = <<>>
      BY <1>8, <2>1 DEF TryPop
    <2>2. CASE workQueue # <<>>
      <3>1. Head(workQueue) \in Tasks /\ Tail(workQueue) \in Seq(Tasks)
        BY <2>2, TailRange
      <3> QED
        BY <1>8, <2>2, <3>1 DEF TryPop
    <2> QED
      BY <2>1, <2>2
  <1>9. ASSUME NEW w \in Workers, CountTask(w) PROVE Types'
    BY <1>9 DEF CountTask, Activate, Uncount
  <1>10. ASSUME NEW w \in Workers, TaskReturns(w) PROVE Types'
    <2>1. running[w] \in Tasks
      BY <1>10 DEF TaskReturns, RunningIffBusy, Busy
    <2> QED
      BY <1>10, <2>1 DEF TaskReturns
  <1>11. ASSUME NEW w \in Workers, TaskInactive(w) PROVE Types'
    BY <1>11 DEF TaskInactive
  <1>12. ASSUME NEW w \in Workers, StartThread(w) PROVE Types'
    BY <1>12 DEF StartThread
  <1>13. CASE StartReturns
    BY <1>13 DEF StartReturns
  <1>14. CASE StartFails
    BY <1>14, WokenType DEF StartFails
  <1>15. CASE StartFailsQuit
    BY <1>15 DEF StartFailsQuit
  <1>16. CASE WaitForDone
    BY <1>16 DEF WaitForDone
  <1>17. CASE WaitReadsCount
    BY <1>17 DEF WaitReadsCount
  <1>18. CASE WaitReadsActive
    BY <1>18 DEF WaitReadsActive
  <1>19. CASE DestroyNotify
    BY <1>19, WokenType DEF DestroyNotify
  <1>20. CASE DestroyQuit
    BY <1>20 DEF DestroyQuit
  <1>21. CASE DestroyJoined
    BY <1>21 DEF DestroyJoined
  <1>22. CASE UNCHANGED vars
    BY <1>22 DEF vars
  <1> QED
    BY <1>1, <1>2, <1>3, <1>4, <1>5, <1>6, <1>7, <1>8, <1>9, <1>10, <1>11, <1>12,
       <1>13, <1>14, <1>15, <1>16, <1>17, <1>18, <1>19, <1>20, <1>21, <1>22
    DEF Next, WorkerStep, OwnerStep

(***************************************************************************)
(* The steps that move no task.                                            *)
(***************************************************************************)
LEMMA StepKinds ==
  ASSUME Types, [Next]_vars
  PROVE  \/ NoTaskMoves
         \/ \E t \in Tasks : (\E c \in Callers : AddTaskCount(c, t)) \/ AddTaskPush(t)
         \/ \E w \in Workers : \/ TryPop(w) /\ workQueue # <<>>
                               \/ Activate(w, "taken", "counted")
                               \/ Uncount(w, "counted", "task")
                               \/ TaskReturns(w) \/ TaskInactive(w)
  <1> USE DEF Types, NoTaskMoves, Busy, poolVars, taskVars, ownerVars, Goto, OwnerGoto
  <1>1. ASSUME NEW t \in Tasks, AddTaskNotify(t) PROVE NoTaskMoves
    BY <1>1 DEF AddTaskNotify
  <1>2. ASSUME NEW w \in Workers,
               WorkerLoop(w) \/ WorkerTest(w) \/ WorkerWaits(w) \/ WaitTimesOut(w)
        PROVE  NoTaskMoves
    BY <1>2 DEF WorkerLoop, WorkerTest, WorkerWaits, WaitTimesOut
  <1>3. ASSUME NEW w \in Workers, TryPop(w), workQueue = <<>> PROVE NoTaskMoves
    BY <1>3 DEF TryPop
  <1>4. ASSUME NEW w \in Workers, StartThread(w) PROVE NoTaskMoves
    BY <1>4 DEF StartThread
  <1>5. CASE StartFails \/ DestroyNotify
    BY <1>5 DEF StartFails, DestroyNotify, Woken
  <1>6. CASE StartReturns \/ StartFailsQuit \/ DestroyQuit \/ DestroyJoined
    BY <1>6 DEF StartReturns, StartFailsQuit, DestroyQuit, DestroyJoined
  <1>7. CASE WaitForDone \/ WaitReadsCount \/ WaitReadsActive
    BY <1>7 DEF WaitForDone, WaitReadsCount, WaitReadsActive
  <1>8. CASE UNCHANGED vars
    BY <1>8 DEF vars
  <1> QED
    BY <1>1, <1>2, <1>3, <1>4, <1>5, <1>6, <1>7, <1>8
    DEF Next, WorkerStep, OwnerStep, CountTask

(***************************************************************************)
(* The places of the tasks.                                                *)
(***************************************************************************)
LEMMA PlacesInit == Init => Places
  <1> SUFFICES ASSUME Init PROVE Places
    OBVIOUS
  <1>1. Range(workQueue) = {} /\ IsInjective(workQueue)
    BY EmptyRange DEF Init
  <1> QED
    BY <1>1 DEF Init, Places, RunningIffBusy, Busy, PlacedIffPushed, Placed, OnePlace

\* Every step keeps each task in one place.
LEMMA PlacesStep == Types /\ Places /\ [Next]_vars => Places'
  <1> SUFFICES ASSUME Types, Places, [Next]_vars PROVE Places'
    OBVIOUS
  <1> USE DEF Types, Places, taskVars, ownerVars, poolVars, Goto
  <1>1. CASE NoTaskMoves
    <2>1. RunningIffBusy'
      BY <1>1 DEF NoTaskMoves, RunningIffBusy
    <2>2. PlacedIffPushed'
      BY <1>1 DEF NoTaskMoves, PlacedIffPushed, Placed
    <2>3. OnePlace'
      BY <1>1 DEF NoTaskMoves, OnePlace, Busy
    <2> QED
      BY <2>1, <2>2, <2>3
  <1>2. ASSUME NEW t \in Tasks, NEW c \in Callers, AddTaskCount(c, t) PROVE Places'
    <2>1. RunningIffBusy' /\ OnePlace'
      BY <1>2 DEF AddTaskCount, RunningIffBusy, OnePlace
    <2>2. PlacedIffPushed'
      BY <1>2 DEF AddTaskCount, PlacedIffPushed, Placed
    <2> QED
      BY <2>1, <2>2
  <1>3. ASSUME NEW t \in Tasks, AddTaskPush(t) PROVE Places'
    <2>1. ~Placed(t)
      BY <1>3 DEF AddTaskPush, PlacedIffPushed
    <2>2. Range(workQueue') = Range(workQueue) \cup {t} /\ IsInjective(workQueue')
      BY <1>3, <2>1, AppendRange DEF AddTaskPush, OnePlace, Placed
    <2>3. RunningIffBusy'
      BY <1>3 DEF AddTaskPush, RunningIffBusy
    <2>4. OnePlace'
      BY <1>3, <2>1, <2>2 DEF AddTaskPush, OnePlace, Placed
    <2>5. PlacedIffPushed'
      BY <1>3, <2>2 DEF AddTaskPush, PlacedIffPushed, Placed
    <2> QED
      BY <2>3, <2>4, <2>5
  <1>4. ASSUME NEW w \in Workers, TryPop(w), workQueue # <<>> PROVE Places'
    <2> DEFINE h == Head(workQueue)
    <2>0. /\ workQueue' = Tail(workQueue)
          /\ running' = [running EXCEPT ![w] = h]
          /\ pc[w] = "pop" /\ pc' = [pc EXCEPT ![w] = "taken"]
          /\ UNCHANGED <<added, finished>>
      BY <1>4 DEF TryPop
    <2>1. /\ h \in Tasks /\ Range(workQueue) = Range(workQueue') \cup {h}
          /\ IsInjective(workQueue') /\ h \notin Range(workQueue')
      BY <1>4, <2>0, TailRange DEF OnePlace
    <2> HIDE DEF h
    <2>2. RunningIffBusy'
      BY <2>0, <2>1 DEF RunningIffBusy, Busy
    <2>3. PlacedIffPushed'
      <3>1. running[w] = None
        BY <2>0, <2>1 DEF RunningIffBusy, Busy
      <3> QED
        BY <2>0, <2>1, <3>1 DEF PlacedIffPushed, Placed
    <2>4. OnePlace'
      BY <2>0, <2>1 DEF OnePlace
    <2> QED
      BY <2>2, <2>3, <2>4
  <1>5. ASSUME NEW w \in Workers,
               Activate(w, "taken", "counted") \/ Uncount(w, "counted", "task")
        PROVE  Places'
    <2>1. RunningIffBusy'
      BY <1>5 DEF Activate, Uncount, RunningIffBusy, Busy
    <2>2. PlacedIffPushed'
      BY <1>5 DEF Activate, Uncount, PlacedIffPushed, Placed
    <2>3. OnePlace'
      BY <1>5 DEF Activate, Uncount, OnePlace
    <2> QED
      BY <2>1, <2>2, <2>3
  <1>6. ASSUME NEW w \in Workers, TaskReturns(w) PROVE Places'
    <2>1. RunningIffBusy'
      BY <1>6 DEF TaskReturns, RunningIffBusy, Busy
    <2>2. running[w] \in Tasks /\ Placed(running[w])
      BY <1>6 DEF TaskReturns, RunningIffBusy, Busy, Placed
    <2>3. PlacedIffPushed'
      BY <1>6, <2>2 DEF TaskReturns, PlacedIffPushed, Placed
    <2>4. OnePlace'
      BY <1>6, <2>2 DEF TaskReturns, OnePlace
    <2> QED
      BY <2>1, <2>3, <2>4
  <1>7. ASSUME NEW w \in Workers, TaskInactive(w) PROVE Places'
    <2>1. RunningIffBusy'
      BY <1>7 DEF TaskInactive, RunningIffBusy, Busy
    <2>2. running[w] \in finished
      BY <1>7 DEF TaskInactive, OnePlace
    <2>3. PlacedIffPushed'
      BY <1>7, <2>2 DEF TaskInactive, PlacedIffPushed, Placed
    <2>4. OnePlace'
      <3>1. None \notin Range(workQueue)
        BY RangeOfSeq
      <3> QED
        BY <1>7, <3>1 DEF TaskInactive, OnePlace
    <2> QED
      BY <2>1, <2>3, <2>4
  <1> QED
    BY <1>1, <1>2, <1>3, <1>4, <1>5, <1>6, <1>7, StepKinds

(***************************************************************************)
(* The counters.                                                           *)
(***************************************************************************)
LEMMA FiniteCounted ==
  ASSUME Types, RunningIffBusy
  PROVE  /\ Pending \subseteq Tasks /\ IsFiniteSet(Pending) /\ Cardinality(Pending) \in Nat
         /\ Active \subseteq Workers /\ IsFiniteSet(Active) /\ Cardinality(Active) \in Nat
  <1>1. Range(workQueue) \subseteq Tasks
    BY RangeOfSeq DEF Types
  <1>2. Pending \subseteq Tasks
    BY <1>1 DEF Types, RunningIffBusy, Pending, Busy
  <1>3. IsFiniteSet(Tasks)
    BY FS_Interval DEF Tasks
  <1> QED
    BY <1>2, <1>3, FS_Subset, FS_CardinalityType DEF Active

\* Nothing is counted at first.
LEMMA CountersInit == Init => Counters
  <1> SUFFICES ASSUME Init PROVE Counters
    OBVIOUS
  <1>1. Pending = {} /\ Active = {}
    BY EmptyRange DEF Init, Pending, Active
  <1> QED
    BY <1>1, FS_EmptySet DEF Init, Counters

\* Every step keeps the counters equal to what they count.
LEMMA CountersStep == Types /\ Places /\ Counters /\ [Next]_vars => Counters'
  <1> SUFFICES ASSUME Types, Places, Counters, [Next]_vars PROVE Counters'
    OBVIOUS
  <1>0. /\ IsFiniteSet(Pending) /\ IsFiniteSet(Active)
        /\ Cardinality(Pending) \in Nat /\ Cardinality(Active) \in Nat
    BY FiniteCounted DEF Places
  <1> USE DEF Types, Places, taskVars, ownerVars, poolVars, Goto
  <1>1. CASE NoTaskMoves
    <2>1. Pending' = Pending /\ Active' = Active
      BY <1>1 DEF NoTaskMoves, Pending, Active, Busy
    <2> QED
      BY <1>1, <2>1 DEF NoTaskMoves, Counters
  <1>2. ASSUME NEW t \in Tasks, NEW c \in Callers, AddTaskCount(c, t) PROVE Counters'
    <2>1. Pending' = Pending \cup {t} /\ t \notin Pending /\ Active' = Active
      BY <1>2 DEF AddTaskCount, Pending, Active, PlacedIffPushed, Placed
    <2>2. Cardinality(Pending') = Cardinality(Pending) + 1
      BY <1>0, <2>1, FS_AddElement
    <2> QED
      BY <1>2, <2>1, <2>2 DEF AddTaskCount, Counters
  <1>3. ASSUME NEW t \in Tasks, AddTaskPush(t) PROVE Counters'
    <2>1. Range(workQueue') = Range(workQueue) \cup {t}
      BY <1>3, AppendRange DEF AddTaskPush
    <2>2. Pending' = Pending /\ Active' = Active
      BY <1>3, <2>1 DEF AddTaskPush, Pending, Active
    <2> QED
      BY <1>3, <2>2 DEF AddTaskPush, Counters
  <1>4. ASSUME NEW w \in Workers, TryPop(w), workQueue # <<>> PROVE Counters'
    <2> DEFINE h == Head(workQueue)
    <2>1. /\ Range(workQueue) = Range(workQueue') \cup {h}
          /\ running' = [running EXCEPT ![w] = h]
          /\ pc[w] = "pop" /\ pc' = [pc EXCEPT ![w] = "taken"]
          /\ UNCHANGED <<added, finished, taskCount, activeThreads>>
      BY <1>4, TailRange DEF TryPop
    <2> HIDE DEF h
    <2>2. Pending' = Pending
      BY <2>1 DEF Pending
    <2>3. Active' = Active
      BY <2>1 DEF Active
    <2> QED
      BY <2>1, <2>2, <2>3 DEF Counters
  <1>5. ASSUME NEW w \in Workers, Activate(w, "taken", "counted") PROVE Counters'
    <2>1. Pending' = Pending
      BY <1>5 DEF Activate, Pending
    <2>2. Active' = Active \cup {w} /\ w \notin Active
      BY <1>5 DEF Activate, Active
    <2>3. Cardinality(Active') = Cardinality(Active) + 1
      BY <1>0, <2>2, FS_AddElement
    <2> QED
      BY <1>5, <2>1, <2>3 DEF Activate, Counters
  <1>6. ASSUME NEW w \in Workers, Uncount(w, "counted", "task") PROVE Counters'
    <2>1. running[w] \in Tasks /\ added[running[w]] # "counted"
      BY <1>6 DEF Uncount, RunningIffBusy, Busy, PlacedIffPushed, Placed
    <2>2. Pending' = Pending \ {running[w]} /\ running[w] \in Pending
      BY <1>6, <2>1 DEF Uncount, Pending, OnePlace
    <2>3. Active' = Active
      BY <1>6 DEF Uncount, Active
    <2>4. Cardinality(Pending') = Cardinality(Pending) - 1
      BY <1>0, <2>2, FS_RemoveElement
    <2> QED
      BY <1>6, <2>3, <2>4 DEF Uncount, Counters
  <1>7. ASSUME NEW w \in Workers, TaskReturns(w) PROVE Counters'
    <2>1. Pending' = Pending /\ Active' = Active
      BY <1>7 DEF TaskReturns, Pending, Active
    <2> QED
      BY <1>7, <2>1 DEF TaskReturns, Counters
  <1>8. ASSUME NEW w \in Workers, TaskInactive(w) PROVE Counters'
    <2>1. Pending' = Pending
      BY <1>8 DEF TaskInactive, Pending
    <2>2. Active' = Active \ {w} /\ w \in Active
      BY <1>8 DEF TaskInactive, Active
    <2>3. Cardinality(Active') = Cardinality(Active) - 1
      BY <1>0, <2>2, FS_RemoveElement
    <2> QED
      BY <1>8, <2>1, <2>3 DEF TaskInactive, Counters
  <1> QED
    BY <1>1, <1>2, <1>3, <1>4, <1>5, <1>6, <1>7, <1>8, StepKinds

(***************************************************************************)
(* waitForDone.                                                            *)
(***************************************************************************)
\* A task stays handed over, and finished once it is.
LEMMA TasksGoOn ==
  ASSUME Types, [Next]_vars
  PROVE  /\ \A t \in Tasks : added[t] # "new" => added'[t] # "new"
         /\ finished \subseteq finished'
  BY StepKinds
  DEF Types, NoTaskMoves, AddTaskCount, AddTaskPush, TryPop, Activate, Uncount,
      TaskReturns, TaskInactive, taskVars

\* A worker leaves its task only by finishing it.
LEMMA TaskEnds ==
  ASSUME Types, [Next]_vars, NEW w \in Workers, pc[w] = "task"
  PROVE  \/ pc'[w] = "task" /\ running'[w] = running[w]
         \/ running[w] \in finished'
  BY StepKinds
  DEF Types, NoTaskMoves, Busy, AddTaskCount, AddTaskPush, TryPop, Activate, Uncount,
      TaskReturns, TaskInactive, Goto

\* A step leaves the owner alone, is one of waitForDone, or leads elsewhere.
LEMMA OwnerSteps ==
  ASSUME Types, [Next]_vars
  PROVE  \/ UNCHANGED ownerVars
         \/ WaitForDone \/ WaitReadsCount \/ WaitReadsActive
         \/ waitedFor' = waitedFor /\ ownerPc' \notin {"waitActive", "waited"}
  BY DEF Next, WorkerStep, OwnerStep, AddTaskCount, AddTaskPush, AddTaskNotify,
     WorkerLoop, WorkerTest, WorkerWaits, WaitTimesOut, TryPop, CountTask, Activate,
     Uncount, TaskReturns, TaskInactive, StartThread, StartReturns, StartFails,
     StartFailsQuit, DestroyNotify, DestroyQuit, DestroyJoined, OwnerGoto, ownerVars,
     vars

\* Every step keeps what waitForDone has found out.
LEMMA WaitInvStep ==
  Types /\ Places /\ Counters /\ WaitInv /\ [Next]_vars => WaitInv'
  <1> SUFFICES ASSUME Types, Places, Counters, WaitInv, [Next]_vars PROVE WaitInv'
    OBVIOUS
  <1> DEFINE Covered(t) ==
        t \in finished \/ \E w \in Workers : pc[w] = "task" /\ running[w] = t
  <1>1. /\ \A t \in Tasks : added[t] # "new" => added'[t] # "new"
        /\ finished \subseteq finished'
    BY TasksGoOn
  <1>2. CASE UNCHANGED ownerVars \/ (waitedFor' = waitedFor
                                     /\ ownerPc' \notin {"waitActive", "waited"})
    <2>1. \A t \in waitedFor' : added'[t] # "new"
      BY <1>1, <1>2 DEF Types, WaitInv, ownerVars
    <2>2. WaitedTasksDone'
      BY <1>1, <1>2 DEF WaitInv, WaitedTasksDone, ownerVars
    <2>3. ASSUME ownerPc' = "waitActive", NEW t \in waitedFor'
          PROVE  \/ t \in finished'
                 \/ \E w \in Workers : pc'[w] = "task" /\ running'[w] = t
      <3>1. Covered(t)
        BY <1>2, <2>3 DEF WaitInv, ownerVars
      <3> QED
        BY <1>1, <3>1, TaskEnds
    <2> QED
      BY <2>1, <2>2, <2>3 DEF WaitInv
  <1>3. CASE WaitForDone
    BY <1>3 DEF WaitForDone, taskVars, WaitInv, WaitedTasksDone
  <1>4. CASE WaitReadsCount
    <2>1. Pending = {}
      BY <1>4, FiniteCounted, FS_EmptySet DEF WaitReadsCount, Counters, Places
    <2>2. ASSUME NEW t \in waitedFor PROVE Covered(t)
      <3>1. t \in Tasks /\ added[t] # "new" /\ added[t] # "counted"
        BY <2>1 DEF Types, WaitInv, Pending
      <3>2. Placed(t) /\ t \notin Range(workQueue)
        BY <2>1, <3>1 DEF Types, Places, PlacedIffPushed, Pending
      <3>3. CASE t \in finished
        BY <3>3
      <3>4. ASSUME NEW w \in Workers, running[w] = t PROVE Covered(t)
        <4>1. pc[w] \in Busy /\ pc[w] \notin {"taken", "counted"}
          BY <2>1, <3>1, <3>4 DEF Places, RunningIffBusy, Pending
        <4> QED
          BY <3>4, <4>1 DEF Busy, Places, OnePlace
      <3> QED
        BY <3>2, <3>3, <3>4 DEF Placed
    <2> QED
      BY <1>4, <2>2 DEF WaitReadsCount, OwnerGoto, poolVars, taskVars, WaitInv,
         WaitedTasksDone
  <1>5. CASE WaitReadsActive
    <2>1. ASSUME activeThreads = 0 PROVE waitedFor \subseteq finished
      <3>1. Active = {}
        BY <2>1, FiniteCounted, FS_EmptySet DEF Counters, Places
      <3> QED
        BY <1>5, <3>1 DEF WaitReadsActive, OwnerGoto, WaitInv, Active
    <2> QED
      BY <1>5, <2>1 DEF WaitReadsActive, OwnerGoto, poolVars, taskVars, WaitInv,
         WaitedTasksDone
  <1> QED
    BY <1>2, <1>3, <1>4, <1>5, OwnerSteps

(***************************************************************************)
(* The theorems.                                                           *)
(***************************************************************************)
\* PoolInv is inductive: it holds of every reachable state.
THEOREM PoolInvariant == Spec => []PoolInv
  <1>1. Init => PoolInv
    BY TypesInit, PlacesInit, CountersInit
    DEF PoolInv, WaitInv, WaitedTasksDone, Init
  <1>2. PoolInv /\ [Next]_vars => PoolInv'
    BY TypesStep, PlacesStep, CountersStep, WaitInvStep DEF PoolInv, Places
  <1> QED
    BY <1>1, <1>2, PTL DEF Spec

\* taskCount and m_activeThreads never leave 0..MaxTasks and 0..threadNumber,
\* so neither std::atomic counter wraps, and every variable keeps its type.
THEOREM TypeCorrect == Spec => []TypeOK
  <1>1. PoolInv => TypeOK
    <2> SUFFICES ASSUME PoolInv PROVE TypeOK
      OBVIOUS
    <2>1. IsFiniteSet(Tasks)
      BY FS_Interval DEF Tasks
    <2>2. /\ Cardinality(Pending) <= Cardinality(Tasks)
          /\ Cardinality(Active) <= Cardinality(Workers)
      BY <2>1, FiniteCounted, FS_Subset DEF PoolInv, Places
    <2>3. /\ Cardinality(Pending) \in Nat /\ Cardinality(Active) \in Nat
          /\ Cardinality(Tasks) \in Nat /\ Cardinality(Workers) \in Nat
      BY <2>1, FiniteCounted, FS_CardinalityType DEF PoolInv, Places
    <2>4. taskCount \in 0..Cardinality(Tasks) /\ activeThreads \in 0..Cardinality(Workers)
      BY <2>2, <2>3 DEF PoolInv, Counters
    <2> QED
      BY <2>4 DEF PoolInv, Types, TypeOK
  <1> QED
    BY <1>1, PoolInvariant, PTL

\* However the threads interleave, each task handed to run() is in one place,
\* taskCount counts the tasks not begun, m_activeThreads the threads between
\* their ++ and their --, and no finished task is taken again.
THEOREM EachTaskOnceTheorem == Spec => []EachTaskOnce
  <1>1. PoolInv => EachTaskOnce
    <2> SUFFICES ASSUME PoolInv PROVE EachTaskOnce
      OBVIOUS
    <2>1. Pending \cap finished = {}
      BY DEF PoolInv, Types, Places, PlacedIffPushed, Placed, OnePlace, Pending
    <2> QED
      BY <2>1 DEF PoolInv, Counters, Active, Places, OnePlace, EachTaskOnce
  <1> QED
    BY <1>1, PoolInvariant, PTL

\* waitForDone(0) returns only after every task added before the call returned,
\* although it reads the two counters one after the other.
THEOREM WaitedTasksDoneTheorem == Spec => []WaitedTasksDone
  <1>1. PoolInv => WaitedTasksDone
    BY DEF PoolInv, WaitInv
  <1> QED
    BY <1>1, PoolInvariant, PTL
=============================================================================
