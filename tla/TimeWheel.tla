------------------------------ MODULE TimeWheel -----------------------------
(***************************************************************************)
(* internal::time::TimeWheel with the entries TcpConnection puts into it.  *)
(* Every connection c owns an idle entry <<c, "idle">> and, once it is half *)
(* closed, a half-close entry <<c, "halfClose">>; the only shared_ptr to an *)
(* entry is the one in its bucket, so an erased entry has expired.  All    *)
(* operations run on the loop's thread; tick, whose onTimeout calls come   *)
(* back into the wheel, takes one step per entry of the bucket.            *)
(***************************************************************************)
EXTENDS Integers, FiniteSets

CONSTANTS Connections,
          MaxBuckets    \* bound: largest bucketCount of an EventLoop

ASSUME BucketsAssumption == MaxBuckets \in Nat

VARIABLES
    size,               \* m_bucketSize
    timeOutBucketIndex, \* m_timeOutBucketIndex
    buckets,            \* m_buckets
    indexInWheel,       \* m_indexInWheel of each entry
    created,            \* entries made so far
    ticking,            \* tick() is walking the bucket at timeOutBucketIndex
    badErase            \* tick() erased through an iterator that was invalid,
                        \* which is undefined: no step follows it

wheelVars == <<size, timeOutBucketIndex, buckets, indexInWheel, created, ticking,
               badErase>>

Entries   == Connections \X {"idle", "halfClose"}
Indexes   == 0..(size - 1)
InWheel   == UNION {buckets[i] : i \in Indexes}
EntriesOf(c) == {<<c, "idle">>, <<c, "halfClose">>}

WheelTypeOK ==
    /\ size \in 0..MaxBuckets
    /\ timeOutBucketIndex \in Indexes \cup {0}
    /\ buckets \in [Indexes -> SUBSET Entries]
    /\ indexInWheel \in [Entries -> Indexes \cup {0}]
    /\ created \in SUBSET Entries
    /\ ticking \in BOOLEAN /\ badErase \in BOOLEAN

\* bucketCount 0 makes a wheel whose timer is never started.
WheelInit ==
    /\ size \in 0..MaxBuckets
    /\ timeOutBucketIndex = 0
    /\ buckets = [i \in 0..(size - 1) |-> {}]
    /\ indexInWheel = [e \in Entries |-> 0]
    /\ created = {}
    /\ ticking = FALSE /\ badErase = FALSE

\* Faulty variants of a definition carry the suffix Mutant...; no specification
\* uses them, they show which property notices the fault.

\* Fault: the timeout bucket itself is taken for the latest one.
LatestIndexMutantSame == timeOutBucketIndex

\* The bucket that was emptied last, one before the timeout bucket.
LatestIndex ==
    IF timeOutBucketIndex = 0 THEN size - 1 ELSE timeOutBucketIndex - 1

\* addToWheel, on a new entry: makeTcpConnection, and closeAfterWriteCompleted.
AddToWheel(e) ==
    /\ ~ticking /\ ~badErase /\ e \notin created
    /\ e[2] = "halfClose" => <<e[1], "idle">> \in created
    /\ created' = created \cup {e}
    /\ IF size # 0
       THEN /\ indexInWheel' = [indexInWheel EXCEPT ![e] = LatestIndex]
            /\ buckets' = [buckets EXCEPT ![LatestIndex] = @ \cup {e}]
       ELSE UNCHANGED <<buckets, indexInWheel>>
    /\ UNCHANGED <<size, timeOutBucketIndex, ticking, badErase>>

\* The buckets after removeFromWheel of every entry of R: an expired entry is
\* skipped, any other one is looked up under its index only.
Without(R) ==
    [i \in Indexes |->
        {e \in buckets[i] : ~(e \in R \cap InWheel /\ indexInWheel[e] = i)}]

\* forceClose outside of tick.
RemoveFromWheel(c) ==
    /\ ~ticking /\ ~badErase
    /\ <<c, "idle">> \in created
    /\ buckets' = Without(EntriesOf(c))
    /\ UNCHANGED <<size, timeOutBucketIndex, indexInWheel, created, ticking,
                   badErase>>

\* Fault: the entry moves and keeps its old index.
RenewMutantKeepsIndex(e) ==
    /\ ~ticking /\ ~badErase
    /\ e \in InWheel /\ e[2] = "idle"
    /\ LET idx  == indexInWheel[e]
           next == IF idx + 1 = size THEN 0 ELSE idx + 1
       IN  /\ next # timeOutBucketIndex
           /\ buckets' = [i \in Indexes |->
                 IF i = LatestIndex THEN buckets[i] \cup {e}
                 ELSE IF i = idx THEN buckets[i] \ {e} ELSE buckets[i]]
    /\ UNCHANGED <<size, timeOutBucketIndex, indexInWheel, created, ticking,
                   badErase>>

\* renewWheel renews the idle entry, and only that one.
Renew(e) ==
    /\ ~ticking /\ ~badErase
    /\ e \in InWheel /\ e[2] = "idle"
    /\ LET idx  == indexInWheel[e]
           next == IF idx + 1 = size THEN 0 ELSE idx + 1
       IN  /\ next # timeOutBucketIndex
           /\ buckets' = [i \in Indexes |->
                 IF i = LatestIndex THEN buckets[i] \cup {e}
                 ELSE IF i = idx THEN buckets[i] \ {e} ELSE buckets[i]]
           /\ indexInWheel' = [indexInWheel EXCEPT ![e] = LatestIndex]
    /\ UNCHANGED <<size, timeOutBucketIndex, created, ticking, badErase>>

TickStart ==
    /\ ~ticking /\ ~badErase /\ size # 0
    /\ timeOutBucketIndex' = IF timeOutBucketIndex + 1 = size THEN 0
                             ELSE timeOutBucketIndex + 1
    /\ ticking' = TRUE
    /\ UNCHANGED <<size, buckets, indexInWheel, created, badErase>>

\* onTimeout of an idle entry hands a functor to the loop; onTimeout of a
\* half-close entry is forceClose, which removes both entries of the
\* connection, the one the iterator stands on included: then erase(it) goes
\* through an iterator that is invalid, and nothing is said of what follows.
TickEntry(e) ==
    /\ ticking /\ ~badErase
    /\ e \in buckets[timeOutBucketIndex]
    /\ LET removed == IF e[2] = "halfClose" THEN EntriesOf(e[1]) ELSE {}
       IN  /\ badErase' = (badErase \/ e \notin Without(removed)[timeOutBucketIndex])
           /\ buckets' = [Without(removed) EXCEPT ![timeOutBucketIndex] = @ \ {e}]
    /\ UNCHANGED <<size, timeOutBucketIndex, indexInWheel, created, ticking>>

TickEnd ==
    /\ ticking /\ ~badErase
    /\ buckets[timeOutBucketIndex] = {}
    /\ ticking' = FALSE
    /\ UNCHANGED <<size, timeOutBucketIndex, buckets, indexInWheel, created,
                   badErase>>

WheelNext ==
    \/ \E e \in Entries : AddToWheel(e) \/ Renew(e) \/ TickEntry(e)
    \/ \E c \in Connections : RemoveFromWheel(c)
    \/ TickStart
    \/ TickEnd

WheelSpec == WheelInit /\ [][WheelNext]_wheelVars

-----------------------------------------------------------------------------
(***************************************************************************)
(* Properties.                                                             *)
(***************************************************************************)
\* m_indexInWheel names the bucket an entry is in, so that removeFromWheel
\* removes it and renew, which erases find()'s result unchecked, finds it; an
\* entry is never in two buckets.
IndexNamesBucket ==
    \A i \in Indexes : \A e \in buckets[i] : indexInWheel[e] = i

\* Ticks until an entry outside the current tick is called.
TicksLeft(e) ==
    IF ~(e \in InWheel) \/ (ticking /\ indexInWheel[e] = timeOutBucketIndex)
    THEN 0
    ELSE ((indexInWheel[e] - timeOutBucketIndex - 1) % size) + 1

\* The wheel implements the countdown: an entry is called exactly bucketCount
\* - 1 ticks (1 for a single bucket) after it was added or renewed last, in
\* whatever bucket it stands and however the index wraps around.  The step that
\* calls a half-close entry, which erases through an invalid iterator
\* (EraseIsValid), is the last one of which this is said.
Countdown == INSTANCE WheelCountdown WITH
    Owned  <- {EntriesOf(c) : c \in Connections},
    period <- IF size = 0 THEN 0 ELSE IF size = 1 THEN 1 ELSE size - 1,
    left   <- [e \in Entries |-> TicksLeft(e)],
    due    <- IF ticking THEN buckets[timeOutBucketIndex] ELSE {}
CountdownSpec == Countdown!CSpec

\* A claim the code does not keep, so no run lists it.
\* TimeWheel.cpp:72, "make a copy in case onTimeout will erase itself": the
\* entry may remove itself and tick() still erases a valid iterator.  It does not:
\* the copy keeps the entry alive, not the iterator to it, and every half-close
\* entry that times out removes itself.
EraseIsValid == ~badErase
=============================================================================
