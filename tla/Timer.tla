------------------------------- MODULE Timer --------------------------------
(***************************************************************************)
(* time::Timer, its timerfd and its TimerHandler, on one loop.  Time is    *)
(* counted in units of the clock's nanosecond field: a second has          *)
(* MsecPerSec * UnitsPerMsec of them, and timerfd_settime refuses a        *)
(* nanosecond field that is not smaller than that.  The timer is destroyed *)
(* while the loop runs: its descriptor is closed at once, the functor that *)
(* takes its handler out of the loop runs later, and another handler may   *)
(* get the descriptor's number in between.                                 *)
(***************************************************************************)
EXTENDS Integers

CONSTANTS MsecPerSec,   \* 1000
          UnitsPerMsec, \* 1000000
          MaxClock,     \* bound: the last moment of the clock
          Never         \* no moment of the clock

ASSUME UnitsAssumption ==
    {MsecPerSec, UnitsPerMsec, MaxClock} \subseteq Nat \ {0}
ASSUME NeverAssumption == Never \notin Int

VARIABLES
    alive,          \* the Timer has not been destroyed
    interval, singleShot, running,      \* m_interval, m_singleShot, m_running
    clock,          \* CLOCK_MONOTONIC
    deadline,       \* timerfd: when it expires next
    period,         \* timerfd: it_interval
    expired,        \* timerfd: an expiration waits to be read
    asked,          \* the first timeout the user's last call asked for
    askedPeriod,    \* and the distance of the next ones, 0 for a single shot
    calls,          \* callbacks since that call
    refused,        \* timerfd_settime refused it
    hurried,        \* it was armed for now and not for `asked`
    key, watched,   \* the handler of the timer's descriptor number in Epoll's
                    \* map and in the kernel
    other,          \* another handler has the number
    inWindow,       \* it was last registered while the functor was pending
    removePending,  \* TimerHandler::remove's functor has not run
    round,          \* what the loop's round still has to handle
    undefined       \* handleIn followed the pointer to the destroyed Timer

apiVars    == <<interval, singleShot, running>>
kernelVars == <<deadline, period, expired>>
askedVars  == <<asked, askedPeriod, calls, refused, hurried>>
fdVars     == <<key, watched, other, inWindow>>
loopVars   == <<removePending, round, undefined>>
vars == <<alive, apiVars, clock, kernelVars, askedVars, fdVars, loopVars>>

UnitsPerSec == MsecPerSec * UnitsPerMsec
Intervals   == 0..(2 * MsecPerSec - 1)
Moments     == 0..(MaxClock + 2 * UnitsPerSec)
Owners      == {"none", "timer", "other"}

\* The clock starts within its bound.
ASSUME ClockAssumption == UnitsPerSec <= MaxClock

TypeOK ==
    /\ alive \in BOOLEAN /\ singleShot \in BOOLEAN /\ running \in BOOLEAN
    /\ interval \in Intervals
    /\ clock \in 0..MaxClock
    /\ deadline \in Moments \cup {Never} /\ asked \in Moments \cup {Never}
    /\ {period, askedPeriod, calls} \subseteq Moments
    /\ expired \in BOOLEAN /\ refused \in BOOLEAN /\ hurried \in BOOLEAN
    /\ key \in Owners /\ watched \in Owners
    /\ other \in BOOLEAN /\ inWindow \in BOOLEAN
    /\ removePending \in BOOLEAN /\ undefined \in BOOLEAN
    /\ round \subseteq {"timer", "functors"}

\* The default interval is one second.
Init ==
    /\ alive = TRUE
    /\ interval = MsecPerSec /\ singleShot = TRUE /\ running = FALSE
    /\ clock \in 1..UnitsPerSec      \* time since boot, never 0
    /\ deadline = Never /\ period = 0 /\ expired = FALSE
    /\ asked = Never /\ askedPeriod = 0 /\ calls = 0 /\ refused = FALSE
    /\ hurried = FALSE
    /\ key = "timer" /\ watched = "timer"
    /\ other = FALSE /\ inWindow = FALSE
    /\ removePending = FALSE /\ round = {} /\ undefined = FALSE

-----------------------------------------------------------------------------
(***************************************************************************)
(* The timerfd.                                                            *)
(***************************************************************************)
\* The timerfd at moment t when it expires next at d, every p units.
Expire(t, d, p) ==
    IF d # Never /\ d <= t
    THEN [deadline |-> IF p = 0 THEN Never ELSE d + p, expired |-> TRUE]
    ELSE [deadline |-> d, expired |-> FALSE]

\* Arming it at once forgets an expiration nobody has read.
SetTime(d, p) ==
    /\ deadline' = Expire(clock, d, p).deadline
    /\ expired' = Expire(clock, d, p).expired
    /\ period' = p

Elapse ==
    /\ clock < MaxClock
    /\ clock' = clock + 1
    /\ deadline' = Expire(clock', deadline, period).deadline
    /\ expired' = (expired \/ Expire(clock', deadline, period).expired)
    /\ UNCHANGED <<alive, apiVars, period, askedVars, fdVars, loopVars>>

-----------------------------------------------------------------------------
(***************************************************************************)
(* The user's calls.                                                       *)
(***************************************************************************)
\* Fault: every sum of the nanoseconds is left as it is.
FirstTriggerMutantNoTest(ms) ==
    [sec  |-> clock \div UnitsPerSec + ms \div MsecPerSec,
     nSec |-> (clock % UnitsPerSec) + (ms % MsecPerSec) * UnitsPerMsec]

\* it_value: the carry is tested with > and not with >=.
FirstTrigger(ms) ==
    LET sec  == clock \div UnitsPerSec + ms \div MsecPerSec
        nSec == (clock % UnitsPerSec) + (ms % MsecPerSec) * UnitsPerMsec
    IN  IF nSec > UnitsPerSec THEN [sec |-> sec + 1, nSec |-> nSec - UnitsPerSec]
        ELSE [sec |-> sec, nSec |-> nSec]

\* setAndRun, with repeat or without, for a user who expects the first timeout
\* after `wanted` milliseconds; EINVAL is ignored and leaves the timerfd as it was.
SetAndRun(ms, repeat, wanted) ==
    LET first == FirstTrigger(ms)
        p     == IF repeat THEN ms * UnitsPerMsec ELSE 0
        valid == first.nSec < UnitsPerSec
    IN  /\ IF valid THEN SetTime(first.sec * UnitsPerSec + first.nSec, p)
           ELSE UNCHANGED kernelVars
        /\ asked' = clock + wanted * UnitsPerMsec
        /\ askedPeriod' = p
        /\ calls' = 0
        /\ refused' = ~valid
        /\ hurried' = (ms # wanted)

MayCall == alive /\ ~undefined

\* Fault: a running timer keeps its old deadline.
SetIntervalMutantNotNow(ms) ==
    /\ MayCall
    /\ interval' = ms
    /\ IF running
       THEN /\ asked' = clock + ms * UnitsPerMsec
            /\ askedPeriod' = IF singleShot THEN 0 ELSE ms * UnitsPerMsec
            /\ calls' = 0 /\ refused' = FALSE /\ hurried' = FALSE
       ELSE UNCHANGED askedVars
    /\ UNCHANGED <<alive, singleShot, running, clock, kernelVars, fdVars, loopVars>>

SetInterval(ms) ==
    /\ MayCall
    /\ interval' = ms
    /\ IF running THEN SetAndRun(ms, ~singleShot, ms)
       ELSE UNCHANGED <<kernelVars, askedVars>>
    /\ UNCHANGED <<alive, singleShot, running, clock, fdVars, loopVars>>

\* To single shot: triggerOnceIn(0), which is now, although the comment above it
\* sets only the interval to 0, and TimerTest.cpp:204 expects the timeout after
\* the timer's interval: that is what was asked for.
SetSingleShot(on) ==
    /\ MayCall /\ on # singleShot
    /\ singleShot' = on
    /\ IF ~running THEN UNCHANGED <<kernelVars, askedVars>>
       ELSE IF on THEN SetAndRun(0, FALSE, interval)
       ELSE SetAndRun(interval, TRUE, interval)
    /\ UNCHANGED <<alive, interval, running, clock, fdVars, loopVars>>

\* A single shot that has fired is still "running": nothing clears m_running.
Start ==
    /\ MayCall /\ ~running
    /\ running' = TRUE
    /\ SetAndRun(interval, ~singleShot, interval)
    /\ UNCHANGED <<alive, interval, singleShot, clock, fdVars, loopVars>>

Stop ==
    /\ MayCall /\ running
    /\ running' = FALSE
    /\ SetTime(Never, 0)
    /\ asked' = Never /\ askedPeriod' = 0 /\ calls' = 0 /\ refused' = FALSE
    /\ hurried' = FALSE
    /\ UNCHANGED <<alive, interval, singleShot, clock, fdVars, loopVars>>

\* ~Timer, called by another callback or functor of the round or between two
\* rounds: the functor is handed over, then the descriptor is closed.  The
\* functor keeps the TimerHandler alive, not the Timer.
Destroy ==
    /\ MayCall
    /\ alive' = FALSE /\ running' = FALSE
    /\ removePending' = TRUE
    /\ SetTime(Never, 0)
    /\ watched' = "none"
    /\ asked' = Never /\ askedPeriod' = 0 /\ calls' = 0 /\ refused' = FALSE
    /\ hurried' = FALSE
    /\ UNCHANGED <<interval, singleShot, clock, key, other, inWindow, round, undefined>>

-----------------------------------------------------------------------------
(***************************************************************************)
(* The loop, and the handler that gets the number next.                    *)
(***************************************************************************)
Poll ==
    /\ ~undefined /\ round = {}
    /\ round' = (IF watched = "timer" /\ expired THEN {"timer"} ELSE {})
                    \cup (IF removePending THEN {"functors"} ELSE {})
    /\ round' # {}
    /\ UNCHANGED <<alive, apiVars, clock, kernelVars, askedVars, fdVars,
                   removePending, undefined>>

\* Fault: the result of read is not looked at.
HandleInMutantNoTest ==
    /\ "timer" \in round /\ ~undefined
    /\ round' = round \ {"timer"}
    /\ undefined' = ~alive
    /\ expired' = FALSE
    /\ calls' = IF alive THEN calls + 1 ELSE calls
    /\ UNCHANGED <<alive, apiVars, clock, deadline, period, asked, askedPeriod,
                   refused, hurried, fdVars, removePending>>

\* TimerHandler::handleIn: the callback is called when there is an expiration
\* to read (EAGAIN after a stop or a new arming).
HandleIn ==
    /\ "timer" \in round /\ ~undefined
    /\ round' = round \ {"timer"}
    /\ undefined' = ~alive
    /\ expired' = FALSE
    /\ calls' = IF alive /\ expired THEN calls + 1 ELSE calls
    /\ UNCHANGED <<alive, apiVars, clock, deadline, period, asked, askedPeriod,
                   refused, hurried, fdVars, removePending>>

\* Fault: the handler is not taken out of the poll.
RemoveFunctorMutantNoDisable ==
    /\ "functors" \in round /\ ~undefined
    /\ round' = round \ {"functors"}
    /\ removePending' = FALSE
    /\ UNCHANGED <<alive, apiVars, clock, kernelVars, askedVars, fdVars, undefined>>

\* remove's functor: disable() erases whatever handler stands under the number.
RemoveFunctor ==
    /\ "functors" \in round /\ ~undefined
    /\ round' = round \ {"functors"}
    /\ removePending' = FALSE
    /\ key' = "none" /\ watched' = "none"
    /\ UNCHANGED <<alive, apiVars, clock, kernelVars, askedVars, other, inWindow,
                   undefined>>

\* active(): a handler opens a descriptor with the number, or changes the mask
\* of the one it has.  updateEvent adds when there is no key and else modifies,
\* which does nothing when the kernel does not have the number.
OtherActive ==
    /\ ~alive /\ ~undefined
    /\ other' = TRUE
    /\ key' = "other"
    /\ watched' = IF key = "none" THEN "other" ELSE watched
    /\ inWindow' = removePending
    /\ UNCHANGED <<alive, apiVars, clock, kernelVars, askedVars, loopVars>>

Next == \/ Elapse
        \/ \E ms \in Intervals : SetInterval(ms)
        \/ \E on \in BOOLEAN : SetSingleShot(on)
        \/ Start \/ Stop \/ Destroy
        \/ Poll \/ HandleIn \/ RemoveFunctor
        \/ OtherActive

Spec == Init /\ [][Next]_vars

-----------------------------------------------------------------------------
(***************************************************************************)
(* Properties.                                                             *)
(***************************************************************************)
\* How often the callback may have been called since the user's last call:
\* never after stop(), never before the moment asked for, once in single shot
\* mode, once for every period that has passed else.
Due == IF asked = Never THEN 0
       ELSE IF clock < asked THEN 0
       ELSE IF askedPeriod = 0 THEN 1
       ELSE 1 + (clock - asked) \div askedPeriod

\* Stale events of a round, expirations from before the last call and restarts
\* never cause a callback that is too early or one too many.  Two things do:
\* when the kernel refused the arming the timer goes on as it was armed before,
\* and setSingleShot(true) on a running timer causes the one callback at once
\* (SingleShotWaits).
CallsAreDue == refused \/ calls <= IF hurried THEN 1 ELSE Due

\* A timeout is never lost: the timerfd is armed for exactly the next moment
\* that is due, and what was due has been called or waits to be read; after
\* setSingleShot(true) on a running timer that is one timeout, due at once.
NothingForgotten ==
    running /\ ~refused =>
        /\ deadline = IF hurried THEN Never
                      ELSE IF clock < asked THEN asked
                      ELSE IF askedPeriod = 0 THEN Never
                      ELSE asked + Due * askedPeriod
        /\ Due > 0 \/ hurried => calls > 0 \/ expired

\* Timer.cpp:204, "timerfd_settime will always success": it fails only when the
\* moment asked for is a whole second of the clock that was reached by adding
\* milliseconds, because 1000000000 is not carried.
RefusedOnlyAtWholeSecond == refused => asked % UnitsPerSec = 0

\* Another handler that took over the number is watched, unless it was
\* registered between the close of the timer's descriptor and the functor that
\* takes the timer's key out of the map: then updateEvent modified a key that
\* the kernel no longer had.
OtherIsWatched == other /\ ~inWindow => watched = "other" /\ key = "other"

\* A claim the code does not keep, so no run lists it.
\* TimerTest.cpp:203-206, "single shot": setSingleShot(true) on a timer that
\* runs arms it for its interval.  The callback comes at once.
SingleShotWaits == hurried /\ calls > 0 => clock >= asked
=============================================================================
