---------------------------- MODULE TimingProofs ----------------------------
(***************************************************************************)
(* Proofs about the two parts that measure time, for every value of their  *)
(* constants: the timerfd behind Timer, and the TimeWheel that such a      *)
(* timer's callback turns.                                                 *)
(*                                                                         *)
(* Timer, for any number of milliseconds in a second and of units in a     *)
(* millisecond: first the arithmetic (division, the two fields of          *)
(* FirstTrigger, and what a unit of time does to the timeouts that are     *)
(* due), then the inductive invariant and its steps.                       *)
(*                                                                         *)
(* TimeWheel, for any set of connections and any number of buckets: types, *)
(* the index of an entry, and the refinement of WheelCountdown.            *)
(***************************************************************************)
EXTENDS Timer, TimeWheel, TLAPS

\* Multiplication by p keeps the order.
LEMMA TimesMonotone ==
    ASSUME NEW a \in Nat, NEW b \in Nat, NEW p \in Nat, a <= b
    PROVE  a * p <= b * p
<1>1. b - a \in Nat /\ (b - a) * p \in Nat
  OBVIOUS
<1>2. b * p = a * p + (b - a) * p
  OBVIOUS
<1> QED  BY <1>1, <1>2

\* Quotient and remainder.
LEMMA DivisionIs ==
    ASSUME NEW x \in Nat, NEW p \in Nat \ {0}
    PROVE  /\ x \div p \in Nat /\ x % p \in 0..(p - 1)
           /\ x = (x \div p) * p + (x % p)
<1>1. x \div p \in Nat  OBVIOUS
<1>2. x % p \in 0..(p - 1)  OBVIOUS
<1>3. x = p * (x \div p) + (x % p)  OBVIOUS
<1>4. p * (x \div p) = (x \div p) * p  BY <1>1
<1> QED  BY <1>1, <1>2, <1>3, <1>4

\* No other numbers are quotient and remainder.
LEMMA DivisionUnique ==
    ASSUME NEW k \in Nat, NEW r \in Nat, NEW p \in Nat \ {0}, r < p
    PROVE  (k * p + r) \div p = k /\ (k * p + r) % p = r
<1> DEFINE x == k * p + r
           q == x \div p
<1>1. x \in Nat /\ k * p \in Nat
  OBVIOUS
<1>2. /\ q \in Nat /\ x % p \in 0..(p - 1)
      /\ x = q * p + (x % p)
  BY <1>1, DivisionIs
<1> HIDE DEF x, q
<1>3. x = k * p + r  BY DEF x
<1>4. ~(q < k)
  <2> SUFFICES ASSUME q < k PROVE FALSE  OBVIOUS
  <2>1. (q + 1) * p <= k * p  BY <1>2, TimesMonotone
  <2>2. (q + 1) * p = q * p + p  BY <1>2
  <2>3. q * p \in Nat  BY <1>2
  <2> QED  BY <1>1, <1>2, <1>3, <2>1, <2>2, <2>3
<1>5. ~(k < q)
  <2> SUFFICES ASSUME k < q PROVE FALSE  OBVIOUS
  <2>1. (k + 1) * p <= q * p  BY <1>2, TimesMonotone
  <2>2. (k + 1) * p = k * p + p  OBVIOUS
  <2>3. q * p \in Nat  BY <1>2
  <2> QED  BY <1>1, <1>2, <1>3, <2>1, <2>2, <2>3
<1>6. q = k  BY <1>2, <1>4, <1>5
<1>7. x % p = r  BY <1>1, <1>2, <1>3, <1>6
<1> QED  BY <1>6, <1>7 DEF x, q

\* A second has units.
LEMMA Units == UnitsPerSec \in Nat \ {0}
BY UnitsAssumption DEF UnitsPerSec

\* The division of the sum of a moment and an interval, as FirstTrigger adds
\* up its two fields.
LEMMA SumOfFields ==
    ASSUME NEW c \in Nat, NEW ms \in Nat
    PROVE  LET sec  == c \div UnitsPerSec + ms \div MsecPerSec
               nSec == (c % UnitsPerSec) + (ms % MsecPerSec) * UnitsPerMsec
           IN  /\ sec \in Nat /\ nSec \in Nat /\ nSec < 2 * UnitsPerSec
               /\ c + ms * UnitsPerMsec = sec * UnitsPerSec + nSec
<1> DEFINE a == c \div UnitsPerSec
           b == c % UnitsPerSec
           d == ms \div MsecPerSec
           e == ms % MsecPerSec
<1>1. /\ a \in Nat /\ b \in 0..(UnitsPerSec - 1) /\ c = a * UnitsPerSec + b
      /\ d \in Nat /\ e \in 0..(MsecPerSec - 1) /\ ms = d * MsecPerSec + e
  BY UnitsAssumption, Units, DivisionIs
<1> HIDE DEF a, b, d, e
<1>2. /\ MsecPerSec \in Nat \ {0} /\ UnitsPerMsec \in Nat \ {0}
      /\ UnitsPerSec = MsecPerSec * UnitsPerMsec
  BY UnitsAssumption DEF UnitsPerSec
<1>3. e * UnitsPerMsec \in Nat /\ e * UnitsPerMsec < UnitsPerSec
  <2>1. e \in Nat /\ e + 1 \in Nat /\ e + 1 <= MsecPerSec  BY <1>1, <1>2
  <2>2. (e + 1) * UnitsPerMsec <= UnitsPerSec
    BY <1>2, <2>1, TimesMonotone
  <2>3. (e + 1) * UnitsPerMsec = e * UnitsPerMsec + UnitsPerMsec
    BY <1>2, <2>1
  <2>4. e * UnitsPerMsec \in Nat  BY <1>2, <2>1
  <2> QED  BY <1>2, <2>2, <2>3, <2>4, Units
<1>4. ms * UnitsPerMsec = d * UnitsPerSec + e * UnitsPerMsec
  BY <1>1, <1>2
<1>5. (a + d) * UnitsPerSec = a * UnitsPerSec + d * UnitsPerSec
  BY <1>1, Units
<1>6. a * UnitsPerSec \in Nat /\ d * UnitsPerSec \in Nat
  BY <1>1, Units
<1>7. /\ a + d \in Nat /\ b + e * UnitsPerMsec \in Nat
      /\ b + e * UnitsPerMsec < 2 * UnitsPerSec
      /\ c + ms * UnitsPerMsec = (a + d) * UnitsPerSec + (b + e * UnitsPerMsec)
  BY <1>1, <1>3, <1>4, <1>5, <1>6, Units
<1> QED  BY <1>7 DEF a, b, d, e

\* FirstTrigger yields exactly the moment that is asked for, or a nanosecond
\* field of one second; then the moment is a whole second.
LEMMA FirstTriggerMoment ==
    ASSUME NEW ms \in Nat, clock \in Nat
    PROVE  LET first == FirstTrigger(ms)
               moment == clock + ms * UnitsPerMsec
           IN  IF first.nSec < UnitsPerSec
               THEN first.sec * UnitsPerSec + first.nSec = moment
               ELSE moment % UnitsPerSec = 0
<1> DEFINE sec  == clock \div UnitsPerSec + ms \div MsecPerSec
           nSec == (clock % UnitsPerSec) + (ms % MsecPerSec) * UnitsPerMsec
           moment == clock + ms * UnitsPerMsec
<1>1. /\ sec \in Nat /\ nSec \in Nat /\ nSec < 2 * UnitsPerSec
      /\ moment = sec * UnitsPerSec + nSec
  BY SumOfFields
<1>2. FirstTrigger(ms) = IF nSec > UnitsPerSec
                         THEN [sec |-> sec + 1, nSec |-> nSec - UnitsPerSec]
                         ELSE [sec |-> sec, nSec |-> nSec]
  BY DEF FirstTrigger
<1> HIDE DEF sec, nSec, moment
<1>3. (sec + 1) * UnitsPerSec = sec * UnitsPerSec + UnitsPerSec
      /\ sec * UnitsPerSec \in Nat
  BY <1>1, Units
<1>4. CASE nSec > UnitsPerSec
  <2>1. FirstTrigger(ms).sec = sec + 1 /\ FirstTrigger(ms).nSec = nSec - UnitsPerSec
    BY <1>2, <1>4
  <2>2. (sec + 1) * UnitsPerSec + (nSec - UnitsPerSec) = moment
        /\ nSec - UnitsPerSec < UnitsPerSec
    BY <1>1, <1>3, <1>4, Units
  <2> QED  BY <2>1, <2>2 DEF moment
<1>5. CASE nSec < UnitsPerSec
  <2>1. FirstTrigger(ms).sec = sec /\ FirstTrigger(ms).nSec = nSec
    BY <1>1, <1>2, <1>5, Units
  <2> QED  BY <1>1, <1>5, <2>1 DEF moment
<1>6. CASE nSec = UnitsPerSec
  <2>1. FirstTrigger(ms).nSec = UnitsPerSec
    BY <1>1, <1>2, <1>6, Units
  <2>2. moment = (sec + 1) * UnitsPerSec + 0
    BY <1>1, <1>3, <1>6, Units
  <2>3. moment % UnitsPerSec = 0
    <3>1. ((sec + 1) * UnitsPerSec + 0) % UnitsPerSec = 0
      <4>1. sec + 1 \in Nat /\ 0 < UnitsPerSec  BY <1>1, Units
      <4> QED  BY <4>1, Units, DivisionUnique
    <3> QED  BY <2>2, <3>1
  <2> QED  BY <2>1, <2>3, Units DEF moment
<1> QED  BY <1>1, <1>4, <1>5, <1>6, Units

-----------------------------------------------------------------------------
(***************************************************************************)
(* The timeouts that are due at moment c when the first is asked for at a  *)
(* and the next ones every p units, and the moment of the next one.        *)
(***************************************************************************)
DueAt(c, a, p) == IF c < a THEN 0 ELSE IF p = 0 THEN 1 ELSE 1 + (c - a) \div p

\* A deadline d that has been reached at moment t, and the one that follows it.
Reached(d, t) == d # Never /\ d <= t
Again(d, p) == IF p = 0 THEN Never ELSE d + p

NextAt(c, a, p) == IF c < a THEN a ELSE IF p = 0 THEN Never
                   ELSE a + DueAt(c, a, p) * p

\* One unit of time: either the next moment is reached, which makes one more
\* timeout due, or neither changes.
LEMMA OneUnit ==
    ASSUME NEW c \in Nat, NEW a \in Nat, NEW p \in Nat, NEW d, d = NextAt(c, a, p)
    PROVE  /\ DueAt(c, a, p) \in Nat
           /\ Reached(d, c + 1) =>
                /\ DueAt(c + 1, a, p) = DueAt(c, a, p) + 1
                /\ NextAt(c + 1, a, p) = Again(d, p)
           /\ ~Reached(d, c + 1) =>
                /\ DueAt(c + 1, a, p) = DueAt(c, a, p)
                /\ NextAt(c + 1, a, p) = d
<1> USE NeverAssumption DEF Reached, Again
<1>1. CASE c + 1 < a
  BY <1>1 DEF DueAt, NextAt
<1>2. CASE c + 1 = a
  <2>1. CASE p = 0
    <3>1. DueAt(c, a, p) = 0 /\ NextAt(c, a, p) = a
      BY <1>2 DEF DueAt, NextAt
    <3>2. DueAt(c + 1, a, p) = 1 /\ NextAt(c + 1, a, p) = Never
      BY <1>2, <2>1 DEF DueAt, NextAt
    <3> QED  BY <1>2, <2>1, <3>1, <3>2
  <2>2. CASE p # 0
    <3>1. (c + 1 - a) \div p = 0
      <4>1. (0 * p + 0) \div p = 0  BY <2>2, DivisionUnique
      <4> QED  BY <1>2, <4>1
    <3>2. DueAt(c, a, p) = 0 /\ NextAt(c, a, p) = a
      BY <1>2 DEF DueAt, NextAt
    <3>3. DueAt(c + 1, a, p) = 1 /\ NextAt(c + 1, a, p) = a + 1 * p
      BY <1>2, <2>2, <3>1 DEF DueAt, NextAt
    <3> QED  BY <1>2, <2>2, <3>2, <3>3
  <2> QED  BY <2>1, <2>2
<1>3. CASE c >= a /\ p = 0
  <2>1. DueAt(c, a, p) = 1 /\ NextAt(c, a, p) = Never
    BY <1>3 DEF DueAt, NextAt
  <2>2. DueAt(c + 1, a, p) = 1 /\ NextAt(c + 1, a, p) = Never
    BY <1>3 DEF DueAt, NextAt
  <2> QED  BY <2>1, <2>2
<1>4. CASE c >= a /\ p # 0
  <2> DEFINE x == c - a
             k == x \div p
             r == x % p
  <2>1. x \in Nat  BY <1>4
  <2>2. k \in Nat /\ r \in 0..(p - 1) /\ x = k * p + r
    BY <1>4, <2>1, DivisionIs
  <2>3. DueAt(c, a, p) = 1 + k /\ DueAt(c + 1, a, p) = 1 + ((x + 1) \div p)
    <3>1. c + 1 - a = x + 1 /\ ~(c < a) /\ ~(c + 1 < a)  BY <1>4
    <3> QED  BY <1>4, <3>1 DEF DueAt
  <2>4. NextAt(c, a, p) = a + (1 + k) * p
        /\ NextAt(c + 1, a, p) = a + DueAt(c + 1, a, p) * p
    BY <1>4, <2>3 DEF NextAt
  <2> HIDE DEF k, r
  <2>5. k * p \in Nat /\ (1 + k) * p = k * p + p
    BY <2>2
  <2>6. CASE r + 1 = p
    <3>1. x + 1 = (1 + k) * p + 0  BY <2>1, <2>2, <2>5, <2>6
    <3>2. (x + 1) \div p = 1 + k
      <4>1. 1 + k \in Nat /\ 0 < p /\ p \in Nat \ {0}  BY <1>4, <2>2
      <4>2. ((1 + k) * p + 0) \div p = 1 + k  BY ONLY <4>1, DivisionUnique
      <4> QED  BY <3>1, <4>2
    <3>3. NextAt(c, a, p) = c + 1
      <4>1. (1 + k) * p \in Nat  BY <2>5
      <4>2. (1 + k) * p = c + 1 - a  BY <3>1, <4>1
      <4> QED  BY <2>4, <4>2
    <3>4. (2 + k) * p = (1 + k) * p + p  BY <2>2
    <3>5. DueAt(c + 1, a, p) = 2 + k  BY <2>2, <2>3, <3>2
    <3> QED  BY <1>4, <2>2, <2>3, <2>4, <2>5, <3>3, <3>4, <3>5
  <2>7. CASE r + 1 # p
    <3>1. x + 1 = k * p + (r + 1) /\ r + 1 \in Nat /\ r + 1 < p
      BY <2>1, <2>2, <2>5, <2>7
    <3>2. (x + 1) \div p = k
      <4>1. (k * p + (r + 1)) \div p = k
        BY ONLY <1>4, <2>2, <3>1, DivisionUnique
      <4> QED  BY <3>1, <4>1
    <3>3. a + (1 + k) * p > c + 1 /\ a + (1 + k) * p \in Nat
      BY <2>2, <2>5, <3>1
    <3> QED  BY <2>2, <2>3, <2>4, <3>2, <3>3
  <2> QED  BY <2>6, <2>7
<1> QED  BY <1>1, <1>2, <1>3, <1>4

-----------------------------------------------------------------------------
(***************************************************************************)
(* The inductive invariant.  Its first half is about the timerfd and the   *)
(* clock, its second half about the descriptor's number.                   *)
(***************************************************************************)
\* An expiration that has not been read.
Unread == IF expired THEN 1 ELSE 0

\* The kernel produces at most one expiration in a unit of time.
CallsBounded == calls + Unread <= clock + 1 /\ period <= 2 * UnitsPerSec

StoppedIsQuiet ==
    ~running => /\ asked = Never /\ askedPeriod = 0 /\ calls = 0
                /\ ~refused /\ ~hurried
                /\ deadline = Never /\ ~expired

ArmedAsAsked ==
    running => alive /\ asked \in Nat /\ (~refused => period = askedPeriod)

\* The timeouts that CallsAreDue allows.
Allowed == IF hurried THEN 1 ELSE Due

\* An expiration that waits has its place among them.
WaitingIsDue == ~refused => calls + Unread <= Allowed

ClockInv ==
    /\ CallsBounded /\ StoppedIsQuiet /\ ArmedAsAsked /\ WaitingIsDue
    /\ NothingForgotten /\ RefusedOnlyAtWholeSecond

\* A round has the functor to run only while it is pending, which it is after
\* the timer's end only; a handler that comes meanwhile comes in the window.
FunctorPending ==
    /\ "functors" \in round => removePending
    /\ removePending => ~alive /\ (other => inWindow)
    /\ alive => ~other

\* When it has run, the timer's key is gone, and a new one stands in the map
\* and in the kernel.
KeyIsClean ==
    ~alive /\ ~removePending => key = "none" \/ (key = "other" /\ watched = "other")

NumberInv == FunctorPending /\ KeyIsClean /\ OtherIsWatched

TimerInv == TypeOK /\ ClockInv /\ NumberInv

\* The variables of each half.
clockVars  == <<alive, apiVars, clock, kernelVars, askedVars>>
numberVars == <<alive, fdVars, removePending, round>>

\* The units of an interval that the user may ask for.
LEMMA IntervalUnits ==
    ASSUME NEW ms \in Intervals
    PROVE  /\ ms \in Nat /\ ms * UnitsPerMsec \in Nat
           /\ ms * UnitsPerMsec <= 2 * UnitsPerSec
           /\ ms = 0 <=> ms * UnitsPerMsec = 0
<1>1. /\ MsecPerSec \in Nat \ {0} /\ UnitsPerMsec \in Nat \ {0}
      /\ UnitsPerSec = MsecPerSec * UnitsPerMsec
  BY UnitsAssumption DEF UnitsPerSec
<1>2. ms \in Nat /\ ms <= 2 * MsecPerSec /\ 2 * MsecPerSec \in Nat
  BY <1>1 DEF Intervals
<1>3. ms * UnitsPerMsec <= (2 * MsecPerSec) * UnitsPerMsec
  BY <1>1, <1>2, TimesMonotone
<1>4. (2 * MsecPerSec) * UnitsPerMsec = 2 * UnitsPerSec
  BY <1>1
<1>5. ms # 0 => 1 * UnitsPerMsec <= ms * UnitsPerMsec
  BY <1>1, <1>2, TimesMonotone
<1>6. ms * UnitsPerMsec \in Nat /\ (ms = 0 => ms * UnitsPerMsec = 0)
  BY <1>1, <1>2
<1> QED  BY <1>1, <1>2, <1>3, <1>4, <1>5, <1>6

\* The timerfd expires when its deadline has been reached.
LEMMA ExpireCases ==
    ASSUME NEW t, NEW d, NEW p
    PROVE  /\ Reached(d, t) =>
                /\ Expire(t, d, p).deadline = Again(d, p)
                /\ Expire(t, d, p).expired = TRUE
           /\ ~Reached(d, t) =>
                /\ Expire(t, d, p).deadline = d
                /\ Expire(t, d, p).expired = FALSE
BY DEF Expire, Reached, Again

\* The initial states.
LEMMA InitInv == Init => TimerInv
<1> SUFFICES ASSUME Init PROVE TimerInv  OBVIOUS
<1> USE NeverAssumption, Units, UnitsAssumption, ClockAssumption DEF Init
<1>1. TypeOK
  <2>1. interval \in Intervals  BY DEF Intervals
  <2>2. clock \in 0..MaxClock  OBVIOUS
  <2>3. 0 \in Moments  BY DEF Moments
  <2> QED  BY <2>1, <2>2, <2>3 DEF TypeOK, Owners
<1>2. ClockInv
  BY DEF ClockInv, CallsBounded, StoppedIsQuiet, ArmedAsAsked, WaitingIsDue,
         NothingForgotten, RefusedOnlyAtWholeSecond, Unread, Due, Allowed
<1>3. NumberInv
  BY DEF NumberInv, FunctorPending, KeyIsClean, OtherIsWatched
<1> QED  BY <1>1, <1>2, <1>3 DEF TimerInv

\* The half about the number does not see the clock.
LEMMA NumberUntouched ==
    ASSUME NumberInv, UNCHANGED numberVars PROVE NumberInv'
BY DEF NumberInv, numberVars, fdVars, FunctorPending, KeyIsClean, OtherIsWatched

\* The half about the clock does not see the number.
LEMMA ClockUntouched ==
    ASSUME ClockInv, UNCHANGED clockVars PROVE ClockInv'
BY DEF ClockInv, clockVars, apiVars, kernelVars, askedVars, CallsBounded,
       StoppedIsQuiet, ArmedAsAsked, WaitingIsDue, NothingForgotten,
       RefusedOnlyAtWholeSecond, Unread, Due, Allowed

\* The clock moves.
LEMMA ElapseStep ==
    ASSUME TimerInv, Elapse
    PROVE  TimerInv'
<1> DEFINE hit == Reached(deadline, clock + 1)
<1> USE NeverAssumption, Units, UnitsAssumption DEF Moments
<1>1. /\ clock \in Nat /\ clock' = clock + 1 /\ clock' \in 0..MaxClock
      /\ UNCHANGED <<alive, apiVars, period, askedVars, fdVars, loopVars>>
      /\ period \in Nat /\ period <= 2 * UnitsPerSec /\ calls \in Nat
      /\ askedPeriod \in Nat /\ expired \in BOOLEAN
      /\ deadline \in Nat \cup {Never}
  BY DEF TimerInv, TypeOK, ClockInv, CallsBounded, Elapse
<1> DEFINE next == Expire(clock + 1, deadline, period)
<1>1a. deadline' = next.deadline /\ expired' = (expired \/ next.expired)
  BY <1>1 DEF Elapse
<1>2. hit => deadline' = Again(deadline, period) /\ expired' = TRUE
  <2>1. hit => next.deadline = Again(deadline, period) /\ next.expired = TRUE
    BY ExpireCases
  <2> QED  BY <1>1a, <2>1, Zenon
<1>3. ~hit => deadline' = deadline /\ expired' = expired
  <2>1. ~hit => next.deadline = deadline /\ next.expired = FALSE
    BY ExpireCases
  <2> QED  BY <1>1, <1>1a, <2>1, Zenon
<1>4. TypeOK'
  <2>1. deadline' \in Moments \cup {Never}
    <3>1. CASE hit
      BY <1>1, <1>2, <3>1 DEF Reached, Again
    <3>2. CASE ~hit
      BY <1>3, <3>2 DEF TimerInv, TypeOK
    <3> QED  BY <3>1, <3>2
  <2>2. expired' \in BOOLEAN
    BY <1>1, <1>2, <1>3
  <2> QED  BY <1>1, <2>1, <2>2 DEF TimerInv, TypeOK, apiVars, askedVars, fdVars, loopVars
<1>5. NumberInv'
  BY <1>1, NumberUntouched DEF TimerInv, numberVars, loopVars, fdVars
<1>6. CallsBounded'
  BY <1>1, <1>2, <1>3 DEF TimerInv, ClockInv, CallsBounded, Unread, askedVars
<1>7. StoppedIsQuiet'
  BY <1>1, <1>3 DEF Reached, TimerInv, ClockInv, StoppedIsQuiet, askedVars, apiVars
<1>8. ArmedAsAsked' /\ RefusedOnlyAtWholeSecond'
  BY <1>1 DEF TimerInv, ClockInv, ArmedAsAsked, RefusedOnlyAtWholeSecond, askedVars,
         apiVars
<1>9. WaitingIsDue' /\ NothingForgotten'
  <2>1. CASE ~running
    BY <1>1, <1>3, <2>1 DEF Reached, TimerInv, ClockInv, StoppedIsQuiet, WaitingIsDue,
       NothingForgotten, Unread, Due, Allowed, apiVars, askedVars
  <2>2. CASE refused
    BY <1>1, <2>2 DEF WaitingIsDue, NothingForgotten, askedVars
  <2>3. CASE running /\ ~refused /\ hurried
    <3>1. deadline = Never /\ (calls > 0 \/ expired) /\ calls + Unread <= 1
      BY <2>3 DEF TimerInv, ClockInv, NothingForgotten, WaitingIsDue, Allowed
    <3>2. deadline' = Never /\ expired' = expired /\ calls' = calls /\ hurried' = hurried
      BY <1>1, <1>3, <3>1 DEF Reached, askedVars
    <3> QED
      BY <2>3, <3>1, <3>2 DEF WaitingIsDue, NothingForgotten, Allowed, Unread
  <2>4. CASE running /\ ~refused /\ ~hurried
    <3>1. asked \in Nat /\ period = askedPeriod
      BY <2>4 DEF TimerInv, ClockInv, ArmedAsAsked
    <3>2. Due = DueAt(clock, asked, askedPeriod)
      BY <3>1 DEF Due, DueAt
    <3>3. Due' = DueAt(clock + 1, asked, askedPeriod)
      BY <1>1, <3>1 DEF Due, DueAt, askedVars
    <3>4. /\ deadline = NextAt(clock, asked, askedPeriod)
          /\ Due > 0 => calls > 0 \/ expired
          /\ calls + Unread <= Due
      BY <2>4, <3>2 DEF TimerInv, ClockInv, NothingForgotten, NextAt, WaitingIsDue,
         Allowed
    <3>5. /\ Due \in Nat
          /\ hit => /\ Due' = Due + 1
                    /\ NextAt(clock + 1, asked, askedPeriod) = deadline'
          /\ ~hit => /\ Due' = Due
                     /\ NextAt(clock + 1, asked, askedPeriod) = deadline'
      <4>1. /\ DueAt(clock, asked, askedPeriod) \in Nat
            /\ hit => /\ DueAt(clock + 1, asked, askedPeriod)
                            = DueAt(clock, asked, askedPeriod) + 1
                      /\ NextAt(clock + 1, asked, askedPeriod)
                            = Again(deadline, askedPeriod)
            /\ ~hit => /\ DueAt(clock + 1, asked, askedPeriod)
                            = DueAt(clock, asked, askedPeriod)
                       /\ NextAt(clock + 1, asked, askedPeriod) = deadline
        <5>1. /\ clock \in Nat /\ asked \in Nat /\ askedPeriod \in Nat
              /\ deadline = NextAt(clock, asked, askedPeriod)
          BY <1>1, <3>1, <3>4
        <5> HIDE DEF hit
        <5>2. DueAt(clock, asked, askedPeriod) \in Nat
          BY ONLY <5>1, OneUnit
        <5>3. ASSUME hit
              PROVE  DueAt(clock + 1, asked, askedPeriod)
                        = DueAt(clock, asked, askedPeriod) + 1
          BY ONLY <5>1, <5>3, OneUnit DEF hit
        <5>4. ASSUME hit
              PROVE  NextAt(clock + 1, asked, askedPeriod) = Again(deadline, askedPeriod)
          BY ONLY <5>1, <5>4, OneUnit DEF hit
        <5>5. ASSUME ~hit
              PROVE  DueAt(clock + 1, asked, askedPeriod)
                        = DueAt(clock, asked, askedPeriod)
          BY ONLY <5>1, <5>5, OneUnit DEF hit
        <5>6. ASSUME ~hit
              PROVE  NextAt(clock + 1, asked, askedPeriod) = deadline
          BY ONLY <5>1, <5>6, OneUnit DEF hit
        <5> QED  BY <5>2, <5>3, <5>4, <5>5, <5>6
      <4> QED  BY <1>2, <1>3, <3>1, <3>2, <3>3, <4>1
    <3>6. deadline' = IF clock' < asked' THEN asked'
                      ELSE IF askedPeriod' = 0 THEN Never
                      ELSE asked' + Due' * askedPeriod'
      BY <1>1, <3>3, <3>5 DEF NextAt, askedVars
    <3>7. Due' > 0 => calls' > 0 \/ expired'
      BY <1>1, <1>2, <1>3, <3>4, <3>5 DEF askedVars
    <3>8. calls' + Unread' <= Due'
      BY <1>1, <1>2, <1>3, <3>4, <3>5 DEF askedVars, Unread
    <3>9. ~hurried'
      BY <1>1, <2>4 DEF askedVars
    <3> QED  BY <3>6, <3>7, <3>8, <3>9 DEF WaitingIsDue, NothingForgotten, Allowed
  <2> QED  BY <1>1, <2>1, <2>2, <2>3, <2>4 DEF TimerInv, TypeOK
<1> QED  BY <1>4, <1>5, <1>6, <1>7, <1>8, <1>9 DEF TimerInv, ClockInv

\* setAndRun: a timer that runs is armed anew, or the kernel refuses.
LEMMA Arming ==
    ASSUME TimerInv, NEW ms \in Intervals, NEW repeat \in BOOLEAN,
           SetAndRun(ms, repeat, ms), UNCHANGED clock, running' = TRUE, alive' = TRUE
    PROVE  /\ ClockInv'
           /\ deadline' \in Moments \cup {Never} /\ asked' \in Moments \cup {Never}
           /\ {period', askedPeriod', calls'} \subseteq Moments
           /\ expired' \in BOOLEAN /\ refused' \in BOOLEAN /\ hurried' \in BOOLEAN
<1> DEFINE first  == FirstTrigger(ms)
           units  == ms * UnitsPerMsec
           p      == IF repeat THEN units ELSE 0
           moment == clock + units
<1>0. /\ clock \in Nat /\ clock <= MaxClock /\ MaxClock \in Nat
      /\ period \in Nat /\ period <= 2 * UnitsPerSec
      /\ deadline \in Moments \cup {Never} /\ expired \in BOOLEAN
  BY UnitsAssumption DEF TimerInv, TypeOK, ClockInv, CallsBounded, Moments
<1>1. /\ asked' = moment /\ askedPeriod' = p /\ calls' = 0
      /\ refused' = ~(first.nSec < UnitsPerSec) /\ hurried' = FALSE
  BY DEF SetAndRun
<1>2. /\ ms \in Nat /\ units \in Nat /\ units <= 2 * UnitsPerSec
      /\ ms = 0 <=> units = 0
  BY IntervalUnits
<1>3. IF first.nSec < UnitsPerSec
      THEN first.sec * UnitsPerSec + first.nSec = moment
      ELSE moment % UnitsPerSec = 0
  BY <1>0, <1>2, FirstTriggerMoment
<1>4. first.nSec < UnitsPerSec =>
        /\ deadline' = Expire(clock, moment, p).deadline
        /\ expired' = Expire(clock, moment, p).expired
        /\ period' = p
  BY <1>3 DEF SetAndRun, SetTime
<1>5. ~(first.nSec < UnitsPerSec) =>
        deadline' = deadline /\ period' = period /\ expired' = expired
  BY DEF SetAndRun, kernelVars
<1> HIDE DEF first, units
<1>6. moment \in Nat /\ moment <= MaxClock + 2 * UnitsPerSec /\ moment # Never
      /\ p \in Nat /\ p <= 2 * UnitsPerSec
  BY <1>0, <1>2, NeverAssumption, Units
<1>7. asked' \in Moments \cup {Never} /\ askedPeriod' \in Moments /\ calls' \in Moments
      /\ refused' \in BOOLEAN /\ hurried' \in BOOLEAN
  <2>1. asked' \in Moments \cup {Never} /\ askedPeriod' \in Moments /\ calls' \in Moments
    BY <1>0, <1>1, <1>6, Units DEF Moments
  <2>2. refused' \in BOOLEAN /\ hurried' \in BOOLEAN
    BY <1>1
  <2> QED  BY <2>1, <2>2
<1>8. ArmedAsAsked' /\ StoppedIsQuiet' /\ RefusedOnlyAtWholeSecond'
  BY <1>1, <1>3, <1>4, <1>6
  DEF ArmedAsAsked, StoppedIsQuiet, RefusedOnlyAtWholeSecond
<1>9. CASE ~(first.nSec < UnitsPerSec)
  <2>1. CallsBounded'
    BY <1>0, <1>1, <1>5, <1>9 DEF CallsBounded, Unread
  <2>2. WaitingIsDue' /\ NothingForgotten'
    BY <1>1, <1>9 DEF WaitingIsDue, NothingForgotten, Allowed
  <2>3. deadline' \in Moments \cup {Never} /\ period' \in Moments /\ expired' \in BOOLEAN
    BY <1>0, <1>5, <1>9, Units DEF Moments
  <2> QED  BY <1>7, <1>8, <2>1, <2>2, <2>3 DEF ClockInv
<1>10. CASE first.nSec < UnitsPerSec
  <2>1. CASE units = 0
    <3>1. moment = clock /\ p = 0  BY <1>0, <2>1
    <3>2. Reached(moment, clock)
      BY <1>0, <1>6, <3>1 DEF Reached
    <3>3. deadline' = Never /\ expired' = TRUE /\ period' = 0
      BY <1>4, <1>10, <3>1, <3>2, ExpireCases DEF Again
    <3>4. Due' = 1
      BY <1>0, <1>1, <1>6, <3>1 DEF Due
    <3>5. CallsBounded' /\ WaitingIsDue' /\ NothingForgotten'
      BY <1>0, <1>1, <3>1, <3>3, <3>4, Units
      DEF CallsBounded, WaitingIsDue, NothingForgotten, Unread, Allowed
    <3>6. deadline' \in Moments \cup {Never} /\ period' \in Moments /\ expired' \in BOOLEAN
      BY <1>0, <3>3, Units DEF Moments
    <3> QED  BY <1>7, <1>8, <3>5, <3>6 DEF ClockInv
  <2>2. CASE units # 0
    <3>1. moment > clock  BY <1>0, <1>2, <2>2
    <3>2. ~Reached(moment, clock)
      BY <1>0, <1>6, <3>1 DEF Reached
    <3>3. deadline' = moment /\ expired' = FALSE /\ period' = p
      BY <1>4, <1>10, <3>2, ExpireCases
    <3>4. Due' = 0
      BY <1>0, <1>1, <1>6, <3>1 DEF Due
    <3>5. CallsBounded' /\ WaitingIsDue' /\ NothingForgotten'
      BY <1>0, <1>1, <1>6, <3>1, <3>3, <3>4, Units
      DEF CallsBounded, WaitingIsDue, NothingForgotten, Unread, Allowed
    <3>6. deadline' \in Moments \cup {Never} /\ period' \in Moments /\ expired' \in BOOLEAN
      <4>1. moment \in Moments  BY <1>0, <1>6, Units DEF Moments
      <4>2. p \in Moments  BY <1>0, <1>6, Units DEF Moments
      <4> QED  BY <3>3, <4>1, <4>2
    <3> QED  BY <1>7, <1>8, <3>5, <3>6 DEF ClockInv
  <2> QED  BY <2>1, <2>2
<1> QED  BY <1>9, <1>10

\* setSingleShot(true) on a timer that runs: it is armed for now, whatever the
\* interval is.
LEMMA Hurrying ==
    ASSUME TimerInv, NEW wanted \in Intervals,
           SetAndRun(0, FALSE, wanted), UNCHANGED clock, running' = TRUE, alive' = TRUE
    PROVE  /\ ClockInv'
           /\ deadline' \in Moments \cup {Never} /\ asked' \in Moments \cup {Never}
           /\ {period', askedPeriod', calls'} \subseteq Moments
           /\ expired' \in BOOLEAN /\ refused' \in BOOLEAN /\ hurried' \in BOOLEAN
<1> DEFINE first == FirstTrigger(0)
<1>0. clock \in Nat /\ clock <= MaxClock /\ MaxClock \in Nat
  BY UnitsAssumption DEF TimerInv, TypeOK
<1>1. 0 \in Intervals /\ 0 \in Nat
  BY UnitsAssumption DEF Intervals
<1>2. first.nSec < UnitsPerSec /\ first.sec * UnitsPerSec + first.nSec = clock
  <2>1. /\ clock % UnitsPerSec \in Nat /\ clock % UnitsPerSec < UnitsPerSec
        /\ clock \div UnitsPerSec \in Nat
        /\ clock = (clock \div UnitsPerSec) * UnitsPerSec + (clock % UnitsPerSec)
    BY <1>0, Units, DivisionIs
  <2>2. 0 % MsecPerSec = 0 /\ 0 \div MsecPerSec = 0
    <3>1. 0 \in Nat /\ MsecPerSec \in Nat \ {0} /\ 0 < MsecPerSec
      BY UnitsAssumption
    <3>2. (0 * MsecPerSec + 0) \div MsecPerSec = 0 /\ (0 * MsecPerSec + 0) % MsecPerSec = 0
      BY ONLY <3>1, DivisionUnique
    <3> QED  BY <3>1, <3>2
  <2>3. (0 % MsecPerSec) * UnitsPerMsec = 0
    BY <2>2, UnitsAssumption
  <2>4. first = [sec |-> clock \div UnitsPerSec, nSec |-> clock % UnitsPerSec]
    BY <2>1, <2>2, <2>3, Units DEF FirstTrigger
  <2> QED  BY <2>1, <2>4
<1>3. /\ asked' = clock + wanted * UnitsPerMsec /\ askedPeriod' = 0 /\ calls' = 0
      /\ refused' = FALSE /\ hurried' = (0 # wanted)
      /\ deadline' = Expire(clock, clock, 0).deadline
      /\ expired' = Expire(clock, clock, 0).expired
      /\ period' = 0
  BY <1>2 DEF SetAndRun, SetTime
<1> HIDE DEF first
<1>4. /\ wanted * UnitsPerMsec \in Nat /\ wanted * UnitsPerMsec <= 2 * UnitsPerSec
      /\ wanted = 0 <=> wanted * UnitsPerMsec = 0
  BY IntervalUnits
<1>5. deadline' = Never /\ expired' = TRUE
  <2>1. Reached(clock, clock)
    BY <1>0, NeverAssumption DEF Reached
  <2> QED  BY <1>3, <2>1, ExpireCases DEF Again
<1>6. asked' \in Nat /\ asked' <= MaxClock + 2 * UnitsPerSec /\ asked' # Never
  BY <1>0, <1>3, <1>4, NeverAssumption, Units
<1>7. ~hurried' => Due' = 1 /\ ~(clock' < asked')
  <2> SUFFICES ASSUME wanted = 0 PROVE Due' = 1 /\ ~(clock' < asked')
    BY <1>3
  <2>1. asked' = clock'  BY <1>0, <1>3, <1>4
  <2> QED  BY <1>0, <1>3, <1>6, <2>1 DEF Due
<1>8. CallsBounded' /\ StoppedIsQuiet' /\ ArmedAsAsked' /\ RefusedOnlyAtWholeSecond'
  BY <1>0, <1>3, <1>5, <1>6, Units
  DEF CallsBounded, StoppedIsQuiet, ArmedAsAsked, RefusedOnlyAtWholeSecond, Unread
<1>9. WaitingIsDue' /\ NothingForgotten'
  <2>1. deadline' = Never /\ expired' = TRUE /\ askedPeriod' = 0 /\ calls' = 0
    BY <1>3, <1>5
  <2>2. CASE hurried'
    BY <2>1, <2>2 DEF WaitingIsDue, NothingForgotten, Allowed, Unread
  <2>3. CASE ~hurried'
    BY <1>7, <2>1, <2>3 DEF WaitingIsDue, NothingForgotten, Allowed, Unread
  <2> QED  BY <2>2, <2>3
<1>10. /\ deadline' \in Moments \cup {Never} /\ asked' \in Moments \cup {Never}
       /\ {period', askedPeriod', calls'} \subseteq Moments
       /\ expired' \in BOOLEAN /\ refused' \in BOOLEAN /\ hurried' \in BOOLEAN
  <2>1. asked' \in Moments /\ 0 \in Moments
    BY <1>0, <1>6, Units DEF Moments
  <2>2. hurried' \in BOOLEAN
    BY <1>3
  <2> QED  BY <1>3, <1>5, <2>1, <2>2
<1> QED  BY <1>8, <1>9, <1>10 DEF ClockInv

\* stop() and the destructor: the timerfd is disarmed.
LEMMA Disarming ==
    ASSUME TimerInv, UNCHANGED clock, running' = FALSE, SetTime(Never, 0),
           asked' = Never, askedPeriod' = 0, calls' = 0, refused' = FALSE,
           hurried' = FALSE
    PROVE  /\ ClockInv'
           /\ deadline' = Never /\ expired' = FALSE /\ period' = 0
           /\ 0 \in Moments
<1>1. ~Reached(Never, clock)  BY DEF Reached
<1>2. deadline' = Never /\ expired' = FALSE /\ period' = 0
  BY <1>1, ExpireCases DEF SetTime
<1>3. clock \in Nat  BY DEF TimerInv, TypeOK
<1>4. ClockInv'
  BY <1>2, <1>3, Units
  DEF ClockInv, CallsBounded, StoppedIsQuiet, ArmedAsAsked, WaitingIsDue,
      NothingForgotten, RefusedOnlyAtWholeSecond, Unread, Due, Allowed
<1> QED  BY <1>2, <1>4, Units, UnitsAssumption DEF Moments

\* The user's calls.
LEMMA CallStep ==
    ASSUME TimerInv,
           \/ \E ms \in Intervals : SetInterval(ms)
           \/ \E on \in BOOLEAN : SetSingleShot(on)
           \/ Start \/ Stop
    PROVE  TimerInv'
<1> USE DEF apiVars, kernelVars, askedVars, fdVars, loopVars
<1>0. 0 \in Intervals
  BY UnitsAssumption DEF Intervals
<1>1. ASSUME NEW ms \in Intervals, SetInterval(ms) PROVE TimerInv'
  <2>1. NumberInv'
    BY <1>1, NumberUntouched DEF TimerInv, SetInterval, numberVars
  <2>2. CASE running
    <3>1. (~singleShot) \in BOOLEAN /\ alive' = TRUE /\ running' = TRUE
          /\ SetAndRun(ms, ~singleShot, ms) /\ UNCHANGED clock
      <4>1. SetAndRun(ms, ~singleShot, ms) /\ UNCHANGED <<alive, running, clock>>
        BY <1>1, <2>2 DEF SetInterval
      <4>2. alive = TRUE /\ running = TRUE /\ (~singleShot) \in BOOLEAN
        BY <1>1, <2>2 DEF SetInterval, MayCall, TimerInv, TypeOK
      <4> QED  BY <4>1, <4>2
    <3>2. ClockInv'  BY <3>1, Arming
    <3>3. TypeOK'
      BY <1>1, <3>1, Arming DEF SetInterval, TimerInv, TypeOK
    <3> QED  BY <2>1, <3>2, <3>3 DEF TimerInv
  <2>3. CASE ~running
    <3>1. ClockInv'
      BY <1>1, <2>3 DEF SetInterval, TimerInv, ClockInv, CallsBounded, StoppedIsQuiet,
         ArmedAsAsked, WaitingIsDue, NothingForgotten, RefusedOnlyAtWholeSecond,
         Unread, Due, Allowed
    <3>2. TypeOK'
      BY <1>1, <2>3 DEF SetInterval, TimerInv, TypeOK
    <3> QED  BY <2>1, <3>1, <3>2 DEF TimerInv
  <2> QED  BY <2>2, <2>3 DEF TimerInv, TypeOK
<1>2. ASSUME NEW on \in BOOLEAN, SetSingleShot(on) PROVE TimerInv'
  <2>1. NumberInv'
    BY <1>2, NumberUntouched DEF TimerInv, SetSingleShot, numberVars
  <2>2. CASE running
    <3>1. /\ SetAndRun(0, FALSE, interval) \/ SetAndRun(interval, TRUE, interval)
          /\ interval \in Intervals
      BY <1>2, <2>2 DEF SetSingleShot, TimerInv, TypeOK
    <3>2. alive' = TRUE /\ running' = TRUE /\ UNCHANGED clock
      BY <1>2, <2>2 DEF SetSingleShot, MayCall, TimerInv, TypeOK
    <3>3. /\ ClockInv'
          /\ deadline' \in Moments \cup {Never} /\ asked' \in Moments \cup {Never}
          /\ {period', askedPeriod', calls'} \subseteq Moments
          /\ expired' \in BOOLEAN /\ refused' \in BOOLEAN /\ hurried' \in BOOLEAN
      <4>1. CASE SetAndRun(0, FALSE, interval)
        BY <3>1, <3>2, <4>1, Hurrying
      <4>2. CASE SetAndRun(interval, TRUE, interval)
        BY <3>1, <3>2, <4>2, Arming
      <4> QED  BY <3>1, <4>1, <4>2
    <3>4. TypeOK'
      BY <1>2, <3>3 DEF SetSingleShot, TimerInv, TypeOK
    <3> QED  BY <2>1, <3>3, <3>4 DEF TimerInv
  <2>3. CASE ~running
    <3>1. ClockInv'
      BY <1>2, <2>3 DEF SetSingleShot, TimerInv, ClockInv, CallsBounded, StoppedIsQuiet,
         ArmedAsAsked, WaitingIsDue, NothingForgotten, RefusedOnlyAtWholeSecond,
         Unread, Due, Allowed
    <3>2. TypeOK'
      BY <1>2, <2>3 DEF SetSingleShot, TimerInv, TypeOK
    <3> QED  BY <2>1, <3>1, <3>2 DEF TimerInv
  <2> QED  BY <2>2, <2>3 DEF TimerInv, TypeOK
<1>3. ASSUME Start PROVE TimerInv'
  <2>1. NumberInv'
    BY <1>3, NumberUntouched DEF TimerInv, Start, numberVars
  <2>2. (~singleShot) \in BOOLEAN /\ alive' = TRUE /\ running' = TRUE
        /\ SetAndRun(interval, ~singleShot, interval) /\ UNCHANGED clock /\ interval \in Intervals
    <3>1. SetAndRun(interval, ~singleShot, interval) /\ UNCHANGED <<alive, clock>>
          /\ running' = TRUE
      BY <1>3 DEF Start
    <3>2. alive = TRUE /\ (~singleShot) \in BOOLEAN /\ interval \in Intervals
      BY <1>3 DEF Start, MayCall, TimerInv, TypeOK
    <3> QED  BY <3>1, <3>2
  <2>3. ClockInv'  BY <2>2, Arming
  <2>4. TypeOK'
    BY <1>3, <2>2, Arming DEF Start, TimerInv, TypeOK
  <2> QED  BY <2>1, <2>3, <2>4 DEF TimerInv
<1>4. ASSUME Stop PROVE TimerInv'
  <2>1. NumberInv'
    BY <1>4, NumberUntouched DEF TimerInv, Stop, numberVars
  <2>2. ClockInv' /\ deadline' = Never /\ expired' = FALSE /\ period' = 0 /\ 0 \in Moments
    BY <1>4, Disarming DEF Stop
  <2>3. TypeOK'
    BY <1>4, <2>2 DEF Stop, TimerInv, TypeOK
  <2> QED  BY <2>1, <2>2, <2>3 DEF TimerInv
<1> QED  BY <1>1, <1>2, <1>3, <1>4

\* The destructor.
LEMMA DestroyStep ==
    ASSUME TimerInv, Destroy
    PROVE  TimerInv'
<1> USE DEF apiVars, kernelVars, askedVars, fdVars, loopVars
<1>1. ClockInv' /\ deadline' = Never /\ expired' = FALSE /\ period' = 0 /\ 0 \in Moments
  BY Disarming DEF Destroy
<1>2. TypeOK'
  BY <1>1 DEF Destroy, TimerInv, TypeOK, Owners
<1>3. NumberInv'
  BY DEF Destroy, MayCall, TimerInv, NumberInv, FunctorPending, KeyIsClean,
     OtherIsWatched
<1> QED  BY <1>1, <1>2, <1>3 DEF TimerInv

\* TimerHandler::handleIn.
LEMMA HandleInStep ==
    ASSUME TimerInv, HandleIn
    PROVE  TimerInv'
<1> USE DEF apiVars, kernelVars, askedVars, fdVars, loopVars
<1>1. /\ calls \in Nat /\ clock \in Nat /\ clock <= MaxClock /\ expired \in BOOLEAN
      /\ alive \in BOOLEAN /\ MaxClock \in Nat
  BY UnitsAssumption DEF TimerInv, TypeOK, Moments
<1>2. /\ expired' = FALSE /\ calls' = IF alive /\ expired THEN calls + 1 ELSE calls
      /\ UNCHANGED <<alive, interval, singleShot, running, clock, deadline, period,
                     asked, askedPeriod, refused, hurried>>
  BY DEF HandleIn
<1>3. calls' + Unread' <= calls + Unread /\ calls' \in Nat /\ Unread' = 0
      /\ Unread \in Nat
  BY <1>1, <1>2 DEF Unread
<1>4. Due' = Due /\ Allowed' = Allowed
  BY <1>2 DEF Due, Allowed
<1>5. CallsBounded'
  BY <1>1, <1>2, <1>3 DEF TimerInv, ClockInv, CallsBounded
<1>6. StoppedIsQuiet' /\ ArmedAsAsked' /\ RefusedOnlyAtWholeSecond'
  BY <1>2 DEF TimerInv, ClockInv, StoppedIsQuiet, ArmedAsAsked,
     RefusedOnlyAtWholeSecond
<1>7. WaitingIsDue'
  <2>1. Due \in Int
    BY <1>1, DivisionIs DEF TimerInv, TypeOK, Moments, Due
  <2>2. Allowed \in Int
    BY <2>1 DEF Allowed
  <2> QED  BY <1>1, <1>2, <1>3, <1>4, <2>2 DEF TimerInv, ClockInv, WaitingIsDue
<1>8. NothingForgotten'
  BY <1>1, <1>2, <1>4 DEF TimerInv, ClockInv, NothingForgotten, ArmedAsAsked
<1>9. calls' \in Moments
  BY <1>1, <1>2, <1>3, <1>5, Units DEF CallsBounded, Moments
<1>10. TypeOK'
  BY <1>2, <1>9 DEF HandleIn, TimerInv, TypeOK
<1>11. NumberInv'
  BY DEF HandleIn, TimerInv, NumberInv, FunctorPending, KeyIsClean, OtherIsWatched
<1> QED  BY <1>5, <1>6, <1>7, <1>8, <1>10, <1>11 DEF TimerInv, ClockInv

\* The other steps of the loop, and the next handler of the number.
LEMMA NumberStep ==
    ASSUME TimerInv, Poll \/ RemoveFunctor \/ OtherActive
    PROVE  TimerInv'
<1> USE DEF apiVars, kernelVars, askedVars, fdVars, loopVars
<1>1. ClockInv'
  BY ClockUntouched DEF TimerInv, clockVars, Poll, RemoveFunctor, OtherActive
<1>2. ASSUME Poll PROVE TypeOK' /\ NumberInv'
  BY <1>2 DEF Poll, TimerInv, TypeOK, NumberInv, FunctorPending, KeyIsClean,
     OtherIsWatched
<1>3. ASSUME RemoveFunctor PROVE TypeOK' /\ NumberInv'
  BY <1>3 DEF RemoveFunctor, TimerInv, TypeOK, Owners, NumberInv, FunctorPending,
     KeyIsClean, OtherIsWatched
<1>4. ASSUME OtherActive PROVE TypeOK' /\ NumberInv'
  BY <1>4 DEF OtherActive, TimerInv, TypeOK, Owners, NumberInv, FunctorPending,
     KeyIsClean, OtherIsWatched
<1> QED  BY <1>1, <1>2, <1>3, <1>4 DEF TimerInv

-----------------------------------------------------------------------------
(***************************************************************************)
(* The theorems.                                                           *)
(***************************************************************************)
\* Every step of the clock, the user, the loop and the next handler of the
\* number keeps the invariant.
THEOREM TimerInvariant == Spec => []TimerInv
<1>1. TimerInv /\ [Next]_vars => TimerInv'
  <2> SUFFICES ASSUME TimerInv, [Next]_vars PROVE TimerInv'  OBVIOUS
  <2>1. CASE UNCHANGED vars
    <3>1. TypeOK'
      BY <2>1 DEF TimerInv, TypeOK, vars, apiVars, kernelVars, askedVars, fdVars, loopVars
    <3>2. ClockInv'
      BY <2>1, ClockUntouched DEF TimerInv, clockVars, vars
    <3>3. NumberInv'
      BY <2>1, NumberUntouched DEF TimerInv, numberVars, vars, loopVars
    <3> QED  BY <3>1, <3>2, <3>3 DEF TimerInv
  <2>2. CASE Next
    BY <2>2, ElapseStep, CallStep, DestroyStep, HandleInStep, NumberStep DEF Next
  <2> QED  BY <2>1, <2>2
<1> QED  BY <1>1, InitInv, PTL DEF Spec

\* The callback is never called too early or once too often, for any length of
\* the second and of its units, except when the arming was refused, or once, at
\* once, after setSingleShot(true) on a running timer.
THEOREM CallsAreDueTheorem == Spec => []CallsAreDue
<1>1. TimerInv => CallsAreDue
  <2> SUFFICES ASSUME TimerInv, ~refused PROVE calls <= Allowed
    BY DEF CallsAreDue, Allowed, TimerInv, TypeOK
  <2>1. calls + Unread <= Allowed /\ Unread \in Nat /\ calls \in Nat
    BY DEF TimerInv, TypeOK, ClockInv, WaitingIsDue, Unread, Moments
  <2>2. /\ clock \in Nat /\ askedPeriod \in Nat /\ asked \in Nat \cup {Never}
    BY DEF TimerInv, TypeOK, Moments
  <2>3. Due \in Int
    BY <2>2, DivisionIs DEF Due
  <2>4. Allowed \in Int
    BY <2>3 DEF Allowed
  <2> QED  BY <2>1, <2>4
<1> QED  BY <1>1, TimerInvariant, PTL

\* The timerfd of a running timer is armed for the next moment that is due, and
\* what was due has been called or waits to be read.
THEOREM NothingForgottenTheorem == Spec => []NothingForgotten
<1>1. TimerInv => NothingForgotten  BY DEF TimerInv, ClockInv
<1> QED  BY <1>1, TimerInvariant, PTL

\* timerfd_settime refuses setAndRun's moment only when it is a whole second.
THEOREM RefusedOnlyAtWholeSecondTheorem == Spec => []RefusedOnlyAtWholeSecond
<1>1. TimerInv => RefusedOnlyAtWholeSecond  BY DEF TimerInv, ClockInv
<1> QED  BY <1>1, TimerInvariant, PTL

\* A handler that takes over the timer's descriptor number is watched, unless it
\* was registered while the functor of TimerHandler::remove was pending.
THEOREM OtherIsWatchedTheorem == Spec => []OtherIsWatched
<1>1. TimerInv => OtherIsWatched  BY DEF TimerInv, NumberInv
<1> QED  BY <1>1, TimerInvariant, PTL

-----------------------------------------------------------------------------
(***************************************************************************)
(* The time wheel.                                                         *)
(***************************************************************************)
\* Only entries that were made are in the wheel.
InWheelCreated == \A i \in Indexes : buckets[i] \subseteq created

\* A wheel without buckets has no timer.
TickingHasBuckets == ticking => size # 0

WheelInv == WheelTypeOK /\ InWheelCreated /\ TickingHasBuckets /\ IndexNamesBucket

\* The refinement mapping.
Period == IF size = 0 THEN 0 ELSE IF size = 1 THEN 1 ELSE size - 1
Left   == [e \in Entries |-> TicksLeft(e)]
DueEntries    == IF ticking THEN buckets[timeOutBucketIndex] ELSE {}

USE BucketsAssumption

(***************************************************************************)
(* The inductive invariant.                                                *)
(***************************************************************************)
LEMMA WheelInvInit == WheelInit => WheelInv
  <1> SUFFICES ASSUME WheelInit PROVE WheelInv
    OBVIOUS
  <1>1. WheelTypeOK
    BY DEF WheelInit, WheelTypeOK, Indexes
  <1> QED
    BY <1>1 DEF WheelInit, WheelInv, InWheelCreated, IndexNamesBucket, Indexes,
       TickingHasBuckets

\* The bucket for a new entry is a bucket of the wheel.
LEMMA LatestInRange ==
  ASSUME WheelTypeOK, size # 0
  PROVE  LatestIndex \in Indexes /\ timeOutBucketIndex \in Indexes
  BY DEF WheelTypeOK, Indexes, LatestIndex

\* removeFromWheel takes the entries out and nothing else.
LEMMA WithoutRemoves ==
  ASSUME WheelInv, NEW R
  PROVE  /\ Without(R) \in [Indexes -> SUBSET Entries]
         /\ \A i \in Indexes : Without(R)[i] = buckets[i] \ R
  BY DEF WheelInv, WheelTypeOK, IndexNamesBucket, Without, InWheel

\* Every step keeps the invariant.
LEMMA WheelInvStep == WheelInv /\ [WheelNext]_wheelVars => WheelInv'
  <1> SUFFICES ASSUME WheelInv, [WheelNext]_wheelVars PROVE WheelInv'
    OBVIOUS
  <1> USE DEF WheelInv
  <1>1. ASSUME NEW e \in Entries, AddToWheel(e) PROVE WheelInv'
    <2>1. CASE size = 0
      BY <1>1, <2>1 DEF AddToWheel, WheelTypeOK, Indexes, InWheelCreated, IndexNamesBucket,
         TickingHasBuckets
    <2>2. CASE size # 0
      <3>1. LatestIndex \in Indexes /\ Indexes' = Indexes
        BY <1>1, <2>2, LatestInRange DEF AddToWheel, Indexes
      <3>2. /\ created' = created \cup {e} /\ e \notin created
            /\ indexInWheel' = [indexInWheel EXCEPT ![e] = LatestIndex]
            /\ buckets' = [buckets EXCEPT ![LatestIndex] = @ \cup {e}]
            /\ UNCHANGED <<size, timeOutBucketIndex, ticking, badErase>>
        BY <1>1, <2>2 DEF AddToWheel
      <3>3. WheelTypeOK'
        BY <3>1, <3>2 DEF WheelTypeOK
      <3>4. InWheelCreated'
        BY <3>1, <3>2 DEF WheelTypeOK, InWheelCreated
      <3>5. IndexNamesBucket'
        BY <3>1, <3>2 DEF WheelTypeOK, InWheelCreated, IndexNamesBucket
      <3> QED
        BY <3>2, <3>3, <3>4, <3>5 DEF TickingHasBuckets
    <2> QED
      BY <2>1, <2>2
  <1>2. ASSUME NEW e \in Entries, Renew(e) PROVE WheelInv'
    <2>1. PICK k \in Indexes : e \in buckets[k]
      BY <1>2 DEF Renew, InWheel
    <2>2. indexInWheel[e] = k /\ size # 0 /\ Indexes' = Indexes
      BY <1>2, <2>1 DEF Renew, WheelTypeOK, IndexNamesBucket, Indexes
    <2>3. LatestIndex \in Indexes
      BY <2>2, LatestInRange
    <2>4. /\ buckets' = [i \in Indexes |->
                 IF i = LatestIndex THEN buckets[i] \cup {e}
                 ELSE IF i = k THEN buckets[i] \ {e} ELSE buckets[i]]
          /\ indexInWheel' = [indexInWheel EXCEPT ![e] = LatestIndex]
          /\ UNCHANGED <<size, timeOutBucketIndex, created, ticking, badErase>>
      BY <1>2, <2>2 DEF Renew
    <2>5. WheelTypeOK'
      BY <2>2, <2>3, <2>4 DEF WheelTypeOK
    <2>6. InWheelCreated'
      BY <2>1, <2>2, <2>3, <2>4 DEF WheelTypeOK, InWheelCreated
    <2>7. IndexNamesBucket'
      BY <2>1, <2>2, <2>3, <2>4 DEF WheelTypeOK, IndexNamesBucket
    <2> QED
      BY <2>4, <2>5, <2>6, <2>7 DEF TickingHasBuckets
  <1>3. ASSUME NEW e \in Entries, TickEntry(e) PROVE WheelInv'
    <2> DEFINE removed == IF e[2] = "halfClose" THEN EntriesOf(e[1]) ELSE {}
    <2>1. /\ buckets' = [Without(removed) EXCEPT ![timeOutBucketIndex] = @ \ {e}]
          /\ badErase' \in BOOLEAN
          /\ UNCHANGED <<size, timeOutBucketIndex, indexInWheel, created, ticking>>
      BY <1>3 DEF TickEntry, WheelTypeOK
    <2>2. /\ Without(removed) \in [Indexes -> SUBSET Entries]
          /\ \A i \in Indexes : Without(removed)[i] \subseteq buckets[i]
      BY WithoutRemoves
    <2> HIDE DEF removed
    <2>3. Indexes' = Indexes
      BY <2>1 DEF Indexes
    <2>4. buckets' \in [Indexes -> SUBSET Entries]
          /\ \A i \in Indexes : buckets'[i] \subseteq buckets[i]
      BY <2>1, <2>2
    <2> QED
      BY <2>1, <2>3, <2>4 DEF WheelTypeOK, InWheelCreated, IndexNamesBucket, TickingHasBuckets
  <1>4. ASSUME NEW c \in Connections, RemoveFromWheel(c) PROVE WheelInv'
    <2>1. /\ buckets' \in [Indexes -> SUBSET Entries]
          /\ \A i \in Indexes : buckets'[i] \subseteq buckets[i]
      BY <1>4, WithoutRemoves DEF RemoveFromWheel
    <2>2. Indexes' = Indexes
      BY <1>4 DEF RemoveFromWheel, Indexes
    <2> QED
      BY <1>4, <2>1, <2>2 DEF RemoveFromWheel, WheelTypeOK, InWheelCreated, IndexNamesBucket,
         TickingHasBuckets
  <1>5. CASE TickStart
    <2>1. timeOutBucketIndex' \in Indexes' \cup {0} /\ Indexes' = Indexes
      BY <1>5 DEF TickStart, WheelTypeOK, Indexes
    <2> QED
      BY <1>5, <2>1 DEF TickStart, WheelTypeOK, InWheelCreated, IndexNamesBucket,
         TickingHasBuckets
  <1>6. CASE TickEnd
    BY <1>6 DEF TickEnd, WheelTypeOK, InWheelCreated, IndexNamesBucket, Indexes,
       TickingHasBuckets
  <1>7. CASE UNCHANGED wheelVars
    BY <1>7 DEF wheelVars, WheelTypeOK, InWheelCreated, IndexNamesBucket, Indexes,
       TickingHasBuckets
  <1> QED
    BY <1>1, <1>2, <1>3, <1>4, <1>5, <1>6, <1>7 DEF WheelNext

(***************************************************************************)
(* Ticks left, without the modulus.                                        *)
(***************************************************************************)
LEMMA ModOnce ==
  ASSUME NEW n \in Nat \ {0}, NEW x \in Int, -n <= x, x < n
  PROVE  x % n = IF x >= 0 THEN x ELSE x + n
  OBVIOUS

\* From index t of n the index comes to i after so many ticks.
LEMMA TicksTo ==
  ASSUME NEW n \in Nat \ {0}, NEW i \in 0..(n - 1), NEW t \in 0..(n - 1)
  PROVE  ((i - t - 1) % n) + 1 = IF i > t THEN i - t ELSE i - t + n
  <1> DEFINE x == i - t - 1
  <1>1. x \in Int /\ -n <= x /\ x < n /\ (x >= 0 <=> i > t)
    OBVIOUS
  <1> HIDE DEF x
  <1>2. x % n = IF x >= 0 THEN x ELSE x + n
    BY <1>1, ModOnce
  <1> QED
    BY <1>1, <1>2 DEF x

\* An entry in bucket i is called when the timeout index next comes to i.
LEMMA TicksLeftIs ==
  ASSUME WheelInv, NEW i \in Indexes, NEW e \in buckets[i]
  PROVE  TicksLeft(e) =
            IF i > timeOutBucketIndex THEN i - timeOutBucketIndex
            ELSE IF ticking /\ i = timeOutBucketIndex THEN 0
            ELSE i - timeOutBucketIndex + size
  <1>1. e \in InWheel /\ indexInWheel[e] = i
    BY DEF WheelInv, IndexNamesBucket, InWheel
  <1>2. size \in Nat \ {0} /\ i \in 0..(size - 1) /\ timeOutBucketIndex \in 0..(size - 1)
    BY DEF WheelInv, WheelTypeOK, Indexes
  <1> QED
    BY <1>1, <1>2, TicksTo DEF TicksLeft

\* An entry in no bucket counts nothing.
LEMMA OutOfWheel == ASSUME NEW e, e \notin InWheel PROVE TicksLeft(e) = 0
  BY DEF TicksLeft

\* An entry put into the latest bucket has the whole period before it.
LEMMA LatestHasPeriod ==
  ASSUME WheelInv, NEW e, size # 0, ~ticking, UNCHANGED <<size, timeOutBucketIndex, ticking>>,
         indexInWheel'[e] = LatestIndex, (e \in InWheel)'
  PROVE  TicksLeft(e)' = Period
  <1>1. /\ LatestIndex \in 0..(size - 1) /\ size \in Nat \ {0}
        /\ timeOutBucketIndex \in 0..(size - 1)
    BY LatestInRange DEF WheelInv, WheelTypeOK, Indexes
  <1>2. TicksLeft(e)' = ((LatestIndex - timeOutBucketIndex - 1) % size) + 1
    BY DEF TicksLeft
  <1>3. TicksLeft(e)' = IF LatestIndex > timeOutBucketIndex
                        THEN LatestIndex - timeOutBucketIndex
                        ELSE LatestIndex - timeOutBucketIndex + size
    BY <1>1, <1>2, TicksTo
  <1> QED
    BY <1>1, <1>3 DEF LatestIndex, Period

\* An entry whose bucket stays, while index and tick stay, keeps its count.
LEMMA SameTicksLeft ==
  ASSUME NEW e, UNCHANGED <<size, timeOutBucketIndex, ticking>>,
         indexInWheel'[e] = indexInWheel[e], (e \in InWheel)' <=> e \in InWheel
  PROVE  TicksLeft(e)' = TicksLeft(e)
  BY DEF TicksLeft

(***************************************************************************)
(* Each step of the wheel is a step of the countdown, or none.             *)
(***************************************************************************)
LEMMA InitRefines == WheelInit => Countdown!CInit
  <1> SUFFICES ASSUME WheelInit PROVE Countdown!CInit
    OBVIOUS
  <1>1. Period \in Nat
    BY DEF WheelInit, Period
  <1>2. InWheel = {}
    BY DEF WheelInit, InWheel, Indexes
  <1>3. Left = [e \in Entries |-> 0]
    BY <1>2, OutOfWheel DEF Left
  <1>4. DueEntries = {}
    BY DEF WheelInit, DueEntries
  <1> QED
    BY <1>1, <1>3, <1>4 DEF Countdown!CInit, Period, Left, DueEntries

\* addToWheel starts a countdown.
LEMMA AddRefines ==
  ASSUME WheelInv, NEW e \in Entries, AddToWheel(e)
  PROVE  Countdown!Arm(e) \/ UNCHANGED <<Period, Left, DueEntries>>
  <1>0. Period' = Period /\ DueEntries' = DueEntries /\ DueEntries = {}
    BY DEF AddToWheel, Period, DueEntries
  <1>1. CASE size = 0
    <2>1. InWheel = {} /\ InWheel' = {}
      BY <1>1 DEF AddToWheel, InWheel, Indexes
    <2>2. Left' = Left
      BY <2>1 DEF Left, TicksLeft
    <2> QED
      BY <1>0, <2>2
  <1>2. CASE size # 0
    <2>1. LatestIndex \in Indexes /\ Indexes' = Indexes /\ LatestIndex' = LatestIndex
      BY <1>2, LatestInRange DEF WheelInv, AddToWheel, Indexes, LatestIndex
    <2>2. /\ e \notin created /\ UNCHANGED <<size, timeOutBucketIndex, ticking>>
          /\ indexInWheel' = [indexInWheel EXCEPT ![e] = LatestIndex]
          /\ buckets' = [buckets EXCEPT ![LatestIndex] = @ \cup {e}]
      BY <1>2 DEF AddToWheel
    <2>3. e \notin InWheel /\ InWheel' = InWheel \cup {e} /\ e \in buckets'[LatestIndex]
      BY <2>1, <2>2 DEF WheelInv, WheelTypeOK, InWheelCreated, InWheel
    <2>4. Left[e] = 0
      BY <2>3, OutOfWheel DEF Left
    <2>5. TicksLeft(e)' = Period
      BY <1>2, <2>1, <2>2, <2>3, LatestHasPeriod DEF AddToWheel, WheelInv, WheelTypeOK
    <2>6. \A f \in Entries \ {e} : TicksLeft(f)' = TicksLeft(f)
      BY <2>2, <2>3, SameTicksLeft DEF WheelInv, WheelTypeOK
    <2>7. Left' = [Left EXCEPT ![e] = Period]
      BY <2>5, <2>6 DEF Left
    <2> QED
      BY <1>0, <2>4, <2>7 DEF Countdown!Arm, Period, Left, DueEntries
  <1> QED
    BY <1>1, <1>2

\* renew restarts it.
LEMMA RenewRefines ==
  ASSUME WheelInv, NEW e \in Entries, Renew(e)
  PROVE  Countdown!Restart(e)
  <1>0. Period' = Period /\ DueEntries' = DueEntries
    BY DEF Renew, Period, DueEntries
  <1>1. PICK k \in Indexes : e \in buckets[k]
    BY DEF Renew, InWheel
  <1>2. indexInWheel[e] = k /\ size # 0 /\ ~ticking /\ Indexes' = Indexes
    BY <1>1 DEF Renew, WheelInv, WheelTypeOK, IndexNamesBucket, Indexes
  <1>3. LatestIndex \in Indexes
    BY <1>2, LatestInRange DEF WheelInv
  <1>4. /\ buckets' = [i \in Indexes |->
               IF i = LatestIndex THEN buckets[i] \cup {e}
               ELSE IF i = k THEN buckets[i] \ {e} ELSE buckets[i]]
        /\ indexInWheel' = [indexInWheel EXCEPT ![e] = LatestIndex]
        /\ UNCHANGED <<size, timeOutBucketIndex, ticking>>
    BY <1>2 DEF Renew
  <1>5. InWheel' = InWheel /\ e \in InWheel
    <2>1. ASSUME NEW f \in InWheel PROVE f \in InWheel'
      BY <1>2, <1>3, <1>4 DEF InWheel
    <2>2. ASSUME NEW f \in InWheel' PROVE f \in InWheel
      BY <1>1, <1>2, <1>3, <1>4 DEF InWheel
    <2> QED
      BY <1>1, <2>1, <2>2 DEF InWheel
  <1>6. TicksLeft(e) > 0
    BY <1>1, <1>2, TicksLeftIs DEF WheelInv, WheelTypeOK, Indexes
  <1>7. TicksLeft(e)' = Period
    BY <1>2, <1>4, <1>5, LatestHasPeriod DEF WheelInv, WheelTypeOK
  <1>8. \A f \in Entries \ {e} : TicksLeft(f)' = TicksLeft(f)
    BY <1>4, <1>5, SameTicksLeft DEF WheelInv, WheelTypeOK
  <1>9. Left[e] > 0 /\ Left' = [Left EXCEPT ![e] = Period]
    BY <1>6, <1>7, <1>8 DEF Left
  <1> QED
    BY <1>0, <1>9 DEF Countdown!Restart, Period, Left, DueEntries

\* Taking the entries of R out of every bucket drops them from the countdown.
LEMMA DropRefines ==
  ASSUME WheelInv, NEW R, UNCHANGED <<size, timeOutBucketIndex, indexInWheel, ticking>>,
         \A i \in Indexes : buckets'[i] = buckets[i] \ R
  PROVE  Countdown!Drop(R)
  <1>1. Indexes' = Indexes
    BY DEF Indexes
  <1>2. InWheel' = InWheel \ R
    BY <1>1 DEF InWheel
  <1>3. \A e \in Entries : TicksLeft(e)' = IF e \in R THEN 0 ELSE TicksLeft(e)
    BY <1>2 DEF TicksLeft
  <1>4. Left' = [e \in Entries |-> IF e \in R THEN 0 ELSE Left[e]]
    BY <1>3 DEF Left
  <1>5. Period' = Period
    BY DEF Period
  <1>6. DueEntries' = DueEntries \ R
    <2>1. CASE ticking
      BY <2>1, LatestInRange DEF WheelInv, TickingHasBuckets, DueEntries
    <2>2. CASE ~ticking
      BY <2>2 DEF DueEntries
    <2> QED
      BY <2>1, <2>2
  <1> QED
    BY <1>4, <1>5, <1>6 DEF Countdown!Drop, Period, Left, DueEntries

\* removeFromWheel ends it.
LEMMA RemoveRefines ==
  ASSUME WheelInv, NEW c \in Connections, RemoveFromWheel(c)
  PROVE  Countdown!Disarm(EntriesOf(c))
  <1>1. \A i \in Indexes : buckets'[i] = buckets[i] \ EntriesOf(c)
    BY WithoutRemoves DEF RemoveFromWheel
  <1>2. Countdown!Drop(EntriesOf(c))
    BY <1>1, DropRefines DEF RemoveFromWheel
  <1>3. DueEntries = {}
    BY DEF RemoveFromWheel, DueEntries
  <1> QED
    BY <1>2, <1>3 DEF Countdown!Disarm, DueEntries

\* onTimeout of a half-close entry drops both entries of its connection, one of
\* an idle entry only itself.
LEMMA TickEntryRefines ==
  ASSUME WheelInv, NEW e \in Entries, TickEntry(e)
  PROVE  Countdown!Call(e)
  <1> DEFINE removed == IF e[2] = "halfClose" THEN EntriesOf(e[1]) ELSE {}
             R == removed \cup {e}
  <1>1. ticking /\ timeOutBucketIndex \in Indexes /\ e \in buckets[timeOutBucketIndex]
    BY LatestInRange DEF TickEntry, WheelInv, TickingHasBuckets
  <1>2. buckets' = [Without(removed) EXCEPT ![timeOutBucketIndex] = @ \ {e}]
    BY DEF TickEntry
  <1>3. /\ Without(removed) \in [Indexes -> SUBSET Entries]
        /\ \A i \in Indexes : Without(removed)[i] = buckets[i] \ removed
    BY WithoutRemoves
  <1>4. \A i \in Indexes : i # timeOutBucketIndex => e \notin buckets[i]
    BY <1>1 DEF WheelInv, IndexNamesBucket
  <1>5. PICK c \in Connections, k \in {"idle", "halfClose"} : e = <<c, k>>
    BY DEF Entries
  <1>6. R = {e} \/ (R = EntriesOf(c) /\ e \in EntriesOf(c))
    BY <1>5 DEF EntriesOf
  <1> HIDE DEF removed
  <1>7. \A i \in Indexes : buckets'[i] = buckets[i] \ R
    BY <1>2, <1>3, <1>4
  <1> HIDE DEF R
  <1>8. Countdown!Drop(R)
    BY <1>7, DropRefines DEF TickEntry
  <1>9. e \in DueEntries
    BY <1>1 DEF DueEntries
  <1>10. CASE R = {e}
    BY <1>8, <1>9, <1>10 DEF Countdown!Call, DueEntries
  <1>11. CASE R = EntriesOf(c) /\ e \in EntriesOf(c)
    BY <1>8, <1>9, <1>11 DEF Countdown!Call, DueEntries
  <1> QED
    BY <1>6, <1>10, <1>11

\* ++m_timeOutBucketIndex, with the wrap, is one tick for every entry.
LEMMA TickStartRefines ==
  ASSUME WheelInv, TickStart
  PROVE  Countdown!CountDown
  <1>1. /\ size \in Nat \ {0} /\ timeOutBucketIndex \in 0..(size - 1)
        /\ timeOutBucketIndex' = IF timeOutBucketIndex + 1 = size THEN 0
                                 ELSE timeOutBucketIndex + 1
        /\ ~ticking /\ ticking' /\ UNCHANGED <<size, buckets, indexInWheel>>
    BY DEF TickStart, WheelInv, WheelTypeOK, Indexes
  <1>2. Indexes' = Indexes /\ InWheel' = InWheel /\ timeOutBucketIndex' \in Indexes
    BY <1>1 DEF Indexes, InWheel
  <1>3. ASSUME NEW i \in Indexes, NEW e \in buckets[i]
        PROVE  /\ TicksLeft(e) = 1 <=> i = timeOutBucketIndex'
               /\ TicksLeft(e) > 0 /\ TicksLeft(e)' = TicksLeft(e) - 1
    <2>1. e \in InWheel /\ indexInWheel[e] = i /\ i \in 0..(size - 1)
      BY <1>3 DEF WheelInv, IndexNamesBucket, InWheel, Indexes
    <2>2. TicksLeft(e) = IF i > timeOutBucketIndex THEN i - timeOutBucketIndex
                         ELSE i - timeOutBucketIndex + size
      BY <1>1, <1>3, TicksLeftIs
    <2>3. TicksLeft(e)' = IF i = timeOutBucketIndex' THEN 0
                          ELSE ((i - timeOutBucketIndex' - 1) % size) + 1
      BY <1>1, <1>2, <2>1 DEF TicksLeft
    <2>4. TicksLeft(e)' = IF i = timeOutBucketIndex' THEN 0
                          ELSE IF i > timeOutBucketIndex' THEN i - timeOutBucketIndex'
                          ELSE i - timeOutBucketIndex' + size
      <3>1. timeOutBucketIndex' \in 0..(size - 1)
        BY <1>1
      <3> QED
        BY <1>1, <2>1, <2>3, <3>1, TicksTo
    <2> QED
      BY <1>1, <2>1, <2>2, <2>4
  <1>4. \A e \in Entries : e \notin InWheel => TicksLeft(e) = 0 /\ TicksLeft(e)' = 0
    BY <1>2 DEF TicksLeft
  <1>5. Left' = [e \in Entries |-> IF Left[e] > 0 THEN Left[e] - 1 ELSE 0]
    <2>1. ASSUME NEW e \in Entries
          PROVE  TicksLeft(e)' = IF TicksLeft(e) > 0 THEN TicksLeft(e) - 1 ELSE 0
      <3>1. CASE e \in InWheel
        BY <1>3, <3>1 DEF InWheel
      <3>2. CASE e \notin InWheel
        BY <1>4, <3>2
      <3> QED
        BY <3>1, <3>2
    <2> QED
      BY <2>1 DEF Left
  <1>6. DueEntries' = {e \in Entries : Left[e] = 1}
    <2>1. DueEntries' = buckets[timeOutBucketIndex'] /\ DueEntries' \subseteq Entries
      BY <1>1, <1>2 DEF DueEntries, WheelInv, WheelTypeOK
    <2>2. ASSUME NEW e \in DueEntries' PROVE TicksLeft(e) = 1
      BY <1>2, <1>3, <2>1, <2>2
    <2>3. ASSUME NEW e \in Entries, TicksLeft(e) = 1 PROVE e \in DueEntries'
      <3>1. PICK i \in Indexes : e \in buckets[i]
        BY <1>4, <2>3 DEF InWheel
      <3> QED
        BY <1>3, <2>1, <2>3, <3>1
    <2> QED
      BY <2>1, <2>2, <2>3 DEF Left
  <1>7. Period' = Period /\ DueEntries = {}
    BY <1>1 DEF Period, DueEntries
  <1> QED
    BY <1>5, <1>6, <1>7 DEF Countdown!CountDown, Period, Left, DueEntries

\* When the bucket is empty, the end of the tick changes no countdown.
LEMMA TickEndRefines ==
  ASSUME WheelInv, TickEnd
  PROVE  UNCHANGED <<Period, Left, DueEntries>>
  <1>1. Period' = Period /\ DueEntries' = {} /\ DueEntries = {}
    BY DEF TickEnd, Period, DueEntries
  <1>2. InWheel' = InWheel
    BY DEF TickEnd, InWheel, Indexes
  <1>3. ASSUME NEW e \in InWheel PROVE indexInWheel[e] # timeOutBucketIndex
    BY <1>3 DEF TickEnd, WheelInv, IndexNamesBucket, InWheel
  <1>4. \A e \in Entries : TicksLeft(e)' = TicksLeft(e)
    BY <1>2, <1>3 DEF TickEnd, TicksLeft
  <1> QED
    BY <1>1, <1>4 DEF Left

\* Every step is a step of WheelCountdown or a stutter.
LEMMA StepRefines ==
  ASSUME WheelInv, [WheelNext]_wheelVars
  PROVE  [Countdown!CNext]_<<Period, Left, DueEntries>>
  <1>1. ASSUME NEW e \in Entries, AddToWheel(e)
        PROVE  [Countdown!CNext]_<<Period, Left, DueEntries>>
    BY <1>1, AddRefines DEF Countdown!CNext
  <1>2. ASSUME NEW e \in Entries, Renew(e) PROVE Countdown!CNext
    BY <1>2, RenewRefines DEF Countdown!CNext
  <1>3. ASSUME NEW e \in Entries, TickEntry(e) PROVE Countdown!CNext
    BY <1>3, TickEntryRefines DEF Countdown!CNext
  <1>4. ASSUME NEW c \in Connections, RemoveFromWheel(c) PROVE Countdown!CNext
    BY <1>4, RemoveRefines DEF Countdown!CNext
  <1>5. CASE TickStart
    BY <1>5, TickStartRefines DEF Countdown!CNext
  <1>6. CASE TickEnd
    BY <1>6, TickEndRefines
  <1>7. CASE UNCHANGED wheelVars
    <2>1. InWheel' = InWheel
      BY <1>7 DEF wheelVars, InWheel, Indexes
    <2> QED
      BY <1>7, <2>1 DEF wheelVars, Period, Left, DueEntries, TicksLeft
  <1> QED
    BY <1>1, <1>2, <1>3, <1>4, <1>5, <1>6, <1>7 DEF WheelNext

(***************************************************************************)
(* The theorems.                                                           *)
(***************************************************************************)
\* WheelInv is inductive: it holds of every reachable state.
THEOREM WheelInvariant == WheelSpec => []WheelInv
  BY WheelInvInit, WheelInvStep, PTL DEF WheelSpec

\* m_indexInWheel names the one bucket that holds the entry, so removeFromWheel
\* and renew find it.
THEOREM IndexNamesBucketTheorem == WheelSpec => []IndexNamesBucket
  <1>1. WheelInv => IndexNamesBucket
    BY DEF WheelInv
  <1> QED
    BY <1>1, WheelInvariant, PTL

\* The wheel implements WheelCountdown for any number of buckets: addToWheel
\* and renew give an entry the whole period, every tick takes one off, and an
\* entry is called in the tick that takes the last.
THEOREM CountdownTheorem == WheelSpec => CountdownSpec
  <1>1. [Countdown!CNext]_<<Period, Left, DueEntries>> => [Countdown!CNext]_(Countdown!cvars)
    BY DEF Countdown!cvars, Period, Left, DueEntries
  <1>2. WheelInv /\ [WheelNext]_wheelVars => [Countdown!CNext]_(Countdown!cvars)
    BY <1>1, StepRefines
  <1> QED
    BY <1>2, InitRefines, WheelInvariant, PTL DEF WheelSpec, CountdownSpec, Countdown!CSpec
=============================================================================
