--------------------------- MODULE WheelCountdown ---------------------------
(***************************************************************************)
(* What a TimeWheel promises its users, with no buckets: an armed entry    *)
(* counts ticks down from `period`; renewing it starts the count again; an *)
(* entry whose count has run out is due and is called once, before the     *)
(* next tick; calling an entry may take the other entries of its owner out *)
(* of the wheel, due or not.  The TcpConnection module uses the wheel in   *)
(* this form.                                                              *)
(***************************************************************************)
EXTENDS Naturals

CONSTANTS Entries,
          Owned         \* sets of entries, one set for each owner

VARIABLES period,       \* ticks from arming to the call, fixed
          left,         \* ticks left, 0 for an entry that is not armed
          due           \* run out in the current tick and not called yet

cvars == <<period, left, due>>

CInit == /\ period \in Nat
         /\ left = [e \in Entries |-> 0]
         /\ due = {}

Arm(e) == /\ left[e] = 0 /\ e \notin due
          /\ left' = [left EXCEPT ![e] = period]
          /\ UNCHANGED <<period, due>>

Restart(e) == /\ left[e] > 0
              /\ left' = [left EXCEPT ![e] = period]
              /\ UNCHANGED <<period, due>>

Drop(R) == /\ left' = [e \in Entries |-> IF e \in R THEN 0 ELSE left[e]]
           /\ due' = due \ R
           /\ UNCHANGED period

\* An owner takes its entries back between two ticks.
Disarm(R) == due = {} /\ Drop(R)

CountDown == /\ due = {}
             /\ due' = {e \in Entries : left[e] = 1}
             /\ left' = [e \in Entries |-> IF left[e] > 0 THEN left[e] - 1 ELSE 0]
             /\ UNCHANGED period

Call(e) == /\ e \in due
           /\ \/ Drop({e})
              \/ \E R \in Owned : e \in R /\ Drop(R)

CNext == \/ \E e \in Entries : Arm(e) \/ Restart(e) \/ Call(e)
         \/ \E R \in Owned : Disarm(R)
         \/ CountDown

CSpec == CInit /\ [][CNext]_cvars
=============================================================================
