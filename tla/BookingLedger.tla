---------------------------- MODULE BookingLedger ----------------------------
(***************************************************************************)
(* What the bookings of a tenant promise, whatever services/               *)
(* calendar_booking.py does to keep it: a call may hold the time of its    *)
(* booking, settle it or free it, and is answered once.  No locks, rows,   *)
(* processes or providers.                                                 *)
(***************************************************************************)
CONSTANTS Requests, Keys

VARIABLES
    key,      \* the idempotency key of each call
    clash,    \* pairs of calls that must not both have a booking
    booking,  \* the booking of each call
    answer    \* the answer each call got

vars == <<key, clash, booking, answer>>

Active == {r \in Requests : booking[r] \in {"held", "booked"}}

Init ==
    /\ key \in [Requests -> Keys]
    /\ clash \subseteq Requests \X Requests
    /\ booking = [r \in Requests |-> "none"]
    /\ answer = [r \in Requests |-> "none"]

\* The call takes the time of its slot, the first of its key to do so.
Hold(r) ==
    /\ \A q \in Requests : key[q] = key[r] => booking[q] = "none"
    /\ \A q \in Active : <<r, q>> \notin clash
    /\ booking' = [booking EXCEPT ![r] = "held"]
    /\ UNCHANGED <<key, clash, answer>>

\* A call that has no booking yet is kept apart from fewer calls from now on.
Lapse(r) ==
    /\ booking[r] = "none"
    /\ answer[r] = "none"
    /\ clash' \in SUBSET clash
    /\ \A p \in clash \ clash' : r \in {p[1], p[2]}
    /\ UNCHANGED <<key, booking, answer>>

\* The booking is final, and its call says so.
Settle(r) ==
    /\ booking[r] = "held"
    /\ answer[r] = "none"
    /\ booking' = [booking EXCEPT ![r] = "booked"]
    /\ answer' = [answer EXCEPT ![r] = "confirmed"]
    /\ UNCHANGED <<key, clash>>

\* The booking is given up, and its call says so.
Free(r) ==
    /\ booking[r] = "held"
    /\ answer[r] = "none"
    /\ booking' = [booking EXCEPT ![r] = "freed"]
    /\ answer' = [answer EXCEPT ![r] = "refused"]
    /\ UNCHANGED <<key, clash>>

\* A repeated call learns of the booking of its key.
Repeat(r) ==
    /\ answer[r] = "none"
    /\ \E q \in Requests : key[q] = key[r] /\ booking[q] = "booked"
    /\ answer' = [answer EXCEPT ![r] = "confirmed"]
    /\ UNCHANGED <<key, clash, booking>>

\* Calls end without a booking, or without knowing of it; several at once when
\* a process dies.
Refuse(S) ==
    /\ \A r \in S : answer[r] = "none"
    /\ answer' = [r \in Requests |-> IF r \in S THEN "refused" ELSE answer[r]]
    /\ UNCHANGED <<key, clash, booking>>

Next ==
    \/ \E r \in Requests : Hold(r) \/ Lapse(r) \/ Settle(r) \/ Free(r) \/ Repeat(r)
    \/ \E S \in SUBSET Requests : Refuse(S)

Spec == Init /\ [][Next]_vars
=============================================================================
