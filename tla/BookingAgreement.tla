--------------------------- MODULE BookingAgreement ---------------------------
(***************************************************************************)
(* What one conversation promises the customer, however its tools are      *)
(* ordered, repeated and broken off: offers that follow one another, a yes *)
(* to the newest of them, a booking of exactly what was agreed, at most    *)
(* one confirmed, and a success announced only after it: until something   *)
(* reopens the conversation.  No sessions, copies, slots or states of a    *)
(* dialogue.                                                               *)
(***************************************************************************)
EXTENDS Naturals

CONSTANT Offers  \* what may be summarised, each under a version: numbers

VARIABLES
    offers,     \* the summaries told, with their versions
    agreed,     \* the versions said yes to
    bookings,   \* the bookings made, each of one offer
    announced,  \* the success was told
    reopened    \* the conversation has forgotten its booking

vars == <<offers, agreed, bookings, announced, reopened>>

Init ==
    /\ offers = {}
    /\ agreed = {}
    /\ bookings = {}
    /\ announced = FALSE
    /\ reopened = FALSE

Booked == \E b \in bookings : b.status = "confirmed"

\* Nothing goes on beside a confirmed booking, unless it was forgotten.
Open == ~Booked \/ reopened

Newest(k) == k \in offers /\ \A l \in offers : l.version <= k.version

\* Every offer has a version of its own, above the older ones.
Offer(k) ==
    /\ Open
    /\ \A l \in offers : l.version < k.version
    /\ offers' = offers \cup {k}
    /\ UNCHANGED <<agreed, bookings, announced, reopened>>

\* Yes.
Agree(k) ==
    /\ Open
    /\ Newest(k)
    /\ agreed' = agreed \cup {k.version}
    /\ UNCHANGED <<offers, bookings, announced, reopened>>

\* An offer is tried once.
Hold(k) ==
    /\ Open
    /\ Newest(k) /\ k.version \in agreed
    /\ \A b \in bookings : b.offer # k
    /\ bookings' = bookings \cup {[offer |-> k, status |-> "pending"]}
    /\ UNCHANGED <<offers, agreed, announced, reopened>>

Settle(k, status) ==
    /\ Open
    /\ Newest(k) /\ [offer |-> k, status |-> "pending"] \in bookings
    /\ bookings' = (bookings \ {[offer |-> k, status |-> "pending"]})
                       \cup {[offer |-> k, status |-> status]}
    /\ UNCHANGED <<offers, agreed, announced, reopened>>

Announce ==
    /\ Booked
    /\ announced' = TRUE
    /\ UNCHANGED <<offers, agreed, bookings, reopened>>

\* A booking that is tried or confirmed is forgotten.
Reopen ==
    /\ agreed # {}
    /\ announced' = FALSE
    /\ reopened' = TRUE
    /\ UNCHANGED <<offers, agreed, bookings>>

Next ==
    \/ \E k \in Offers : Offer(k)
    \/ \E k \in offers :
        \/ Agree(k)
        \/ Hold(k)
        \/ \E status \in {"confirmed", "failed"} : Settle(k, status)
    \/ Announce
    \/ Reopen

Spec == Init /\ [][Next]_vars
=============================================================================
