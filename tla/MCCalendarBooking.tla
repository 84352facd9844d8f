-------------------------- MODULE MCCalendarBooking --------------------------
(***************************************************************************)
(* Instances of CalendarBooking for TLC: up to three calls, two keys, and  *)
(* two slots on a grid of hours that follow each other: they overlap only  *)
(* through the buffer of the first.                                        *)
(***************************************************************************)
EXTENDS CalendarBooking, TLC

CONSTANTS r1, r2, r3, p1, p2

Buffered == [start |-> 2, end |-> 3, before |-> 0, after |-> 1]
Late == [start |-> 3, end |-> 4, before |-> 0, after |-> 0]

TwoSlots == {Buffered, Late}

\* r1 and r2 share an event loop, r3 runs in another process.
TwoHomes == [r \in Requests |-> IF r = r3 THEN p2 ELSE p1]

\* r1 and r2 are interchangeable, and so are the keys: one order of each is enough.
Ordered ==
    /\ slot[r1].start <= slot[r2].start
    /\ key[r1] = CHOOSE k \in Keys : TRUE

\* Bound: the timezone changes once, and beside two calls only, of one process or
\* of two.
OneZoneOrTwoCalls ==
    LET usual == CHOOSE z \in Zones : TRUE IN
    \/ {tenantZone, configZone} \cup {zone[r] : r \in Requests} = {usual}
    \/ /\ tenantZone # usual
       /\ \E r \in {r2, r3} : pc[r] = "idle" /\ zone[r] = usual
=============================================================================
