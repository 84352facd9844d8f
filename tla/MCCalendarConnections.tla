------------------------ MODULE MCCalendarConnections ------------------------
(***************************************************************************)
(* Instances of CalendarConnections for TLC.                               *)
(***************************************************************************)
EXTENDS CalendarConnections, TLC

Interchangeable ==
    Permutations(Requests) \cup Permutations(States) \cup Permutations(Calendars)
=============================================================================
