------------------------ MODULE MCBookingConversation ------------------------
(***************************************************************************)
(* Instances of BookingConversation for TLC: two sessions, of which one at *)
(* a time works, or both answer for the customer.                          *)
(***************************************************************************)
EXTENDS BookingConversation, TLC

\* Sessions, times, services and customers are interchangeable.
Interchangeable ==
    Permutations(Sessions) \cup Permutations(Services) \cup
        Permutations(Times) \cup Permutations(Customers)

Answering == {"idle", "finalize", "final_check", "booking", "held", "settled"}

\* Bound: of two requests that overlap each is a finalize().
OnlyAnswersOverlap ==
    \/ \A s, t \in Sessions : s = t \/ At(s, "idle") \/ At(t, "idle")
    \/ \A s \in Sessions : tool[s].at \in Answering

\* Bound: the bootstrap reads the row before the first tool has changed it, runs
\* beside tools that run one at a time, and ends before a second summary.
BootsEarly ==
    boot.at # "idle" =>
        Sequential /\ boot.state \in {"idle", "catalog_loading"} /\ ctx.version <= 1

Bounds == OnlyAnswersOverlap /\ BootsEarly

=============================================================================
