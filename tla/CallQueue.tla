------------------------------ MODULE CallQueue ------------------------------
(***************************************************************************)
(* The call of CallRecord in the work queue of its tenant.  A cycle of     *)
(* process_tenant_calls (services/call_processing.py) takes up the oldest  *)
(* hundred candidates, and a call whose analysis failed for an empty       *)
(* transcript stays one in every cycle: while a hundred others stand       *)
(* before it the call is not taken up at all.                              *)
(***************************************************************************)
EXTENDS CallRecord

VARIABLE crowded  \* a hundred candidates of the tenant stand before the call

QueueInit == Init /\ crowded \in BOOLEAN

\* Other calls of the tenant become candidates, or are settled or erased.
OthersChange ==
    /\ crowded' = ~crowded
    /\ UNCHANGED vars

\* A cycle takes the call up only if it is among the candidates it selects.
QueueNext ==
    \/ /\ \/ Environment
          \/ \E w \in Workers : Continues(w) \/ (~crowded /\ Takes(w))
       /\ UNCHANGED crowded
    \/ OthersChange

QueueSpec == QueueInit /\ [][QueueNext]_<<vars, crowded>>

\* A step of the call that leaves the other calls alone.
Alone(A) == A /\ UNCHANGED crowded

\* Streams end (their length is bounded) and run their finally clause, clocks
\* run, and every worker loops every five seconds, so what it can do with the
\* call while it is among the candidates it does in the end.  An unexpected
\* exception does not hit every attempt to claim (strong fairness).  Nobody has
\* to connect, talk, call back, retry, delete or fail, and the calls before this
\* one need not go away.
QueueFairness ==
    /\ \A s \in Streams :
        WF_<<vars, crowded>>(Alone(RejectEnds(s) \/ StreamEnds(s) \/ StreamCloses(s)))
    /\ WF_<<vars, crowded>>(Alone(TimePasses))
    /\ \A w \in Workers :
        /\ WF_<<vars, crowded>>(Alone(~crowded /\ Recover(w)))
        /\ WF_<<vars, crowded>>(Alone((~crowded \/ worker[w].at # "idle") /\ Analyze(w)))
        /\ WF_<<vars, crowded>>(Alone(Answer(w)))
        /\ SF_<<vars, crowded>>(Alone((~crowded \/ worker[w].at # "idle") /\ Claim(w)))

FairSpec == QueueSpec /\ QueueFairness

-----------------------------------------------------------------------------
\* The analysis has come to its end: nothing more happens without somebody.
Settled == analysis \in {"completed", "failed"} /\ due = "never"

\* Every call that is among the oldest hundred candidates from some time on ends,
\* and the analysis of one in which something was said settles, unless its content
\* is deleted, although workers and streams may die.  A call that is crowded out
\* again and again is promised nothing.
EndsAndSettles ==
    <>[]~crowded => <>[](Ended /\ (deleted \/ Confirmed(turns) = {} \/ Settled))
=============================================================================
