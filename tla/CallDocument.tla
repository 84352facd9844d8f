----------------------------- MODULE CallDocument -----------------------------
(***************************************************************************)
(* What the record of a call promises its readers, whatever streams,       *)
(* callbacks and workers do to keep it: a text that only gains, one end    *)
(* that the first report decides, an analysis made in one instant of the   *)
(* text as it is, and an erasure that lasts.  No revisions, leases,        *)
(* attempts or processes.                                                  *)
(***************************************************************************)
CONSTANTS
    Items,     \* turns the call may have
    Outcomes   \* how a call may end

VARIABLES
    text,      \* the state of each turn
    outcome,   \* how the call ended, "open" before
    analysed,  \* the text a valid analysis was made from, if there is one
    erased     \* the content is gone

vars == <<text, outcome, analysed, erased>>

States == {"absent", "provisional", "interrupted", "confirmed"}
Final == {"interrupted", "confirmed"}

Silence == [x \in Items |-> "absent"]

Init ==
    /\ text = Silence
    /\ outcome = "open"
    /\ analysed = {}
    /\ erased = FALSE

\* A turn, or a better version of it, is written, during the call or late.  An
\* analysis made without it is no longer valid.
Write(x, state) ==
    /\ ~erased
    /\ text[x] \in Final => state \in Final
    /\ text' = [text EXCEPT ![x] = state]
    /\ analysed' = {}
    /\ UNCHANGED <<outcome, erased>>

\* The call ends, with what was heard of it if it had to be kept elsewhere.
End(o) ==
    /\ outcome = "open"
    /\ outcome' = o
    /\ text' \in {text} \cup {[text EXCEPT ![x] = "confirmed"] : x \in Items}
    /\ UNCHANGED <<analysed, erased>>

\* The analysis of an ended call in which something was said.
Publish ==
    /\ outcome # "open" /\ ~erased
    /\ \E x \in Items : text[x] = "confirmed"
    /\ analysed' = {text}
    /\ UNCHANGED <<text, outcome, erased>>

Erase ==
    /\ outcome # "open"
    /\ text' = Silence /\ analysed' = {} /\ erased' = TRUE
    /\ UNCHANGED outcome

Next ==
    \/ \E x \in Items, state \in States \ {"absent"} : Write(x, state)
    \/ \E o \in Outcomes : End(o)
    \/ Publish
    \/ Erase

Spec == Init /\ [][Next]_vars
=============================================================================
