------------------------------ MODULE MCAccounts ------------------------------
(***************************************************************************)
(* Instances of Accounts for TLC.                                          *)
(***************************************************************************)
EXTENDS Accounts, TLC

Interchangeable ==
    Permutations(Users) \cup Permutations(Companies) \cup Permutations(Invitations)

\* Bound: handlers are held only while one company is left to be created.
HeldInOneCompany ==
    \/ \E c \in Companies : company[c] = "none"
    \/ \A r \in Requests : held[r] = None

\* Bound: a second invitation is one to the same person and place, while one company
\* is left to be created and nothing was set up by the wizard or the command line.
SecondReplaces ==
    \A i, j \in Invitations : i # j /\ letter[i] # None /\ letter[j] # None =>
       /\ letter[i].to = letter[j].to /\ letter[i].at = letter[j].at
       /\ ~setup /\ \E c \in Companies : company[c] = "none"

Bounds == HeldInOneCompany /\ SecondReplaces
=============================================================================
