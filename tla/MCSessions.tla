------------------------------ MODULE MCSessions ------------------------------
(***************************************************************************)
(* Instances of Sessions for TLC.                                          *)
(***************************************************************************)
EXTENDS Sessions, TLC

Interchangeable ==
    Permutations(Companies) \cup Permutations(Sessions) \cup Permutations(Tokens)
=============================================================================
