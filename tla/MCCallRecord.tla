----------------------------- MODULE MCCallRecord -----------------------------
(***************************************************************************)
(* An instance of CallRecord and of its queue for TLC.                     *)
(***************************************************************************)
EXTENDS CallQueue

CONSTANTS w1, w2
=============================================================================
