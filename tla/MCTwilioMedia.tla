---------------------------- MODULE MCTwilioMedia ----------------------------
(***************************************************************************)
(* Instances of TwilioMedia for TLC.                                       *)
(***************************************************************************)
EXTENDS TwilioMedia, TLC
=============================================================================
