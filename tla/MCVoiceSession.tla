---------------------------- MODULE MCVoiceSession ----------------------------
(***************************************************************************)
(* Instances of VoiceSession for TLC.                                      *)
(***************************************************************************)
EXTENDS VoiceSession, TLC

\* Attempts are random ids: nothing tells one from another.
AnyAttempt == Permutations(Attempts)
=============================================================================
