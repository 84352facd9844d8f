--------------------------- MODULE CallRecordProofs ---------------------------
(***************************************************************************)
(* What CallRecord keeps for any number of segments, streams and workers,  *)
(* any limit of attempts and any bounds.                                   *)
(***************************************************************************)
EXTENDS CallRecord, TLAPS

-----------------------------------------------------------------------------
(* The inductive invariant *)

\* The end of the call and its documentation are set together, and nothing is
\* analysed before the end.
EndDocumented ==
    /\ Ended => doc # "recording"
    /\ ~Ended =>
        /\ doc = "recording" /\ ~faulty /\ ~deleted
        /\ analysis = "pending"
        /\ \A w \in Workers : worker[w].at = "idle"

\* Only finish() changes the transcript without a new revision: before the
\* first segment, and always to the same transcript.
Unrevised ==
    revision = 0 =>
        /\ \A x \in Segments : turns[x] = "absent"
        /\ turns[NoSegment] \in {"absent", "confirmed"}

\* What may be claimed again has an attempt left.
AttemptLeft == analysis = "pending" => attempts < MaxAttempts

\* A worker that holds the lease and knows the revision knows the transcript.
ClaimCurrent ==
    \A w \in Workers :
        worker[w].at = "asking" =>
            /\ worker[w].revision <= revision
            /\ lease = w /\ worker[w].revision = revision =>
                /\ worker[w].turns = turns
                /\ Confirmed(turns) # {}

CompletedHasText == analysis = "completed" => Confirmed(turns) # {}

Inv ==
    /\ EndDocumented /\ Unrevised /\ AttemptLeft /\ ClaimCurrent /\ CompletedHasText
    /\ ResultIsCurrent /\ DeletedStaysErased /\ ClaimsBounded /\ CompleteIsFinal

IInv == TypeOK /\ Inv

-----------------------------------------------------------------------------
(* Types *)

LEMMA PlaceType == At("idle") \in Places /\ At("requeued") \in Places
BY DEF At, Places, Silence, Transcripts, TurnStates

LEMMA NothingType == Silence \in Transcripts /\ Nothing \in Results
BY DEF Nothing, Results, Silence, Transcripts, TurnStates

\* The variables a transaction on the row writes.
RowTypeOK ==
    /\ status \in {"provisioned", "connected"} \cup Terminal
    /\ faulty \in BOOLEAN
    /\ doc \in {"recording", "complete", "incomplete", "deleted"}
    /\ turns \in Transcripts
    /\ revision \in Nat
    /\ analysis \in {"pending", "processing", "completed", "failed", "not_requested"}
    /\ failure \in {"none", "transcript_empty", "provider", "unexpected", "exhausted"}
    /\ attempts \in Nat
    /\ lease \in Workers \cup {NoOne}
    /\ due \in {"never", "later", "now"}
    /\ result \in Results
    /\ deleted \in BOOLEAN

LEMMA FinishType ==
    ASSUME TypeOK, NEW outcome \in Terminal, NEW error \in BOOLEAN,
           NEW heard \in BOOLEAN, Finish(outcome, error, heard)
    PROVE  RowTypeOK'
<1>1. CASE deleted /\ UNCHANGED <<talk, job, deleted>>
  BY <1>1 DEF TypeOK, RowTypeOK, talk, job
<1>2. CASE ~deleted
  <2>1. turns' \in Transcripts
    BY <1>2 DEF Finish, TypeOK, Transcripts, TurnStates
  <2> QED BY <1>2, <2>1 DEF Finish, TypeOK, RowTypeOK
<1> QED BY <1>1, <1>2 DEF Finish

LEMMA PutSegmentType ==
    ASSUME TypeOK, NEW x \in Segments, NEW state \in TurnStates, PutSegment(x, state)
    PROVE  RowTypeOK'
<1>1. turns' \in Transcripts
  BY DEF PutSegment, TypeOK, Transcripts
<1> QED BY <1>1 DEF PutSegment, TypeOK, RowTypeOK

LEMMA EraseType == ASSUME TypeOK, Erase PROVE RowTypeOK'
BY NothingType DEF Erase, TypeOK, RowTypeOK

LEMMA TypeInit == Init => TypeOK
<1> SUFFICES ASSUME Init PROVE TypeOK OBVIOUS
<1>1. turns \in Transcripts /\ result \in Results
  BY NothingType DEF Init
<1>2. worker \in [Workers -> Places] /\ callbacks \in 0..MaxCallbacks /\ retries \in 0..MaxRetries
  BY PlaceType, BoundsAssumption DEF Init
<1> QED BY <1>1, <1>2 DEF Init, TypeOK

LEMMA TypeStep == TypeOK /\ [Next]_vars => TypeOK'
<1> SUFFICES ASSUME TypeOK, [Next]_vars PROVE TypeOK' OBVIOUS
<1> USE BoundsAssumption
<1>1. ASSUME NEW s \in Streams, Connect(s) PROVE TypeOK'
  BY <1>1 DEF Connect, StreamGoes, TypeOK, job
<1>2. ASSUME NEW s \in Streams, Reject(s) PROVE TypeOK'
  BY <1>2 DEF Reject, StreamGoes, TypeOK, talk, job
<1>20. ASSUME NEW s \in Streams, RejectEnds(s) PROVE TypeOK'
  <2>1. RowTypeOK' BY <1>20, FinishType DEF RejectEnds, Terminal
  <2> QED BY <1>20, <2>1 DEF RejectEnds, StreamGoes, TypeOK, RowTypeOK
<1>3. ASSUME NEW s \in Streams, NEW x \in Segments, NEW state \in TurnStates,
             SaveSegment(s, x, state)
      PROVE  TypeOK'
  <2>1. RowTypeOK' BY <1>3, PutSegmentType DEF SaveSegment
  <2> QED BY <1>3, <2>1 DEF SaveSegment, TypeOK, RowTypeOK
<1>4. ASSUME NEW s \in Streams, StreamEnds(s) PROVE TypeOK'
  <2> PICK place \in {"stopped", "marred", "dropped"}, heard \in BOOLEAN :
        /\ StreamGoes(s, place)
        /\ \/ \E error \in BOOLEAN : Finish("ended", error, heard)
           \/ Finish("failed", TRUE, heard)
           \/ UNCHANGED <<talk, job, deleted>>
    BY <1>4 DEF StreamEnds
  <2>1. RowTypeOK'
    <3>1. CASE \E error \in BOOLEAN : Finish("ended", error, heard)
      BY <3>1, FinishType DEF Terminal
    <3>2. CASE Finish("failed", TRUE, heard)
      BY <3>2, FinishType DEF Terminal
    <3>3. CASE UNCHANGED <<talk, job, deleted>>
      BY <3>3 DEF TypeOK, RowTypeOK, talk, job
    <3> QED BY <3>1, <3>2, <3>3
  <2> QED BY <1>4, <2>1 DEF StreamEnds, StreamGoes, TypeOK, RowTypeOK
<1>5. ASSUME NEW s \in Streams, StreamCloses(s) PROVE TypeOK'
  <2> PICK heard \in BOOLEAN :
        \/ stream[s] = "dropped" /\ Finish("failed", TRUE, heard)
        \/ stream[s] # "dropped" /\ Finish("ended", stream[s] = "marred", heard)
    BY <1>5 DEF StreamCloses
  <2>1. RowTypeOK'
    BY FinishType, (stream[s] = "marred") \in BOOLEAN DEF Terminal
  <2> QED BY <1>5, <2>1 DEF StreamCloses, StreamGoes, TypeOK, RowTypeOK
<1>6. ASSUME NEW s \in Streams, StreamDies(s) PROVE TypeOK'
  BY <1>6 DEF StreamDies, StreamGoes, TypeOK, talk, job
<1>7. CASE StatusCallback
  <2>1. RowTypeOK' BY <1>7, FinishType DEF StatusCallback, Terminal
  <2> QED BY <1>7, <2>1 DEF StatusCallback, TypeOK, RowTypeOK
<1>8. ASSUME NEW w \in Workers, RecoverLost(w) PROVE TypeOK'
  <2>1. RowTypeOK' BY <1>8, FinishType DEF RecoverLost, Terminal
  <2> QED BY <1>8, <2>1 DEF RecoverLost, TypeOK, RowTypeOK
<1>9. ASSUME NEW w \in Workers, ExpireLease(w) PROVE TypeOK'
  BY <1>9, PlaceType DEF ExpireLease, Moves, TypeOK, talk
<1>10. ASSUME NEW w \in Workers, RequeueFailed(w) PROVE TypeOK'
  BY <1>10, PlaceType DEF RequeueFailed, Moves, TypeOK, talk
<1>11. ASSUME NEW w \in Workers, AnalyzeNothing(w) \/ AnalyzeBreaks(w) PROVE TypeOK'
  BY <1>11, PlaceType DEF AnalyzeNothing, AnalyzeBreaks, Moves, TypeOK, talk
<1>12. ASSUME NEW w \in Workers, Claim(w) PROVE TypeOK'
  <2>1. [at |-> "asking", revision |-> revision, turns |-> turns] \in Places
    BY DEF TypeOK, Places
  <2> QED BY <1>12, <2>1 DEF Claim, Moves, TypeOK, talk
<1>13. ASSUME NEW w \in Workers, WriteBack(w) PROVE TypeOK'
  <2>1. [made |-> TRUE, revision |-> worker[w].revision, turns |-> worker[w].turns]
          \in Results
    BY DEF TypeOK, Results, Places
  <2> QED BY ZenonT(30), <1>13, <2>1, PlaceType DEF WriteBack, Moves, TypeOK, talk
<1>14. ASSUME NEW w \in Workers, WriteFailure(w) PROVE TypeOK'
  <2>1. due' \in {"never", "later", "now"}
    BY <1>14 DEF WriteFailure, TypeOK
  <2> QED BY <1>14, <2>1, PlaceType DEF WriteFailure, Moves, TypeOK, talk
<1>15. ASSUME NEW w \in Workers, WorkerDies(w) PROVE TypeOK'
  BY <1>15, PlaceType DEF WorkerDies, Moves, TypeOK, talk, job
<1>16. ASSUME (\E w \in Workers : Retire(w)) \/ DeleteContent PROVE TypeOK'
  <2>1. RowTypeOK' BY <1>16, EraseType DEF Retire, DeleteContent
  <2> QED BY <1>16, <2>1 DEF Retire, DeleteContent, TypeOK, RowTypeOK
<1>17. CASE RetryAnalysis
  BY <1>17 DEF RetryAnalysis, TypeOK, talk
<1>18. CASE TimePasses
  BY <1>18 DEF TimePasses, TypeOK, talk
<1>19. CASE UNCHANGED vars
  BY <1>19 DEF vars, TypeOK, talk, job
<1> QED BY <1>1, <1>2, <1>3, <1>4, <1>5, <1>6, <1>7, <1>8, <1>9, <1>10, <1>11,
           <1>12, <1>13, <1>14, <1>15, <1>16, <1>17, <1>18, <1>19, <1>20
        DEF Next, Takes, Continues, Environment, Recover, Analyze, Answer

\* CallRecord: every variable keeps its type.
THEOREM TypeCorrect == Spec => []TypeOK
BY TypeInit, TypeStep, PTL DEF Spec

-----------------------------------------------------------------------------
(* The transactions many actions make *)

\* Before the first segment a transcript that has confirmed text is the one
\* finish() hands in again.
LEMMA HeardAgain ==
    ASSUME TypeOK, Unrevised, revision = 0, Confirmed(turns) # {}
    PROVE  [turns EXCEPT ![NoSegment] = "confirmed"] = turns
<1>1. turns[NoSegment] = "confirmed"
  BY DEF Unrevised, Confirmed, Items
<1> QED BY <1>1 DEF TypeOK, Transcripts

LEMMA FinishKeeps ==
    ASSUME TypeOK, Inv, NEW outcome \in Terminal, NEW error \in BOOLEAN,
           NEW heard \in BOOLEAN, Finish(outcome, error, heard), UNCHANGED worker,
           ~deleted
    PROVE  Inv'
<1> USE DEF Finish, talk, job
<1>0. /\ status' = IF Ended THEN status ELSE outcome
      /\ Ended'
      /\ faulty' = IF Ended THEN faulty \/ error ELSE error
      /\ turns' = IF heard /\ revision = 0
                  THEN [turns EXCEPT ![NoSegment] = "confirmed"] ELSE turns
      /\ UNCHANGED <<revision, analysis, failure, attempts, lease, result, deleted>>
  BY DEF FirstReport, Ended, Terminal
<1>1. EndDocumented'
  BY <1>0 DEF Inv, EndDocumented
<1>2. Unrevised'
  BY <1>0, NamesAssumption DEF Inv, Unrevised, TypeOK, Transcripts, Items
<1>3. AttemptLeft'
  BY <1>0 DEF Inv, AttemptLeft
<1>4. Confirmed(turns) # {} => turns' = turns
  BY <1>0, HeardAgain DEF Inv
<1>5. ClaimCurrent'
  BY <1>0, <1>4 DEF Inv, ClaimCurrent, Confirmed
<1>6. CompletedHasText' /\ ResultIsCurrent'
  BY <1>0, <1>4 DEF Inv, CompletedHasText, ResultIsCurrent, Confirmed
<1>7. DeletedStaysErased' /\ ClaimsBounded'
  BY <1>0 DEF Inv, DeletedStaysErased, ClaimsBounded
<1>8. CompleteIsFinal'
  <2> SUFFICES ASSUME doc' = "complete"
               PROVE  /\ status' = "ended" /\ ~faulty'
                      /\ turns' # Silence /\ AllFinal(turns')
    BY DEF CompleteIsFinal, AllFinal
  <2>1. CASE doc = "complete"
    <3>1. status = "ended" /\ ~faulty /\ turns # Silence /\ AllFinal(turns)
      BY <2>1 DEF Inv, CompleteIsFinal
    <3>2. ~error BY <3>1 DEF LateError, Terminal
    <3>3. turns' # Silence /\ AllFinal(turns')
      BY <1>0, <3>1, Zenon DEF AllFinal, TypeOK, Transcripts, Silence, Items
    <3> QED BY <1>0, <3>1, <3>2, <3>3 DEF Ended, Terminal
  <2>2. CASE doc # "complete"
    <3>1. doc = "recording" /\ outcome = "ended" /\ ~faulty' /\ turns' # Silence
          /\ AllFinal(turns')
      BY <2>2
    <3> QED BY <1>0, <3>1 DEF Inv, EndDocumented, Ended, AllFinal
  <2> QED BY <2>1, <2>2
<1> QED BY <1>1, <1>2, <1>3, <1>5, <1>6, <1>7, <1>8 DEF Inv

LEMMA PutSegmentKeeps ==
    ASSUME TypeOK, Inv, NEW x \in Segments, NEW state \in TurnStates \ {"absent"},
           PutSegment(x, state), UNCHANGED worker, ~deleted
    PROVE  Inv'
<1> USE DEF PutSegment
<1>0. /\ revision \in Nat /\ revision' = revision + 1 /\ turns \in Transcripts
      /\ turns' = [turns EXCEPT ![x] = state]
      /\ UNCHANGED <<status, faulty, failure, result, deleted>>
      /\ AnalysedAgain <=> Ended
  BY DEF TypeOK, AnalysedAgain, Ended
<1>1. EndDocumented'
  BY <1>0 DEF Inv, EndDocumented, Ended, AnalysedAgain
<1>2. Unrevised'
  BY <1>0 DEF Unrevised
<1>3. AttemptLeft'
  BY <1>0, BoundsAssumption DEF Inv, AttemptLeft, TypeOK
<1>4. ClaimCurrent'
  <2> SUFFICES ASSUME NEW w \in Workers, worker[w].at = "asking"
               PROVE  worker[w].revision < revision'
    BY <1>0 DEF ClaimCurrent, TypeOK, Places
  <2>1. worker[w].revision <= revision /\ worker[w].revision \in Nat
    BY DEF Inv, ClaimCurrent, TypeOK, Places
  <2> QED BY <1>0, <2>1
<1>5. analysis' = "pending" /\ lease' = NoOne
  BY <1>0 DEF Inv, EndDocumented, ClaimsBounded
<1>6. CompletedHasText' /\ ResultIsCurrent' /\ DeletedStaysErased'
  BY <1>0, <1>5 DEF CompletedHasText, ResultIsCurrent, DeletedStaysErased
<1>7. ClaimsBounded'
  BY <1>5, BoundsAssumption DEF Inv, ClaimsBounded, TypeOK
<1>8. CompleteIsFinal'
  <2> SUFFICES ASSUME doc' = "complete"
               PROVE  /\ status' = "ended" /\ ~faulty'
                      /\ turns' # Silence /\ AllFinal(turns')
    BY DEF CompleteIsFinal, AllFinal
  <2>1. turns' # Silence
    BY <1>0 DEF Transcripts, Silence, Items
  <2>2. Ended
    BY <1>0 DEF Inv, EndDocumented
  <2>3. status = "ended" /\ ~faulty /\ AllFinal(turns')
    BY <1>0, <2>2 DEF Inv, CompleteIsFinal
  <2> QED BY <1>0, <2>1, <2>3
<1> QED BY <1>1, <1>2, <1>3, <1>4, <1>6, <1>7, <1>8 DEF Inv

LEMMA EraseKeeps ==
    ASSUME TypeOK, Inv, Erase, UNCHANGED worker, Ended
    PROVE  Inv'
<1> USE DEF Erase
<1>1. EndDocumented' /\ Unrevised' /\ AttemptLeft'
  BY DEF EndDocumented, Unrevised, AttemptLeft, Ended, TypeOK
<1>2. ClaimCurrent'
  <2> SUFFICES ASSUME NEW w \in Workers, worker[w].at = "asking"
               PROVE  worker[w].revision < revision'
    BY DEF ClaimCurrent, TypeOK, Places
  <2>1. worker[w].revision <= revision /\ worker[w].revision \in Nat
    BY DEF Inv, ClaimCurrent, TypeOK, Places
  <2> QED BY <2>1 DEF TypeOK
<1>3. CompletedHasText' /\ ResultIsCurrent' /\ DeletedStaysErased'
  BY DEF CompletedHasText, ResultIsCurrent, DeletedStaysErased
<1>4. ClaimsBounded' /\ CompleteIsFinal'
  BY DEF Inv, ClaimsBounded, CompleteIsFinal
<1> QED BY <1>1, <1>2, <1>3, <1>4 DEF Inv

\* What UNCHANGED leaves of the row.
LEMMA RowKept ==
    ASSUME Inv, UNCHANGED <<talk, job, deleted, worker>>
    PROVE  Inv'
BY DEF Inv, talk, job, EndDocumented, Unrevised, AttemptLeft, ClaimCurrent,
       CompletedHasText, ResultIsCurrent, DeletedStaysErased, ClaimsBounded,
       CompleteIsFinal, Ended, Confirmed, AllFinal

LEMMA FinishStep ==
    ASSUME IInv, NEW outcome \in Terminal, NEW error \in BOOLEAN,
           NEW heard \in BOOLEAN, Finish(outcome, error, heard), UNCHANGED worker
    PROVE  Inv'
<1>1. CASE deleted
  BY <1>1, RowKept DEF IInv, Finish
<1> QED BY <1>1, FinishKeeps DEF IInv

-----------------------------------------------------------------------------
(* The steps of a worker: the transcript and the end of the call stay *)

\* A worker that gives up, or is put back, remembers no claim.
LEMMA MoveAway ==
    ASSUME TypeOK, ClaimCurrent, NEW w \in Workers, NEW place \in {"idle", "requeued"},
           Moves(w, At(place)), UNCHANGED <<turns, revision>>,
           \A v \in Workers : lease' = v => lease = v
    PROVE  ClaimCurrent'
BY DEF TypeOK, ClaimCurrent, Moves, At, Confirmed

\* Nothing that is read of the talk has changed.
LEMMA TalkKept ==
    ASSUME Inv, UNCHANGED talk
    PROVE  /\ Unrevised' /\ CompleteIsFinal'
           /\ Ended' = Ended /\ Confirmed(turns)' = Confirmed(turns)
BY DEF Inv, talk, Unrevised, CompleteIsFinal, Ended, Confirmed, AllFinal

\* A worker that has something to do, has it after the end.
LEMMA BusyEnded ==
    ASSUME Inv, NEW w \in Workers, worker[w].at # "idle" \/ analysis # "pending"
    PROVE  Ended
BY DEF Inv, EndDocumented

LEMMA ExpireLeaseKeeps ==
    ASSUME TypeOK, Inv, NEW w \in Workers, ExpireLease(w)
    PROVE  Inv'
<1> USE DEF ExpireLease
<1>1. Ended BY BusyEnded
<1>2. EndDocumented'
  BY <1>1, TalkKept DEF Inv, EndDocumented, talk
<1>3. AttemptLeft' /\ CompletedHasText' /\ ResultIsCurrent'
  BY BoundsAssumption DEF AttemptLeft, CompletedHasText, ResultIsCurrent, TypeOK
<1>4. ClaimCurrent'
  <2>1. CASE worker' = worker
    BY <2>1, TalkKept, NamesAssumption DEF Inv, ClaimCurrent, talk
  <2>2. CASE Moves(w, At("requeued"))
    BY <2>2, MoveAway, NamesAssumption DEF Inv, talk
  <2> QED BY <2>1, <2>2
<1>5. DeletedStaysErased' /\ ClaimsBounded'
  BY DEF Inv, DeletedStaysErased, ClaimsBounded
<1> QED BY <1>2, <1>3, <1>4, <1>5, TalkKept DEF Inv

LEMMA RequeueFailedKeeps ==
    ASSUME TypeOK, Inv, NEW w \in Workers, RequeueFailed(w)
    PROVE  Inv'
<1> USE DEF RequeueFailed
<1>1. Ended BY BusyEnded
<1>2. EndDocumented'
  BY <1>1, TalkKept DEF Inv, EndDocumented, talk
<1>3. AttemptLeft' /\ CompletedHasText' /\ ResultIsCurrent'
  BY DEF AttemptLeft, CompletedHasText, ResultIsCurrent
<1>4. ClaimCurrent'
  BY MoveAway DEF Inv, talk
<1>5. DeletedStaysErased' /\ ClaimsBounded'
  BY DEF Inv, DeletedStaysErased, ClaimsBounded
<1> QED BY <1>2, <1>3, <1>4, <1>5, TalkKept DEF Inv

LEMMA GiveUpKeeps ==
    ASSUME TypeOK, Inv, NEW w \in Workers, AnalyzeNothing(w) \/ AnalyzeBreaks(w)
    PROVE  Inv'
<1> USE DEF AnalyzeNothing, AnalyzeBreaks
<1>1. Ended
  BY BusyEnded DEF Reaches
<1>2. EndDocumented'
  BY <1>1, TalkKept DEF Inv, EndDocumented, talk
<1>3. \/ UNCHANGED analysis
      \/ analysis = "pending" /\ analysis' = "failed" /\ ~deleted
  BY DEF Analyzable
<1>4. AttemptLeft' /\ CompletedHasText' /\ ResultIsCurrent'
  BY <1>3, TalkKept DEF Inv, AttemptLeft, CompletedHasText, ResultIsCurrent, talk
<1>5. ClaimCurrent'
  BY MoveAway DEF Inv, talk
<1>6. DeletedStaysErased' /\ ClaimsBounded'
  BY <1>3 DEF Inv, DeletedStaysErased, ClaimsBounded, talk
<1> QED BY <1>2, <1>4, <1>5, <1>6, TalkKept DEF Inv

LEMMA ClaimKeeps ==
    ASSUME TypeOK, Inv, NEW w \in Workers, Claim(w)
    PROVE  Inv'
<1> USE DEF Claim, Analyzable
<1>1. EndDocumented'
  BY TalkKept DEF Inv, EndDocumented, talk
<1>2. AttemptLeft' /\ CompletedHasText' /\ ResultIsCurrent' /\ DeletedStaysErased'
  BY DEF AttemptLeft, CompletedHasText, ResultIsCurrent, DeletedStaysErased
<1>3. ClaimCurrent'
  <2> SUFFICES ASSUME NEW v \in Workers, (worker[v].at = "asking")'
               PROVE  /\ (worker[v].revision <= revision)'
                      /\ (lease = v /\ worker[v].revision = revision =>
                             worker[v].turns = turns /\ Confirmed(turns) # {})'
    BY DEF ClaimCurrent
  <2>1. CASE v = w
    BY <2>1, TalkKept DEF Moves, TypeOK, talk
  <2>2. CASE v # w
    BY <2>2, TalkKept DEF Inv, ClaimCurrent, Moves, TypeOK, talk
  <2> QED BY <2>1, <2>2
<1>4. ClaimsBounded'
  BY NamesAssumption, BoundsAssumption DEF Inv, AttemptLeft, ClaimsBounded, TypeOK
<1> QED BY <1>1, <1>2, <1>3, <1>4, TalkKept DEF Inv

LEMMA WriteBackKeeps ==
    ASSUME TypeOK, Inv, NEW w \in Workers, WriteBack(w)
    PROVE  Inv'
<1> USE DEF WriteBack, StillClaimed
<1>1. Ended BY BusyEnded
<1>2. EndDocumented'
  BY <1>1, TalkKept DEF Inv, EndDocumented, talk
<1>3. AttemptLeft' /\ DeletedStaysErased'
  BY DEF Inv, AttemptLeft, DeletedStaysErased, talk
<1>4. ClaimCurrent'
  BY MoveAway, NamesAssumption DEF Inv, talk
<1>5. CompletedHasText' /\ ResultIsCurrent'
  <2>1. CASE StillClaimed(w)
    <3>1. worker[w].turns = turns /\ Confirmed(turns) # {}
      BY <2>1 DEF Inv, ClaimCurrent
    <3> QED BY <2>1, <3>1, TalkKept DEF CompletedHasText, ResultIsCurrent, talk
  <2>2. CASE ~StillClaimed(w)
    BY <2>2, TalkKept DEF Inv, CompletedHasText, ResultIsCurrent, talk
  <2> QED BY <2>1, <2>2
<1>6. ClaimsBounded'
  BY DEF Inv, ClaimsBounded
<1> QED BY <1>2, <1>3, <1>4, <1>5, <1>6, TalkKept DEF Inv

LEMMA WriteFailureKeeps ==
    ASSUME TypeOK, Inv, NEW w \in Workers, WriteFailure(w) \/ WorkerDies(w)
    PROVE  Inv'
<1> USE DEF WriteFailure, WorkerDies, StillClaimed, job
<1>1. Ended BY BusyEnded
<1>2. EndDocumented'
  BY <1>1, TalkKept DEF Inv, EndDocumented, talk
<1>3. ClaimCurrent'
  BY MoveAway, NamesAssumption DEF Inv, talk
<1>4. CASE UNCHANGED <<analysis, lease>>
  BY <1>2, <1>3, <1>4, TalkKept
  DEF Inv, AttemptLeft, CompletedHasText, ResultIsCurrent, DeletedStaysErased,
      ClaimsBounded, talk
<1>5. CASE analysis' = "failed" /\ lease' = NoOne /\ ~deleted
  BY <1>2, <1>3, <1>5, TalkKept
  DEF Inv, AttemptLeft, CompletedHasText, ResultIsCurrent, DeletedStaysErased,
      ClaimsBounded
<1> QED BY <1>4, <1>5

-----------------------------------------------------------------------------
(* The invariant is inductive *)

LEMMA InvInit == Init => Inv
<1> SUFFICES ASSUME Init PROVE Inv OBVIOUS
<1>1. ~Ended /\ EndDocumented
  BY DEF Init, Ended, Terminal, EndDocumented, At
<1>2. Unrevised
  BY DEF Init, Unrevised, Silence, Items
<1>3. AttemptLeft /\ ClaimCurrent /\ CompletedHasText
  BY BoundsAssumption DEF Init, AttemptLeft, ClaimCurrent, CompletedHasText, At
<1>4. ResultIsCurrent /\ DeletedStaysErased /\ ClaimsBounded /\ CompleteIsFinal
  BY BoundsAssumption
  DEF Init, ResultIsCurrent, DeletedStaysErased, ClaimsBounded, CompleteIsFinal
<1> QED BY <1>1, <1>2, <1>3, <1>4 DEF Inv

LEMMA StreamKeeps ==
    ASSUME IInv, NEW s \in Streams,
           \/ Connect(s) \/ Reject(s) \/ RejectEnds(s) \/ StreamEnds(s)
             \/ StreamCloses(s) \/ StreamDies(s)
    PROVE  Inv'
<1>1. CASE Connect(s)
  <2>1. ~Ended /\ ~Ended' /\ UNCHANGED <<faulty, doc, turns, revision, job, deleted, worker>>
    BY <1>1 DEF Connect, Ended, Terminal
  <2> QED
    BY <2>1 DEF IInv, Inv, job, EndDocumented, Unrevised, AttemptLeft, ClaimCurrent,
                CompletedHasText, ResultIsCurrent, DeletedStaysErased, ClaimsBounded,
                CompleteIsFinal, Confirmed
<1>2. CASE Reject(s)
  BY <1>2, RowKept DEF Reject, IInv
<1>6. CASE RejectEnds(s)
  BY <1>6, FinishStep DEF RejectEnds, Terminal
<1>3. CASE StreamEnds(s)
  BY <1>3, RowKept, FinishStep DEF StreamEnds, IInv, Terminal
<1>4. CASE StreamCloses(s)
  BY <1>4, FinishStep DEF StreamCloses, Terminal
<1>5. CASE StreamDies(s)
  BY <1>5, RowKept DEF StreamDies, IInv
<1> QED BY <1>1, <1>2, <1>3, <1>4, <1>5, <1>6

LEMMA InvStep == IInv /\ [Next]_vars => Inv'
<1> SUFFICES ASSUME IInv, [Next]_vars PROVE Inv' OBVIOUS
<1> USE DEF IInv
<1>1. ASSUME NEW s \in Streams, NEW x \in Segments,
             NEW state \in TurnStates \ {"absent"}, SaveSegment(s, x, state)
      PROVE  Inv'
  BY <1>1, PutSegmentKeeps DEF SaveSegment
<1>2. CASE StatusCallback
  BY <1>2, FinishStep DEF StatusCallback, Terminal
<1>3. ASSUME NEW w \in Workers, RecoverLost(w) PROVE Inv'
  BY <1>3, FinishStep DEF RecoverLost, Terminal
<1>4. ASSUME NEW w \in Workers, Retire(w) PROVE Inv'
  BY <1>4, EraseKeeps DEF Retire
<1>5. CASE DeleteContent
  BY <1>5, EraseKeeps DEF DeleteContent
<1>6. CASE RetryAnalysis
  <2> USE <1>6 DEF RetryAnalysis
  <2>1. EndDocumented'
    BY TalkKept DEF Inv, EndDocumented, talk
  <2>2. AttemptLeft' /\ ClaimsBounded'
    BY BoundsAssumption DEF AttemptLeft, ClaimsBounded
  <2>3. ClaimCurrent'
    BY NamesAssumption DEF Inv, ClaimCurrent, talk
  <2>4. CompletedHasText' /\ ResultIsCurrent' /\ DeletedStaysErased'
    BY DEF CompletedHasText, ResultIsCurrent, DeletedStaysErased
  <2> QED BY <2>1, <2>2, <2>3, <2>4, TalkKept DEF Inv
<1>7. CASE TimePasses
  BY <1>7, TalkKept
  DEF TimePasses, Inv, EndDocumented, AttemptLeft, ClaimCurrent, CompletedHasText,
      ResultIsCurrent, DeletedStaysErased, ClaimsBounded, talk
<1>8. CASE UNCHANGED vars
  BY <1>8, RowKept DEF vars
<1> QED BY <1>1, <1>2, <1>3, <1>4, <1>5, <1>6, <1>7, <1>8, StreamKeeps,
           ExpireLeaseKeeps, RequeueFailedKeeps, GiveUpKeeps, ClaimKeeps,
           WriteBackKeeps, WriteFailureKeeps
        DEF Next, Takes, Continues, Environment, Recover, Analyze, Answer

THEOREM Inductive == Spec => []IInv
<1>1. Init => IInv BY TypeInit, InvInit DEF IInv
<1>2. IInv /\ [Next]_vars => IInv' BY TypeStep, InvStep DEF IInv
<1> QED BY <1>1, <1>2, PTL DEF Spec

\* CallRecord: a completed analysis was made from the transcript the call has now,
\* whatever was saved, finished, claimed or deleted while the model was asked.
THEOREM AnalysisCurrent == Spec => []ResultIsCurrent
<1>1. IInv => ResultIsCurrent BY DEF IInv, Inv
<1> QED BY <1>1, Inductive, PTL

\* CallRecord: erased content stays erased.
THEOREM ErasedForGood == Spec => []DeletedStaysErased
<1>1. IInv => DeletedStaysErased BY DEF IInv, Inv
<1> QED BY <1>1, Inductive, PTL

\* For any number of streams, workers and segments, whoever reads the record reads
\* what is true of the call: an analysis of the text there is, and nothing of what
\* was erased.
THEOREM RecordCurrent == Spec => []RecordIsCurrent
BY AnalysisCurrent, ErasedForGood, PTL DEF RecordIsCurrent

\* CallRecord: at most MaxAttempts claims, one lease per processed call.
THEOREM AttemptsBounded == Spec => []ClaimsBounded
<1>1. IInv => ClaimsBounded BY DEF IInv, Inv
<1> QED BY <1>1, Inductive, PTL

\* CallRecord: complete documentation is final, and of a call that ended well.
THEOREM DocumentationFinal == Spec => []CompleteIsFinal
<1>1. IInv => CompleteIsFinal BY DEF IInv, Inv
<1> QED BY <1>1, Inductive, PTL

-----------------------------------------------------------------------------
(* What a step may never do *)

LEMMA FinishEnd ==
    ASSUME TypeOK, NEW outcome, NEW error \in BOOLEAN, NEW heard,
           Finish(outcome, error, heard), Ended
    PROVE  status' = status /\ (faulty => faulty')
BY DEF Finish, FirstReport, Ended, TypeOK, talk

LEMMA EndStep ==
    IInv /\ [Next]_vars => [Ended => status' = status /\ (faulty => faulty')]_vars
<1> SUFFICES ASSUME IInv, Next, Ended PROVE status' = status /\ (faulty => faulty')
  BY DEF vars, talk
<1>1. ASSUME NEW s \in Streams,
             \/ Reject(s) \/ RejectEnds(s) \/ StreamEnds(s)
             \/ StreamCloses(s) \/ StreamDies(s)
      PROVE  status' = status /\ (faulty => faulty')
  <2>1. ASSUME NEW error \in BOOLEAN, NEW heard, Finish("ended", error, heard)
        PROVE  status' = status /\ (faulty => faulty')
    BY <2>1, FinishEnd DEF IInv
  <2>2. ASSUME NEW heard, Finish("failed", TRUE, heard)
        PROVE  status' = status /\ (faulty => faulty')
    BY <2>2, FinishEnd DEF IInv
  <2>0. ASSUME UNCHANGED <<talk, job, deleted>>
        PROVE  status' = status /\ (faulty => faulty')
    BY <2>0 DEF talk
  <2>3. CASE Reject(s)
    BY <2>0, <2>3 DEF Reject
  <2>7. CASE RejectEnds(s)
    BY <2>2, <2>7 DEF RejectEnds
  <2>4. CASE StreamEnds(s)
    BY <2>0, <2>1, <2>2, <2>4, Zenon DEF StreamEnds
  <2>5. CASE StreamCloses(s)
    BY <2>1, <2>2, <2>5, (stream[s] = "marred") \in BOOLEAN DEF StreamCloses
  <2>6. CASE StreamDies(s)
    BY <2>6 DEF StreamDies, talk
  <2> QED BY <1>1, <2>3, <2>4, <2>5, <2>6, <2>7
<1>2. ASSUME NEW s \in Streams, Connect(s) PROVE FALSE
  BY <1>2 DEF Connect, Ended, Terminal
<1>3. ASSUME NEW s \in Streams, NEW x \in Segments, NEW state, SaveSegment(s, x, state)
      PROVE  UNCHANGED <<status, faulty>>
  BY <1>3 DEF SaveSegment, PutSegment
<1>4. CASE StatusCallback
  BY <1>4, FinishEnd DEF IInv, StatusCallback
<1>5. ASSUME NEW w \in Workers, RecoverLost(w) PROVE FALSE
  BY <1>5 DEF RecoverLost
<1>6. ASSUME NEW w \in Workers, Recover(w), ~RecoverLost(w) PROVE UNCHANGED talk
  BY <1>6 DEF Recover, ExpireLease, RequeueFailed
<1>7. ASSUME NEW w \in Workers,
             Analyze(w) \/ AnalyzeBreaks(w) \/ Answer(w) \/ WorkerDies(w)
      PROVE  UNCHANGED talk
  BY <1>7 DEF Analyze, AnalyzeNothing, Claim, AnalyzeBreaks, Answer, WriteBack,
              WriteFailure, WorkerDies
<1>8. ASSUME (\E w \in Workers : Retire(w)) \/ DeleteContent
      PROVE  UNCHANGED <<status, faulty>>
  BY <1>8 DEF Retire, DeleteContent, Erase
<1>9. ASSUME RetryAnalysis \/ TimePasses PROVE UNCHANGED talk
  BY <1>9 DEF RetryAnalysis, TimePasses
<1> QED BY <1>1, <1>2, <1>3, <1>4, <1>5, <1>6, <1>7, <1>8, <1>9
        DEF Next, Takes, Continues, Environment, talk

\* CallRecord: the first report of the end decides, and a recorded error stays.
THEOREM FirstEndDecides == Spec => EndIsFinal
<1> QED BY EndStep, Inductive, PTL DEF Spec, EndIsFinal

LEMMA CompletedStep ==
    IInv /\ [Next]_vars =>
        [analysis = "completed" /\ revision' = revision
           => analysis' = "completed" /\ result' = result]_vars
<1> SUFFICES ASSUME IInv, Next, analysis = "completed", revision' = revision
             PROVE  UNCHANGED <<analysis, result>>
  BY DEF vars, job
<1>0. lease = NoOne /\ revision' # revision + 1
  BY DEF IInv, Inv, ClaimsBounded, TypeOK
<1>1. ASSUME NEW s \in Streams,
             \/ Connect(s) \/ Reject(s) \/ RejectEnds(s) \/ StreamEnds(s)
             \/ StreamCloses(s) \/ StreamDies(s)
      PROVE  UNCHANGED <<analysis, result>>
  BY <1>1 DEF Connect, Reject, RejectEnds, StreamEnds, StreamCloses, StreamDies, Finish, job
<1>2. ASSUME NEW s \in Streams, NEW x \in Segments, NEW state, SaveSegment(s, x, state)
      PROVE  FALSE
  BY <1>0, <1>2 DEF SaveSegment, PutSegment
<1>3. CASE StatusCallback
  BY <1>3 DEF StatusCallback, Finish, job
<1>4. ASSUME NEW w \in Workers, Recover(w) PROVE UNCHANGED <<analysis, result>>
  BY <1>4 DEF Recover, RecoverLost, ExpireLease, RequeueFailed, Finish, job
<1>5. ASSUME NEW w \in Workers, Analyze(w) \/ AnalyzeBreaks(w) \/ WorkerDies(w)
      PROVE  UNCHANGED <<analysis, result>>
  BY <1>5 DEF Analyze, AnalyzeNothing, Claim, Analyzable, AnalyzeBreaks, WorkerDies, job
<1>6. ASSUME NEW w \in Workers, Answer(w) PROVE UNCHANGED <<analysis, result>>
  BY <1>0, <1>6, NamesAssumption DEF Answer, WriteBack, WriteFailure, StillClaimed
<1>7. ASSUME (\E w \in Workers : Retire(w)) \/ DeleteContent PROVE FALSE
  BY <1>0, <1>7 DEF Retire, DeleteContent, Erase
<1>8. ASSUME RetryAnalysis \/ TimePasses PROVE UNCHANGED <<analysis, result>>
  BY <1>8 DEF RetryAnalysis, TimePasses
<1> QED BY <1>1, <1>2, <1>3, <1>4, <1>5, <1>6, <1>7, <1>8
        DEF Next, Takes, Continues, Environment

\* CallRecord: a completed analysis lasts until the transcript changes.
THEOREM CompletedForGood == Spec => CompletedLasts
<1> QED BY CompletedStep, Inductive, PTL DEF Spec, CompletedLasts

LEMMA FinalTextStep ==
    IInv /\ [Next]_vars =>
        [\A x \in Segments : turns[x] \in Final =>
            turns'[x] \in Final \/ deleted']_vars
<1> SUFFICES ASSUME IInv, Next, NEW x \in Segments, turns[x] \in Final, ~deleted'
             PROVE  turns'[x] \in Final
  BY DEF vars, talk
<1>0. x # NoSegment /\ turns \in Transcripts /\ x \in Items
  BY NamesAssumption DEF IInv, TypeOK, Items
<1>1. ASSUME NEW outcome, NEW error, NEW heard, Finish(outcome, error, heard)
      PROVE  turns'[x] = turns[x]
  BY <1>0, <1>1 DEF Finish, Transcripts, talk
<1>2. ASSUME NEW s \in Streams,
             \/ Connect(s) \/ Reject(s) \/ RejectEnds(s) \/ StreamEnds(s)
             \/ StreamCloses(s) \/ StreamDies(s)
      PROVE  turns'[x] = turns[x]
  BY <1>1, <1>2 DEF Connect, Reject, RejectEnds, StreamEnds, StreamCloses, StreamDies, talk
<1>3. ASSUME NEW s \in Streams, NEW y \in Segments,
             NEW state \in TurnStates \ {"absent"}, SaveSegment(s, y, state)
      PROVE  turns'[x] \in Final
  BY <1>0, <1>3 DEF SaveSegment, PutSegment, Transcripts, TurnStates, Final
<1>4. CASE StatusCallback
  BY <1>1, <1>4 DEF StatusCallback
<1>5. ASSUME NEW w \in Workers, Recover(w) PROVE turns'[x] = turns[x]
  BY <1>1, <1>5 DEF Recover, RecoverLost, ExpireLease, RequeueFailed, talk
<1>6. ASSUME NEW w \in Workers,
             Analyze(w) \/ AnalyzeBreaks(w) \/ Answer(w) \/ WorkerDies(w)
      PROVE  UNCHANGED turns
  BY <1>6 DEF Analyze, AnalyzeNothing, Claim, AnalyzeBreaks, Answer, WriteBack,
              WriteFailure, WorkerDies, talk
<1>7. ASSUME (\E w \in Workers : Retire(w)) \/ DeleteContent PROVE FALSE
  BY <1>7 DEF Retire, DeleteContent, Erase
<1>8. ASSUME RetryAnalysis \/ TimePasses PROVE UNCHANGED turns
  BY <1>8 DEF RetryAnalysis, TimePasses, talk
<1> QED BY <1>2, <1>3, <1>4, <1>5, <1>6, <1>7, <1>8
        DEF Next, Takes, Continues, Environment

\* CallRecord: a late delta never replaces final text.
THEOREM FinalTextForGood == Spec => FinalTextLasts
<1> QED BY FinalTextStep, Inductive, PTL DEF Spec, FinalTextLasts

\* For any number of streams, workers and segments: no late report, delta or answer
\* of the model takes back what a call, its documentation or its text has decided.
THEOREM DecidedForGood == Spec => NothingTakenBack
<1> QED
  BY DocumentationFinal, FirstEndDecides, CompletedForGood, FinalTextForGood
  DEF NothingTakenBack

-----------------------------------------------------------------------------
(* The record implements the document *)

\* A step that is none of the document's.
Unseen == UNCHANGED <<turns, DocumentOutcome, DocumentAnalysed, deleted>>

LEMMA UnseenStep == ASSUME Unseen PROVE [Document!Next]_(Document!vars)
BY DEF Unseen, Document!vars

\* Finish() is the end of the document's call; after it, only the transcript a
\* bridge kept for itself is still to be written.
LEMMA FinishSeen ==
    ASSUME IInv, NEW outcome \in Terminal, NEW error \in BOOLEAN,
           NEW heard \in BOOLEAN, Finish(outcome, error, heard)
    PROVE  [Document!Next]_(Document!vars)
<1>1. CASE deleted
  BY <1>1, UnseenStep
  DEF Finish, Unseen, talk, job, DocumentOutcome, DocumentAnalysed, Ended
<1>2. CASE ~deleted /\ ~Ended
  <2>1. /\ status' = outcome
        /\ turns' \in {turns, [turns EXCEPT ![NoSegment] = "confirmed"]}
        /\ UNCHANGED <<analysis, deleted>>
    BY <1>2 DEF Finish, FirstReport, Ended
  <2>2. analysis # "completed"
    BY <1>2 DEF IInv, Inv, EndDocumented
  <2>3. DocumentOutcome = "open" /\ DocumentOutcome' = outcome
    BY <1>2, <2>1 DEF DocumentOutcome, Ended
  <2>4. UNCHANGED DocumentAnalysed
    BY <2>1, <2>2 DEF DocumentAnalysed
  <2>5. Document!End(outcome)
    BY <2>1, <2>3, <2>4 DEF Document!End, Items
  <2> QED BY <2>5 DEF Document!Next
<1>3. CASE ~deleted /\ Ended
  <2>1. /\ UNCHANGED <<status, analysis, result, deleted, revision>>
        /\ turns' = IF heard /\ revision = 0
                    THEN [turns EXCEPT ![NoSegment] = "confirmed"] ELSE turns
    BY <1>3 DEF Finish, FirstReport, Ended
  <2>2. UNCHANGED <<DocumentOutcome, DocumentAnalysed>>
    BY <2>1 DEF DocumentOutcome, DocumentAnalysed, Ended
  <2>3. CASE turns' = turns
    BY <2>1, <2>2, <2>3, UnseenStep DEF Unseen
  <2>4. CASE turns' # turns
    <3>1. turns' = [turns EXCEPT ![NoSegment] = "confirmed"] /\ revision = 0
      BY <2>1, <2>4
    <3>2. Confirmed(turns) = {}
      BY <2>4, <3>1, HeardAgain DEF IInv, Inv
    <3>3. DocumentAnalysed = {}
      BY <3>2 DEF IInv, Inv, CompletedHasText, DocumentAnalysed
    <3>4. Document!Write(NoSegment, "confirmed")
      BY <1>3, <2>1, <2>2, <3>1, <3>3 DEF Document!Write, Document!Final
    <3> QED BY <3>4 DEF Document!Next, Document!States, Items
  <2> QED BY <2>3, <2>4
<1> QED BY <1>1, <1>2, <1>3

\* A saved segment is written, and no analysis made without it is left.
LEMMA SaveSegmentSeen ==
    ASSUME IInv, NEW s \in Streams, NEW x \in Segments,
           NEW state \in TurnStates \ {"absent"}, SaveSegment(s, x, state)
    PROVE  [Document!Next]_(Document!vars)
<1>1. PutSegment(x, state) /\ ~deleted /\ ~(turns[x] \in Final /\ state = "provisional")
  BY DEF SaveSegment
<1>2. analysis' = "pending"
  BY <1>1 DEF PutSegment, AnalysedAgain, IInv, Inv, EndDocumented, Ended
<1>3. DocumentAnalysed' = {} /\ UNCHANGED <<DocumentOutcome, deleted>>
  BY <1>1, <1>2 DEF PutSegment, DocumentAnalysed, DocumentOutcome, Ended
<1>4. turns[x] \in Final => state \in Final
  BY <1>1 DEF TurnStates, Final
<1>5. Document!Write(x, state)
  BY <1>1, <1>3, <1>4 DEF PutSegment, Document!Write, Document!Final, Final
<1> QED BY <1>5 DEF Document!Next, Document!States, TurnStates, Items

LEMMA EraseSeen ==
    ASSUME IInv, Ended, Erase
    PROVE  [Document!Next]_(Document!vars)
<1>1. turns' = Document!Silence
  BY DEF Erase, Silence, Document!Silence
<1>2. DocumentAnalysed' = {} /\ UNCHANGED DocumentOutcome
  BY DEF Erase, DocumentAnalysed, DocumentOutcome, Ended
<1>3. DocumentOutcome # "open"
  BY DEF DocumentOutcome, Ended, Terminal
<1>4. Document!Erase
  BY <1>1, <1>2, <1>3 DEF Erase, Document!Erase
<1> QED BY <1>4 DEF Document!Next

\* An answer that is stored is published: the transcript the worker remembers is
\* the one the call has.
LEMMA WriteBackSeen ==
    ASSUME IInv, NEW w \in Workers, WriteBack(w)
    PROVE  [Document!Next]_(Document!vars)
<1>1. Ended /\ UNCHANGED <<DocumentOutcome, deleted>> /\ UNCHANGED turns
  BY BusyEnded DEF IInv, WriteBack, DocumentOutcome, Ended, talk
<1>2. CASE StillClaimed(w)
  <2>1. worker[w].turns = turns /\ Confirmed(turns) # {}
    BY <1>2 DEF WriteBack, StillClaimed, IInv, Inv, ClaimCurrent
  <2>2. DocumentAnalysed' = {turns}
    BY <1>2, <2>1 DEF WriteBack, DocumentAnalysed
  <2>3. DocumentOutcome # "open" /\ ~deleted
    BY <1>1, <1>2 DEF StillClaimed, DocumentOutcome, Ended, Terminal
  <2>4. Document!Publish
    BY <1>1, <2>1, <2>2, <2>3 DEF Document!Publish, Confirmed
  <2> QED BY <2>4 DEF Document!Next
<1>3. CASE ~StillClaimed(w)
  <2>1. UNCHANGED DocumentAnalysed
    BY <1>3 DEF WriteBack, DocumentAnalysed
  <2> QED BY <1>1, <2>1, UnseenStep DEF Unseen
<1> QED BY <1>2, <1>3

\* Nothing else touches the text, and an analysis that is completed, or is not,
\* stays so.
LEMMA JobUnseen ==
    ASSUME UNCHANGED <<talk, deleted, result>>,
           UNCHANGED analysis \/ (analysis # "completed" /\ analysis' # "completed")
    PROVE  [Document!Next]_(Document!vars)
<1>1. UNCHANGED <<turns, DocumentOutcome, deleted>>
  BY DEF talk, DocumentOutcome, Ended
<1>2. UNCHANGED DocumentAnalysed
  BY DEF DocumentAnalysed
<1> QED BY <1>1, <1>2, UnseenStep DEF Unseen

LEMMA DocumentStep == IInv /\ [Next]_vars => [Document!Next]_(Document!vars)
<1> SUFFICES ASSUME IInv, [Next]_vars PROVE [Document!Next]_(Document!vars)
  OBVIOUS
<1>1. ASSUME NEW s \in Streams, Connect(s) PROVE [Document!Next]_(Document!vars)
  <2>1. UNCHANGED <<turns, deleted, DocumentOutcome, DocumentAnalysed>>
    BY <1>1 DEF Connect, DocumentOutcome, DocumentAnalysed, Ended, Terminal, job
  <2> QED BY <2>1, UnseenStep DEF Unseen
<1>2. ASSUME NEW s \in Streams, Reject(s) \/ StreamDies(s)
      PROVE  [Document!Next]_(Document!vars)
  BY <1>2, JobUnseen DEF Reject, StreamDies, job
<1>3. ASSUME NEW s \in Streams, RejectEnds(s) PROVE [Document!Next]_(Document!vars)
  BY <1>3, FinishSeen DEF RejectEnds, Terminal
<1>4. ASSUME NEW s \in Streams, StreamEnds(s) PROVE [Document!Next]_(Document!vars)
  <2> PICK heard \in BOOLEAN :
        \/ \E error \in BOOLEAN : Finish("ended", error, heard)
        \/ Finish("failed", TRUE, heard)
        \/ UNCHANGED <<talk, job, deleted>>
    BY <1>4 DEF StreamEnds
  <2>1. CASE \E error \in BOOLEAN : Finish("ended", error, heard)
    BY <2>1, FinishSeen DEF Terminal
  <2>2. CASE Finish("failed", TRUE, heard)
    BY <2>2, FinishSeen DEF Terminal
  <2>3. CASE UNCHANGED <<talk, job, deleted>>
    BY <2>3, JobUnseen DEF job
  <2> QED BY <2>1, <2>2, <2>3
<1>5. ASSUME NEW s \in Streams, StreamCloses(s) PROVE [Document!Next]_(Document!vars)
  BY <1>5, FinishSeen, (stream[s] = "marred") \in BOOLEAN DEF StreamCloses, Terminal
<1>6. CASE StatusCallback
  BY <1>6, FinishSeen DEF StatusCallback, Terminal
<1>7. ASSUME NEW w \in Workers, RecoverLost(w) PROVE [Document!Next]_(Document!vars)
  BY <1>7, FinishSeen DEF RecoverLost, Terminal
<1>8. ASSUME NEW w \in Workers,
             \/ ExpireLease(w) \/ RequeueFailed(w) \/ Analyze(w) \/ AnalyzeBreaks(w)
             \/ WriteFailure(w) \/ WorkerDies(w)
      PROVE  [Document!Next]_(Document!vars)
  <2>1. UNCHANGED <<talk, deleted, result>>
    BY <1>8 DEF ExpireLease, RequeueFailed, Analyze, AnalyzeNothing, Claim, AnalyzeBreaks,
                WriteFailure, WorkerDies, job
  <2>2. analysis = "completed" => lease = NoOne
    BY DEF IInv, Inv, ClaimsBounded
  <2>3. UNCHANGED analysis \/ (analysis # "completed" /\ analysis' # "completed")
    BY <1>8, <2>2, NamesAssumption
    DEF ExpireLease, RequeueFailed, Analyze, AnalyzeNothing, Claim, Analyzable,
        AnalyzeBreaks, WriteFailure, StillClaimed, WorkerDies, job
  <2> QED BY <2>1, <2>3, JobUnseen
<1>9. ASSUME (\E w \in Workers : Retire(w)) \/ DeleteContent
      PROVE  [Document!Next]_(Document!vars)
  BY <1>9, EraseSeen DEF Retire, DeleteContent
<1>10. CASE RetryAnalysis \/ TimePasses
  BY <1>10, JobUnseen DEF RetryAnalysis, TimePasses
<1>11. CASE UNCHANGED vars
  BY <1>11, JobUnseen DEF vars, job
<1> QED BY <1>1, <1>2, <1>3, <1>4, <1>5, <1>6, <1>7, <1>8, <1>9, <1>10, <1>11,
           SaveSegmentSeen, WriteBackSeen
        DEF Next, Takes, Continues, Environment, Recover, Answer

LEMMA DocumentInit == Init => Document!Init
BY DEF Init, Document!Init, Document!Silence, Silence, DocumentOutcome,
       DocumentAnalysed, Ended, Terminal

\* For any number of streams, workers and segments, and whatever limit of attempts,
\* the record implements the document: reports that race, repeat and come late,
\* workers that overtake each other and die, and a deletion in between are one
\* text, one end, and an analysis made in one instant of the text there was.
THEOREM RecordImplementsDocument == Spec => ImplementsDocument
<1> QED
  BY DocumentInit, DocumentStep, Inductive, PTL
  DEF Spec, ImplementsDocument, Document!Spec
=============================================================================
