------------------------------ MODULE CallRecord ------------------------------
(***************************************************************************)
(* One telephone call: its row in call_sessions and everyone who writes it *)
(* under SELECT ... FOR UPDATE: media streams and Twilio's status callback *)
(* (api/v1/twilio.py, services/call_lifecycle.py), the analysis worker of  *)
(* each backend process (services/call_processing.py, call_analysis.py)    *)
(* and the team (api/v1/calls.py).  A transaction is one action; what a    *)
(* coroutine remembers across an await is its local state.                 *)
(***************************************************************************)
EXTENDS Naturals, FiniteSets

CONSTANTS
    Segments,      \* provider items of the transcript
    Streams,       \* media streams Twilio opens for the call
    Workers,       \* backend processes, one call_processing_loop each
    NoSegment,     \* turns without an item id, kept by the bridge only
    NoOne,         \* no lease
    MaxAttempts,   \* claims before an analysis is given up: 3 in the code
    MaxRevision,   \* bound: revisions of the transcript
    MaxCallbacks,  \* bound: status callbacks
    MaxRetries     \* bound: manual retries

ASSUME NamesAssumption == NoSegment \notin Segments /\ NoOne \notin Workers

ASSUME BoundsAssumption ==
    /\ MaxAttempts \in Nat \ {0}
    /\ {MaxRevision, MaxCallbacks, MaxRetries} \subseteq Nat

VARIABLES
    status,     \* provisioned, connected, or how the call ended
    faulty,     \* error_code is set
    doc,        \* documentation_status
    turns,      \* the state of each turn of the transcript
    revision,   \* transcript_revision
    analysis,   \* analysis_status
    failure,    \* analysis_error_code
    attempts,   \* analysis_attempts
    lease,      \* analysis_lease_token, drawn anew by every claim of a worker
    due,        \* analysis_next_attempt_at, relative to the clock
    result,     \* the transcript the stored analysis was made from
    deleted,    \* content_deleted_at is set
    stream,     \* where each media stream's handler stands
    worker,     \* where each worker stands, and what it remembers
    callbacks,  \* status callbacks received
    retries     \* manual retries made

talk == <<status, faulty, doc, turns, revision>>
job == <<analysis, failure, attempts, lease, due, result>>
vars == <<talk, job, deleted, stream, worker, callbacks, retries>>

-----------------------------------------------------------------------------
Terminal == {"ended", "failed"}
Final == {"interrupted", "confirmed"}
TurnStates == {"absent", "provisional", "interrupted", "confirmed"}

Items == Segments \cup {NoSegment}
Transcripts == [Items -> TurnStates]
Silence == [x \in Items |-> "absent"]

\* What the analysis wrote: nothing, or the transcript it was made from.
Results == [made : BOOLEAN, revision : Nat, turns : Transcripts]
Nothing == [made |-> FALSE, revision |-> 0, turns |-> Silence]

\* A worker's place, and the claim it remembers while it awaits the model.
Places == [at : {"idle", "requeued", "asking"}, revision : Nat, turns : Transcripts]
At(place) == [at |-> place, revision |-> 0, turns |-> Silence]

Ended == status \in Terminal

AllFinal(t) == \A x \in Items : t[x] # "provisional"

\* The transcript the analysis sees: confirmed turns only.
Confirmed(t) == {x \in Items : t[x] = "confirmed"}

-----------------------------------------------------------------------------
TypeOK ==
    /\ status \in {"provisioned", "connected"} \cup Terminal
    /\ faulty \in BOOLEAN
    /\ doc \in {"recording", "complete", "incomplete", "deleted"}
    /\ turns \in Transcripts
    /\ revision \in Nat
    /\ analysis \in {"pending", "processing", "completed", "failed", "not_requested"}
    /\ failure \in {"none", "transcript_empty", "provider", "unexpected", "exhausted"}
    /\ attempts \in Nat
    /\ lease \in Workers \cup {NoOne}
    /\ due \in {"never", "later", "now"}
    /\ result \in Results
    /\ deleted \in BOOLEAN
    /\ stream \in [Streams -> {"new", "rejecting", "streaming", "stopped", "marred",
                              "dropped", "gone"}]
    /\ worker \in [Workers -> Places]
    /\ callbacks \in 0..MaxCallbacks
    /\ retries \in 0..MaxRetries

\* provision_provider_call has committed the row.
Init ==
    /\ status = "provisioned" /\ faulty = FALSE /\ doc = "recording"
    /\ turns = Silence /\ revision = 0
    /\ analysis = "pending" /\ failure = "none" /\ attempts = 0
    /\ lease = NoOne /\ due = "never" /\ result = Nothing
    /\ deleted = FALSE
    /\ stream = [s \in Streams |-> "new"]
    /\ worker = [w \in Workers |-> At("idle")]
    /\ callbacks = 0
    /\ retries = 0

-----------------------------------------------------------------------------
(* finish(), save_segment(), erase_call_content() *)

\* The first report of the end decides, a later one may add an error.
FirstReport == status \notin Terminal
LateError(error) == status \in Terminal /\ error /\ ~faulty

\* finish(): "heard" is a transcript handed in, used while no segment was ever
\* saved.  A deleted call is left alone.
Finish(outcome, error, heard) ==
    \/ deleted /\ UNCHANGED <<talk, job, deleted>>
    \/ /\ ~deleted
       /\ status' = IF FirstReport THEN outcome ELSE status
       /\ faulty' = IF FirstReport THEN error ELSE faulty \/ error
       /\ turns' = IF heard /\ revision = 0
                   THEN [turns EXCEPT ![NoSegment] = "confirmed"] ELSE turns
       /\ doc' = IF LateError(error) THEN "incomplete"
                 ELSE IF doc # "recording" THEN doc
                 ELSE IF outcome = "ended" /\ ~faulty' /\ turns' # Silence /\ AllFinal(turns')
                 THEN "complete" ELSE "incomplete"
       /\ due' = IF analysis = "pending" THEN "later" ELSE due
       /\ UNCHANGED <<revision, analysis, failure, attempts, lease, result, deleted>>

\* Mutant: only a call that ended normally is analysed again.
AnalysedAgainIfEnded == status = "ended"

\* A segment that comes after the end asks for a new analysis.
AnalysedAgain == status \in Terminal

\* save_segment().
PutSegment(x, state) ==
    /\ turns' = [turns EXCEPT ![x] = state]
    /\ revision' = revision + 1
    /\ IF AnalysedAgain
       THEN /\ analysis' = "pending" /\ lease' = NoOne /\ attempts' = 0 /\ due' = "later"
            /\ doc' = IF status # "ended" \/ faulty THEN doc
                      ELSE IF AllFinal(turns') THEN "complete" ELSE "incomplete"
       ELSE UNCHANGED <<analysis, lease, attempts, due, doc>>
    /\ UNCHANGED <<status, faulty, failure, result, deleted>>

\* erase_call_content().
Erase ==
    /\ turns' = Silence /\ result' = Nothing /\ revision' = revision + 1
    /\ analysis' = "not_requested" /\ lease' = NoOne /\ due' = "never"
    /\ deleted' = TRUE /\ doc' = "deleted"
    /\ UNCHANGED <<status, faulty, failure, attempts>>

-----------------------------------------------------------------------------
(* Media streams and the status callback *)

StreamGoes(s, place) == stream' = [stream EXCEPT ![s] = place]

\* connect(): the first stream owns the call.
Connect(s) ==
    /\ stream[s] = "new"
    /\ status = "provisioned"
    /\ status' = "connected"
    /\ StreamGoes(s, "streaming")
    /\ UNCHANGED <<faulty, doc, turns, revision, job, deleted, worker, callbacks, retries>>

\* A stream that fails its checks, or comes second, reads without a lock whether
\* the call is still provisioned.
Reject(s) ==
    /\ stream[s] = "new"
    /\ StreamGoes(s, IF status = "provisioned" THEN "rejecting" ELSE "gone")
    /\ UNCHANGED <<talk, job, deleted, worker, callbacks, retries>>

\* It ends the call it found provisioned, which another stream may own by now.
RejectEnds(s) ==
    /\ stream[s] = "rejecting"
    /\ StreamGoes(s, "gone")
    /\ Finish("failed", TRUE, FALSE)
    /\ UNCHANGED <<worker, callbacks, retries>>

\* Mutant: a segment is saved whatever became of the call.
SaveSegmentAlways(s, x, state) ==
    /\ stream[s] = "streaming"
    /\ ~(turns[x] \in Final /\ state = "provisional")
    /\ revision < MaxRevision
    /\ PutSegment(x, state)
    /\ UNCHANGED <<stream, worker, callbacks, retries>>

\* The owner saves a segment; a provisional text never replaces a final one.
SaveSegment(s, x, state) ==
    /\ stream[s] = "streaming"
    /\ ~deleted
    /\ ~(turns[x] \in Final /\ state = "provisional")
    /\ revision < MaxRevision
    /\ PutSegment(x, state)
    /\ UNCHANGED <<stream, worker, callbacks, retries>>

\* bridge.run() is over and the handler's first finish() ran: "ended" after a
\* stop or a disconnect, "failed" after an exception, none when the handler was
\* cancelled.  "marred" notes a stopped stream with a documentation error.
StreamEnds(s) ==
    /\ stream[s] = "streaming"
    /\ \E place \in {"stopped", "marred", "dropped"}, heard \in BOOLEAN :
        /\ StreamGoes(s, place)
        /\ \/ \E error \in BOOLEAN :
                (place = "stopped" => ~error) /\ Finish("ended", error, heard)
           \/ Finish("failed", TRUE, heard)
           \/ UNCHANGED <<talk, job, deleted>>
    /\ UNCHANGED <<worker, callbacks, retries>>

\* The finally clause: a second finish().
StreamCloses(s) ==
    /\ stream[s] \in {"stopped", "marred", "dropped"}
    /\ StreamGoes(s, "gone")
    /\ \E heard \in BOOLEAN :
        \/ stream[s] = "dropped" /\ Finish("failed", TRUE, heard)
        \/ stream[s] # "dropped" /\ Finish("ended", stream[s] = "marred", heard)
    /\ UNCHANGED <<worker, callbacks, retries>>

\* The process that serves the stream dies.
StreamDies(s) ==
    /\ stream[s] \notin {"new", "gone"}
    /\ StreamGoes(s, "gone")
    /\ UNCHANGED <<talk, job, deleted, worker, callbacks, retries>>

\* stream_status(): completed or stopped, failed, stream-error; repeated, and in
\* any order with the stream itself.  A repeated voice webhook that fails
\* reports a failure too.
StatusCallback ==
    /\ callbacks < MaxCallbacks
    /\ callbacks' = callbacks + 1
    /\ Finish("ended", FALSE, FALSE) \/ Finish("failed", TRUE, FALSE)
    /\ UNCHANGED <<stream, worker, retries>>

-----------------------------------------------------------------------------
(* The analysis worker *)

Moves(w, place) == worker' = [worker EXCEPT ![w] = place]

\* Mutant: status and error code of the lost call are swapped.
RecoverLostSwapped(w) ==
    /\ worker[w].at = "idle"
    /\ ~Ended
    /\ Finish("stream_lost", TRUE, FALSE)
    /\ UNCHANGED <<stream, worker, callbacks, retries>>

\* process_tenant_calls: a call nobody ended within its maximum duration.
RecoverLost(w) ==
    /\ worker[w].at = "idle"
    /\ ~Ended
    /\ Finish("failed", TRUE, FALSE)
    /\ UNCHANGED <<stream, worker, callbacks, retries>>

\* Mutant: an expired claim is always tried again.
ExpireLeaseForever(w) ==
    /\ worker[w].at = "idle"
    /\ ~deleted /\ analysis = "processing" /\ due = "now"
    /\ analysis' = "pending" /\ lease' = NoOne
    /\ Moves(w, At("requeued"))
    /\ UNCHANGED <<talk, failure, attempts, due, result, deleted, stream, callbacks, retries>>

\* The lease of a claim is over: the claim is void, and the last one fails.
ExpireLease(w) ==
    /\ worker[w].at = "idle"
    /\ ~deleted /\ analysis = "processing" /\ due = "now"
    /\ \/ /\ attempts >= MaxAttempts
          /\ analysis' = "failed" /\ failure' = "exhausted" /\ due' = "never"
          /\ UNCHANGED worker
       \/ /\ attempts < MaxAttempts
          /\ analysis' = "pending"
          /\ Moves(w, At("requeued"))
          /\ UNCHANGED <<failure, due>>
    /\ lease' = NoOne
    /\ UNCHANGED <<talk, attempts, result, deleted, stream, callbacks, retries>>

\* A failed analysis whose next attempt is due is put back.
RequeueFailed(w) ==
    /\ worker[w].at = "idle"
    /\ ~deleted /\ analysis = "failed" /\ due = "now"
    /\ attempts < MaxAttempts
    /\ analysis' = "pending"
    /\ Moves(w, At("requeued"))
    /\ UNCHANGED <<talk, failure, attempts, lease, due, result, deleted, stream,
                   callbacks, retries>>

\* The worker gets to analyze(): from the candidates, or after it put the call
\* back, whatever became of the call since.
Reaches(w) ==
    \/ worker[w].at = "requeued"
    \/ /\ worker[w].at = "idle"
       /\ Ended /\ ~deleted /\ analysis = "pending" /\ due # "later"

Analyzable == Ended /\ ~deleted /\ analysis = "pending"

\* analyze() finds nothing to do, or nothing to analyse.
AnalyzeNothing(w) ==
    /\ Reaches(w)
    /\ \/ ~Analyzable /\ UNCHANGED <<analysis, failure>>
       \/ /\ Analyzable
          /\ Confirmed(turns) = {}
          /\ analysis' = "failed" /\ failure' = "transcript_empty"
    /\ Moves(w, At("idle"))
    /\ UNCHANGED <<talk, attempts, lease, due, result, deleted, stream, callbacks, retries>>

\* analyze() claims the call and awaits the model.
Claim(w) ==
    /\ Reaches(w)
    /\ Analyzable
    /\ Confirmed(turns) # {}
    /\ analysis' = "processing" /\ failure' = "none"
    /\ lease' = w /\ attempts' = attempts + 1 /\ due' = "later"
    /\ Moves(w, [at |-> "asking", revision |-> revision, turns |-> turns])
    /\ UNCHANGED <<talk, result, deleted, stream, callbacks, retries>>

\* analyze_call_safely: an unexpected exception, before the claim or while the
\* answer is stored.
AnalyzeBreaks(w) ==
    /\ Reaches(w) \/ worker[w].at = "asking"
    /\ IF analysis = "pending" /\ ~deleted /\ lease = NoOne
       THEN analysis' = "failed" /\ failure' = "unexpected"
       ELSE UNCHANGED <<analysis, failure>>
    /\ Moves(w, At("idle"))
    /\ UNCHANGED <<talk, attempts, lease, due, result, deleted, stream, callbacks, retries>>

\* Mutant: the lease is not compared.
StillSameTranscript(w) == ~deleted /\ revision = worker[w].revision

\* The claim the worker remembers is still the call's.
StillClaimed(w) == lease = w /\ ~deleted /\ revision = worker[w].revision

\* The model has answered.
WriteBack(w) ==
    /\ worker[w].at = "asking"
    /\ IF StillClaimed(w)
       THEN /\ result' = [made |-> TRUE, revision |-> worker[w].revision,
                          turns |-> worker[w].turns]
            /\ analysis' = "completed" /\ failure' = "none"
            /\ lease' = NoOne /\ due' = "never"
       ELSE UNCHANGED <<result, analysis, failure, lease, due>>
    /\ Moves(w, At("idle"))
    /\ UNCHANGED <<talk, attempts, deleted, stream, callbacks, retries>>

\* Mutant: the last attempt schedules another one.
WriteFailureOffByOne(w) ==
    /\ worker[w].at = "asking"
    /\ IF StillClaimed(w)
       THEN analysis' = "failed" /\ failure' = "provider" /\ lease' = NoOne /\ due' = "later"
       ELSE UNCHANGED <<analysis, failure, lease, due>>
    /\ Moves(w, At("idle"))
    /\ UNCHANGED <<talk, attempts, result, deleted, stream, callbacks, retries>>

\* The model failed; a transient error schedules another attempt.
WriteFailure(w) ==
    /\ worker[w].at = "asking"
    /\ IF StillClaimed(w)
       THEN /\ analysis' = "failed" /\ failure' = "provider" /\ lease' = NoOne
            /\ due' \in {"never"} \cup (IF attempts < MaxAttempts THEN {"later"} ELSE {})
       ELSE UNCHANGED <<analysis, failure, lease, due>>
    /\ Moves(w, At("idle"))
    /\ UNCHANGED <<talk, attempts, result, deleted, stream, callbacks, retries>>

\* The worker's process dies, or its answer cannot be stored.
WorkerDies(w) ==
    /\ worker[w].at # "idle"
    /\ Moves(w, At("idle"))
    /\ UNCHANGED <<talk, job, deleted, stream, callbacks, retries>>

\* The retention period of an ended call is over.
Retire(w) ==
    /\ worker[w].at = "idle"
    /\ Ended /\ ~deleted
    /\ revision < MaxRevision
    /\ Erase
    /\ UNCHANGED <<stream, worker, callbacks, retries>>

-----------------------------------------------------------------------------
(* The team, and time *)

RetryAnalysis ==
    /\ retries < MaxRetries
    /\ analysis = "failed" /\ ~deleted /\ Ended
    /\ analysis' = "pending" /\ attempts' = 0 /\ due' = "now" /\ lease' = NoOne
    /\ retries' = retries + 1
    /\ UNCHANGED <<talk, failure, result, deleted, stream, worker, callbacks>>

DeleteContent ==
    /\ Ended
    /\ revision < MaxRevision
    /\ Erase
    /\ UNCHANGED <<stream, worker, callbacks, retries>>

\* analysis_next_attempt_at passes.
TimePasses ==
    /\ due = "later"
    /\ due' = "now"
    /\ UNCHANGED <<talk, analysis, failure, attempts, lease, result, deleted, stream,
                   worker, callbacks, retries>>

Analyze(w) == AnalyzeNothing(w) \/ Claim(w)
Answer(w) == WriteBack(w) \/ WriteFailure(w)
Recover(w) == RecoverLost(w) \/ ExpireLease(w) \/ RequeueFailed(w)

\* A worker takes the call up from the candidates it selected.
Takes(w) ==
    /\ worker[w].at = "idle"
    /\ Recover(w) \/ Analyze(w) \/ AnalyzeBreaks(w) \/ Retire(w)

\* A worker that has taken the call up goes on with it.
Continues(w) ==
    /\ worker[w].at # "idle"
    /\ Analyze(w) \/ AnalyzeBreaks(w) \/ Answer(w) \/ WorkerDies(w)

\* Streams, callbacks, the team and time.
Environment ==
    \/ \E s \in Streams :
        \/ Connect(s)
        \/ Reject(s)
        \/ RejectEnds(s)
        \/ \E x \in Segments, state \in TurnStates \ {"absent"} : SaveSegment(s, x, state)
        \/ StreamEnds(s)
        \/ StreamCloses(s)
        \/ StreamDies(s)
    \/ StatusCallback
    \/ RetryAnalysis
    \/ DeleteContent
    \/ TimePasses

Next == Environment \/ \E w \in Workers : Takes(w) \/ Continues(w)

Spec == Init /\ [][Next]_vars

-----------------------------------------------------------------------------
(* What the record promises *)

\* A completed analysis was made from the transcript the call has now: a late
\* segment, an overtaken claim or a repeated finish() never leaves a stale one.
ResultIsCurrent ==
    analysis = "completed" =>
        /\ result.made
        /\ result.revision = revision
        /\ result.turns = turns

\* Erased content stays erased, whatever stream, callback, worker or claim was
\* on its way.
DeletedStaysErased ==
    deleted =>
        /\ turns = Silence
        /\ result = Nothing
        /\ analysis = "not_requested"
        /\ doc = "deleted"

\* Whatever crashes and expires, a transcript is claimed at most MaxAttempts
\* times until somebody retries or a new segment arrives; and exactly the calls
\* being processed have a lease.
ClaimsBounded ==
    /\ attempts <= MaxAttempts
    /\ (lease # NoOne) <=> (analysis = "processing")

\* "complete" documentation has no provisional turn, no recorded error and a
\* call that ended normally, in whatever order its ends were reported.
CompleteIsFinal ==
    doc = "complete" =>
        /\ status = "ended" /\ ~faulty
        /\ turns # Silence /\ AllFinal(turns)

\* The first report of the end decides, and a recorded error stays recorded.
EndIsFinal ==
    [][Ended => status' = status /\ (faulty => faulty')]_vars

\* A late answer, failure, lease check or worker of any process never touches a
\* completed analysis: it lasts until the transcript changes.
CompletedLasts ==
    [][analysis = "completed" /\ revision' = revision
         => analysis' = "completed" /\ result' = result]_vars

\* docs/call-modes-and-voice-upgrade.md: confirmed text is never overwritten by
\* a late delta.
FinalTextLasts ==
    [][\A x \in Segments : turns[x] \in Final =>
           turns'[x] \in Final \/ deleted']_vars

\* All four: no late report, delta or answer takes back what is decided.
NothingTakenBack == []CompleteIsFinal /\ EndIsFinal /\ CompletedLasts /\ FinalTextLasts

\* Both: whoever reads the record reads what is true of the call now.
RecordIsCurrent == ResultIsCurrent /\ DeletedStaysErased

\* How the call ended, and the text of its valid analysis, as the document has
\* them.
DocumentOutcome == IF Ended THEN status ELSE "open"
DocumentAnalysed == IF analysis = "completed" THEN {result.turns} ELSE {}

Document == INSTANCE CallDocument WITH
    Outcomes <- Terminal, text <- turns, outcome <- DocumentOutcome,
    analysed <- DocumentAnalysed, erased <- deleted

\* The record implements the document: however long a model thinks, crashes or is
\* asked again, its answer counts as given in one instant, of the text there is.
ImplementsDocument == Document!Spec
=============================================================================
