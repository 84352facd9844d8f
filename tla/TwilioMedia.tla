----------------------------- MODULE TwilioMedia -----------------------------
(***************************************************************************)
(* The bridge between a telephone call and the realtime model.  Three      *)
(* tasks share it: one takes frames from a bounded queue and sends them to *)
(* Twilio, one reads Twilio's marks and its stop, one handles the model's  *)
(* events and waits wherever the queue is full or a tool is running.       *)
(* Twilio plays what it was sent in order, returns a mark when it has      *)
(* played what came before it, and on a clear drops the rest and returns   *)
(* its marks.                                                              *)
(***************************************************************************)
EXTENDS Naturals, Sequences, FiniteSets

CONSTANTS
    MaxItems,     \* bound: pieces of the agent's speech (conversation items)
    MaxAudio,     \* bound: frames of audio
    MaxSpeech,    \* bound: utterances of the caller
    QueueSize,    \* OUTBOUND_QUEUE_SIZE
    Interrupts,   \* turn_detection.interrupt_response
    None

Items == 1..MaxItems
Speech == 1..MaxSpeech
Marks == 1..MaxAudio

ASSUME TwilioMediaAssumption ==
    /\ MaxItems \in Nat /\ MaxAudio \in Nat /\ MaxSpeech \in Nat
    /\ QueueSize \in Nat \ {0} /\ Interrupts \in BOOLEAN
    /\ None \notin Items \cup Speech

VARIABLES
    phase,        \* run(): setting up, bridging, draining after a stop, over
    playback,     \* PlaybackState; an audio frame is the unit of time
    interrupted,  \* interrupted_segments
    segment,      \* segment_states
    recorded,     \* the state of a segment as last given to the transcript sink
    latest,       \* latest_input_item_id
    utterance,    \* latest_user_utterance: the item it is the text of
    todo,         \* what the handler of the current event has still to do
    outbound,     \* the queue to Twilio
    stopped,      \* twilio_stopped
    generated,    \* frames the model has produced
    speaking,     \* the item of the last of them
    started,      \* utterances the model has reported
    completed,    \* utterances whose transcription is reported
    buffer,       \* what Twilio has still to play
    heard,        \* frames of an item that Twilio has played
    inbox         \* what Twilio has sent and the bridge has not read

model == <<generated, speaking>>
text == <<interrupted, segment, recorded>>
caller == <<latest, utterance, started, completed>>
twilio == <<buffer, heard>>
vars == <<phase, playback, text, caller, todo, outbound, stopped, model, twilio, inbox>>

Silent == [item |-> None, total |-> 0, acknowledged |-> 0, counter |-> 0, marks |-> {}]

Media(i) == [kind |-> "media", of |-> i]
Mark(n) == [kind |-> "mark", of |-> n]
Clear == [kind |-> "clear", of |-> None]
Stop == [kind |-> "stop", of |-> None]
Put(f) == [does |-> "put", what |-> f]
Truncate(i, end) == [does |-> "truncate", what |-> [item |-> i, end |-> end]]
Execute(u) == [does |-> "tool", what |-> u]

-----------------------------------------------------------------------------
(* PlaybackState *)

\* Mutant: the marks of the item before are kept.
AddAudioOnly(p, i) ==
    LET total == IF i = p.item THEN p.total ELSE 0
    IN [item |-> i, total |-> total + 1, counter |-> p.counter + 1,
        acknowledged |-> IF i = p.item THEN p.acknowledged ELSE 0,
        marks |-> p.marks \cup {[name |-> p.counter + 1, at |-> total + 1]}]

\* A mark follows every frame; a new item starts from zero.
AddAudio(p, i) ==
    LET same == i = p.item
        total == IF same THEN p.total ELSE 0
    IN [item |-> i, total |-> total + 1, counter |-> p.counter + 1,
        acknowledged |-> IF same THEN p.acknowledged ELSE 0,
        marks |-> (IF same THEN p.marks ELSE {})
                     \cup {[name |-> p.counter + 1, at |-> total + 1]}]

Acknowledge(p, n) ==
    LET known == {m \in p.marks : m.name = n}
    IN [p EXCEPT !.marks = @ \ known,
                 !.acknowledged = IF \E m \in known : m.at > @
                                  THEN (CHOOSE m \in known : m.at > @).at ELSE @]

Cleared(p) == [Silent EXCEPT !.counter = p.counter]

-----------------------------------------------------------------------------
(* _handle_openai_event() *)

Bridging == phase \in {"open", "draining"}
Receives == Bridging /\ todo = <<>>

\* response.output_audio.delta: of the last item, or of the next
AudioDelta(i) ==
    /\ Receives
    /\ generated < MaxAudio /\ generated' = generated + 1
    /\ i \in {speaking, speaking + 1} /\ speaking' = i
    /\ IF stopped
       THEN UNCHANGED <<playback, todo>>
       ELSE /\ playback' = AddAudio(playback, i)
            /\ todo' = <<Put(Media(i)), Put(Mark(playback.counter + 1))>>
    /\ UNCHANGED <<phase, text, caller, outbound, stopped, twilio, inbox>>

\* What the sink is given of an item, whatever its own state is.
Shown(i, s) == IF i \in interrupted THEN "interrupted" ELSE s

\* Mutant: a cut is not considered when the text arrives after it.
PersistTranscriptAsSaid(i, final) ==
    LET state == IF final THEN "confirmed" ELSE "provisional"
    IN /\ Receives
       /\ final \/ segment[i] \notin {"confirmed", "interrupted"}
       /\ segment' = [segment EXCEPT ![i] = state]
       /\ recorded' = [recorded EXCEPT ![i] = state]
       /\ UNCHANGED <<phase, playback, interrupted, caller, todo, outbound, stopped,
                      model, twilio, inbox>>

\* _persist_transcript_event(): a piece, or the whole, of what the agent says
PersistTranscript(i, final) ==
    LET state == Shown(i, IF final THEN "confirmed" ELSE "provisional")
    IN /\ Receives
       /\ final \/ segment[i] \notin {"confirmed", "interrupted"}
       /\ segment' = [segment EXCEPT ![i] = state]
       /\ recorded' = [recorded EXCEPT ![i] = state]
       /\ UNCHANGED <<phase, playback, interrupted, caller, todo, outbound, stopped,
                      model, twilio, inbox>>

\* _save_known_segment(): when the item is reported
SaveKnownSegment(i) ==
    /\ Receives
    /\ segment[i] # "none"
    /\ recorded' = [recorded EXCEPT ![i] = Shown(i, segment[i])]
    /\ UNCHANGED <<phase, playback, interrupted, segment, caller, todo, outbound, stopped,
                   model, twilio, inbox>>

\* Mutant: an item is marked only if it has text already.
CutWithText ==
    LET i == playback.item
        unplayed == playback.acknowledged < playback.total
        end == IF unplayed THEN playback.acknowledged ELSE playback.total
    IN /\ playback' = Cleared(playback)
       /\ IF i # None /\ unplayed /\ segment[i] # "none"
          THEN /\ interrupted' = interrupted \cup {i}
               /\ recorded' = [recorded EXCEPT ![i] = "interrupted"]
          ELSE UNCHANGED <<interrupted, recorded>>
       /\ todo' = <<Put(Clear)>> \o (IF i = None THEN <<>> ELSE <<Truncate(i, end)>>)

\* What is left of the playback when the caller cuts in.
Cut ==
    LET i == playback.item
        unplayed == playback.acknowledged < playback.total
        end == IF unplayed THEN playback.acknowledged ELSE playback.total
    IN /\ playback' = Cleared(playback)
       /\ IF i # None /\ unplayed
          THEN /\ interrupted' = interrupted \cup {i}
               /\ recorded' = IF segment[i] = "none" THEN recorded
                              ELSE [recorded EXCEPT ![i] = "interrupted"]
          ELSE UNCHANGED <<interrupted, recorded>>
       /\ todo' = <<Put(Clear)>> \o (IF i = None THEN <<>> ELSE <<Truncate(i, end)>>)

\* input_audio_buffer.speech_started
SpeechStarted ==
    /\ Receives
    /\ started < MaxSpeech
    /\ started' = started + 1
    /\ latest' = started + 1 /\ utterance' = None
    /\ IF stopped \/ ~Interrupts
       THEN UNCHANGED <<playback, interrupted, recorded, todo>>
       ELSE Cut
    /\ UNCHANGED <<phase, segment, completed, outbound, stopped, model, twilio, inbox>>

\* Mutant: the text of any utterance is taken for the latest.
TranscriptionCompletedAny(n) ==
    /\ Receives
    /\ n <= started /\ n \notin completed
    /\ completed' = completed \cup {n}
    /\ utterance' = n
    /\ UNCHANGED <<phase, playback, text, latest, started, todo, outbound, stopped,
                   model, twilio, inbox>>

\* input_audio_transcription.completed: in any order
TranscriptionCompleted(n) ==
    /\ Receives
    /\ n <= started /\ n \notin completed
    /\ completed' = completed \cup {n}
    /\ utterance' = IF latest \in {None, n} THEN n ELSE utterance
    /\ UNCHANGED <<phase, playback, text, latest, started, todo, outbound, stopped,
                   model, twilio, inbox>>

\* response.function_call_arguments.done: the tool is given the utterance known now
FunctionCall ==
    /\ Receives
    /\ todo' = <<Execute(utterance)>>
    /\ UNCHANGED <<phase, playback, text, caller, outbound, stopped, model, twilio, inbox>>

\* Mutant: the queue has no bound.
ContinueAnyway ==
    /\ Bridging /\ todo # <<>>
    /\ todo' = Tail(todo)
    /\ outbound' = IF Head(todo).does = "put" THEN Append(outbound, Head(todo).what) ELSE outbound
    /\ UNCHANGED <<phase, playback, text, caller, stopped, model, twilio, inbox>>

\* The handler goes on: the queue has room, the tool or the send returns.
Continue ==
    /\ Bridging /\ todo # <<>>
    /\ todo' = Tail(todo)
    /\ LET step == Head(todo)
       IN IF step.does = "put"
          THEN Len(outbound) < QueueSize /\ outbound' = Append(outbound, step.what)
          ELSE UNCHANGED outbound
    /\ UNCHANGED <<phase, playback, text, caller, stopped, model, twilio, inbox>>

-----------------------------------------------------------------------------
(* Twilio *)

Named(frames) == {k \in DOMAIN frames : frames[k].kind = "mark"}
FlushedItems == {buffer[k].of : k \in DOMAIN buffer \ Named(buffer)}
HungUp == stopped \/ \E k \in DOMAIN inbox : inbox[k] = Stop

\* The members of S in their order: there is one such function.
Increasing(S) ==
    {f \in [1..Cardinality(S) -> S] : \A a, b \in DOMAIN f : a < b => f[a] < f[b]}

\* What is left to play is dropped; its marks return.
DropBuffer ==
    /\ buffer' = <<>>
    /\ \E order \in Increasing(Named(buffer)) :
          inbox' = inbox \o [a \in DOMAIN order |-> buffer[order[a]]]

\* _send_twilio(), and what Twilio does with the frame while the call lasts
SendTwilio ==
    /\ Bridging /\ outbound # <<>>
    /\ outbound' = Tail(outbound)
    /\ IF HungUp THEN UNCHANGED <<buffer, inbox>>
       ELSE IF Head(outbound) = Clear
       THEN DropBuffer
       ELSE buffer' = Append(buffer, Head(outbound)) /\ UNCHANGED inbox
    /\ UNCHANGED <<phase, playback, text, caller, todo, stopped, model, heard>>

TwilioPlays ==
    /\ Bridging /\ ~HungUp
    /\ buffer # <<>>
    /\ buffer' = Tail(buffer)
    /\ IF Head(buffer).kind = "mark"
       THEN inbox' = Append(inbox, Head(buffer)) /\ UNCHANGED heard
       ELSE heard' = [heard EXCEPT ![Head(buffer).of] = @ + 1] /\ UNCHANGED inbox
    /\ UNCHANGED <<phase, playback, text, caller, todo, outbound, stopped, model>>

\* The caller hangs up, perhaps while the session is set up.
TwilioStops ==
    /\ phase # "over" /\ ~HungUp
    /\ inbox' = Append(inbox, Stop)
    /\ UNCHANGED <<phase, playback, text, caller, todo, outbound, stopped, model, twilio>>

\* _receive_twilio()
ReceiveTwilio ==
    /\ phase = "open" /\ inbox # <<>>
    /\ inbox' = Tail(inbox)
    /\ IF Head(inbox) = Stop
       THEN stopped' = TRUE /\ phase' = "draining" /\ UNCHANGED playback
       ELSE /\ playback' = Acknowledge(playback, Head(inbox).of)
            /\ UNCHANGED <<stopped, phase>>
    /\ UNCHANGED <<text, caller, todo, outbound, model, twilio>>

-----------------------------------------------------------------------------
(* run() *)

Kept == <<playback, text, caller, todo, outbound, stopped, model, twilio, inbox>>

SessionCreated == phase = "creating" /\ phase' = "updating" /\ UNCHANGED Kept
SessionUpdated == phase = "updating" /\ phase' = "open" /\ UNCHANGED Kept

\* A setup that is refused, or takes longer than OPENAI_SETUP_TIMEOUT_SECONDS
SetupFails == phase \in {"creating", "updating"} /\ phase' = "over" /\ UNCHANGED Kept

SetsUp == SessionCreated \/ SessionUpdated \/ SetupFails

\* Mutant: the drain waits for the receiver without a timeout.
DrainedAtLast == phase = "draining" /\ todo = <<>> /\ phase' = "over" /\ UNCHANGED Kept

\* 0.75 s after the stop, or when the model's connection ends
Drained == phase = "draining" /\ phase' = "over" /\ UNCHANGED Kept

\* An event that is refused, a lost connection, 45 s of silence on Twilio's side,
\* the maximum duration: the tasks are cancelled wherever they wait.
Fails == phase # "over" /\ phase' = "over" /\ UNCHANGED Kept

HandleOpenAIEvent ==
    \/ \E i \in Items :
          \/ AudioDelta(i)
          \/ SaveKnownSegment(i)
          \/ \E final \in BOOLEAN : PersistTranscript(i, final)
    \/ SpeechStarted
    \/ \E n \in Speech : TranscriptionCompleted(n)
    \/ FunctionCall

Next ==
    \/ SetsUp
    \/ HandleOpenAIEvent \/ Continue
    \/ SendTwilio \/ TwilioPlays \/ TwilioStops \/ ReceiveTwilio
    \/ Drained \/ Fails

Init ==
    /\ phase = "creating" /\ playback = Silent
    /\ interrupted = {} /\ segment = [i \in Items |-> "none"]
    /\ recorded = [i \in Items |-> "none"]
    /\ latest = None /\ utterance = None
    /\ todo = <<>> /\ outbound = <<>> /\ stopped = FALSE
    /\ generated = 0 /\ speaking = 0
    /\ started = 0 /\ completed = {}
    /\ buffer = <<>> /\ heard = [i \in Items |-> 0] /\ inbox = <<>>

Spec == Init /\ [][Next]_vars

\* The setup ends within its timeouts, the event loop runs a task whose event has
\* arrived, and the drain's timeout expires.  Nothing is assumed of the model, of
\* tools, or of Twilio's socket.
FairSpec == Spec /\ WF_vars(SetsUp) /\ WF_vars(ReceiveTwilio) /\ WF_vars(Drained)

-----------------------------------------------------------------------------
(* Properties *)

States == {"none", "provisional", "confirmed", "interrupted"}
Frames == [kind : {"media"}, of : Items] \cup [kind : {"mark"}, of : Marks] \cup {Clear}
Steps ==
    [does : {"put"}, what : Frames]
    \cup [does : {"truncate"}, what : [item : Items, end : 0..MaxAudio]]
    \cup [does : {"tool"}, what : Speech \cup {None}]

Playbacks == [item : Items \cup {None}, total : 0..MaxAudio, acknowledged : 0..MaxAudio,
              counter : 0..MaxAudio, marks : SUBSET [name : Marks, at : Marks]]

TypeOK ==
    /\ phase \in {"creating", "updating", "open", "draining", "over"}
    /\ playback \in Playbacks /\ playback.acknowledged <= playback.total
    /\ interrupted \subseteq Items
    /\ segment \in [Items -> States] /\ recorded \in [Items -> States]
    /\ latest \in Speech \cup {None} /\ utterance \in Speech \cup {None}
    /\ todo \in Seq(Steps) /\ outbound \in Seq(Frames) /\ Len(outbound) <= QueueSize
    /\ stopped \in BOOLEAN /\ generated \in 0..MaxAudio /\ speaking \in 0..MaxItems
    /\ started \in 0..MaxSpeech /\ completed \subseteq Speech
    /\ buffer \in Seq(Frames) /\ heard \in [Items -> Nat]
    /\ inbox \in Seq(Frames \cup {Stop})

\* conversation.item.truncate never claims that more of an item was played than
\* Twilio has played, however late the marks of earlier items or of cut audio
\* return (PlaybackState).
TruncateWithinHeard ==
    \A k \in DOMAIN todo : todo[k].does = "truncate" =>
        todo[k].what.end <= heard[todo[k].what.item]

\* The last item whose audio a clear throws away is in interrupted_segments: what
\* the bridge takes for unplayed covers what Twilio has not played.
Newest(S) == CHOOSE i \in S : \A j \in S : j <= i
Flushes ==
    /\ outbound # <<>> /\ Head(outbound) = Clear /\ outbound' = Tail(outbound)
    /\ ~HungUp /\ FlushedItems # {}
CutIsMarked == [][Flushes => Newest(FlushedItems) \in interrupted]_vars

\* A segment that was cut is stored as interrupted, in whatever order its text,
\* its report and the cut arrive (_persist_transcript_event, speech_started).
InterruptedIsRecorded ==
    \A i \in interrupted : recorded[i] \in {"none", "interrupted"}

\* "An earlier 'yes' cannot authorize an action while the caller's correction is
\* still awaiting transcription": a tool is given the text of the utterance that
\* began last, or none, although transcriptions complete in any order.
ToolHearsLatest ==
    \A k \in DOMAIN todo : todo[k].does = "tool" => todo[k].what \in {None, started}

\* Once Twilio has sent its stop the run ends, although the queue may be full, the
\* sender blocked and a tool running.
StopEndsRun == HungUp ~> phase = "over"

=============================================================================
