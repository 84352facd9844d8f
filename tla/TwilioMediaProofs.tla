--------------------------- MODULE TwilioMediaProofs ---------------------------
(***************************************************************************)
(* What holds of the telephone bridge whatever the length of the call, the *)
(* size of its queue and the order in which its tasks run.                 *)
(***************************************************************************)
EXTENDS TwilioMedia, FiniteSetTheorems, SequenceTheorems, TLAPS

\* Marks are numbered as frames are produced, so no counter passes their number; a
\* mark stands within the audio of its item, as far from its end as from the counter.
PlaybackInv ==
    /\ playback.counter <= generated
    /\ playback.total <= playback.counter
    /\ playback.item = None <=> playback.total = 0
    /\ playback.item # None => playback.item <= speaking
    /\ \A m \in playback.marks :
          m.at <= playback.total /\ m.name + playback.total = m.at + playback.counter

TypeInv == TypeOK /\ PlaybackInv

-----------------------------------------------------------------------------
(* PlaybackState *)

LEMMA AddAudioType ==
  ASSUME TypeOK, PlaybackInv, NEW i \in Items, generated < MaxAudio
  PROVE  LET p == AddAudio(playback, i)
         IN /\ p \in Playbacks /\ p.acknowledged <= p.total
            /\ p.counter <= generated + 1 /\ p.total <= p.counter
            /\ p.counter = playback.counter + 1 /\ p.item = i /\ p.total > 0
            /\ \A m \in p.marks : m.at <= p.total /\ m.name + p.total = m.at + p.counter
<1> USE TwilioMediaAssumption DEF Playbacks, TypeOK, PlaybackInv, Marks, AddAudio
<1> DEFINE total == IF i = playback.item THEN playback.total ELSE 0
           new == [name |-> playback.counter + 1, at |-> total + 1]
<1>1. /\ total \in Nat /\ total <= playback.counter /\ playback.counter < MaxAudio
      /\ new \in [name : Marks, at : Marks]
  OBVIOUS
<1>2. CASE i = playback.item
  <2>1. AddAudio(playback, i) =
            [item |-> i, total |-> total + 1, counter |-> playback.counter + 1,
             acknowledged |-> playback.acknowledged, marks |-> playback.marks \cup {new}]
    BY <1>2
  <2>2. \A m \in playback.marks \cup {new} :
           /\ m \in [name : Marks, at : Marks] /\ m.at <= total + 1
           /\ m.name + (total + 1) = m.at + (playback.counter + 1)
    <3>1. total = playback.total /\ playback.counter \in Nat
      BY <1>2
    <3>2. \A m \in playback.marks :
             /\ m \in [name : Marks, at : Marks] /\ m.at <= total
             /\ m.name + total = m.at + playback.counter
      BY <3>1
    <3>3. ASSUME NEW m \in playback.marks
          PROVE m.at <= total + 1 /\ m.name + (total + 1) = m.at + (playback.counter + 1)
      <4>1. m.at \in Nat /\ m.name \in Nat
        BY <3>2
      <4>2. m.at <= total /\ m.name + total = m.at + playback.counter
        BY <3>2
      <4>3. total \in Nat
        BY <1>1
      <4> DEFINE at == m.at
                 name == m.name
                 counter == playback.counter
      <4>4. at \in Nat /\ name \in Nat /\ counter \in Nat /\ at <= total
            /\ name + total = at + counter
        BY <3>1, <4>1, <4>2
      <4> HIDE DEF total, new, at, name, counter
      <4>5. at <= total + 1 /\ name + (total + 1) = at + (counter + 1)
        BY <4>3, <4>4
      <4> QED
        BY <4>5 DEF at, name, counter
    <3> QED
      BY <1>1, <3>2, <3>3
  <2> HIDE DEF new, total, AddAudio
  <2>3. total = playback.total
    BY <1>2 DEF total
  <2> DEFINE p == AddAudio(playback, i)
             marks == playback.marks \cup {new}
  <2>4. p = [item |-> i, total |-> total + 1, counter |-> playback.counter + 1,
             acknowledged |-> playback.acknowledged, marks |-> marks]
    BY <2>1
  <2>5. /\ marks \in SUBSET [name : Marks, at : Marks]
        /\ \A m \in marks : m.at <= total + 1 /\ m.name + (total + 1) = m.at + (playback.counter + 1)
    BY <2>2
  <2>6. /\ playback.acknowledged \in Nat /\ playback.acknowledged <= total
        /\ total \in Nat /\ total <= playback.counter
        /\ playback.counter \in Nat /\ playback.counter <= generated
    BY <1>1, <2>3
  <2> HIDE DEF p, marks
  <2>7. /\ p.item = i /\ p.total = total + 1 /\ p.counter = playback.counter + 1
        /\ p.acknowledged = playback.acknowledged /\ p.marks = marks
    BY ONLY <2>4
  <2>8. p \in Playbacks
    BY <2>4, <2>5, <2>6
  <2>9. /\ p.acknowledged <= p.total /\ p.counter <= generated + 1
        /\ p.total <= p.counter /\ p.total > 0
    BY <2>6, <2>7
  <2> QED
    BY <2>5, <2>7, <2>8, <2>9 DEF p
<1>3. CASE i # playback.item
  BY <1>1, <1>3
<1> QED
  BY <1>2, <1>3

LEMMA AcknowledgeType ==
  ASSUME TypeOK, PlaybackInv, NEW n
  PROVE  LET p == Acknowledge(playback, n)
         IN /\ p \in Playbacks /\ p.acknowledged <= p.total
            /\ p.counter = playback.counter /\ p.total = playback.total
            /\ p.item = playback.item /\ p.marks \subseteq playback.marks
<1> USE TwilioMediaAssumption DEF Playbacks, TypeOK, PlaybackInv, Marks
<1> DEFINE known == {m \in playback.marks : m.name = n}
           later == CHOOSE m \in known : m.at > playback.acknowledged
<1>1. CASE \E m \in known : m.at > playback.acknowledged
  <2>1. later \in known
    BY <1>1
  <2>2. later.at \in 0..MaxAudio /\ later.at <= playback.total
    BY <2>1
  <2> HIDE DEF later
  <2>3. Acknowledge(playback, n) =
            [playback EXCEPT !.marks = @ \ known, !.acknowledged = later.at]
    BY <1>1 DEF Acknowledge, later
  <2> QED
    BY <2>2, <2>3
<1>2. CASE ~ \E m \in known : m.at > playback.acknowledged
  BY <1>2 DEF Acknowledge
<1> QED
  BY <1>1, <1>2

LEMMA ClearedType ==
  ASSUME TypeOK
  PROVE  LET p == Cleared(playback)
         IN /\ p \in Playbacks /\ p.acknowledged = 0 /\ p.total = 0 /\ p.item = None
            /\ p.counter = playback.counter /\ p.marks = {}
<1>1. playback.counter \in 0..MaxAudio
  BY DEF TypeOK, Playbacks
<1> QED
  BY <1>1, TwilioMediaAssumption DEF Playbacks, Cleared, Silent

-----------------------------------------------------------------------------
(* Types *)

LEMMA InitTypeInv == Init => TypeInv
<1> SUFFICES ASSUME Init PROVE TypeInv
  OBVIOUS
<1> USE TwilioMediaAssumption DEF Init
<1>1. playback \in Playbacks /\ playback.acknowledged <= playback.total /\ PlaybackInv
  BY DEF Silent, Playbacks, PlaybackInv
<1>2. segment \in [Items -> States] /\ recorded \in [Items -> States] /\ heard \in [Items -> Nat]
  BY DEF States
<1>3. /\ todo \in Seq(Steps) /\ outbound \in Seq(Frames) /\ buffer \in Seq(Frames)
      /\ inbox \in Seq(Frames \cup {Stop})
  OBVIOUS
<1>4. Len(outbound) <= QueueSize
  OBVIOUS
<1>5. /\ phase \in {"creating", "updating", "open", "draining", "over"}
      /\ interrupted \subseteq Items /\ completed \subseteq Speech /\ stopped \in BOOLEAN
      /\ latest \in Speech \cup {None} /\ utterance \in Speech \cup {None}
      /\ generated = 0 /\ speaking = 0 /\ started = 0
  OBVIOUS
<1>6. 0 \in 0..MaxAudio /\ 0 \in 0..MaxItems /\ 0 \in 0..MaxSpeech
  OBVIOUS
<1> HIDE DEF Init
<1> QED
  BY <1>1, <1>2, <1>3, <1>4, <1>5, <1>6 DEF TypeInv, TypeOK

\* A cut leaves a clear, and the truncation of the item there was.
LEMMA CutType ==
  ASSUME TypeInv, Cut
  PROVE  /\ playback' \in Playbacks /\ playback'.acknowledged <= playback'.total
         /\ playback'.counter = playback.counter /\ playback'.total = 0
         /\ playback'.marks = {} /\ playback'.item = None
         /\ interrupted' \subseteq Items /\ recorded' \in [Items -> States]
         /\ todo' \in Seq(Steps)
<1> USE DEF TypeInv
<1> DEFINE i == playback.item
           end == IF playback.acknowledged < playback.total THEN playback.acknowledged
                                                            ELSE playback.total
<1>1. /\ playback' \in Playbacks /\ playback'.acknowledged <= playback'.total
      /\ playback'.counter = playback.counter /\ playback'.total = 0
      /\ playback'.marks = {} /\ playback'.item = None
  BY ClearedType, TwilioMediaAssumption DEF Cut, Playbacks
<1>2. i \in Items \cup {None} /\ end \in 0..MaxAudio
  BY DEF TypeOK, Playbacks
<1>3. interrupted' \subseteq Items /\ recorded' \in [Items -> States]
  BY <1>2 DEF Cut, TypeOK, States
<1>4. Put(Clear) \in Steps
  BY DEF Put, Steps, Frames
<1>5. i # None => Truncate(i, end) \in Steps
  BY <1>2 DEF Truncate, Steps
<1>6. todo' = <<Put(Clear)>> \o (IF i = None THEN <<>> ELSE <<Truncate(i, end)>>)
  BY DEF Cut
<1>7. todo' \in Seq(Steps)
  BY <1>4, <1>5, <1>6
<1> QED
  BY <1>1, <1>3, <1>7

\* What returns of a buffer that is dropped are its marks.
LEMMA DropBufferMarks ==
  ASSUME buffer \in Seq(Frames), inbox \in Seq(Frames \cup {Stop}), DropBuffer
  PROVE  \E r \in Seq(Frames) :
            /\ inbox' = inbox \o r
            /\ \A a \in DOMAIN r : \E k \in DOMAIN buffer : r[a] = buffer[k] /\ r[a].kind = "mark"
<1>1. PICK order \in Increasing(Named(buffer)) :
         inbox' = inbox \o [a \in DOMAIN order |-> buffer[order[a]]]
  BY DEF DropBuffer
<1> DEFINE M == Named(buffer)
           n == Cardinality(M)
           r == [a \in 1..n |-> buffer[order[a]]]
<1>2. n \in Nat
  <2>1. IsFiniteSet(DOMAIN buffer)
    BY FS_Interval
  <2>2. M \subseteq DOMAIN buffer
    BY DEF Named
  <2> QED
    BY <2>1, <2>2, FS_Subset, FS_CardinalityType
<1>3. order \in [1..n -> M]
  BY DEF Increasing
<1> HIDE DEF n
<1>4. \A a \in 1..n : order[a] \in DOMAIN buffer /\ buffer[order[a]].kind = "mark"
  BY <1>3 DEF Named
<1>5. r \in Seq(Frames)
  BY <1>2, <1>4
<1>6. inbox' = inbox \o r
  BY <1>1, <1>3
<1>7. \A a \in DOMAIN r : r[a] = buffer[order[a]] /\ DOMAIN r = 1..n
  OBVIOUS
<1> QED
  BY <1>4, <1>5, <1>6, <1>7

LEMMA DropBufferType ==
  ASSUME buffer \in Seq(Frames), inbox \in Seq(Frames \cup {Stop}), DropBuffer
  PROVE  buffer' \in Seq(Frames) /\ inbox' \in Seq(Frames \cup {Stop})
<1>1. PICK r \in Seq(Frames) : inbox' = inbox \o r
  BY DropBufferMarks
<1> DEFINE T == Frames \cup {Stop}
<1>2. r \in Seq(T) /\ inbox \in Seq(T)
  OBVIOUS
<1> HIDE DEF T
<1>3. inbox' \in Seq(T)
  BY <1>1, <1>2
<1>4. buffer' \in Seq(Frames)
  BY DEF DropBuffer
<1> QED
  BY <1>3, <1>4 DEF T

LEMMA NextTypeInv == TypeInv /\ [Next]_vars => TypeInv'
<1> SUFFICES ASSUME TypeInv, [Next]_vars PROVE TypeInv'
  OBVIOUS
<1> USE TwilioMediaAssumption DEF TypeInv
<1>1. CASE UNCHANGED vars
  BY <1>1 DEF vars, model, text, caller, twilio, TypeOK, PlaybackInv
<1>2. ASSUME SetsUp \/ Drained \/ Fails PROVE TypeInv'
  BY <1>2 DEF SetsUp, SessionCreated, SessionUpdated, SetupFails, Drained, Fails, Kept,
              model, text, caller, twilio, TypeOK, PlaybackInv
<1>3. ASSUME NEW i \in Items, AudioDelta(i) PROVE TypeInv'
  <2>1. /\ generated' \in 0..MaxAudio /\ speaking' \in 0..MaxItems
        /\ UNCHANGED <<phase, interrupted, segment, recorded, latest, utterance, started,
                       completed, outbound, stopped, buffer, heard, inbox>>
    BY <1>3 DEF AudioDelta, TypeOK, Items, text, caller, twilio
  <2>2. CASE stopped
    <3>1. speaking' \in {speaking, speaking + 1} /\ UNCHANGED <<playback, todo>>
          /\ generated' = generated + 1
      BY <1>3, <2>2 DEF AudioDelta
    <3>2. playback.item \in Nat \cup {None} /\ playback.counter \in Nat
          /\ speaking \in Nat /\ generated \in Nat
      BY DEF TypeOK, Playbacks, Items
    <3>3. PlaybackInv'
      BY <3>1, <3>2 DEF PlaybackInv
    <3> QED
      BY <2>1, <3>1, <3>3 DEF TypeOK
  <2>3. CASE ~stopped
    <3>1. playback' = AddAudio(playback, i) /\ generated' = generated + 1
      BY <1>3, <2>3 DEF AudioDelta
    <3>2. /\ playback' \in Playbacks /\ playback'.acknowledged <= playback'.total
          /\ playback'.counter <= generated + 1 /\ playback'.total <= playback'.counter
          /\ playback'.item = i /\ playback'.total > 0
          /\ \A m \in playback'.marks :
                /\ m.at <= playback'.total
                /\ m.name + playback'.total = m.at + playback'.counter
      BY <1>3, <3>1, AddAudioType DEF AudioDelta
    <3>7. i # None /\ speaking' = i /\ i <= i
      BY <1>3 DEF AudioDelta, Items
    <3>8. PlaybackInv'
      BY <3>1, <3>2, <3>7 DEF PlaybackInv
    <3>3. playback.counter + 1 \in Marks
      BY <1>3 DEF AudioDelta, TypeOK, PlaybackInv, Playbacks, Marks
    <3>4. Put(Media(i)) \in Steps /\ Put(Mark(playback.counter + 1)) \in Steps
      BY <3>3 DEF Put, Media, Mark, Steps, Frames
    <3>5. todo' = <<Put(Media(i)), Put(Mark(playback.counter + 1))>>
      BY <1>3, <2>3 DEF AudioDelta
    <3>6. todo' \in Seq(Steps)
      BY <3>4, <3>5
    <3> QED
      BY <2>1, <3>2, <3>6, <3>8 DEF TypeOK
  <2> QED
    BY <2>2, <2>3
<1>4. ASSUME NEW i \in Items, SaveKnownSegment(i) PROVE TypeInv'
  BY <1>4 DEF SaveKnownSegment, Shown, States, model, caller, twilio, TypeOK, PlaybackInv
<1>5. ASSUME NEW i \in Items, NEW final \in BOOLEAN, PersistTranscript(i, final) PROVE TypeInv'
  BY <1>5 DEF PersistTranscript, Shown, States, model, caller, twilio, TypeOK, PlaybackInv
<1>6. CASE SpeechStarted
  <2>1. /\ started' \in 0..MaxSpeech /\ latest' \in Speech /\ utterance' = None
        /\ UNCHANGED <<phase, segment, completed, outbound, stopped, generated, speaking,
                       buffer, heard, inbox>>
    BY <1>6 DEF SpeechStarted, TypeOK, Speech, model, twilio
  <2>2. CASE stopped \/ ~Interrupts
    BY <1>6, <2>1, <2>2 DEF SpeechStarted, TypeOK, PlaybackInv
  <2>3. CASE ~(stopped \/ ~Interrupts)
    BY SMTT(30), <1>6, <2>1, <2>3, CutType DEF SpeechStarted, TypeOK, PlaybackInv, Playbacks
  <2> QED
    BY <2>2, <2>3
<1>7. ASSUME NEW n \in Speech, TranscriptionCompleted(n) PROVE TypeInv'
  BY <1>7 DEF TranscriptionCompleted, Speech, text, model, twilio, TypeOK, PlaybackInv
<1>8. CASE FunctionCall
  <2>1. Execute(utterance) \in Steps
    BY DEF Execute, Steps, TypeOK
  <2> QED
    BY <1>8, <2>1 DEF FunctionCall, text, caller, model, twilio, TypeOK, PlaybackInv
<1>9. CASE Continue
  <2>1. Head(todo) \in Steps /\ todo' \in Seq(Steps)
    BY <1>9 DEF Continue, TypeOK
  <2>2. Head(todo).does = "put" => Head(todo).what \in Frames
    BY <2>1 DEF Steps
  <2>3. outbound' \in Seq(Frames) /\ Len(outbound') <= QueueSize
    <3> DEFINE f == Head(todo).what
    <3>1. outbound \in Seq(Frames) /\ Len(outbound) <= QueueSize
      BY DEF TypeOK
    <3>2. CASE Head(todo).does = "put"
      <4>1. f \in Frames /\ Len(outbound) < QueueSize /\ outbound' = Append(outbound, f)
        BY <1>9, <2>2, <3>2 DEF Continue
      <4> HIDE DEF f
      <4> QED
        BY <3>1, <4>1
    <3>3. CASE Head(todo).does # "put"
      BY <1>9, <3>1, <3>3 DEF Continue
    <3> QED
      BY <3>2, <3>3
  <2> QED
    BY <1>9, <2>1, <2>3 DEF Continue, text, caller, model, twilio, TypeOK, PlaybackInv
<1>10. CASE SendTwilio
  <2> DEFINE f == Head(outbound)
  <2>1. /\ outbound \in Seq(Frames) /\ Len(outbound) <= QueueSize /\ outbound # <<>>
        /\ outbound' = Tail(outbound) /\ buffer \in Seq(Frames)
        /\ inbox \in Seq(Frames \cup {Stop})
    BY <1>10 DEF SendTwilio, TypeOK
  <2>2. f \in Frames /\ outbound' \in Seq(Frames) /\ Len(outbound') <= QueueSize
    BY <2>1
  <2>3. buffer' \in Seq(Frames) /\ inbox' \in Seq(Frames \cup {Stop})
    <3>1. CASE DropBuffer
      BY <2>1, <3>1, DropBufferType
    <3>2. CASE ~DropBuffer
      <4>1. UNCHANGED inbox /\ buffer' \in {buffer, Append(buffer, f)}
        BY <1>10, <3>2 DEF SendTwilio
      <4> HIDE DEF f
      <4>2. buffer \in Seq(Frames) /\ Append(buffer, f) \in Seq(Frames)
        BY <2>1, <2>2
      <4>3. buffer' \in Seq(Frames)
        BY <4>1, <4>2
      <4> QED
        BY <2>1, <4>1, <4>3
    <3> QED
      BY <3>1, <3>2
  <2>4. UNCHANGED <<phase, playback, interrupted, segment, recorded, latest, utterance,
                    started, completed, todo, stopped, generated, speaking, heard>>
    BY <1>10 DEF SendTwilio, text, caller, model
  <2> HIDE DEF f
  <2> QED
    BY <2>2, <2>3, <2>4 DEF TypeOK, PlaybackInv
<1>11. CASE TwilioPlays
  <2> DEFINE f == Head(buffer)
  <2>1. /\ buffer \in Seq(Frames) /\ buffer # <<>> /\ buffer' = Tail(buffer)
        /\ inbox \in Seq(Frames \cup {Stop}) /\ heard \in [Items -> Nat]
        /\ inbox' \in {inbox, Append(inbox, f)}
        /\ heard' \in {heard, [heard EXCEPT ![f.of] = @ + 1]}
    BY <1>11 DEF TwilioPlays, TypeOK
  <2>2. f \in Frames /\ buffer' \in Seq(Frames)
    BY <2>1
  <2> HIDE DEF f
  <2>3. heard' \in [Items -> Nat] /\ inbox' \in Seq(Frames \cup {Stop})
    BY SMTT(30), <2>1, <2>2
  <2>4. UNCHANGED <<phase, playback, interrupted, segment, recorded, latest, utterance,
                    started, completed, todo, outbound, stopped, generated, speaking>>
    BY <1>11 DEF TwilioPlays, text, caller, model
  <2> QED
    BY <2>2, <2>3, <2>4 DEF TypeOK, PlaybackInv
<1>12. CASE TwilioStops
  BY <1>12 DEF TwilioStops, text, caller, model, twilio, TypeOK, PlaybackInv
<1>13. CASE ReceiveTwilio
  <2>1. CASE Head(inbox) = Stop
    BY <1>13, <2>1 DEF ReceiveTwilio, text, caller, model, twilio, TypeOK, PlaybackInv
  <2>2. CASE Head(inbox) # Stop
    <3>1. playback' = Acknowledge(playback, Head(inbox).of)
      BY <1>13, <2>2 DEF ReceiveTwilio
    <3>2. /\ playback' \in Playbacks /\ playback'.acknowledged <= playback'.total
          /\ playback'.counter = playback.counter /\ playback'.total = playback.total
          /\ playback'.item = playback.item /\ playback'.marks \subseteq playback.marks
      BY <3>1, AcknowledgeType
    <3> QED
      BY <1>13, <2>2, <3>2
      DEF ReceiveTwilio, text, caller, model, twilio, TypeOK, PlaybackInv
  <2> QED
    BY <2>1, <2>2
<1> QED
  BY <1>1, <1>2, <1>3, <1>4, <1>5, <1>6, <1>7, <1>8, <1>9, <1>10, <1>11, <1>12, <1>13
  DEF Next, HandleOpenAIEvent

\* For any bounds, the bridge's state keeps its type: the queue never holds more
\* than OUTBOUND_QUEUE_SIZE frames, no truncation claims more than was produced.
THEOREM TypeCorrect == Spec => []TypeOK
<1>1. Spec => []TypeInv
  BY InitTypeInv, NextTypeInv, PTL DEF Spec
<1> QED
  BY <1>1, PTL DEF TypeInv

-----------------------------------------------------------------------------
(* What a tool is told *)

\* The latest item is the utterance that began last, and the text kept is its own;
\* an utterance begins only between events, when no tool waits to be executed.
ToolInv ==
    /\ latest \in {None, started} /\ (latest = None => started = 0)
    /\ utterance \in {None, started}
    /\ ToolHearsLatest

LEMMA InitToolInv == Init => ToolInv
  BY DEF Init, ToolInv, ToolHearsLatest

LEMMA ToolInvFrame ==
  ASSUME ToolInv, UNCHANGED <<latest, utterance, started, todo>>
  PROVE  ToolInv'
  BY DEF ToolInv, ToolHearsLatest

\* An event whose handler executes no tool leaves nothing to be told.
LEMMA ToolInvHandled ==
  ASSUME ToolInv, UNCHANGED <<latest, utterance, started>>,
         \A k \in DOMAIN todo' : todo'[k].does # "tool"
  PROVE  ToolInv'
  BY DEF ToolInv, ToolHearsLatest

LEMMA CutNoTool ==
  ASSUME Cut PROVE \A k \in DOMAIN todo' : todo'[k].does # "tool"
<1> DEFINE i == playback.item
           end == IF playback.acknowledged < playback.total THEN playback.acknowledged
                                                            ELSE playback.total
<1>1. todo' = <<Put(Clear)>> \o (IF i = None THEN <<>> ELSE <<Truncate(i, end)>>)
  BY DEF Cut
<1>2. Put(Clear).does = "put" /\ Truncate(i, end).does = "truncate"
  BY DEF Put, Truncate
<1>3. CASE i = None
  BY <1>1, <1>2, <1>3
<1>4. CASE i # None
  <2> HIDE DEF i, end
  <2>1. \A k \in DOMAIN todo' : todo'[k] \in {Put(Clear), Truncate(i, end)}
    <3> DEFINE c == Put(Clear)
               t == Truncate(i, end)
    <3>1. todo' = <<c>> \o <<t>>
      BY <1>1, <1>4
    <3> HIDE DEF c, t
    <3>2. <<c>> \in Seq({c, t}) /\ <<t>> \in Seq({c, t})
      OBVIOUS
    <3>3. \A k \in DOMAIN todo' : todo'[k] \in {c, t}
      BY <3>1, <3>2
    <3> QED
      BY <3>3 DEF c, t
  <2> QED
    BY <2>1, <1>2
<1> QED
  BY <1>3, <1>4

LEMMA NextToolInv == TypeOK /\ ToolInv /\ [Next]_vars => ToolInv'
<1> SUFFICES ASSUME TypeOK, ToolInv, [Next]_vars PROVE ToolInv'
  OBVIOUS
<1> USE TwilioMediaAssumption
<1>1. ASSUME UNCHANGED vars \/ SetsUp \/ Drained \/ Fails \/ SendTwilio \/ TwilioPlays
             \/ TwilioStops \/ ReceiveTwilio
      PROVE ToolInv'
  BY <1>1, ToolInvFrame
  DEF vars, model, text, caller, twilio, SetsUp, SessionCreated, SessionUpdated, SetupFails,
      Drained, Fails, Kept, SendTwilio, TwilioPlays, TwilioStops, ReceiveTwilio
<1>2. ASSUME NEW i \in Items,
             SaveKnownSegment(i) \/ \E final \in BOOLEAN : PersistTranscript(i, final)
      PROVE ToolInv'
  BY <1>2, ToolInvFrame DEF SaveKnownSegment, PersistTranscript, caller
<1>3. ASSUME NEW i \in Items, AudioDelta(i) PROVE ToolInv'
  <2>1. todo' \in {todo, <<Put(Media(i)), Put(Mark(playback.counter + 1))>>} /\ todo = <<>>
    BY <1>3 DEF AudioDelta, Receives
  <2>2. \A k \in DOMAIN todo' : todo'[k].does # "tool"
    BY <2>1 DEF Put
  <2> QED
    BY <1>3, <2>2, ToolInvHandled DEF AudioDelta, caller
<1>4. CASE SpeechStarted
  <2>1. started' \in Nat \ {0} /\ latest' = started' /\ utterance' = None
    BY <1>4 DEF SpeechStarted, TypeOK
  <2>2. \A k \in DOMAIN todo' : todo'[k].does # "tool"
    BY <1>4, CutNoTool DEF SpeechStarted, Receives
  <2>3. started' # None
    BY <1>4 DEF SpeechStarted, TypeOK, Speech
  <2> QED
    BY <2>1, <2>2, <2>3 DEF ToolInv, ToolHearsLatest
<1>5. ASSUME NEW n \in Speech, TranscriptionCompleted(n) PROVE ToolInv'
  <2>1. n # 0 /\ n <= started /\ started \in Nat
    BY <1>5 DEF TranscriptionCompleted, Speech, TypeOK
  <2>2. latest \in {None, n} => n = started
    BY <2>1 DEF ToolInv, Speech
  <2>3. utterance' \in {None, started}
    BY <1>5, <2>2 DEF TranscriptionCompleted, ToolInv
  <2> QED
    BY <1>5, <2>3 DEF TranscriptionCompleted, ToolInv, ToolHearsLatest
<1>6. CASE FunctionCall
  <2>1. todo' = <<Execute(utterance)>> /\ UNCHANGED <<latest, utterance, started>>
    BY <1>6 DEF FunctionCall, caller
  <2> QED
    BY <2>1 DEF ToolInv, ToolHearsLatest, Execute
<1>7. CASE Continue
  <2>1. /\ todo \in Seq(Steps) /\ todo # <<>> /\ todo' = Tail(todo)
        /\ UNCHANGED <<latest, utterance, started>>
    BY <1>7 DEF Continue, TypeOK, caller
  <2>2. \A k \in DOMAIN todo' : k + 1 \in DOMAIN todo /\ todo'[k] = todo[k + 1]
    BY <2>1
  <2> QED
    BY <2>1, <2>2 DEF ToolInv, ToolHearsLatest
<1> QED
  BY <1>1, <1>2, <1>3, <1>4, <1>5, <1>6, <1>7 DEF Next, HandleOpenAIEvent

\* However many utterances overlap and in whatever order they are transcribed, a
\* tool is told the text of the one that began last, or none (latest_input_item_id).
THEOREM ToolsHearLatest == Spec => []ToolHearsLatest
<1>1. Spec => []ToolInv
  BY InitToolInv, NextToolInv, TypeCorrect, PTL DEF Spec
<1> QED
  BY <1>1, PTL DEF ToolInv

-----------------------------------------------------------------------------
(* What is stored of a segment that was cut *)

\* A segment is stored only once it has a text.
SegmentInv ==
    /\ InterruptedIsRecorded
    /\ \A i \in Items : segment[i] = "none" => recorded[i] = "none"

LEMMA NextSegmentInv == TypeOK /\ SegmentInv /\ [Next]_vars => SegmentInv'
<1> SUFFICES ASSUME TypeOK, SegmentInv, [Next]_vars PROVE SegmentInv'
  OBVIOUS
<1> USE DEF SegmentInv, InterruptedIsRecorded
<1>1. CASE UNCHANGED text
  BY <1>1 DEF text
<1>2. ASSUME NEW i \in Items, SaveKnownSegment(i) PROVE SegmentInv'
  BY <1>2 DEF SaveKnownSegment, Shown, TypeOK
<1>3. ASSUME NEW i \in Items, NEW final \in BOOLEAN, PersistTranscript(i, final)
      PROVE SegmentInv'
  BY <1>3 DEF PersistTranscript, Shown, TypeOK
<1>4. CASE SpeechStarted
  <2>1. CASE UNCHANGED text
    BY <1>1, <2>1
  <2>2. CASE Cut /\ UNCHANGED segment
    <3>1. playback.item \in Items \cup {None}
      BY DEF TypeOK, Playbacks
    <3>2. CASE playback.item # None /\ playback.acknowledged < playback.total
      BY <2>2, <3>1, <3>2 DEF Cut, TypeOK
    <3>3. CASE ~(playback.item # None /\ playback.acknowledged < playback.total)
      BY <2>2, <3>3 DEF Cut
    <3> QED
      BY <3>2, <3>3
  <2> QED
    BY <1>4, <2>1, <2>2 DEF SpeechStarted, text
<1> QED
  BY <1>1, <1>2, <1>3, <1>4
  DEF Next, HandleOpenAIEvent, vars, SetsUp, SessionCreated, SessionUpdated, SetupFails,
      Drained, Fails, Kept, SendTwilio, TwilioPlays, TwilioStops, ReceiveTwilio, AudioDelta,
      TranscriptionCompleted, FunctionCall, Continue

\* For any number of items: a segment that was cut is stored as interrupted,
\* whichever of its text, its report and the cut comes first.
THEOREM CutIsStored == Spec => []InterruptedIsRecorded
<1>1. Init => SegmentInv
  BY DEF Init, SegmentInv, InterruptedIsRecorded
<1>2. Spec => []SegmentInv
  BY <1>1, NextSegmentInv, TypeCorrect, PTL DEF Spec
<1> QED
  BY <1>2, PTL DEF SegmentInv

-----------------------------------------------------------------------------
(* What is on its way to the caller *)

\* The frames an event's handler has still to put: they come first in what it does.
Puts ==
    IF todo = <<>> \/ todo[1].does # "put" THEN <<>>
    ELSE IF Len(todo) = 1 \/ todo[2].does # "put" THEN <<todo[1].what>>
    ELSE <<todo[1].what, todo[2].what>>
TodoInv == Len(todo) <= 2 /\ (Len(todo) = 2 => todo[1].does = "put")

\* Twilio's buffer, the queue and the rest of the event, as Twilio will get them.
Way == (buffer \o outbound) \o Puts

\* Items follow one another, and every frame is followed by its mark.
Straight(w, last) ==
    /\ \A k \in DOMAIN w : w[k].kind = "media" =>
          w[k].of <= last /\ k < Len(w) /\ w[k + 1].kind = "mark"
    /\ \A k, l \in DOMAIN w :
          k < l /\ w[k].kind = "media" /\ w[l].kind = "media" => w[k].of <= w[l].of

\* The last frames are those of the playback, as many as there still are.
Recent(w, p) ==
    \A j \in 0..MaxAudio : j < p.total =>
        /\ \A k \in DOMAIN w : k + 2 * j = Len(w) =>
              w[k].kind = "mark" /\ w[k].of + j = p.counter
        /\ \A k \in DOMAIN w : k + 2 * j + 1 = Len(w) =>
              w[k].kind = "media" /\ w[k].of = p.item

\* The marks before them are older.
Older(w, p) ==
    \A k \in DOMAIN w : w[k].kind = "mark" =>
        /\ w[k].of <= p.counter
        /\ k + 2 * p.total <= Len(w) => w[k].of + p.total <= p.counter

\* Nothing follows a clear but the audio of another answer.
Quiet(w, p) == p.total = 0 => Len(w) = 0 \/ w[Len(w)].kind = "clear"

\* What is acknowledged is on its way no longer.
Past(w, p) == p.acknowledged > 0 => Len(w) + 2 * p.acknowledged <= 2 * p.total

\* Before a clear, the audio is of an item that was cut.
Severed(w, cut) ==
    \A k \in DOMAIN w : k > 1 /\ w[k].kind = "clear" =>
        \/ w[k - 1].kind = "clear"
        \/ w[k - 1].kind = "mark" /\ (k > 2 => w[k - 2].kind = "media" /\ w[k - 2].of \in cut)

OnWay(w, p, last, cut) ==
    Straight(w, last) /\ Recent(w, p) /\ Older(w, p) /\ Quiet(w, p) /\ Past(w, p)
      /\ Severed(w, cut)

\* What is not on its way any more was played, and its known marks have left too.
Reaches(w, p, h) == p.item # None => 2 * h[p.item] + Len(w) >= 2 * p.total
Behind(w, p, r) ==
    \A k \in DOMAIN r : \A m \in p.marks :
        r[k].kind = "mark" /\ r[k].of = m.name => Len(w) + 2 * m.at <= 2 * p.total

WayInv ==
    /\ OnWay(Way, playback, speaking, interrupted)
    /\ Reaches(Way, playback, heard) /\ Behind(Way, playback, inbox)
    /\ \A k \in DOMAIN buffer : buffer[k].kind # "clear"

\* A known mark that returns, and all that is acknowledged, was played.
InboxInv ==
    /\ \A k \in DOMAIN inbox :
          \/ inbox[k] = Stop
          \/ inbox[k].kind = "mark" /\ inbox[k].of <= playback.counter
    /\ \A k \in DOMAIN inbox : \A m \in playback.marks :
          inbox[k].kind = "mark" /\ inbox[k].of = m.name => m.at <= heard[playback.item]
    /\ playback.item # None => playback.acknowledged <= heard[playback.item]

PlayedInv == TodoInv /\ InboxInv /\ TruncateWithinHeard /\ (~HungUp => WayInv)

LEMMA FrameKinds ==
  \A f \in Frames :
     /\ f.kind \in {"media", "mark", "clear"} /\ f # Stop
     /\ f = Clear <=> f.kind = "clear"
     /\ f.kind = "media" => f.of \in Items
     /\ f.kind = "mark" => f.of \in Marks
  BY DEF Frames, Clear, Stop

\* Positions counted from the end.
LEMMA Shifted ==
  ASSUME NEW k \in Nat, NEW j \in Nat, NEW n \in Nat, NEW d \in Nat
  PROVE  /\ k + 2 * j = n => (k + d) + 2 * j = n + d
         /\ k + 2 * j + 1 = n => (k + d) + 2 * j + 1 = n + d
         /\ k + 2 * (j + 1) = n + 2 => k + 2 * j = n
         /\ k + 2 * (j + 1) + 1 = n + 2 => k + 2 * j + 1 = n
  OBVIOUS

LEMMA Half == \A n \in Nat : \E j \in Nat : n = 2 * j \/ n = 2 * j + 1
<1> TAKE n \in Nat
<1>1. n \div 2 \in Nat /\ (n = 2 * (n \div 2) \/ n = 2 * (n \div 2) + 1)
  BY SMT
<1> QED
  BY <1>1

\* v is what is left of w when the first d frames have gone.
Gone(w, v, d) == Len(w) = Len(v) + d /\ \A k \in DOMAIN v : v[k] = w[k + d]

LEMMA GoneKeeps ==
  ASSUME NEW w \in Seq(Frames), NEW v \in Seq(Frames), NEW d \in Nat, Gone(w, v, d),
         NEW p \in Playbacks, NEW last, NEW cut, OnWay(w, p, last, cut)
  PROVE  OnWay(v, p, last, cut)
<1>1. /\ Len(v) \in Nat /\ Len(w) = Len(v) + d
      /\ \A k \in DOMAIN v : k \in Nat /\ k + d \in DOMAIN w /\ v[k] = w[k + d]
      /\ \A k \in DOMAIN v : k < Len(v) => k + 1 \in DOMAIN v
      /\ DOMAIN v = 1..Len(v) /\ DOMAIN w = 1..Len(w)
  BY DEF Gone
<1>2. p.total \in Nat /\ p.acknowledged \in Nat
  BY DEF Playbacks
<1>3. Straight(v, last)
  <2>1. ASSUME NEW k \in DOMAIN v, v[k].kind = "media"
        PROVE  v[k].of <= last /\ k < Len(v) /\ v[k + 1].kind = "mark"
    <3>1. w[k + d].of <= last /\ k + d < Len(w) /\ w[k + d + 1].kind = "mark"
      BY <1>1, <2>1 DEF OnWay, Straight
    <3> QED
      BY <1>1, <3>1
  <2>2. ASSUME NEW k \in DOMAIN v, NEW l \in DOMAIN v, k < l,
               v[k].kind = "media", v[l].kind = "media"
        PROVE  v[k].of <= v[l].of
    <3>1. k + d < l + d
      BY <1>1, <2>2
    <3> QED
      BY <1>1, <2>2, <3>1 DEF OnWay, Straight
  <2> QED
    BY <2>1, <2>2 DEF Straight
<1>4. Recent(v, p)
  <2>1. ASSUME NEW j \in 0..MaxAudio, j < p.total, NEW k \in DOMAIN v
        PROVE  /\ k + 2 * j = Len(v) => v[k].kind = "mark" /\ v[k].of + j = p.counter
               /\ k + 2 * j + 1 = Len(v) => v[k].kind = "media" /\ v[k].of = p.item
    <3>1. /\ k + 2 * j = Len(v) => (k + d) + 2 * j = Len(w)
          /\ k + 2 * j + 1 = Len(v) => (k + d) + 2 * j + 1 = Len(w)
      <4> DEFINE n == Len(v)
      <4>1. j \in Nat /\ k \in Nat /\ n \in Nat /\ Len(w) = n + d
        BY <1>1, TwilioMediaAssumption
      <4> HIDE DEF n
      <4>2. /\ k + 2 * j = n => (k + d) + 2 * j = n + d
            /\ k + 2 * j + 1 = n => (k + d) + 2 * j + 1 = n + d
        <5>1. j \in Nat /\ k \in Nat /\ n \in Nat
          BY <4>1
        <5> QED
          BY ONLY SMTT(30), <5>1, Shifted, d \in Nat
      <4> QED
        BY <4>1, <4>2 DEF n
    <3> QED
      BY SMTT(30), <1>1, <2>1, <3>1 DEF OnWay, Recent
  <2> QED
    BY <2>1 DEF Recent
<1>5. Older(v, p)
  <2>1. \A k \in DOMAIN v : k + 2 * p.total <= Len(v) => (k + d) + 2 * p.total <= Len(w)
    BY <1>1, <1>2
  <2> QED
    BY <1>1, <2>1 DEF OnWay, Older
<1>6. Quiet(v, p)
  <2>1. Len(v) # 0 => Len(v) \in DOMAIN v /\ Len(w) # 0 /\ v[Len(v)] = w[Len(w)]
    BY <1>1
  <2> QED
    BY <2>1 DEF OnWay, Quiet
<1>7. Past(v, p)
  BY <1>1, <1>2 DEF OnWay, Past
<1>8. Severed(v, cut)
  <2>1. ASSUME NEW k \in DOMAIN v, k > 1
        PROVE  /\ k + d > 1 /\ k - 1 \in DOMAIN v /\ (k - 1) + d = (k + d) - 1
               /\ k > 2 => k + d > 2 /\ k - 2 \in DOMAIN v /\ (k - 2) + d = (k + d) - 2
    BY <1>1, <2>1
  <2>2. ASSUME NEW k \in DOMAIN v, k > 1
        PROVE  /\ v[k] = w[k + d] /\ v[k - 1] = w[(k + d) - 1]
               /\ k > 2 => v[k - 2] = w[(k + d) - 2]
    <3>1. v[k - 1] = w[(k - 1) + d] /\ (k > 2 => v[k - 2] = w[(k - 2) + d])
      BY <1>1, <2>1, <2>2
    <3> QED
      BY <1>1, <2>1, <2>2, <3>1
  <2> QED
    BY <1>1, <2>1, <2>2 DEF OnWay, Severed
<1> QED
  BY <1>3, <1>4, <1>5, <1>6, <1>7, <1>8 DEF OnWay

\* A frame and its mark are added.
LEMMA AudioOnWay ==
  ASSUME TypeInv, TypeInv', NEW i \in Items, AudioDelta(i), ~stopped,
         NEW w \in Seq(Frames), NEW v \in Seq(Frames), Len(v) = Len(w) + 2,
         \A k \in DOMAIN w : v[k] = w[k],
         v[Len(w) + 1] = Media(i), v[Len(w) + 2] = Mark(playback.counter + 1),
         NEW cut, OnWay(w, playback, speaking, cut)
  PROVE  OnWay(v, playback', speaking', cut)
<1> DEFINE p == playback
           q == playback'
           n == Len(w)
           one == n + 1
           two == n + 2
<1>1. /\ n \in Nat /\ DOMAIN w = 1..n /\ DOMAIN v = 1..two /\ Len(v) = two
      /\ \A k \in 1..n : v[k] = w[k]
      /\ v[one].kind = "media" /\ v[one].of = i
      /\ v[two].kind = "mark" /\ v[two].of = p.counter + 1
      /\ one = n + 1 /\ two = n + 2
  BY DEF Media, Mark
<1>2. /\ p.total \in Nat /\ p.acknowledged \in Nat /\ p.counter \in Nat
      /\ q.counter = p.counter + 1 /\ q.item = i
      /\ \/ i = p.item /\ q.total = p.total + 1 /\ q.acknowledged = p.acknowledged
         \/ i # p.item /\ q.total = 1 /\ q.acknowledged = 0
  <2>1. p.total \in Nat /\ p.acknowledged \in Nat /\ p.counter \in Nat
    BY DEF TypeInv, TypeOK, Playbacks
  <2>2. q = AddAudio(p, i)
    BY DEF AudioDelta
  <2>3. /\ q.counter = p.counter + 1 /\ q.item = i
        /\ q.total = (IF i = p.item THEN p.total ELSE 0) + 1
        /\ q.acknowledged = IF i = p.item THEN p.acknowledged ELSE 0
    BY <2>2 DEF AddAudio
  <2> HIDE DEF p, q
  <2>4. CASE i = p.item
    BY <2>1, <2>3, <2>4
  <2>5. CASE i # p.item
    BY <2>1, <2>3, <2>5
  <2> QED
    BY <2>4, <2>5
<1>3. /\ speaking \in Nat /\ i \in Nat /\ speaking <= i /\ speaking' = i
      /\ \A k \in 1..n : w[k] \in Frames
  BY DEF AudioDelta, TypeInv, TypeOK, Items
<1>4. \A k \in 1..n : w[k].kind = "media" => w[k].of \in Nat
  BY <1>3, FrameKinds DEF Items
<1>5. \A k \in 1..n : w[k].kind = "mark" => w[k].of \in Nat
  BY <1>3, FrameKinds DEF Marks
<1>6. \A k \in 1..two : k \in 1..n \/ k = one \/ k = two
  BY <1>1
<1>7. OnWay(w, p, speaking, cut)
  OBVIOUS
<1> HIDE DEF p, q, n, one, two
<1>8. Straight(v, i)
  <2>1. \A k \in 1..n : w[k].kind = "media" =>
           w[k].of <= i /\ k < n /\ w[k + 1].kind = "mark"
    BY <1>1, <1>3, <1>4, <1>7 DEF OnWay, Straight, n
  <2>2. ASSUME NEW k \in 1..two, v[k].kind = "media"
        PROVE  v[k].of <= i /\ k < two /\ v[k + 1].kind = "mark"
    <3>1. CASE k \in 1..n
      BY <1>1, <2>1, <2>2, <3>1
    <3>2. CASE k = one
      BY <1>1, <1>3, <3>2
    <3>3. CASE k = two
      BY <1>1, <2>2, <3>3
    <3> QED
      BY <1>6, <3>1, <3>2, <3>3
  <2>3. ASSUME NEW k \in 1..two, NEW l \in 1..two, k < l,
               v[k].kind = "media", v[l].kind = "media"
        PROVE  v[k].of <= v[l].of
    <3>1. k \in 1..n
      BY <1>1, <1>6, <2>3
    <3>2. CASE l \in 1..n
      BY <1>1, <1>7, <2>3, <3>1, <3>2 DEF OnWay, Straight
    <3>3. CASE l = one
      BY <1>1, <2>1, <2>3, <3>1, <3>3
    <3> QED
      BY <1>1, <1>6, <2>3, <3>2, <3>3
  <2> QED
    BY <1>1, <2>2, <2>3 DEF Straight
<1>9. Recent(v, q)
  <2>1. ASSUME NEW j \in 0..MaxAudio, j < q.total, NEW k \in 1..two
        PROVE  /\ k + 2 * j = two => v[k].kind = "mark" /\ v[k].of + j = q.counter
               /\ k + 2 * j + 1 = two => v[k].kind = "media" /\ v[k].of = q.item
    <3>1. j \in Nat /\ k \in Nat
      BY <1>1, TwilioMediaAssumption
    <3>2. CASE j = 0
      BY <1>1, <1>2, <3>1, <3>2
    <3>3. CASE j # 0
      <4> DEFINE h == j - 1
      <4>1. i = p.item /\ h \in Nat /\ h \in 0..MaxAudio /\ h < p.total /\ j = h + 1
        BY <1>2, <2>1, <3>1, <3>3, TwilioMediaAssumption
      <4> HIDE DEF h
      <4>2. /\ k + 2 * j = two => k \in 1..n /\ k + 2 * h = n
            /\ k + 2 * j + 1 = two => k \in 1..n /\ k + 2 * h + 1 = n
        <5>1. /\ k + 2 * j = two => k + 2 * h = n
              /\ k + 2 * j + 1 = two => k + 2 * h + 1 = n
          BY <1>1, <3>1, <4>1, Shifted
        <5>2. k > 0 /\ (k + 2 * h = n \/ k + 2 * h + 1 = n => k <= n)
          BY <1>1, <3>1, <4>1
        <5> QED
          BY <1>1, <3>1, <5>1, <5>2
      <4>3. /\ k \in 1..n /\ k + 2 * h = n => w[k].kind = "mark" /\ w[k].of + h = p.counter
            /\ k \in 1..n /\ k + 2 * h + 1 = n => w[k].kind = "media" /\ w[k].of = p.item
        BY <1>1, <1>7, <4>1 DEF OnWay, Recent, n
      <4> QED
        BY SMTT(30), <1>1, <1>2, <1>5, <3>1, <4>1, <4>2, <4>3
    <3> QED
      BY <3>2, <3>3
  <2> QED
    BY <1>1, <2>1 DEF Recent
<1>10. Older(v, q)
  <2>1. ASSUME NEW k \in 1..two, v[k].kind = "mark"
        PROVE  v[k].of <= q.counter /\ (k + 2 * q.total <= two => v[k].of + q.total <= q.counter)
    <3>1. CASE k \in 1..n
      <4>1. /\ w[k].kind = "mark" /\ v[k] = w[k] /\ w[k].of \in Nat /\ w[k].of <= p.counter
            /\ k + 2 * p.total <= n => w[k].of + p.total <= p.counter
        BY <1>1, <1>5, <1>7, <2>1, <3>1 DEF OnWay, Older, n
      <4>2. CASE q.total = p.total + 1
        <5>1. k + 2 * q.total <= two => k + 2 * p.total <= n
          BY <1>1, <1>2, <4>2
        <5> QED
          BY SMTT(30), <1>1, <1>2, <4>1, <4>2, <5>1
      <4>3. CASE q.total = 1
        BY <1>1, <1>2, <4>1, <4>3
      <4> QED
        BY <1>2, <4>2, <4>3
    <3>2. CASE k = two
      BY <1>1, <1>2, <3>2
    <3> QED
      BY <1>1, <1>6, <2>1, <3>1, <3>2
  <2> QED
    BY <1>1, <2>1 DEF Older
<1>11. Quiet(v, q) /\ Past(v, q)
  BY <1>1, <1>2, <1>7 DEF OnWay, Quiet, Past, n
<1>12. Severed(v, cut)
  <2>1. ASSUME NEW k \in 1..two, k > 1, v[k].kind = "clear"
        PROVE  \/ v[k - 1].kind = "clear"
               \/ v[k - 1].kind = "mark" /\ (k > 2 => v[k - 2].kind = "media" /\ v[k - 2].of \in cut)
    <3>1. k \in 1..n /\ k - 1 \in 1..n /\ (k > 2 => k - 2 \in 1..n)
      BY <1>1, <1>6, <2>1
    <3> QED
      BY <1>1, <1>7, <2>1, <3>1 DEF OnWay, Severed
  <2> QED
    BY <1>1, <2>1 DEF Severed
<1> QED
  BY <1>3, <1>8, <1>9, <1>10, <1>11, <1>12 DEF OnWay, q

\* A clear is added: what it cuts is of one item, and not all acknowledged.
LEMMA CutOnWay ==
  ASSUME TypeInv, Cut,
         NEW w \in Seq(Frames), NEW v \in Seq(Frames), Len(v) = Len(w) + 1,
         \A k \in DOMAIN w : v[k] = w[k], v[Len(w) + 1] = Clear,
         OnWay(w, playback, speaking, interrupted)
  PROVE  OnWay(v, playback', speaking, interrupted')
<1> DEFINE p == playback
           q == playback'
           n == Len(w)
           one == n + 1
<1>1. /\ n \in Nat /\ DOMAIN w = 1..n /\ DOMAIN v = 1..one /\ Len(v) = one
      /\ \A k \in 1..n : v[k] = w[k]
      /\ v[one].kind = "clear" /\ one = n + 1
  BY DEF Clear
<1>2. /\ p.total \in Nat /\ p.acknowledged \in Nat /\ p.counter \in Nat
      /\ p.item = None <=> p.total = 0
      /\ q.counter = p.counter /\ q.total = 0 /\ q.acknowledged = 0
  BY CutType, ClearedType DEF Cut, TypeInv, TypeOK, Playbacks, PlaybackInv
<1>3. /\ interrupted \subseteq interrupted'
      /\ p.item # None /\ p.acknowledged < p.total => p.item \in interrupted'
  BY DEF Cut
<1>4. \A k \in 1..one : k \in 1..n \/ k = one
  BY <1>1
<1>5. OnWay(w, p, speaking, interrupted)
  OBVIOUS
<1>6. \A k \in 1..n : w[k].kind = "mark" => w[k].of \in Nat
  BY <1>1, FrameKinds DEF Marks
<1> HIDE DEF p, q, n, one
<1>7. Straight(v, speaking)
  <2>1. \A k \in 1..n : w[k].kind = "media" =>
           w[k].of <= speaking /\ k < n /\ w[k + 1].kind = "mark"
    BY <1>1, <1>5 DEF OnWay, Straight, n
  <2>2. \A k \in 1..one : v[k].kind = "media" =>
           v[k].of <= speaking /\ k < one /\ v[k + 1].kind = "mark"
    BY <1>1, <1>4, <2>1
  <2>3. ASSUME NEW k \in 1..one, NEW l \in 1..one, k < l,
               v[k].kind = "media", v[l].kind = "media"
        PROVE  v[k].of <= v[l].of
    <3>1. k \in 1..n /\ l \in 1..n
      BY <1>1, <1>4, <2>3
    <3> QED
      BY <1>1, <1>5, <2>3, <3>1 DEF OnWay, Straight
  <2> QED
    BY <1>1, <2>2, <2>3 DEF Straight
<1>8. Recent(v, q) /\ Quiet(v, q) /\ Past(v, q)
  <2>1. \A j \in 0..MaxAudio : ~(j < q.total)
    BY <1>2, TwilioMediaAssumption
  <2> QED
    BY <1>1, <1>2, <2>1 DEF Recent, Quiet, Past
<1>9. Older(v, q)
  <2>1. \A k \in 1..n : w[k].kind = "mark" => w[k].of <= p.counter /\ w[k].of + 0 <= p.counter
    BY <1>1, <1>2, <1>5, <1>6 DEF OnWay, Older, n
  <2> QED
    BY <1>1, <1>2, <1>4, <2>1 DEF Older
<1>10. Severed(v, interrupted')
  <2>1. ASSUME NEW k \in 1..one, k > 1, v[k].kind = "clear"
        PROVE  \/ v[k - 1].kind = "clear"
               \/ v[k - 1].kind = "mark"
                  /\ (k > 2 => v[k - 2].kind = "media" /\ v[k - 2].of \in interrupted')
    <3>1. k - 1 \in 1..n /\ (k > 2 => k - 2 \in 1..n)
      BY <1>1, <1>4, <2>1
    <3>2. CASE k \in 1..n
      BY <1>1, <1>3, <1>5, <2>1, <3>1, <3>2 DEF OnWay, Severed
    <3>3. CASE k = one /\ p.total = 0
      BY <1>1, <1>5, <3>1, <3>3 DEF OnWay, Quiet, n
    <3>4. CASE k = one /\ p.total # 0
      <4>1. k - 1 = n /\ 0 \in 0..MaxAudio /\ 0 < p.total
        BY <1>1, <1>2, <3>4, TwilioMediaAssumption
      <4>2. w[k - 1].kind = "mark"
        <5>1. n \in 1..n /\ n + 2 * 0 = n
          BY <3>1, <4>1, <1>1
        <5> QED
          BY <1>1, <1>5, <4>1, <5>1 DEF OnWay, Recent, n
      <4>3. ASSUME k > 2
            PROVE  w[k - 2].kind = "media" /\ w[k - 2].of = p.item
        <5>1. k - 2 \in 1..n /\ (k - 2) + 2 * 0 + 1 = n
          BY <1>1, <2>1, <3>1, <4>1, <4>3
        <5> QED
          BY <1>1, <1>5, <4>1, <5>1 DEF OnWay, Recent, n
      <4>4. k > 2 => p.acknowledged < p.total
        BY <1>1, <1>2, <1>5, <3>4, <4>1 DEF OnWay, Past, n
      <4> QED
        BY <1>1, <1>2, <1>3, <3>1, <4>1, <4>2, <4>3, <4>4
    <3> QED
      BY <1>4, <3>2, <3>3, <3>4
  <2> QED
    BY <1>1, <2>1 DEF Severed
<1> QED
  BY <1>7, <1>8, <1>9, <1>10 DEF OnWay, q

\* A frame that is handed on from one queue to the next stays where it was.
LEMMA HandedOn ==
  ASSUME NEW S, NEW a \in Seq(S), NEW b \in Seq(S), b # <<>>
  PROVE  Append(a, Head(b)) \o Tail(b) = a \o b
<1> DEFINE e == Head(b)
           t == Tail(b)
<1>1. e \in S /\ t \in Seq(S) /\ b = <<e>> \o t
  <2>1. e \in S /\ t \in Seq(S) /\ Len(t) = Len(b) - 1 /\ Len(b) \in Nat \ {0}
        /\ \A i \in 1..Len(t) : t[i] = b[i + 1]
    BY HeadTailProperties, EmptySeq
  <2>2. e = b[1]
    OBVIOUS
  <2> HIDE DEF e, t
  <2>3. <<e>> \in Seq(S) /\ <<e>> \o t \in Seq(S) /\ Len(<<e>> \o t) = Len(b)
    BY <2>1
  <2>4. \A i \in 1..Len(b) : (<<e>> \o t)[i] = b[i]
    BY <2>1, <2>2
  <2> QED
    BY <2>1, <2>3, <2>4, SeqEqual
<1> HIDE DEF e, t
<1>2. <<e>> \in Seq(S) /\ Append(a, e) = a \o <<e>>
  BY <1>1, AppendIsConcat
<1>3. Append(a, e) \o t = a \o (<<e>> \o t)
  BY <1>1, <1>2, ConcatAssociative
<1> QED
  BY <1>1, <1>3 DEF e, t

\* What the way is made of.
LEMMA WayParts ==
  ASSUME NEW S, NEW a \in Seq(S), NEW b \in Seq(S), NEW c \in Seq(S)
  PROVE  LET w == (a \o b) \o c
         IN /\ w \in Seq(S) /\ w = a \o (b \o c)
            /\ Len(w) = Len(a) + Len(b) + Len(c)
            /\ \A k \in 1..Len(a) : w[k] = a[k]
            /\ \A k \in 1..Len(b) : w[k + Len(a)] = b[k]
            /\ \A k \in 1..Len(b) + Len(c) : w[k + Len(a)] = (b \o c)[k]
            /\ \A k \in 1..Len(c) : w[k + Len(a) + Len(b)] = c[k]
<1> DEFINE x == Len(a)
           y == Len(b)
           z == Len(c)
           d == b \o c
           w == (a \o b) \o c
<1>1. x \in Nat /\ y \in Nat /\ z \in Nat
  OBVIOUS
<1>2. /\ d \in Seq(S) /\ Len(d) = y + z
      /\ \A k \in 1..y + z : d[k] = IF k <= y THEN b[k] ELSE c[k - y]
  BY ConcatProperties
<1>3. w = a \o d
  BY ConcatAssociative
<1> HIDE DEF d, w
<1>4. /\ w \in Seq(S) /\ Len(w) = x + (y + z)
      /\ \A k \in 1..x + (y + z) : w[k] = IF k <= x THEN a[k] ELSE d[k - x]
  <2>1. /\ a \o d \in Seq(S) /\ Len(a \o d) = x + Len(d)
        /\ \A k \in 1..x + Len(d) : (a \o d)[k] = IF k <= x THEN a[k] ELSE d[k - x]
    <3>1. d \in Seq(S)
      BY <1>2
    <3> QED
      BY ONLY <3>1, a \in Seq(S), ConcatProperties DEF x
  <2> QED
    BY <1>2, <1>3, <2>1
<1> HIDE DEF x, y, z
<1>5. \A k \in 1..x : w[k] = a[k]
  BY <1>1, <1>4
<1>6. \A k \in 1..y + z : w[k + x] = d[k]
  <2>1. ASSUME NEW k \in 1..y + z PROVE w[k + x] = d[k]
    <3>1. k + x \in 1..x + (y + z) /\ ~(k + x <= x) /\ (k + x) - x = k
      BY <1>1
    <3> QED
      BY <1>4, <3>1
  <2> QED
    BY <2>1
<1>7. \A k \in 1..y : w[k + x] = b[k]
  BY <1>1, <1>2, <1>6
<1>8. \A k \in 1..z : w[k + x + y] = c[k]
  <2>1. ASSUME NEW k \in 1..z PROVE w[k + x + y] = c[k]
    <3>1. k + y \in 1..y + z /\ ~(k + y <= y) /\ (k + y) - y = k /\ k + x + y = (k + y) + x
      BY <1>1
    <3> QED
      BY <1>2, <1>6, <3>1
  <2> QED
    BY <2>1
<1>9. Len(w) = x + y + z
  BY <1>1, <1>4
<1> QED
  BY <1>3, <1>4, <1>5, <1>6, <1>7, <1>8, <1>9 DEF w, d, x, y, z

\* What a handler still does: the puts first.
LEMMA PutsType ==
  ASSUME TypeOK, TodoInv
  PROVE  /\ Puts \in Seq(Frames) /\ Way \in Seq(Frames)
         /\ todo # <<>> /\ todo[1].does = "put" => Puts # <<>> /\ Head(Puts) = todo[1].what
         /\ todo = <<>> => Puts = <<>>
<1>1. \A k \in DOMAIN todo : todo[k].does = "put" => todo[k].what \in Frames
  BY DEF TypeOK, Steps
<1>2. todo \in Seq(Steps) /\ Len(todo) \in Nat /\ (todo = <<>> <=> Len(todo) = 0)
      /\ DOMAIN todo = 1..Len(todo)
  BY EmptySeq DEF TypeOK
<1>3. CASE todo = <<>> \/ todo[1].does # "put"
  <2>1. Puts = <<>>
    BY <1>3 DEF Puts
  <2>2. Way \in Seq(Frames)
    BY <2>1 DEF Way, TypeOK
  <2> QED
    BY <1>3, <2>1, <2>2
<1>4. CASE ~(todo = <<>> \/ todo[1].does # "put") /\ (Len(todo) = 1 \/ todo[2].does # "put")
  <2> DEFINE f == todo[1].what
  <2>1. Puts = <<f>> /\ f \in Frames
    BY <1>1, <1>2, <1>4 DEF Puts
  <2> HIDE DEF f
  <2>2. Puts \in Seq(Frames) /\ Head(Puts) = f /\ Puts # <<>>
    BY <2>1
  <2>3. Way \in Seq(Frames)
    BY <2>2 DEF Way, TypeOK
  <2> QED
    BY <1>4, <2>2, <2>3 DEF f
<1>5. CASE ~(todo = <<>> \/ todo[1].does # "put") /\ ~(Len(todo) = 1 \/ todo[2].does # "put")
  <2> DEFINE f == todo[1].what
             g == todo[2].what
  <2>1. Puts = <<f, g>> /\ f \in Frames /\ g \in Frames
    <3>1. Len(todo) = 2
      BY <1>2, <1>5 DEF TodoInv
    <3> QED
      BY <1>1, <1>2, <1>5, <3>1 DEF Puts
  <2> HIDE DEF f, g
  <2>2. Puts \in Seq(Frames) /\ Head(Puts) = f /\ Puts # <<>>
    BY <2>1
  <2>3. Way \in Seq(Frames)
    BY <2>2 DEF Way, TypeOK
  <2> QED
    BY <1>5, <2>2, <2>3 DEF f
<1> QED
  BY <1>3, <1>4, <1>5

\* The handler goes on: nothing on the way changes.
LEMMA ContinueWay ==
  ASSUME TypeOK, TodoInv, Continue
  PROVE  TodoInv' /\ Way' = Way
<1>1. /\ todo \in Seq(Steps) /\ todo # <<>> /\ todo' = Tail(todo) /\ UNCHANGED buffer
      /\ outbound \in Seq(Frames) /\ buffer \in Seq(Frames)
  BY DEF Continue, TypeOK, twilio
<1>2. Len(todo) \in {1, 2} /\ Len(todo') = Len(todo) - 1 /\ Head(todo) = todo[1]
      /\ (Len(todo) = 2 => todo'[1] = todo[2])
  <2>1. Len(todo) \in Nat \ {0} /\ Len(todo) <= 2
    BY <1>1, EmptySeq DEF TodoInv
  <2>2. /\ Len(todo') = Len(todo) - 1 /\ \A i \in 1..Len(todo') : todo'[i] = todo[i + 1]
    BY <1>1, HeadTailProperties
  <2>3. Head(todo) = todo[1]
    BY <1>1
  <2> QED
    BY <2>1, <2>2, <2>3
<1>3. TodoInv' /\ (Len(todo) = 1 => todo' = <<>>) /\ (Len(todo) = 2 => todo' # <<>>)
  <2>1. todo' \in Seq(Steps)
    BY <1>1, HeadTailProperties
  <2>2. Len(todo') = 0 <=> todo' = <<>>
    BY <2>1, EmptySeq
  <2>3. \/ Len(todo) = 1 /\ Len(todo') = 0
        \/ Len(todo) = 2 /\ Len(todo') = 1
    BY <1>2
  <2>4. TodoInv'
    <3> DEFINE n == Len(todo')
    <3>1. n = 0 \/ n = 1
      BY <2>3
    <3> HIDE DEF n
    <3>2. n <= 2 /\ n # 2
      BY <3>1
    <3> QED
      BY <3>2 DEF TodoInv, n
  <2> QED
    BY <2>2, <2>3, <2>4
<1>4. CASE todo[1].does # "put"
  <2>1. Len(todo) = 1 /\ UNCHANGED outbound
    BY <1>2, <1>4 DEF Continue, TodoInv
  <2>2. Puts = <<>> /\ Puts' = <<>>
    BY <1>3, <1>4, <2>1 DEF Puts
  <2> QED
    BY <1>1, <1>3, <2>1, <2>2 DEF Way
<1>5. CASE todo[1].does = "put"
  <2>1. outbound' = Append(outbound, todo[1].what)
    BY <1>2, <1>5 DEF Continue
  <2>2. Puts \in Seq(Frames) /\ Puts # <<>> /\ Head(Puts) = todo[1].what
    BY <1>1, <1>5, PutsType
  <2>3. Puts' = Tail(Puts)
    <3>1. CASE Len(todo) = 1
      BY <1>1, <1>3, <1>5, <3>1 DEF Puts
    <3>2. CASE Len(todo) = 2
      BY <1>1, <1>2, <1>3, <1>5, <3>2 DEF Puts
    <3> QED
      BY <1>2, <3>1, <3>2
  <2> DEFINE a == buffer
             b == outbound
             c == Puts
  <2>4. /\ a \in Seq(Frames) /\ b \in Seq(Frames) /\ c \in Seq(Frames) /\ c # <<>>
        /\ Append(b, Head(c)) \in Seq(Frames) /\ Tail(c) \in Seq(Frames)
        /\ Way = (a \o b) \o c /\ Way' = (a \o Append(b, Head(c))) \o Tail(c)
    <3>1. c \in Seq(Frames) /\ c # <<>> /\ Head(c) = todo[1].what
      BY <2>2
    <3>2. Head(c) \in Frames /\ Tail(c) \in Seq(Frames)
      BY <3>1, HeadTailProperties
    <3>3. b \in Seq(Frames) /\ Append(b, Head(c)) \in Seq(Frames)
      <4> DEFINE f == Head(c)
      <4> HIDE DEF c, f
      <4> QED
        BY <1>1, <3>2, AppendProperties DEF f
    <3>4. Way' = (buffer' \o outbound') \o Puts'
      BY DEF Way
    <3>5. Way' = (a \o Append(b, Head(c))) \o Tail(c)
      BY <1>1, <2>1, <2>3, <3>1, <3>4
    <3> QED
      BY <1>1, <3>1, <3>2, <3>3, <3>5 DEF Way
  <2> HIDE DEF a, b, c
  <2>7. (a \o Append(b, Head(c))) \o Tail(c) = a \o (Append(b, Head(c)) \o Tail(c))
    <3> DEFINE bf == Append(b, Head(c))
               t == Tail(c)
    <3>1. bf \in Seq(Frames) /\ t \in Seq(Frames) /\ a \in Seq(Frames)
      BY <2>4
    <3> HIDE DEF bf, t
    <3>2. (a \o bf) \o t = a \o (bf \o t)
      BY ONLY <3>1, ConcatAssociative
    <3> QED
      BY <3>2 DEF bf, t
  <2>5. (a \o Append(b, Head(c))) \o Tail(c) = a \o (b \o c)
    BY <2>4, <2>7, HandedOn
  <2>6. (a \o b) \o c = a \o (b \o c)
    BY <2>4, ConcatAssociative
  <2> QED
    BY <1>3, <2>4, <2>5, <2>6
<1> QED
  BY <1>4, <1>5

\* The sender hands a frame to Twilio: only a clear takes something off the way.
LEMMA SendWay ==
  ASSUME TypeOK, TypeOK', TodoInv, SendTwilio, ~HungUp
  PROVE  \/ Head(outbound) # Clear /\ Way' = Way
            /\ buffer' = Append(buffer, Head(outbound)) /\ UNCHANGED inbox
         \/ /\ DropBuffer /\ Head(outbound) = Clear
            /\ Gone(Way, Way', Len(buffer) + 1)
            /\ Len(buffer) + 1 \in DOMAIN Way /\ Way[Len(buffer) + 1] = Clear
<1>1. /\ outbound \in Seq(Frames) /\ buffer \in Seq(Frames) /\ outbound # <<>>
      /\ outbound' = Tail(outbound) /\ UNCHANGED todo
  BY DEF SendTwilio, TypeOK
<1> DEFINE a == buffer
           b == outbound
           c == Puts
<1>2. /\ a \in Seq(Frames) /\ b \in Seq(Frames) /\ c \in Seq(Frames) /\ b # <<>>
      /\ Way = (a \o b) \o c /\ Puts' = c
  BY <1>1, PutsType DEF Way, Puts
<1>3. /\ Tail(b) \in Seq(Frames) /\ Len(b) \in Nat \ {0} /\ Len(Tail(b)) = Len(b) - 1
      /\ \A k \in 1..Len(b) - 1 : Tail(b)[k] = b[k + 1]
  BY <1>2, HeadTailProperties, EmptySeq
<1>4. CASE Head(b) # Clear
  <2>1. buffer' = Append(a, Head(b)) /\ UNCHANGED inbox
    BY <1>4 DEF SendTwilio
  <2>2. Way' = (Append(a, Head(b)) \o Tail(b)) \o c
    BY <1>1, <1>2, <2>1 DEF Way
  <2> HIDE DEF a, b, c
  <2>3. Way' = Way
    BY <1>2, <2>2, HandedOn
  <2> QED
    BY <1>4, <2>1, <2>3 DEF a, b
<1>5. CASE Head(b) = Clear
  <2>1. DropBuffer
    BY <1>5 DEF SendTwilio
  <2> DEFINE t == Tail(b)
             x == Len(a)
             y == Len(b)
             z == Len(c)
  <2>2. Way' = t \o c
    <3>1. Way' = (buffer' \o outbound') \o Puts' /\ buffer' = <<>>
      BY <2>1 DEF Way, DropBuffer
    <3>2. <<>> \o t = t
      BY <1>3, ConcatEmptySeq
    <3> QED
      BY <1>1, <1>2, <3>1, <3>2
  <2>3. b[1] = Clear
    BY <1>1, <1>5
  <2> HIDE DEF a, b, c
  <2>4. /\ Len(Way) = x + y + z /\ x \in Nat /\ y \in Nat \ {0} /\ z \in Nat
        /\ \A k \in 1..y : Way[k + x] = b[k]
        /\ \A k \in 1..z : Way[k + x + y] = c[k]
        /\ DOMAIN Way = 1..Len(Way)
    <3>1. x \in Nat /\ y \in Nat \ {0} /\ z \in Nat
      BY <1>2, <1>3
    <3> QED
      BY SMTT(30), <1>2, <3>1, WayParts
  <2>5. /\ t \in Seq(Frames) /\ Len(t) = y - 1
        /\ \A k \in 1..y - 1 : t[k] = b[k + 1]
    BY <1>3
  <2> HIDE DEF t, x, y, z
  <2>6. /\ Len(Way') = (y - 1) + z /\ DOMAIN Way' = 1..(y - 1) + z
        /\ \A k \in 1..(y - 1) + z : Way'[k] = IF k <= y - 1 THEN t[k] ELSE c[k - (y - 1)]
    <3>1. t \o c \in Seq(Frames) /\ Len(t \o c) = Len(t) + Len(c)
          /\ \A k \in 1..Len(t) + Len(c) : (t \o c)[k] = IF k <= Len(t) THEN t[k] ELSE c[k - Len(t)]
      BY ONLY <1>2, <2>5, ConcatProperties
    <3>2. DOMAIN (t \o c) = 1..Len(t \o c)
      BY <3>1, LenProperties
    <3> QED
      BY <2>2, <2>5, <3>1, <3>2 DEF z
  <2>7. ASSUME NEW k \in 1..(y - 1) + z
        PROVE  Way'[k] = Way[k + (x + 1)]
    <3>1. CASE k <= y - 1
      <4>1. k \in 1..y - 1 /\ k + 1 \in 1..y /\ (k + 1) + x = k + (x + 1)
        BY <2>4, <3>1
      <4> QED
        BY <2>4, <2>5, <2>6, <3>1, <4>1
    <3>2. CASE ~(k <= y - 1)
      <4>1. k - (y - 1) \in 1..z /\ (k - (y - 1)) + x + y = k + (x + 1)
        BY <2>4, <3>2
      <4> QED
        BY <2>4, <2>6, <3>2, <4>1
    <3> QED
      BY <3>1, <3>2
  <2>8. x + 1 \in DOMAIN Way /\ Way[x + 1] = Clear
    <3>1. 1 \in 1..y /\ 1 + x = x + 1 /\ x + 1 \in 1..x + y + z
      BY <2>4
    <3> QED
      BY <2>3, <2>4, <3>1
  <2>9. Len(Way) = ((y - 1) + z) + (x + 1)
    BY <2>4
  <2>10. Gone(Way, Way', x + 1)
    BY <2>6, <2>7, <2>9 DEF Gone
  <2> QED
    BY <1>5, <2>1, <2>8, <2>10 DEF x, a, b
<1> QED
  BY <1>4, <1>5

\* Twilio plays the first frame on the way.
LEMMA PlaysWay ==
  ASSUME TypeOK, TypeOK', TodoInv, TwilioPlays
  PROVE  Gone(Way, Way', 1) /\ Way # <<>> /\ Way[1] = Head(buffer) /\ Len(Way) \in Nat \ {0}
<1>1. /\ buffer \in Seq(Frames) /\ outbound \in Seq(Frames) /\ buffer # <<>>
      /\ buffer' = Tail(buffer) /\ UNCHANGED <<outbound, todo>>
  BY DEF TwilioPlays, TypeOK
<1> DEFINE a == buffer
           d == outbound \o Puts
<1>2. /\ a \in Seq(Frames) /\ a # <<>> /\ d \in Seq(Frames) /\ Tail(a) \in Seq(Frames)
      /\ Way = a \o d /\ Way' = Tail(a) \o d
  <2>1. Puts \in Seq(Frames) /\ Puts' = Puts
    BY <1>1, PutsType DEF Puts
  <2>2. Tail(a) \in Seq(Frames)
    BY <1>1, HeadTailProperties
  <2>3. Way' = (Tail(a) \o outbound) \o Puts
    BY <1>1, <2>1 DEF Way
  <2>4. d \in Seq(Frames)
    BY <1>1, <2>1
  <2> HIDE DEF a
  <2>5. a \in Seq(Frames) /\ a # <<>> /\ Way = (a \o outbound) \o Puts
    BY <1>1 DEF a, Way
  <2>6. Way = a \o d
    BY SMTT(30), <1>1, <2>1, <2>5, ConcatAssociative
  <2>7. Way' = Tail(a) \o d
    BY <1>1, <2>1, <2>2, <2>3, ConcatAssociative
  <2> QED
    BY <2>2, <2>4, <2>5, <2>6, <2>7
<1>3. Head(buffer) = a[1]
  BY <1>1
<1> DEFINE t == Tail(a)
           x == Len(a)
           z == Len(d)
<1> HIDE DEF a, d
<1>4. /\ x \in Nat \ {0} /\ z \in Nat /\ Len(t) = x - 1 /\ t \in Seq(Frames)
      /\ \A k \in 1..x - 1 : t[k] = a[k + 1]
  BY <1>2, HeadTailProperties, EmptySeq
<1>5. /\ Way \in Seq(Frames) /\ Len(Way) = x + z
      /\ \A k \in 1..x + z : Way[k] = IF k <= x THEN a[k] ELSE d[k - x]
  <2>1. /\ a \o d \in Seq(Frames) /\ Len(a \o d) = Len(a) + Len(d)
        /\ \A k \in 1..Len(a) + Len(d) : (a \o d)[k] = IF k <= Len(a) THEN a[k] ELSE d[k - Len(a)]
    BY ONLY <1>2, ConcatProperties
  <2> QED
    BY <1>2, <2>1
<1> HIDE DEF t
<1>6. /\ Way' \in Seq(Frames) /\ Len(Way') = (x - 1) + z
      /\ \A k \in 1..(x - 1) + z : Way'[k] = IF k <= x - 1 THEN t[k] ELSE d[k - (x - 1)]
  <2>1. /\ t \o d \in Seq(Frames) /\ Len(t \o d) = Len(t) + Len(d)
        /\ \A k \in 1..Len(t) + Len(d) : (t \o d)[k] = IF k <= Len(t) THEN t[k] ELSE d[k - Len(t)]
    BY ONLY <1>2, <1>4, ConcatProperties
  <2>2. Way' = t \o d
    BY <1>2 DEF t
  <2> QED
    BY <1>4, <2>1, <2>2
<1> HIDE DEF x, z
<1>7. ASSUME NEW k \in 1..(x - 1) + z PROVE Way'[k] = Way[k + 1]
  <2>1. k + 1 \in 1..x + z /\ (k <= x - 1 <=> k + 1 <= x) /\ k - (x - 1) = (k + 1) - x
    BY <1>4
  <2>2. k <= x - 1 => k \in 1..x - 1
    BY <1>4
  <2> QED
    BY <1>4, <1>5, <1>6, <2>1, <2>2
<1>8. Gone(Way, Way', 1)
  <2>1. DOMAIN Way' = 1..(x - 1) + z
    BY <1>6, LenProperties
  <2>2. x + z = ((x - 1) + z) + 1
    BY <1>4
  <2> QED
    BY <1>5, <1>6, <1>7, <2>1, <2>2 DEF Gone
<1>9. Way[1] = a[1] /\ Len(Way) \in Nat \ {0}
  <2>1. 1 \in 1..x + z /\ 1 <= x /\ x + z \in Nat \ {0}
    BY <1>4
  <2> QED
    BY <1>5, <2>1
<1> QED
  BY <1>3, <1>5, <1>8, <1>9, EmptySeq

\* The first frame is older than the playback, or as many of its frames follow it as
\* its place among them says.
LEMMA FirstPlace ==
  ASSUME NEW w \in Seq(Frames), w # <<>>, NEW p \in Playbacks, Recent(w, p),
         Len(w) <= 2 * p.total
  PROVE  \E j \in 0..MaxAudio :
            /\ j < p.total
            /\ \/ Len(w) = 2 * j + 1 /\ w[1].kind = "mark" /\ w[1].of + j = p.counter
               \/ Len(w) = 2 * j + 2 /\ w[1].kind = "media" /\ w[1].of = p.item
<1> DEFINE n == Len(w)
           t == p.total
<1>1. n \in Nat \ {0} /\ t \in 0..MaxAudio /\ n <= 2 * t /\ DOMAIN w = 1..n
  BY EmptySeq DEF Playbacks
<1> HIDE DEF n, t
<1>2. PICK j \in Nat : n - 1 = 2 * j \/ n - 1 = 2 * j + 1
  <2>1. n - 1 \in Nat
    BY <1>1
  <2> QED
    BY <2>1, Half
<1>3. /\ j \in 0..MaxAudio /\ j < t /\ 1 \in 1..n
      /\ \/ n = 2 * j + 1 /\ 1 + 2 * j = n
         \/ n = 2 * j + 2 /\ 1 + 2 * j + 1 = n
  BY <1>1, <1>2, TwilioMediaAssumption
<1>4. /\ 1 + 2 * j = n => w[1].kind = "mark" /\ w[1].of + j = p.counter
      /\ 1 + 2 * j + 1 = n => w[1].kind = "media" /\ w[1].of = p.item
  BY <1>1, <1>3 DEF Recent, n, t
<1> QED
  BY <1>3, <1>4 DEF n, t

\* A clear is not among the frames of the playback.
LEMMA ClearIsOld ==
  ASSUME NEW w \in Seq(Frames), NEW p \in Playbacks, Recent(w, p),
         NEW k \in DOMAIN w, w[k].kind = "clear"
  PROVE  k + 2 * p.total <= Len(w)
<1> DEFINE n == Len(w)
           t == p.total
<1>1. n \in Nat /\ t \in 0..MaxAudio /\ k \in 1..n
  BY DEF Playbacks
<1> HIDE DEF n, t
<1>2. PICK j \in Nat : n - k = 2 * j \/ n - k = 2 * j + 1
  <2>1. n - k \in Nat
    BY <1>1
  <2> QED
    BY <2>1, Half
<1>3. SUFFICES ASSUME k + 2 * t > n PROVE FALSE
  BY <1>1 DEF n, t
<1>4. j \in 0..MaxAudio /\ j < t /\ (k + 2 * j = n \/ k + 2 * j + 1 = n)
  <2>1. k \in Nat /\ k <= n
    BY <1>1
  <2>2. k + 2 * j = n \/ k + 2 * j + 1 = n
    BY ONLY <1>1, <1>2, <2>1, j \in Nat
  <2>3. j < t
    BY <1>1, <1>3, <2>1, <2>2
  <2>4. MaxAudio \in Nat /\ t \in Nat /\ t <= MaxAudio
    BY <1>1, TwilioMediaAssumption
  <2> QED
    BY <2>2, <2>3, <2>4
<1>5. w[k].kind \in {"mark", "media"}
  BY <1>4 DEF Recent, n, t
<1> QED
  BY <1>5

LEMMA PlaysPlayed ==
  ASSUME TypeInv, TypeInv', PlayedInv, TwilioPlays
  PROVE  PlayedInv'
<1> DEFINE p == playback
           w == Way
           v == Way'
           f == Head(buffer)
<1>1. /\ p \in Playbacks /\ w \in Seq(Frames) /\ v \in Seq(Frames)
      /\ heard \in [Items -> Nat] /\ buffer \in Seq(Frames) /\ buffer # <<>>
      /\ buffer' = Tail(buffer) /\ inbox \in Seq(Frames \cup {Stop})
      /\ UNCHANGED <<playback, todo, speaking, interrupted, stopped>>
      /\ TodoInv'
  BY PutsType DEF TypeInv, TypeOK, TwilioPlays, PlayedInv, text, model, TodoInv, Way, Puts
<1>2. Gone(w, v, 1) /\ w # <<>> /\ w[1] = f /\ Len(w) \in Nat \ {0} /\ Len(w) = Len(v) + 1
      /\ Len(v) \in Nat
  BY <1>1, PlaysWay DEF TypeInv, PlayedInv, Gone
<1>3. WayInv /\ ~HungUp
  BY DEF PlayedInv, TwilioPlays
<1>4. /\ f \in Frames /\ f.kind # "clear"
      /\ \A k \in DOMAIN buffer' : k + 1 \in DOMAIN buffer /\ buffer'[k] = buffer[k + 1]
  BY <1>1, <1>3 DEF WayInv
<1>5. \A k \in DOMAIN buffer' : buffer'[k].kind # "clear"
  BY <1>3, <1>4 DEF WayInv
<1>6. OnWay(w, p, speaking, interrupted)
  BY <1>3 DEF WayInv
<1> HIDE DEF w, v, f, p
<1>7. OnWay(v, p, speaking, interrupted)
  BY <1>1, <1>2, <1>6, GoneKeeps
<1>8. /\ p.total \in Nat /\ p.item \in Items \cup {None} /\ p.counter \in Nat
      /\ \A m \in p.marks : m.at \in Nat /\ m.name \in Nat
      /\ p.item = None <=> p.total = 0
      /\ \A m \in p.marks : m.at <= p.total /\ m.name + p.total = m.at + p.counter
  <2>1. p.marks \subseteq [name : Marks, at : Marks] /\ p.total \in Nat /\ p.counter \in Nat
        /\ p.item \in Items \cup {None}
    BY <1>1 DEF Playbacks
  <2>2. p.item = None <=> p.total = 0
    BY DEF TypeInv, PlaybackInv, p
  <2>3. \A m \in p.marks : m.at <= p.total /\ m.name + p.total = m.at + p.counter
    BY DEF TypeInv, PlaybackInv, p
  <2> QED
    BY <2>1, <2>2, <2>3 DEF Marks
<1>9. \A m \in p.marks : p.item \in Items
  <2>1. \A m \in p.marks : m.at \in Marks
    BY <1>1 DEF Playbacks
  <2> QED
    BY <1>8, <2>1 DEF Marks
<1>10. Reaches(w, p, heard) /\ Behind(w, p, inbox)
  BY <1>3 DEF WayInv, w, p
<1>11. CASE f.kind = "mark"
  <2>1. inbox' = Append(inbox, f) /\ UNCHANGED heard
    BY <1>11 DEF TwilioPlays, f
  <2> DEFINE T == Frames \cup {Stop}
  <2>2. /\ inbox \in Seq(T) /\ f \in T /\ f # Stop
        /\ \A k \in DOMAIN inbox' :
              (k \in DOMAIN inbox /\ inbox'[k] = inbox[k]) \/ inbox'[k] = f
    <3>1. f \in T /\ f # Stop
      BY <1>4, FrameKinds
    <3> HIDE DEF T
    <3>2. inbox \in Seq(T)
      BY <1>1 DEF T
    <3> QED
      BY <2>1, <3>1, <3>2
  <2>3. f.of \in Nat /\ f.of <= p.counter
    <3>1. f.of \in Nat
      BY <1>4, <1>11, FrameKinds DEF Marks
    <3>2. 1 \in DOMAIN w
      BY <1>1, <1>2
    <3> QED
      BY <1>2, <1>6, <1>11, <3>1, <3>2 DEF OnWay, Older
  \* Where a known mark stands says how much of its item was played.
  <2>4. ASSUME NEW m \in p.marks, f.of = m.name
        PROVE  Len(v) + 2 * m.at <= 2 * p.total /\ m.at <= heard[p.item]
    <3>1. /\ p.item \in Items /\ heard[p.item] \in Nat /\ p.item # None
          /\ 2 * heard[p.item] + Len(w) >= 2 * p.total
      BY <1>1, <1>9, <1>10, <2>4, TwilioMediaAssumption DEF Reaches
    <3>2. m.at \in Nat /\ m.name \in Nat /\ m.at <= p.total /\ m.name + p.total = m.at + p.counter
          /\ m.at > 0
      BY <1>1, <1>8 DEF Playbacks, Marks
    <3>3. Len(w) <= 2 * p.total
      <4>1. 1 \in DOMAIN w
        BY <1>1, <1>2
      <4>2. 1 + 2 * p.total <= Len(w) => f.of + p.total <= p.counter
        BY <1>2, <1>6, <1>11, <4>1 DEF OnWay, Older
      <4> QED
        BY <1>2, <1>8, <2>3, <2>4, <3>2, <4>2
    <3>4. PICK j \in 0..MaxAudio :
             /\ j < p.total
             /\ \/ Len(w) = 2 * j + 1 /\ w[1].kind = "mark" /\ w[1].of + j = p.counter
                \/ Len(w) = 2 * j + 2 /\ w[1].kind = "media" /\ w[1].of = p.item
      BY <1>1, <1>2, <1>6, <3>3, FirstPlace DEF OnWay
    <3>5. j \in Nat /\ Len(w) = 2 * j + 1 /\ f.of + j = p.counter
      BY <1>2, <1>11, <3>4, TwilioMediaAssumption
    <3> DEFINE at == m.at
               h == heard[p.item]
               x == Len(w)
               y == Len(v)
               total == p.total
               counter == p.counter
               n == f.of
    <3>6. /\ at \in Nat /\ h \in Nat /\ total \in Nat /\ counter \in Nat /\ n \in Nat /\ j \in Nat
          /\ n + total = at + counter /\ n + j = counter /\ x = 2 * j + 1 /\ x = y + 1
          /\ 2 * h + x >= 2 * total /\ y \in Nat
      BY <1>2, <1>8, <2>3, <2>4, <3>1, <3>2, <3>5
    <3> HIDE DEF at, h, x, y, total, counter, n
    <3>7. total = at + j
      BY <3>6
    <3>8. y + 2 * at <= 2 * total /\ at <= h
      BY <3>6, <3>7
    <3> QED
      BY <3>8 DEF at, h, y, total
  <2>5. Reaches(v, p, heard)
    <3>1. ASSUME p.item # None PROVE 2 * heard[p.item] + Len(v) >= 2 * p.total
      <4>1. heard[p.item] \in Nat /\ 2 * heard[p.item] + Len(w) >= 2 * p.total
        BY <1>1, <1>8, <1>10, <3>1 DEF Reaches
      <4>2. CASE Len(w) <= 2 * p.total
        <5>1. PICK j \in 0..MaxAudio :
                /\ j < p.total
                /\ \/ Len(w) = 2 * j + 1 /\ w[1].kind = "mark" /\ w[1].of + j = p.counter
                   \/ Len(w) = 2 * j + 2 /\ w[1].kind = "media" /\ w[1].of = p.item
          BY <1>1, <1>2, <1>6, <4>2, FirstPlace DEF OnWay
        <5>2. j \in Nat /\ Len(w) = 2 * j + 1
          BY <1>2, <1>11, <5>1, TwilioMediaAssumption
        <5> DEFINE h == heard[p.item]
                   x == Len(w)
                   y == Len(v)
                   total == p.total
        <5>3. /\ h \in Nat /\ y \in Nat /\ total \in Nat /\ x = 2 * j + 1 /\ x = y + 1
              /\ 2 * h + x >= 2 * total
          BY <1>2, <1>8, <4>1, <5>2
        <5> HIDE DEF h, x, y, total
        <5>4. 2 * h + y >= 2 * total
          BY <5>2, <5>3
        <5> QED
          BY <5>4 DEF h, y, total
      <4>3. CASE ~(Len(w) <= 2 * p.total)
        BY <1>2, <1>8, <4>1, <4>3
      <4> QED
        BY <4>2, <4>3
    <3> QED
      BY <3>1 DEF Reaches
  <2>6. Behind(v, p, inbox')
    <3>1. ASSUME NEW k \in DOMAIN inbox', NEW m \in p.marks,
                 inbox'[k].kind = "mark", inbox'[k].of = m.name
          PROVE  Len(v) + 2 * m.at <= 2 * p.total
      <4>1. CASE k \in DOMAIN inbox /\ inbox'[k] = inbox[k]
        <5>1. Len(w) + 2 * m.at <= 2 * p.total
          BY <1>10, <3>1, <4>1 DEF Behind
        <5> QED
          BY <1>2, <1>8, <5>1
      <4>2. CASE inbox'[k] = f
        BY <2>4, <3>1, <4>2
      <4> QED
        BY <2>2, <4>1, <4>2
    <3> QED
      BY <3>1 DEF Behind
  <2>7. InboxInv'
    <3>1. InboxInv
      BY DEF PlayedInv
    <3>2. ASSUME NEW k \in DOMAIN inbox'
          PROVE  \/ inbox'[k] = Stop
                 \/ inbox'[k].kind = "mark" /\ inbox'[k].of <= playback'.counter
      <4>1. CASE k \in DOMAIN inbox /\ inbox'[k] = inbox[k]
        <5>1. \/ inbox[k] = Stop
              \/ inbox[k].kind = "mark" /\ inbox[k].of <= playback.counter
          BY <3>1, <4>1 DEF InboxInv
        <5>2. playback' = playback
          BY <1>1
        <5> QED
          BY <4>1, <5>1, <5>2
      <4>2. CASE inbox'[k] = f
        BY <1>1, <1>11, <2>3, <4>2 DEF p
      <4> QED
        BY <2>2, <4>1, <4>2
    <3>3. ASSUME NEW k \in DOMAIN inbox', NEW m \in playback'.marks,
                 inbox'[k].kind = "mark", inbox'[k].of = m.name
          PROVE  m.at <= heard'[playback'.item]
      BY <1>1, <2>1, <2>2, <2>4, <3>1, <3>3 DEF InboxInv, p
    <3> QED
      BY <1>1, <2>1, <3>1, <3>2, <3>3 DEF InboxInv
  <2>8. TruncateWithinHeard'
    BY <1>1, <2>1 DEF PlayedInv, TruncateWithinHeard
  <2>9. WayInv'
    BY <1>1, <1>5, <1>7, <2>1, <2>5, <2>6 DEF WayInv, v, p
  <2> QED
    BY <1>1, <2>7, <2>8, <2>9 DEF PlayedInv
<1>12. CASE f.kind # "mark"
  <2>1. f.kind = "media" /\ f.of \in Items
    BY <1>4, <1>12, FrameKinds
  <2>2. heard' = [heard EXCEPT ![f.of] = @ + 1] /\ UNCHANGED inbox
    BY <1>12 DEF TwilioPlays, f
  <2>3. \A i \in Items : heard'[i] \in Nat /\ heard[i] \in Nat /\ heard[i] <= heard'[i]
    BY <1>1, <2>1, <2>2
  <2>4. Reaches(v, p, heard')
    <3>1. ASSUME p.item # None PROVE 2 * heard'[p.item] + Len(v) >= 2 * p.total
      <4>1. /\ heard[p.item] \in Nat /\ heard'[p.item] \in Nat /\ heard[p.item] <= heard'[p.item]
            /\ 2 * heard[p.item] + Len(w) >= 2 * p.total
        BY <1>8, <1>10, <2>3, <3>1 DEF Reaches
      <4>2. CASE Len(w) <= 2 * p.total
        <5>1. f.of = p.item
          BY <1>1, <1>2, <1>6, <1>12, <4>2, FirstPlace DEF OnWay
        <5>2. heard'[p.item] = heard[p.item] + 1
          BY <1>1, <2>1, <2>2, <5>1
        <5> QED
          BY <1>2, <1>8, <4>1, <5>2
      <4>3. CASE ~(Len(w) <= 2 * p.total)
        BY <1>2, <1>8, <4>1, <4>3
      <4> QED
        BY <4>2, <4>3
    <3> QED
      BY <3>1 DEF Reaches
  <2>5. Behind(v, p, inbox')
    <3>1. ASSUME NEW k \in DOMAIN inbox, NEW m \in p.marks,
                 inbox[k].kind = "mark", inbox[k].of = m.name
          PROVE  Len(v) + 2 * m.at <= 2 * p.total
      <4>1. Len(w) + 2 * m.at <= 2 * p.total
        BY <1>10, <3>1 DEF Behind
      <4> QED
        BY <1>2, <1>8, <4>1
    <3> QED
      BY <2>2, <3>1 DEF Behind
  <2>6. InboxInv'
    <3>1. InboxInv
      BY DEF PlayedInv
    <3>2. ASSUME NEW k \in DOMAIN inbox, NEW m \in p.marks,
                 inbox[k].kind = "mark", inbox[k].of = m.name
          PROVE  m.at <= heard'[p.item]
      <4>1. m.at <= heard[p.item] /\ p.item \in Items /\ m.at \in Nat
        BY <1>8, <1>9, <3>1, <3>2 DEF InboxInv, p
      <4> QED
        BY <2>3, <4>1
    <3>3. p.item # None => p.acknowledged <= heard'[p.item]
      <4>1. p.item # None => p.acknowledged <= heard[p.item]
        BY <3>1 DEF InboxInv, p
      <4>2. p.acknowledged \in Nat
        BY <1>1 DEF Playbacks
      <4> QED
        BY <1>8, <2>3, <4>1, <4>2
    <3> QED
      BY <1>1, <2>2, <3>1, <3>2, <3>3 DEF InboxInv, p
  <2>7. TruncateWithinHeard'
    <3>1. ASSUME NEW k \in DOMAIN todo, todo[k].does = "truncate"
          PROVE  todo[k].what.end <= heard'[todo[k].what.item]
      <4>1. todo[k].what.item \in Items /\ todo[k].what.end \in Nat
        <5>1. todo[k] \in Steps
          BY DEF TypeInv, TypeOK
        <5> QED
          BY <3>1, <5>1 DEF Steps
      <4>2. todo[k].what.end <= heard[todo[k].what.item]
        BY <3>1 DEF PlayedInv, TruncateWithinHeard
      <4> QED
        BY <2>3, <4>1, <4>2
    <3> QED
      BY <1>1, <3>1 DEF TruncateWithinHeard
  <2>8. WayInv'
    BY <1>1, <1>5, <1>7, <2>4, <2>5 DEF WayInv, v, p
  <2> QED
    BY <1>1, <2>6, <2>7, <2>8 DEF PlayedInv
<1> QED
  BY <1>11, <1>12

LEMMA PlayedFrame ==
  ASSUME PlayedInv,
         UNCHANGED <<playback, todo, outbound, buffer, heard, inbox, stopped, speaking, interrupted>>
  PROVE  PlayedInv'
<1>1. UNCHANGED Way
  BY DEF Way, Puts
<1>2. TodoInv' /\ InboxInv' /\ TruncateWithinHeard' /\ (HungUp' <=> HungUp)
  BY DEF PlayedInv, TodoInv, InboxInv, TruncateWithinHeard, HungUp
<1>3. WayInv => WayInv'
  BY <1>1 DEF WayInv
<1> QED
  BY <1>2, <1>3 DEF PlayedInv

LEMMA ToolPlayed ==
  ASSUME TypeInv, PlayedInv, FunctionCall
  PROVE  PlayedInv'
<1> DEFINE s == Execute(utterance)
<1>1. /\ todo = <<>> /\ todo' = <<s>> /\ s.does = "tool"
      /\ UNCHANGED <<playback, outbound, buffer, heard, inbox, stopped, speaking, interrupted>>
  BY DEF FunctionCall, Receives, Execute, text, model, twilio
<1> HIDE DEF s
<1>2. Puts = <<>> /\ Puts' = <<>>
  BY <1>1 DEF Puts
<1>3. UNCHANGED Way
  BY <1>1, <1>2 DEF Way
<1>4. TodoInv' /\ InboxInv' /\ TruncateWithinHeard' /\ (HungUp' <=> HungUp)
  BY <1>1 DEF PlayedInv, TodoInv, InboxInv, TruncateWithinHeard, HungUp
<1>5. WayInv => WayInv'
  BY <1>1, <1>3 DEF WayInv
<1> QED
  BY <1>4, <1>5 DEF PlayedInv

LEMMA ContinuePlayed ==
  ASSUME TypeInv, PlayedInv, Continue
  PROVE  PlayedInv'
<1>1. TodoInv' /\ Way' = Way
  BY ContinueWay DEF TypeInv, PlayedInv
<1>2. /\ todo \in Seq(Steps) /\ todo # <<>> /\ todo' = Tail(todo)
      /\ UNCHANGED <<playback, buffer, heard, inbox, stopped, speaking, interrupted>>
  BY DEF Continue, TypeInv, TypeOK, text, model, twilio
<1>3. \A k \in DOMAIN todo' : k + 1 \in DOMAIN todo /\ todo'[k] = todo[k + 1]
  BY <1>2
<1>4. TruncateWithinHeard'
  BY <1>2, <1>3 DEF PlayedInv, TruncateWithinHeard
<1>5. InboxInv' /\ (HungUp' <=> HungUp)
  BY <1>2 DEF PlayedInv, InboxInv, HungUp
<1>6. WayInv => WayInv'
  BY <1>1, <1>2 DEF WayInv
<1> QED
  BY <1>1, <1>4, <1>5, <1>6 DEF PlayedInv

LEMMA StopsPlayed ==
  ASSUME TypeInv, PlayedInv, TwilioStops
  PROVE  PlayedInv'
<1> DEFINE T == Frames \cup {Stop}
<1>1. /\ inbox \in Seq(T) /\ Stop \in T /\ inbox' = Append(inbox, Stop)
      /\ UNCHANGED <<playback, todo, heard, stopped>>
  BY DEF TwilioStops, TypeInv, TypeOK, twilio
<1> HIDE DEF T
<1>2. /\ \A k \in DOMAIN inbox' : (k \in DOMAIN inbox /\ inbox'[k] = inbox[k]) \/ inbox'[k] = Stop
      /\ \E k \in DOMAIN inbox' : inbox'[k] = Stop
  <2> DEFINE n == Len(inbox) + 1
  <2>1. /\ Len(inbox) \in Nat /\ DOMAIN inbox = 1..Len(inbox) /\ DOMAIN inbox' = 1..n
        /\ \A k \in 1..Len(inbox) : inbox'[k] = inbox[k]
        /\ inbox'[n] = Stop
    BY <1>1, AppendProperties, LenProperties
  <2>2. n \in 1..n /\ \A k \in 1..n : k \in 1..Len(inbox) \/ k = n
    BY <2>1
  <2> QED
    BY <2>1, <2>2
<1>3. HungUp'
  BY <1>2 DEF HungUp
<1>4. Stop.kind # "mark"
  BY DEF Stop
<1>5. InboxInv'
  <2>1. InboxInv
    BY DEF PlayedInv
  <2>2. \A k \in DOMAIN inbox' :
           \/ inbox'[k] = Stop
           \/ inbox'[k].kind = "mark" /\ inbox'[k].of <= playback'.counter
    <3>1. ASSUME NEW k \in DOMAIN inbox', k \in DOMAIN inbox, inbox'[k] = inbox[k]
          PROVE  \/ inbox'[k] = Stop
                 \/ inbox'[k].kind = "mark" /\ inbox'[k].of <= playback'.counter
      BY <1>1, <2>1, <3>1 DEF InboxInv
    <3> QED
      BY <1>2, <3>1
  <2>3. \A k \in DOMAIN inbox' : \A m \in playback'.marks :
           inbox'[k].kind = "mark" /\ inbox'[k].of = m.name => m.at <= heard'[playback'.item]
    BY <1>1, <1>2, <1>4, <2>1 DEF InboxInv
  <2> QED
    BY <1>1, <2>1, <2>2, <2>3 DEF InboxInv
<1>6. TodoInv' /\ TruncateWithinHeard'
  BY <1>1 DEF PlayedInv, TodoInv, TruncateWithinHeard
<1> QED
  BY <1>3, <1>5, <1>6 DEF PlayedInv

\* What a mark acknowledges was played, and is not on its way.
LEMMA ReceivePlayed ==
  ASSUME TypeInv, TypeInv', PlayedInv, ReceiveTwilio
  PROVE  PlayedInv'
<1> DEFINE T == Frames \cup {Stop}
           p == playback
           q == playback'
           f == Head(inbox)
<1>1. /\ inbox \in Seq(T) /\ inbox # <<>> /\ inbox' = Tail(inbox)
      /\ UNCHANGED <<todo, outbound, buffer, heard, speaking, interrupted>>
  BY DEF ReceiveTwilio, TypeInv, TypeOK, text, model, twilio
<1> HIDE DEF T
<1>2. /\ \A k \in DOMAIN inbox' : k + 1 \in DOMAIN inbox /\ inbox'[k] = inbox[k + 1]
      /\ 1 \in DOMAIN inbox /\ f = inbox[1]
      /\ \A k \in DOMAIN inbox : k # 1 => \E l \in DOMAIN inbox' : inbox'[l] = inbox[k]
  <2>1. /\ Len(inbox) \in Nat \ {0} /\ DOMAIN inbox = 1..Len(inbox)
        /\ Len(inbox') = Len(inbox) - 1 /\ DOMAIN inbox' = 1..Len(inbox')
        /\ \A k \in 1..Len(inbox') : inbox'[k] = inbox[k + 1]
    BY <1>1, HeadTailProperties, LenProperties, EmptySeq
  <2>2. f = inbox[1] /\ 1 \in DOMAIN inbox
    BY <1>1, <2>1
  <2>3. \A k \in DOMAIN inbox' : k + 1 \in DOMAIN inbox
    BY <2>1
  <2>4. ASSUME NEW k \in DOMAIN inbox, k # 1
        PROVE  k - 1 \in DOMAIN inbox' /\ (k - 1) + 1 = k
    BY <2>1, <2>4
  <2>5. ASSUME NEW k \in DOMAIN inbox, k # 1
        PROVE  \E l \in DOMAIN inbox' : inbox'[l] = inbox[k]
    <3>1. inbox'[k - 1] = inbox[(k - 1) + 1]
      BY <2>1, <2>4, <2>5
    <3> QED
      BY <2>4, <2>5, <3>1
  <2> QED
    BY <2>1, <2>2, <2>3, <2>5
<1>3. TodoInv' /\ TruncateWithinHeard' /\ UNCHANGED Way
  BY <1>1 DEF PlayedInv, TodoInv, TruncateWithinHeard, Way, Puts
<1>4. InboxInv
  BY DEF PlayedInv
<1>5. CASE f = Stop
  <2>1. stopped' = TRUE /\ UNCHANGED playback
    BY <1>5 DEF ReceiveTwilio
  <2>2. HungUp'
    BY <2>1 DEF HungUp
  <2>3. InboxInv'
    BY <1>1, <1>2, <1>4, <2>1 DEF InboxInv
  <2> QED
    BY <1>3, <2>2, <2>3 DEF PlayedInv
<1>6. CASE f # Stop
  <2>1. q = Acknowledge(p, f.of) /\ UNCHANGED stopped
    BY <1>6 DEF ReceiveTwilio
  <2>2. f.kind = "mark"
    BY <1>2, <1>4, <1>6 DEF InboxInv
  <2> DEFINE known == {m \in p.marks : m.name = f.of}
  <2>3. /\ q.item = p.item /\ q.total = p.total /\ q.counter = p.counter
        /\ q.marks \subseteq p.marks /\ q \in Playbacks /\ p \in Playbacks
    BY <2>1, AcknowledgeType DEF TypeInv, TypeOK
  <2>4. q.acknowledged = p.acknowledged \/ \E m \in known : q.acknowledged = m.at
    <3>1. CASE \E m \in known : m.at > p.acknowledged
      <4> DEFINE later == CHOOSE m \in known : m.at > p.acknowledged
      <4>1. later \in known
        BY <3>1
      <4> HIDE DEF later
      <4>2. q = [p EXCEPT !.marks = @ \ known, !.acknowledged = later.at]
        BY <2>1, <3>1 DEF Acknowledge, later
      <4>3. q.acknowledged = later.at
        BY <2>3, <4>2 DEF Playbacks
      <4> QED
        BY <4>1, <4>3
    <3>2. CASE ~ \E m \in known : m.at > p.acknowledged
      BY <2>1, <2>3, <3>2 DEF Acknowledge, Playbacks
    <3> QED
      BY <3>1, <3>2
  <2> HIDE DEF q, f
  <2>5. \A m \in known : m.at <= heard[p.item]
    BY <1>2, <1>4, <2>2 DEF InboxInv
  <2>6. \A m \in known : p.item # None
    <3>1. \A m \in p.marks : m.at \in Marks /\ m.at <= p.total
      BY <2>3 DEF TypeInv, PlaybackInv, Playbacks
    <3>2. p.total = 0 <=> p.item = None
      BY DEF TypeInv, PlaybackInv
    <3>3. \A a \in Marks : ~(a <= 0)
      BY TwilioMediaAssumption DEF Marks
    <3> QED
      BY <3>1, <3>2, <3>3
  <2>7. InboxInv'
    <3>1. \A k \in DOMAIN inbox' :
             \/ inbox'[k] = Stop
             \/ inbox'[k].kind = "mark" /\ inbox'[k].of <= q.counter
      BY <1>2, <1>4, <2>3 DEF InboxInv
    <3>2. ASSUME NEW k \in DOMAIN inbox', NEW m \in q.marks,
                 inbox'[k].kind = "mark", inbox'[k].of = m.name
          PROVE  m.at <= heard'[q.item]
      BY <1>1, <1>2, <1>4, <2>3, <3>2 DEF InboxInv
    <3>3. q.item # None => q.acknowledged <= heard'[q.item]
      BY <1>1, <1>4, <2>3, <2>4, <2>5 DEF InboxInv
    <3> QED
      BY <3>1, <3>2, <3>3 DEF InboxInv, q
  <2>8. ASSUME ~HungUp' PROVE WayInv'
    <3>1. ~HungUp
      <4>1. \A k \in DOMAIN inbox' : inbox'[k] # Stop
        BY <2>8 DEF HungUp
      <4>2. \A k \in DOMAIN inbox : inbox[k] # Stop
        BY <1>2, <1>6, <4>1
      <4> QED
        BY <2>1, <2>8, <4>2 DEF HungUp
    <3>2. WayInv
      BY <3>1 DEF PlayedInv
    <3>3. OnWay(Way, p, speaking, interrupted) /\ Behind(Way, p, inbox) /\ Reaches(Way, p, heard)
      BY <3>2 DEF WayInv
    <3>4. \A m \in known : Len(Way) + 2 * m.at <= 2 * p.total
      BY <1>2, <2>2, <3>3 DEF Behind
    <3>5. Past(Way, q)
      BY <2>3, <2>4, <3>3, <3>4 DEF OnWay, Past
    <3>6. Behind(Way, q, inbox')
      <4>1. ASSUME NEW k \in DOMAIN inbox', NEW m \in q.marks,
                   inbox'[k].kind = "mark", inbox'[k].of = m.name
            PROVE  Len(Way) + 2 * m.at <= 2 * q.total
        BY <1>2, <2>3, <3>3, <4>1 DEF Behind
      <4> QED
        BY <4>1 DEF Behind
    <3>7. OnWay(Way, q, speaking, interrupted)
      BY <2>3, <3>3, <3>5 DEF OnWay, Recent, Older, Quiet
    <3>8. Reaches(Way, q, heard)
      BY <2>3, <3>3 DEF Reaches
    <3> QED
      BY <1>1, <1>3, <3>2, <3>6, <3>7, <3>8 DEF WayInv, q
  <2> QED
    BY <1>3, <2>7, <2>8 DEF PlayedInv
<1> QED
  BY <1>5, <1>6

\* A clear takes only what is older than the playback; its marks are not known.
LEMMA ClearPlayed ==
  ASSUME TypeInv, TypeInv', PlayedInv, ~HungUp, DropBuffer,
         Gone(Way, Way', Len(buffer) + 1),
         Len(buffer) + 1 \in DOMAIN Way, Way[Len(buffer) + 1] = Clear,
         UNCHANGED <<playback, todo, heard, stopped, speaking, interrupted>>
  PROVE  PlayedInv'
<1> DEFINE p == playback
           w == Way
           v == Way'
           d == Len(buffer) + 1
<1>1. /\ p \in Playbacks /\ w \in Seq(Frames) /\ v \in Seq(Frames) /\ TodoInv'
      /\ buffer \in Seq(Frames) /\ inbox \in Seq(Frames \cup {Stop}) /\ Len(buffer) \in Nat
      /\ d \in Nat /\ \A k \in DOMAIN buffer : k \in DOMAIN w /\ w[k] = buffer[k] /\ k < d
  <2>1. /\ p \in Playbacks /\ w \in Seq(Frames) /\ v \in Seq(Frames) /\ TodoInv'
        /\ buffer \in Seq(Frames) /\ inbox \in Seq(Frames \cup {Stop}) /\ Len(buffer) \in Nat
    <3>1. Puts \in Seq(Frames) /\ Puts' = Puts /\ w \in Seq(Frames)
      BY PutsType DEF TypeInv, PlayedInv, Puts
    <3>2. buffer' \in Seq(Frames) /\ outbound' \in Seq(Frames)
      BY DEF TypeInv, TypeOK
    <3>3. v \in Seq(Frames)
      BY <3>1, <3>2 DEF Way
    <3>4. /\ p \in Playbacks /\ TodoInv' /\ buffer \in Seq(Frames)
          /\ inbox \in Seq(Frames \cup {Stop})
      BY DEF TypeInv, TypeOK, PlayedInv, TodoInv
    <3> QED
      BY <3>1, <3>3, <3>4, LenProperties
  <2>2. \A k \in 1..Len(buffer) : w[k] = buffer[k]
    BY WayParts, PutsType DEF Way, TypeInv, TypeOK, PlayedInv
  <2>3. DOMAIN w = 1..Len(w) /\ Len(buffer) + 1 <= Len(w) /\ Len(w) \in Nat
    BY <2>1
  <2>4. \A k \in 1..Len(buffer) : k \in 1..Len(w) /\ k < d
    BY <2>1, <2>3
  <2> QED
    BY <2>1, <2>2, <2>3, <2>4
<1>2. WayInv
  BY DEF PlayedInv
<1>3. OnWay(w, p, speaking, interrupted) /\ Reaches(w, p, heard) /\ Behind(w, p, inbox)
  BY <1>2 DEF WayInv
<1>4. Gone(w, v, d) /\ d \in DOMAIN w /\ w[d].kind = "clear"
  BY DEF Clear
<1>5. p.total \in Nat /\ p.counter \in Nat /\ p.item \in Items \cup {None}
      /\ \A m \in p.marks : m.at \in Nat /\ m.at > 0 /\ m.name \in Nat
  <2>1. p.marks \subseteq [name : Marks, at : Marks] /\ p.total \in Nat /\ p.counter \in Nat
        /\ p.item \in Items \cup {None}
    BY <1>1 DEF Playbacks
  <2> QED
    BY <2>1 DEF Marks
<1>6. \A m \in p.marks : m.at <= p.total /\ m.name + p.total = m.at + p.counter
  BY DEF TypeInv, PlaybackInv
<1> HIDE DEF w, v, d, p
<1>7. OnWay(v, p, speaking, interrupted)
  BY <1>1, <1>3, <1>4, GoneKeeps
<1>8. d + 2 * p.total <= Len(w) /\ Len(w) \in Nat
  BY <1>1, <1>3, <1>4, ClearIsOld DEF OnWay
<1>9. Len(w) = Len(v) + d /\ Len(v) \in Nat /\ Len(v) >= 2 * p.total
  BY <1>1, <1>4, <1>5, <1>8 DEF Gone
<1>10. Reaches(v, p, heard)
  <2>1. p.item # None => heard[p.item] \in Nat
    BY <1>5 DEF TypeInv, TypeOK
  <2> QED
    BY <1>5, <1>9, <2>1 DEF Reaches
<1>11. PICK r \in Seq(Frames) :
          /\ inbox' = inbox \o r
          /\ \A a \in DOMAIN r : \E k \in DOMAIN buffer : r[a] = buffer[k] /\ r[a].kind = "mark"
  BY <1>1, DropBufferMarks
\* What returns is older than any known mark.
<1>12. ASSUME NEW a \in DOMAIN r
       PROVE  /\ r[a].kind = "mark" /\ r[a].of \in Nat /\ r[a].of <= p.counter
              /\ \A m \in p.marks : r[a].of # m.name
  <2>1. PICK k \in DOMAIN buffer : r[a] = buffer[k] /\ r[a].kind = "mark"
    BY <1>11
  <2>2. k \in DOMAIN w /\ w[k] = r[a] /\ k < d /\ k \in Nat
    BY <1>1, <2>1
  <2>3. r[a].of \in Nat
    BY <1>1, <2>1, FrameKinds DEF Marks
  <2>4. k + 2 * p.total <= Len(w)
    BY <1>1, <1>5, <1>8, <2>2
  <2>5. r[a].of <= p.counter /\ r[a].of + p.total <= p.counter
    BY <1>3, <2>1, <2>2, <2>4 DEF OnWay, Older
  <2>6. ASSUME NEW m \in p.marks, r[a].of = m.name PROVE FALSE
    BY <1>5, <1>6, <2>3, <2>5, <2>6
  <2> QED
    BY <2>1, <2>3, <2>5, <2>6
<1>13. \A k \in DOMAIN inbox' :
          \/ k \in DOMAIN inbox /\ inbox'[k] = inbox[k]
          \/ \E a \in DOMAIN r : inbox'[k] = r[a]
  <2> DEFINE T == Frames \cup {Stop}
             x == Len(inbox)
             y == Len(r)
  <2>1. inbox \in Seq(T) /\ r \in Seq(T)
    BY <1>1
  <2> HIDE DEF T
  <2>2. /\ x \in Nat /\ y \in Nat /\ DOMAIN inbox = 1..x /\ DOMAIN r = 1..y
        /\ inbox \o r \in Seq(T) /\ Len(inbox \o r) = x + y
        /\ \A k \in 1..x + y : (inbox \o r)[k] = IF k <= x THEN inbox[k] ELSE r[k - x]
    <3>1. x \in Nat /\ y \in Nat /\ DOMAIN inbox = 1..x /\ DOMAIN r = 1..y
      BY <2>1, LenProperties
    <3> QED
      BY ONLY <2>1, <3>1, ConcatProperties DEF x, y
  <2>3. DOMAIN inbox' = 1..x + y
    BY <1>11, <2>2, LenProperties
  <2> HIDE DEF x, y
  <2>4. ASSUME NEW k \in 1..x + y
        PROVE  \/ k \in 1..x /\ inbox'[k] = inbox[k]
               \/ \E a \in 1..y : inbox'[k] = r[a]
    <3>1. CASE k <= x
      <4>1. k \in 1..x
        BY <2>2, <3>1
      <4> QED
        BY <1>11, <2>2, <3>1, <4>1
    <3>2. CASE ~(k <= x)
      <4>1. k - x \in 1..y
        BY <2>2, <3>2
      <4> QED
        BY <1>11, <2>2, <3>2, <4>1
    <3> QED
      BY <3>1, <3>2
  <2> QED
    BY <2>2, <2>3, <2>4
<1>14. Behind(v, p, inbox')
  <2>1. ASSUME NEW k \in DOMAIN inbox', NEW m \in p.marks,
               inbox'[k].kind = "mark", inbox'[k].of = m.name
        PROVE  Len(v) + 2 * m.at <= 2 * p.total
    <3>1. k \in DOMAIN inbox /\ inbox'[k] = inbox[k]
      BY <1>12, <1>13, <2>1
    <3>2. Len(w) + 2 * m.at <= 2 * p.total
      BY <1>3, <2>1, <3>1 DEF Behind
    <3> QED
      BY <1>1, <1>5, <1>9, <3>2
  <2> QED
    BY <2>1 DEF Behind
<1>15. InboxInv'
  <2>1. InboxInv
    BY DEF PlayedInv
  <2>2. ASSUME NEW k \in DOMAIN inbox'
        PROVE  \/ inbox'[k] = Stop
               \/ inbox'[k].kind = "mark" /\ inbox'[k].of <= p.counter
    <3>1. CASE k \in DOMAIN inbox /\ inbox'[k] = inbox[k]
      BY <2>1, <3>1 DEF InboxInv, p
    <3>2. CASE \E a \in DOMAIN r : inbox'[k] = r[a]
      BY <1>12, <3>2
    <3> QED
      BY <1>13, <3>1, <3>2
  <2>3. ASSUME NEW k \in DOMAIN inbox', NEW m \in p.marks,
               inbox'[k].kind = "mark", inbox'[k].of = m.name
        PROVE  m.at <= heard[p.item]
    <3>1. k \in DOMAIN inbox /\ inbox'[k] = inbox[k]
      BY <1>12, <1>13, <2>3
    <3> QED
      BY <2>1, <2>3, <3>1 DEF InboxInv, p
  <2> QED
    BY <2>1, <2>2, <2>3 DEF InboxInv, p
<1>16. TruncateWithinHeard'
  BY DEF PlayedInv, TruncateWithinHeard
<1>17. \A k \in DOMAIN buffer' : buffer'[k].kind # "clear"
  BY DEF DropBuffer
<1>18. WayInv'
  BY <1>7, <1>10, <1>14, <1>17 DEF WayInv, v, p
<1> QED
  BY <1>1, <1>15, <1>16, <1>18 DEF PlayedInv

LEMMA SendPlayed ==
  ASSUME TypeInv, TypeInv', PlayedInv, SendTwilio
  PROVE  PlayedInv'
<1>1. UNCHANGED <<playback, todo, heard, stopped, speaking, interrupted>>
  BY DEF SendTwilio, text, model
<1>2. TodoInv' /\ TruncateWithinHeard'
  BY <1>1 DEF PlayedInv, TodoInv, TruncateWithinHeard
<1>3. CASE HungUp
  <2>1. UNCHANGED inbox
    BY <1>3 DEF SendTwilio
  <2>2. InboxInv' /\ HungUp'
    BY <1>1, <1>3, <2>1 DEF PlayedInv, InboxInv, HungUp
  <2> QED
    BY <1>2, <2>2 DEF PlayedInv
<1>4. CASE ~HungUp
  <2>1. CASE DropBuffer /\ Gone(Way, Way', Len(buffer) + 1)
             /\ Len(buffer) + 1 \in DOMAIN Way /\ Way[Len(buffer) + 1] = Clear
    BY <1>1, <1>4, <2>1, ClearPlayed
  <2>2. CASE Head(outbound) # Clear /\ Way' = Way
             /\ buffer' = Append(buffer, Head(outbound)) /\ UNCHANGED inbox
    <3> DEFINE f == Head(outbound)
    <3>1. /\ f \in Frames /\ f.kind # "clear" /\ buffer \in Seq(Frames)
          /\ buffer' = Append(buffer, f)
      <4>1. outbound \in Seq(Frames) /\ outbound # <<>> /\ buffer \in Seq(Frames)
        BY DEF SendTwilio, TypeInv, TypeOK
      <4>2. f \in Frames
        BY <4>1
      <4> QED
        BY <2>2, <4>1, <4>2, FrameKinds
    <3>2. WayInv
      BY <1>4 DEF PlayedInv
    <3> HIDE DEF f
    <3>3. \A k \in DOMAIN buffer' : buffer'[k].kind # "clear"
      BY <3>1, <3>2 DEF WayInv
    <3>4. WayInv'
      BY <1>1, <2>2, <3>2, <3>3 DEF WayInv
    <3>5. InboxInv'
      BY <1>1, <2>2 DEF PlayedInv, InboxInv
    <3> QED
      BY <1>2, <3>4, <3>5 DEF PlayedInv
  <2> QED
    BY <1>4, <2>1, <2>2, SendWay DEF TypeInv, PlayedInv
<1> QED
  BY <1>3, <1>4

\* The way gets a sequence of frames at its end.
LEMMA WayLengthened ==
  ASSUME buffer \in Seq(Frames), outbound \in Seq(Frames), UNCHANGED <<buffer, outbound>>,
         Puts = <<>>, Puts' \in Seq(Frames)
  PROVE  /\ Way \in Seq(Frames) /\ Way' \in Seq(Frames)
         /\ Len(Way') = Len(Way) + Len(Puts')
         /\ \A k \in DOMAIN Way : Way'[k] = Way[k]
         /\ \A k \in 1..Len(Puts') : Way'[Len(Way) + k] = Puts'[k]
<1> DEFINE S == Frames
           a == buffer
           b == outbound
           c == Puts'
<1> DEFINE d == a \o b
           n == Len(d)
           z == Len(c)
<1>1. d \in Seq(S) /\ n \in Nat /\ DOMAIN d = 1..n /\ z \in Nat /\ c \in Seq(S)
  BY LenProperties
<1>5. Way = d /\ Way' = d \o c
  BY <1>1, ConcatEmptySeq DEF Way
<1> HIDE DEF d, c
<1>2. /\ d \o c \in Seq(S) /\ Len(d \o c) = n + z
      /\ \A k \in 1..n + z : (d \o c)[k] = IF k <= n THEN d[k] ELSE c[k - n]
  BY <1>1, ConcatProperties
<1> HIDE DEF n, z
<1>3. \A k \in 1..n : (d \o c)[k] = d[k]
  BY <1>1, <1>2
<1>4. ASSUME NEW k \in 1..z PROVE (d \o c)[n + k] = c[k]
  <2>1. n + k \in 1..n + z /\ ~(n + k <= n) /\ (n + k) - n = k
    BY <1>1
  <2> QED
    BY <1>2, <2>1
<1> QED
  BY <1>1, <1>2, <1>3, <1>4, <1>5 DEF c, n, z

LEMMA AudioPlayed ==
  ASSUME TypeInv, TypeInv', PlayedInv, NEW i \in Items, AudioDelta(i)
  PROVE  PlayedInv'
<1> DEFINE p == playback
           q == playback'
           w == Way
           v == Way'
<1>1. /\ todo = <<>>
      /\ UNCHANGED <<interrupted, outbound, stopped, buffer, heard, inbox>>
  BY DEF AudioDelta, Receives, text, twilio
<1>2. CASE stopped
  <2>1. UNCHANGED <<playback, todo>>
    BY <1>2 DEF AudioDelta
  <2>2. HungUp'
    BY <1>1, <1>2 DEF HungUp
  <2>3. TodoInv' /\ InboxInv' /\ TruncateWithinHeard'
    BY <1>1, <2>1 DEF PlayedInv, TodoInv, InboxInv, TruncateWithinHeard
  <2> QED
    BY <2>2, <2>3 DEF PlayedInv
<1>3. CASE ~stopped
  <2> DEFINE f == Media(i)
             g == Mark(p.counter + 1)
             s == Put(f)
             t == Put(g)
  <2>1. /\ todo' = <<s, t>> /\ s.does = "put" /\ t.does = "put" /\ s.what = f /\ t.what = g
        /\ q = AddAudio(p, i)
    BY <1>3 DEF AudioDelta, Put
  <2>2. f \in Frames /\ g \in Frames
    <3>1. p.counter + 1 \in Marks
      <4>1. /\ p.counter \in Nat /\ p.counter <= generated /\ generated < MaxAudio
            /\ generated \in Nat
        BY DEF AudioDelta, TypeInv, TypeOK, PlaybackInv, Playbacks
      <4> HIDE DEF p
      <4> QED
        BY <4>1, TwilioMediaAssumption DEF Marks
    <3> QED
      BY <3>1 DEF Media, Mark, Frames
  <2> HIDE DEF f, g, s, t
  <2>3. Puts = <<>> /\ Puts' = <<f, g>>
    BY <1>1, <2>1 DEF Puts
  <2>4. TodoInv' /\ TruncateWithinHeard'
    BY <2>1 DEF TodoInv, TruncateWithinHeard
  <2>5. /\ w \in Seq(Frames) /\ v \in Seq(Frames) /\ Len(v) = Len(w) + 2
        /\ \A k \in DOMAIN w : v[k] = w[k]
        /\ v[Len(w) + 1] = f /\ v[Len(w) + 2] = g /\ Len(w) \in Nat
    <3> DEFINE c == <<f, g>>
    <3>1. c \in Seq(Frames) /\ Len(c) = 2 /\ c[1] = f /\ c[2] = g /\ 1 \in 1..2 /\ 2 \in 1..2
      BY <2>2
    <3>3. buffer \in Seq(Frames) /\ outbound \in Seq(Frames)
      BY DEF TypeInv, TypeOK
    <3>2. c = Puts' /\ Puts = <<>> /\ UNCHANGED <<buffer, outbound>>
      BY <1>1, <2>3
    <3> HIDE DEF c
    <3>4. /\ w \in Seq(Frames) /\ v \in Seq(Frames) /\ Len(v) = Len(w) + Len(c)
          /\ \A k \in DOMAIN w : v[k] = w[k]
          /\ \A k \in 1..Len(c) : v[Len(w) + k] = c[k]
      BY <3>1, <3>2, <3>3, WayLengthened
    <3> QED
      BY <3>1, <3>4, LenProperties
  <2>6. /\ p.total \in Nat /\ p.acknowledged \in Nat /\ p.counter \in Nat
        /\ q.counter = p.counter + 1 /\ q.item = i /\ i # None
        /\ \/ /\ i = p.item /\ q.total = p.total + 1 /\ q.acknowledged = p.acknowledged
              /\ q.marks = p.marks \cup {[name |-> p.counter + 1, at |-> p.total + 1]}
           \/ /\ i # p.item /\ q.total = 1 /\ q.acknowledged = 0
              /\ q.marks = {[name |-> p.counter + 1, at |-> 1]}
    <3>1. p.total \in Nat /\ p.acknowledged \in Nat /\ p.counter \in Nat
      BY DEF TypeInv, TypeOK, Playbacks
    <3>2. i # None
      BY TwilioMediaAssumption
    <3>3. CASE i = p.item
      BY <2>1, <3>1, <3>2, <3>3 DEF AddAudio
    <3>4. CASE i # p.item
      BY <2>1, <3>1, <3>2, <3>4 DEF AddAudio
    <3> QED
      BY <3>3, <3>4
  <2>7. \A m \in p.marks : m.at \in Nat /\ m.name \in Nat
    <3>1. p.marks \subseteq [name : Marks, at : Marks]
      BY DEF TypeInv, TypeOK, Playbacks
    <3> HIDE DEF p
    <3> QED
      BY <3>1 DEF Marks
  <2>8. heard[i] \in Nat
    BY DEF TypeInv, TypeOK
  <2>9. InboxInv
    BY DEF PlayedInv
  \* The new mark has not returned: what has returned is older.
  <2>10. \A k \in DOMAIN inbox : inbox[k].kind = "mark" =>
            inbox[k].of <= p.counter /\ inbox[k].of # p.counter + 1
    <3>1. ASSUME NEW k \in DOMAIN inbox, inbox[k].kind = "mark"
          PROVE  inbox[k].of <= p.counter /\ inbox[k].of # p.counter + 1
      <4>1. inbox[k] # Stop
        BY <3>1 DEF Stop
      <4>2. inbox[k].of <= p.counter
        BY <2>9, <3>1, <4>1 DEF InboxInv
      <4>3. inbox[k].of \in Nat
        <5>1. inbox[k] \in Frames
          BY <4>1 DEF TypeInv, TypeOK
        <5> QED
          BY <3>1, <5>1, FrameKinds DEF Marks
      <4> QED
        BY <2>6, <4>2, <4>3
    <3> QED
      BY <3>1
  <2> HIDE DEF p, q
  <2>11. ASSUME NEW k \in DOMAIN inbox, NEW m \in q.marks,
                inbox[k].kind = "mark", inbox[k].of = m.name
         PROVE  m \in p.marks /\ q.item = p.item
    BY <2>6, <2>10, <2>11
  <2>12. InboxInv'
    <3>1. \A k \in DOMAIN inbox :
             \/ inbox[k] = Stop
             \/ inbox[k].kind = "mark" /\ inbox[k].of <= q.counter
      <4>1. ASSUME NEW k \in DOMAIN inbox, inbox[k] # Stop
            PROVE  inbox[k].kind = "mark" /\ inbox[k].of <= q.counter
        <5>1. inbox[k].kind = "mark" /\ inbox[k].of <= p.counter
          BY <2>9, <4>1 DEF InboxInv, p
        <5>2. inbox[k].of \in Nat
          <6>1. inbox[k] \in Frames
            BY <4>1 DEF TypeInv, TypeOK
          <6> QED
            BY <5>1, <6>1, FrameKinds DEF Marks
        <5> QED
          BY <2>6, <5>1, <5>2
      <4> QED
        BY <4>1
    <3>2. \A k \in DOMAIN inbox : \A m \in q.marks :
             inbox[k].kind = "mark" /\ inbox[k].of = m.name => m.at <= heard[q.item]
      BY <2>9, <2>11 DEF InboxInv, p
    <3>3. q.item # None => q.acknowledged <= heard[q.item]
      BY <2>6, <2>8, <2>9 DEF InboxInv, p
    <3> QED
      BY <1>1, <3>1, <3>2, <3>3 DEF InboxInv, q
  <2>13. ASSUME ~HungUp' PROVE WayInv'
    <3>1. ~HungUp
      BY <1>1, <2>13 DEF HungUp
    <3>2. WayInv
      BY <3>1 DEF PlayedInv
    <3>3. OnWay(w, p, speaking, interrupted) /\ Reaches(w, p, heard) /\ Behind(w, p, inbox)
      BY <3>2 DEF WayInv, p
    <3>4. OnWay(v, q, speaking', interrupted)
      <4> HIDE DEF w, v
      <4> QED
        BY <1>3, <2>5, <3>3, AudioOnWay DEF p, q, f, g
    <3> HIDE DEF w, v
    <3>5. Reaches(v, q, heard)
      BY SMTT(30), <2>5, <2>6, <2>8, <3>3 DEF Reaches
    <3>6. Behind(v, q, inbox)
      <4>1. ASSUME NEW k \in DOMAIN inbox, NEW m \in q.marks,
                   inbox[k].kind = "mark", inbox[k].of = m.name
            PROVE  Len(v) + 2 * m.at <= 2 * q.total
        <5>1. m \in p.marks /\ q.total = p.total + 1
          BY <2>6, <2>11, <4>1
        <5>2. Len(w) + 2 * m.at <= 2 * p.total /\ m.at \in Nat
          BY <2>7, <3>3, <4>1, <5>1 DEF Behind, p
        <5> QED
          BY <2>5, <2>6, <5>1, <5>2
      <4> QED
        BY <4>1 DEF Behind
    <3> QED
      BY <1>1, <3>2, <3>4, <3>5, <3>6 DEF WayInv, q, v
  <2> QED
    BY <2>4, <2>12, <2>13 DEF PlayedInv
<1> QED
  BY <1>2, <1>3

LEMMA Pair == \A s, t : <<s>> \o <<>> = <<s>> /\ <<s>> \o <<t>> = <<s, t>>
<1> TAKE s, t
<1> DEFINE S == {s, t}
           a == <<s>>
           b == <<t>>
           c == <<s, t>>
<1>1. /\ a \in Seq(S) /\ b \in Seq(S) /\ c \in Seq(S) /\ Len(a) = 1 /\ Len(b) = 1 /\ Len(c) = 2
      /\ a[1] = s /\ b[1] = t /\ c[1] = s /\ c[2] = t
  OBVIOUS
<1> HIDE DEF S, a, b, c
<1>2. a \o <<>> = a
  BY <1>1, ConcatEmptySeq
<1>3. /\ a \o b \in Seq(S) /\ Len(a \o b) = 2
      /\ \A i \in 1..2 : (a \o b)[i] = IF i <= 1 THEN a[i] ELSE b[i - 1]
  BY <1>1, ConcatProperties
<1>4. \A i \in 1..2 : (a \o b)[i] = c[i]
  BY <1>1, <1>3
<1>5. a \o b = c
  BY <1>1, <1>3, <1>4, SeqEqual
<1> QED
  BY <1>2, <1>5 DEF a, b, c

LEMMA SpeechPlayed ==
  ASSUME TypeInv, TypeInv', PlayedInv, SpeechStarted
  PROVE  PlayedInv'
<1> DEFINE p == playback
           q == playback'
           w == Way
           v == Way'
<1>1. /\ todo = <<>>
      /\ UNCHANGED <<outbound, stopped, buffer, heard, inbox, speaking>>
  BY DEF SpeechStarted, Receives, model, twilio
<1>2. CASE stopped \/ ~Interrupts
  BY <1>1, <1>2, PlayedFrame DEF SpeechStarted
<1>3. CASE ~(stopped \/ ~Interrupts)
  <2> DEFINE end == IF p.acknowledged < p.total THEN p.acknowledged ELSE p.total
             s == Put(Clear)
             t == Truncate(p.item, end)
  <2>1. /\ Cut /\ todo' = <<s>> \o (IF p.item = None THEN <<>> ELSE <<t>>)
        /\ s.does = "put" /\ s.what = Clear /\ t.does = "truncate"
        /\ t.what.item = p.item /\ t.what.end = end
    BY <1>3 DEF SpeechStarted, Cut, Put, Truncate
  <2>2. /\ q.counter = p.counter /\ q.total = 0 /\ q.marks = {} /\ q.item = None
        /\ q.acknowledged = 0
    BY <2>1, CutType, ClearedType DEF Cut, TypeInv
  <2>3. end <= heard[p.item] \/ p.item = None
    <3>1. p.item # None => p.acknowledged <= heard[p.item]
      BY DEF PlayedInv, InboxInv
    <3>2. p.acknowledged \in Nat /\ p.total \in Nat /\ p.acknowledged <= p.total
      BY DEF TypeInv, TypeOK, Playbacks
    <3>3. end = p.acknowledged
      BY <3>2
    <3> QED
      BY <3>1, <3>3
  <2> HIDE DEF s, t, end, p, q
  <2>4. \/ todo' = <<s>>
        \/ todo' = <<s, t>> /\ p.item # None
    <3>1. <<s>> \o <<>> = <<s>> /\ <<s>> \o <<t>> = <<s, t>>
      BY Pair
    <3> QED
      BY <2>1, <3>1
  <2>5. TodoInv' /\ TruncateWithinHeard' /\ Puts = <<>> /\ Puts' = <<Clear>>
    <3>1. CASE todo' = <<s>>
      BY <1>1, <2>1, <3>1 DEF TodoInv, TruncateWithinHeard, Puts
    <3>2. CASE todo' = <<s, t>> /\ p.item # None
      <4>1. TodoInv' /\ Puts = <<>> /\ Puts' = <<Clear>>
        BY <1>1, <2>1, <3>2 DEF TodoInv, Puts
      <4>2. TruncateWithinHeard'
        <5>1. ASSUME NEW k \in DOMAIN todo', todo'[k].does = "truncate"
              PROVE  todo'[k].what.end <= heard'[todo'[k].what.item]
          <6>1. k \in {1, 2} /\ todo'[k] = t
            BY <2>1, <3>2, <5>1
          <6> QED
            BY <1>1, <2>1, <2>3, <3>2, <6>1
        <5> QED
          BY <5>1 DEF TruncateWithinHeard
      <4> QED
        BY <4>1, <4>2
    <3> QED
      BY <2>4, <3>1, <3>2
  <2>6. /\ w \in Seq(Frames) /\ v \in Seq(Frames) /\ Len(v) = Len(w) + 1
        /\ \A k \in DOMAIN w : v[k] = w[k]
        /\ v[Len(w) + 1] = Clear
    <3> DEFINE f == Clear
               c == <<f>>
    <3>1. c \in Seq(Frames) /\ Len(c) = 1 /\ c[1] = f /\ 1 \in 1..1
      <4>1. f \in Frames
        BY DEF Frames
      <4> HIDE DEF f
      <4> QED
        BY <4>1
    <3>3. buffer \in Seq(Frames) /\ outbound \in Seq(Frames)
      BY DEF TypeInv, TypeOK
    <3>2. c = Puts' /\ Puts = <<>> /\ UNCHANGED <<buffer, outbound>>
      BY <1>1, <2>5
    <3> HIDE DEF c, f
    <3>4. /\ w \in Seq(Frames) /\ v \in Seq(Frames) /\ Len(v) = Len(w) + Len(c)
          /\ \A k \in DOMAIN w : v[k] = w[k]
          /\ \A k \in 1..Len(c) : v[Len(w) + k] = c[k]
      BY <3>1, <3>2, <3>3, WayLengthened
    <3> QED
      BY <3>1, <3>4 DEF f
  <2>7. InboxInv'
    <3>1. \A k \in DOMAIN inbox :
             \/ inbox[k] = Stop
             \/ inbox[k].kind = "mark" /\ inbox[k].of <= q.counter
      BY <2>2 DEF PlayedInv, InboxInv, p
    <3> QED
      BY <1>1, <2>2, <3>1 DEF InboxInv, q
  <2>8. ASSUME ~HungUp' PROVE WayInv'
    <3>1. ~HungUp
      BY <1>1, <2>8 DEF HungUp
    <3>2. WayInv
      BY <3>1 DEF PlayedInv
    <3>3. OnWay(w, playback, speaking, interrupted)
      BY <3>2 DEF WayInv
    <3>4. OnWay(v, playback', speaking, interrupted')
      <4> HIDE DEF w, v
      <4> QED
        BY <2>1, <2>6, <3>3, CutOnWay
    <3>5. Reaches(v, q, heard) /\ Behind(v, q, inbox)
      BY <2>2 DEF Reaches, Behind
    <3> QED
      BY <1>1, <3>2, <3>4, <3>5 DEF WayInv, q
  <2> QED
    BY <2>5, <2>7, <2>8 DEF PlayedInv
<1> QED
  BY <1>2, <1>3

LEMMA InitPlayed == Init => PlayedInv
<1> SUFFICES ASSUME Init PROVE PlayedInv
  OBVIOUS
<1>1. /\ todo = <<>> /\ buffer = <<>> /\ outbound = <<>> /\ inbox = <<>>
      /\ playback.item = None /\ playback.total = 0 /\ playback.acknowledged = 0
      /\ playback.marks = {}
  BY DEF Init, Silent
<1>2. TodoInv /\ InboxInv /\ TruncateWithinHeard
  BY <1>1 DEF TodoInv, InboxInv, TruncateWithinHeard
<1>3. Way = <<>>
  <2>1. Puts = <<>>
    BY <1>1 DEF Puts
  <2> QED
    BY <1>1, <2>1 DEF Way
<1>4. DOMAIN Way = {} /\ Len(Way) = 0
  BY <1>3
<1>5. OnWay(Way, playback, speaking, interrupted)
  <2>1. Straight(Way, speaking) /\ Older(Way, playback) /\ Quiet(Way, playback)
        /\ Severed(Way, interrupted) /\ Recent(Way, playback)
    BY <1>4 DEF Straight, Older, Quiet, Severed, Recent
  <2>2. Past(Way, playback)
    BY <1>1 DEF Past
  <2> QED
    BY <2>1, <2>2 DEF OnWay
<1>6. WayInv
  BY <1>1, <1>5 DEF WayInv, Reaches, Behind
<1> QED
  BY <1>2, <1>6 DEF PlayedInv

LEMMA NextPlayed == TypeInv /\ TypeInv' /\ PlayedInv /\ [Next]_vars => PlayedInv'
<1> SUFFICES ASSUME TypeInv, TypeInv', PlayedInv, [Next]_vars PROVE PlayedInv'
  OBVIOUS
<1>1. ASSUME UNCHANGED vars \/ SetsUp \/ Drained \/ Fails PROVE PlayedInv'
  BY <1>1, PlayedFrame
  DEF vars, model, text, twilio, SetsUp, SessionCreated, SessionUpdated, SetupFails, Drained,
      Fails, Kept
<1>2. ASSUME NEW i \in Items, AudioDelta(i) PROVE PlayedInv'
  BY <1>2, AudioPlayed
<1>3. ASSUME NEW i \in Items,
             SaveKnownSegment(i) \/ \E final \in BOOLEAN : PersistTranscript(i, final)
      PROVE  PlayedInv'
  BY <1>3, PlayedFrame DEF SaveKnownSegment, PersistTranscript, model, twilio
<1>4. CASE SpeechStarted
  BY <1>4, SpeechPlayed
<1>5. ASSUME NEW n \in Speech, TranscriptionCompleted(n) PROVE PlayedInv'
  BY <1>5, PlayedFrame DEF TranscriptionCompleted, text, model, twilio
<1>6. CASE FunctionCall
  BY <1>6, ToolPlayed
<1>7. CASE Continue
  BY <1>7, ContinuePlayed
<1>8. CASE SendTwilio
  BY <1>8, SendPlayed
<1>9. CASE TwilioPlays
  BY <1>9, PlaysPlayed
<1>10. CASE TwilioStops
  BY <1>10, StopsPlayed
<1>11. CASE ReceiveTwilio
  BY <1>11, ReceivePlayed
<1> QED
  BY <1>1, <1>2, <1>3, <1>4, <1>5, <1>6, <1>7, <1>8, <1>9, <1>10, <1>11
  DEF Next, HandleOpenAIEvent

LEMMA PlayedHolds == Spec => [](TypeInv /\ PlayedInv)
<1>1. Spec => []TypeInv
  BY InitTypeInv, NextTypeInv, PTL DEF Spec
<1> QED
  BY <1>1, InitPlayed, NextPlayed, PTL DEF Spec

\* For a call of any length and a queue of any size: whatever marks are late and
\* whatever was cleared, the model is never told that more was played than was
\* (PlaybackState.acknowledge, conversation.item.truncate).
THEOREM TruncatesHeard == Spec => []TruncateWithinHeard
  BY PlayedHolds, PTL DEF PlayedInv

\* The audio Twilio drops ends with that of an item that was cut.
LEMMA FlushedIsCut ==
  ASSUME TypeInv, PlayedInv, Flushes
  PROVE  Newest(FlushedItems) \in interrupted
<1> DEFINE w == Way
           a == buffer
           x == Len(a)
           c == x + 1
<1>1. /\ outbound \in Seq(Frames) /\ a \in Seq(Frames) /\ outbound # <<>>
      /\ Puts \in Seq(Frames) /\ w \in Seq(Frames) /\ x \in Nat /\ DOMAIN a = 1..x
  BY PutsType, LenProperties DEF Flushes, TypeInv, TypeOK, PlayedInv
<1>2. WayInv
  BY DEF Flushes, PlayedInv
<1>3. /\ \A k \in 1..x : w[k] = a[k]
      /\ c \in DOMAIN w /\ w[c].kind = "clear"
      /\ \A k \in 1..x : k \in DOMAIN w
  <2> DEFINE y == Len(outbound)
             z == Len(Puts)
  <2>1. /\ Len(w) = x + y + z
        /\ \A k \in 1..x : w[k] = a[k]
        /\ \A k \in 1..y : w[k + x] = outbound[k]
    BY <1>1, WayParts DEF Way
  <2>2. y \in Nat \ {0} /\ z \in Nat /\ DOMAIN w = 1..Len(w) /\ outbound[1].kind = "clear"
    <3>1. outbound[1] = Clear
      BY <1>1 DEF Flushes
    <3> QED
      BY <1>1, <3>1, EmptySeq, LenProperties DEF Clear
  <2> HIDE DEF w, x, y, z
  <2>3. 1 \in 1..y /\ 1 + x = x + 1 /\ x + 1 \in 1..x + y + z
        /\ \A k \in 1..x : k \in 1..x + y + z
    BY <1>1, <2>2
  <2>4. w[x + 1] = outbound[1]
    BY <2>1, <2>3
  <2> QED
    BY <2>1, <2>2, <2>3, <2>4
<1>4. Straight(w, speaking) /\ Severed(w, interrupted)
      /\ \A k \in 1..x : a[k].kind # "clear"
  BY <1>1, <1>2 DEF WayInv, OnWay
<1>5. \A k \in 1..x : a[k].kind \in {"media", "mark"} /\ (a[k].kind = "media" => a[k].of \in Nat)
  BY <1>1, <1>4, FrameKinds DEF Items
<1>6. FlushedItems = {a[k].of : k \in {l \in 1..x : a[l].kind = "media"}}
  <2>1. DOMAIN buffer \ Named(buffer) = {l \in 1..x : a[l].kind = "media"}
    BY <1>1, <1>5 DEF Named
  <2> QED
    BY <2>1 DEF FlushedItems
<1>7. PICK k \in 1..x : a[k].kind = "media"
  BY <1>6 DEF Flushes
<1> HIDE DEF w, a, x, c
\* Its mark follows it, so the last frame before the clear is a mark, after its audio.
<1>8. /\ \A l \in 1..x : a[l].kind = "media" => l + 1 \in 1..x
      /\ c \in Nat /\ c > 2 /\ c - 1 \in 1..x /\ c - 2 \in 1..x
  <2>1. ASSUME NEW l \in 1..x, a[l].kind = "media" PROVE l + 1 \in 1..x
    <3>1. w[l + 1].kind = "mark"
      BY <1>3, <1>4, <2>1 DEF Straight
    <3>2. l + 1 # c
      BY <1>3, <3>1
    <3> QED
      BY <1>1, <3>2 DEF c
  <2>2. k + 1 \in 1..x
    BY <1>7, <2>1
  <2> QED
    BY <1>1, <2>1, <2>2 DEF c
<1>9. w[c - 1].kind # "clear" /\ w[c - 2] = a[c - 2]
  BY <1>3, <1>4, <1>8
<1>10. w[c - 2].kind = "media" /\ w[c - 2].of \in interrupted
  BY <1>3, <1>4, <1>8, <1>9 DEF Severed
<1> DEFINE i == a[c - 2].of
<1>11. i \in FlushedItems /\ i \in interrupted
  BY <1>6, <1>8, <1>9, <1>10
<1>12. \A l \in 1..x : a[l].kind = "media" => a[l].of <= i
  <2>1. ASSUME NEW l \in 1..x, a[l].kind = "media" PROVE a[l].of <= i
    <3>1. l <= c - 2
      BY <1>1, <1>8, <2>1 DEF c
    <3>2. CASE l = c - 2
      BY <1>5, <2>1, <3>2
    <3>3. CASE l < c - 2
      BY <1>3, <1>4, <1>8, <1>9, <1>10, <2>1, <3>3 DEF Straight
    <3> QED
      BY <1>1, <1>8, <3>1, <3>2, <3>3
  <2> QED
    BY <2>1
<1>13. \A j \in FlushedItems : j \in Nat /\ j <= i
  BY <1>5, <1>6, <1>12
<1> HIDE DEF i
<1>14. Newest(FlushedItems) \in FlushedItems /\ \A j \in FlushedItems : j <= Newest(FlushedItems)
  BY <1>11, <1>13 DEF Newest
<1>15. Newest(FlushedItems) = i
  BY <1>11, <1>13, <1>14
<1> QED
  BY <1>11, <1>15

\* Whatever the size of the queue and however late its marks, the item whose audio a
\* clear throws away last was taken for interrupted when the caller cut in.
THEOREM CutsMarked == Spec => CutIsMarked
<1>1. TypeInv /\ PlayedInv => (Flushes => Newest(FlushedItems) \in interrupted)
  BY FlushedIsCut
<1> QED
  BY <1>1, PlayedHolds, PTL DEF CutIsMarked

=============================================================================
