-------------------------- MODULE VoiceSessionProofs --------------------------
(***************************************************************************)
(* What holds of browser calls for any number of attempts: the rows of the *)
(* backend whatever browsers ask of it, and the page on top of them.       *)
(***************************************************************************)
EXTENDS VoiceSession, TLAPS

-----------------------------------------------------------------------------
(* The backend *)

\* An attempt has no open row before its handler created it, and the handler
\* alone lets it go on from "starting"; what a handler took for stale is old.
ServerInv ==
    /\ ServerTypeOK
    /\ \A a \in Attempts :
          /\ stale[a] \subseteq old
          /\ boot[a] \in {"none", "scanned", "reconciled"} =>
                status[a] \in {"none"} \cup TerminalStatuses
          /\ boot[a] = "created" => status[a] \in {"starting"} \cup TerminalStatuses

LEMMA ServerInitInv == ServerInit => ServerInv
  BY DEF ServerInit, ServerInv, ServerTypeOK, Handling, Answers, NonTerminalStatuses,
         TerminalStatuses

LEMMA ServerStepInv == ServerInv /\ [ServerNext]_serverVars => ServerInv'
<1> SUFFICES ASSUME ServerInv, [ServerNext]_serverVars PROVE ServerInv'
  OBVIOUS
<1> USE DEF ServerInv, ServerTypeOK, Handling, Answers, NonTerminalStatuses, TerminalStatuses
<1>1. CASE UNCHANGED serverVars
  BY <1>1 DEF serverVars
<1>2. ASSUME NEW a \in Attempts, ScanStale(a) PROVE ServerInv'
  BY <1>2 DEF ScanStale, StaleAttempts
<1>3. ASSUME NEW a \in Attempts, AbandonStale(a) PROVE ServerInv'
  BY <1>3 DEF AbandonStale
<1>4. ASSUME NEW a \in Attempts, CreateAttempt(a) PROVE ServerInv'
  BY <1>4 DEF CreateAttempt
<1>5. ASSUME NEW a \in Attempts, ProvisionAttempt(a) PROVE ServerInv'
  BY <1>5 DEF ProvisionAttempt
<1>6. ASSUME NEW a \in Attempts, MarkFailed(a) PROVE ServerInv'
  BY <1>6 DEF MarkFailed
<1>7. ASSUME NEW a \in Attempts, AgesOut(a) PROVE ServerInv'
  BY <1>7 DEF AgesOut
<1>8. ASSUME NEW a \in Attempts, MarkConnected(a) PROVE ServerInv'
  BY <1>8 DEF MarkConnected
<1>9. ASSUME NEW a \in Attempts, NEW outcome \in TerminalStatuses, FinishAttempt(a, outcome)
      PROVE ServerInv'
  BY <1>9 DEF FinishAttempt
<1>10. CASE Restart
  BY <1>10 DEF Restart
<1> QED
  BY <1>1, <1>2, <1>3, <1>4, <1>5, <1>6, <1>7, <1>8, <1>9, <1>10 DEF ServerNext, Bootstrap

\* The steps of the backend respect what OneOutcome says of a row.
LEMMA OneOutcomeStep ==
  ASSUME ServerInv, [ServerNext]_serverVars, NEW x \in Attempts,
         status[x] \in TerminalStatuses
  PROVE  status'[x] \in {status[x]} \cup (IF x \in old THEN {"abandoned"} ELSE {})
<1> USE DEF ServerInv, ServerTypeOK, NonTerminalStatuses, TerminalStatuses
<1>1. CASE UNCHANGED serverVars
  BY <1>1 DEF serverVars
<1>2. ASSUME NEW a \in Attempts, Bootstrap(a) PROVE status'[x] \in {status[x]} \cup (IF x \in old THEN {"abandoned"} ELSE {})
  BY <1>2 DEF Bootstrap, ScanStale, AbandonStale, CreateAttempt, ProvisionAttempt, MarkFailed
<1>3. ASSUME NEW a \in Attempts, AgesOut(a) \/ MarkConnected(a) PROVE status'[x] = status[x]
  BY <1>3 DEF AgesOut, MarkConnected
<1>4. ASSUME NEW a \in Attempts, NEW outcome \in TerminalStatuses, FinishAttempt(a, outcome)
      PROVE status'[x] = status[x]
  BY <1>4 DEF FinishAttempt
<1>5. CASE Restart
  BY <1>5 DEF Restart
<1> QED
  BY <1>1, <1>2, <1>3, <1>4, <1>5 DEF ServerNext

LEMMA SecretStep ==
  ASSUME ServerInv, [ServerNext]_serverVars, NEW x \in Attempts,
         boot[x] # "granted", boot'[x] = "granted"
  PROVE  status[x] = "starting" /\ status'[x] = "provisioned"
<1> USE DEF ServerInv, ServerTypeOK, Handling, NonTerminalStatuses, TerminalStatuses
<1>1. CASE UNCHANGED serverVars
  BY <1>1 DEF serverVars
<1>2. ASSUME NEW a \in Attempts, Bootstrap(a)
      PROVE  status[x] = "starting" /\ status'[x] = "provisioned"
  BY <1>2 DEF Bootstrap, ScanStale, AbandonStale, CreateAttempt, ProvisionAttempt, MarkFailed
<1>3. ASSUME NEW a \in Attempts, AgesOut(a) \/ MarkConnected(a) PROVE boot'[x] = boot[x]
  BY <1>3 DEF AgesOut, MarkConnected
<1>4. ASSUME NEW a \in Attempts, NEW outcome \in TerminalStatuses, FinishAttempt(a, outcome)
      PROVE boot'[x] = boot[x]
  BY <1>4 DEF FinishAttempt
<1>5. CASE Restart
  BY <1>5 DEF Restart
<1> QED
  BY <1>1, <1>2, <1>3, <1>4, <1>5 DEF ServerNext

\* For any browsers: an attempt that is over keeps its outcome, but for rows
\* taken for stale (finish_attempt, mark_attempt_connected, _mark_failed and
\* create_session_bootstrap look at the status under a lock).
THEOREM AttemptHasOneOutcome == ServerSpec => OneOutcome
<1>1. ServerInv /\ [ServerNext]_serverVars =>
        [\A a \in Attempts : status[a] \in TerminalStatuses =>
           status'[a] \in {status[a]} \cup (IF a \in old THEN {"abandoned"} ELSE {})]_serverVars
  BY OneOutcomeStep
<1> QED
  BY <1>1, ServerInitInv, ServerStepInv, PTL DEF ServerSpec, OneOutcome

\* For any browsers: no client secret for an attempt that was finished, in
\* whatever order finish and bootstrap arrive.
THEOREM FinishedGetsNoSecret == ServerSpec => CancelledGetsNoSecret
<1>1. ServerInv /\ [ServerNext]_serverVars =>
        [\A a \in Attempts : boot[a] # "granted" /\ boot'[a] = "granted" =>
           status[a] = "starting" /\ status'[a] = "provisioned"]_serverVars
  BY SecretStep
<1> QED
  BY <1>1, ServerInitInv, ServerStepInv, PTL DEF ServerSpec, CancelledGetsNoSecret

\* Both: an attempt's row decides, whatever reports and answers come late.
THEOREM RowsDecide == ServerSpec => ServerDecides
<1> QED
  BY AttemptHasOneOutcome, FinishedGetsNoSecret DEF ServerDecides

-----------------------------------------------------------------------------
(* The page never asks more of the backend than its interface offers *)

LEMMA ReportServer ==
  ASSUME NEW r \in reports, Report(r), reports \subseteq Reports
  PROVE  [ServerNext]_serverVars
BY DEF Report, ServerNext, Reports

\* The steps of the backend that finish no attempt.
OwnStep ==
    \/ \E a \in Attempts : Bootstrap(a) \/ AgesOut(a) \/ MarkConnected(a)
    \/ Restart
    \/ UNCHANGED serverVars

LEMMA StepKinds == [Next]_vars => OwnStep \/ \E r \in reports : Report(r)
<1> SUFFICES ASSUME [Next]_vars PROVE OwnStep \/ \E r \in reports : Report(r)
  OBVIOUS
<1>1. CASE UNCHANGED vars
  BY <1>1 DEF vars, OwnStep
<1>2. ASSUME NEW a \in Attempts, PressStart(a) \/ MicrophoneGranted(a) \/ MicrophoneDenied(a)
      PROVE OwnStep
  BY <1>2 DEF PressStart, MicrophoneGranted, MicrophoneDenied, OwnStep
<1>3. ASSUME NEW a \in Attempts, Proceeds(a) PROVE OwnStep \/ \E r \in reports : Report(r)
  <2>1. CASE ReportFor("start", a)
    BY <2>1 DEF ReportFor
  <2>2. CASE CleanupAwaited(a) \/ BootstrapSucceeds(a) \/ BootstrapFails(a)
    BY <2>2 DEF CleanupAwaited, BootstrapSucceeds, BootstrapFails, OwnStep
  <2>3. CASE Signaled(a) \/ Configured(a) \/ ConnectFails(a)
    BY <2>3 DEF Signaled, Configured, ConnectFails, OwnStep
  <2>4. CASE Confirmed(a) \/ ConfirmFails(a)
    BY <2>4 DEF Confirmed, ConfirmFails, OwnStep
  <2> QED
    BY <1>3, <2>1, <2>2, <2>3, <2>4 DEF Proceeds
<1>4. ASSUME NEW a \in Attempts, Arrives(a) PROVE OwnStep
  BY <1>4 DEF Arrives, OwnStep, Bootstrap
<1>5. ASSUME NEW then \in {"cleanup", "storage", "nobody"}, ReportFor(then, None)
      PROVE \E r \in reports : Report(r)
  BY <1>5 DEF ReportFor
<1>6. CASE Breaks \/ End \/ TimeIsUp \/ PageHide \/ Leave \/ Unload \/ Mount
  BY <1>6 DEF Breaks, End, TimeIsUp, PageHide, Leave, Unload, Mount, OwnStep
<1>7. CASE Backend
  BY <1>7 DEF Backend, OwnStep, Bootstrap
<1> QED
  BY <1>1, <1>2, <1>3, <1>4, <1>5, <1>6, <1>7 DEF Next

\* Every step of a page is a step of the backend or leaves its rows alone.
LEMMA StepServer == TypeOK /\ [Next]_vars => [ServerNext]_serverVars
<1>1. OwnStep => [ServerNext]_serverVars
  BY DEF OwnStep, ServerNext
<1>2. ASSUME TypeOK, NEW r \in reports, Report(r) PROVE [ServerNext]_serverVars
  BY <1>2, ReportServer DEF TypeOK
<1> QED
  BY <1>1, <1>2, StepKinds

-----------------------------------------------------------------------------
(* What holds of the page whatever the user presses *)

Unbegun == {"idle"} \cup Pressed
Linked == {"signaling", "configuration", "confirming", "live"}

PageTypeOK ==
    /\ start \in [Attempts -> {"idle"} \cup Pressed \cup Running \cup Over]
    /\ {fresh, current, stored, client} \subseteq Attempts \cup {None}
    /\ starting \in BOOLEAN /\ cleanup \in BOOLEAN /\ mounted \in BOOLEAN
    /\ open \subseteq mic /\ mic \subseteq Attempts /\ sent \subseteq Attempts
    /\ reports \subseteq Reports

\* A start that waits for a report waits for one.
OwnReport ==
    \A r \in reports : r.then = "start" =>
        /\ r.by \in Attempts /\ start[r.by] = "recovering"
        /\ \A q \in reports : q.then = "start" /\ q.by = r.by => q = r

\* An id is drawn when its start begins, and reported when it runs no more.
UnbegunUnknown ==
    /\ \A a \in Attempts : start[a] \in Unbegun => a \notin {current, stored}
    /\ \A r \in reports : start[r.id] \notin Unbegun /\ r.id # fresh

\* What the refs say of the start that has the generation.
FreshHeld ==
    /\ fresh \in {None, current}
    /\ fresh # None => starting \/ client # None
    /\ fresh # None => (start[fresh] \in Linked => client = fresh)

\* A start has its microphone before its client.
HeldInTurn ==
    \A a \in Attempts :
        /\ start[a] = "bootstrap" => a \in mic
        /\ start[a] \in Unbegun \cup {"microphone", "bootstrap"} => a \notin open

\* No report is, or can be made, of a session that goes on.
LiveUnreported ==
    /\ \A a \in Attempts : start[a] = "live" /\ a \in {current, stored} => a = fresh
    /\ \A r \in reports : start[r.id] # "live"

HookInv ==
    /\ PageTypeOK /\ OwnReport /\ UnbegunUnknown /\ FreshHeld /\ HeldInTurn
    /\ LiveUnreported /\ Recoverable

\* What the backend has done for a start that got its secret.
LinkInv ==
    \A a \in Attempts : start[a] \in Linked => boot[a] = "granted"

IInv == ServerInv /\ HookInv /\ LinkInv /\ LiveMeansConnected

LEMMA IInvType == IInv => TypeOK
  BY DEF IInv, ServerInv, HookInv, PageTypeOK, TypeOK

LEMMA InitInv == Init => IInv
<1> SUFFICES ASSUME Init PROVE IInv
  OBVIOUS
<1>1. ServerInv
  BY ServerInitInv DEF Init
<1>2. HookInv
  BY VoiceAssumption DEF Init, HookInv, PageTypeOK, OwnReport, UnbegunUnknown, FreshHeld,
     HeldInTurn, LiveUnreported, Recoverable, Unbegun, Pressed, Connecting, Linked, Running, Over
<1>3. LinkInv /\ LiveMeansConnected
  BY DEF Init, LinkInv, LiveMeansConnected, Linked
<1> QED
  BY <1>1, <1>2, <1>3 DEF IInv

\* What a step of a start may bring about.
Onward ==
    \A a \in Attempts :
        /\ start'[a] \in Linked => start[a] \in Linked \/ boot[a] = "granted"
        /\ start'[a] = "live" => start[a] = "live" \/ status'[a] = "connected"

\* closeResources from a state where places and tracks differ from start and mic
\* by the end of the newest start only.
LEMMA HookCloses ==
  ASSUME HookInv, NEW places, NEW tracks, NEW outcome \in TerminalStatuses, NEW tries \in 1..2,
         places \in [Attempts -> {"idle"} \cup Pressed \cup Running \cup Over],
         \A a \in Attempts : places[a] # start[a] =>
             a = fresh /\ places[a] \in Over /\ start[a] \in Running,
         tracks \subseteq mic, open \subseteq tracks,
         \A a \in Attempts : places[a] = "bootstrap" => a \in tracks,
         Close(places, tracks, outcome, tries),
         UNCHANGED <<stored, sent>>, mounted' \in BOOLEAN
  PROVE  HookInv' /\ Onward
<1> USE VoiceAssumption DEF HookInv, PageTypeOK, OwnReport, UnbegunUnknown, FreshHeld, HeldInTurn,
        LiveUnreported, Recoverable, Unbegun, Pressed, Connecting, Linked, Running, Over
<1>1. CASE cleanup \/ current = None
  <2>1. /\ start' = places /\ mic' = tracks
        /\ UNCHANGED <<fresh, current, starting, client, open, cleanup, reports>>
    BY <1>1 DEF Close, refs
  <2>2. PageTypeOK' /\ FreshHeld' /\ HeldInTurn' /\ Recoverable'
    BY <2>1
  <2>3. UnbegunUnknown' /\ LiveUnreported'
    BY <2>1 DEF Reports
  <2>4. OwnReport' /\ Onward
    BY <2>1 DEF Onward
  <2> QED
    BY <2>2, <2>3, <2>4
<1>2. CASE ~(cleanup \/ current = None)
  <2> DEFINE r == Finish(current, outcome, tries, "cleanup", None)
  <2>1. /\ start' = [a \in Attempts |-> IF a \in Stopped(places) THEN "over" ELSE places[a]]
        /\ mic' = tracks \ (Stopped(places) \cup (open \cap {client}))
        /\ open' = open \ {client}
        /\ fresh' = None /\ client' = None /\ starting' = FALSE
        /\ current' = current /\ cleanup' = TRUE
        /\ reports' = reports \cup {r}
    BY <1>2 DEF Close, LeftOpen
  <2>2. r \in Reports /\ r.then = "cleanup" /\ r.id = current /\ current \in Attempts
    BY <1>2 DEF Finish, Reports
  <2> HIDE DEF r
  <2>3. Stopped(places) = {a \in {fresh, client} \cap Attempts :
                              places[a] \in Connecting \cup {"live"}}
    BY DEF Stopped
  <2>4. \A a \in Stopped(places) : a \in open => a = client
    BY <2>3
  <2>5. PageTypeOK'
    <3>1. start' \in [Attempts -> {"idle"} \cup Pressed \cup Running \cup Over]
      BY <2>1
    <3>2. mic' \subseteq Attempts /\ open' \subseteq mic' /\ sent' \subseteq Attempts
      BY <2>1, <2>4
    <3>3. reports' \subseteq Reports
      BY <2>1, <2>2
    <3>4. {fresh', current', stored', client'} \subseteq Attempts \cup {None}
      BY <2>1
    <3> QED
      BY <3>1, <3>2, <3>3, <3>4, <2>1
  <2>6. \A a \in Attempts : /\ start'[a] \in Unbegun <=> start[a] \in Unbegun
                            /\ start'[a] \in Unbegun => start'[a] = start[a]
                            /\ start'[a] \in Linked \cup {"microphone", "bootstrap"} => 
                                  start'[a] = start[a] /\ places[a] = start[a]
    BY <2>1, <2>3
  <2>7. \A a \in Attempts : start'[a] = "live" => a # fresh
    BY <2>1, <2>3
  <2>8. OwnReport'
    BY <2>1, <2>2, <2>6
  <2>9. UnbegunUnknown'
    <3>1. \A a \in Attempts : start'[a] \in Unbegun => a \notin {current', stored'}
      BY <2>1, <2>6
    <3>2. ASSUME NEW q \in reports' PROVE start'[q.id] \notin Unbegun /\ q.id # fresh'
      BY <2>1, <2>2, <2>6 DEF Reports
    <3> QED
      BY <3>1, <3>2
  <2>10. LiveUnreported'
    <3>1. \A a \in Attempts : start'[a] = "live" /\ a \in {current', stored'} => a = fresh'
      BY <2>1, <2>6, <2>7
    <3>2. ASSUME NEW q \in reports' PROVE start'[q.id] # "live"
      <4>1. CASE q \in reports
        BY <4>1, <2>6 DEF Reports
      <4>2. CASE q = r
        BY <4>2, <2>2, <2>6, <2>7
      <4> QED
        BY <2>1, <4>1, <4>2
    <3> QED
      BY <3>1, <3>2
  <2>11. FreshHeld' /\ Recoverable'
    BY <2>1
  <2>12. HeldInTurn'
    BY <2>1, <2>6
  <2>13. Onward
    BY <2>6 DEF Onward
  <2> QED
    BY <2>5, <2>8, <2>9, <2>10, <2>11, <2>12, <2>13
<1> QED
  BY <1>1, <1>2

LEMMA HookFails ==
  ASSUME HookInv, NEW a \in Attempts, start[a] \in Running, NEW tracks,
         tracks \subseteq mic, mic \subseteq tracks \cup {a}, open \subseteq tracks,
         Fails(a, tracks), UNCHANGED <<stored, sent, mounted>>
  PROVE  HookInv' /\ Onward
<1> USE VoiceAssumption DEF HookInv, PageTypeOK
<1>1. CASE fresh = a
  <2>1. /\ Close(At(a, "over"), tracks, "ended", 2)
        /\ At(a, "over") \in [Attempts -> {"idle"} \cup Pressed \cup Running \cup Over]
        /\ \A b \in Attempts : At(a, "over")[b] # start[b] =>
              b = fresh /\ At(a, "over")[b] \in Over /\ start[b] \in Running
    BY <1>1 DEF Fails, At, Over
  <2>2. \A b \in Attempts : At(a, "over")[b] = "bootstrap" => b \in tracks
    BY DEF At, HeldInTurn
  <2>3. "ended" \in TerminalStatuses /\ 2 \in 1..2
    BY DEF TerminalStatuses
  <2> QED
    BY <2>1, <2>2, <2>3, HookCloses
<1>2. CASE fresh # a
  <2> USE DEF OwnReport, UnbegunUnknown, FreshHeld, HeldInTurn,
        LiveUnreported, Recoverable, Unbegun, Pressed, Connecting, Linked, Running, Over
  <2>1. /\ start' = [start EXCEPT ![a] = "over"] /\ mic' = tracks
        /\ UNCHANGED <<fresh, current, starting, client, open, cleanup, reports>>
    BY <1>2 DEF Fails, At, refs
  <2>2. PageTypeOK' /\ OwnReport' /\ FreshHeld' /\ Recoverable'
    BY <2>1
  <2>3. UnbegunUnknown' /\ LiveUnreported'
    BY <2>1 DEF Reports
  <2>4. HeldInTurn' /\ Onward
    BY <2>1 DEF Onward
  <2> QED
    BY <2>2, <2>3, <2>4
<1> QED
  BY <1>1, <1>2

\* A start takes the hook's refs, whoever had them.
LEMMA HookBegins ==
  ASSUME HookInv, NEW a \in Attempts, start[a] \in Unbegun,
         Begin(a), reports' \subseteq reports,
         \A r \in reports' : r.then = "start" => r.by # a,
         UNCHANGED <<held, cleanup, sent, mounted>>
  PROVE  HookInv' /\ Onward
<1> USE VoiceAssumption DEF HookInv, PageTypeOK, OwnReport, UnbegunUnknown, FreshHeld, HeldInTurn,
        LiveUnreported, Recoverable, Unbegun, Pressed, Connecting, Linked, Running, Over
<1>1. /\ start' = [start EXCEPT ![a] = "microphone"]
      /\ fresh' = a /\ current' = a /\ stored' = a /\ starting' = TRUE
      /\ UNCHANGED <<client, open, mic, cleanup, sent, mounted>>
  BY DEF Begin, At, held
<1>2. \A r \in reports' : r.id # a /\ r \in Reports
  OBVIOUS
<1>3. PageTypeOK' /\ OwnReport'
  BY <1>1
<1>4. UnbegunUnknown' /\ LiveUnreported'
  BY <1>1, <1>2 DEF Reports
<1>5. FreshHeld' /\ HeldInTurn' /\ Recoverable' /\ Onward
  BY <1>1 DEF Onward
<1> QED
  BY <1>3, <1>4, <1>5

LEMMA HookPressed ==
  ASSUME HookInv, NEW a \in Attempts, PressStart(a) \/ CleanupAwaited(a)
  PROVE  HookInv' /\ Onward
<1>1. /\ start[a] \in {"idle", "waiting"}
      /\ UNCHANGED <<open, mic, cleanup, sent, mounted>>
      /\ (start' = At(a, "waiting") /\ UNCHANGED <<refs, stored, reports>>) \/ CheckAndBegin(a)
  BY DEF PressStart, CleanupAwaited, held
<1>2. \A r \in reports : r.then = "start" => r.by # a
  BY <1>1 DEF HookInv, OwnReport
<1>3. CASE Begin(a) /\ reports' = reports
  BY <1>1, <1>2, <1>3, HookBegins DEF Unbegun, Pressed, held
<1> USE VoiceAssumption DEF HookInv, PageTypeOK, OwnReport, UnbegunUnknown, FreshHeld, HeldInTurn,
        LiveUnreported, Recoverable, Unbegun, Pressed, Connecting, Linked, Running, Over
<1>4. ASSUME NEW place \in {"waiting", "over"},
             start' = At(a, place), UNCHANGED <<refs, stored, reports>>
      PROVE  HookInv' /\ Onward
  <2>1. /\ start' = [start EXCEPT ![a] = place]
        /\ UNCHANGED <<fresh, current, starting, client, stored, reports>>
    BY <1>4 DEF At, refs
  <2>2. PageTypeOK' /\ OwnReport' /\ FreshHeld' /\ Recoverable'
    BY <1>1, <1>2, <2>1
  <2>3. UnbegunUnknown' /\ LiveUnreported'
    BY <1>1, <2>1 DEF Reports
  <2>4. HeldInTurn' /\ Onward
    BY <1>1, <2>1 DEF Onward
  <2> QED
    BY <2>2, <2>3, <2>4
<1>5. CASE /\ ~starting /\ client = None /\ stored \notin {None, current}
           /\ start' = At(a, "recovering")
           /\ reports' = reports \cup {Finish(stored, "abandoned", 2, "start", a)}
           /\ UNCHANGED <<refs, stored>>
  <2> DEFINE r == Finish(stored, "abandoned", 2, "start", a)
  <2>1. /\ start' = [start EXCEPT ![a] = "recovering"]
        /\ UNCHANGED <<fresh, current, starting, client, stored>>
        /\ reports' = reports \cup {r}
    BY <1>5 DEF At, refs
  <2>2. r \in Reports /\ r.then = "start" /\ r.by = a /\ r.id = stored /\ stored \in Attempts
    BY <1>5 DEF Finish, Reports, TerminalStatuses
  <2> HIDE DEF r
  <2>3. fresh = None /\ start[stored] \notin Unbegun \cup {"live"}
    BY <1>5, <2>2
  <2>4. PageTypeOK' /\ FreshHeld' /\ Recoverable' /\ HeldInTurn' /\ Onward
    BY <1>1, <2>1, <2>2 DEF Onward
  <2>5. OwnReport'
    BY <1>1, <1>2, <2>1, <2>2
  <2>6. UnbegunUnknown' /\ LiveUnreported'
    BY <1>1, <2>1, <2>2, <2>3 DEF Reports
  <2> QED
    BY <2>4, <2>5, <2>6
<1> QED
  BY <1>1, <1>3, <1>4, <1>5 DEF CheckAndBegin

\* A start goes to a place where it owns no less than it should.
LEMMA HookMoves ==
  ASSUME HookInv, NEW a \in Attempts, NEW place, start[a] \in Running,
         place \in Running \cup Over, place \notin {"microphone", "live"},
         start' = [start EXCEPT ![a] = place],
         UNCHANGED <<fresh, current, starting, stored, reports, cleanup, sent, mounted>>,
         client' \in {client, fresh},
         open' \subseteq mic', mic' \subseteq Attempts,
         \A b \in Attempts : b # a => (b \in open' <=> b \in open) /\ (b \in mic' <=> b \in mic),
         place = "bootstrap" => a \in mic' /\ a \notin open',
         place \in Linked => start[a] \in Linked \/ boot[a] = "granted",
         a = fresh => (place \in Linked => client' = a),
         client' # client => client' = a
  PROVE  HookInv' /\ Onward
<1> USE VoiceAssumption DEF HookInv, PageTypeOK, OwnReport, UnbegunUnknown, FreshHeld, HeldInTurn,
        LiveUnreported, Recoverable, Unbegun, Pressed, Connecting, Linked, Running, Over
<1>1. PageTypeOK' /\ OwnReport' /\ Recoverable'
  OBVIOUS
<1>2. UnbegunUnknown' /\ LiveUnreported'
  BY DEF Reports
<1>3. FreshHeld' /\ HeldInTurn' /\ Onward
  BY DEF Onward
<1> QED
  BY <1>1, <1>2, <1>3

LEMMA HookMicrophone ==
  ASSUME HookInv, NEW a \in Attempts, MicrophoneGranted(a) \/ MicrophoneDenied(a)
  PROVE  HookInv' /\ Onward
<1>1. start[a] = "microphone" /\ start[a] \in Running /\ a \notin open
  BY DEF MicrophoneGranted, MicrophoneDenied, Running, HookInv, HeldInTurn
<1>2. mic \subseteq Attempts /\ open \subseteq mic
  BY DEF HookInv, PageTypeOK
<1>3. CASE MicrophoneDenied(a) /\ Fails(a, mic)
  BY <1>1, <1>2, <1>3, HookFails DEF MicrophoneDenied
<1>4. CASE MicrophoneDenied(a) /\ ~Fails(a, mic)
  BY <1>1, <1>2, <1>4, HookMoves DEF MicrophoneDenied, At, refs, held, Over, Linked
<1>5. CASE MicrophoneGranted(a) /\ fresh = a
  <2>1. /\ start' = [start EXCEPT ![a] = "bootstrap"]
        /\ mic' = mic \cup {a} /\ sent' = sent \cup {a}
        /\ UNCHANGED <<fresh, current, starting, client, open, stored, cleanup, reports, mounted>>
    BY <1>5 DEF MicrophoneGranted, At, refs
  <2> USE VoiceAssumption DEF HookInv, PageTypeOK, OwnReport, UnbegunUnknown, FreshHeld,
          HeldInTurn, LiveUnreported, Recoverable, Unbegun, Pressed, Connecting, Linked, Running, Over
  <2>2. PageTypeOK' /\ OwnReport' /\ Recoverable'
    BY <1>1, <2>1
  <2>3. UnbegunUnknown' /\ LiveUnreported'
    BY <1>1, <2>1 DEF Reports
  <2>4. FreshHeld' /\ HeldInTurn' /\ Onward
    BY <1>1, <2>1 DEF Onward
  <2> QED
    BY <2>2, <2>3, <2>4
<1>6. CASE MicrophoneGranted(a) /\ fresh # a
  BY <1>1, <1>2, <1>6, HookMoves DEF MicrophoneGranted, At, refs, Over, Linked
<1> QED
  BY <1>3, <1>4, <1>5, <1>6

LEMMA HookBootstrap ==
  ASSUME HookInv, NEW a \in Attempts, BootstrapSucceeds(a) \/ BootstrapFails(a)
  PROVE  HookInv' /\ Onward
<1>1. start[a] = "bootstrap" /\ start[a] \in Running /\ a \notin open /\ a \in mic
  BY DEF BootstrapSucceeds, BootstrapFails, Running, Connecting, HookInv, HeldInTurn
<1>2. mic \subseteq Attempts /\ open \subseteq mic /\ client \in Attempts \cup {None}
  BY DEF HookInv, PageTypeOK
<1>3. CASE BootstrapFails(a)
  <2> DEFINE tracks == IF client = None THEN mic \ {a} ELSE mic
  <2>1. tracks \subseteq mic /\ mic \subseteq tracks \cup {a} /\ open \subseteq tracks
    BY <1>1, <1>2
  <2>2. Fails(a, tracks) /\ UNCHANGED <<stored, sent, mounted>>
    BY <1>3 DEF BootstrapFails
  <2> HIDE DEF tracks
  <2> QED
    BY <1>1, <2>1, <2>2, HookFails
<1>4. CASE BootstrapSucceeds(a) /\ fresh # a
  <2>1. /\ start' = [start EXCEPT ![a] = "over"] /\ mic' = mic \ {a}
        /\ UNCHANGED <<fresh, current, starting, client, open, stored, cleanup, reports, sent, mounted>>
    BY <1>4 DEF BootstrapSucceeds, At, refs
  <2> QED
    BY <1>1, <1>2, <2>1, HookMoves DEF Over, Linked
<1>5. CASE /\ BootstrapSucceeds(a) /\ fresh = a
           /\ start' = At(a, "signaling") /\ client' = a /\ open' = open \cup {a}
           /\ UNCHANGED <<fresh, current, starting, mic, cleanup, reports>>
  <2>1. boot[a] = "granted" /\ UNCHANGED <<stored, sent, mounted>>
    BY <1>5 DEF BootstrapSucceeds
  <2> QED
    BY <1>1, <1>2, <1>5, <2>1, HookMoves DEF At, Running, Connecting
<1>6. CASE BootstrapSucceeds(a) /\ fresh = a /\ Close(At(a, "expired"), mic, "ended", 2)
  <2> USE DEF HookInv, PageTypeOK
  <2>1. /\ At(a, "expired") \in [Attempts -> {"idle"} \cup Pressed \cup Running \cup Over]
        /\ \A b \in Attempts : At(a, "expired")[b] # start[b] =>
              b = fresh /\ At(a, "expired")[b] \in Over /\ start[b] \in Running
    BY <1>1, <1>6 DEF At, Over
  <2>2. \A b \in Attempts : At(a, "expired")[b] = "bootstrap" => b \in mic
    BY DEF At, HeldInTurn
  <2>3. "ended" \in TerminalStatuses /\ 2 \in 1..2 /\ UNCHANGED <<stored, sent, mounted>>
    BY <1>6 DEF TerminalStatuses, BootstrapSucceeds
  <2> QED
    BY <1>6, <2>1, <2>2, <2>3, HookCloses
<1> QED
  BY <1>3, <1>4, <1>5, <1>6 DEF BootstrapSucceeds

LEMMA HookConnect ==
  ASSUME HookInv, NEW a \in Attempts, Signaled(a) \/ Configured(a) \/ ConnectFails(a)
  PROVE  HookInv' /\ Onward
<1>1. start[a] \in {"signaling", "configuration"} /\ start[a] \in Running \cap Linked
  BY DEF Signaled, Configured, ConnectFails, Running, Connecting, Linked
<1>2. /\ mic \subseteq Attempts /\ open \subseteq mic /\ client \in Attempts \cup {None}
      /\ a = fresh => client = a
  BY <1>1, VoiceAssumption DEF HookInv, PageTypeOK, FreshHeld
<1>3. CASE ConnectFails(a)
  BY <1>1, <1>2, <1>3, HookFails DEF ConnectFails
<1>4. CASE Signaled(a) \/ (Configured(a) /\ fresh = a)
  BY <1>1, <1>2, <1>4, HookMoves DEF Signaled, Configured, At, refs, held, Running, Connecting
<1>5. CASE Configured(a) /\ fresh # a
  <2>1. /\ start' = [start EXCEPT ![a] = "over"]
        /\ open' = open \ {a} /\ mic' = mic \ {a}
        /\ UNCHANGED <<fresh, current, starting, client, stored, cleanup, reports, sent, mounted>>
    BY <1>5 DEF Configured, Superseded, At, refs
  <2> QED
    BY <1>1, <1>2, <2>1, HookMoves DEF Over, Linked
<1> QED
  BY <1>3, <1>4, <1>5

LEMMA HookConfirm ==
  ASSUME HookInv, ServerTypeOK, NEW a \in Attempts, Confirmed(a) \/ ConfirmFails(a)
  PROVE  HookInv' /\ Onward
<1>1. start[a] = "confirming" /\ start[a] \in Running \cap Linked
  BY DEF Confirmed, ConfirmFails, Running, Linked
<1>2. /\ mic \subseteq Attempts /\ open \subseteq mic /\ client \in Attempts \cup {None}
      /\ a = fresh => client = a
  BY <1>1, VoiceAssumption DEF HookInv, PageTypeOK, FreshHeld
<1>3. CASE ConfirmFails(a)
  BY <1>1, <1>2, <1>3, HookFails DEF ConfirmFails
<1>4. CASE Confirmed(a) /\ fresh = a
  <2>1. /\ start' = [start EXCEPT ![a] = "live"] /\ starting' = FALSE
        /\ UNCHANGED <<fresh, current, client, open, mic, stored, cleanup, reports, sent, mounted>>
    BY <1>4 DEF Confirmed, At, held
  <2>2. status'[a] = "connected"
    BY <1>4 DEF Confirmed, MarkConnected, ConnectedOK, ServerTypeOK
  <2> USE VoiceAssumption DEF HookInv, PageTypeOK, OwnReport, UnbegunUnknown, FreshHeld,
          HeldInTurn, LiveUnreported, Recoverable, Unbegun, Pressed, Connecting, Linked, Running, Over
  <2>3. PageTypeOK' /\ OwnReport' /\ Recoverable'
    BY <1>1, <2>1
  <2>4. UnbegunUnknown' /\ LiveUnreported'
    BY <1>1, <1>4, <2>1 DEF Reports
  <2>5. FreshHeld' /\ HeldInTurn' /\ Onward
    BY <1>1, <1>2, <1>4, <2>1, <2>2 DEF Onward
  <2> QED
    BY <2>3, <2>4, <2>5
<1>5. CASE Confirmed(a) /\ fresh # a
  <2>1. /\ start' = [start EXCEPT ![a] = "over"]
        /\ open' = open \ {a} /\ mic' = mic \ {a}
        /\ UNCHANGED <<fresh, current, starting, client, stored, cleanup, reports, sent, mounted>>
    BY <1>5 DEF Confirmed, Superseded, At, refs
  <2> QED
    BY <1>1, <1>2, <2>1, HookMoves DEF Over, Linked
<1> QED
  BY <1>3, <1>4, <1>5

LEMMA HookSettled ==
  ASSUME HookInv, NEW r \in reports, NEW reported \in BOOLEAN, Settled(r, reported),
         UNCHANGED <<held, sent, mounted>>
  PROVE  HookInv' /\ Onward
<1>1. r \in Reports /\ reports' = reports \ {r} /\ UNCHANGED <<open, mic, sent, mounted>>
  BY DEF Settled, held, HookInv, PageTypeOK
<1>2. CASE r.then = "start"
  <2>1. /\ r.by \in Attempts /\ start[r.by] \in Unbegun /\ Begin(r.by) /\ cleanup' = cleanup
        /\ \A q \in reports' : q.then = "start" => q.by # r.by
    BY <1>1, <1>2 DEF Settled, HookInv, OwnReport, Unbegun, Pressed
  <2> QED
    BY <1>1, <2>1, HookBegins
<1>3. CASE r.then # "start"
  <2>1. /\ stored' \in {stored, None} /\ (stored' # stored => stored = r.id)
        /\ current' \in {current, None} /\ (current' # current => current = r.id)
        /\ UNCHANGED <<start, fresh, starting, client>>
    BY <1>3 DEF Settled, Clears
  <2>2. cleanup' \in BOOLEAN
    BY <1>3 DEF Settled, HookInv, PageTypeOK
  <2> USE VoiceAssumption DEF HookInv, PageTypeOK, OwnReport, UnbegunUnknown, FreshHeld,
          HeldInTurn, LiveUnreported, Recoverable
  <2>3. r.id # fresh
    OBVIOUS
  <2>4. PageTypeOK' /\ OwnReport'
    BY <1>1, <2>1, <2>2
  <2>5. UnbegunUnknown' /\ LiveUnreported'
    BY <1>1, <2>1
  <2>6. FreshHeld' /\ HeldInTurn' /\ Recoverable' /\ Onward
    BY <1>1, <2>1, <2>3 DEF Onward
  <2> QED
    BY <2>4, <2>5, <2>6
<1> QED
  BY <1>2, <1>3

LEMMA HookReports ==
  ASSUME HookInv, NEW r \in reports, Report(r)
  PROVE  HookInv' /\ Onward
<1>1. CASE Settled(r, TRUE) \/ Settled(r, FALSE)
  BY <1>1, HookSettled DEF Report
<1>2. CASE TryAgain(r) /\ ~(r.tries > 1)
  <2>1. Settled(r, FALSE)
    BY <1>2, Zenon DEF TryAgain
  <2> QED
    BY <2>1, HookSettled DEF Report
<1>3. CASE TryAgain(r) /\ r.tries > 1
  <2> DEFINE q == [r EXCEPT !.tries = @ - 1]
  <2>1. r \in Reports
    BY DEF HookInv, PageTypeOK
  <2>2. q \in Reports /\ q.id = r.id /\ q.then = r.then /\ q.by = r.by
    BY <1>3, <2>1 DEF Reports
  <2>3. /\ reports' = (reports \ {r}) \cup {q}
        /\ UNCHANGED <<start, fresh, current, starting, client, stored, cleanup, open, mic, sent, mounted>>
    BY <1>3 DEF TryAgain, Report, refs, held
  <2> HIDE DEF q
  <2> USE DEF HookInv, PageTypeOK, OwnReport, UnbegunUnknown, FreshHeld, HeldInTurn,
          LiveUnreported, Recoverable
  <2>4. PageTypeOK' /\ OwnReport' /\ FreshHeld' /\ HeldInTurn' /\ Recoverable' /\ Onward
    BY <2>2, <2>3 DEF Onward
  <2>5. UnbegunUnknown' /\ LiveUnreported'
    BY <2>2, <2>3
  <2> QED
    BY <2>4, <2>5
<1> QED
  BY <1>1, <1>2, <1>3 DEF Report

LEMMA HookEnds ==
  ASSUME HookInv, Breaks \/ End \/ TimeIsUp \/ PageHide \/ Leave
  PROVE  HookInv' /\ Onward
<1>1. mounted \in BOOLEAN /\ 1 \in 1..2 /\ 2 \in 1..2
  BY DEF HookInv, PageTypeOK
<1>2. mounted' \in BOOLEAN /\ UNCHANGED <<stored, sent>>
  BY <1>1 DEF Breaks, End, TimeIsUp, PageHide, Leave
<1>3. PICK outcome \in TerminalStatuses, tries \in 1..2 : Close(start, mic, outcome, tries)
  BY <1>1 DEF Breaks, End, TimeIsUp, PageHide, Leave, TerminalStatuses
<1>4. /\ start \in [Attempts -> {"idle"} \cup Pressed \cup Running \cup Over]
      /\ open \subseteq mic /\ \A a \in Attempts : start[a] = "bootstrap" => a \in mic
  BY DEF HookInv, PageTypeOK, HeldInTurn
<1> QED
  BY <1>2, <1>3, <1>4, HookCloses

LEMMA UnwatchedReport ==
  ASSUME NEW r \in Reports
  PROVE  Unwatched(r) \in Reports /\ Unwatched(r).then = "nobody" /\ Unwatched(r).id = r.id
BY DEF Unwatched, Finish, Reports

LEMMA HookGoes ==
  ASSUME HookInv, Unload \/ Mount
  PROVE  HookInv' /\ Onward
<1> USE VoiceAssumption DEF HookInv, PageTypeOK, OwnReport, UnbegunUnknown, FreshHeld,
        HeldInTurn, LiveUnreported, Recoverable, Unbegun, Pressed, Connecting, Linked, Running, Over
<1>1. CASE Unload
  <2>1. /\ start' = [a \in Attempts |->
               IF start[a] \in (Pressed \cup Running) \ {"confirming"} THEN "over" ELSE start[a]]
        /\ fresh' = None /\ current' = None /\ client' = None /\ ~starting' /\ ~cleanup'
        /\ open' = {} /\ mic' = {} /\ ~mounted' /\ UNCHANGED <<stored, sent>>
        /\ starting' \in BOOLEAN /\ cleanup' \in BOOLEAN /\ mounted' \in BOOLEAN
    BY <1>1 DEF Unload
  <2>2. ASSUME NEW q \in reports' PROVE q \in Reports /\ q.then = "nobody" /\ start[q.id] \notin Unbegun
    <3>1. PICK r \in reports : q = Unwatched(r)
      BY <1>1 DEF Unload
    <3>2. r \in Reports /\ start[r.id] \notin Unbegun
      OBVIOUS
    <3> QED
      BY <3>1, <3>2, UnwatchedReport
  <2>3. \A a \in Attempts : /\ start'[a] \in {"idle", "confirming"} \cup Over
                            /\ start'[a] \in Unbegun \cup Linked => start[a] = start'[a]
    BY <2>1
  <2>4. PageTypeOK' /\ OwnReport' /\ FreshHeld' /\ Recoverable'
    BY <2>1, <2>2
  <2>5. UnbegunUnknown' /\ LiveUnreported'
    BY <2>1, <2>2, <2>3 DEF Reports
  <2>6. HeldInTurn' /\ Onward
    BY <2>1, <2>3 DEF Onward
  <2> QED
    BY <2>4, <2>5, <2>6
<1>2. CASE Mount
  <2>1. /\ fresh = None /\ mounted' = TRUE /\ current' = None /\ cleanup' = FALSE
        /\ \A a \in Attempts : start[a] \notin Pressed
        /\ UNCHANGED <<start, fresh, starting, client, open, mic, stored, sent>>
    BY <1>2 DEF Mount, held
  <2>2. ASSUME NEW q \in reports'
        PROVE  q \in Reports /\ q.then # "start" /\ start[q.id] \notin Unbegun \cup {"live"}
    <3>1. ASSUME NEW r \in reports,
                 q = IF r.then = "cleanup" THEN [r EXCEPT !.then = "storage"] ELSE r
          PROVE  q \in Reports /\ q.then # "start" /\ q.id = r.id
      BY <2>1, <3>1 DEF Reports
    <3>2. CASE q = Finish(stored, "abandoned", 2, "storage", None) /\ stored \in Attempts
      BY <2>1, <3>2 DEF Finish, Reports, TerminalStatuses
    <3> QED
      BY <1>2, <3>1, <3>2 DEF Mount
  <2>3. PageTypeOK' /\ OwnReport' /\ FreshHeld' /\ Recoverable' /\ HeldInTurn' /\ Onward
    BY <2>1, <2>2 DEF Onward
  <2>4. UnbegunUnknown' /\ LiveUnreported'
    BY <2>1, <2>2 DEF Reports
  <2> QED
    BY <2>3, <2>4
<1> QED
  BY <1>1, <1>2

\* Steps that the page has no part in.
LEMMA HookIdle ==
  ASSUME HookInv, UNCHANGED <<start, refs, held, stored, cleanup, reports, mounted>>,
         sent' \subseteq sent
  PROVE  HookInv' /\ Onward
<1>1. UNCHANGED <<start, fresh, current, starting, client, open, mic, stored, cleanup, reports, mounted>>
  BY DEF refs, held
<1> QED
  BY <1>1 DEF HookInv, PageTypeOK, OwnReport, UnbegunUnknown, FreshHeld, HeldInTurn,
     LiveUnreported, Recoverable, Onward

LEMMA HookStep ==
  ASSUME HookInv, ServerTypeOK, [Next]_vars
  PROVE  HookInv' /\ Onward
<1>1. CASE UNCHANGED vars \/ Backend
  BY <1>1, HookIdle DEF vars, Backend, browserVars
<1>2. ASSUME NEW a \in Attempts, PressStart(a) PROVE HookInv' /\ Onward
  BY <1>2, HookPressed
<1>3. ASSUME NEW a \in Attempts, MicrophoneGranted(a) \/ MicrophoneDenied(a) PROVE HookInv' /\ Onward
  BY <1>3, HookMicrophone
<1>4. ASSUME NEW a \in Attempts, Proceeds(a) PROVE HookInv' /\ Onward
  BY <1>4, HookPressed, HookReports, HookBootstrap, HookConnect, HookConfirm
  DEF Proceeds, ReportFor
<1>5. ASSUME NEW a \in Attempts, Arrives(a) PROVE HookInv' /\ Onward
  BY <1>5, HookIdle DEF Arrives
<1>6. ASSUME NEW then \in {"cleanup", "storage", "nobody"}, ReportFor(then, None)
      PROVE HookInv' /\ Onward
  BY <1>6, HookReports DEF ReportFor
<1>7. CASE Breaks \/ End \/ TimeIsUp \/ PageHide \/ Leave
  BY <1>7, HookEnds
<1>8. CASE Unload \/ Mount
  BY <1>8, HookGoes
<1> QED
  BY <1>1, <1>2, <1>3, <1>4, <1>5, <1>6, <1>7, <1>8 DEF Next

LEMMA GrantedStays ==
  ASSUME ServerInv, [ServerNext]_serverVars, NEW x \in Attempts, boot[x] = "granted"
  PROVE  boot'[x] = "granted"
<1> USE DEF ServerInv, ServerTypeOK, Handling
<1>1. CASE UNCHANGED serverVars
  BY <1>1 DEF serverVars
<1>2. ASSUME NEW a \in Attempts, Bootstrap(a) PROVE boot'[x] = "granted"
  BY <1>2 DEF Bootstrap, ScanStale, AbandonStale, CreateAttempt, ProvisionAttempt, MarkFailed
<1>3. ASSUME NEW a \in Attempts, AgesOut(a) \/ MarkConnected(a) PROVE boot'[x] = boot[x]
  BY <1>3 DEF AgesOut, MarkConnected
<1>4. ASSUME NEW a \in Attempts, NEW outcome \in TerminalStatuses, FinishAttempt(a, outcome)
      PROVE boot'[x] = boot[x]
  BY <1>4 DEF FinishAttempt
<1>5. CASE Restart
  BY <1>5 DEF Restart
<1> QED
  BY <1>1, <1>2, <1>3, <1>4, <1>5 DEF ServerNext

StillConnected(a) == status[a] = "connected" \/ (a \in old /\ status[a] = "abandoned")

\* Nothing but its own report ends the row of a live session before it is stale.
LEMMA ConnectedStays ==
  ASSUME ServerInv, OwnStep, NEW x \in Attempts, boot[x] = "granted", StillConnected(x)
  PROVE  StillConnected(x)'
<1> USE DEF ServerInv, ServerTypeOK, NonTerminalStatuses, TerminalStatuses, StillConnected
<1>1. CASE UNCHANGED serverVars
  BY <1>1 DEF serverVars
<1>2. ASSUME NEW a \in Attempts, Bootstrap(a) PROVE StillConnected(x)'
  BY <1>2 DEF Bootstrap, ScanStale, AbandonStale, CreateAttempt, ProvisionAttempt, MarkFailed
<1>3. ASSUME NEW a \in Attempts, AgesOut(a) \/ MarkConnected(a) PROVE StillConnected(x)'
  BY <1>3 DEF AgesOut, MarkConnected
<1>4. CASE Restart
  BY <1>4 DEF Restart
<1> QED
  BY <1>1, <1>2, <1>3, <1>4 DEF OwnStep

LEMMA ReportOfOther ==
  ASSUME ServerInv, NEW r \in reports, Report(r), NEW x \in Attempts, r.id # x, StillConnected(x)
  PROVE  StillConnected(x)'
<1>1. CASE UNCHANGED serverVars
  BY <1>1 DEF serverVars, StillConnected
<1>2. CASE FinishAttempt(r.id, r.outcome)
  BY <1>2 DEF FinishAttempt, StillConnected, ServerInv, ServerTypeOK
<1> QED
  BY <1>1, <1>2 DEF Report

LEMMA LiveStep ==
  ASSUME IInv, [Next]_vars, NEW x \in Attempts, start[x] = "live"
  PROVE  StillConnected(x)'
<1>1. /\ ServerInv /\ boot[x] = "granted" /\ StillConnected(x)
      /\ \A r \in reports : r.id # x
  BY DEF IInv, HookInv, LinkInv, Linked, LiveMeansConnected, StillConnected, LiveUnreported
<1> QED
  BY <1>1, StepKinds, ConnectedStays, ReportOfOther

LEMMA NextInv == IInv /\ [Next]_vars => IInv'
<1> SUFFICES ASSUME IInv, [Next]_vars PROVE IInv'
  OBVIOUS
<1>1. HookInv' /\ Onward
  BY HookStep DEF IInv, ServerInv
<1>2. [ServerNext]_serverVars /\ ServerInv /\ ServerInv'
  BY IInvType, StepServer, ServerStepInv DEF IInv
<1>3. LinkInv'
  BY <1>1, <1>2, GrantedStays DEF IInv, LinkInv, Onward
<1>4. LiveMeansConnected'
  BY <1>1, LiveStep DEF LiveMeansConnected, StillConnected, Onward
<1> QED
  BY <1>1, <1>2, <1>3, <1>4 DEF IInv

LEMMA AlwaysInv == Spec => []IInv
  BY InitInv, NextInv, PTL DEF Spec

\* For any number of attempts, and whatever is pressed when: the refs, streams,
\* clients and reports of a page and the rows of its attempts keep their types.
THEOREM SessionTypes == Spec => []TypeOK
  BY IInvType, AlwaysInv, PTL

\* For any number of attempts, and whatever is pressed when: a live session's row
\* is connected, or stale (start() and onConnected in the page, the reports in
\* the backend).
THEOREM LiveIsConnected == Spec => []LiveMeansConnected
<1>1. IInv => LiveMeansConnected
  BY DEF IInv
<1> QED
  BY <1>1, AlwaysInv, PTL

\* For any number of attempts, and whatever is pressed when: sessionStorage names
\* the start that runs (sendFinish clears only the id it reported).
THEOREM RunningIsStored == Spec => []Recoverable
<1>1. IInv => Recoverable
  BY DEF IInv, HookInv
<1> QED
  BY <1>1, AlwaysInv, PTL

\* The page uses the backend as its interface allows, whatever is pressed when:
\* what was proved for any browsers holds of this one.
THEOREM PageImplementsServer == Spec => ServerSpec
<1>1. TypeOK /\ [Next]_vars => [ServerNext]_serverVars
  BY StepServer
<1>2. Init => ServerInit
  BY DEF Init
<1> QED
  BY <1>1, <1>2, SessionTypes, PTL DEF Spec, ServerSpec

\* Whatever is pressed when, in the page too an attempt has one outcome, and none
\* whose row is cancelled is handed a secret (start_attempt, finish).
THEOREM PageRowsDecide == Spec => ServerDecides
<1> QED
  BY PageImplementsServer, RowsDecide

-----------------------------------------------------------------------------
(* What holds while no one presses start beside a press that waits *)

\* A press that waits is alone: nothing runs beside it, and one report at most
\* is under way for it.
PressedAlone ==
    \A a \in Attempts : start[a] \in Pressed =>
        /\ fresh = None /\ client = None /\ ~starting
        /\ \A b \in Attempts : start[b] \in Pressed => b = a

StartReports ==
    \A r \in reports : r.then = "start" =>
        /\ r.by \in Attempts /\ start[r.by] = "recovering"
        /\ \A q \in reports : q.then = "start" => q = r

\* What the refs say while a start runs.
RefsAgree ==
    /\ cleanup => fresh = None
    /\ fresh # None => starting \/ client = fresh
    /\ starting => fresh # None
    /\ client # None => start[client] \in Linked

\* Where a start stands decides what it holds.
PlacesHold ==
    \A a \in Attempts :
        /\ start[a] \in Connecting \cup {"live"} => a = fresh
        /\ start[a] = "bootstrap" => a \in mic /\ client = None
        /\ start[a] \in {"signaling", "configuration", "live"} => a \in open
        /\ start[a] = "confirming" /\ a = fresh => a \in open
        /\ start[a] \in {"microphone", "over"} => a \notin mic

\* A cleanup waits for the report of the current attempt, and for no other; a
\* start does not wait for a report beside it.
CleanupReports ==
    /\ fresh = None => cleanup \/ current = None
    /\ \A a \in Attempts : start[a] = "recovering" => ~cleanup
    /\ \A r \in reports : r.then = "cleanup" =>
          /\ cleanup /\ r.id = current
          /\ \A q \in reports : q.then = "cleanup" => q = r

PageInv ==
    /\ PageTypeOK /\ PressedAlone /\ StartReports /\ UnbegunUnknown /\ CleanupReports
    /\ RefsAgree /\ PlacesHold /\ HeldByNewest /\ Recoverable

LEMMA InitPage == Init => PageInv
  BY VoiceAssumption DEF Init, PageInv, PageTypeOK, PressedAlone, StartReports, UnbegunUnknown,
     CleanupReports, RefsAgree, PlacesHold, HeldByNewest, Recoverable, Unbegun, Pressed,
     Connecting, Linked, Running, Over

\* closeResources from a state where places and tracks differ from start and mic
\* by the end of the newest start only.
LEMMA CloseInv ==
  ASSUME PageInv, NEW places, NEW tracks, NEW outcome \in TerminalStatuses, NEW tries \in 1..2,
         places \in [Attempts -> {"idle"} \cup Pressed \cup Running \cup Over],
         \A a \in Attempts : places[a] # start[a] =>
             a = fresh /\ places[a] \in Over /\ start[a] \in Running,
         tracks \subseteq mic, open \subseteq tracks,
         \A a \in tracks : places[a] = "expired" \/ a = fresh,
         fresh # None =>
             places[fresh] \in Connecting \cup {"live", "expired"} \/ fresh \notin tracks \/ fresh \in open,
         fresh = None => places = start /\ tracks = mic,
         Close(places, tracks, outcome, tries),
         UNCHANGED <<stored, sent>>, mounted' \in BOOLEAN
  PROVE  PageInv'
<1> USE VoiceAssumption DEF PageInv, PageTypeOK, PressedAlone, StartReports, UnbegunUnknown,
        CleanupReports, RefsAgree, PlacesHold, HeldByNewest, Recoverable, Unbegun, Pressed,
        Connecting, Linked, Running, Over
<1>1. CASE cleanup \/ current = None
  BY <1>1 DEF Close, refs
<1>2. CASE ~(cleanup \/ current = None)
  <2>1. /\ start' = [a \in Attempts |-> IF a \in Stopped(places) THEN "over" ELSE places[a]]
        /\ mic' = tracks \ (Stopped(places) \cup (open \cap {client}))
        /\ open' = open \ {client}
        /\ fresh' = None /\ client' = None /\ starting' = FALSE
        /\ current' = current /\ cleanup' = TRUE
        /\ reports' = reports \cup {Finish(current, outcome, tries, "cleanup", None)}
    BY <1>2 DEF Close, LeftOpen
  <2>2. Finish(current, outcome, tries, "cleanup", None) \in Reports
    BY <1>2 DEF Finish, Reports
  <2>3. open' = {} /\ current \in Attempts
    BY <1>2, <2>1
  <2>4. \A a \in Attempts : places[a] \in Connecting \cup {"live"} => a \in Stopped(places)
    BY DEF Stopped
  <2>5. PageTypeOK'
    <3>1. start' \in [Attempts -> {"idle"} \cup Pressed \cup Running \cup Over]
      BY <2>1
    <3>2. mic' \subseteq Attempts /\ open' \subseteq mic' /\ sent' \subseteq Attempts
      BY <2>1, <2>3
    <3>3. reports' \subseteq Reports
      BY <2>1, <2>2
    <3>4. {fresh', current', stored', client'} \subseteq Attempts \cup {None}
      BY <2>1, <2>3
    <3> QED
      BY <3>1, <3>2, <3>3, <3>4, <2>1
  <2>6. \A a \in Attempts : start'[a] \in Unbegun => start[a] = start'[a]
    BY <2>1 DEF Stopped
  <2>7. PressedAlone' /\ RefsAgree' /\ Recoverable'
    BY <2>1, <2>6
  <2>8. StartReports'
    BY <2>1, <2>6 DEF Finish, Stopped
  <2>9. UnbegunUnknown'
    <3>1. \A a \in Attempts : start'[a] \in Unbegun => a \notin {current', stored'}
      BY <2>1, <2>6
    <3>2. ASSUME NEW r \in reports' PROVE start'[r.id] \notin Unbegun /\ r.id # fresh'
      <4>1. CASE r \in reports
        BY <4>1, <2>1, <2>6 DEF Reports
      <4>2. CASE r = Finish(current, outcome, tries, "cleanup", None)
        BY <4>2, <2>1, <2>3, <2>6 DEF Finish
      <4> QED
        BY <3>2, <4>1, <4>2, <2>1
    <3> QED
      BY <3>1, <3>2
  <2>10. PlacesHold'
    BY <2>1, <2>4
  <2>11. HeldByNewest'
    BY <2>1, <2>3, <2>4
  <2>12. CleanupReports'
    <3>1. \A a \in Attempts : start[a] \notin Pressed
      BY <1>2
    <3>2. \A r \in reports' : r.then = "cleanup" =>
             r = Finish(current, outcome, tries, "cleanup", None)
      BY <1>2, <2>1
    <3> QED
      BY <3>1, <3>2, <2>1, <2>6 DEF Finish
  <2> QED
    BY <2>5, <2>7, <2>8, <2>9, <2>10, <2>11, <2>12
<1> QED
  BY <1>1, <1>2

\* The end of the newest start, or a closing that no start asked for.
LEMMA CloseAll ==
  ASSUME PageInv, NEW outcome \in TerminalStatuses, NEW tries \in 1..2,
         Close(start, mic, outcome, tries), UNCHANGED <<stored, sent>>, mounted' \in BOOLEAN
  PROVE  PageInv'
<1>1. fresh # None =>
        start[fresh] \in Connecting \cup {"live", "expired"} \/ fresh \notin mic \/ fresh \in open
  BY DEF PageInv, PageTypeOK, HeldByNewest, UnbegunUnknown, PlacesHold, Unbegun, Pressed, Running,
     Connecting, Over
<1>2. /\ open \subseteq mic
      /\ start \in [Attempts -> {"idle"} \cup Pressed \cup Running \cup Over]
      /\ \A a \in mic : start[a] = "expired" \/ a = fresh
  BY DEF PageInv, PageTypeOK, HeldByNewest
<1> QED
  BY <1>1, <1>2, CloseInv

LEMMA FailsInv ==
  ASSUME PageInv, NEW a \in Attempts, start[a] \in Running, NEW tracks,
         tracks \subseteq mic, mic \subseteq tracks \cup {a}, open \subseteq tracks,
         a \in tracks => a \in open,
         Fails(a, tracks), UNCHANGED <<stored, sent, mounted>>
  PROVE  PageInv'
<1> USE VoiceAssumption DEF PageInv, PageTypeOK
<1>1. CASE fresh = a
  <2>1. /\ Close(At(a, "over"), tracks, "ended", 2)
        /\ At(a, "over") \in [Attempts -> {"idle"} \cup Pressed \cup Running \cup Over]
        /\ \A b \in Attempts : At(a, "over")[b] # start[b] =>
              b = fresh /\ At(a, "over")[b] \in Over /\ start[b] \in Running
    BY <1>1 DEF Fails, At, Over
  <2>2. \A b \in tracks : At(a, "over")[b] = "expired" \/ b = fresh
    BY <1>1 DEF At, HeldByNewest
  <2>3. fresh \in Attempts /\ (fresh \notin tracks \/ fresh \in open)
    BY <1>1
  <2>4. "ended" \in TerminalStatuses /\ 2 \in 1..2
    BY DEF TerminalStatuses
  <2> QED
    BY <2>1, <2>2, <2>3, <2>4, CloseInv
<1>2. CASE fresh # a
  <2> USE DEF PressedAlone, StartReports, UnbegunUnknown, CleanupReports, RefsAgree, PlacesHold,
              HeldByNewest, Recoverable, Unbegun, Pressed, Connecting, Linked, Running, Over
  <2>1. /\ start' = [start EXCEPT ![a] = "over"] /\ mic' = tracks
        /\ UNCHANGED <<fresh, current, starting, client, open, cleanup, reports>>
    BY <1>2 DEF Fails, At, refs
  <2>2. a \notin open /\ a # client /\ mic' \subseteq Attempts
    BY <1>2, <2>1
  <2>3. PageTypeOK' /\ PressedAlone' /\ StartReports' /\ UnbegunUnknown'
    BY <2>1, <2>2
  <2>4. CleanupReports' /\ RefsAgree' /\ Recoverable'
    BY <2>1, <2>2
  <2>5. PlacesHold' /\ HeldByNewest'
    BY <1>2, <2>1, <2>2
  <2> QED
    BY <2>3, <2>4, <2>5
<1> QED
  BY <1>1, <1>2

\* A start that nothing runs beside takes the hook's refs.
LEMMA BeginInv ==
  ASSUME PageInv, NEW a \in Attempts, start[a] \in Unbegun, ~cleanup, fresh = None, client = None,
         \A b \in Attempts : start[b] \in Pressed => b = a,
         Begin(a), reports' \subseteq reports, \A r \in reports' : r.then # "start",
         UNCHANGED <<held, cleanup, sent, mounted>>
  PROVE  PageInv'
<1> USE VoiceAssumption DEF PageInv, PageTypeOK, PressedAlone, StartReports, UnbegunUnknown,
        CleanupReports, RefsAgree, PlacesHold, HeldByNewest, Recoverable, Unbegun, Pressed,
        Connecting, Linked, Running, Over
<1>1. /\ start' = [start EXCEPT ![a] = "microphone"]
      /\ fresh' = a /\ current' = a /\ stored' = a /\ starting' = TRUE
      /\ UNCHANGED <<client, open, mic, cleanup, sent, mounted>>
  BY DEF Begin, At, held
<1>2. \A r \in reports' : r.id # a /\ r.then # "cleanup" /\ r \in Reports
  BY DEF Reports
<1>3. PageTypeOK' /\ PressedAlone'
  BY <1>1
<1>4. UnbegunUnknown'
  BY <1>1, <1>2
<1>5. StartReports' /\ CleanupReports' /\ RefsAgree' /\ Recoverable'
  BY <1>1, <1>2
<1>6. PlacesHold' /\ HeldByNewest'
  BY <1>1
<1> QED
  BY <1>3, <1>4, <1>5, <1>6

\* A press, alone and after the cleanup before it.
LEMMA CheckInv ==
  ASSUME PageInv, NEW a \in Attempts, start[a] \in {"idle", "waiting"}, ~cleanup,
         \A b \in Attempts : start[b] \in Pressed => b = a,
         CheckAndBegin(a), UNCHANGED <<held, cleanup, sent, mounted>>
  PROVE  PageInv'
<1>1. \A r \in reports : r.then # "start"
  BY DEF PageInv, StartReports, Pressed
<1> USE VoiceAssumption DEF PageInv, PageTypeOK, PressedAlone, StartReports, UnbegunUnknown,
        CleanupReports, RefsAgree, PlacesHold, HeldByNewest, Recoverable, Unbegun, Pressed,
        Connecting, Linked, Running, Over
<1>2. CASE starting \/ client # None
  <2>1. /\ start' = [start EXCEPT ![a] = "over"]
        /\ UNCHANGED <<fresh, current, starting, client, stored, reports, open, mic, cleanup, sent, mounted>>
    BY <1>2 DEF CheckAndBegin, At, refs, held
  <2>2. a \notin mic /\ a # fresh
    OBVIOUS
  <2>3. PageTypeOK' /\ PressedAlone' /\ UnbegunUnknown' /\ StartReports'
    BY <1>1, <2>1
  <2>4. CleanupReports' /\ RefsAgree' /\ Recoverable' /\ PlacesHold' /\ HeldByNewest'
    BY <2>1, <2>2
  <2> QED
    BY <2>3, <2>4
<1>3. CASE ~starting /\ client = None /\ stored \notin {None, current}
  <2>1. /\ start' = [start EXCEPT ![a] = "recovering"]
        /\ reports' = reports \cup {Finish(stored, "abandoned", 2, "start", a)}
        /\ UNCHANGED <<fresh, current, starting, client, stored, open, mic, cleanup, sent, mounted>>
    BY <1>3 DEF CheckAndBegin, At, refs, held
  <2>2. Finish(stored, "abandoned", 2, "start", a) \in Reports
    BY <1>3 DEF Finish, Reports, TerminalStatuses
  <2>3. PageTypeOK' /\ PressedAlone'
    BY <1>3, <2>1, <2>2
  <2>4. UnbegunUnknown'
    BY <1>3, <2>1, <2>2 DEF Finish
  <2>5. StartReports' /\ CleanupReports'
    BY <1>1, <2>1 DEF Finish
  <2>6. RefsAgree' /\ Recoverable' /\ PlacesHold' /\ HeldByNewest'
    BY <2>1
  <2> QED
    BY <2>3, <2>4, <2>5, <2>6
<1>4. CASE ~starting /\ client = None /\ stored \in {None, current}
  <2>1. Begin(a) /\ UNCHANGED reports
    BY <1>4 DEF CheckAndBegin
  <2> QED
    BY <1>1, <1>4, <2>1, BeginInv
<1> QED
  BY <1>2, <1>3, <1>4

LEMMA PressInv ==
  ASSUME ~Impatient, PageInv, NEW a \in Attempts, PressStart(a) \/ CleanupAwaited(a)
  PROVE  PageInv'
<1>1. CASE PressStart(a) /\ cleanup
  <2> USE VoiceAssumption DEF PageInv, PageTypeOK, PressedAlone, StartReports, UnbegunUnknown,
        CleanupReports, RefsAgree, PlacesHold, HeldByNewest, Recoverable, Unbegun, Pressed,
        Connecting, Linked, Running, Over
  <2>1. /\ start[a] = "idle" /\ start' = [start EXCEPT ![a] = "waiting"]
        /\ \A b \in Attempts : start[b] \notin Pressed
        /\ UNCHANGED <<fresh, current, starting, client, stored, reports, open, mic, cleanup, sent, mounted>>
    BY <1>1 DEF PressStart, At, refs, held
  <2>2. fresh = None /\ client = None /\ ~starting
    BY <1>1
  <2>3. PageTypeOK' /\ UnbegunUnknown' /\ StartReports' /\ CleanupReports'
    BY <2>1
  <2>4. RefsAgree' /\ Recoverable' /\ PlacesHold' /\ HeldByNewest'
    BY <2>1
  <2>5. PressedAlone'
    BY <2>1, <2>2
  <2> QED
    BY <2>3, <2>4, <2>5
<1>2. CASE PressStart(a) /\ ~cleanup
  BY <1>2, CheckInv DEF PressStart, Pressed
<1>3. CASE CleanupAwaited(a)
  BY <1>3, CheckInv DEF CleanupAwaited, PageInv, PressedAlone, Pressed
<1> QED
  BY <1>1, <1>2, <1>3

LEMMA MicrophoneInv ==
  ASSUME PageInv, NEW a \in Attempts, MicrophoneGranted(a) \/ MicrophoneDenied(a)
  PROVE  PageInv'
<1> USE VoiceAssumption DEF PageInv, PageTypeOK
<1>1. a \notin mic /\ start[a] = "microphone" /\ a # client
  BY DEF MicrophoneGranted, MicrophoneDenied, PlacesHold, RefsAgree, Linked
<1>2. CASE MicrophoneDenied(a) /\ Fails(a, mic)
  BY <1>1, <1>2, FailsInv DEF MicrophoneDenied, Running
<1>3. CASE MicrophoneDenied(a) /\ ~Fails(a, mic)
  <2>1. /\ start' = [start EXCEPT ![a] = "over"]
        /\ UNCHANGED <<fresh, current, starting, client, stored, reports, open, mic, cleanup, sent, mounted>>
    BY <1>3 DEF MicrophoneDenied, At, refs, held
  <2> USE DEF PressedAlone, StartReports, UnbegunUnknown, CleanupReports, RefsAgree, PlacesHold,
              HeldByNewest, Recoverable, Unbegun, Pressed, Connecting, Linked, Running, Over
  <2>2. PageTypeOK' /\ PressedAlone' /\ UnbegunUnknown' /\ StartReports' /\ CleanupReports'
    BY <1>1, <2>1
  <2>3. RefsAgree' /\ Recoverable' /\ PlacesHold' /\ HeldByNewest'
    BY <1>1, <2>1
  <2> QED
    BY <2>2, <2>3
<1>4. CASE MicrophoneGranted(a)
  <2> USE DEF PressedAlone, StartReports, UnbegunUnknown, CleanupReports, RefsAgree, PlacesHold,
              HeldByNewest, Recoverable, Unbegun, Pressed, Connecting, Linked, Running, Over
  <2>1. /\ start' = [start EXCEPT ![a] = IF fresh = a THEN "bootstrap" ELSE "over"]
        /\ mic' = IF fresh = a THEN mic \cup {a} ELSE mic
        /\ sent' \subseteq Attempts
        /\ UNCHANGED <<fresh, current, starting, client, stored, reports, open, cleanup, mounted>>
    BY <1>4 DEF MicrophoneGranted, At, refs
  <2>2. fresh = a => client = None
    BY <1>1
  <2>3. PageTypeOK' /\ PressedAlone' /\ UnbegunUnknown' /\ StartReports' /\ CleanupReports'
    BY <1>1, <2>1
  <2>4. RefsAgree' /\ Recoverable' /\ HeldByNewest'
    BY <1>1, <2>1
  <2>5. PlacesHold'
    BY <1>1, <2>1, <2>2
  <2> QED
    BY <2>3, <2>4, <2>5
<1> QED
  BY <1>2, <1>3, <1>4

LEMMA BootstrapInv ==
  ASSUME PageInv, NEW a \in Attempts, BootstrapSucceeds(a) \/ BootstrapFails(a)
  PROVE  PageInv'
<1> USE VoiceAssumption DEF PageInv, PageTypeOK
<1>1. /\ start[a] = "bootstrap" /\ a = fresh /\ a \in mic /\ client = None /\ open = {}
      /\ current = a /\ ~cleanup
  BY DEF BootstrapSucceeds, BootstrapFails, PlacesHold, Connecting, HeldByNewest, RefsAgree
<1>2. CASE BootstrapFails(a)
  <2>1. Fails(a, mic \ {a}) /\ UNCHANGED <<stored, sent, mounted>>
    BY <1>1, <1>2 DEF BootstrapFails
  <2> QED
    BY <1>1, <2>1, FailsInv DEF Running, Connecting
<1>3. CASE BootstrapSucceeds(a) /\ Close(At(a, "expired"), mic, "ended", 2)
  <2>1. /\ At(a, "expired") \in [Attempts -> {"idle"} \cup Pressed \cup Running \cup Over]
        /\ \A b \in Attempts : At(a, "expired")[b] # start[b] =>
              b = fresh /\ At(a, "expired")[b] \in Over /\ start[b] \in Running
    BY <1>1 DEF At, Over, Running, Connecting
  <2>2. At(a, "expired")[fresh] = "expired" /\ \A b \in mic : At(a, "expired")[b] = "expired" \/ b = fresh
    BY <1>1 DEF At, HeldByNewest
  <2>3. "ended" \in TerminalStatuses /\ 2 \in 1..2 /\ UNCHANGED <<stored, sent, mounted>>
    BY <1>3 DEF TerminalStatuses, BootstrapSucceeds
  <2> QED
    BY <1>1, <1>3, <2>1, <2>2, <2>3, CloseInv
<1>4. CASE BootstrapSucceeds(a) /\ ~Close(At(a, "expired"), mic, "ended", 2)
  <2> USE DEF PressedAlone, StartReports, UnbegunUnknown, CleanupReports, RefsAgree, PlacesHold,
              HeldByNewest, Recoverable, Unbegun, Pressed, Connecting, Linked, Running, Over
  <2>1. /\ start' = [start EXCEPT ![a] = "signaling"]
        /\ client' = a /\ open' = {a} /\ boot[a] = "granted"
        /\ UNCHANGED <<fresh, current, starting, stored, reports, mic, cleanup, sent, mounted>>
    BY <1>1, <1>4 DEF BootstrapSucceeds, At
  <2>2. PageTypeOK' /\ PressedAlone' /\ UnbegunUnknown' /\ StartReports' /\ CleanupReports'
    BY <1>1, <2>1
  <2>3. RefsAgree' /\ Recoverable' /\ HeldByNewest' /\ PlacesHold'
    BY <1>1, <2>1
  <2> QED
    BY <2>2, <2>3
<1> QED
  BY <1>2, <1>3, <1>4

LEMMA ConnectInv ==
  ASSUME PageInv, NEW a \in Attempts, Signaled(a) \/ Configured(a) \/ ConnectFails(a)
  PROVE  PageInv'
<1> USE VoiceAssumption DEF PageInv, PageTypeOK
<1>1. start[a] \in {"signaling", "configuration"} /\ a = fresh /\ a \in open
  BY DEF Signaled, Configured, ConnectFails, PlacesHold, Connecting
<1>2. CASE ConnectFails(a)
  BY <1>1, <1>2, FailsInv DEF ConnectFails, Running, Connecting
<1>3. CASE Signaled(a) \/ Configured(a)
  <2> USE DEF PressedAlone, StartReports, UnbegunUnknown, CleanupReports, RefsAgree, PlacesHold,
              HeldByNewest, Recoverable, Unbegun, Pressed, Connecting, Linked, Running, Over
  <2>1. PICK place \in {"configuration", "confirming"} :
           /\ start' = [start EXCEPT ![a] = place]
           /\ UNCHANGED <<fresh, current, starting, client, stored, reports, open, mic, cleanup, sent, mounted>>
    BY <1>1, <1>3 DEF Signaled, Configured, At, refs, held
  <2>2. PageTypeOK' /\ PressedAlone' /\ UnbegunUnknown' /\ StartReports' /\ CleanupReports'
    BY <1>1, <2>1
  <2>3. RefsAgree' /\ Recoverable' /\ HeldByNewest' /\ PlacesHold'
    BY <1>1, <2>1
  <2> QED
    BY <2>2, <2>3
<1> QED
  BY <1>2, <1>3

LEMMA ConfirmInv ==
  ASSUME PageInv, ServerTypeOK, NEW a \in Attempts, Confirmed(a) \/ ConfirmFails(a)
  PROVE  PageInv'
<1> USE VoiceAssumption DEF PageInv, PageTypeOK
<1>1. start[a] = "confirming" /\ (a \in mic => a = fresh) /\ (a = fresh => a \in open /\ client = a)
  BY DEF Confirmed, ConfirmFails, PlacesHold, HeldByNewest
<1>2. CASE ConfirmFails(a)
  BY <1>1, <1>2, FailsInv DEF ConfirmFails, Running
<1>3. CASE Confirmed(a)
  <2> USE DEF PressedAlone, StartReports, UnbegunUnknown, CleanupReports, RefsAgree, PlacesHold,
              HeldByNewest, Recoverable, Unbegun, Pressed, Connecting, Linked, Running, Over
  <2>1. /\ start' = [start EXCEPT ![a] = IF fresh = a THEN "live" ELSE "over"]
        /\ starting' = IF fresh = a THEN FALSE ELSE starting
        /\ UNCHANGED <<fresh, current, client, stored, reports, cleanup, sent, mounted>>
    BY <1>3 DEF Confirmed, Superseded, At, refs
  <2>2. open' = open /\ mic' = mic
    <3>1. CASE fresh = a
      BY <1>3, <3>1 DEF Confirmed, held
    <3>2. CASE fresh # a
      <4>1. open' = open \ {a} /\ mic' = mic \ {a}
        BY <1>3, <3>2 DEF Confirmed, Superseded
      <4> QED
        BY <1>1, <3>2, <4>1
    <3> QED
      BY <3>1, <3>2
  <2>3. status'[a] = "connected"
    BY <1>3 DEF Confirmed, MarkConnected, ConnectedOK, ServerTypeOK
  <2>4. PageTypeOK'
    BY <2>1, <2>2
  <2>6. PressedAlone' /\ UnbegunUnknown'
    BY <1>1, <2>1
  <2>7. StartReports' /\ CleanupReports'
    BY <1>1, <2>1
  <2>5. RefsAgree' /\ Recoverable' /\ HeldByNewest' /\ PlacesHold'
    BY <1>1, <2>1, <2>2, <2>3
  <2> QED
    BY <2>4, <2>5, <2>6, <2>7
<1> QED
  BY <1>2, <1>3

LEMMA SettledInv ==
  ASSUME PageInv, NEW r \in reports, NEW reported \in BOOLEAN, Settled(r, reported),
         UNCHANGED <<held, sent, mounted>>
  PROVE  PageInv'
<1> USE VoiceAssumption DEF PageInv, PageTypeOK
<1>1. r \in Reports /\ reports' = reports \ {r} /\ UNCHANGED <<open, mic, sent, mounted>>
  BY DEF Settled, held
<1>2. CASE r.then = "start"
  <2>1. /\ r.by \in Attempts /\ start[r.by] = "recovering" /\ Begin(r.by) /\ cleanup' = cleanup
        /\ \A q \in reports' : q.then # "start"
    BY <1>1, <1>2 DEF Settled, StartReports
  <2>2. /\ start[r.by] \in Unbegun /\ ~cleanup /\ fresh = None /\ client = None
        /\ \A b \in Attempts : start[b] \in Pressed => b = r.by
    BY <2>1 DEF PressedAlone, CleanupReports, Pressed, Unbegun
  <2> QED
    BY <1>1, <2>1, <2>2, BeginInv
<1>3. CASE r.then # "start"
  <2> USE DEF PressedAlone, StartReports, UnbegunUnknown, CleanupReports, RefsAgree, PlacesHold,
              HeldByNewest, Recoverable
  <2>1. /\ stored' \in {stored, None} /\ (stored' # stored => stored = r.id)
        /\ current' \in {current, None} /\ (current' # current => current = r.id)
        /\ UNCHANGED <<start, fresh, starting, client>>
    BY <1>3 DEF Settled, Clears
  <2>2. /\ r.then = "cleanup" => ~cleanup' /\ (current = r.id => current' = None)
        /\ r.then # "cleanup" => cleanup' = cleanup /\ current' = current
        /\ cleanup' \in BOOLEAN
    BY <1>3 DEF Settled
  <2>3. r.id # fresh
    OBVIOUS
  <2>4. PageTypeOK'
    BY <1>1, <2>1, <2>2
  <2>5. PressedAlone' /\ UnbegunUnknown' /\ StartReports'
    BY <1>1, <2>1
  <2>6. CleanupReports'
    BY <1>1, <2>1, <2>2
  <2>7. RefsAgree' /\ Recoverable' /\ HeldByNewest' /\ PlacesHold'
    BY <1>1, <2>1, <2>2, <2>3
  <2> QED
    BY <2>4, <2>5, <2>6, <2>7
<1> QED
  BY <1>2, <1>3

LEMMA ReportInv ==
  ASSUME PageInv, NEW r \in reports, Report(r)
  PROVE  PageInv'
<1> USE VoiceAssumption DEF PageInv, PageTypeOK
<1>1. CASE Settled(r, TRUE) \/ Settled(r, FALSE)
  BY <1>1, SettledInv DEF Report
<1>2. CASE TryAgain(r) /\ r.tries = 1
  <2>1. ~(r.tries > 1)
    BY <1>2
  <2>2. Settled(r, FALSE)
    BY <1>2, <2>1, Zenon DEF TryAgain
  <2> QED
    BY <2>2, SettledInv DEF Report
<1>3. CASE TryAgain(r) /\ r.tries # 1
  <2> DEFINE q == [r EXCEPT !.tries = @ - 1]
  <2>1. r \in Reports /\ r.tries = 2
    BY <1>3 DEF Reports
  <2>2. /\ q \in Reports /\ q.id = r.id /\ q.then = r.then /\ q.by = r.by
    BY <2>1 DEF Reports
  <2>3. /\ reports' = (reports \ {r}) \cup {q}
        /\ UNCHANGED <<start, fresh, current, starting, client, stored, cleanup, open, mic, sent, mounted>>
    BY <1>3, <2>1 DEF TryAgain, Report, refs, held
  <2> HIDE DEF q
  <2> USE DEF PressedAlone, StartReports, UnbegunUnknown, CleanupReports, RefsAgree, PlacesHold,
              HeldByNewest, Recoverable
  <2>4. PageTypeOK' /\ PressedAlone' /\ UnbegunUnknown'
    BY <2>2, <2>3
  <2>5. StartReports' /\ CleanupReports'
    BY <2>2, <2>3
  <2>6. RefsAgree' /\ Recoverable' /\ HeldByNewest' /\ PlacesHold'
    BY <2>3
  <2> QED
    BY <2>4, <2>5, <2>6
<1> QED
  BY <1>1, <1>2, <1>3 DEF Report, TryAgain

LEMMA EndsInv ==
  ASSUME PageInv, Breaks \/ End \/ TimeIsUp \/ PageHide \/ Leave
  PROVE  PageInv'
<1>1. mounted \in BOOLEAN /\ 1 \in 1..2 /\ 2 \in 1..2
  BY DEF PageInv, PageTypeOK
<1>2. mounted' \in BOOLEAN /\ UNCHANGED <<stored, sent>>
  BY <1>1 DEF Breaks, End, TimeIsUp, PageHide, Leave
<1>3. PICK outcome \in TerminalStatuses, tries \in 1..2 : Close(start, mic, outcome, tries)
  BY <1>1 DEF Breaks, End, TimeIsUp, PageHide, Leave, TerminalStatuses
<1> QED
  BY <1>2, <1>3, CloseAll

LEMMA PageGoesInv ==
  ASSUME PageInv, Unload \/ Mount
  PROVE  PageInv'
<1> USE VoiceAssumption DEF PageInv, PageTypeOK, PressedAlone, StartReports, UnbegunUnknown,
        CleanupReports, RefsAgree, PlacesHold, HeldByNewest, Recoverable, Unbegun, Pressed,
        Connecting, Linked, Running, Over
<1>1. CASE Unload
  <2>1. /\ start' = [a \in Attempts |->
               IF start[a] \in (Pressed \cup Running) \ {"confirming"} THEN "over" ELSE start[a]]
        /\ fresh' = None /\ current' = None /\ client' = None /\ ~starting' /\ ~cleanup'
        /\ open' = {} /\ mic' = {} /\ ~mounted' /\ UNCHANGED <<stored, sent>>
        /\ starting' \in BOOLEAN /\ cleanup' \in BOOLEAN /\ mounted' \in BOOLEAN
    BY <1>1 DEF Unload
  <2>2. ASSUME NEW q \in reports' PROVE q \in Reports /\ q.then = "nobody" /\ start[q.id] \notin Unbegun
    <3>1. reports' = {Unwatched(r) : r \in reports}
      BY <1>1 DEF Unload
    <3>2. PICK r \in reports : q = Unwatched(r)
      BY <3>1
    <3>3. r \in Reports /\ start[r.id] \notin Unbegun
      OBVIOUS
    <3>4. q \in Reports /\ q.then = "nobody" /\ q.id = r.id
      BY <3>2, <3>3, UnwatchedReport
    <3> QED
      BY <3>3, <3>4
  <2>3. \A a \in Attempts : start'[a] \in {"idle", "confirming"} \cup Over
                            /\ (start'[a] \in Unbegun \cup Linked => start[a] = start'[a])
    BY <2>1
  <2>4. PageTypeOK'
    BY <2>1, <2>2
  <2>5. UnbegunUnknown'
    <3>1. \A a \in Attempts : start'[a] \in Unbegun => a \notin {current', stored'}
      BY <2>1, <2>3
    <3>2. ASSUME NEW q \in reports' PROVE start'[q.id] \notin Unbegun /\ q.id # fresh'
      BY <2>1, <2>2, <2>3 DEF Reports
    <3> QED
      BY <3>1, <3>2
  <2>6. StartReports' /\ CleanupReports' /\ PressedAlone'
    BY <2>1, <2>2, <2>3
  <2>7. RefsAgree' /\ Recoverable' /\ HeldByNewest' /\ PlacesHold'
    BY <2>1, <2>3
  <2> QED
    BY <2>4, <2>5, <2>6, <2>7
<1>2. CASE Mount
  <2>1. /\ fresh = None /\ \A a \in Attempts : start[a] \notin Pressed
        /\ mounted' = TRUE /\ current' = None /\ cleanup' = FALSE
        /\ UNCHANGED <<start, fresh, starting, client, open, mic, stored, sent>>
    BY <1>2 DEF Mount, held
  <2>2. ASSUME NEW q \in reports'
        PROVE q \in Reports /\ q.then \notin {"start", "cleanup"} /\ start[q.id] \notin Unbegun
    <3>1. CASE \E r \in reports : q = IF r.then = "cleanup" THEN [r EXCEPT !.then = "storage"] ELSE r
      <4>1. PICK r \in reports : q = IF r.then = "cleanup" THEN [r EXCEPT !.then = "storage"] ELSE r
        BY <3>1
      <4> QED
        BY <2>1, <4>1 DEF Reports
    <3>2. CASE q = Finish(stored, "abandoned", 2, "storage", None) /\ stored \in Attempts
      BY <3>2 DEF Finish, Reports, TerminalStatuses
    <3> QED
      BY <1>2, <3>1, <3>2 DEF Mount
  <2>3. PageTypeOK' /\ UnbegunUnknown'
    BY ZenonT(30), <2>1, <2>2 DEF Reports
  <2>4. StartReports' /\ CleanupReports' /\ PressedAlone'
    BY <2>1, <2>2
  <2>5. RefsAgree' /\ Recoverable' /\ HeldByNewest' /\ PlacesHold'
    BY <2>1
  <2> QED
    BY <2>3, <2>4, <2>5
<1> QED
  BY <1>1, <1>2

\* Steps that the page has no part in.
LEMMA IdleInv ==
  ASSUME PageInv, UNCHANGED <<start, refs, held, stored, cleanup, reports, mounted>>,
         sent' \subseteq sent
  PROVE  PageInv'
<1>1. UNCHANGED <<start, fresh, current, starting, client, open, mic, stored, cleanup, reports, mounted>>
  BY DEF refs, held
<1> QED
  BY <1>1 DEF PageInv, PageTypeOK, PressedAlone, StartReports, UnbegunUnknown, CleanupReports,
     RefsAgree, PlacesHold, HeldByNewest, Recoverable, Onward

LEMMA PageStep ==
  ASSUME ~Impatient, IInv, PageInv, [Next]_vars
  PROVE  PageInv'
<1>1. PageInv /\ ServerTypeOK
  BY DEF IInv, ServerInv
<1>2. CASE UNCHANGED vars \/ Backend
  BY <1>1, <1>2, IdleInv DEF vars, Backend, browserVars
<1>3. ASSUME NEW a \in Attempts, PressStart(a) PROVE PageInv'
  BY <1>1, <1>3, PressInv
<1>4. ASSUME NEW a \in Attempts, MicrophoneGranted(a) \/ MicrophoneDenied(a) PROVE PageInv'
  BY <1>1, <1>4, MicrophoneInv
<1>5. ASSUME NEW a \in Attempts, Proceeds(a) PROVE PageInv'
  <2>1. CASE CleanupAwaited(a)
    BY <1>1, <2>1, PressInv
  <2>2. CASE ReportFor("start", a)
    BY <1>1, <2>2, ReportInv DEF ReportFor
  <2>3. CASE BootstrapSucceeds(a) \/ BootstrapFails(a)
    BY <1>1, <2>3, BootstrapInv
  <2>4. CASE Signaled(a) \/ Configured(a) \/ ConnectFails(a)
    BY <1>1, <2>4, ConnectInv
  <2>5. CASE Confirmed(a) \/ ConfirmFails(a)
    BY <1>1, <2>5, ConfirmInv
  <2> QED
    BY <1>5, <2>1, <2>2, <2>3, <2>4, <2>5 DEF Proceeds
<1>6. ASSUME NEW a \in Attempts, Arrives(a) PROVE PageInv'
  BY <1>1, <1>6, IdleInv DEF Arrives
<1>7. ASSUME NEW then \in {"cleanup", "storage", "nobody"}, ReportFor(then, None)
      PROVE PageInv'
  BY <1>1, <1>7, ReportInv DEF ReportFor
<1>8. CASE Breaks \/ End \/ TimeIsUp \/ PageHide \/ Leave
  BY <1>1, <1>8, EndsInv
<1>9. CASE Unload \/ Mount
  BY <1>1, <1>9, PageGoesInv
<1> QED
  BY <1>2, <1>3, <1>4, <1>5, <1>6, <1>7, <1>8, <1>9 DEF Next

LEMMA AlwaysPage == ASSUME ~Impatient PROVE Spec => []PageInv
<1>1. IInv /\ PageInv /\ [Next]_vars => PageInv'
  BY PageStep
<1> QED
  BY <1>1, InitPage, AlwaysInv, PTL DEF Spec

\* For any number of attempts, if nobody presses start or leaves the page while a
\* press waits: the only open client is the newest start's, and a microphone is on
\* for the newest start or one whose secret had expired before connect() took the
\* stream (useRealtimeVoice.ts: generationRef, clientRef, closeResources).
LEMMA NewestHolds == ASSUME ~Impatient PROVE Spec => []HeldByNewest
<1>1. PageInv => HeldByNewest
  BY DEF PageInv
<1> QED
  BY <1>1, AlwaysPage, PTL

\* Both, if nobody presses start or leaves the page while a press waits: the only
\* open client is the newest start's and the backend's row of a live session says
\* so; but for starts whose secret had expired, which keep a microphone on that no
\* cleanup stops, no other microphone is on.
THEOREM CurrentSession == ASSUME ~Impatient PROVE Spec => []SessionIsCurrent
<1>1. HeldByNewest /\ LiveMeansConnected => SessionIsCurrent
  BY DEF SessionIsCurrent
<1> QED
  BY <1>1, NewestHolds, LiveIsConnected, PTL

-----------------------------------------------------------------------------
(* What the storage forgets *)

\* While a start waits for the report of an earlier attempt, the storage names
\* that attempt or none.
StoredIsReported ==
    \A r \in reports : r.then = "start" => stored \in {None, r.id}

Forgets ==
    stored \notin {None, stored'} =>
        \/ status'[stored] \in TerminalStatuses
        \/ \E r \in reports \ reports' : r.id = stored /\ r.then = "start"

\* A step that leaves the storage alone and lets no start wait for a report.
Quiet == stored' = stored /\ \A r \in reports' : r.then = "start" => r \in reports

LEMMA CloseQuiet ==
  ASSUME NEW places, NEW tracks, NEW outcome, NEW tries, Close(places, tracks, outcome, tries)
  PROVE  \A r \in reports' : r.then = "start" => r \in reports
BY DEF Close, Finish

LEMMA GoesQuiet ==
  ASSUME PageInv, Unload \/ Mount
  PROVE  Quiet
<1>1. CASE Unload
  BY <1>1 DEF Unload, Unwatched, Finish, Quiet
<1>2. CASE Mount
  <2>1. \A r \in reports : [r EXCEPT !.then = "storage"].then = "storage"
    BY DEF PageInv, PageTypeOK, Reports
  <2>2. ASSUME NEW q \in reports', q.then = "start" PROVE q \in reports
    <3>1. PICK r \in reports : q = IF r.then = "cleanup" THEN [r EXCEPT !.then = "storage"] ELSE r
      BY <1>2, <2>2 DEF Mount, Finish
    <3> QED
      BY <2>1, <2>2, <3>1
  <2> QED
    BY <1>2, <2>2 DEF Mount, Quiet
<1> QED
  BY <1>1, <1>2

LEMMA QuietKinds ==
  ASSUME PageInv, [Next]_vars
  PROVE  \/ Quiet
         \/ \E a \in Attempts : PressStart(a) \/ CleanupAwaited(a)
         \/ \E r \in reports : Report(r)
<1>1. CASE UNCHANGED vars \/ Backend
  BY <1>1 DEF vars, Backend, browserVars, Quiet
<1>2. ASSUME NEW a \in Attempts, MicrophoneGranted(a) \/ Signaled(a) \/ Arrives(a) PROVE Quiet
  BY <1>2 DEF MicrophoneGranted, Signaled, Arrives, Quiet
<1>3. ASSUME NEW a \in Attempts, MicrophoneDenied(a) \/ BootstrapFails(a) \/ ConnectFails(a)
                                   \/ ConfirmFails(a)
      PROVE Quiet
  <2>1. stored' = stored
    BY <1>3 DEF MicrophoneDenied, BootstrapFails, ConnectFails, ConfirmFails
  <2>2. \/ reports' = reports
        \/ \E tracks : Fails(a, tracks)
    BY <1>3 DEF MicrophoneDenied, BootstrapFails, ConnectFails, ConfirmFails
  <2> QED
    BY <2>1, <2>2, CloseQuiet DEF Fails, Quiet
<1>4. ASSUME NEW a \in Attempts, BootstrapSucceeds(a) PROVE Quiet
  BY <1>4, CloseQuiet DEF BootstrapSucceeds, Quiet
<1>5. ASSUME NEW a \in Attempts, Configured(a) \/ Confirmed(a) PROVE Quiet
  BY <1>5 DEF Configured, Confirmed, Superseded, Quiet
<1>6. CASE Breaks \/ End \/ TimeIsUp \/ PageHide \/ Leave
  BY <1>6, CloseQuiet DEF Breaks, End, TimeIsUp, PageHide, Leave, Quiet
<1>7. CASE Unload \/ Mount
  BY <1>7, GoesQuiet
<1> QED
  BY <1>1, <1>2, <1>3, <1>4, <1>5, <1>6, <1>7 DEF Next, Proceeds, ReportFor

\* A start draws its id when nothing is stored, or after the report it waited for.
LEMMA PressForgets ==
  ASSUME ~Impatient, PageInv, StoredIsReported, NEW a \in Attempts,
         PressStart(a) \/ CleanupAwaited(a)
  PROVE  StoredIsReported' /\ Forgets
<1>1. /\ start[a] \in {"idle", "waiting"}
      /\ \A b \in Attempts : start[b] \in Pressed => b = a
  BY DEF PressStart, CleanupAwaited, PageInv, PressedAlone, Pressed
<1>2. \A r \in reports : r.then # "start"
  BY <1>1 DEF PageInv, StartReports, Pressed
<1>3. CASE stored' = stored /\ reports' = reports
  BY <1>3 DEF StoredIsReported, Forgets
<1>4. CASE ~cleanup /\ CheckAndBegin(a)
  <2>1. CASE stored' = stored /\ reports' = reports \cup {Finish(stored, "abandoned", 2, "start", a)}
    BY <1>2, <2>1 DEF Finish, StoredIsReported, Forgets
  <2>2. CASE /\ ~starting /\ client = None /\ stored \in {None, current}
             /\ Begin(a) /\ reports' = reports
    <3>1. fresh = None
      BY <2>2 DEF PageInv, RefsAgree
    <3>2. current = None
      BY <1>4, <3>1 DEF PageInv, CleanupReports
    <3> QED
      BY <1>2, <2>2, <3>2 DEF StoredIsReported, Forgets
  <2> QED
    BY <1>3, <1>4, <2>1, <2>2 DEF CheckAndBegin
<1> QED
  BY <1>3, <1>4 DEF PressStart, CleanupAwaited

LEMMA SettledForgets ==
  ASSUME PageInv, StoredIsReported, NEW r \in reports, NEW reported \in BOOLEAN,
         Settled(r, reported), reported => status'[r.id] \in TerminalStatuses
  PROVE  StoredIsReported' /\ Forgets
<1>1. reports' = reports \ {r}
  BY DEF Settled
<1>2. CASE r.then = "start"
  <2>1. stored \in {None, r.id} /\ r \in reports \ reports'
    BY <1>1, <1>2 DEF StoredIsReported
  <2>2. \A q \in reports' : q.then # "start"
    BY <1>1, <1>2 DEF PageInv, StartReports
  <2> QED
    BY <1>2, <2>1, <2>2 DEF StoredIsReported, Forgets
<1>3. CASE r.then # "start"
  <2>1. stored' = IF Clears(r, reported) THEN None ELSE stored
    BY <1>3 DEF Settled
  <2>2. StoredIsReported'
    BY <1>1, <2>1 DEF StoredIsReported
  <2>3. Forgets
    BY <2>1 DEF Clears, Forgets
  <2> QED
    BY <2>2, <2>3
<1> QED
  BY <1>2, <1>3

LEMMA ReportForgets ==
  ASSUME PageInv, ServerTypeOK, StoredIsReported, NEW r \in reports, Report(r)
  PROVE  StoredIsReported' /\ Forgets
<1>1. r \in Reports
  BY DEF PageInv, PageTypeOK
<1>2. CASE Settled(r, TRUE) /\ FinishAttempt(r.id, r.outcome)
  <2>1. status'[r.id] \in TerminalStatuses
    BY <1>1, <1>2 DEF FinishAttempt, ServerTypeOK, Reports
  <2> QED
    BY <1>2, <2>1, SettledForgets
<1>3. CASE Settled(r, FALSE)
  BY <1>3, SettledForgets
<1>4. CASE TryAgain(r) /\ r.tries > 1
  <2> DEFINE q == [r EXCEPT !.tries = @ - 1]
  <2>1. q.id = r.id /\ q.then = r.then
    BY <1>1 DEF Reports
  <2>2. reports' = (reports \ {r}) \cup {q} /\ stored' = stored
    BY <1>4 DEF TryAgain
  <2> HIDE DEF q
  <2> QED
    BY <2>1, <2>2 DEF StoredIsReported, Forgets
<1>5. CASE TryAgain(r) /\ ~(r.tries > 1)
  BY <1>3, <1>5, Zenon DEF TryAgain
<1> QED
  BY <1>2, <1>3, <1>4, <1>5, Zenon DEF Report

LEMMA ForgetsStep ==
  ASSUME ~Impatient, IInv, PageInv, StoredIsReported, [Next]_vars
  PROVE  StoredIsReported' /\ Forgets
<1>1. PageInv /\ ServerTypeOK
  BY DEF IInv, ServerInv
<1>2. CASE Quiet
  BY <1>2 DEF Quiet, StoredIsReported, Forgets
<1> QED
  BY <1>1, <1>2, QuietKinds, PressForgets, ReportForgets

\* For any number of attempts: the storage forgets an attempt when the backend has
\* its end, or after the next start has tried to report it (sendFinish, start()).
THEOREM StoredUntilReported == ASSUME ~Impatient PROVE Spec => KeptUntilReported
<1>1. Init => StoredIsReported
  BY DEF Init, StoredIsReported
<1>2. IInv /\ PageInv /\ StoredIsReported /\ [Next]_vars => StoredIsReported'
  BY ForgetsStep
<1>3. IInv /\ PageInv /\ StoredIsReported /\ [Next]_vars =>
        [stored \notin {None, stored'} =>
            \/ status'[stored] \in TerminalStatuses
            \/ \E r \in reports \ reports' : r.id = stored /\ r.then = "start"]_vars
  BY ForgetsStep DEF Forgets
<1> QED
  BY <1>1, <1>2, <1>3, AlwaysInv, AlwaysPage, PTL DEF Spec, KeptUntilReported

\* Both: no attempt is forgotten before the backend knows how it ended.
THEOREM NoneForgotten == ASSUME ~Impatient PROVE Spec => ReportsKept
<1>1. []Recoverable /\ KeptUntilReported => ReportsKept
  BY DEF ReportsKept
<1> QED
  BY <1>1, RunningIsStored, StoredUntilReported, PTL
=============================================================================
