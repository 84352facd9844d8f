----------------------------- MODULE VoiceSession -----------------------------
(***************************************************************************)
(* A browser call as the page sees it: the React hook useRealtimeVoice and *)
(* the BrowserRealtimeClient it makes, on top of the backend of            *)
(* RealtimeAttempt.  JavaScript runs from one await to the next without    *)
(* interruption, so such a stretch is one action.  A press of the start    *)
(* button is named after the attempt it may make.                          *)
(***************************************************************************)
EXTENDS RealtimeAttempt, Naturals, FiniteSets

CONSTANTS
    None,         \* null
    Impatient,    \* whether the user may press start again, or leave the page,
                  \* while a press still waits for an earlier attempt's report
    MaxLeft       \* bound: reports under way when a page goes or comes

ASSUME VoiceAssumption ==
    None \notin Attempts /\ Impatient \in BOOLEAN /\ MaxLeft \in Nat

VARIABLES
    start,      \* where each press of the start button stands
    fresh,      \* the attempt of the current generationRef, None after a cleanup
    current,    \* callAttemptIdRef
    stored,     \* the attempt's id in sessionStorage
    starting,   \* startingRef
    client,     \* clientRef: the attempt its client was made for
    cleanup,    \* cleanupPromiseRef is set
    open,       \* clients that hold stream, session and transport
    mic,        \* attempts whose microphone tracks are not stopped
    sent,       \* bootstrap requests on their way
    reports,    \* finish requests under way
    mounted     \* the page shows the component

refs == <<fresh, current, starting, client>>
held == <<open, mic>>
browserVars == <<start, refs, held, stored, cleanup, sent, reports, mounted>>
vars == <<serverVars, browserVars>>

-----------------------------------------------------------------------------
\* Before, during and after the part of start() that owns the hook's refs.
Pressed == {"waiting", "recovering"}
Connecting == {"bootstrap", "signaling", "configuration"}
Running == {"microphone", "confirming", "live"} \cup Connecting
Over == {"over", "expired"}

\* then: what the answer continues, "nobody" if the page is gone.
\* tries: requests left, the present one included; a keepalive request has one.
Reports ==
    [id : Attempts, outcome : TerminalStatuses, tries : 1..2,
     then : {"cleanup", "storage", "start", "nobody"}, by : Attempts \cup {None}]

Finish(a, outcome, tries, then, by) ==
    [id |-> a, outcome |-> outcome, tries |-> tries, then |-> then, by |-> by]

TypeOK ==
    /\ ServerTypeOK
    /\ start \in [Attempts -> {"idle"} \cup Pressed \cup Running \cup Over]
    /\ {fresh, current, stored, client} \subseteq Attempts \cup {None}
    /\ starting \in BOOLEAN /\ cleanup \in BOOLEAN /\ mounted \in BOOLEAN
    /\ open \subseteq mic /\ mic \subseteq Attempts /\ sent \subseteq Attempts
    /\ reports \subseteq Reports

Init ==
    /\ ServerInit
    /\ start = [a \in Attempts |-> "idle"]
    /\ fresh = None /\ current = None /\ stored = None /\ client = None
    /\ starting = FALSE /\ cleanup = FALSE /\ mounted = TRUE
    /\ open = {} /\ mic = {} /\ sent = {} /\ reports = {}

-----------------------------------------------------------------------------
(* closeResources and fail *)

At(a, place) == [start EXCEPT ![a] = place]

\* The steps of start() that closing ends: an aborted fetch rejects, a closed
\* client makes connect() return, and the interval is cleared.
Stopped(places) ==
    {a \in {fresh, client} \cap Attempts : places[a] \in Connecting \cup {"live"}}

\* Mutant: the client is forgotten unclosed.
LeftOpenForgotten == open
\* The clients that stay open when clientRef is closed.
LeftOpen == open \ {client}

\* closeResources(outcome): nothing without resources or while an earlier
\* cleanup runs.  client.close() stops the tracks of the stream it was given in
\* connect(); a client that is not open has none.  The report is sent at once.
Close(places, tracks, outcome, tries) ==
    IF cleanup \/ current = None
    THEN /\ start' = places
         /\ mic' = tracks
         /\ UNCHANGED <<refs, open, cleanup, reports>>
    ELSE /\ start' = [a \in Attempts |->
                        IF a \in Stopped(places) THEN "over" ELSE places[a]]
         /\ mic' = tracks \ (Stopped(places) \cup (open \cap {client}))
         /\ open' = LeftOpen
         /\ fresh' = None /\ client' = None /\ starting' = FALSE
         /\ UNCHANGED current
         /\ cleanup' = TRUE
         /\ reports' = reports \cup {Finish(current, outcome, tries, "cleanup", None)}

\* The end of start() by an exception: fail() unless a newer generation runs.
Fails(a, tracks) ==
    IF fresh = a
    THEN Close(At(a, "over"), tracks, "ended", 2)
    ELSE /\ start' = At(a, "over")
         /\ mic' = tracks
         /\ UNCHANGED <<refs, open, cleanup, reports>>

-----------------------------------------------------------------------------
(* start(), up to the microphone *)

\* The generation, the attempt's id and its copy for a reload.
Begin(a) ==
    /\ start' = At(a, "microphone")
    /\ fresh' = a /\ current' = a /\ stored' = a /\ starting' = TRUE
    /\ UNCHANGED client

\* The guards, and the report of an attempt that sessionStorage still names.
CheckAndBegin(a) ==
    IF starting \/ client # None
    THEN start' = At(a, "over") /\ UNCHANGED <<refs, stored, reports>>
    ELSE IF stored \notin {None, current}
    THEN /\ start' = At(a, "recovering")
         /\ reports' = reports \cup {Finish(stored, "abandoned", 2, "start", a)}
         /\ UNCHANGED <<refs, stored>>
    ELSE Begin(a) /\ UNCHANGED reports

PressStart(a) ==
    /\ mounted
    /\ start[a] = "idle"
    /\ Impatient \/ \A b \in Attempts : start[b] \notin Pressed
    /\ IF cleanup
       THEN start' = At(a, "waiting") /\ UNCHANGED <<refs, stored, reports>>
       ELSE CheckAndBegin(a)
    /\ UNCHANGED <<serverVars, held, cleanup, sent, mounted>>

CleanupAwaited(a) ==
    /\ start[a] = "waiting"
    /\ ~cleanup
    /\ CheckAndBegin(a)
    /\ UNCHANGED <<serverVars, held, cleanup, sent, mounted>>

-----------------------------------------------------------------------------
(* Reports of the outcome: sendFinish and what waits for it *)

\* Mutant: the storage is emptied although the report was lost.
ClearsUnreported(r, reported) == stored = r.id /\ r.then # "nobody"
\* Whether the answer takes the attempt's id out of the storage.
Clears(r, reported) == reported /\ stored = r.id /\ r.then # "nobody"

\* What waited for the report goes on: a start that goes ahead in any case, or
\* the cleanup.
Settled(r, reported) ==
    /\ reports' = reports \ {r}
    /\ IF r.then = "start"
       THEN Begin(r.by) /\ UNCHANGED cleanup
       ELSE /\ stored' = IF Clears(r, reported) THEN None ELSE stored
            /\ IF r.then = "cleanup"
               THEN /\ current' = IF current = r.id THEN None ELSE current
                    /\ cleanup' = FALSE
               ELSE UNCHANGED <<current, cleanup>>
            /\ UNCHANGED <<start, fresh, starting, client>>

\* Mutant: the last failure is swallowed, and nothing that waits goes on.
TryAgainOnly(r) ==
    /\ reports' = (reports \ {r})
          \cup (IF r.tries > 1 THEN {[r EXCEPT !.tries = @ - 1]} ELSE {})
    /\ UNCHANGED <<start, refs, stored, cleanup>>

\* No answer, or a server error: the next try, or none.
TryAgain(r) ==
    IF r.tries > 1
    THEN /\ reports' = (reports \ {r}) \cup {[r EXCEPT !.tries = @ - 1]}
         /\ UNCHANGED <<start, refs, stored, cleanup>>
    ELSE Settled(r, FALSE)

Report(r) ==
    /\ \/ FinishAttempt(r.id, r.outcome) /\ (Settled(r, TRUE) \/ TryAgain(r))
       \/ UNCHANGED serverVars /\ (Settled(r, FALSE) \/ TryAgain(r))
    /\ UNCHANGED <<held, sent, mounted>>

ReportFor(then, by) ==
    \E r \in reports : r.then = then /\ r.by = by /\ Report(r)

-----------------------------------------------------------------------------
(* start(), from the microphone on *)

\* Mutant: the generation is not compared after the prompt.
MicrophoneGrantedLate(a) ==
    /\ start[a] = "microphone"
    /\ start' = At(a, "bootstrap")
    /\ mic' = mic \cup {a}
    /\ sent' = sent \cup {a}
    /\ UNCHANGED <<serverVars, refs, open, stored, cleanup, reports, mounted>>

\* A stream that comes after the end is stopped at once.
MicrophoneGranted(a) ==
    /\ start[a] = "microphone"
    /\ IF fresh = a
       THEN /\ start' = At(a, "bootstrap")
            /\ mic' = mic \cup {a}
            /\ sent' = sent \cup {a}
       ELSE start' = At(a, "over") /\ UNCHANGED <<mic, sent>>
    /\ UNCHANGED <<serverVars, refs, open, stored, cleanup, reports, mounted>>

\* Denied, missing or busy.  An AbortError of the device is taken for an abort
\* by the hook itself: nothing is closed and the page goes on asking.
MicrophoneDenied(a) ==
    /\ start[a] = "microphone"
    /\ \/ Fails(a, mic)
       \/ start' = At(a, "over") /\ UNCHANGED <<refs, held, cleanup, reports>>
    /\ UNCHANGED <<serverVars, stored, sent, mounted>>

\* The backend answers, or the network fails.  connect() throws at once if the
\* secret's time is over, before it takes the stream.
BootstrapSucceeds(a) ==
    /\ start[a] = "bootstrap"
    /\ boot[a] = "granted"
    /\ IF fresh # a
       THEN /\ start' = At(a, "over")
            /\ mic' = mic \ {a}
            /\ UNCHANGED <<refs, open, cleanup, reports>>
       ELSE \/ /\ start' = At(a, "signaling")
               /\ client' = a
               /\ open' = open \cup {a}
               /\ UNCHANGED <<fresh, current, starting, mic, cleanup, reports>>
            \/ Close(At(a, "expired"), mic, "ended", 2)
    /\ UNCHANGED <<serverVars, stored, sent, mounted>>

BootstrapFails(a) ==
    /\ start[a] = "bootstrap"
    /\ Fails(a, IF client = None THEN mic \ {a} ELSE mic)
    /\ UNCHANGED <<serverVars, stored, sent, mounted>>

Signaled(a) ==
    /\ start[a] = "signaling"
    /\ start' = At(a, "configuration")
    /\ UNCHANGED <<serverVars, refs, held, stored, cleanup, sent, reports, mounted>>

\* The provider has confirmed the configuration: the backend is told, unless
\* another attempt has become the current one.
Superseded(a) ==
    /\ start' = At(a, "over")
    /\ open' = open \ {a}
    /\ mic' = mic \ {a}
    /\ UNCHANGED <<refs, cleanup, reports>>

Configured(a) ==
    /\ start[a] = "configuration"
    /\ IF fresh = a
       THEN start' = At(a, "confirming") /\ UNCHANGED <<refs, held, cleanup, reports>>
       ELSE Superseded(a)
    /\ UNCHANGED <<serverVars, stored, sent, mounted>>

\* Errors and time-outs: 15 s for signaling, 8 s for the configuration.
ConnectFails(a) ==
    /\ start[a] \in {"signaling", "configuration"}
    /\ Fails(a, mic)
    /\ UNCHANGED <<serverVars, stored, sent, mounted>>

\* POST connected and what follows its answer.  A request that was sent before
\* the end arrives after it, too.
Confirmed(a) ==
    /\ start[a] = "confirming"
    /\ ConnectedOK(a)
    /\ MarkConnected(a)
    /\ IF fresh = a
       THEN /\ start' = At(a, "live")
            /\ starting' = FALSE
            /\ UNCHANGED <<fresh, current, client, held, cleanup, reports>>
       ELSE Superseded(a)
    /\ UNCHANGED <<stored, sent, mounted>>

ConfirmFails(a) ==
    /\ start[a] = "confirming"
    /\ UNCHANGED serverVars \/ MarkConnected(a)
    /\ Fails(a, mic)
    /\ UNCHANGED <<stored, sent, mounted>>

-----------------------------------------------------------------------------
(* What happens to a session *)

\* onError of an open client: provider, transport, audio or microphone.
Breaks ==
    /\ open # {}
    /\ Close(start, mic, "ended", 2)
    /\ UNCHANGED <<serverVars, stored, sent, mounted>>

\* The stop button: the page shows it while a call is active.
End ==
    /\ mounted /\ fresh # None
    /\ Close(start, mic, "ended", 2)
    /\ UNCHANGED <<serverVars, stored, sent, mounted>>

TimeIsUp ==
    /\ \E a \in Attempts : start[a] = "live"
    /\ Close(start, mic, "ended", 2)
    /\ UNCHANGED <<serverVars, stored, sent, mounted>>

\* pagehide; the page may come back from the browser's cache.
PageHide ==
    /\ mounted /\ current # None
    /\ Close(start, mic, "abandoned", 1)
    /\ UNCHANGED <<serverVars, stored, sent, mounted>>

\* The user goes to another page of the application: the hook's steps go on.
Leave ==
    /\ mounted
    /\ Impatient \/ \A a \in Attempts : start[a] \notin Pressed
    /\ Close(start, mic, "abandoned", 1)
    /\ mounted' = FALSE
    /\ UNCHANGED <<serverVars, stored, sent>>

\* A request whose page is gone: nobody waits for its answer or tries again.
Unwatched(r) == Finish(r.id, r.outcome, 1, "nobody", None)

\* The document goes, with or without pagehide: its steps, streams and clients
\* with it, while requests that were sent may still arrive.
Unload ==
    /\ Cardinality(reports) <= MaxLeft
    /\ mounted' = FALSE
    /\ start' = [a \in Attempts |->
          IF start[a] \in (Pressed \cup Running) \ {"confirming"} THEN "over" ELSE start[a]]
    /\ fresh' = None /\ current' = None /\ client' = None
    /\ starting' = FALSE /\ cleanup' = FALSE
    /\ open' = {} /\ mic' = {}
    /\ reports' = {Unwatched(r) : r \in reports}
    /\ UNCHANGED <<serverVars, stored, sent>>

\* A new instance of the hook, with refs of its own, reports the attempt that
\* sessionStorage names.  A session that began after the page was left has no
\* page, and is followed no further.
Mount ==
    /\ ~mounted
    /\ Cardinality(reports) <= MaxLeft
    /\ fresh = None /\ \A a \in Attempts : start[a] \notin Pressed
    /\ mounted' = TRUE
    /\ current' = None /\ cleanup' = FALSE
    /\ reports' =
          {IF r.then = "cleanup" THEN [r EXCEPT !.then = "storage"] ELSE r : r \in reports}
          \cup {Finish(a, "abandoned", 2, "storage", None) : a \in {stored} \ {None}}
    /\ UNCHANGED <<serverVars, start, fresh, starting, client, held, stored, sent>>

-----------------------------------------------------------------------------
(* The backend *)

Arrives(a) ==
    /\ a \in sent
    /\ sent' = sent \ {a}
    /\ ScanStale(a)
    /\ UNCHANGED <<start, refs, held, stored, cleanup, reports, mounted>>

Backend ==
    /\ \/ \E a \in Attempts :
             \/ AbandonStale(a) \/ CreateAttempt(a) \/ ProvisionAttempt(a)
             \/ MarkFailed(a) \/ AgesOut(a)
       \/ Restart
    /\ UNCHANGED browserVars

\* A step of start() that the user does not have to make.
Proceeds(a) ==
    \/ CleanupAwaited(a) \/ ReportFor("start", a)
    \/ BootstrapSucceeds(a) \/ BootstrapFails(a)
    \/ Signaled(a) \/ Configured(a) \/ ConnectFails(a)
    \/ Confirmed(a) \/ ConfirmFails(a)

Next ==
    \/ \E a \in Attempts :
          \/ PressStart(a) \/ MicrophoneGranted(a) \/ MicrophoneDenied(a)
          \/ Proceeds(a) \/ Arrives(a)
    \/ \E then \in {"cleanup", "storage", "nobody"} : ReportFor(then, None)
    \/ Breaks \/ End \/ TimeIsUp \/ PageHide \/ Leave \/ Unload \/ Mount
    \/ Backend

\* Every request is answered or fails, and the time-outs of connect() pass.
Fairness ==
    /\ WF_vars(ReportFor("cleanup", None))
    /\ \A a \in Attempts : WF_vars(Proceeds(a))

Spec == Init /\ [][Next]_vars /\ Fairness

-----------------------------------------------------------------------------
\* If nobody presses start again or leaves the page while a press still waits
\* (Impatient is FALSE; with it OneSession fails): the only open client is the one
\* the hook knows and closes, it is the newest start's, and a microphone is on for
\* the newest start or for one whose secret was too old: connect() threw before it
\* took the stream, so no cleanup stops it, against what the documentation says
\* (MicrophoneReleased).  Otherwise a late answer of the prompt, the backend or the
\* provider never revives what was closed.
HeldByNewest ==
    /\ open \subseteq {client}
    /\ client \in {None, fresh}
    /\ fresh \in {None, current}
    /\ \A a \in mic : a = fresh \/ start[a] = "expired"

\* While a session is live the backend's row says so: a call that the user
\* talks in was confirmed and no report of an earlier one, a reload or a
\* cancelled start has ended it.  Only a session so long that it is stale may
\* be abandoned while it runs.
LiveMeansConnected ==
    \A a \in Attempts : start[a] = "live" =>
        status[a] = "connected" \/ (a \in old /\ status[a] = "abandoned")

\* Both: what is open is the newest start's, and the backend's row knows of it.
SessionIsCurrent == HeldByNewest /\ LiveMeansConnected

\* A start that runs can be found again after a crash of the page: nothing that
\* an earlier attempt's report continues takes its id out of the storage.
Recoverable == fresh # None => stored = fresh

\* The id of an attempt stays in the storage until the backend knows the
\* attempt's end, or until the next start has tried to report it.
KeptUntilReported ==
    [][stored \notin {None, stored'} =>
          \/ status'[stored] \in TerminalStatuses
          \/ \E r \in reports \ reports' : r.id = stored /\ r.then = "start"]_vars

\* Both: no attempt is forgotten before the backend knows how it ended.
ReportsKept == []Recoverable /\ KeptUntilReported

\* A press of the start button leads to the microphone, and from there to a
\* session or an end: no step waits for ever for an earlier cleanup, for a
\* report or for an answer of the backend or the provider.
StartSettles ==
    \A a \in Attempts :
        start[a] \in Pressed \cup Connecting \cup {"confirming"}
            ~> start[a] \in {"microphone", "live"} \cup Over

\* docs/realtime-e2e-repair-2026-07-24.md: startingRef, the client and the
\* cleanup reject a second start, so one session at most is open.
OneSession == Cardinality(open) <= 1

\* docs/realtime-voice.md, "Cleanup und Sitzungsgrenze": an error uses the cleanup
\* that stops the microphone's tracks, so no start that is over has one.
MicrophoneReleased == \A a \in mic : start[a] \notin Over
=============================================================================
